---------------------- MODULE KeyRotationHistoryProofs ----------------------
(***************************************************************************)
(* Theorems about the history of a dialog that rotates its key, for every  *)
(* value of the constants of KeyRotation: it is in the order of the        *)
(* protocol, a rotation has one key while no page is reloaded, a request   *)
(* has one answer when a page runs its handlers one at a time; as long as  *)
(* no page is reloaded and no user begins a rotation while the other page  *)
(* waits in one it began, quiet pages have one key and without a fault no  *)
(* rotation hangs; when one user alone begins them, keys are handed over   *)
(* as KeyHandover says.                                                    *)
(***************************************************************************)
EXTENDS KeyRotationProofs, FiniteSetTheorems

-----------------------------------------------------------------------------
(* Messages, whatever their order, and the pages a step leaves alone *)

\* The messages of a queue, a socket or the history, whatever their order.
Elements(s) == {s[i] : i \in DOMAIN s}

\* What the operations on sequences do to the messages they hold.
LEMMA ElementsOf ==
    ASSUME NEW S, NEW s \in Seq(S), NEW q \in Seq(S)
    PROVE  /\ Elements(s) \subseteq S
           /\ Elements(s \o q) = Elements(s) \cup Elements(q)
           /\ s # <<>> => Head(s) \in Elements(s) /\ Elements(Tail(s)) \subseteq Elements(s)
           /\ \A n \in 0..Len(s) : Elements(SubSeq(s, 1, n)) \subseteq Elements(s)
           /\ \A m \in S : Elements(Append(s, m)) = Elements(s) \cup {m}
<1>1. Elements(s) \subseteq S
  BY DEF Elements
<1>2. Elements(s \o q) = Elements(s) \cup Elements(q)
  <2>1. /\ s \o q \in Seq(S) /\ Len(s \o q) = Len(s) + Len(q)
        /\ Len(s) \in Nat /\ Len(q) \in Nat
        /\ DOMAIN s = 1..Len(s) /\ DOMAIN q = 1..Len(q) /\ DOMAIN (s \o q) = 1..(Len(s) + Len(q))
        /\ \A i \in 1..Len(s) : (s \o q)[i] = s[i]
        /\ \A i \in 1..Len(q) : (s \o q)[Len(s) + i] = q[i]
    OBVIOUS
  <2>2. ASSUME NEW i \in 1..(Len(s) + Len(q))
        PROVE  (s \o q)[i] \in Elements(s) \cup Elements(q)
    <3>1. CASE i <= Len(s)
      BY <2>1, <3>1 DEF Elements
    <3>2. CASE i > Len(s)
      <4>1. i - Len(s) \in 1..Len(q) /\ Len(s) + (i - Len(s)) = i
        BY <2>1, <3>2
      <4> QED
        BY <2>1, <4>1 DEF Elements
    <3> QED
      BY <2>1, <3>1, <3>2
  <2>3. ASSUME NEW i \in 1..Len(s) PROVE s[i] \in Elements(s \o q)
    <3>1. i \in 1..(Len(s) + Len(q))
      BY <2>1
    <3> QED
      BY <2>1, <3>1 DEF Elements
  <2>4. ASSUME NEW i \in 1..Len(q) PROVE q[i] \in Elements(s \o q)
    <3>1. Len(s) + i \in 1..(Len(s) + Len(q))
      BY <2>1
    <3> QED
      BY <2>1, <3>1 DEF Elements
  <2>5. /\ \A m \in Elements(s \o q) : m \in Elements(s) \cup Elements(q)
        /\ \A m \in Elements(s) \cup Elements(q) : m \in Elements(s \o q)
    BY <2>1, <2>2, <2>3, <2>4 DEF Elements
  <2> QED
    BY <2>5
<1>3. s # <<>> => Head(s) \in Elements(s) /\ Elements(Tail(s)) \subseteq Elements(s)
  <2> SUFFICES ASSUME s # <<>>
               PROVE  Head(s) \in Elements(s) /\ Elements(Tail(s)) \subseteq Elements(s)
    OBVIOUS
  <2>1. /\ DOMAIN s = 1..Len(s) /\ Len(s) \in Nat \ {0} /\ Head(s) = s[1]
        /\ DOMAIN Tail(s) = 1..(Len(s) - 1)
        /\ \A i \in 1..(Len(s) - 1) : Tail(s)[i] = s[i + 1] /\ i + 1 \in 1..Len(s)
    OBVIOUS
  <2> QED
    BY <2>1 DEF Elements
<1>4. ASSUME NEW n \in 0..Len(s) PROVE Elements(SubSeq(s, 1, n)) \subseteq Elements(s)
  <2>1. /\ DOMAIN s = 1..Len(s) /\ DOMAIN SubSeq(s, 1, n) = 1..n
        /\ \A i \in 1..n : SubSeq(s, 1, n)[i] = s[i] /\ i \in 1..Len(s)
    OBVIOUS
  <2> QED
    BY <2>1 DEF Elements
<1>5. ASSUME NEW m \in S PROVE Elements(Append(s, m)) = Elements(s) \cup {m}
  <2>1. /\ DOMAIN s = 1..Len(s) /\ Len(s) \in Nat /\ DOMAIN Append(s, m) = 1..(Len(s) + 1)
        /\ \A i \in 1..Len(s) : Append(s, m)[i] = s[i] /\ i \in 1..(Len(s) + 1)
        /\ Append(s, m)[Len(s) + 1] = m /\ Len(s) + 1 \in 1..(Len(s) + 1)
        /\ \A i \in 1..(Len(s) + 1) : i \in 1..Len(s) \/ i = Len(s) + 1
    OBVIOUS
  <2> QED
    BY <2>1 DEF Elements
<1> QED
  BY <1>1, <1>2, <1>3, <1>4, <1>5

\* A step of one page leaves the other page as it is.
SamePage(d) ==
    /\ rot'[d] = rot[d] /\ deriving'[d] = deriving[d] /\ sending'[d] = sending[d]
    /\ key'[d] = key[d] /\ seen'[d] = seen[d] /\ resolved'[d] = resolved[d]
    /\ queue'[d] = queue[d] /\ slot'[d] = slot[d]
    /\ used'[d] = used[d] /\ reloads'[d] = reloads[d] /\ connected'[d] = connected[d]

LEMMA PagesApart ==
    ASSUME IInv, NEW c \in Clients, ClientStep(c), NEW d \in Clients, d # c
    PROVE  SamePage(d)
<1> USE DEF SamePage, SetRot, page, net, counters
<1>0. TypeOK
  BY DEF IInv
<1> USE <1>0 DEF TypeOK
<1>1. CASE Initiate(c)
  BY <1>1 DEF Initiate, MakeEph, SaveEphPrivateKey, StartSend, ResetRotation
<1>2. CASE Accept(c)
  BY <1>2 DEF Accept, MakeEph, StartDerive
<1>3. CASE AcceptExpired(c)
  BY <1>3 DEF AcceptExpired, ResetRotation, LoadMessages
<1>4. CASE Reject(c)
  BY <1>4 DEF Reject, StartSend, ResetRotation, LoadMessages
<1>5. CASE SendText(c)
  BY <1>5 DEF SendText, StartSend
<1>6. ASSUME NEW t \in sending[c], Sent(c, t)
      PROVE  sending'[d] = sending[d] /\ queue'[d] = queue[d]
  BY <1>6 DEF Sent
<1>7. CASE Handle(c)
  BY <1>7 DEF Handle, ShowOrIgnore, ProcessIncomingRequest, ProcessAccept, ProcessConfirm,
     ProcessComplete, ProcessReject, Taking, StartDerive, StartSend, CompleteRotation,
     ResetRotation, LoadMessages
<1>8. CASE AcceptDerived(c)
  BY <1>8 DEF AcceptDerived, ResetRotation, LoadMessages, SaveEphPrivateKey, StartSend
<1>9. CASE ConfirmDerived(c)
  BY <1>9 DEF ConfirmDerived, ActivateNewKey, StartSend
<1>10. CASE RequestOrConfirmSent(c)
  BY <1>6, <1>10 DEF RequestOrConfirmSent
<1>11. CASE AcceptSent(c)
  BY <1>6, <1>11 DEF AcceptSent, ActivateNewKey, LoadMessages
<1>12. CASE RejectSent(c)
  BY <1>6, <1>12 DEF RejectSent, ResetRotation, LoadMessages
<1>13. CASE CompleteSent(c)
  BY <1>6, <1>13 DEF CompleteSent, CompleteRotation, LoadMessages
<1>14. CASE TextSent(c)
  BY <1>6, <1>14 DEF TextSent
<1>15. LoadPage(c) =>
          /\ key'[d] = key[d] /\ seen'[d] = seen[d] /\ resolved'[d] = resolved[d]
          /\ queue'[d] = queue[d] /\ slot'[d] = slot[d]
          /\ used'[d] = used[d] /\ reloads'[d] = reloads[d] /\ connected'[d] = connected[d]
  BY DEF LoadPage, LoadMessages
<1>16. CASE Reload(c)
  BY <1>15, <1>16 DEF Reload, ReloadIdle, ReloadToRequest, ReloadAfterOwnAccept,
     ReloadAfterConfirm, NoDeriving, NoSending
<1>17. CASE Cut(c)
  BY <1>17 DEF Cut
<1>18. CASE Reconnect(c)
  BY <1>18 DEF Reconnect
<1> QED
  BY <1>1, <1>2, <1>3, <1>4, <1>5, <1>7, <1>8, <1>9, <1>10, <1>11, <1>12, <1>13, <1>14,
     <1>16, <1>17, <1>18 DEF ClientStep, Resume

-----------------------------------------------------------------------------
(* The history is in order *)

\* The server has stored such a message of c.
Logged(type, c, rid) ==
    \E m \in Elements(log) : m.type = type /\ m.from = c /\ m.rid = rid

\* What the message or the handler m of c answers has been stored before it.
Follows(c, m) ==
    /\ m.type \in {"ACCEPT", "REJECT"} => Logged("REQUEST", Peer(c), m.rid)
    /\ m.type = "CONFIRM" => \E d \in Clients : Logged("ACCEPT", d, m.rid)
    /\ m.type = "COMPLETE" => Logged("CONFIRM", Peer(c), m.rid)

Tasks(c) == deriving[c] \cup sending[c] \cup Elements(queue[c])

PageFollows(c) ==
    /\ \A m \in Elements(inbox[c]) : Logged(m.type, Peer(c), m.rid)
    /\ rot[c].pend.rid # None => Logged("REQUEST", Peer(c), rot[c].pend.rid)
    /\ \A t \in Tasks(c) : Follows(c, t)

\* The inductive invariant of the history: it is in order, and whatever a page is
\* about to send, or still keeps, answers something that is in it.
StoryInv == StoredInOrder /\ \A c \in Clients : PageFollows(c)

LEMMA StoryInit == Init => StoryInv
<1> SUFFICES ASSUME Init PROVE StoryInv
  OBVIOUS
<1>1. StoredInOrder
  BY DEF Init, StoredInOrder
<1>2. \A c \in Clients : PageFollows(c)
  BY DEF Init, PageFollows, Tasks, Elements, Idle, NoSaved
<1> QED
  BY <1>1, <1>2 DEF StoryInv

\* The message at i comes in its turn.
InTurn(i) ==
    LET other == Peer(log[i].from)
    IN /\ log[i].type \in {"ACCEPT", "REJECT"} => StoredBefore(i, "REQUEST", other)
       /\ log[i].type = "CONFIRM" => \E c \in Clients : StoredBefore(i, "ACCEPT", c)
       /\ log[i].type = "COMPLETE" => StoredBefore(i, "CONFIRM", other)

\* A step that stores nothing.
LEMMA StoryStays ==
    ASSUME IInv, StoryInv, NEW c \in Clients, log' = log,
           \A d \in Clients : d # c => SamePage(d) /\ inbox'[d] = inbox[d],
           Elements(inbox'[c]) \subseteq Elements(inbox[c]),
           rot'[c].pend.rid # None => Logged("REQUEST", Peer(c), rot'[c].pend.rid),
           \A t \in deriving'[c] \cup sending'[c] \cup Elements(queue'[c]) : Follows(c, t)
    PROVE  StoryInv'
<1>1. \A type, d, rid : Logged(type, d, rid)' <=> Logged(type, d, rid)
  BY DEF Logged
<1>2. StoredInOrder'
  BY DEF StoryInv, StoredInOrder, StoredBefore
<1>3. PageFollows(c)'
  BY <1>1 DEF StoryInv, PageFollows, Tasks, Follows
<1>4. ASSUME NEW d \in Clients, d # c PROVE PageFollows(d)'
  <2>1. SamePage(d) /\ inbox'[d] = inbox[d] /\ PageFollows(d)
    BY <1>4 DEF StoryInv
  <2> QED
    BY <1>1, <2>1 DEF PageFollows, Tasks, Follows, SamePage
<1> QED
  BY <1>2, <1>3, <1>4 DEF StoryInv

\* A step that stores messages of c, each in its turn.
LEMMA StoryGrows ==
    ASSUME IInv, StoryInv, NEW c \in Clients, NEW ms \in Seq(MessagesFrom(c)), Forward(c, ms),
           \A m \in Elements(ms) : Follows(c, m),
           \A d \in Clients : d # c => SamePage(d),
           rot'[c].pend.rid \in {None, rot[c].pend.rid},
           deriving'[c] \cup sending'[c] \cup Elements(queue'[c]) \subseteq Tasks(c)
    PROVE  StoryInv'
<1>0. /\ log \in Seq(Message) /\ ms \in Seq(Message) /\ log' = log \o ms
      /\ \A d \in Clients : inbox[d] \in Seq(Message)
  <2>1. \A i \in DOMAIN ms : ms[i] \in Message
    BY DEF MessagesFrom
  <2> QED
    BY <2>1 DEF IInv, TypeOK, Forward
<1>1. Elements(log') = Elements(log) \cup Elements(ms)
  BY <1>0, ElementsOf
<1>2. \A type, d, rid : Logged(type, d, rid) => Logged(type, d, rid)'
  BY <1>1 DEF Logged
<1>3. \A d \in Clients : \A m : Follows(d, m) => Follows(d, m)'
  BY <1>2 DEF Follows
<1>4. \A m \in Elements(ms) : m.from = c /\ m \in Message /\ Logged(m.type, c, m.rid)'
  <2>1. \A m \in Elements(ms) : m \in MessagesFrom(c)
    BY DEF Elements
  <2> QED
    BY <1>1, <2>1 DEF Logged, MessagesFrom
<1>5. StoredInOrder'
  <2>0. /\ StoredInOrder <=> \A i \in DOMAIN log : InTurn(i)
        /\ StoredInOrder' <=> \A i \in DOMAIN log' : InTurn(i)'
    BY DEF StoredInOrder, InTurn
  <2> SUFFICES ASSUME NEW i \in DOMAIN log'
               PROVE  InTurn(i)'
    BY <2>0
  <2>1. /\ DOMAIN log = 1..Len(log) /\ Len(log) \in Nat /\ Len(ms) \in Nat
        /\ DOMAIN ms = 1..Len(ms) /\ i \in 1..(Len(log) + Len(ms))
        /\ \A j \in 1..Len(log) : log'[j] = log[j]
        /\ \A j \in 1..Len(ms) : log'[Len(log) + j] = ms[j]
    BY <1>0
  <2>2. CASE i <= Len(log)
    <3>1. i \in DOMAIN log /\ log'[i] = log[i] /\ \A j \in 1..(i - 1) : log'[j] = log[j]
      BY <2>1, <2>2
    <3>2. \A type, d : StoredBefore(i, type, d) => StoredBefore(i, type, d)'
      BY <3>1 DEF StoredBefore
    <3>3. InTurn(i)
      BY <2>0, <3>1 DEF StoryInv
    <3> QED
      BY <3>1, <3>2, <3>3 DEF InTurn
  <2>3. CASE i > Len(log)
    <3>1. i - Len(log) \in 1..Len(ms) /\ Len(log) + (i - Len(log)) = i
      BY <2>1, <2>3
    <3>2. log'[i] \in Elements(ms)
      BY <2>1, <3>1 DEF Elements
    <3>3. \A type, d : Logged(type, d, log'[i].rid) => StoredBefore(i, type, d)'
      <4> SUFFICES ASSUME NEW type, NEW d, Logged(type, d, log'[i].rid)
                   PROVE  StoredBefore(i, type, d)'
        OBVIOUS
      <4>1. PICK j \in 1..Len(log) : log[j].type = type /\ log[j].from = d /\ log[j].rid = log'[i].rid
        BY <2>1 DEF Logged, Elements
      <4>2. j \in 1..(i - 1) /\ log'[j] = log[j]
        BY <2>1, <2>3
      <4> QED
        BY <4>1, <4>2 DEF StoredBefore
    <3>4. Follows(c, log'[i]) /\ log'[i].from = c
      BY <1>4, <3>2
    <3>5. \A type : Logged(type, Peer(c), log'[i].rid) => StoredBefore(i, type, Peer(c))'
      BY <3>3
    <3> QED
      BY <3>3, <3>4, <3>5 DEF Follows, InTurn
  <2> QED
    BY <2>1, <2>2, <2>3
<1>6. PageFollows(c)'
  <2>1. inbox'[c] = inbox[c]
    BY PeerIsClient DEF Forward, IInv, TypeOK
  <2>2. /\ \A m \in Elements(inbox[c]) : Logged(m.type, Peer(c), m.rid)
        /\ rot[c].pend.rid # None => Logged("REQUEST", Peer(c), rot[c].pend.rid)
        /\ \A t \in Tasks(c) : Follows(c, t)
    BY DEF StoryInv, PageFollows
  <2>3. \A t \in Tasks(c)' : Follows(c, t)'
    BY <1>3, <2>2 DEF Tasks
  <2> QED
    BY <1>2, <2>1, <2>2, <2>3 DEF PageFollows
<1>7. ASSUME NEW d \in Clients, d # c PROVE PageFollows(d)'
  <2>0. d = Peer(c) /\ Peer(d) = c
    BY <1>7, PeerIsClient DEF Clients, Peer
  <2>1. /\ \A m \in Elements(inbox[d]) : Logged(m.type, Peer(d), m.rid)
        /\ rot[d].pend.rid # None => Logged("REQUEST", Peer(d), rot[d].pend.rid)
        /\ \A t \in Tasks(d) : Follows(d, t)
    BY DEF StoryInv, PageFollows
  <2>2. SamePage(d)
    BY <1>7
  <2>3. Elements(inbox'[d]) \subseteq Elements(inbox[d]) \cup Elements(ms)
    <3>1. inbox'[d] \in {inbox[d], inbox[d] \o ms}
      BY <2>0 DEF Forward, IInv, TypeOK
    <3>2. Elements(inbox[d] \o ms) = Elements(inbox[d]) \cup Elements(ms)
      BY <1>0, ElementsOf
    <3> QED
      BY <3>1, <3>2
  <2>4. \A m \in Elements(inbox'[d]) : Logged(m.type, Peer(d), m.rid)'
    BY <1>2, <1>4, <2>0, <2>1, <2>3
  <2>5. \A t \in Tasks(d)' : Follows(d, t)'
    BY <1>3, <2>1, <2>2 DEF Tasks, SamePage
  <2> QED
    BY <1>2, <2>1, <2>2, <2>4, <2>5 DEF PageFollows, SamePage
<1> QED
  BY <1>5, <1>6, <1>7 DEF StoryInv

\* The history stays, and no socket carries anything more.
NothingStored(c) ==
    /\ log' = log
    /\ \A d \in Clients : d # c => inbox'[d] = inbox[d]
    /\ Elements(inbox'[c]) \subseteq Elements(inbox[c])

\* What the handlers and buttons do that store nothing.
LEMMA StoresNothing ==
    ASSUME IInv, NEW c \in Clients,
           \/ Initiate(c) \/ Accept(c) \/ AcceptExpired(c) \/ AcceptDerived(c) \/ Reject(c)
           \/ SendText(c) \/ Handle(c) \/ ConfirmDerived(c) \/ Reload(c) \/ Cut(c)
    PROVE  NothingStored(c)
<1>0. inbox \in [Clients -> Seq(Message)]
  BY DEF IInv, TypeOK
<1>1. /\ inbox[c] # <<>> => Elements(Tail(inbox[c])) \subseteq Elements(inbox[c])
      /\ \A n \in 0..Len(inbox[c]) : Elements(SubSeq(inbox[c], 1, n)) \subseteq Elements(inbox[c])
      /\ Elements(<<>>) = {}
  BY <1>0, ElementsOf DEF Elements
<1>2. ASSUME log' = log, inbox' = inbox PROVE NothingStored(c)
  BY <1>2 DEF NothingStored
<1>3. ASSUME log' = log, inbox[c] # <<>>, inbox' = [inbox EXCEPT ![c] = Tail(@)]
      PROVE  NothingStored(c)
  BY <1>0, <1>1, <1>3 DEF NothingStored
<1>4. CASE Initiate(c) \/ Accept(c) \/ AcceptExpired(c) \/ AcceptDerived(c) \/ Reject(c)
           \/ SendText(c) \/ ConfirmDerived(c)
  BY <1>2, <1>4 DEF Initiate, Accept, AcceptExpired, AcceptDerived, Reject, SendText,
     ConfirmDerived, net
<1>5. CASE Handle(c)
  BY <1>3, <1>5 DEF Handle, ShowOrIgnore, ProcessIncomingRequest, ProcessAccept,
     ProcessConfirm, ProcessComplete, ProcessReject, Taking
<1>6. CASE Reload(c)
  <2>1. log' = log /\ inbox' = [inbox EXCEPT ![c] = <<>>]
    BY <1>6 DEF Reload, ReloadIdle, ReloadToRequest, ReloadAfterOwnAccept,
       ReloadAfterConfirm, LoadPage
  <2> QED
    BY <1>0, <1>1, <2>1 DEF NothingStored
<1>7. CASE Cut(c)
  <2>1. log' = log /\ \E n \in 0..Len(inbox[c]) : inbox' = [inbox EXCEPT ![c] = SubSeq(@, 1, n)]
    BY <1>7 DEF Cut
  <2> QED
    BY <1>0, <1>1, <2>1 DEF NothingStored
<1> QED
  BY <1>4, <1>5, <1>6, <1>7

\* The user's buttons and the resumed handlers that store nothing.
LEMMA StoryButtons ==
    ASSUME IInv, StoryInv, NEW c \in Clients, ClientStep(c),
           \/ Initiate(c) \/ Accept(c) \/ AcceptExpired(c) \/ AcceptDerived(c) \/ Reject(c)
           \/ SendText(c) \/ ConfirmDerived(c) \/ Cut(c)
    PROVE  StoryInv'
<1> DEFINE Pend == rot'[c].pend.rid # None => Logged("REQUEST", Peer(c), rot'[c].pend.rid)
           Task == \A t \in deriving'[c] \cup sending'[c] \cup Elements(queue'[c]) : Follows(c, t)
<1>0. TypeOK
  BY DEF IInv
<1>1. /\ rot[c].pend.rid # None => Logged("REQUEST", Peer(c), rot[c].pend.rid)
      /\ \A t \in deriving[c] \cup sending[c] \cup Elements(queue[c]) : Follows(c, t)
  BY DEF StoryInv, PageFollows, Tasks
<1>2. queue' = queue
  BY DEF Initiate, Accept, AcceptExpired, AcceptDerived, Reject, SendText, ConfirmDerived,
     Cut, page
<1>3. ASSUME rot'[c].pend.rid \in {None, rot[c].pend.rid} PROVE Pend
  BY <1>1, <1>3
<1>4. ASSUME rot'[c].pend \in {NoSaved, rot[c].pend} PROVE Pend
  BY <1>3, <1>4 DEF NoSaved
<1>5. ASSUME NEW u, Follows(c, u),
             deriving'[c] \cup sending'[c] \subseteq deriving[c] \cup sending[c] \cup {u}
      PROVE  Task
  BY <1>1, <1>2, <1>5
<1>6. ASSUME deriving'[c] \cup sending'[c] \subseteq deriving[c] \cup sending[c] PROVE Task
  BY <1>1, <1>2, <1>6
<1>7. ASSUME Pend, Task PROVE StoryInv'
  <2>1. NothingStored(c) /\ \A d \in Clients : d # c => SamePage(d)
    BY StoresNothing, PagesApart
  <2> QED
    BY <1>7, <2>1, StoryStays DEF NothingStored
<1> HIDE DEF Pend, Task
<1>8. (ResetRotation(c) \/ UNCHANGED rot) => rot'[c].pend \in {NoSaved, rot[c].pend}
  BY <1>0 DEF ResetRotation, SetRot, Idle, TypeOK
<1>9. CASE Initiate(c)
  <2>1. rot'[c].pend \in {NoSaved, rot[c].pend}
    BY <1>0, <1>8, <1>9 DEF Initiate, SetRot, TypeOK
  <2>2. \E u : Follows(c, u) /\ deriving'[c] \cup sending'[c] \subseteq deriving[c] \cup sending[c] \cup {u}
    <3> DEFINE u == [type |-> "REQUEST", rid |-> NextEph(c), eph |-> NextEph(c),
                     enc |-> key[c], newKey |-> key[c]]
    <3>1. Follows(c, u)
      BY DEF Follows
    <3>2. deriving'[c] \cup sending'[c] \subseteq deriving[c] \cup sending[c] \cup {u}
      BY <1>0, <1>9 DEF Initiate, StartSend, TypeOK
    <3> QED
      BY <3>1, <3>2
  <2> QED
    BY <1>4, <1>5, <1>7, <2>1, <2>2
<1>10. CASE Accept(c)
  <2> DEFINE u == [type |-> "ACCEPT", rid |-> rot[c].pend.rid, eph |-> NextEph(c),
                   newKey |-> DeriveNewKey(rot[c].pend.rid, NextEph(c), rot[c].pend.eph)]
  <2>1. rot' = rot /\ Follows(c, u)
    BY <1>1, <1>10 DEF Accept, CanAnswer, Follows
  <2>2. deriving'[c] \cup sending'[c] \subseteq deriving[c] \cup sending[c] \cup {u}
    BY <1>0, <1>10 DEF Accept, StartDerive, TypeOK
  <2> QED
    BY <1>4, <1>5, <1>7, <2>1, <2>2
<1>11. CASE AcceptExpired(c) \/ Cut(c)
  <2>1. rot'[c].pend \in {NoSaved, rot[c].pend} /\ deriving' = deriving /\ sending' = sending
    BY <1>8, <1>11 DEF AcceptExpired, Cut, page
  <2> QED
    BY <1>4, <1>6, <1>7, <2>1
<1>12. CASE AcceptDerived(c)
  <2>1. PICK t \in deriving[c] :
          /\ t.type = "ACCEPT"
          /\ deriving' = [deriving EXCEPT ![c] = @ \ {t}]
          /\ \/ ResetRotation(c) /\ UNCHANGED sending
             \/ /\ SetRot(c, [isPending |-> TRUE, status |-> "ACCEPT", cur |-> t.rid,
                              pend |-> IF connected[c] THEN rot[c].pend ELSE NoSaved,
                              priv |-> t.eph])
                /\ \/ StartSend(c, "ACCEPT", t.rid, t.eph, key[c], t.newKey)
                   \/ UNCHANGED sending
    BY <1>12 DEF AcceptDerived
  <2> DEFINE u == [type |-> "ACCEPT", rid |-> t.rid, eph |-> t.eph, enc |-> key[c],
                   newKey |-> t.newKey]
  <2>2. Follows(c, u)
    BY <1>1, <2>1 DEF Follows
  <2>3. rot'[c].pend \in {NoSaved, rot[c].pend}
    BY <1>0, <1>8, <2>1 DEF SetRot, TypeOK
  <2>4. deriving'[c] \cup sending'[c] \subseteq deriving[c] \cup sending[c] \cup {u}
    BY <1>0, <2>1 DEF StartSend, TypeOK
  <2> QED
    BY <1>4, <1>5, <1>7, <2>2, <2>3, <2>4
<1>13. CASE Reject(c)
  <2> DEFINE u == [type |-> "REJECT", rid |-> rot[c].pend.rid, eph |-> None,
                   enc |-> key[c], newKey |-> key[c]]
  <2>1. Follows(c, u)
    BY <1>1, <1>13 DEF Reject, CanAnswer, Follows
  <2>2. deriving'[c] \cup sending'[c] \subseteq deriving[c] \cup sending[c] \cup {u}
    BY <1>0, <1>13 DEF Reject, StartSend, TypeOK
  <2>3. rot'[c].pend \in {NoSaved, rot[c].pend}
    BY <1>8, <1>13 DEF Reject
  <2> QED
    BY <1>4, <1>5, <1>7, <2>1, <2>2, <2>3
<1>14. CASE SendText(c)
  <2> DEFINE u == [type |-> "TEXT", rid |-> None, eph |-> None,
                   enc |-> key[c], newKey |-> key[c]]
  <2>1. Follows(c, u)
    BY DEF Follows
  <2>2. deriving'[c] \cup sending'[c] \subseteq deriving[c] \cup sending[c] \cup {u}
    BY <1>0, <1>14 DEF SendText, StartSend, TypeOK
  <2>3. rot' = rot
    BY <1>14 DEF SendText
  <2> QED
    BY <1>4, <1>5, <1>7, <2>1, <2>2, <2>3
<1>15. CASE ConfirmDerived(c)
  <2>1. PICK t \in deriving[c] :
          /\ t.type = "CONFIRM"
          /\ deriving' = [deriving EXCEPT ![c] = @ \ {t}]
          /\ SetRot(c, [rot[c] EXCEPT !.status = "CONFIRM"])
          /\ \/ StartSend(c, "CONFIRM", t.rid, None, t.newKey, t.newKey)
             \/ UNCHANGED sending
    BY <1>15 DEF ConfirmDerived
  <2> DEFINE u == [type |-> "CONFIRM", rid |-> t.rid, eph |-> None, enc |-> t.newKey,
                   newKey |-> t.newKey]
  <2>2. Follows(c, u)
    BY <1>1, <2>1 DEF Follows
  <2>3. rot'[c].pend \in {NoSaved, rot[c].pend}
    <3>1. rot[c] \in Rotation /\ "CONFIRM" \in Statuses
      BY <1>0 DEF TypeOK, Statuses
    <3> DEFINE q == [rot[c] EXCEPT !.status = "CONFIRM"]
    <3>2. q.pend = rot[c].pend
      BY <3>1, StatusType
    <3> HIDE DEF q
    <3>3. rot' = [rot EXCEPT ![c] = q]
      BY <2>1 DEF SetRot, q
    <3> QED
      BY <1>0, <3>2, <3>3 DEF TypeOK
  <2>4. deriving'[c] \cup sending'[c] \subseteq deriving[c] \cup sending[c] \cup {u}
    BY <1>0, <2>1 DEF StartSend, TypeOK
  <2> QED
    BY <1>4, <1>5, <1>7, <2>2, <2>3, <2>4
<1> QED
  BY <1>9, <1>10, <1>11, <1>12, <1>13, <1>14, <1>15

\* The handlers of incoming messages.
LEMMA StoryHandled ==
    ASSUME IInv, StoryInv, NEW c \in Clients, ClientStep(c), Handle(c)
    PROVE  StoryInv'
<1> DEFINE m == Head(inbox[c])
           Pend == rot'[c].pend.rid # None => Logged("REQUEST", Peer(c), rot'[c].pend.rid)
           Task == \A t \in deriving'[c] \cup sending'[c] \cup Elements(queue'[c]) : Follows(c, t)
<1>0. TypeOK
  BY DEF IInv
<1>1. /\ rot[c].pend.rid # None => Logged("REQUEST", Peer(c), rot[c].pend.rid)
      /\ \A t \in deriving[c] \cup sending[c] \cup Elements(queue[c]) : Follows(c, t)
  BY DEF StoryInv, PageFollows, Tasks
<1>2. /\ inbox[c] # <<>> /\ queue' = queue
      /\ m \in Elements(inbox[c]) /\ Logged(m.type, Peer(c), m.rid)
  <2>1. inbox[c] # <<>> /\ queue' = queue
    BY DEF Handle, ShowOrIgnore, ProcessIncomingRequest, ProcessAccept, ProcessConfirm,
       ProcessComplete, ProcessReject, Taking, page
  <2>2. inbox[c] \in Seq(Message)
    BY <1>0 DEF TypeOK
  <2>3. m \in Elements(inbox[c])
    BY <2>1, <2>2, ElementsOf
  <2> QED
    BY <2>1, <2>3 DEF StoryInv, PageFollows
<1> HIDE DEF m
<1>3. ASSUME rot'[c].pend \in {NoSaved, rot[c].pend} PROVE Pend
  BY <1>1, <1>3 DEF NoSaved
<1>4. ASSUME NEW u, Follows(c, u),
             deriving'[c] \cup sending'[c] \subseteq deriving[c] \cup sending[c] \cup {u}
      PROVE  Task
  BY <1>1, <1>2, <1>4
<1>5. ASSUME deriving' = deriving, sending' = sending PROVE Task
  BY <1>1, <1>2, <1>5
<1>6. ASSUME Pend, Task PROVE StoryInv'
  <2>1. NothingStored(c) /\ \A d \in Clients : d # c => SamePage(d)
    BY StoresNothing, PagesApart
  <2> QED
    BY <1>6, <2>1, StoryStays DEF NothingStored
<1> HIDE DEF Pend, Task
<1>7. (ResetRotation(c) \/ CompleteRotation(c) \/ UNCHANGED rot) => rot'[c].pend \in {NoSaved, rot[c].pend}
  BY <1>0 DEF ResetRotation, CompleteRotation, SetRot, Idle, TypeOK
<1>8. CASE ShowOrIgnore(c)
  BY <1>3, <1>5, <1>6, <1>7, <1>8 DEF ShowOrIgnore, page
<1>9. CASE ProcessIncomingRequest(c)
  <2>1. m.type = "REQUEST" /\ deriving' = deriving /\ sending' = sending
    BY <1>9 DEF ProcessIncomingRequest, Taking, m
  <2>2. CASE rot' = rot
    BY <1>3, <1>5, <1>6, <1>7, <2>1, <2>2
  <2>3. CASE rot' # rot
    <3>1. rot'[c].pend.rid = m.rid
      BY <1>0, <1>9, <2>3 DEF ProcessIncomingRequest, SetRot, TypeOK, m
    <3>2. Pend
      BY <1>2, <2>1, <3>1 DEF Pend
    <3> QED
      BY <1>5, <1>6, <2>1, <3>2
  <2> QED
    BY <2>2, <2>3
<1>10. CASE ProcessAccept(c)
  <2> DEFINE r == Adopt(c, m.rid, "REQUEST")
             u == [type |-> "CONFIRM", rid |-> m.rid, eph |-> None,
                   newKey |-> DeriveNewKey(m.rid, r.priv, m.eph)]
  <2>1. m.type = "ACCEPT" /\ sending' = sending
    BY <1>10 DEF ProcessAccept, Taking, m
  <2>2. CASE UNCHANGED <<rot, deriving>>
    BY <1>3, <1>5, <1>6, <1>7, <2>1, <2>2
  <2>3. CASE SetRot(c, r) /\ deriving' = [deriving EXCEPT ![c] = @ \cup {u}]
    <3>1. Follows(c, u)
      BY <1>2, <2>1, PeerIsClient DEF Follows
    <3>2. r.pend = rot[c].pend
      <4>1. Taking(c, "ACCEPT") /\ "ACCEPT" \in Types
        BY <1>10 DEF ProcessAccept, Types
      <4>2. m \in MessagesFrom(Peer(c))
        BY <4>1, TakingKeeps DEF m
      <4>3. m.rid \in Rids
        BY <2>1, <4>2, EphOwners, PeerIsClient DEF MessagesFrom, WellFormed
      <4> QED
        BY <1>0, <4>3, AdoptType DEF Statuses
    <3> HIDE DEF u, r
    <3>3. rot'[c].pend = rot[c].pend
      BY <1>0, <2>3, <3>2 DEF SetRot, TypeOK
    <3>4. deriving'[c] \cup sending'[c] \subseteq deriving[c] \cup sending[c] \cup {u}
      BY <1>0, <2>1, <2>3 DEF TypeOK
    <3> QED
      BY <1>3, <1>4, <1>6, <3>1, <3>3, <3>4
  <2> QED
    BY <1>10, <2>2, <2>3 DEF ProcessAccept, StartDerive, m
<1>11. CASE ProcessConfirm(c)
  <2> DEFINE r == Adopt(c, m.rid, "ACCEPT")
             q == [r EXCEPT !.status = "COMPLETE"]
             u == [type |-> "COMPLETE", rid |-> m.rid, eph |-> None, enc |-> key[c],
                   newKey |-> key[c]]
  <2>1. m.type = "CONFIRM" /\ deriving' = deriving
    BY <1>11 DEF ProcessConfirm, Taking, m
  <2>2. CASE rot' = rot /\ sending' = sending
    BY <1>3, <1>5, <1>6, <1>7, <2>1, <2>2
  <2>3. CASE SetRot(c, q) /\ sending' = [sending EXCEPT ![c] = @ \cup {u}]
    <3>1. Follows(c, u)
      BY <1>2, <2>1 DEF Follows
    <3>2. q.pend = rot[c].pend
      <4>1. Taking(c, "CONFIRM") /\ "CONFIRM" \in Types
        BY <1>11 DEF ProcessConfirm, Types
      <4>2. m \in MessagesFrom(Peer(c))
        BY <4>1, TakingKeeps DEF m
      <4>3. m.rid \in Rids
        BY <2>1, <4>2 DEF MessagesFrom, WellFormed
      <4>4. r \in Rotation /\ r.pend = rot[c].pend
        BY <1>0, <4>3, AdoptType DEF Statuses
      <4> HIDE DEF r
      <4> QED
        BY <4>4, StatusType DEF Statuses
    <3> HIDE DEF u, r, q
    <3>3. rot'[c].pend = rot[c].pend
      BY <1>0, <2>3, <3>2 DEF SetRot, TypeOK
    <3>4. deriving'[c] \cup sending'[c] \subseteq deriving[c] \cup sending[c] \cup {u}
      BY <1>0, <2>1, <2>3 DEF TypeOK
    <3> QED
      BY <1>3, <1>4, <1>6, <3>1, <3>3, <3>4
  <2>4. CASE CompleteRotation(c) /\ sending' = sending
    BY <1>3, <1>5, <1>6, <1>7, <2>1, <2>4
  <2> QED
    BY <1>11, <2>2, <2>3, <2>4 DEF ProcessConfirm, StartSend, m
<1>12. CASE ProcessComplete(c) \/ ProcessReject(c)
  <2>1. /\ deriving' = deriving /\ sending' = sending
        /\ ResetRotation(c) \/ CompleteRotation(c)
    BY <1>12 DEF ProcessComplete, ProcessReject
  <2> QED
    BY <1>3, <1>5, <1>6, <1>7, <2>1
<1> QED
  BY <1>8, <1>9, <1>10, <1>11, <1>12 DEF Handle

\* The message of a handler is out, lost or queued.
LEMMA StorySent ==
    ASSUME IInv, StoryInv, NEW c \in Clients, ClientStep(c), NEW t \in sending[c], Sent(c, t),
           rot'[c].pend.rid \in {None, rot[c].pend.rid}, deriving' = deriving
    PROVE  StoryInv'
<1> DEFINE m == [type |-> t.type, from |-> c, rid |-> t.rid, eph |-> t.eph,
                 enc |-> t.enc, label |-> key[c]]
<1>0. TypeOK
  BY DEF IInv
<1>1. m \in MessagesFrom(c)
  <2>1. t \in Sending /\ WellFormed(c, t) /\ key[c] \in SessionKey
    BY DEF IInv, TypeOK, SendingFrom
  <2> QED
    BY <2>1 DEF Sending, Message, MessagesFrom, WellFormed
<1>2. Follows(c, m)
  <2>1. Follows(c, t)
    BY DEF StoryInv, PageFollows, Tasks
  <2> QED
    BY <2>1 DEF Follows
<1>3. /\ \A d \in Clients : d # c => SamePage(d)
      /\ sending'[c] \subseteq sending[c] /\ deriving'[c] = deriving[c]
  BY <1>0, PagesApart DEF Sent, TypeOK
<1>4. /\ rot'[c].pend.rid # None => Logged("REQUEST", Peer(c), rot'[c].pend.rid)
      /\ \A u \in deriving[c] \cup sending[c] \cup Elements(queue[c]) : Follows(c, u)
  BY DEF StoryInv, PageFollows, Tasks
<1>5. CASE Forward(c, <<m>>) /\ queue' = queue
  <2> HIDE DEF m
  <2>1. <<m>> \in Seq(MessagesFrom(c)) /\ Elements(<<m>>) = {m}
    BY <1>1 DEF Elements
  <2>2. \A x \in Elements(<<m>>) : Follows(c, x)
    BY <1>2, <2>1
  <2>3. deriving'[c] \cup sending'[c] \cup Elements(queue'[c]) \subseteq Tasks(c)
    BY <1>3, <1>5 DEF Tasks
  <2> DEFINE ms == <<m>>
  <2>4. ms \in Seq(MessagesFrom(c)) /\ Forward(c, ms) /\ \A x \in Elements(ms) : Follows(c, x)
    BY <1>5, <2>1, <2>2
  <2> HIDE DEF ms
  <2> QED
    BY <1>3, <2>3, <2>4, StoryGrows
<1>6. CASE UNCHANGED <<inbox, log>> /\ queue' \in {queue, [queue EXCEPT ![c] = Append(@, m)]}
  <2> HIDE DEF m
  <2>1. Elements(queue'[c]) \subseteq Elements(queue[c]) \cup {m}
    <3>1. queue[c] \in Seq(Message) /\ m \in Message
      BY <1>0, <1>1 DEF TypeOK, MessagesFrom
    <3>2. Elements(Append(queue[c], m)) = Elements(queue[c]) \cup {m}
      BY <3>1, ElementsOf
    <3> QED
      BY <1>0, <1>6, <3>2 DEF TypeOK
  <2>2. \A u \in deriving'[c] \cup sending'[c] \cup Elements(queue'[c]) : Follows(c, u)
    BY <1>2, <1>3, <1>4, <2>1
  <2>3. /\ log' = log /\ Elements(inbox'[c]) \subseteq Elements(inbox[c])
        /\ \A d \in Clients : d # c => SamePage(d) /\ inbox'[d] = inbox[d]
    BY <1>3, <1>6
  <2> QED
    BY <1>4, <2>2, <2>3, StoryStays
<1> QED
  BY <1>5, <1>6 DEF Sent, net, m

\* The handlers that go on once their message is encrypted.
LEMMA StoryResumed ==
    ASSUME IInv, StoryInv, NEW c \in Clients, ClientStep(c),
           \/ RequestOrConfirmSent(c) \/ AcceptSent(c) \/ RejectSent(c)
           \/ CompleteSent(c) \/ TextSent(c)
    PROVE  StoryInv'
<1>0. TypeOK
  BY DEF IInv
<1>1. ASSUME NEW t \in sending[c], Sent(c, t), deriving' = deriving,
             \/ rot' = rot \/ ResetRotation(c) \/ CompleteRotation(c)
             \/ SetRot(c, [rot[c] EXCEPT !.pend = NoSaved])
      PROVE  StoryInv'
  <2>1. rot[c] \in Rotation
    BY <1>0 DEF TypeOK
  <2>2. [rot[c] EXCEPT !.pend = NoSaved].pend = NoSaved /\ NoSaved.rid = None /\ Idle.pend = NoSaved
    BY <2>1 DEF Rotation, NoSaved, Idle
  <2>3. rot'[c].pend.rid \in {None, rot[c].pend.rid}
    BY <1>0, <1>1, <2>2 DEF ResetRotation, CompleteRotation, SetRot, TypeOK
  <2> QED
    BY <1>1, <2>3, StorySent
<1>2. CASE RequestOrConfirmSent(c)
  BY <1>1, <1>2 DEF RequestOrConfirmSent
<1>3. CASE AcceptSent(c)
  BY <1>1, <1>3 DEF AcceptSent
<1>4. CASE RejectSent(c)
  BY <1>1, <1>4 DEF RejectSent
<1>5. CASE CompleteSent(c)
  BY <1>1, <1>5 DEF CompleteSent
<1>6. CASE TextSent(c)
  <2>1. PICK t \in sending[c] :
          /\ \/ Sent(c, t)
             \/ sending' = [sending EXCEPT ![c] = @ \ {t}] /\ UNCHANGED <<queue, net>>
          /\ UNCHANGED <<rot, deriving>>
    BY <1>6 DEF TextSent
  <2>2. CASE Sent(c, t)
    BY <1>1, <2>1, <2>2
  <2>3. CASE sending' = [sending EXCEPT ![c] = @ \ {t}] /\ UNCHANGED <<queue, net>>
    <3>1. /\ log' = log /\ inbox' = inbox /\ rot' = rot /\ queue' = queue
          /\ deriving'[c] = deriving[c] /\ sending'[c] \subseteq sending[c]
      BY <1>0, <2>1, <2>3 DEF net, TypeOK
    <3>2. \A d \in Clients : d # c => SamePage(d)
      BY PagesApart
    <3>3. /\ rot[c].pend.rid # None => Logged("REQUEST", Peer(c), rot[c].pend.rid)
          /\ \A u \in deriving[c] \cup sending[c] \cup Elements(queue[c]) : Follows(c, u)
      BY DEF StoryInv, PageFollows, Tasks
    <3>4. \A u \in deriving'[c] \cup sending'[c] \cup Elements(queue'[c]) : Follows(c, u)
      BY <3>1, <3>3
    <3> QED
      BY <3>1, <3>2, <3>3, <3>4, StoryStays
  <2> QED
    BY <2>1, <2>2, <2>3
<1> QED
  BY <1>2, <1>3, <1>4, <1>5, <1>6

\* A reloaded page takes up what its history shows.
LEMMA StoryReloaded ==
    ASSUME IInv, StoryInv, NEW c \in Clients, ClientStep(c), Reload(c)
    PROVE  StoryInv'
<1> DEFINE Pend == rot'[c].pend.rid # None => Logged("REQUEST", Peer(c), rot'[c].pend.rid)
           Task == \A t \in deriving'[c] \cup sending'[c] : Follows(c, t)
<1>0. TypeOK
  BY DEF IInv
<1>1. ASSUME Pend, Task PROVE StoryInv'
  <2>1. NothingStored(c) /\ \A d \in Clients : d # c => SamePage(d)
    BY StoresNothing, PagesApart
  <2>2. queue'[c] = <<>>
    BY <1>0 DEF Reload, ReloadIdle, ReloadToRequest, ReloadAfterOwnAccept,
       ReloadAfterConfirm, LoadPage, TypeOK
  <2>3. Elements(queue'[c]) = {}
    BY <2>2 DEF Elements
  <2> QED
    BY <1>1, <2>1, <2>3, StoryStays DEF NothingStored
<1>2. ASSUME NEW m \in {log[i] : i \in History(log)}
      PROVE  m.from \in Clients /\ Logged(m.type, m.from, m.rid)
  BY HistoryIsWellFormed DEF Logged, Elements, History
<1>3. NoSaved.rid = None
  BY DEF NoSaved
<1> HIDE DEF Pend, Task
<1>4. (NoDeriving(c) /\ NoSending(c)) => Task
  BY <1>0 DEF NoDeriving, NoSending, Task, TypeOK
<1>5. CASE ReloadIdle(c)
  <2>1. rot'[c].pend = NoSaved
    BY <1>0, <1>5 DEF ReloadIdle, SetRot, Idle, TypeOK
  <2> QED
    BY <1>1, <1>3, <1>4, <1>5, <2>1 DEF ReloadIdle, Pend
<1>6. CASE ReloadToRequest(c)
  <2>1. PICK m \in {log[i] : i \in History(log)} :
          m.type = "REQUEST" /\ SetRot(c, RestoredRequest(c, m)) /\ NoDeriving(c) /\ NoSending(c)
    BY <1>6 DEF ReloadToRequest
  <2>2. rot'[c].pend = NoSaved \/ (rot'[c].pend.rid = m.rid /\ m.from # c)
    <3> DEFINE r == RestoredRequest(c, m)
    <3>1. m.from = c => r.pend = NoSaved
      BY DEF RestoredRequest
    <3>2. m.from # c => r.pend = [rid |-> m.rid, eph |-> m.eph]
      BY DEF RestoredRequest
    <3> HIDE DEF r
    <3>3. rot' = [rot EXCEPT ![c] = r]
      BY <2>1 DEF SetRot, r
    <3> QED
      BY <1>0, <3>1, <3>2, <3>3 DEF TypeOK
  <2>3. m.from # c => m.from = Peer(c)
    BY <1>2 DEF Clients, Peer
  <2>4. Pend
    BY <1>2, <1>3, <2>1, <2>2, <2>3 DEF Pend
  <2> QED
    BY <1>1, <1>4, <2>1, <2>4
<1>7. CASE ReloadAfterOwnAccept(c)
  <2>1. PICK m \in {log[i] : i \in History(log)} :
          /\ m.type = "ACCEPT"
          /\ SetRot(c, [isPending |-> TRUE, status |-> "REQUEST", cur |-> m.rid,
                        pend |-> NoSaved, priv |-> slot[c].eph])
          /\ deriving' = [deriving EXCEPT ![c] =
                 {[type |-> "CONFIRM", rid |-> m.rid, eph |-> None,
                   newKey |-> DeriveNewKey(m.rid, slot[c].eph, m.eph)]}]
          /\ NoSending(c)
    BY <1>7 DEF ReloadAfterOwnAccept
  <2>2. Pend
    BY <1>0, <1>3, <2>1 DEF SetRot, Pend, TypeOK
  <2>3. \A t \in deriving'[c] \cup sending'[c] : t.type = "CONFIRM" /\ t.rid = m.rid
    BY <1>0, <2>1 DEF NoSending, TypeOK
  <2>4. Task
    BY <1>2, <2>1, <2>3 DEF Follows, Task
  <2> QED
    BY <1>1, <2>2, <2>4
<1>8. CASE ReloadAfterConfirm(c)
  <2>1. PICK m \in {log[i] : i \in History(log)} :
          /\ m.type = "CONFIRM" /\ RestoreStopsAt(c, m) /\ NoDeriving(c)
          /\ \/ /\ SetRot(c, [isPending |-> TRUE, status |-> "COMPLETE", cur |-> m.rid,
                              pend |-> NoSaved, priv |-> slot[c].eph])
                /\ sending' = [sending EXCEPT ![c] =
                       {[type |-> "COMPLETE", rid |-> m.rid, eph |-> None,
                         enc |-> BaseKey, newKey |-> BaseKey]}]
             \/ SetRot(c, Idle) /\ NoSending(c)
    BY <1>8 DEF ReloadAfterConfirm
  <2>2. rot'[c].pend = NoSaved
    BY <1>0, <2>1 DEF SetRot, Idle, TypeOK
  <2>3. \A t \in deriving'[c] \cup sending'[c] : t.type = "COMPLETE" /\ t.rid = m.rid
    BY <1>0, <2>1 DEF NoDeriving, NoSending, TypeOK
  <2>4. m.from = Peer(c)
    BY <1>2, <2>1 DEF RestoreStopsAt, Restorable, Clients, Peer
  <2>5. Task
    BY <1>2, <2>1, <2>3, <2>4 DEF Follows, Task
  <2> QED
    BY <1>1, <1>3, <2>2, <2>5 DEF Pend
<1> QED
  BY <1>5, <1>6, <1>7, <1>8 DEF Reload

\* A flushed queue holds what could have been stored before.
LEMMA StoryReconnected ==
    ASSUME IInv, StoryInv, NEW c \in Clients, ClientStep(c), Reconnect(c)
    PROVE  StoryInv'
<1> DEFINE ms == queue[c]
<1>0. TypeOK
  BY DEF IInv
<1>1. ms \in Seq(MessagesFrom(c)) /\ Forward(c, ms)
  BY DEF IInv, Reconnect
<1>2. \A m \in Elements(ms) : Follows(c, m)
  BY DEF StoryInv, PageFollows, Tasks
<1>3. /\ rot'[c] = rot[c] /\ deriving'[c] = deriving[c] /\ sending'[c] = sending[c]
      /\ queue'[c] = <<>>
  BY <1>0 DEF Reconnect, TypeOK
<1>4. deriving'[c] \cup sending'[c] \cup Elements(queue'[c]) \subseteq Tasks(c)
  BY <1>3 DEF Tasks, Elements
<1>5. \A d \in Clients : d # c => SamePage(d)
  BY PagesApart
<1> HIDE DEF ms
<1> QED
  BY <1>1, <1>2, <1>3, <1>4, <1>5, StoryGrows

\* Neither the end of a request's time nor a step of something else matters.
LEMMA StoryStill ==
    ASSUME StoryInv, UNCHANGED <<page, log, inbox>>
    PROVE  StoryInv'
BY DEF StoryInv, StoredInOrder, StoredBefore, PageFollows, Tasks, Follows, Logged, page

LEMMA StoryStep == IInv /\ StoryInv /\ [Next]_vars => StoryInv'
<1> SUFFICES ASSUME IInv, StoryInv, [Next]_vars PROVE StoryInv'
  OBVIOUS
<1>1. ASSUME NEW c \in Clients, ClientStep(c) PROVE StoryInv'
  BY <1>1, StoryButtons, StoryHandled, StoryResumed, StoryReloaded, StoryReconnected
  DEF ClientStep, Resume
<1>2. ASSUME NEW r \in Rids, Expire(r) PROVE StoryInv'
  BY <1>2, StoryStill DEF Expire, net
<1>3. CASE UNCHANGED vars
  BY <1>3, StoryStill DEF vars, net
<1> QED
  BY <1>1, <1>2, <1>3 DEF Next

\* The history tells its story in the order of the protocol, for any number of
\* rotations of both sides, of handlers that interleave, reloads, cut sockets with
\* what they keep, lost messages and requests that expire.
THEOREM HistoryIsInOrder == Spec => []StoredInOrder
<1>1. StoryInv => StoredInOrder
  BY DEF StoryInv
<1> QED
  BY StoryInit, StoryStep, Invariance, <1>1, PTL DEF Spec

-----------------------------------------------------------------------------
(* A rotation has one key.  Whoever has a key for a rotation, or will derive
   one from what is under way to it, claims it. *)

Unreloaded == \A c \in Clients : reloads[c] = 0

\* k is a key that the page of c, or a message it keeps, has for rotation r.
PageClaims(c, r, k) ==
    \/ \E t \in deriving[c] : t.rid = r /\ t.newKey = k
    \/ \E t \in sending[c] : t.type = "ACCEPT" /\ t.rid = r /\ t.newKey = k
    \/ \E m \in Elements(queue[c]) :
          m.type = "ACCEPT" /\ m.rid = r /\ k = DeriveNewKey(r, r, m.eph)
    \/ key[c] = k /\ k.rid = r

\* k is the key that an ACCEPT on its way to c will make of r.
SocketClaims(c, r, k) ==
    \E m \in Elements(inbox[c]) :
        m.type = "ACCEPT" /\ m.rid = r /\ k = DeriveNewKey(r, r, m.eph)

Claim(r, k) == \E c \in Clients : PageClaims(c, r, k) \/ SocketClaims(c, r, k)

Asked(c, r) == <<r, "REQUEST">> \in seen[c]
Answering(c, r) == \E t \in deriving[c] \cup sending[c] : t.type = "ACCEPT" /\ t.rid = r

\* The key a handler will switch to is that of its rotation.
TaskKeys(c) ==
    /\ \A t \in deriving[c] : t.newKey.rid = t.rid
    /\ \A t \in deriving[c] \cup sending[c] :
          t.type = "ACCEPT" => t.newKey = DeriveNewKey(t.rid, t.rid, t.eph)

\* A request that can be answered has been asked, and is being answered or was not.
PendingOnce(c) ==
    \A r \in Rids : rot[c].pend.rid = r =>
        Asked(c, r) /\ (Answering(c, r) \/ \A k : ~Claim(r, k))

\* The inductive invariant of the keys: of a rotation there is one, wherever it is.
ClaimInv ==
    Unreloaded =>
        /\ \A c \in Clients : TaskKeys(c) /\ PendingOnce(c)
        /\ \A r \in Rids :
              /\ \A k, l : Claim(r, k) /\ Claim(r, l) => k = l
              /\ \A k : Claim(r, k) => Asked(Peer(Owner(r)), r)

LEMMA ClaimInit == Init => ClaimInv
<1> SUFFICES ASSUME Init PROVE ClaimInv
  OBVIOUS
<1>1. Elements(<<>>) = {}
  BY DEF Elements
<1>2. ASSUME NEW r \in Rids, NEW k PROVE ~Claim(r, k)
  <2>1. r # None
    BY EphOwners, NoneIsNoEph DEF Rids
  <2> QED
    BY <1>1, <2>1 DEF Init, Claim, PageClaims, SocketClaims, BaseKey
<1>3. \A c \in Clients : TaskKeys(c)
  BY DEF Init, TaskKeys
<1>4. \A c \in Clients : PendingOnce(c)
  <2>1. \A c \in Clients : rot[c].pend.rid = None
    BY DEF Init, Idle, NoSaved
  <2> QED
    BY <2>1, NoneIsNoEph DEF PendingOnce, Rids
<1> QED
  BY <1>2, <1>3, <1>4 DEF ClaimInv

\* A step that claims no other key than before.
LEMMA ClaimsKept ==
    ASSUME ClaimInv, Unreloaded, NEW c \in Clients,
           \A d \in Clients : d # c => SamePage(d),
           seen[c] \subseteq seen'[c],
           TaskKeys(c)',
           \A r \in Rids : \A k : PageClaims(c, r, k)' => Claim(r, k),
           \A d \in Clients, r \in Rids : \A k : SocketClaims(d, r, k)' => Claim(r, k),
           \/ rot'[c].pend.rid = None
           \/ /\ rot'[c].pend.rid = rot[c].pend.rid
              /\ \A r \in Rids : Answering(c, r) => Answering(c, r)'
           \/ \E r \in Rids : /\ rot'[c].pend.rid = r /\ <<r, "REQUEST">> \in seen'[c]
                              /\ \A k : ~Claim(r, k)
    PROVE  ClaimInv'
<1>1. /\ \A d \in Clients : TaskKeys(d) /\ PendingOnce(d)
      /\ \A r \in Rids :
            /\ \A k, l : Claim(r, k) /\ Claim(r, l) => k = l
            /\ \A k : Claim(r, k) => Asked(Peer(Owner(r)), r)
  BY DEF ClaimInv
<1>2. ASSUME NEW d \in Clients, d # c
      PROVE  /\ \A r, k : PageClaims(d, r, k)' <=> PageClaims(d, r, k)
             /\ \A r : (Answering(d, r)' <=> Answering(d, r)) /\ (Asked(d, r)' <=> Asked(d, r))
             /\ TaskKeys(d)' <=> TaskKeys(d)
             /\ rot'[d].pend = rot[d].pend
  <2>1. SamePage(d)
    BY <1>2
  <2> QED
    BY <2>1 DEF SamePage, PageClaims, Answering, Asked, TaskKeys
<1>3. ASSUME NEW r \in Rids, NEW k, Claim(r, k)' PROVE Claim(r, k)
  <2>1. PICK d \in Clients : PageClaims(d, r, k)' \/ SocketClaims(d, r, k)'
    BY <1>3 DEF Claim
  <2>2. CASE SocketClaims(d, r, k)'
    BY <2>2
  <2>3. CASE PageClaims(d, r, k)' /\ d = c
    BY <2>3
  <2>4. CASE PageClaims(d, r, k)' /\ d # c
    BY <1>2, <2>4 DEF Claim
  <2> QED
    BY <2>1, <2>2, <2>3, <2>4
<1>4. \A d \in Clients : \A r : Asked(d, r) => Asked(d, r)'
  <2>1. \A r : Asked(c, r) => Asked(c, r)'
    BY DEF Asked
  <2> QED
    BY <1>2, <2>1
<1>5. ASSUME NEW r \in Rids, NEW k, Claim(r, k)'
      PROVE  Asked(Peer(Owner(r)), r)'
  <2>1. Asked(Peer(Owner(r)), r) /\ Peer(Owner(r)) \in Clients
    BY <1>1, <1>3, <1>5, PeerIsClient DEF Rids, Ephs, Owner
  <2> QED
    BY <1>4, <2>1
<1>6. PendingOnce(c)'
  <2> SUFFICES ASSUME NEW r \in Rids, rot'[c].pend.rid = r
               PROVE  Asked(c, r)' /\ (Answering(c, r)' \/ \A k : ~Claim(r, k)')
    BY DEF PendingOnce
  <2>1. r # None
    BY NoneIsNoEph DEF Rids
  <2>2. CASE rot[c].pend.rid = r /\ (Answering(c, r) => Answering(c, r)')
    <3>1. Asked(c, r) /\ (Answering(c, r) \/ \A k : ~Claim(r, k))
      BY <1>1, <2>2 DEF PendingOnce
    <3> QED
      BY <1>3, <1>4, <2>2, <3>1
  <2>3. CASE <<r, "REQUEST">> \in seen'[c] /\ \A k : ~Claim(r, k)
    BY <1>3, <2>3 DEF Asked
  <2> QED
    BY <2>1, <2>2, <2>3
<1>7. ASSUME NEW d \in Clients, d # c PROVE PendingOnce(d)'
  <2> SUFFICES ASSUME NEW r \in Rids, rot'[d].pend.rid = r
               PROVE  Asked(d, r)' /\ (Answering(d, r)' \/ \A k : ~Claim(r, k)')
    BY DEF PendingOnce
  <2>1. rot[d].pend.rid = r
    BY <1>2, <1>7
  <2>2. Asked(d, r) /\ (Answering(d, r) \/ \A k : ~Claim(r, k))
    BY <1>1, <2>1 DEF PendingOnce
  <2> QED
    BY <1>2, <1>3, <1>7, <2>2
<1>8. \A d \in Clients : TaskKeys(d)' /\ PendingOnce(d)'
  BY <1>1, <1>2, <1>6, <1>7
<1>9. \A r \in Rids :
          /\ \A k, l : Claim(r, k)' /\ Claim(r, l)' => k = l
          /\ \A k : Claim(r, k)' => Asked(Peer(Owner(r)), r)'
  BY <1>1, <1>3, <1>5
<1> QED
  BY <1>8, <1>9 DEF ClaimInv

\* A step that stores nothing and makes up no key for its handlers.
LEMMA ClaimsQuiet ==
    ASSUME IInv, ClaimInv, Unreloaded, NEW c \in Clients, ClientStep(c), NothingStored(c),
           seen[c] \subseteq seen'[c], queue' = queue, key' = key,
           \A t \in deriving'[c] :
               \/ t \in deriving[c]
               \/ /\ t.type # "ACCEPT" /\ t.newKey.rid = t.rid
                  /\ \A r \in Rids : t.rid = r => Claim(r, t.newKey),
           \A t \in sending'[c] :
               \/ t \in sending[c]
               \/ t.type # "ACCEPT"
               \/ \E u \in deriving[c] : /\ u.type = "ACCEPT" /\ u.rid = t.rid
                                         /\ u.eph = t.eph /\ u.newKey = t.newKey,
           \/ rot'[c].pend.rid = None
           \/ /\ rot'[c].pend.rid = rot[c].pend.rid
              /\ \A r \in Rids : Answering(c, r) => Answering(c, r)'
           \/ \E r \in Rids : /\ rot'[c].pend.rid = r /\ <<r, "REQUEST">> \in seen'[c]
                              /\ \A k : ~Claim(r, k)
    PROVE  ClaimInv'
<1>1. TaskKeys(c)
  BY DEF ClaimInv
<1>2. TaskKeys(c)'
  BY <1>1 DEF TaskKeys
<1>3. \A d \in Clients : d # c => SamePage(d)
  BY PagesApart
<1>4. ASSUME NEW r \in Rids, NEW k, PageClaims(c, r, k)' PROVE Claim(r, k)
  <2>1. CASE \E t \in deriving'[c] : t.rid = r /\ t.newKey = k
    BY <2>1 DEF Claim, PageClaims
  <2>2. CASE \E t \in sending'[c] : t.type = "ACCEPT" /\ t.rid = r /\ t.newKey = k
    BY <2>2 DEF Claim, PageClaims
  <2>3. CASE \E m \in Elements(queue'[c]) :
                m.type = "ACCEPT" /\ m.rid = r /\ k = DeriveNewKey(r, r, m.eph)
    BY <2>3 DEF Claim, PageClaims
  <2>4. CASE key'[c] = k /\ k.rid = r
    BY <2>4 DEF Claim, PageClaims
  <2> QED
    BY <1>4, <2>1, <2>2, <2>3, <2>4 DEF PageClaims
<1>5. ASSUME NEW d \in Clients, NEW r \in Rids, NEW k, SocketClaims(d, r, k)' PROVE Claim(r, k)
  <2>1. Elements(inbox'[d]) \subseteq Elements(inbox[d])
    BY DEF NothingStored
  <2> QED
    BY <1>5, <2>1 DEF SocketClaims, Claim
<1> QED
  BY <1>2, <1>3, <1>4, <1>5, ClaimsKept

\* The message of a handler is out, lost or queued.
LEMMA ClaimsSent ==
    ASSUME IInv, ClaimInv, Unreloaded, NEW c \in Clients, ClientStep(c),
           NEW t \in sending[c], Sent(c, t), deriving' = deriving, seen' = seen,
           \/ key' = key
           \/ t.type = "ACCEPT" /\ key' = [key EXCEPT ![c] = t.newKey],
           \/ rot'[c].pend.rid = None
           \/ t.type # "ACCEPT" /\ rot' = rot
    PROVE  ClaimInv'
<1> DEFINE m == [type |-> t.type, from |-> c, rid |-> t.rid, eph |-> t.eph,
                 enc |-> t.enc, label |-> key[c]]
<1>0. TypeOK
  BY DEF IInv
<1>1. TaskKeys(c)
  BY DEF ClaimInv
<1>2. m \in Message
  <2>1. t \in Sending /\ key[c] \in SessionKey
    BY <1>0 DEF TypeOK
  <2> QED
    BY <2>1 DEF Sending, Message
<1>3. m.type = t.type /\ m.rid = t.rid /\ m.eph = t.eph
  OBVIOUS
<1> HIDE DEF m
<1>4. /\ sending'[c] = sending[c] \ {t}
      /\ Elements(queue'[c]) \subseteq Elements(queue[c]) \cup {m}
      /\ \A d \in Clients : Elements(inbox'[d]) \subseteq Elements(inbox[d]) \cup {m}
  <2>0. /\ queue \in [Clients -> Seq(Message)] /\ inbox \in [Clients -> Seq(Message)]
        /\ <<m>> \in Seq(Message) /\ Elements(<<m>>) = {m} /\ Peer(c) \in Clients
    BY <1>0, <1>2, PeerIsClient DEF TypeOK, Elements
  <2>1. sending'[c] = sending[c] \ {t}
    BY <1>0 DEF Sent, TypeOK
  <2>2. Elements(queue'[c]) \subseteq Elements(queue[c]) \cup {m}
    <3>1. queue' = queue \/ queue' = [queue EXCEPT ![c] = Append(@, m)]
      BY DEF Sent, m
    <3>2. queue[c] \in Seq(Message)
      BY <2>0
    <3>3. Elements(Append(queue[c], m)) = Elements(queue[c]) \cup {m}
      BY <1>2, <3>2, ElementsOf
    <3> QED
      BY <2>0, <3>1, <3>3
  <2>3. ASSUME NEW d \in Clients PROVE Elements(inbox'[d]) \subseteq Elements(inbox[d]) \cup {m}
    <3>1. inbox' = inbox \/ inbox' = [inbox EXCEPT ![Peer(c)] = @ \o <<m>>]
      BY DEF Sent, Forward, net, m
    <3>2. inbox[d] \in Seq(Message)
      BY <2>0
    <3>3. Elements(inbox[d] \o <<m>>) = Elements(inbox[d]) \cup Elements(<<m>>)
      <4>1. PICK x : x = <<m>>
        OBVIOUS
      <4>2. x \in Seq(Message)
        BY <2>0, <4>1
      <4>3. Elements(inbox[d] \o x) = Elements(inbox[d]) \cup Elements(x)
        BY <3>2, <4>2, ElementsOf
      <4> QED
        BY <4>1, <4>3
    <3> QED
      BY <2>0, <3>1, <3>3
  <2> QED
    BY <2>1, <2>2, <2>3
<1>5. ASSUME t.type = "ACCEPT"
      PROVE  /\ t.newKey = DeriveNewKey(t.rid, t.rid, t.eph) /\ t.newKey.rid = t.rid
             /\ \A r : t.rid = r => Claim(r, t.newKey)
  BY <1>1, <1>5 DEF TaskKeys, DeriveNewKey, Claim, PageClaims
<1>6. TaskKeys(c)'
  BY <1>1, <1>4 DEF TaskKeys
<1>7. \A d \in Clients : d # c => SamePage(d)
  BY PagesApart
<1>8. ASSUME NEW r \in Rids, NEW k, PageClaims(c, r, k)' PROVE Claim(r, k)
  <2>1. CASE \E u \in deriving'[c] : u.rid = r /\ u.newKey = k
    BY <2>1 DEF Claim, PageClaims
  <2>2. CASE \E u \in sending'[c] : u.type = "ACCEPT" /\ u.rid = r /\ u.newKey = k
    BY <1>4, <2>2 DEF Claim, PageClaims
  <2>3. CASE \E n \in Elements(queue'[c]) :
                n.type = "ACCEPT" /\ n.rid = r /\ k = DeriveNewKey(r, r, n.eph)
    BY <1>3, <1>4, <1>5, <2>3 DEF Claim, PageClaims
  <2>4. CASE key'[c] = k /\ k.rid = r
    <3>1. CASE key' = key
      BY <2>4, <3>1 DEF Claim, PageClaims
    <3>2. CASE t.type = "ACCEPT" /\ key' = [key EXCEPT ![c] = t.newKey]
      <4>1. k = t.newKey
        BY <1>0, <2>4, <3>2 DEF TypeOK
      <4> QED
        BY <1>5, <2>4, <3>2, <4>1
    <3> QED
      BY <3>1, <3>2
  <2> QED
    BY <1>8, <2>1, <2>2, <2>3, <2>4 DEF PageClaims
<1>9. ASSUME NEW d \in Clients, NEW r \in Rids, NEW k, SocketClaims(d, r, k)' PROVE Claim(r, k)
  BY <1>3, <1>4, <1>5, <1>9 DEF SocketClaims, Claim
<1>10. \/ rot'[c].pend.rid = None
       \/ /\ rot'[c].pend.rid = rot[c].pend.rid
          /\ \A r \in Rids : Answering(c, r) => Answering(c, r)'
  BY <1>4 DEF Answering
<1> QED
  BY <1>6, <1>7, <1>8, <1>9, <1>10, ClaimsKept

\* Accept() makes the one new key: nobody had one for a request that can be answered.
LEMMA ClaimsAccept ==
    ASSUME IInv, ClaimInv, Unreloaded, NEW c \in Clients, ClientStep(c), Accept(c)
    PROVE  ClaimInv'
<1>0. PICK q, e : TypeOK /\ q = rot[c].pend.rid /\ e = NextEph(c)
  BY DEF IInv
<1> DEFINE k0 == DeriveNewKey(q, q, e)
           t == [type |-> "ACCEPT", rid |-> q, eph |-> e, newKey |-> k0]
<1>1. q # None /\ q \in Rids /\ q \in EphsOf(Peer(c)) /\ rot[c].pend.eph = q
      /\ Owner(q) = Peer(c) /\ Peer(Owner(q)) = c
  <2>1. q # None
    BY <1>0 DEF Accept, CanAnswer
  <2>2. q \in EphsOf(Peer(c)) /\ rot[c].pend.eph = q
    BY <1>0, <2>1 DEF IInv, RotOK, RequestStored
  <2> QED
    BY <2>1, <2>2, EphOwners, PeerIsClient
<1>2. /\ deriving' = [deriving EXCEPT ![c] = @ \cup {t}]
      /\ UNCHANGED <<rot, sending, key, seen, queue, inbox>>
  <2>1. DeriveNewKey(q, e, q) = k0
    BY DEF DeriveNewKey
  <2> QED
    BY <1>0, <1>1, <2>1 DEF Accept, StartDerive, net
<1>3. t.type = "ACCEPT" /\ t.rid = q /\ t.newKey = k0 /\ t.eph = e /\ k0.rid = q
  BY DEF DeriveNewKey
<1>4. /\ \A d \in Clients : TaskKeys(d) /\ PendingOnce(d)
      /\ \A r \in Rids :
            /\ \A k, l : Claim(r, k) /\ Claim(r, l) => k = l
            /\ \A k : Claim(r, k) => Asked(Peer(Owner(r)), r)
  BY DEF ClaimInv
<1>5. ~Answering(c, q)
  BY <1>0 DEF Accept, CanAnswer, Answering
<1>6. Asked(c, q) /\ \A k : ~Claim(q, k)
  BY <1>0, <1>1, <1>4, <1>5 DEF PendingOnce
<1>7. deriving'[c] = deriving[c] \cup {t} /\ \A d \in Clients : d # c => deriving'[d] = deriving[d]
  BY <1>0, <1>2 DEF TypeOK
<1>8. k0 = DeriveNewKey(t.rid, t.rid, t.eph)
  BY <1>3
<1> HIDE DEF t, k0
<1>9. ASSUME NEW r \in Rids, NEW k, Claim(r, k)'
      PROVE  Claim(r, k) \/ (r = q /\ k = k0)
  <2>1. PICK d \in Clients : PageClaims(d, r, k)' \/ SocketClaims(d, r, k)'
    BY <1>9 DEF Claim
  <2>2. CASE SocketClaims(d, r, k)'
    BY <1>2, <2>2 DEF SocketClaims, Claim
  <2>3. CASE \E u \in deriving'[d] : u.rid = r /\ u.newKey = k
    <3>1. PICK u \in deriving'[d] : u.rid = r /\ u.newKey = k
      BY <2>3
    <3>2. u \in deriving[d] \/ u = t
      BY <1>7
    <3> QED
      BY <1>3, <3>1, <3>2 DEF Claim, PageClaims
  <2>4. CASE PageClaims(d, r, k)' /\ ~(\E u \in deriving'[d] : u.rid = r /\ u.newKey = k)
    BY <1>2, <2>4 DEF PageClaims, Claim
  <2> QED
    BY <2>1, <2>2, <2>3, <2>4
<1>10. \A d \in Clients : \A r : (Asked(d, r)' <=> Asked(d, r))
  BY <1>2 DEF Asked
<1>11. \A d \in Clients : \A r : (Answering(d, r) => Answering(d, r)')
  BY <1>2, <1>7 DEF Answering
<1>12. Answering(c, q)'
  BY <1>3, <1>7 DEF Answering
<1>13. ASSUME NEW d \in Clients PROVE TaskKeys(d)'
  <2>1. TaskKeys(d)
    BY <1>4
  <2> QED
    BY <1>2, <1>3, <1>7, <1>8, <2>1 DEF TaskKeys
<1>14. ASSUME NEW d \in Clients PROVE PendingOnce(d)'
  <2> SUFFICES ASSUME NEW r \in Rids, rot'[d].pend.rid = r
               PROVE  Asked(d, r)' /\ (Answering(d, r)' \/ \A k : ~Claim(r, k)')
    BY DEF PendingOnce
  <2>1. rot[d].pend.rid = r
    BY <1>2
  <2>2. Asked(d, r) /\ (Answering(d, r) \/ \A k : ~Claim(r, k))
    BY <1>4, <2>1 DEF PendingOnce
  <2>3. r # q \/ d = c
    <3>1. r \in EphsOf(Peer(d))
      BY <2>1, NoneIsNoEph DEF IInv, RotOK, RequestStored, Rids
    <3>2. Owner(r) = Peer(d) /\ Peer(d) \in Clients
      BY <3>1, PeerIsClient DEF EphsOf
    <3> QED
      BY <1>1, <3>2, PeerIsClient
  <2>4. CASE r = q /\ d = c
    BY <1>10, <1>12, <2>2, <2>4
  <2>5. CASE r # q
    BY <1>9, <1>10, <1>11, <2>2, <2>5
  <2> QED
    BY <2>3, <2>4, <2>5
<1>15. ASSUME NEW r \in Rids
       PROVE  /\ \A k, l : Claim(r, k)' /\ Claim(r, l)' => k = l
              /\ \A k : Claim(r, k)' => Asked(Peer(Owner(r)), r)'
  <2>1. Peer(Owner(r)) \in Clients
    BY PeerIsClient DEF Rids, Ephs, Owner
  <2>2. ASSUME NEW k, NEW l, Claim(r, k)', Claim(r, l)' PROVE k = l
    <3>1. /\ Claim(r, k) \/ (r = q /\ k = k0)
          /\ Claim(r, l) \/ (r = q /\ l = k0)
      BY <1>9, <2>2
    <3> QED
      BY <1>4, <1>6, <3>1
  <2>3. ASSUME NEW k, Claim(r, k)' PROVE Asked(Peer(Owner(r)), r)'
    <3>1. Claim(r, k) \/ r = q
      BY <1>9, <2>3
    <3> QED
      BY <1>1, <1>4, <1>6, <1>10, <2>1, <3>1
  <2> QED
    BY <2>2, <2>3
<1> QED
  BY <1>13, <1>14, <1>15 DEF ClaimInv

\* The user's buttons but Accept, and the end of accept().
LEMMA ClaimsButtons ==
    ASSUME IInv, ClaimInv, Unreloaded, NEW c \in Clients, ClientStep(c),
           \/ Initiate(c) \/ AcceptExpired(c) \/ AcceptDerived(c) \/ Reject(c)
           \/ SendText(c) \/ Cut(c)
    PROVE  ClaimInv'
<1> DEFINE Calm == \/ rot'[c].pend.rid = None
                   \/ /\ rot'[c].pend.rid = rot[c].pend.rid
                      /\ \A r \in Rids : Answering(c, r) => Answering(c, r)'
<1>0. TypeOK
  BY DEF IInv
<1>1. /\ NothingStored(c) /\ seen[c] \subseteq seen'[c] /\ queue' = queue /\ key' = key
  BY StoresNothing
  DEF Initiate, AcceptExpired, AcceptDerived, Reject, SendText, Cut, page
<1>2. ASSUME rot' = rot,
             \A t \in deriving[c] : t \in deriving'[c],
             \A t \in sending[c] : t \in sending'[c]
      PROVE  Calm
  BY <1>2 DEF Answering
<1>3. ResetRotation(c) => rot'[c].pend.rid = None
  BY <1>0 DEF ResetRotation, SetRot, Idle, NoSaved, TypeOK
<1>4. ASSUME \A t \in deriving'[c] : t \in deriving[c],
             \A t \in sending'[c] :
                 \/ t \in sending[c]
                 \/ t.type # "ACCEPT"
                 \/ \E u \in deriving[c] : /\ u.type = "ACCEPT" /\ u.rid = t.rid
                                           /\ u.eph = t.eph /\ u.newKey = t.newKey,
             Calm
      PROVE  ClaimInv'
  BY <1>1, <1>4, ClaimsQuiet
<1> HIDE DEF Calm
<1>5. CASE Initiate(c)
  <2>1. rot'[c].pend.rid = None
    BY <1>0, <1>3, <1>5 DEF Initiate, SetRot, NoSaved, TypeOK
  <2>2. /\ deriving' = deriving
        /\ \A t \in sending'[c] : t \in sending[c] \/ t.type # "ACCEPT"
    BY <1>0, <1>5 DEF Initiate, StartSend, TypeOK
  <2> QED
    BY <1>4, <2>1, <2>2 DEF Calm
<1>6. CASE AcceptExpired(c)
  <2>1. rot'[c].pend.rid = None /\ deriving' = deriving /\ sending' = sending
    BY <1>3, <1>6 DEF AcceptExpired
  <2> QED
    BY <1>4, <2>1 DEF Calm
<1>7. CASE AcceptDerived(c)
  <2>1. PICK t \in deriving[c] :
          /\ t.type = "ACCEPT"
          /\ deriving' = [deriving EXCEPT ![c] = @ \ {t}]
          /\ \/ ResetRotation(c) /\ UNCHANGED sending
             \/ /\ SetRot(c, [isPending |-> TRUE, status |-> "ACCEPT", cur |-> t.rid,
                              pend |-> IF connected[c] THEN rot[c].pend ELSE NoSaved,
                              priv |-> t.eph])
                /\ IF connected[c]
                   THEN StartSend(c, "ACCEPT", t.rid, t.eph, key[c], t.newKey)
                   ELSE UNCHANGED sending
    BY <1>7 DEF AcceptDerived
  <2>2. deriving'[c] = deriving[c] \ {t}
    BY <1>0, <2>1 DEF TypeOK
  <2>3. CASE rot'[c].pend.rid = None /\ UNCHANGED sending
    BY <1>4, <2>2, <2>3 DEF Calm
  <2>4. CASE /\ rot'[c].pend = rot[c].pend
             /\ StartSend(c, "ACCEPT", t.rid, t.eph, key[c], t.newKey)
    <3> DEFINE u == [type |-> "ACCEPT", rid |-> t.rid, eph |-> t.eph,
                     enc |-> key[c], newKey |-> t.newKey]
    <3>1. sending'[c] = sending[c] \cup {u}
      BY <1>0, <2>4 DEF StartSend, TypeOK
    <3>2. u.type = "ACCEPT" /\ u.rid = t.rid /\ u.eph = t.eph /\ u.newKey = t.newKey
      OBVIOUS
    <3> HIDE DEF u
    <3>3. ASSUME NEW r, Answering(c, r) PROVE Answering(c, r)'
      <4>1. PICK v \in deriving[c] \cup sending[c] : v.type = "ACCEPT" /\ v.rid = r
        BY <3>3 DEF Answering
      <4>2. CASE v = t
        BY <3>1, <3>2, <4>1, <4>2 DEF Answering
      <4>3. CASE v # t
        BY <2>2, <3>1, <4>1, <4>3 DEF Answering
      <4> QED
        BY <4>2, <4>3
    <3>4. Calm
      BY <2>4, <3>3 DEF Calm
    <3> QED
      BY <1>4, <2>1, <2>2, <3>1, <3>2, <3>4
  <2>5. \/ rot'[c].pend.rid = None /\ UNCHANGED sending
        \/ /\ rot'[c].pend = rot[c].pend
           /\ StartSend(c, "ACCEPT", t.rid, t.eph, key[c], t.newKey)
    BY <1>0, <1>3, <2>1 DEF SetRot, NoSaved, TypeOK
  <2> QED
    BY <2>3, <2>4, <2>5
<1>8. CASE Reject(c)
  <2>1. deriving' = deriving /\ \A t \in sending'[c] : t \in sending[c] \/ t.type # "ACCEPT"
    BY <1>0, <1>8 DEF Reject, StartSend, TypeOK
  <2>2. rot'[c].pend.rid = None \/ (rot' = rot /\ \A t \in sending[c] : t \in sending'[c])
    BY <1>0, <1>3, <1>8 DEF Reject, StartSend, TypeOK
  <2>3. Calm
    BY <1>2, <2>1, <2>2 DEF Calm
  <2> QED
    BY <1>4, <2>1, <2>3
<1>9. CASE SendText(c)
  <2>1. /\ deriving' = deriving /\ rot' = rot
        /\ \A t \in sending[c] : t \in sending'[c]
        /\ \A t \in sending'[c] : t \in sending[c] \/ t.type # "ACCEPT"
    BY <1>0, <1>9 DEF SendText, StartSend, TypeOK
  <2> QED
    BY <1>2, <1>4, <2>1
<1>10. CASE Cut(c)
  <2>1. deriving' = deriving /\ rot' = rot /\ sending' = sending
    BY <1>10 DEF Cut, page
  <2> QED
    BY <1>2, <1>4, <2>1
<1> QED
  BY <1>5, <1>6, <1>7, <1>8, <1>9, <1>10

\* The handlers of incoming messages.
LEMMA ClaimsHandled ==
    ASSUME IInv, ClaimInv, Unreloaded, NEW c \in Clients, ClientStep(c), Handle(c)
    PROVE  ClaimInv'
<1> DEFINE Calm == \/ rot'[c].pend.rid = None
                   \/ /\ rot'[c].pend.rid = rot[c].pend.rid
                      /\ \A r \in Rids : Answering(c, r) => Answering(c, r)'
                   \/ \E r \in Rids : /\ rot'[c].pend.rid = r /\ <<r, "REQUEST">> \in seen'[c]
                                      /\ \A k : ~Claim(r, k)
           Derive == \A t \in deriving'[c] :
                         \/ t \in deriving[c]
                         \/ /\ t.type # "ACCEPT" /\ t.newKey.rid = t.rid
                            /\ \A r \in Rids : t.rid = r => Claim(r, t.newKey)
           Send == \A t \in sending'[c] : t \in sending[c] \/ t.type # "ACCEPT"
<1>0. TypeOK
  BY DEF IInv
<1>1. inbox[c] # <<>> /\ NothingStored(c) /\ queue' = queue /\ key' = key /\ seen[c] \subseteq seen'[c]
  <2>1. inbox[c] # <<>> /\ queue' = queue /\ key' = key
    BY DEF Handle, ShowOrIgnore, ProcessIncomingRequest, ProcessAccept, ProcessConfirm,
       ProcessComplete, ProcessReject, Taking, page
  <2>2. seen[c] \subseteq seen'[c]
    BY <1>0 DEF Handle, ShowOrIgnore, ProcessIncomingRequest, ProcessAccept, ProcessConfirm,
       ProcessComplete, ProcessReject, Taking, page, TypeOK
  <2> QED
    BY <2>1, <2>2, StoresNothing
<1>2. PICK m : m = Head(inbox[c])
  OBVIOUS
<1>3. m \in Elements(inbox[c])
  <2>1. inbox[c] \in Seq(Message)
    BY <1>0 DEF TypeOK
  <2> QED
    BY <1>1, <1>2, <2>1, ElementsOf
<1>4. ASSUME Derive, Send, Calm PROVE ClaimInv'
  BY <1>1, <1>4, ClaimsQuiet
<1>5. ASSUME rot'[c].pend.rid = rot[c].pend.rid,
             \A t \in deriving[c] : t \in deriving'[c],
             \A t \in sending[c] : t \in sending'[c]
      PROVE  Calm
  BY <1>5 DEF Answering
<1>6. ASSUME rot'[c].pend.rid = None PROVE Calm
  BY <1>6
<1> HIDE DEF Calm
<1>7. ResetRotation(c) \/ CompleteRotation(c) => rot'[c].pend.rid = None
  BY <1>0 DEF ResetRotation, CompleteRotation, SetRot, Idle, NoSaved, TypeOK
<1>8. CASE ShowOrIgnore(c)
  BY <1>4, <1>5, <1>8 DEF ShowOrIgnore, page
<1>9. CASE ProcessIncomingRequest(c)
  <2>1. /\ m.type = "REQUEST" /\ deriving' = deriving /\ sending' = sending
        /\ ~Repeated(c, m) /\ <<m.rid, "REQUEST">> \in seen'[c]
    BY <1>0, <1>2, <1>9 DEF ProcessIncomingRequest, Taking, TypeOK
  <2>2. CASE rot' = rot
    BY <1>4, <1>5, <2>1, <2>2
  <2>3. CASE rot' # rot
    <3>1. rot'[c].pend.rid = m.rid
      BY <1>0, <1>2, <1>9, <2>3 DEF ProcessIncomingRequest, SetRot, TypeOK
    <3>2. m.rid \in EphsOf(Peer(c))
      <4>1. Taking(c, "REQUEST") /\ "REQUEST" \in Types
        BY <1>9 DEF ProcessIncomingRequest, Types
      <4>2. m \in MessagesFrom(Peer(c))
        BY <1>2, <4>1, TakingKeeps
      <4> QED
        BY <2>1, <4>2 DEF MessagesFrom, WellFormed
    <3>3. m.rid \in Rids /\ Peer(Owner(m.rid)) = c
      BY <3>2, EphOwners, PeerIsClient
    <3>4. ~Asked(c, m.rid)
      BY <2>1 DEF Repeated, Asked
    <3>5. \A k : ~Claim(m.rid, k)
      BY <3>3, <3>4 DEF ClaimInv
    <3>6. Calm
      BY <2>1, <3>1, <3>3, <3>5 DEF Calm
    <3> QED
      BY <1>4, <2>1, <3>6
  <2> QED
    BY <2>2, <2>3
<1>10. CASE ProcessAccept(c)
  <2>1. m.type = "ACCEPT" /\ sending' = sending
    BY <1>2, <1>10 DEF ProcessAccept, Taking
  <2>2. CASE UNCHANGED <<rot, deriving>>
    BY <1>4, <1>5, <2>1, <2>2
  <2>3. CASE ~UNCHANGED <<rot, deriving>>
    <3>1. m.rid \in EphsOf(c) /\ m.eph \in EphsOf(Peer(c))
      <4>1. Taking(c, "ACCEPT") /\ "ACCEPT" \in Types
        BY <1>10 DEF ProcessAccept, Types
      <4>2. m \in MessagesFrom(Peer(c))
        BY <1>2, <4>1, TakingKeeps
      <4> QED
        BY <2>1, <4>2, PeerIsClient DEF MessagesFrom, WellFormed
    <3>2. m.rid \in Rids /\ m.rid # None
      BY <3>1, EphOwners
    <3>3. PICK r : r = Adopt(c, m.rid, "REQUEST")
      OBVIOUS
    <3>4. r.pend = rot[c].pend
      BY <1>0, <3>2, <3>3, AdoptType DEF Statuses
    <3>5. /\ slot[c].rid = m.rid /\ r.status = "REQUEST"
          /\ SetRot(c, r)
          /\ StartDerive(c, "CONFIRM", m.rid, None, DeriveNewKey(m.rid, r.priv, m.eph))
      BY <1>2, <1>10, <2>3, <3>3 DEF ProcessAccept, HasSavedKey
    <3>6. r.priv = m.rid
      <4>1. CASE rot[c].cur = m.rid
        <5>1. r = rot[c]
          BY <3>3, <4>1 DEF Adopt
        <5> QED
          BY <3>1, <3>5, <4>1, <5>1 DEF IInv, RotOK
      <4>2. CASE rot[c].cur # m.rid
        <5>1. r = [rot[c] EXCEPT !.isPending = TRUE, !.status = "REQUEST", !.cur = m.rid,
                                 !.priv = slot[c].eph]
          BY <3>3, <4>2 DEF Adopt
        <5>2. r.priv = slot[c].eph
          BY <1>0, <5>1 DEF TypeOK, Rotation
        <5> QED
          BY <3>1, <3>2, <3>5, <5>2 DEF IInv, SlotOK
      <4> QED
        BY <4>1, <4>2
    <3>7. PICK k : k = DeriveNewKey(m.rid, m.rid, m.eph)
      OBVIOUS
    <3>8. k.rid = m.rid /\ Claim(m.rid, k)
      BY <1>3, <2>1, <3>7 DEF Claim, SocketClaims, DeriveNewKey
    <3> DEFINE t == [type |-> "CONFIRM", rid |-> m.rid, eph |-> None, newKey |-> k]
    <3>9. deriving'[c] = deriving[c] \cup {t}
      BY <1>0, <3>5, <3>6, <3>7 DEF StartDerive, TypeOK
    <3>10. t.type = "CONFIRM" /\ t.rid = m.rid /\ t.newKey = k
      OBVIOUS
    <3> HIDE DEF t
    <3>11. rot'[c].pend = rot[c].pend
      BY <1>0, <3>4, <3>5 DEF SetRot, TypeOK
    <3>12. Calm
      BY <1>5, <2>1, <3>9, <3>11
    <3>13. Derive
      BY <3>8, <3>9, <3>10
    <3> QED
      BY <1>4, <2>1, <3>12, <3>13
  <2> QED
    BY <2>2, <2>3
<1>11. CASE ProcessConfirm(c)
  <2>1. /\ m.type = "CONFIRM" /\ deriving' = deriving
        /\ \A t \in sending[c] : t \in sending'[c]
        /\ \A t \in sending'[c] : t \in sending[c] \/ t.type # "ACCEPT"
    BY <1>0, <1>2, <1>11 DEF ProcessConfirm, Taking, StartSend, TypeOK
  <2>2. rot'[c].pend.rid \in {None, rot[c].pend.rid}
    <3> DEFINE r == Adopt(c, m.rid, "ACCEPT")
               q == [r EXCEPT !.status = "COMPLETE"]
    <3>1. rot' = rot \/ SetRot(c, q) \/ CompleteRotation(c)
      BY <1>2, <1>11 DEF ProcessConfirm
    <3>2. q.pend = rot[c].pend
      <4>1. Taking(c, "CONFIRM") /\ "CONFIRM" \in Types
        BY <1>11 DEF ProcessConfirm, Types
      <4>2. m \in MessagesFrom(Peer(c))
        BY <1>2, <4>1, TakingKeeps
      <4>3. m.rid \in Rids
        BY <2>1, <4>2 DEF MessagesFrom, WellFormed
      <4>4. r \in Rotation /\ r.pend = rot[c].pend
        BY <1>0, <4>3, AdoptType DEF Statuses
      <4> HIDE DEF r
      <4> QED
        BY <4>4, StatusType DEF Statuses
    <3> HIDE DEF q
    <3> QED
      BY <1>0, <1>7, <3>1, <3>2 DEF SetRot, TypeOK
  <2>3. Calm
    BY <1>5, <1>6, <2>1, <2>2
  <2> QED
    BY <1>4, <2>1, <2>3
<1>12. CASE ProcessComplete(c) \/ ProcessReject(c)
  <2>1. rot'[c].pend.rid = None /\ deriving' = deriving /\ sending' = sending
    BY <1>7, <1>12 DEF ProcessComplete, ProcessReject
  <2> QED
    BY <1>4, <1>6, <2>1
<1> QED
  BY <1>8, <1>9, <1>10, <1>11, <1>12 DEF Handle

\* A handler that was waiting goes on.
LEMMA ClaimsResumed ==
    ASSUME IInv, ClaimInv, Unreloaded, NEW c \in Clients, ClientStep(c), Resume(c)
    PROVE  ClaimInv'
<1>0. TypeOK
  BY DEF IInv
<1>1. ResetRotation(c) \/ CompleteRotation(c) => rot'[c].pend.rid = None
  BY <1>0 DEF ResetRotation, CompleteRotation, SetRot, Idle, NoSaved, TypeOK
<1>2. CASE AcceptDerived(c)
  BY <1>2, ClaimsButtons
<1>3. CASE RequestOrConfirmSent(c)
  <2>1. PICK t \in sending[c] :
          /\ t.type \in {"REQUEST", "CONFIRM"} /\ Sent(c, t)
          /\ UNCHANGED <<rot, deriving, key, seen>>
    BY <1>3 DEF RequestOrConfirmSent
  <2> QED
    BY <2>1, ClaimsSent
<1>4. CASE AcceptSent(c)
  <2>1. PICK t \in sending[c] :
          /\ t.type = "ACCEPT" /\ Sent(c, t)
          /\ key' = [key EXCEPT ![c] = t.newKey]
          /\ SetRot(c, [rot[c] EXCEPT !.pend = NoSaved])
          /\ UNCHANGED <<deriving, seen>>
    BY <1>4 DEF AcceptSent, ActivateNewKey
  <2>2. rot'[c].pend.rid = None
    <3>1. rot[c] \in Rotation /\ rot \in [Clients -> Rotation]
      BY <1>0 DEF TypeOK
    <3>2. [rot[c] EXCEPT !.pend = NoSaved].pend = NoSaved
      BY <3>1 DEF Rotation
    <3>3. PICK q : q = [rot[c] EXCEPT !.pend = NoSaved]
      OBVIOUS
    <3>4. rot' = [rot EXCEPT ![c] = q] /\ q.pend = NoSaved
      BY <2>1, <3>2, <3>3 DEF SetRot
    <3> QED
      BY <3>1, <3>4 DEF NoSaved
  <2> QED
    BY <2>1, <2>2, ClaimsSent
<1>5. CASE RejectSent(c)
  <2>1. PICK t \in sending[c] :
          t.type = "REJECT" /\ Sent(c, t) /\ ResetRotation(c) /\ UNCHANGED <<deriving, key, seen>>
    BY <1>5 DEF RejectSent
  <2> QED
    BY <1>1, <2>1, ClaimsSent
<1>6. CASE CompleteSent(c)
  <2>1. PICK t \in sending[c] :
          t.type = "COMPLETE" /\ Sent(c, t) /\ CompleteRotation(c) /\ UNCHANGED <<deriving, key, seen>>
    BY <1>6 DEF CompleteSent
  <2> QED
    BY <1>1, <2>1, ClaimsSent
<1>7. CASE TextSent(c)
  <2>1. PICK t \in sending[c] :
          /\ t.type = "TEXT"
          /\ \/ Sent(c, t)
             \/ sending' = [sending EXCEPT ![c] = @ \ {t}] /\ UNCHANGED <<queue, net>>
          /\ UNCHANGED <<rot, deriving, key, seen>>
    BY <1>7 DEF TextSent
  <2>2. CASE Sent(c, t)
    BY <2>1, <2>2, ClaimsSent
  <2>3. CASE sending' = [sending EXCEPT ![c] = @ \ {t}] /\ UNCHANGED <<queue, net>>
    <3>1. NothingStored(c)
      BY <2>3 DEF NothingStored, net
    <3>2. sending'[c] = sending[c] \ {t}
      BY <1>0, <2>3 DEF TypeOK
    <3>3. \A r \in Rids : Answering(c, r) => Answering(c, r)'
      BY <2>1, <3>2 DEF Answering
    <3> QED
      BY <2>1, <2>3, <3>1, <3>2, <3>3, ClaimsQuiet
  <2> QED
    BY <2>1, <2>2, <2>3
<1>8. CASE ConfirmDerived(c)
  <2>1. PICK t \in deriving[c] :
          /\ t.type = "CONFIRM"
          /\ deriving' = [deriving EXCEPT ![c] = @ \ {t}]
          /\ SetRot(c, [rot[c] EXCEPT !.status = "CONFIRM"])
          /\ key' = [key EXCEPT ![c] = t.newKey]
          /\ \/ StartSend(c, "CONFIRM", t.rid, None, t.newKey, t.newKey)
             \/ UNCHANGED sending
          /\ UNCHANGED <<seen, queue, inbox, log>>
    BY <1>8 DEF ConfirmDerived, ActivateNewKey, net
  <2>2. /\ deriving'[c] = deriving[c] \ {t} /\ key'[c] = t.newKey
        /\ \A u \in sending[c] : u \in sending'[c]
        /\ \A u \in sending'[c] : u \in sending[c] \/ u.type # "ACCEPT"
    BY <1>0, <2>1 DEF StartSend, TypeOK
  <2>3. rot'[c].pend = rot[c].pend
    <3>1. rot[c] \in Rotation /\ "CONFIRM" \in Statuses
      BY <1>0 DEF TypeOK, Statuses
    <3>2. PICK q : q = [rot[c] EXCEPT !.status = "CONFIRM"]
      OBVIOUS
    <3>3. q.pend = rot[c].pend
      BY <3>1, <3>2, StatusType
    <3>4. rot' = [rot EXCEPT ![c] = q]
      BY <2>1, <3>2 DEF SetRot
    <3> QED
      BY <1>0, <3>3, <3>4 DEF TypeOK
  <2>4. \A r \in Rids : Answering(c, r) => Answering(c, r)'
    BY <2>1, <2>2 DEF Answering
  <2>5. TaskKeys(c)
    BY DEF ClaimInv
  <2>6. TaskKeys(c)'
    BY <2>2, <2>5 DEF TaskKeys
  <2>7. \A d \in Clients : d # c => SamePage(d)
    BY PagesApart
  <2>8. t.newKey.rid = t.rid
    BY <2>5 DEF TaskKeys
  <2>9. ASSUME NEW r \in Rids, NEW k, PageClaims(c, r, k)' PROVE Claim(r, k)
    <3>1. CASE \E u \in deriving'[c] : u.rid = r /\ u.newKey = k
      BY <2>2, <3>1 DEF Claim, PageClaims
    <3>2. CASE \E u \in sending'[c] : u.type = "ACCEPT" /\ u.rid = r /\ u.newKey = k
      BY <2>2, <3>2 DEF Claim, PageClaims
    <3>3. CASE \E n \in Elements(queue'[c]) :
                  n.type = "ACCEPT" /\ n.rid = r /\ k = DeriveNewKey(r, r, n.eph)
      BY <2>1, <3>3 DEF Claim, PageClaims
    <3>4. CASE key'[c] = k /\ k.rid = r
      BY <2>2, <2>8, <3>4 DEF Claim, PageClaims
    <3> QED
      BY <2>9, <3>1, <3>2, <3>3, <3>4 DEF PageClaims
  <2>10. \A d \in Clients, r \in Rids : \A k : SocketClaims(d, r, k)' => Claim(r, k)
    BY <2>1 DEF SocketClaims, Claim
  <2>11. seen[c] \subseteq seen'[c] /\ rot'[c].pend.rid = rot[c].pend.rid
    BY <2>1, <2>3
  <2> QED
    BY <2>4, <2>6, <2>7, <2>9, <2>10, <2>11, ClaimsKept
<1> QED
  BY <1>2, <1>3, <1>4, <1>5, <1>6, <1>7, <1>8 DEF Resume

\* Reconnecting moves the messages a page has kept to the socket of the other side.
LEMMA ClaimsReconnected ==
    ASSUME IInv, ClaimInv, Unreloaded, NEW c \in Clients, ClientStep(c), Reconnect(c)
    PROVE  ClaimInv'
<1>0. TypeOK
  BY DEF IInv
<1>1. TaskKeys(c)
  BY DEF ClaimInv
<1>2. /\ UNCHANGED <<rot, deriving, sending, key, seen>> /\ queue'[c] = <<>>
      /\ inbox' = inbox \/ inbox' = [inbox EXCEPT ![Peer(c)] = @ \o queue[c]]
  BY <1>0 DEF Reconnect, Forward, TypeOK
<1>3. \A d \in Clients : Elements(inbox'[d]) \subseteq Elements(inbox[d]) \cup Elements(queue[c])
  <2>1. /\ inbox \in [Clients -> Seq(Message)] /\ queue[c] \in Seq(Message)
        /\ Peer(c) \in Clients
    BY <1>0, PeerIsClient DEF TypeOK
  <2>2. inbox[Peer(c)] \in Seq(Message)
    BY <2>1
  <2>3. Elements(inbox[Peer(c)] \o queue[c]) = Elements(inbox[Peer(c)]) \cup Elements(queue[c])
    BY <2>1, <2>2, ElementsOf
  <2> QED
    BY <1>2, <2>1, <2>3
<1>4. TaskKeys(c)'
  BY <1>1, <1>2 DEF TaskKeys
<1>5. \A d \in Clients : d # c => SamePage(d)
  BY PagesApart
<1>6. \A r \in Rids : \A k : PageClaims(c, r, k)' => Claim(r, k)
  <2>1. Elements(queue'[c]) = {}
    BY <1>2 DEF Elements
  <2> QED
    BY <1>2, <2>1 DEF PageClaims, Claim
<1>7. \A d \in Clients, r \in Rids : \A k : SocketClaims(d, r, k)' => Claim(r, k)
  BY <1>3 DEF SocketClaims, PageClaims, Claim
<1>8. \A r \in Rids : Answering(c, r) => Answering(c, r)'
  BY <1>2 DEF Answering
<1>9. seen[c] \subseteq seen'[c] /\ rot'[c].pend.rid = rot[c].pend.rid
  BY <1>2
<1> QED
  BY <1>4, <1>5, <1>6, <1>7, <1>8, <1>9, ClaimsKept

\* A step that changes no page and no socket.
LEMMA ClaimsStill ==
    ASSUME ClaimInv, UNCHANGED <<rot, deriving, sending, key, seen, queue, inbox, reloads>>
    PROVE  ClaimInv'
<1>1. /\ \A c \in Clients : \A r, k : (PageClaims(c, r, k)' <=> PageClaims(c, r, k))
      /\ \A c \in Clients : \A r, k : (SocketClaims(c, r, k)' <=> SocketClaims(c, r, k))
  BY DEF PageClaims, SocketClaims
<1>2. \A r, k : (Claim(r, k)' <=> Claim(r, k))
  BY <1>1 DEF Claim
<1>3. \A c \in Clients : /\ TaskKeys(c)' <=> TaskKeys(c)
                         /\ \A r : (Asked(c, r)' <=> Asked(c, r))
                         /\ \A r : (Answering(c, r)' <=> Answering(c, r))
  BY DEF TaskKeys, Asked, Answering
<1>4. \A r : (Asked(Peer(Owner(r)), r)' <=> Asked(Peer(Owner(r)), r))
  BY DEF Asked
<1>5. \A c \in Clients : PendingOnce(c)' <=> PendingOnce(c)
  BY <1>2, <1>3 DEF PendingOnce
<1>6. Unreloaded' <=> Unreloaded
  BY DEF Unreloaded
<1> QED
  BY <1>2, <1>3, <1>4, <1>5, <1>6 DEF ClaimInv

LEMMA ClaimStep == IInv /\ ClaimInv /\ [Next]_vars => ClaimInv'
<1> SUFFICES ASSUME IInv, ClaimInv, [Next]_vars PROVE ClaimInv'
  OBVIOUS
<1>0. TypeOK
  BY DEF IInv
<1>1. ASSUME NEW c \in Clients, ClientStep(c) PROVE ClaimInv'
  <2>1. CASE Reload(c)
    <3>1. reloads' = [reloads EXCEPT ![c] = @ + 1]
      BY <2>1 DEF Reload, ReloadIdle, ReloadToRequest, ReloadAfterOwnAccept,
         ReloadAfterConfirm, LoadPage
    <3>2. reloads \in [Clients -> 0..MaxReloads] /\ reloads[c] \in Nat
      BY <1>0, BoundsAssumption DEF TypeOK
    <3>3. reloads'[c] # 0
      BY <3>1, <3>2
    <3> QED
      BY <3>3 DEF ClaimInv, Unreloaded
  <2>2. CASE ~Reload(c) /\ ~Unreloaded
    <3>1. reloads' = reloads
      BY <1>1, <2>2 DEF ClientStep, Initiate, Accept, AcceptExpired, Reject, SendText, Handle,
         Resume, Cut, Reconnect, ShowOrIgnore, ProcessIncomingRequest, ProcessAccept,
         ProcessConfirm, ProcessComplete, ProcessReject, RequestOrConfirmSent, AcceptDerived,
         AcceptSent, RejectSent, ConfirmDerived, CompleteSent, TextSent, counters
    <3> QED
      BY <2>2, <3>1 DEF ClaimInv, Unreloaded
  <2>3. CASE ~Reload(c) /\ Unreloaded
    BY <1>1, <2>3, ClaimsAccept, ClaimsButtons, ClaimsHandled, ClaimsResumed,
       ClaimsReconnected DEF ClientStep
  <2> QED
    BY <2>1, <2>2, <2>3
<1>2. ASSUME NEW r \in Rids, Expire(r) PROVE ClaimInv'
  BY <1>2, ClaimsStill DEF Expire, page, net, counters
<1>3. CASE UNCHANGED vars
  BY <1>3, ClaimsStill DEF vars, page, net, counters
<1> QED
  BY <1>1, <1>2, <1>3 DEF Next

\* As long as no page is reloaded, two pages whose keys come from the same rotation
\* have the same key, however their handlers, requests of both sides, answers, lost
\* messages and reconnections interleave.
THEOREM RotationsHaveOneKey == Spec => []SameRotationSameKey
<1>1. IInv /\ ClaimInv => SameRotationSameKey
  <2> SUFFICES ASSUME IInv, ClaimInv, Unreloaded, key[Alice].rid = key[Bob].rid
               PROVE  key[Alice] = key[Bob]
    BY DEF SameRotationSameKey, Unreloaded
  <2>1. Alice \in Clients /\ Bob \in Clients
    BY DEF Clients
  <2>2. \A c \in Clients : key[c] \in AgreedKeys \cup {BaseKey}
    BY DEF IInv, KeyOrigin, Unreloaded
  <2>3. ASSUME NEW k \in AgreedKeys PROVE k.rid \in Rids /\ k.rid # None
    BY NoneIsNoEph DEF AgreedKeys, DeriveNewKey, Rids
  <2>4. CASE key[Alice] = BaseKey \/ key[Bob] = BaseKey
    <3>1. BaseKey.rid = None /\ BaseKey \notin AgreedKeys
      BY <2>3 DEF BaseKey
    <3>2. key[Alice].rid = None /\ key[Bob].rid = None
      BY <2>4, <3>1
    <3>3. key[Alice] \notin AgreedKeys /\ key[Bob] \notin AgreedKeys
      BY <2>3, <3>2
    <3> QED
      BY <2>1, <2>2, <3>3
  <2>5. CASE key[Alice] \in AgreedKeys /\ key[Bob] \in AgreedKeys
    <3>1. PICK r \in Rids : key[Alice].rid = r /\ key[Bob].rid = r
      BY <2>3, <2>5
    <3>2. Claim(r, key[Alice]) /\ Claim(r, key[Bob])
      BY <2>1, <3>1 DEF Claim, PageClaims
    <3> QED
      BY <3>2 DEF ClaimInv
  <2> QED
    BY <2>1, <2>2, <2>4, <2>5
<1>2. Spec => []ClaimInv
  BY ClaimInit, ClaimStep, Invariance, PTL DEF Spec
<1> QED
  BY <1>1, <1>2, Invariance, PTL

-----------------------------------------------------------------------------
(* A request has one answer *)

Answers == {"ACCEPT", "REJECT"}
\* Two messages of a rotation that must not both come from one side.
Alike(a, b) == \E kind \in {{"REQUEST"}, Answers} : a \in kind /\ b \in kind

\* An answer that a page finds in the history it loads; a request counts as it is.
Counts(m) == m.type \in Answers => m.enc = m.label

Said(s, c, type, r) ==
    \E m \in Elements(s) : m.from = c /\ m.rid = r /\ Alike(m.type, type)
Told(s, c, type, r) ==
    \E m \in Elements(s) : Counts(m) /\ m.from = c /\ m.rid = r /\ Alike(m.type, type)
Again(m, n) == m.from = n.from /\ m.rid = n.rid /\ Alike(m.type, n.type)
SaidOnce(s) == \A i, j \in DOMAIN s : i < j => ~Again(s[i], s[j])
\* What is said again has not been told before.
ToldOnce(s) == \A i, j \in DOMAIN s : i < j /\ Again(s[i], s[j]) => ~Counts(s[i])
\* Neither told nor kept for a closed socket.
Unsaid(c, type, r) == ~Told(log, c, type, r) /\ ~Said(queue[c], c, type, r)

Under(c) == deriving[c] \cup sending[c]

\* Of the handlers under way no two ask the same or answer the same.
Apart(c) == \A t, u \in Under(c) : t.rid = u.rid /\ Alike(t.type, u.type) => t = u

\* What a page has yet to store has not been told.
Kept(c) ==
    /\ SaidOnce(queue[c])
    /\ \A m \in Elements(queue[c]) : ~Told(log, c, m.type, m.rid)
    /\ \A t \in Under(c) : Unsaid(c, t.type, t.rid)
    /\ \A t \in sending[c] \cup Elements(queue[c]) : t.type = "REQUEST" => t.rid[2] <= used[c]
    /\ \A m \in Elements(log) : m.from = c /\ m.type = "REQUEST" => m.rid[2] <= used[c]

\* The page knows when the request it shows has been answered.
MayAnswer(c) ==
    LET r == rot[c].pend.rid
    IN r # None => /\ ~Said(queue[c], c, "ACCEPT", r)
                   /\ Told(log, c, "ACCEPT", r) => r \in resolved[c]

\* A request the page has not taken in has not been answered.
Untouched(c, r) ==
    /\ rot[c].pend.rid # r
    /\ Unsaid(c, "ACCEPT", r)
    /\ \A t \in Under(c) : t.type \in Answers => t.rid # r
Unasked(c) ==
    \A m \in Elements(inbox[c]) :
        m.type = "REQUEST" /\ ~Repeated(c, m) => Untouched(c, m.rid)

\* The inductive invariant of the answers.
OnceInv ==
    /\ ToldOnce(log)
    /\ \A c \in Clients : Apart(c) /\ Kept(c) /\ MayAnswer(c) /\ Unasked(c)

LEMMA OnceInit == Init => OnceInv
<1> SUFFICES ASSUME Init PROVE OnceInv
  OBVIOUS
<1>1. Elements(<<>>) = {} /\ SaidOnce(<<>>) /\ ToldOnce(<<>>)
  BY DEF Elements, SaidOnce, ToldOnce
<1>2. ToldOnce(log)
  BY <1>1 DEF Init
<1>3. ASSUME NEW c \in Clients PROVE Apart(c) /\ Kept(c) /\ MayAnswer(c) /\ Unasked(c)
  <2>1. Under(c) = {} /\ sending[c] = {} /\ queue[c] = <<>> /\ inbox[c] = <<>> /\ log = <<>>
    BY <1>3 DEF Init, Under
  <2>2. rot[c].pend.rid = None
    BY <1>3 DEF Init, Idle, NoSaved
  <2> QED
    BY <1>1, <2>1, <2>2 DEF Apart, Kept, MayAnswer, Unasked
<1> QED
  BY <1>2, <1>3 DEF OnceInv

\* An ACCEPT and a REJECT are alike, and nothing is like the other types.
LEMMA AlikeTypes ==
    /\ \A a \in Answers : \A s, c, r : Said(s, c, a, r) <=> Said(s, c, "ACCEPT", r)
    /\ \A a \in Answers : \A s, c, r : Told(s, c, a, r) <=> Told(s, c, "ACCEPT", r)
    /\ \A a, b : Alike(a, b) <=> (a = "REQUEST" /\ b = "REQUEST") \/ (a \in Answers /\ b \in Answers)
<1>1. \A a, b : Alike(a, b) <=> (a = "REQUEST" /\ b = "REQUEST") \/ (a \in Answers /\ b \in Answers)
  BY DEF Alike
<1>2. \A a \in Answers : \A b : Alike(b, a) <=> Alike(b, "ACCEPT")
  BY <1>1 DEF Answers
<1> QED
  BY <1>1, <1>2 DEF Said, Told

LEMMA UnsaidTypes ==
    ASSUME NEW c, NEW type, NEW r, type \notin Answers \cup {"REQUEST"}
    PROVE  Unsaid(c, type, r)
BY AlikeTypes DEF Unsaid, Said, Told

\* What is told is said.
LEMMA ToldIsSaid == \A s, c, type, r : Told(s, c, type, r) => Said(s, c, type, r)
BY DEF Told, Said

\* A page takes up nothing it has under way already.
LEMMA ApartLeft ==
    ASSUME NEW c \in Clients, Apart(c), NEW S, S \subseteq Under(c), NEW t,
           Under(c)' \subseteq S \cup {t},
           \A u \in S : ~(u.rid = t.rid /\ Alike(u.type, t.type))
    PROVE  Apart(c)'
<1>1. \A a, b : Alike(a, b) <=> Alike(b, a)
  BY DEF Alike
<1>2. PICK U : U = Under(c)'
  OBVIOUS
<1>3. \A v, w \in U : v.rid = w.rid /\ Alike(v.type, w.type) => v = w
  BY <1>1, <1>2 DEF Apart
<1> QED
  BY <1>2, <1>3 DEF Apart

LEMMA ApartKept ==
    ASSUME NEW c \in Clients, Apart(c), Under(c)' \subseteq Under(c)
    PROVE  Apart(c)'
BY DEF Apart

\* A handler that neither asks nor answers is like no other.
LEMMA ApartGrown ==
    ASSUME NEW c \in Clients, Apart(c), NEW t, t.type \notin Answers \cup {"REQUEST"},
           Under(c)' \subseteq Under(c) \cup {t}
    PROVE  Apart(c)'
<1>1. \A u \in Under(c) : ~Alike(u.type, t.type)
  BY AlikeTypes
<1> QED
  BY <1>1, ApartLeft

\* A handler derives a key or sends a message, never both.
LEMMA TasksApart == IInv => \A c \in Clients : deriving[c] \cap sending[c] = {}
<1>1. ASSUME NEW t \in Deriving PROVE t \notin Sending
  <2>1. "enc" \notin DOMAIN t
    BY DEF Deriving
  <2>2. \A u \in Sending : "enc" \in DOMAIN u
    BY DEF Sending
  <2> QED
    BY <2>1, <2>2
<1> QED
  BY <1>1 DEF IInv, TypeOK

\* Adding messages that say what was not told before tells nothing twice.
LEMMA ToldOnceJoined ==
    ASSUME NEW S, NEW s \in Seq(S), NEW q \in Seq(S), ToldOnce(s), SaidOnce(q),
           \A m \in Elements(q) : ~Told(s, m.from, m.type, m.rid)
    PROVE  ToldOnce(s \o q)
<1>1. /\ Len(s) \in Nat /\ Len(q) \in Nat
      /\ DOMAIN s = 1..Len(s) /\ DOMAIN q = 1..Len(q) /\ DOMAIN (s \o q) = 1..(Len(s) + Len(q))
      /\ \A i \in 1..Len(s) : (s \o q)[i] = s[i]
      /\ \A i \in 1..Len(q) : (s \o q)[Len(s) + i] = q[i]
  OBVIOUS
<1>2. PICK j : j = s \o q
  OBVIOUS
<1>3. ASSUME NEW i \in 1..Len(s), NEW k \in 1..Len(q), Again(s[i], q[k])
      PROVE  ~Counts(s[i])
  <2>1. s[i] \in Elements(s) /\ q[k] \in Elements(q)
    BY <1>1 DEF Elements
  <2> QED
    BY <1>3, <2>1 DEF Told, Again
<1>4. ToldOnce(j)
  <2> SUFFICES ASSUME NEW i \in DOMAIN j, NEW k \in DOMAIN j, i < k, Again(j[i], j[k])
               PROVE  ~Counts(j[i])
    BY DEF ToldOnce
  <2>1. i \in 1..(Len(s) + Len(q)) /\ k \in 1..(Len(s) + Len(q))
    BY <1>1, <1>2
  <2>2. CASE k <= Len(s)
    <3>1. i \in DOMAIN s /\ k \in DOMAIN s /\ j[i] = s[i] /\ j[k] = s[k]
      BY <1>1, <1>2, <2>1, <2>2
    <3> QED
      BY <3>1 DEF ToldOnce
  <2>3. CASE i > Len(s)
    <3>1. PICK i1 \in 1..Len(q) : i = Len(s) + i1
      <4>1. i - Len(s) \in 1..Len(q) /\ i = Len(s) + (i - Len(s))
        BY <1>1, <2>1, <2>3
      <4> QED
        BY <4>1
    <3>2. PICK k1 \in 1..Len(q) : k = Len(s) + k1
      <4>1. k - Len(s) \in 1..Len(q) /\ k = Len(s) + (k - Len(s))
        BY <1>1, <2>1, <2>3
      <4> QED
        BY <4>1
    <3>3. j[i] = q[i1] /\ j[k] = q[k1] /\ i1 < k1
      BY <1>1, <1>2, <2>1, <3>1, <3>2
    <3> QED
      BY <1>1, <3>3 DEF SaidOnce
  <2>4. CASE i <= Len(s) /\ k > Len(s)
    <3>1. i \in 1..Len(s) /\ k - Len(s) \in 1..Len(q) /\ Len(s) + (k - Len(s)) = k
      BY <1>1, <2>1, <2>4
    <3>2. j[i] = s[i] /\ j[k] = q[k - Len(s)]
      BY <1>1, <1>2, <3>1
    <3> QED
      BY <1>3, <3>1, <3>2
  <2> QED
    BY <1>1, <2>1, <2>2, <2>3, <2>4
<1> QED
  BY <1>2, <1>4

\* A message that is not among those kept already.
LEMMA SaidOnceAppended ==
    ASSUME NEW S, NEW s \in Seq(S), NEW m \in S, SaidOnce(s), ~Said(s, m.from, m.type, m.rid)
    PROVE  SaidOnce(Append(s, m))
<1>1. PICK q : q = Append(s, m)
  OBVIOUS
<1>2. /\ Len(s) \in Nat /\ DOMAIN s = 1..Len(s) /\ DOMAIN q = 1..(Len(s) + 1)
      /\ q[Len(s) + 1] = m /\ \A i \in 1..Len(s) : q[i] = s[i]
  BY <1>1
<1>3. \A i \in 1..Len(s) : ~Again(s[i], m)
  BY <1>2 DEF Said, Again, Elements
<1>4. ASSUME NEW i \in DOMAIN q, NEW k \in DOMAIN q, i < k PROVE ~Again(q[i], q[k])
  <2>1. i \in 1..Len(s) /\ (k \in 1..Len(s) \/ k = Len(s) + 1)
    BY <1>2, <1>4
  <2> QED
    BY <1>2, <1>3, <1>4, <2>1 DEF SaidOnce
<1> QED
  BY <1>1, <1>4 DEF SaidOnce

\* An answer, kept or stored, under way or possible, follows a stored request.
LEMMA NotAsked ==
    ASSUME IInv, StoryInv, NEW c \in Clients, NEW r, r # None, ~Logged("REQUEST", Peer(c), r)
    PROVE  Untouched(c, r)
<1>1. /\ rot[c].pend.rid # None => Logged("REQUEST", Peer(c), rot[c].pend.rid)
      /\ \A t \in deriving[c] \cup sending[c] \cup Elements(queue[c]) : Follows(c, t)
  BY DEF StoryInv, PageFollows, Tasks
<1>2. rot[c].pend.rid # r
  BY <1>1
<1>3. \A t \in Under(c) : t.type \in Answers => t.rid # r
  BY <1>1 DEF Under, Follows, Answers
<1>4. ~Said(queue[c], c, "ACCEPT", r)
  <2>1. \A m \in Elements(queue[c]) : Alike(m.type, "ACCEPT") => m.rid # r
    BY <1>1, AlikeTypes DEF Follows, Answers
  <2> QED
    BY <2>1 DEF Said
<1>5. ~Told(log, c, "ACCEPT", r)
  <2> SUFFICES ASSUME NEW i \in DOMAIN log, log[i].from = c, log[i].rid = r,
                      Alike(log[i].type, "ACCEPT")
               PROVE  FALSE
    BY DEF Told, Elements
  <2>1. log[i].type \in Answers
    BY AlikeTypes
  <2>2. StoredBefore(i, "REQUEST", Peer(c))
    BY <2>1 DEF StoryInv, StoredInOrder, Answers
  <2>3. PICK j \in 1..i-1 : log[j].type = "REQUEST" /\ log[j].from = Peer(c) /\ log[j].rid = r
    BY <2>2 DEF StoredBefore
  <2>4. log \in Seq(Message)
    BY DEF IInv, TypeOK
  <2>5. j \in DOMAIN log
    BY <2>3, <2>4
  <2> QED
    BY <2>3, <2>5 DEF Logged, Elements
<1> QED
  BY <1>2, <1>3, <1>4, <1>5 DEF Untouched, Unsaid

\* A page that does nothing, when nothing of its own is stored and its socket
\* brings no request that is new.
LEMMA OnceOther ==
    ASSUME IInv, OnceInv, NEW d \in Clients, SamePage(d),
           \A type, r : Told(log', d, type, r) <=> Told(log, d, type, r),
           \A m \in Elements(log') : m \in Elements(log) \/ m.from # d,
           \A m \in Elements(inbox'[d]) :
               m \in Elements(inbox[d]) \/ (m.type = "REQUEST" => Untouched(d, m.rid))
    PROVE  Apart(d)' /\ Kept(d)' /\ MayAnswer(d)' /\ Unasked(d)'
<1>0. Apart(d) /\ Kept(d) /\ MayAnswer(d) /\ Unasked(d)
  BY DEF OnceInv
<1>1. Under(d)' = Under(d)
  BY DEF Under, SamePage
<1>2. \A type, r : Unsaid(d, type, r)' <=> Unsaid(d, type, r)
  BY DEF Unsaid, SamePage
<1>3. Apart(d)'
  BY <1>0, <1>1 DEF Apart, SamePage
<1>4. Kept(d)'
  BY <1>0, <1>1, <1>2 DEF Kept, SamePage
<1>5. MayAnswer(d)'
  BY <1>0 DEF MayAnswer, SamePage
<1>6. \A r : Untouched(d, r) => Untouched(d, r)'
  BY <1>1, <1>2 DEF Untouched, SamePage
<1>7. Unasked(d)'
  <2> SUFFICES ASSUME NEW m \in Elements(inbox'[d]), m.type = "REQUEST", ~Repeated(d, m)'
               PROVE  Untouched(d, m.rid)'
    BY DEF Unasked
  <2>1. ~Repeated(d, m)
    BY DEF Repeated, SamePage
  <2>2. Untouched(d, m.rid)
    BY <1>0, <2>1 DEF Unasked
  <2> QED
    BY <1>6, <2>2
<1> QED
  BY <1>3, <1>4, <1>5, <1>7

\* A step that stores nothing and keeps what was kept: a handler that starts to
\* answer does so for the request the page shows and does not know as answered.
LEMMA OnceQuiet ==
    ASSUME IInv, OnceInv, NEW c \in Clients, ClientStep(c), NothingStored(c),
           queue' = queue, seen[c] \subseteq seen'[c],
           used'[c] = used[c] \/ used'[c] = used[c] + 1, Apart(c)',
           \A t \in Under(c)' :
               \/ \E u \in Under(c) : u.type = t.type /\ u.rid = t.rid
               \/ t.type \notin Answers \cup {"REQUEST"}
               \/ /\ t.type \in Answers /\ t.rid = rot[c].pend.rid
                  /\ t.rid # None /\ t.rid \notin resolved[c]
               \/ t.type = "REQUEST" /\ t.rid = NextEph(c) /\ used'[c] = used[c] + 1,
           \/ rot'[c].pend.rid = None
           \/ rot'[c].pend.rid = rot[c].pend.rid /\ resolved' = resolved
           \/ \E m \in Elements(inbox[c]) :
                 /\ m.type = "REQUEST" /\ ~Repeated(c, m) /\ rot'[c].pend.rid = m.rid
                 /\ <<m.rid, "REQUEST">> \in seen'[c]
    PROVE  OnceInv'
<1>0. /\ Apart(c) /\ Kept(c) /\ MayAnswer(c) /\ Unasked(c)
      /\ ToldOnce(log)
  BY DEF OnceInv
<1>1. /\ log' = log
      /\ \A d \in Clients : Elements(inbox'[d]) \subseteq Elements(inbox[d])
  BY DEF NothingStored
<1>2. \A d \in Clients : d # c => SamePage(d)
  BY PagesApart
<1>3. ASSUME NEW d \in Clients, d # c
      PROVE  Apart(d)' /\ Kept(d)' /\ MayAnswer(d)' /\ Unasked(d)'
  BY <1>1, <1>2, <1>3, OnceOther
<1>4. used[c] \in Nat
  BY BoundsAssumption DEF IInv, TypeOK
<1>5. \A type, r : Unsaid(c, type, r)' <=> Unsaid(c, type, r)
  BY <1>1 DEF Unsaid
<1>6. ASSUME NEW m \in Elements(inbox[c]), m.type = "REQUEST", ~Repeated(c, m)
      PROVE  Untouched(c, m.rid) /\ m.rid # None
  <2>1. inbox[c] \in Seq(MessagesFrom(Peer(c)))
    BY DEF IInv
  <2>2. m \in MessagesFrom(Peer(c))
    BY <2>1 DEF Elements
  <2>3. m.rid \in EphsOf(Peer(c))
    BY <1>6, <2>2 DEF MessagesFrom, WellFormed
  <2> QED
    BY <1>0, <1>6, <2>3, EphOwners, PeerIsClient DEF Unasked
<1>7. ASSUME NEW t \in Under(c)' PROVE Unsaid(c, t.type, t.rid)'
  <2>1. CASE \E u \in Under(c) : u.type = t.type /\ u.rid = t.rid
    BY <1>0, <1>5, <2>1 DEF Kept
  <2>2. CASE t.type \notin Answers \cup {"REQUEST"}
    BY <1>5, <2>2, UnsaidTypes
  <2>3. CASE /\ t.type \in Answers /\ t.rid = rot[c].pend.rid
             /\ t.rid # None /\ t.rid \notin resolved[c]
    <3>1. Unsaid(c, "ACCEPT", t.rid)
      BY <1>0, <2>3 DEF MayAnswer, Unsaid
    <3> QED
      BY <1>5, <2>3, <3>1, AlikeTypes DEF Unsaid
  <2>4. CASE t.type = "REQUEST" /\ t.rid = NextEph(c)
    <3>1. t.rid[2] = used[c] + 1 /\ ~(t.rid[2] <= used[c])
      BY <1>4, <2>4 DEF NextEph
    <3>2. \A m \in Elements(log) \cup Elements(queue[c]) :
             m.from = c /\ Alike(m.type, "REQUEST") => m.rid[2] <= used[c]
      BY <1>0, AlikeTypes DEF Kept, Answers
    <3>3. ~Told(log, c, "REQUEST", t.rid) /\ ~Said(queue[c], c, "REQUEST", t.rid)
      BY <3>1, <3>2 DEF Said, Told
    <3>4. Unsaid(c, t.type, t.rid)
      BY <2>4, <3>3 DEF Unsaid
    <3> QED
      BY <1>5, <3>4
  <2> QED
    BY <2>1, <2>2, <2>3, <2>4
<1>8. Kept(c)'
  <2>1. ASSUME NEW n, n <= used[c], n \in Nat PROVE n <= used'[c]
    BY <1>4, <2>1
  <2>2. \A t \in sending'[c] : t.type = "REQUEST" => t.rid[2] <= used'[c]
    <3> SUFFICES ASSUME NEW t \in sending'[c], t.type = "REQUEST" PROVE t.rid[2] <= used'[c]
      OBVIOUS
    <3>1. t \in Under(c)'
      BY DEF Under
    <3>2. CASE t.rid = NextEph(c) /\ used'[c] = used[c] + 1
      BY <1>4, <3>2 DEF NextEph
    <3>3. CASE \E u \in Under(c) : u.type = t.type /\ u.rid = t.rid
      <4>1. PICK u \in Under(c) : u.type = "REQUEST" /\ u.rid = t.rid
        BY <3>3
      <4>2. u \notin deriving[c]
        <5>1. deriving[c] \subseteq Deriving
          BY DEF IInv, TypeOK
        <5>2. \A v \in Deriving : v.type # "REQUEST"
          BY DEF Deriving
        <5> QED
          BY <4>1, <5>1, <5>2
      <4>3. u \in sending[c] /\ u \in SendingFrom(c)
        BY <4>1, <4>2 DEF Under, IInv
      <4>4. u.rid \in EphsOf(c)
        BY <4>1, <4>3 DEF SendingFrom, WellFormed
      <4>5. u.rid[2] \in Nat
        BY <4>4, BoundsAssumption DEF EphsOf, Ephs
      <4>6. u.rid[2] <= used[c]
        BY <1>0, <4>1, <4>3 DEF Kept
      <4> QED
        BY <2>1, <4>1, <4>5, <4>6
    <3> QED
      BY <3>1, <3>2, <3>3 DEF Answers
  <2>3. ASSUME NEW m \in Elements(queue[c]) \cup Elements(log), m.from = c, m.type = "REQUEST"
        PROVE  m.rid[2] \in Nat
    <3>1. log \in Seq(Messages) /\ queue[c] \in Seq(MessagesFrom(c))
      BY DEF IInv
    <3>2. m \in Messages \/ m \in MessagesFrom(c)
      BY <3>1 DEF Elements
    <3>3. m.rid \in EphsOf(c)
      BY <2>3, <3>2 DEF Messages, MessagesFrom, WellFormed
    <3> QED
      BY <3>3, BoundsAssumption DEF EphsOf, Ephs
  <2>4. \A m \in Elements(queue[c]) : m.from = c
    <3>1. queue[c] \in Seq(MessagesFrom(c))
      BY DEF IInv
    <3> QED
      BY <3>1 DEF Elements, MessagesFrom
  <2>5. /\ \A m \in Elements(queue[c]) : m.type = "REQUEST" => m.rid[2] <= used'[c]
        /\ \A m \in Elements(log) : m.from = c /\ m.type = "REQUEST" => m.rid[2] <= used'[c]
    BY <1>0, <2>1, <2>3, <2>4 DEF Kept
  <2> QED
    BY <1>0, <1>1, <1>7, <2>2, <2>5 DEF Kept
<1>9. MayAnswer(c)'
  <2>1. CASE rot'[c].pend.rid = None
    BY <2>1 DEF MayAnswer
  <2>2. CASE rot'[c].pend.rid = rot[c].pend.rid /\ resolved' = resolved
    BY <1>0, <1>1, <2>2 DEF MayAnswer
  <2>3. CASE \E m \in Elements(inbox[c]) :
                m.type = "REQUEST" /\ ~Repeated(c, m) /\ rot'[c].pend.rid = m.rid
    <3>1. Unsaid(c, "ACCEPT", rot'[c].pend.rid)
      BY <1>6, <2>3 DEF Untouched
    <3> QED
      BY <1>1, <3>1 DEF MayAnswer, Unsaid
  <2> QED
    BY <2>1, <2>2, <2>3
<1>10. Unasked(c)'
  <2> SUFFICES ASSUME NEW m \in Elements(inbox'[c]), m.type = "REQUEST", ~Repeated(c, m)'
               PROVE  Untouched(c, m.rid)'
    BY DEF Unasked
  <2>1. m \in Elements(inbox[c]) /\ ~Repeated(c, m)
    BY <1>1 DEF Repeated
  <2>2. Untouched(c, m.rid) /\ m.rid # None
    BY <1>6, <2>1
  <2>3. rot'[c].pend.rid # m.rid
    BY <2>2 DEF Untouched, Repeated
  <2>4. \A t \in Under(c)' : t.type \in Answers => t.rid # m.rid
    BY <2>2 DEF Untouched, Answers
  <2> QED
    BY <1>5, <2>2, <2>3, <2>4 DEF Untouched
<1> QED
  BY <1>0, <1>1, <1>3, <1>8, <1>9, <1>10 DEF OnceInv

\* A step that stores messages of c, or none, and leaves c with nothing it could say
\* twice.
LEMMA OnceStored ==
    ASSUME IInv, StoryInv, OnceInv, NEW c \in Clients, ClientStep(c),
           NEW ms \in Seq(MessagesFrom(c)), log' = log \o ms,
           \A d \in Clients : inbox'[d] = inbox[d] \/ (d = Peer(c) /\ inbox'[d] = inbox[d] \o ms),
           SaidOnce(ms),
           \A m \in Elements(ms) : ~Told(log, c, m.type, m.rid),
           Apart(c)', Kept(c)', MayAnswer(c)', Unasked(c)'
    PROVE  OnceInv'
<1>0. /\ ToldOnce(log)
      /\ \A d \in Clients : Apart(d) /\ Kept(d) /\ MayAnswer(d) /\ Unasked(d)
  BY DEF OnceInv
<1>1. /\ log \in Seq(Message) /\ ms \in Seq(Message)
      /\ \A m \in Elements(ms) : m.from = c /\ m \in MessagesFrom(c)
  <2>1. \A i \in DOMAIN ms : ms[i] \in MessagesFrom(c)
    OBVIOUS
  <2>2. \A m \in MessagesFrom(c) : m \in Message /\ m.from = c
    BY DEF MessagesFrom
  <2>3. ms \in Seq(Message)
    BY <2>1, <2>2
  <2> QED
    BY <2>1, <2>2, <2>3 DEF IInv, TypeOK, Elements
<1>2. Elements(log') = Elements(log) \cup Elements(ms)
  BY <1>1, ElementsOf
<1>3. ToldOnce(log')
  <2>1. \A m \in Elements(ms) : ~Told(log, m.from, m.type, m.rid)
    BY <1>1
  <2> QED
    BY <1>0, <1>1, <2>1, ToldOnceJoined
<1>5. ASSUME NEW d \in Clients, d # c
      PROVE  Apart(d)' /\ Kept(d)' /\ MayAnswer(d)' /\ Unasked(d)'
  <2>1. SamePage(d)
    BY <1>5, PagesApart
  <2>2. \A m \in Elements(log') : m \in Elements(log) \/ m.from # d
    BY <1>1, <1>2, <1>5
  <2>3. \A type, r : Told(log', d, type, r) <=> Told(log, d, type, r)
    BY <1>2, <2>2 DEF Told
  <2>4. ASSUME NEW m \in Elements(inbox'[d]), m \notin Elements(inbox[d]), m.type = "REQUEST"
        PROVE  Untouched(d, m.rid)
    <3>1. d = Peer(c) /\ inbox'[d] = inbox[d] \o ms
      BY <2>4
    <3>2. inbox[d] \in Seq(Message)
      BY DEF IInv, TypeOK
    <3>3. m \in Elements(ms)
      BY <1>1, <2>4, <3>1, <3>2, ElementsOf
    <3>4. m.rid # None
      <4>1. m.rid \in EphsOf(c)
        BY <1>1, <2>4, <3>3 DEF MessagesFrom, WellFormed
      <4> QED
        BY <4>1, EphOwners
    <3>5. ~Logged("REQUEST", c, m.rid)
      <4>1. \A n \in Elements(log) : n.type = "REQUEST" => Counts(n)
        BY DEF Counts, Answers
      <4>2. ~Told(log, c, "REQUEST", m.rid)
        BY <2>4, <3>3
      <4> QED
        BY <4>1, <4>2, AlikeTypes DEF Told, Logged
    <3>6. c = Peer(d)
      BY <3>1, PeerIsClient
    <3> QED
      BY <3>4, <3>5, <3>6, NotAsked
  <2> QED
    BY <2>1, <2>2, <2>3, <2>4, OnceOther
<1> QED
  BY <1>3, <1>5 DEF OnceInv

\* The message of a handler is out, lost or queued.
LEMMA OnceSent ==
    ASSUME IInv, StoryInv, OnceInv, NEW c \in Clients, ClientStep(c),
           NEW t \in sending[c], Sent(c, t), deriving' = deriving, seen' = seen, used' = used,
           \/ rot'[c].pend.rid = None
           \/ t.type \notin Answers /\ rot' = rot /\ resolved' = resolved
    PROVE  OnceInv'
<1> DEFINE m0 == [type |-> t.type, from |-> c, rid |-> t.rid, eph |-> t.eph,
                  enc |-> t.enc, label |-> key[c]]
<1>0. /\ Apart(c) /\ Kept(c) /\ MayAnswer(c) /\ Unasked(c)
      /\ ToldOnce(log)
  BY DEF OnceInv
<1>1. PICK m : m = m0
  OBVIOUS
<1>2. m \in MessagesFrom(c) /\ m \in Message
  <2>1. t \in Sending /\ WellFormed(c, t) /\ key[c] \in SessionKey
    BY DEF IInv, TypeOK, SendingFrom
  <2>2. m0 \in MessagesFrom(c)
    BY <2>1 DEF Sending, Message, MessagesFrom, WellFormed
  <2> QED
    BY <1>1, <2>2 DEF MessagesFrom
<1>3. m.type = t.type /\ m.rid = t.rid /\ m.from = c
  BY <1>1
<1>4. \/ connected[c] /\ Forward(c, <<m>>) /\ UNCHANGED <<queue, drops>>
      \/ UNCHANGED <<queue, inbox, log>>
      \/ queue' = [queue EXCEPT ![c] = Append(@, m)] /\ UNCHANGED net
  BY <1>1 DEF Sent
<1> HIDE DEF m0
<1>5. sending'[c] \subseteq sending[c] /\ Under(c)' = Under(c) \ {t} /\ t \in Under(c)
  <2>1. sending'[c] = sending[c] \ {t}
    BY DEF Sent, IInv, TypeOK
  <2>2. t \notin deriving[c]
    BY TasksApart
  <2> QED
    BY <2>1, <2>2 DEF Under
<1>6. Apart(c)'
  BY <1>0, <1>5, ApartKept
\* No other handler says what t says.
<1>17. \A u \in Under(c)' : ~(Alike(t.type, u.type) /\ u.rid = t.rid)
  BY <1>0, <1>5 DEF Apart
<1>7. /\ queue \in [Clients -> Seq(Message)] /\ inbox \in [Clients -> Seq(Message)]
      /\ log \in Seq(Message) /\ Peer(c) \in Clients /\ Peer(c) # c
      /\ <<m>> \in Seq(MessagesFrom(c)) /\ <<m>> \in Seq(Message) /\ Elements(<<m>>) = {m}
      /\ SaidOnce(<<m>>)
  <2>1. <<m>> \in Seq(MessagesFrom(c)) /\ <<m>> \in Seq(Message) /\ DOMAIN <<m>> = {1}
    BY <1>2
  <2>2. Elements(<<m>>) = {m} /\ SaidOnce(<<m>>)
    BY <2>1 DEF Elements, SaidOnce
  <2> QED
    BY <2>1, <2>2, PeerIsClient DEF IInv, TypeOK
<1>8. Unsaid(c, t.type, t.rid)
  BY <1>0 DEF Kept, Under
<1>9. t.type = "REQUEST" => t.rid[2] <= used[c]
  BY <1>0 DEF Kept
<1>10. \A n \in Elements(queue[c]) : n.from = c
  <2>1. queue[c] \in Seq(MessagesFrom(c))
    BY DEF IInv
  <2> QED
    BY <2>1 DEF Elements, MessagesFrom
<1>11. ASSUME NEW n \in Elements(inbox[c]), n.type = "REQUEST", ~Repeated(c, n)
       PROVE  /\ Untouched(c, n.rid) /\ n.rid # None
              /\ t.type \in Answers => t.rid # n.rid
  <2>1. inbox[c] \in Seq(MessagesFrom(Peer(c)))
    BY DEF IInv
  <2>2. n \in MessagesFrom(Peer(c))
    BY <2>1 DEF Elements
  <2>3. n.rid \in EphsOf(Peer(c))
    BY <1>11, <2>2 DEF MessagesFrom, WellFormed
  <2>4. Untouched(c, n.rid) /\ n.rid # None
    BY <1>0, <1>11, <2>3, EphOwners, PeerIsClient DEF Unasked
  <2> QED
    BY <1>5, <2>4 DEF Untouched
\* What c may say is said at most once more, by t.
<1>12. ASSUME inbox'[c] = inbox[c],
              \A type, r : ~Alike(t.type, type) \/ r # t.rid =>
                  (Unsaid(c, type, r) => Unsaid(c, type, r)')
       PROVE  Unasked(c)'
  <2> SUFFICES ASSUME NEW n \in Elements(inbox'[c]), n.type = "REQUEST", ~Repeated(c, n)'
               PROVE  Untouched(c, n.rid)'
    BY DEF Unasked
  <2>1. n \in Elements(inbox[c]) /\ ~Repeated(c, n)
    BY <1>12 DEF Repeated
  <2>2. Untouched(c, n.rid) /\ n.rid # None /\ (t.type \in Answers => t.rid # n.rid)
    BY <1>11, <2>1
  <2>3. rot'[c].pend.rid # n.rid
    BY <2>2 DEF Untouched
  <2>4. Unsaid(c, "ACCEPT", n.rid)'
    <3>1. ~Alike(t.type, "ACCEPT") \/ n.rid # t.rid
      BY <2>2, AlikeTypes
    <3> QED
      BY <1>12, <2>2, <3>1 DEF Untouched
  <2>5. \A u \in Under(c)' : u.type \in Answers => u.rid # n.rid
    BY <1>5, <2>2 DEF Untouched
  <2> QED
    BY <2>3, <2>4, <2>5 DEF Untouched
<1>13. ASSUME \A type, r : ~Alike(t.type, type) =>
                  /\ Told(log', c, type, r) <=> Told(log, c, type, r)
                  /\ Said(queue'[c], c, type, r) <=> Said(queue[c], c, type, r)
       PROVE  MayAnswer(c)'
  <2>1. CASE rot'[c].pend.rid = None
    BY <2>1 DEF MayAnswer
  <2>2. CASE t.type \notin Answers /\ rot' = rot /\ resolved' = resolved
    <3>1. ~Alike(t.type, "ACCEPT")
      BY <2>2, AlikeTypes
    <3> QED
      BY <1>0, <1>13, <2>2, <3>1 DEF MayAnswer
  <2> QED
    BY <2>1, <2>2
<1>14. CASE connected[c] /\ Forward(c, <<m>>) /\ UNCHANGED <<queue, drops>>
  <2>0. PICK ms : ms = <<m>>
    OBVIOUS
  <2>1. /\ log' = log \o ms /\ ms \in Seq(MessagesFrom(c)) /\ ms \in Seq(Message)
        /\ Elements(ms) = {m} /\ SaidOnce(ms)
        /\ inbox' = inbox \/ inbox' = [inbox EXCEPT ![Peer(c)] = @ \o ms]
    BY <1>7, <1>14, <2>0 DEF Forward
  <2>2. Elements(log') = Elements(log) \cup {m}
    BY <1>7, <2>1, ElementsOf
  <2>3. \A d \in Clients : inbox'[d] = inbox[d] \/ (d = Peer(c) /\ inbox'[d] = inbox[d] \o ms)
    BY <1>7, <2>1
  <2>4. \A n \in Elements(ms) : ~Told(log, c, n.type, n.rid)
    BY <1>3, <1>8, <2>1 DEF Unsaid
  <2>5. \A type, r : /\ Told(log', c, type, r) =>
                            Told(log, c, type, r) \/ (Alike(t.type, type) /\ r = t.rid)
                     /\ Told(log, c, type, r) => Told(log', c, type, r)
    BY <1>3, <2>2 DEF Told
  <2>6. Kept(c)'
    <3>1. \A n \in Elements(queue'[c]) : ~Told(log', c, n.type, n.rid)
      <4> SUFFICES ASSUME NEW n \in Elements(queue[c])
                   PROVE  ~Told(log', c, n.type, n.rid)
        BY <1>14
      <4>1. ~Told(log, c, n.type, n.rid)
        BY <1>0 DEF Kept
      <4>2. ~(Alike(n.type, t.type) /\ n.rid = t.rid)
        BY <1>8, <1>10 DEF Unsaid, Said
      <4>3. ~(Alike(t.type, n.type) /\ n.rid = t.rid)
        BY <4>2 DEF Alike
      <4> QED
        BY <2>5, <4>1, <4>3
    <3>2. \A n \in Elements(log') : n.from = c /\ n.type = "REQUEST" => n.rid[2] <= used'[c]
      BY <1>0, <1>3, <1>9, <2>2 DEF Kept
    <3>3. \A u \in Under(c)' : Unsaid(c, u.type, u.rid)'
      <4>1. ASSUME NEW u \in Under(c)' PROVE Unsaid(c, u.type, u.rid)'
        BY <1>0, <1>5, <1>14, <1>17, <2>5, <4>1 DEF Kept, Unsaid
      <4> QED
        BY <4>1
    <3> QED
      BY <1>0, <1>5, <1>14, <3>1, <3>2, <3>3 DEF Kept
  <2>7. MayAnswer(c)'
    BY <1>13, <1>14, <2>5
  <2>8. Unasked(c)'
    <3>1. inbox'[c] = inbox[c]
      BY <1>7, <2>3
    <3>2. \A type, r : ~Alike(t.type, type) \/ r # t.rid =>
              (Unsaid(c, type, r) => Unsaid(c, type, r)')
      BY <1>14, <2>5 DEF Unsaid
    <3> QED
      BY <1>12, <3>1, <3>2
  <2> QED
    BY <1>6, <2>1, <2>3, <2>4, <2>6, <2>7, <2>8, OnceStored
<1>15. CASE UNCHANGED <<queue, inbox, log>>
  <2>1. \A type, r : Unsaid(c, type, r) => Unsaid(c, type, r)'
    BY <1>15 DEF Unsaid
  <2>2. MayAnswer(c)' /\ Unasked(c)'
    BY <1>12, <1>13, <1>15, <2>1
  <2>3. Kept(c)'
    <3>1. \A u \in Under(c)' : Unsaid(c, u.type, u.rid)'
      BY <1>0, <1>5, <2>1 DEF Kept
    <3> QED
      BY <1>0, <1>5, <1>15, <3>1 DEF Kept
  <2>4. ASSUME NEW d \in Clients, d # c
        PROVE  Apart(d)' /\ Kept(d)' /\ MayAnswer(d)' /\ Unasked(d)'
    BY <1>15, <2>4, OnceOther, PagesApart
  <2> QED
    BY <1>0, <1>6, <1>15, <2>2, <2>3, <2>4 DEF OnceInv
<1>16. CASE queue' = [queue EXCEPT ![c] = Append(@, m)] /\ UNCHANGED net
  <2>1. queue[c] \in Seq(Message) /\ queue'[c] = Append(queue[c], m) /\ inbox' = inbox /\ log' = log
    BY <1>7, <1>16 DEF net
  <2>2. Elements(queue'[c]) = Elements(queue[c]) \cup {m}
    BY <1>2, <2>1, ElementsOf
  <2>4. SaidOnce(queue'[c])
    BY <1>0, <1>2, <1>3, <1>8, <2>1, SaidOnceAppended DEF Kept, Unsaid
  <2>5. \A type, r : Said(queue'[c], c, type, r) <=>
                         Said(queue[c], c, type, r) \/ (Alike(t.type, type) /\ r = t.rid)
    BY <1>3, <2>2 DEF Said
  <2>6. Kept(c)'
    <3>1. \A n \in Elements(queue'[c]) : ~Told(log', c, n.type, n.rid)
      BY <1>0, <1>3, <1>8, <2>1, <2>2 DEF Kept, Unsaid
    <3>2. \A n \in Elements(queue'[c]) : n.type = "REQUEST" => n.rid[2] <= used'[c]
      BY <1>0, <1>3, <1>9, <2>2 DEF Kept
    <3>3. \A u \in Under(c)' : Unsaid(c, u.type, u.rid)'
      <4>1. ASSUME NEW u \in Under(c)' PROVE Unsaid(c, u.type, u.rid)'
        BY <1>0, <1>5, <1>17, <2>1, <2>5, <4>1 DEF Kept, Unsaid
      <4> QED
        BY <4>1
    <3> QED
      BY <1>0, <1>5, <2>1, <2>4, <3>1, <3>2, <3>3 DEF Kept
  <2>7. MayAnswer(c)'
    BY <1>13, <2>1, <2>5
  <2>8. Unasked(c)'
    <3>1. \A type, r : ~Alike(t.type, type) \/ r # t.rid =>
              (Unsaid(c, type, r) => Unsaid(c, type, r)')
      BY <2>1, <2>5 DEF Unsaid
    <3> QED
      BY <1>12, <2>1, <3>1
  <2>9. ASSUME NEW d \in Clients, d # c
        PROVE  Apart(d)' /\ Kept(d)' /\ MayAnswer(d)' /\ Unasked(d)'
    BY <2>1, <2>9, OnceOther, PagesApart
  <2> QED
    BY <1>0, <1>6, <2>1, <2>6, <2>7, <2>8, <2>9 DEF OnceInv
<1> QED
  BY <1>4, <1>14, <1>15, <1>16

\* Reconnecting stores what was kept.
LEMMA OnceReconnected ==
    ASSUME IInv, StoryInv, OnceInv, NEW c \in Clients, ClientStep(c), Reconnect(c)
    PROVE  OnceInv'
<1>0. Apart(c) /\ Kept(c) /\ MayAnswer(c) /\ Unasked(c)
  BY DEF OnceInv
<1>1. PICK ms : ms = queue[c]
  OBVIOUS
<1>2. /\ log \in Seq(Message) /\ ms \in Seq(Message) /\ ms \in Seq(MessagesFrom(c))
      /\ \A d \in Clients : inbox[d] \in Seq(Message)
      /\ queue \in [Clients -> Seq(Message)] /\ inbox \in [Clients -> Seq(Message)]
      /\ Peer(c) \in Clients /\ Peer(c) # c
  BY <1>1, PeerIsClient DEF IInv, TypeOK
<1>3. /\ log' = log \o ms /\ queue'[c] = <<>>
      /\ inbox' = inbox \/ inbox' = [inbox EXCEPT ![Peer(c)] = @ \o ms]
      /\ UNCHANGED <<rot, deriving, sending, key, seen, resolved, used>>
  BY <1>1, <1>2 DEF Reconnect, Forward, counters
<1>4. \A d \in Clients : inbox'[d] = inbox[d] \/ (d = Peer(c) /\ inbox'[d] = inbox[d] \o ms)
  BY <1>2, <1>3
<1>5. Elements(log') = Elements(log) \cup Elements(ms) /\ Elements(<<>>) = {} /\ SaidOnce(<<>>)
  <2>1. Elements(log \o ms) = Elements(log) \cup Elements(ms)
    BY <1>2, ElementsOf
  <2>2. Elements(<<>>) = {} /\ SaidOnce(<<>>)
    BY DEF Elements, SaidOnce
  <2> QED
    BY <1>3, <2>1, <2>2
<1>6. \A type, r : Unsaid(c, type, r) => Unsaid(c, type, r)'
  <2>1. \A type, r : Told(log', c, type, r) => Told(log, c, type, r) \/ Said(ms, c, type, r)
    BY <1>5 DEF Said, Told
  <2>2. \A type, r : ~Said(queue'[c], c, type, r)
    BY <1>3, <1>5 DEF Said
  <2> QED
    BY <1>1, <2>1, <2>2 DEF Unsaid
<1>7. \A m \in Elements(ms) : m.from = c /\ ~Told(log, c, m.type, m.rid)
  <2>1. \A m \in Elements(ms) : m.from = c
    BY <1>2 DEF Elements, MessagesFrom
  <2> QED
    BY <1>0, <1>1, <2>1 DEF Kept
<1>8. Apart(c)'
  BY <1>0, <1>3 DEF Apart, Under
<1>9. Under(c)' = Under(c)
  BY <1>3 DEF Under
<1>10. Kept(c)'
  <2>1. \A m \in Elements(log') : m.from = c /\ m.type = "REQUEST" => m.rid[2] <= used'[c]
    BY <1>0, <1>1, <1>3, <1>5 DEF Kept
  <2> QED
    BY <1>0, <1>3, <1>5, <1>6, <1>9, <2>1 DEF Kept
<1>11. MayAnswer(c)'
  <2> SUFFICES ASSUME NEW r, r = rot[c].pend.rid, r # None
               PROVE  /\ ~Said(queue'[c], c, "ACCEPT", r)
                      /\ Told(log', c, "ACCEPT", r) => r \in resolved'[c]
    BY <1>3 DEF MayAnswer
  <2>1. ~Said(ms, c, "ACCEPT", r) /\ (Told(log, c, "ACCEPT", r) => r \in resolved[c])
    BY <1>0, <1>1 DEF MayAnswer
  <2>2. Told(log', c, "ACCEPT", r) => Told(log, c, "ACCEPT", r)
    BY <1>5, <2>1 DEF Said, Told
  <2>3. ~Said(queue'[c], c, "ACCEPT", r)
    BY <1>3, <1>5 DEF Said
  <2> QED
    BY <1>3, <2>1, <2>2, <2>3
<1>12. Unasked(c)'
  <2> SUFFICES ASSUME NEW n \in Elements(inbox'[c]), n.type = "REQUEST", ~Repeated(c, n)'
               PROVE  Untouched(c, n.rid)'
    BY DEF Unasked
  <2>1. n \in Elements(inbox[c]) /\ ~Repeated(c, n)
    BY <1>2, <1>3, <1>4 DEF Repeated
  <2>2. Untouched(c, n.rid)
    BY <1>0, <2>1 DEF Unasked
  <2> QED
    BY <1>3, <1>6, <1>9, <2>2 DEF Untouched
<1>13. SaidOnce(ms)
  BY <1>0, <1>1 DEF Kept
<1> QED
  BY <1>2, <1>3, <1>4, <1>7, <1>8, <1>10, <1>11, <1>12, <1>13, OnceStored

\* A new page has loaded the history, which shows it what it has answered.
LEMMA OnceReloaded ==
    ASSUME IInv, StoryInv, OnceInv, NEW c \in Clients, ClientStep(c), Reload(c)
    PROVE  OnceInv'
<1>0. /\ TypeOK /\ Apart(c) /\ Kept(c) /\ ToldOnce(log)
  BY DEF IInv, OnceInv
<1>1. /\ log' = log /\ inbox' = [inbox EXCEPT ![c] = <<>>] /\ used' = used
      /\ queue' = [queue EXCEPT ![c] = <<>>] /\ key' = [key EXCEPT ![c] = BaseKey]
      /\ resolved' = [resolved EXCEPT ![c] = ResolvedIn(log)]
  BY DEF Reload, ReloadIdle, ReloadToRequest, ReloadAfterOwnAccept, ReloadAfterConfirm,
     LoadPage, LoadMessages
<1>2. /\ queue'[c] = <<>> /\ inbox'[c] = <<>> /\ key'[c] = BaseKey
      /\ resolved'[c] = ResolvedIn(log)
      /\ \A d \in Clients : d # c => inbox'[d] = inbox[d]
  BY <1>0, <1>1 DEF TypeOK
<1>3. Elements(<<>>) = {} /\ SaidOnce(<<>>)
  BY DEF Elements, SaidOnce
<1>4. \A t \in Under(c)' : t.type \notin Answers \cup {"REQUEST"}
  <2>1. CASE NoDeriving(c) /\ NoSending(c)
    BY <1>0, <2>1 DEF NoDeriving, NoSending, Under, TypeOK
  <2>2. CASE \E t : t.type = "CONFIRM" /\ deriving' = [deriving EXCEPT ![c] = {t}] /\ NoSending(c)
    <3>1. PICK t : t.type = "CONFIRM" /\ deriving'[c] = {t} /\ sending'[c] = {}
      BY <1>0, <2>2 DEF NoSending, TypeOK
    <3>2. Under(c)' = {t}
      BY <3>1 DEF Under
    <3> QED
      BY <3>1, <3>2 DEF Answers
  <2>3. CASE \E t : /\ t.type = "COMPLETE"
                    /\ sending' = [sending EXCEPT ![c] = {t}] /\ NoDeriving(c)
    <3>1. PICK t : t.type = "COMPLETE" /\ sending'[c] = {t} /\ deriving'[c] = {}
      BY <1>0, <2>3 DEF NoDeriving, TypeOK
    <3>2. Under(c)' = {t}
      BY <3>1 DEF Under
    <3> QED
      BY <3>1, <3>2 DEF Answers
  <2>4. CASE ReloadAfterOwnAccept(c)
    <3>1. PICK m : /\ deriving' = [deriving EXCEPT ![c] =
                        {[type |-> "CONFIRM", rid |-> m.rid, eph |-> None,
                          newKey |-> DeriveNewKey(m.rid, slot[c].eph, m.eph)]}]
                   /\ NoSending(c)
      BY <2>4 DEF ReloadAfterOwnAccept
    <3>2. PICK t : t = [type |-> "CONFIRM", rid |-> m.rid, eph |-> None,
                        newKey |-> DeriveNewKey(m.rid, slot[c].eph, m.eph)]
      OBVIOUS
    <3> QED
      BY <2>2, <3>1, <3>2
  <2>5. CASE ReloadAfterConfirm(c)
    <3>1. PICK m : /\ NoDeriving(c)
                   /\ \/ sending' = [sending EXCEPT ![c] =
                            {[type |-> "COMPLETE", rid |-> m.rid, eph |-> None,
                              enc |-> BaseKey, newKey |-> BaseKey]}]
                      \/ NoSending(c)
      BY <2>5 DEF ReloadAfterConfirm
    <3>2. PICK t : t = [type |-> "COMPLETE", rid |-> m.rid, eph |-> None,
                        enc |-> BaseKey, newKey |-> BaseKey]
      OBVIOUS
    <3> QED
      BY <2>1, <2>3, <3>1, <3>2
  <2>6. CASE ReloadIdle(c) \/ ReloadToRequest(c)
    BY <2>1, <2>6 DEF ReloadIdle, ReloadToRequest
  <2> QED
    BY <2>4, <2>5, <2>6 DEF Reload
<1>9. Apart(c)'
  <2>1. PICK U : U = Under(c)'
    OBVIOUS
  <2>2. \A t, u \in U : ~Alike(t.type, u.type)
    BY <1>4, <2>1, AlikeTypes
  <2> QED
    BY <2>1, <2>2 DEF Apart
<1>5. Kept(c)'
  <2>1. \A t \in Under(c)' : Unsaid(c, t.type, t.rid)'
    <3>1. ASSUME NEW t \in Under(c)' PROVE Unsaid(c, t.type, t.rid)'
      <4>1. t.type \notin Answers \cup {"REQUEST"}
        BY <1>4
      <4>2. \A a : ~Alike(a, t.type)
        BY <4>1, AlikeTypes
      <4> QED
        BY <4>2 DEF Unsaid, Said, Told
    <3> QED
      BY <3>1
  <2>2. \A t \in sending'[c] : t.type # "REQUEST"
    BY <1>4 DEF Under
  <2> QED
    BY <1>0, <1>1, <1>2, <1>3, <2>1, <2>2 DEF Kept
<1>6. MayAnswer(c)'
  <2>1. \A r : ~Said(queue'[c], c, "ACCEPT", r)
    BY <1>2, <1>3 DEF Said
  <2>2. ASSUME NEW r, Told(log, c, "ACCEPT", r) PROVE r \in ResolvedIn(log)
    <3>1. PICK m \in Elements(log) : Counts(m) /\ m.rid = r /\ Alike(m.type, "ACCEPT")
      BY <2>2 DEF Told
    <3>2. m.enc = m.label /\ m.type \notin {"TEXT", "REQUEST"}
      BY <3>1, AlikeTypes DEF Counts, Answers
    <3>3. PICK i \in DOMAIN log : m = log[i]
      BY DEF Elements
    <3>4. i \in History(log)
      BY <3>2, <3>3 DEF History
    <3> QED
      BY <3>1, <3>2, <3>3, <3>4 DEF ResolvedIn
  <2> QED
    BY <1>1, <1>2, <2>1, <2>2 DEF MayAnswer
<1>7. Unasked(c)'
  BY <1>2, <1>3 DEF Unasked
<1>8. ASSUME NEW d \in Clients, d # c
      PROVE  Apart(d)' /\ Kept(d)' /\ MayAnswer(d)' /\ Unasked(d)'
  BY <1>1, <1>2, <1>8, OnceOther, PagesApart
<1> QED
  BY <1>0, <1>1, <1>5, <1>6, <1>7, <1>8, <1>9 DEF OnceInv

\* A click answers a request that no handler under way answers.
LEMMA AnswerApart ==
    ASSUME NEW c \in Clients, Apart(c), CanAnswer(c), NEW t, t.type \in Answers,
           t.rid = rot[c].pend.rid, Under(c)' = Under(c) \cup {t}
    PROVE  Apart(c)'
<1>1. \A u \in Under(c) : u.rid = t.rid => u.type \notin Answers
  BY DEF CanAnswer, Under, Answers
<1>2. \A u \in Under(c) : ~(u.rid = t.rid /\ Alike(u.type, t.type))
  BY <1>1, AlikeTypes DEF Answers
<1> QED
  BY <1>2, ApartLeft

\* The user's buttons.
LEMMA OnceButtons ==
    ASSUME IInv, OnceInv, NEW c \in Clients, ClientStep(c),
           \/ Initiate(c) \/ Accept(c) \/ AcceptExpired(c) \/ Reject(c)
           \/ SendText(c) \/ Cut(c)
    PROVE  OnceInv'
<1>0. TypeOK /\ Apart(c) /\ Kept(c)
  BY DEF IInv, OnceInv
<1>1. /\ NothingStored(c) /\ queue' = queue /\ seen' = seen
  BY StoresNothing DEF Initiate, Accept, AcceptExpired, Reject, SendText, Cut, page
<1>2. ResetRotation(c) => rot'[c].pend.rid = None
  BY <1>0 DEF ResetRotation, SetRot, Idle, NoSaved, TypeOK
<1>3. ASSUME deriving' = deriving, sending' = sending
      PROVE  Apart(c)' /\ Under(c)' = Under(c)
  BY <1>0, <1>3, ApartKept DEF Under
<1>4. CASE Initiate(c)
  <2>1. used'[c] = used[c] + 1 /\ deriving' = deriving /\ rot'[c].pend.rid = None
    BY <1>0, <1>2, <1>4 DEF Initiate, MakeEph, SetRot, NoSaved, TypeOK
  <2>2. CASE sending' = sending
    BY <1>1, <1>3, <1>4, <2>1, <2>2, OnceQuiet DEF Initiate
  <2>3. CASE StartSend(c, "REQUEST", NextEph(c), NextEph(c), key[c], key[c])
    <3>1. PICK t : /\ t.type = "REQUEST" /\ t.rid = NextEph(c)
                   /\ sending' = [sending EXCEPT ![c] = @ \cup {t}]
      <4>1. PICK t : t = [type |-> "REQUEST", rid |-> NextEph(c), eph |-> NextEph(c),
                          enc |-> key[c], newKey |-> key[c]]
        OBVIOUS
      <4> QED
        BY <2>3, <4>1 DEF StartSend
    <3>2. Under(c)' = Under(c) \cup {t}
      BY <1>0, <2>1, <3>1 DEF Under, TypeOK
    <3>3. ASSUME NEW u \in Under(c), u.type = "REQUEST" PROVE u.rid # t.rid
      <4>1. u \notin deriving[c]
        <5>1. deriving[c] \subseteq Deriving
          BY <1>0 DEF TypeOK
        <5>2. \A v \in Deriving : v.type # "REQUEST"
          BY DEF Deriving
        <5> QED
          BY <3>3, <5>1, <5>2
      <4>2. u \in sending[c]
        BY <4>1 DEF Under
      <4>3. u.rid[2] <= used[c]
        BY <1>0, <3>3, <4>2 DEF Kept
      <4>4. used[c] \in Nat /\ t.rid[2] = used[c] + 1
        BY <1>0, <3>1, BoundsAssumption DEF NextEph, TypeOK
      <4> QED
        BY <4>3, <4>4
    <3>4. \A u \in Under(c) : ~(u.rid = t.rid /\ Alike(u.type, t.type))
      BY <3>1, <3>3, AlikeTypes DEF Answers
    <3>5. Apart(c)'
      BY <1>0, <3>2, <3>4, ApartLeft
    <3> QED
      BY <1>1, <2>1, <3>1, <3>2, <3>5, OnceQuiet
  <2> QED
    BY <1>4, <2>2, <2>3 DEF Initiate
<1>5. CASE Accept(c)
  <2>1. /\ used'[c] = used[c] + 1 /\ sending' = sending /\ rot' = rot /\ resolved' = resolved
        /\ CanAnswer(c)
    BY <1>0, <1>5 DEF Accept, MakeEph, TypeOK
  <2>2. PICK t : /\ t.type = "ACCEPT" /\ t.rid = rot[c].pend.rid
                 /\ deriving' = [deriving EXCEPT ![c] = @ \cup {t}]
    <3>1. PICK t : t = [type |-> "ACCEPT", rid |-> rot[c].pend.rid, eph |-> NextEph(c),
                        newKey |-> DeriveNewKey(rot[c].pend.rid, NextEph(c), rot[c].pend.eph)]
      OBVIOUS
    <3> QED
      BY <1>5, <3>1 DEF Accept, StartDerive
  <2>3. Under(c)' = Under(c) \cup {t}
    BY <1>0, <2>1, <2>2 DEF Under, TypeOK
  <2>4. Apart(c)'
    BY <1>0, <2>1, <2>2, <2>3, AnswerApart DEF Answers
  <2> QED
    BY <1>1, <2>1, <2>2, <2>3, <2>4, OnceQuiet DEF Answers, CanAnswer
<1>6. CASE AcceptExpired(c)
  <2>1. deriving' = deriving /\ sending' = sending /\ used' = used /\ rot'[c].pend.rid = None
    BY <1>2, <1>6 DEF AcceptExpired, counters
  <2> QED
    BY <1>1, <1>3, <2>1, OnceQuiet
<1>7. CASE Reject(c)
  <2>1. used' = used /\ deriving' = deriving /\ CanAnswer(c)
    BY <1>7 DEF Reject, counters
  <2>2. CASE ResetRotation(c) /\ sending' = sending
    BY <1>1, <1>2, <1>3, <2>1, <2>2, OnceQuiet
  <2>3. CASE /\ StartSend(c, "REJECT", rot[c].pend.rid, None, key[c], key[c])
             /\ UNCHANGED <<rot, resolved>>
    <3>1. PICK t : /\ t.type = "REJECT" /\ t.rid = rot[c].pend.rid
                   /\ sending' = [sending EXCEPT ![c] = @ \cup {t}]
      <4>1. PICK t : t = [type |-> "REJECT", rid |-> rot[c].pend.rid, eph |-> None,
                          enc |-> key[c], newKey |-> key[c]]
        OBVIOUS
      <4> QED
        BY <2>3, <4>1 DEF StartSend
    <3>2. Under(c)' = Under(c) \cup {t}
      BY <1>0, <2>1, <3>1 DEF Under, TypeOK
    <3>3. Apart(c)'
      BY <1>0, <2>1, <3>1, <3>2, AnswerApart DEF Answers
    <3> QED
      BY <1>1, <2>1, <2>3, <3>1, <3>2, <3>3, OnceQuiet DEF Answers, CanAnswer
  <2> QED
    BY <1>7, <2>2, <2>3 DEF Reject
<1>8. CASE SendText(c)
  <2>1. used' = used /\ deriving' = deriving /\ UNCHANGED <<rot, resolved>>
    BY <1>8 DEF SendText
  <2>2. PICK t : t.type = "TEXT" /\ sending' = [sending EXCEPT ![c] = @ \cup {t}]
    <3>1. PICK t : t = [type |-> "TEXT", rid |-> None, eph |-> None,
                        enc |-> key[c], newKey |-> key[c]]
      OBVIOUS
    <3> QED
      BY <1>8, <3>1 DEF SendText, StartSend
  <2>3. Under(c)' = Under(c) \cup {t}
    BY <1>0, <2>1, <2>2 DEF Under, TypeOK
  <2>4. Apart(c)'
    BY <1>0, <2>2, <2>3, ApartGrown DEF Answers
  <2> QED
    BY <1>1, <2>1, <2>2, <2>3, <2>4, OnceQuiet DEF Answers
<1>9. CASE Cut(c)
  <2>1. UNCHANGED <<rot, deriving, sending, resolved, used>>
    BY <1>9 DEF Cut, page
  <2> QED
    BY <1>1, <1>3, <2>1, OnceQuiet
<1> QED
  BY <1>4, <1>5, <1>6, <1>7, <1>8, <1>9

\* The two handlers that have derived a key.
LEMMA OnceDerived ==
    ASSUME IInv, OnceInv, NEW c \in Clients, ClientStep(c), AcceptDerived(c) \/ ConfirmDerived(c)
    PROVE  OnceInv'
<1>0. TypeOK /\ Apart(c)
  BY DEF IInv, OnceInv
<1>1. NothingStored(c) /\ queue' = queue /\ seen' = seen /\ used' = used
  BY StoresNothing DEF AcceptDerived, ConfirmDerived, counters
<1>2. CASE AcceptDerived(c)
  <2>1. PICK t \in deriving[c] :
          /\ t.type = "ACCEPT"
          /\ deriving' = [deriving EXCEPT ![c] = @ \ {t}]
          /\ \/ ResetRotation(c) /\ UNCHANGED sending
             \/ /\ SetRot(c, [isPending |-> TRUE, status |-> "ACCEPT", cur |-> t.rid,
                              pend |-> IF connected[c] THEN rot[c].pend ELSE NoSaved,
                              priv |-> t.eph])
                /\ IF connected[c]
                   THEN /\ StartSend(c, "ACCEPT", t.rid, t.eph, key[c], t.newKey)
                        /\ UNCHANGED resolved
                   ELSE UNCHANGED sending
    BY <1>2 DEF AcceptDerived
  <2>2. deriving'[c] = deriving[c] \ {t} /\ t \notin sending[c] /\ t \in Under(c)
    BY <1>0, <2>1, TasksApart DEF Under, TypeOK
  <2>3. CASE rot'[c].pend.rid = None /\ UNCHANGED sending
    <3>1. Under(c)' \subseteq Under(c)
      BY <2>2, <2>3 DEF Under
    <3>2. Apart(c)'
      BY <1>0, <3>1, ApartKept
    <3> QED
      BY <1>1, <2>3, <3>1, <3>2, OnceQuiet
  <2>4. CASE /\ rot'[c].pend = rot[c].pend /\ UNCHANGED resolved
             /\ StartSend(c, "ACCEPT", t.rid, t.eph, key[c], t.newKey)
    <3>1. PICK u : /\ u.type = "ACCEPT" /\ u.rid = t.rid
                   /\ sending' = [sending EXCEPT ![c] = @ \cup {u}]
      <4>1. PICK u : u = [type |-> "ACCEPT", rid |-> t.rid, eph |-> t.eph,
                          enc |-> key[c], newKey |-> t.newKey]
        OBVIOUS
      <4> QED
        BY <2>4, <4>1 DEF StartSend
    <3>2. Under(c)' = (Under(c) \ {t}) \cup {u}
      BY <1>0, <2>2, <3>1 DEF Under, TypeOK
    <3>3. \A v \in Under(c) \ {t} : ~(v.rid = u.rid /\ Alike(v.type, u.type))
      BY <1>0, <2>1, <2>2, <3>1 DEF Apart
    <3>4. Apart(c)'
      BY <1>0, <3>2, <3>3, ApartLeft
    <3> QED
      BY <1>1, <2>1, <2>2, <2>4, <3>1, <3>2, <3>4, OnceQuiet
  <2>5. \/ rot'[c].pend.rid = None /\ UNCHANGED sending
        \/ /\ rot'[c].pend = rot[c].pend /\ UNCHANGED resolved
           /\ StartSend(c, "ACCEPT", t.rid, t.eph, key[c], t.newKey)
    BY <1>0, <2>1 DEF ResetRotation, SetRot, Idle, NoSaved, TypeOK
  <2> QED
    BY <2>3, <2>4, <2>5
<1>3. CASE ConfirmDerived(c)
  <2>1. PICK t \in deriving[c] :
          /\ deriving' = [deriving EXCEPT ![c] = @ \ {t}]
          /\ SetRot(c, [rot[c] EXCEPT !.status = "CONFIRM"])
          /\ \/ StartSend(c, "CONFIRM", t.rid, None, t.newKey, t.newKey)
             \/ UNCHANGED sending
          /\ UNCHANGED resolved
    BY <1>3 DEF ConfirmDerived
  <2>2. deriving'[c] \subseteq deriving[c]
    BY <1>0, <2>1 DEF TypeOK
  <2>3. rot'[c].pend = rot[c].pend
    <3>1. rot[c] \in Rotation /\ "CONFIRM" \in Statuses
      BY <1>0 DEF TypeOK, Statuses
    <3>2. PICK q : q = [rot[c] EXCEPT !.status = "CONFIRM"]
      OBVIOUS
    <3>3. q.pend = rot[c].pend
      BY <3>1, <3>2, StatusType
    <3>4. rot' = [rot EXCEPT ![c] = q]
      BY <2>1, <3>2 DEF SetRot
    <3> QED
      BY <1>0, <3>3, <3>4 DEF TypeOK
  <2>4. CASE UNCHANGED sending
    <3>1. Under(c)' \subseteq Under(c)
      BY <2>2, <2>4 DEF Under
    <3>2. Apart(c)'
      BY <1>0, <3>1, ApartKept
    <3> QED
      BY <1>1, <2>1, <2>3, <3>1, <3>2, OnceQuiet
  <2>5. CASE StartSend(c, "CONFIRM", t.rid, None, t.newKey, t.newKey)
    <3>1. PICK u : u.type = "CONFIRM" /\ sending' = [sending EXCEPT ![c] = @ \cup {u}]
      <4>1. PICK u : u = [type |-> "CONFIRM", rid |-> t.rid, eph |-> None,
                          enc |-> t.newKey, newKey |-> t.newKey]
        OBVIOUS
      <4> QED
        BY <2>5, <4>1 DEF StartSend
    <3>2. Under(c)' \subseteq Under(c) \cup {u}
      BY <1>0, <2>2, <3>1 DEF Under, TypeOK
    <3>3. Apart(c)'
      BY <1>0, <3>1, <3>2, ApartGrown DEF Answers
    <3> QED
      BY <1>1, <2>1, <2>3, <3>1, <3>2, <3>3, OnceQuiet DEF Answers
  <2> QED
    BY <2>1, <2>4, <2>5
<1> QED
  BY <1>2, <1>3

\* The handlers of incoming messages.
LEMMA OnceHandled ==
    ASSUME IInv, OnceInv, NEW c \in Clients, ClientStep(c), Handle(c)
    PROVE  OnceInv'
<1>0. TypeOK /\ Apart(c)
  BY DEF IInv, OnceInv
<1>1. /\ inbox[c] # <<>> /\ NothingStored(c)
      /\ queue' = queue /\ used' = used /\ seen[c] \subseteq seen'[c]
  <2>1. inbox[c] # <<>> /\ queue' = queue /\ used' = used
    BY DEF Handle, ShowOrIgnore, ProcessIncomingRequest, ProcessAccept, ProcessConfirm,
       ProcessComplete, ProcessReject, Taking, page, counters
  <2>2. seen[c] \subseteq seen'[c]
    BY <1>0 DEF Handle, ShowOrIgnore, ProcessIncomingRequest, ProcessAccept, ProcessConfirm,
       ProcessComplete, ProcessReject, Taking, page, TypeOK
  <2> QED
    BY <2>1, <2>2, StoresNothing
<1>3. PICK m : m = Head(inbox[c])
  OBVIOUS
<1>4. m \in Elements(inbox[c])
  <2>1. inbox[c] \in Seq(Message)
    BY <1>0 DEF TypeOK
  <2> QED
    BY <1>1, <1>3, <2>1, ElementsOf
<1>5. ResetRotation(c) \/ CompleteRotation(c) => rot'[c].pend.rid = None
  BY <1>0 DEF ResetRotation, CompleteRotation, SetRot, Idle, NoSaved, TypeOK
<1>6. ASSUME deriving' = deriving, sending' = sending
      PROVE  Apart(c)' /\ Under(c)' = Under(c)
  BY <1>0, <1>6, ApartKept DEF Under
<1>7. CASE ShowOrIgnore(c)
  <2>1. UNCHANGED <<rot, deriving, sending, resolved>>
    BY <1>7 DEF ShowOrIgnore, page
  <2> QED
    BY <1>1, <1>6, <2>1, OnceQuiet
<1>8. CASE ProcessIncomingRequest(c)
  <2>1. /\ m.type = "REQUEST" /\ UNCHANGED <<deriving, sending, resolved>>
        /\ ~Repeated(c, m) /\ <<m.rid, "REQUEST">> \in seen'[c]
        /\ rot' = rot \/ rot'[c].pend.rid = m.rid
    BY <1>0, <1>3, <1>8 DEF ProcessIncomingRequest, Taking, SetRot, TypeOK
  <2>2. Apart(c)' /\ Under(c)' = Under(c)
    BY <1>6, <2>1
  <2>3. CASE rot' = rot
    BY <1>1, <2>1, <2>2, <2>3, OnceQuiet
  <2>4. CASE rot'[c].pend.rid = m.rid
    BY <1>1, <1>4, <2>1, <2>2, <2>4, OnceQuiet
  <2> QED
    BY <2>1, <2>3, <2>4
<1>9. CASE ProcessAccept(c)
  <2>1. m.type = "ACCEPT" /\ UNCHANGED <<sending, resolved>>
    BY <1>3, <1>9 DEF ProcessAccept, Taking
  <2>2. CASE UNCHANGED <<rot, deriving>>
    BY <1>1, <1>6, <2>1, <2>2, OnceQuiet
  <2>3. CASE ~UNCHANGED <<rot, deriving>>
    <3>1. m.rid \in Rids
      <4>1. Taking(c, "ACCEPT") /\ "ACCEPT" \in Types
        BY <1>9 DEF ProcessAccept, Types
      <4>2. m \in MessagesFrom(Peer(c))
        BY <1>3, <4>1, TakingKeeps
      <4> QED
        BY <2>1, <4>2, EphOwners, PeerIsClient DEF MessagesFrom, WellFormed
    <3>2. PICK r : r = Adopt(c, m.rid, "REQUEST")
      OBVIOUS
    <3>3. r.pend = rot[c].pend
      BY <1>0, <3>1, <3>2, AdoptType DEF Statuses
    <3>4. /\ SetRot(c, r)
          /\ StartDerive(c, "CONFIRM", m.rid, None, DeriveNewKey(m.rid, r.priv, m.eph))
      BY <1>3, <1>9, <2>3, <3>2 DEF ProcessAccept
    <3>5. PICK t : t.type = "CONFIRM" /\ deriving' = [deriving EXCEPT ![c] = @ \cup {t}]
      <4>1. PICK t : t = [type |-> "CONFIRM", rid |-> m.rid, eph |-> None,
                          newKey |-> DeriveNewKey(m.rid, r.priv, m.eph)]
        OBVIOUS
      <4> QED
        BY <3>4, <4>1 DEF StartDerive
    <3>6. Under(c)' = Under(c) \cup {t}
      BY <1>0, <2>1, <3>5 DEF Under, TypeOK
    <3>7. Apart(c)'
      BY <1>0, <3>5, <3>6, ApartGrown DEF Answers
    <3>8. rot'[c].pend = rot[c].pend
      BY <1>0, <3>3, <3>4 DEF SetRot, TypeOK
    <3> QED
      BY <1>1, <2>1, <3>5, <3>6, <3>7, <3>8, OnceQuiet DEF Answers
  <2> QED
    BY <2>2, <2>3
<1>10. CASE ProcessConfirm(c)
  <2>1. m.type = "CONFIRM" /\ deriving' = deriving
    BY <1>3, <1>10 DEF ProcessConfirm, Taking
  <2>2. CASE UNCHANGED <<rot, sending, resolved>>
    BY <1>1, <1>6, <2>1, <2>2, OnceQuiet
  <2>3. CASE CompleteRotation(c) /\ sending' = sending
    BY <1>1, <1>5, <1>6, <2>1, <2>3, OnceQuiet
  <2>4. PICK r : r = Adopt(c, m.rid, "ACCEPT")
    OBVIOUS
  <2>5. CASE /\ SetRot(c, [r EXCEPT !.status = "COMPLETE"])
             /\ StartSend(c, "COMPLETE", m.rid, None, key[c], key[c])
             /\ resolved' = resolved
    <3>1. m.rid \in Rids
      <4>1. Taking(c, "CONFIRM") /\ "CONFIRM" \in Types
        BY <1>10 DEF ProcessConfirm, Types
      <4>2. m \in MessagesFrom(Peer(c))
        BY <1>3, <4>1, TakingKeeps
      <4> QED
        BY <2>1, <4>2 DEF MessagesFrom, WellFormed
    <3>2. r \in Rotation /\ r.pend = rot[c].pend
      BY <1>0, <2>4, <3>1, AdoptType DEF Statuses
    <3>3. PICK q : q = [r EXCEPT !.status = "COMPLETE"]
      OBVIOUS
    <3>4. q.pend = rot[c].pend
      BY <3>2, <3>3, StatusType DEF Statuses
    <3>5. rot'[c].pend = rot[c].pend
      BY <1>0, <2>5, <3>3, <3>4 DEF SetRot, TypeOK
    <3>6. PICK t : t.type = "COMPLETE" /\ sending' = [sending EXCEPT ![c] = @ \cup {t}]
      <4>1. PICK t : t = [type |-> "COMPLETE", rid |-> m.rid, eph |-> None,
                          enc |-> key[c], newKey |-> key[c]]
        OBVIOUS
      <4> QED
        BY <2>5, <4>1 DEF StartSend
    <3>7. Under(c)' = Under(c) \cup {t}
      BY <1>0, <2>1, <3>6 DEF Under, TypeOK
    <3>8. Apart(c)'
      BY <1>0, <3>6, <3>7, ApartGrown DEF Answers
    <3> QED
      BY <1>1, <2>5, <3>5, <3>6, <3>7, <3>8, OnceQuiet DEF Answers
  <2> QED
    BY <1>3, <1>10, <2>2, <2>3, <2>4, <2>5 DEF ProcessConfirm
<1>11. CASE ProcessComplete(c) \/ ProcessReject(c)
  <2>1. rot'[c].pend.rid = None /\ deriving' = deriving /\ sending' = sending
    BY <1>5, <1>11 DEF ProcessComplete, ProcessReject
  <2> QED
    BY <1>1, <1>6, <2>1, OnceQuiet
<1> QED
  BY <1>7, <1>8, <1>9, <1>10, <1>11 DEF Handle

\* A handler that was waiting goes on.
LEMMA OnceResumed ==
    ASSUME IInv, StoryInv, OnceInv, NEW c \in Clients, ClientStep(c), Resume(c)
    PROVE  OnceInv'
<1>0. TypeOK /\ Apart(c)
  BY DEF IInv, OnceInv
<1>1. ResetRotation(c) \/ CompleteRotation(c) => rot'[c].pend.rid = None
  BY <1>0 DEF ResetRotation, CompleteRotation, SetRot, Idle, NoSaved, TypeOK
<1>2. CASE AcceptDerived(c) \/ ConfirmDerived(c)
  BY <1>2, OnceDerived
<1>3. CASE RequestOrConfirmSent(c)
  <2>1. PICK t \in sending[c] :
          /\ t.type \in {"REQUEST", "CONFIRM"} /\ Sent(c, t)
          /\ UNCHANGED <<rot, deriving, seen, resolved, used>>
    BY <1>3 DEF RequestOrConfirmSent, counters
  <2> QED
    BY <2>1, OnceSent DEF Answers
<1>4. CASE AcceptSent(c)
  <2>1. PICK t \in sending[c] :
          /\ Sent(c, t) /\ SetRot(c, [rot[c] EXCEPT !.pend = NoSaved])
          /\ UNCHANGED <<deriving, seen, used>>
    BY <1>4 DEF AcceptSent, counters
  <2>2. rot'[c].pend.rid = None
    <3>1. rot[c] \in Rotation /\ rot \in [Clients -> Rotation]
      BY <1>0 DEF TypeOK
    <3>2. PICK q : q = [rot[c] EXCEPT !.pend = NoSaved]
      OBVIOUS
    <3>3. q.pend = NoSaved
      BY <3>1, <3>2 DEF Rotation
    <3>4. rot' = [rot EXCEPT ![c] = q]
      BY <2>1, <3>2 DEF SetRot
    <3> QED
      BY <3>1, <3>3, <3>4 DEF NoSaved
  <2> QED
    BY <2>1, <2>2, OnceSent
<1>5. CASE RejectSent(c)
  <2>1. PICK t \in sending[c] :
          Sent(c, t) /\ ResetRotation(c) /\ UNCHANGED <<deriving, seen, used>>
    BY <1>5 DEF RejectSent, counters
  <2> QED
    BY <1>1, <2>1, OnceSent
<1>6. CASE CompleteSent(c)
  <2>1. PICK t \in sending[c] :
          Sent(c, t) /\ CompleteRotation(c) /\ UNCHANGED <<deriving, seen, used>>
    BY <1>6 DEF CompleteSent, counters
  <2> QED
    BY <1>1, <2>1, OnceSent
<1>7. CASE TextSent(c)
  <2>1. PICK t \in sending[c] :
          /\ t.type = "TEXT"
          /\ \/ Sent(c, t)
             \/ sending' = [sending EXCEPT ![c] = @ \ {t}] /\ UNCHANGED <<queue, net>>
          /\ UNCHANGED <<rot, deriving, key, seen, resolved, used>>
    BY <1>7 DEF TextSent, counters
  <2>2. CASE Sent(c, t)
    BY <2>1, <2>2, OnceSent DEF Answers
  <2>3. CASE sending' = [sending EXCEPT ![c] = @ \ {t}] /\ UNCHANGED <<queue, net>>
    <3>1. NothingStored(c)
      BY <2>3 DEF NothingStored, net
    <3>2. Under(c)' \subseteq Under(c)
      BY <1>0, <2>1, <2>3 DEF Under, TypeOK
    <3>3. Apart(c)'
      BY <1>0, <3>2, ApartKept
    <3> QED
      BY <2>1, <2>3, <3>1, <3>2, <3>3, OnceQuiet
  <2> QED
    BY <2>1, <2>2, <2>3
<1> QED
  BY <1>2, <1>3, <1>4, <1>5, <1>6, <1>7 DEF Resume

\* A step that changes no page, no socket and not the history.
LEMMA OnceStill ==
    ASSUME OnceInv,
           UNCHANGED <<rot, deriving, sending, key, seen, resolved, queue, inbox, log, used>>
    PROVE  OnceInv'
<1>1. ASSUME NEW c \in Clients
      PROVE  /\ Under(c)' = Under(c)
             /\ \A type, r : Unsaid(c, type, r)' <=> Unsaid(c, type, r)
             /\ \A m : Repeated(c, m)' <=> Repeated(c, m)
  BY DEF Under, Unsaid, Repeated
<1>2. ASSUME NEW c \in Clients
      PROVE  Apart(c)' /\ Kept(c)' /\ MayAnswer(c)' /\ Unasked(c)'
  <2>1. Apart(c) /\ Kept(c) /\ MayAnswer(c) /\ Unasked(c)
    BY DEF OnceInv
  <2>2. Apart(c)' /\ Kept(c)' /\ MayAnswer(c)'
    BY <1>1, <2>1 DEF Apart, Kept, MayAnswer
  <2>3. Unasked(c)'
    BY <1>1, <2>1 DEF Unasked, Untouched
  <2> QED
    BY <2>2, <2>3
<1> QED
  BY <1>2 DEF OnceInv

LEMMA OnceStep == IInv /\ StoryInv /\ OnceInv /\ [Next]_vars => OnceInv'
<1> SUFFICES ASSUME IInv, StoryInv, OnceInv, [Next]_vars PROVE OnceInv'
  OBVIOUS
<1>1. ASSUME NEW c \in Clients, ClientStep(c) PROVE OnceInv'
  BY <1>1, OnceButtons, OnceHandled, OnceResumed, OnceReloaded, OnceReconnected DEF ClientStep
<1>2. ASSUME NEW r \in Rids, Expire(r) PROVE OnceInv'
  BY <1>2, OnceStill DEF Expire, page, net, counters
<1>3. CASE UNCHANGED vars
  BY <1>3, OnceStill DEF vars, page, net, counters
<1> QED
  BY <1>1, <1>2, <1>3 DEF Next

\* The server stores a second answer to a request only when no page can read the
\* first from the history, whatever the number of handlers of a page, reloads, lost
\* messages, late flushes, expired requests and requests of both sides.
THEOREM RequestsAreAnsweredOnce == Spec => []OneAnswer
<1>1. IInv /\ OnceInv => OneAnswer
  <2> SUFFICES ASSUME IInv, OnceInv, NEW i \in DOMAIN log, NEW j \in 1..i-1,
                      Answered(log[i]), Answered(log[j]),
                      log[j].from = log[i].from, log[j].rid = log[i].rid
               PROVE  log[j].enc # log[j].label
    BY DEF OneAnswer
  <2>1. log \in Seq(Message)
    BY DEF IInv, TypeOK
  <2>2. j \in DOMAIN log /\ j < i
    BY <2>1
  <2>3. Alike(log[j].type, log[i].type)
    BY AlikeTypes DEF Answered, Answers
  <2>4. ~Counts(log[j])
    BY <2>2, <2>3 DEF OnceInv, ToldOnce, Again
  <2> QED
    BY <2>4 DEF Counts
<1>2. Spec => []StoryInv
  BY StoryInit, StoryStep, Invariance, PTL DEF Spec
<1>3. IInv /\ StoryInv /\ OnceInv /\ [Next]_vars => OnceInv'
  BY OnceStep
<1>4. Spec => []OnceInv
  BY OnceInit, <1>2, <1>3, Invariance, PTL DEF Spec
<1> QED
  BY <1>1, <1>4, Invariance, PTL

-----------------------------------------------------------------------------
(* Quiet pages agree.  With one initiator and no reload at most one system    *)
(* message of the dialog is in play, wherever it is, and it says how far the  *)
(* rotation has come.                                                         *)

\* The tasks of c's page: none of a system message, one that derives, one that sends.
Silent(c) == deriving[c] = {} /\ \A u \in sending[c] : u.type = "TEXT"
Derives(c, t) == deriving[c] = {t} /\ \A u \in sending[c] : u.type = "TEXT"
Sends(c, t) ==
    /\ deriving[c] = {} /\ t \in sending[c] /\ t.type # "TEXT"
    /\ \A u \in sending[c] : u = t \/ u.type = "TEXT"

\* The sequence s has no system message; it has m and no other.
Clear(s) == \A i \in DOMAIN s : s[i].type = "TEXT"
Just(s, m) ==
    \E i \in DOMAIN s : /\ s[i] = m /\ m.type # "TEXT"
                        /\ \A j \in DOMAIN s : j # i => s[j].type = "TEXT"

\* No system message of c waits for its socket or is on its way; m alone does.
NoMail(c) == Clear(queue[c]) /\ Clear(inbox[Peer(c)])
Mail(c, m) ==
    \/ Just(queue[c], m) /\ Clear(inbox[Peer(c)])
    \/ Clear(queue[c]) /\ Just(inbox[Peer(c)], m)

Mute(c) == Silent(c) /\ NoMail(c)

Busy(a) == rot[a].isPending /\ rot[a].status # "NONE"
Asks(b) == rot[b].pend.rid # None
Same(a, b) == key[a] = key[b]

\* Nothing is in play: the initiator is done and the keys agree, or it waits for ever.
Settled(a, b) == Mute(a) /\ Mute(b) /\ ~Asks(b) /\ (Busy(a) \/ Same(a, b))

\* The other user is asked.
Shown(a, b) == Mute(a) /\ Mute(b) /\ Asks(b) /\ Busy(a) /\ Same(a, b)

\* The initiator a is about to send, or has sent, its REQUEST or its CONFIRM.
InitiatorSpeaks(a, b) ==
    /\ Busy(a) /\ Mute(b) /\ ~Asks(b)
    /\ \/ \E t : /\ Sends(a, t) /\ NoMail(a)
                 /\ t.type \in {"REQUEST", "CONFIRM"} /\ Same(a, b)
       \/ \E t : /\ Derives(a, t) /\ NoMail(a)
                 /\ t.type = "CONFIRM" /\ t.newKey = key[b]
       \/ \E m : /\ Silent(a) /\ Mail(a, m)
                 /\ m.type \in {"REQUEST", "CONFIRM"} /\ Same(a, b)

\* b answers, or completes; from its ACCEPT on it has the key that a will derive.
ResponderSpeaks(a, b) ==
    /\ Busy(a) /\ Mute(a)
    /\ \/ \E t : /\ Derives(b, t) \/ Sends(b, t)
                 /\ NoMail(b) /\ t.type \in {"ACCEPT", "REJECT"}
                 /\ Asks(b) /\ rot[b].pend.rid = t.rid /\ Same(a, b)
                 /\ t.type = "ACCEPT" => t.newKey = DeriveNewKey(t.rid, t.rid, t.eph)
       \/ \E t : /\ Sends(b, t) /\ NoMail(b) /\ t.type = "COMPLETE"
                 /\ ~Asks(b) /\ Same(a, b)
       \/ \E m : /\ Silent(b) /\ Mail(b, m) /\ ~Asks(b)
                 /\ \/ m.type = "ACCEPT" /\ key[b] = DeriveNewKey(m.rid, m.rid, m.eph)
                    \/ m.type \in {"REJECT", "COMPLETE"} /\ Same(a, b)

\* The inductive invariant of the one rotation that is under way.
Course(a, b) ==
    /\ ~Asks(a)
    /\ Settled(a, b) \/ Shown(a, b) \/ InitiatorSpeaks(a, b) \/ ResponderSpeaks(a, b)

\* What the operations on sequences do to the one system message.
LEMMA JustJoined ==
    ASSUME NEW S, NEW s \in Seq(S), NEW q \in Seq(S)
    PROVE  /\ Clear(s) /\ Clear(q) => Clear(s \o q)
           /\ \A m : Just(s, m) /\ Clear(q) => Just(s \o q, m)
           /\ \A m : Clear(s) /\ Just(q, m) => Just(s \o q, m)
<1> DEFINE j == s \o q
<1>1. /\ Len(s) \in Nat /\ Len(q) \in Nat
      /\ DOMAIN s = 1..Len(s) /\ DOMAIN q = 1..Len(q) /\ DOMAIN j = 1..(Len(s) + Len(q))
      /\ \A i \in 1..Len(s) : j[i] = s[i]
      /\ \A i \in 1..Len(q) : j[Len(s) + i] = q[i]
  OBVIOUS
<1> HIDE DEF j
<1>2. ASSUME NEW i \in DOMAIN j
      PROVE  \/ i \in DOMAIN s /\ j[i] = s[i]
             \/ i - Len(s) \in DOMAIN q /\ j[i] = q[i - Len(s)] /\ i > Len(s)
  <2>1. CASE i <= Len(s)
    BY <1>1, <2>1
  <2>2. CASE i > Len(s)
    <3>1. i - Len(s) \in 1..Len(q) /\ Len(s) + (i - Len(s)) = i
      BY <1>1, <2>2
    <3> QED
      BY <1>1, <2>2, <3>1
  <2> QED
    BY <1>1, <2>1, <2>2
<1>3. ASSUME Clear(s), Clear(q) PROVE Clear(j)
  BY <1>2, <1>3 DEF Clear
<1>4. ASSUME NEW m, Just(s, m), Clear(q) PROVE Just(j, m)
  <2>1. PICK i \in DOMAIN s : s[i] = m /\ m.type # "TEXT" /\ \A k \in DOMAIN s : k # i => s[k].type = "TEXT"
    BY <1>4 DEF Just
  <2>2. i \in DOMAIN j /\ j[i] = m
    BY <1>1, <2>1
  <2>3. \A k \in DOMAIN j : k # i => j[k].type = "TEXT"
    BY <1>2, <1>4, <2>1 DEF Clear
  <2> QED
    BY <2>1, <2>2, <2>3 DEF Just
<1>5. ASSUME NEW m, Clear(s), Just(q, m) PROVE Just(j, m)
  <2>1. PICK i \in DOMAIN q : q[i] = m /\ m.type # "TEXT" /\ \A k \in DOMAIN q : k # i => q[k].type = "TEXT"
    BY <1>5 DEF Just
  <2>2. Len(s) + i \in DOMAIN j /\ j[Len(s) + i] = m
    BY <1>1, <2>1
  <2>3. ASSUME NEW k \in DOMAIN j, k # Len(s) + i PROVE j[k].type = "TEXT"
    <3>1. CASE k \in DOMAIN s /\ j[k] = s[k]
      BY <1>5, <3>1 DEF Clear
    <3>2. CASE k - Len(s) \in DOMAIN q /\ j[k] = q[k - Len(s)] /\ k > Len(s)
      <4>1. k - Len(s) # i
        BY <1>1, <2>1, <2>3, <3>2
      <4> QED
        BY <2>1, <3>2, <4>1
    <3> QED
      BY <1>2, <3>1, <3>2
  <2> QED
    BY <2>1, <2>2, <2>3 DEF Just
<1> QED
  BY <1>3, <1>4, <1>5 DEF j

LEMMA JustTaken ==
    ASSUME NEW S, NEW s \in Seq(S)
    PROVE  /\ \A n \in 0..Len(s) :
                /\ Clear(s) => Clear(SubSeq(s, 1, n))
                /\ \A m : Just(s, m) => Just(SubSeq(s, 1, n), m) \/ Clear(SubSeq(s, 1, n))
           /\ s # <<>> /\ Clear(s) => Head(s).type = "TEXT" /\ Clear(Tail(s))
           /\ \A m : Just(s, m) => \/ Head(s) = m /\ Clear(Tail(s))
                                   \/ Head(s).type = "TEXT" /\ Just(Tail(s), m)
           /\ \A m : Just(s, m) => s # <<>> /\ ~Clear(s)
<1>1. ASSUME NEW n \in 0..Len(s)
      PROVE  /\ Clear(s) => Clear(SubSeq(s, 1, n))
             /\ \A m : Just(s, m) => Just(SubSeq(s, 1, n), m) \/ Clear(SubSeq(s, 1, n))
  <2> DEFINE p == SubSeq(s, 1, n)
  <2>1. DOMAIN p = 1..n /\ DOMAIN s = 1..Len(s) /\ \A i \in 1..n : p[i] = s[i] /\ i \in DOMAIN s
    OBVIOUS
  <2> HIDE DEF p
  <2>2. Clear(s) => Clear(p)
    BY <2>1 DEF Clear
  <2>3. ASSUME NEW m, Just(s, m) PROVE Just(p, m) \/ Clear(p)
    <3>1. PICK i \in DOMAIN s : s[i] = m /\ m.type # "TEXT" /\ \A k \in DOMAIN s : k # i => s[k].type = "TEXT"
      BY <2>3 DEF Just
    <3>2. CASE i <= n
      <4>1. i \in DOMAIN p
        BY <2>1, <3>1, <3>2
      <4> QED
        BY <2>1, <3>1, <4>1 DEF Just
    <3>3. CASE ~(i <= n)
      <4>1. \A k \in DOMAIN p : k # i
        BY <2>1, <3>1, <3>3
      <4> QED
        BY <2>1, <3>1, <4>1 DEF Clear
    <3> QED
      BY <3>2, <3>3
  <2> QED
    BY <2>2, <2>3 DEF p
<1>2. ASSUME s # <<>>
      PROVE  /\ 1 \in DOMAIN s /\ Head(s) = s[1]
             /\ DOMAIN Tail(s) = 1..(Len(s) - 1)
             /\ \A i \in DOMAIN Tail(s) : i + 1 \in DOMAIN s /\ Tail(s)[i] = s[i + 1] /\ i + 1 # 1
             /\ \A i \in DOMAIN s : i # 1 => i - 1 \in DOMAIN Tail(s) /\ s[i] = Tail(s)[i - 1]
  <2>1. Len(s) \in Nat /\ Len(s) # 0 /\ DOMAIN s = 1..Len(s) /\ Head(s) = s[1]
    BY <1>2
  <2>2. /\ DOMAIN Tail(s) = 1..(Len(s) - 1) 
        /\ \A i \in 1..(Len(s) - 1) : Tail(s)[i] = s[i + 1]
    BY <1>2, <2>1
  <2>3. ASSUME NEW i \in 1..Len(s), i # 1 PROVE i - 1 \in 1..(Len(s) - 1) /\ (i - 1) + 1 = i
    BY <2>1, <2>3
  <2> QED
    BY <2>1, <2>2, <2>3
<1>3. ASSUME s # <<>>, Clear(s) PROVE Head(s).type = "TEXT" /\ Clear(Tail(s))
  BY <1>2, <1>3 DEF Clear
<1>4. ASSUME NEW m, Just(s, m)
      PROVE  /\ s # <<>> /\ ~Clear(s)
             /\ \/ Head(s) = m /\ Clear(Tail(s))
                \/ Head(s).type = "TEXT" /\ Just(Tail(s), m)
  <2>1. PICK i \in DOMAIN s : s[i] = m /\ m.type # "TEXT" /\ \A k \in DOMAIN s : k # i => s[k].type = "TEXT"
    BY <1>4 DEF Just
  <2>2. s # <<>> /\ ~Clear(s)
    BY <2>1 DEF Clear
  <2>3. CASE i = 1
    <3>1. Head(s) = m /\ Clear(Tail(s))
      BY <1>2, <2>1, <2>2, <2>3 DEF Clear
    <3> QED
      BY <2>2, <3>1
  <2>4. CASE i # 1
    <3>1. i - 1 \in DOMAIN Tail(s) /\ Tail(s)[i - 1] = m /\ Head(s).type = "TEXT"
      BY <1>2, <2>1, <2>2, <2>4
    <3>2. ASSUME NEW k \in DOMAIN Tail(s), k # i - 1 PROVE Tail(s)[k].type = "TEXT"
      <4>1. k + 1 # i /\ k + 1 \in DOMAIN s /\ Tail(s)[k] = s[k + 1]
        BY <1>2, <2>1, <2>2, <3>2
      <4> QED
        BY <2>1, <4>1
    <3> QED
      BY <2>1, <2>2, <3>1, <3>2 DEF Just
  <2> QED
    BY <2>3, <2>4
<1> QED
  BY <1>1, <1>3, <1>4

\* A message by itself.
LEMMA JustOne ==
    /\ Clear(<<>>)
    /\ \A m : IF m.type = "TEXT" THEN Clear(<<m>>) ELSE Just(<<m>>, m)
<1>1. \A m : DOMAIN <<m>> = {1} /\ <<m>>[1] = m
  OBVIOUS
<1>2. Clear(<<>>)
  BY DEF Clear
<1> QED
  BY <1>1, <1>2 DEF Clear, Just

\* Types of what the pages keep, in one place.
LEMMA CourseTypes ==
    ASSUME IInv, NEW c \in Clients
    PROVE  /\ inbox[c] \in Seq(Message) /\ queue[c] \in Seq(Message)
           /\ Peer(c) \in Clients /\ Peer(c) # c /\ Peer(Peer(c)) = c
           /\ rot[c] \in Rotation
BY PeerIsClient DEF IInv, TypeOK

\* A step that leaves c's tasks as they are, but for texts.
TasksKept(c) ==
    /\ deriving'[c] = deriving[c]
    /\ \A t : t.type # "TEXT" => (t \in sending'[c] <=> t \in sending[c])

LEMMA TasksStay ==
    ASSUME NEW c, TasksKept(c)
    PROVE  /\ Silent(c) => Silent(c)'
           /\ \A t : Derives(c, t) => Derives(c, t)'
           /\ \A t : Sends(c, t) => Sends(c, t)'
BY DEF TasksKept, Silent, Derives, Sends

\* A step in which no system message of c joins those on their way, and one may be lost.
MailKept(c) ==
    /\ NoMail(c) => NoMail(c)'
    /\ \A m : Mail(c, m) => Mail(c, m)' \/ NoMail(c)'

LEMMA MailStays ==
    ASSUME NEW c, queue'[c] = queue[c], inbox'[Peer(c)] = inbox[Peer(c)]
    PROVE  MailKept(c)
BY DEF MailKept, NoMail, Mail

\* The same for a socket that is cut after n messages, or whose next message is taken.
LEMMA MailTaken ==
    ASSUME IInv, NEW c \in Clients, inbox[c] # <<>>,
           inbox' = [inbox EXCEPT ![c] = Tail(@)], queue' = queue
    PROVE  /\ MailKept(c) /\ MailKept(Peer(c))
           /\ NoMail(Peer(c)) => Head(inbox[c]).type = "TEXT"
           /\ \A m : Mail(Peer(c), m) /\ Head(inbox[c]).type # "TEXT" =>
                  Head(inbox[c]) = m /\ NoMail(Peer(c))'
<1>1. /\ inbox[c] \in Seq(Message) /\ Peer(c) \in Clients /\ Peer(c) # c /\ Peer(Peer(c)) = c
      /\ inbox'[c] = Tail(inbox[c]) /\ inbox'[Peer(c)] = inbox[Peer(c)]
  BY CourseTypes DEF IInv, TypeOK
<1>2. MailKept(c)
  BY <1>1, MailStays
<1>3. /\ Clear(inbox[c]) => Head(inbox[c]).type = "TEXT" /\ Clear(Tail(inbox[c]))
      /\ \A m : Just(inbox[c], m) => \/ Head(inbox[c]) = m /\ Clear(Tail(inbox[c]))
                                     \/ Head(inbox[c]).type = "TEXT" /\ Just(Tail(inbox[c]), m)
  BY <1>1, JustTaken
<1>4. NoMail(Peer(c)) => Head(inbox[c]).type = "TEXT" /\ NoMail(Peer(c))'
  BY <1>1, <1>3 DEF NoMail
<1>5. ASSUME NEW m, Mail(Peer(c), m)
      PROVE  /\ Mail(Peer(c), m)' \/ NoMail(Peer(c))'
             /\ Head(inbox[c]).type # "TEXT" => Head(inbox[c]) = m /\ NoMail(Peer(c))'
  BY <1>1, <1>3, <1>5 DEF NoMail, Mail
<1> QED
  BY <1>2, <1>4, <1>5 DEF MailKept

LEMMA MailCut ==
    ASSUME IInv, NEW c \in Clients, NEW n \in 0..Len(inbox[c]),
           inbox' = [inbox EXCEPT ![c] = SubSeq(@, 1, n)], queue' = queue
    PROVE  MailKept(c) /\ MailKept(Peer(c))
<1>1. /\ inbox[c] \in Seq(Message) /\ Peer(c) \in Clients /\ Peer(c) # c /\ Peer(Peer(c)) = c
      /\ inbox'[c] = SubSeq(inbox[c], 1, n) /\ inbox'[Peer(c)] = inbox[Peer(c)]
  BY CourseTypes DEF IInv, TypeOK
<1>2. MailKept(c)
  BY <1>1, MailStays
<1>3. /\ Clear(inbox[c]) => Clear(SubSeq(inbox[c], 1, n))
      /\ \A m : Just(inbox[c], m) => \/ Just(SubSeq(inbox[c], 1, n), m)
                                     \/ Clear(SubSeq(inbox[c], 1, n))
  BY <1>1, JustTaken
<1>4. MailKept(Peer(c))
  BY <1>1, <1>3 DEF MailKept, NoMail, Mail
<1> QED
  BY <1>2, <1>4

\* A flushed queue is on its way, or reaches nobody.
LEMMA MailFlushed ==
    ASSUME IInv, NEW c \in Clients,
           queue' = [queue EXCEPT ![c] = <<>>], Forward(c, queue[c])
    PROVE  MailKept(c) /\ MailKept(Peer(c))
<1> DEFINE d == Peer(c)
<1>1. /\ inbox[d] \in Seq(Message) /\ queue[c] \in Seq(Message)
      /\ d \in Clients /\ d # c /\ Peer(d) = c
      /\ queue'[c] = <<>> /\ queue'[d] = queue[d] /\ inbox'[c] = inbox[c]
      /\ inbox'[d] \in {inbox[d], inbox[d] \o queue[c]}
  BY CourseTypes DEF IInv, TypeOK, Forward
<1>2. MailKept(d)
  BY <1>1, MailStays
<1>3. /\ Clear(inbox[d]) /\ Clear(queue[c]) => Clear(inbox[d] \o queue[c])
      /\ \A m : Just(inbox[d], m) /\ Clear(queue[c]) => Just(inbox[d] \o queue[c], m)
      /\ \A m : Clear(inbox[d]) /\ Just(queue[c], m) => Just(inbox[d] \o queue[c], m)
  BY <1>1, JustJoined
<1>4. MailKept(c)
  <2>1. CASE inbox'[d] = inbox[d]
    BY <1>1, <2>1, JustOne DEF MailKept, NoMail, Mail
  <2>2. CASE inbox'[d] = inbox[d] \o queue[c]
    BY <1>1, <1>3, <2>2, JustOne DEF MailKept, NoMail, Mail
  <2> QED
    BY <1>1, <2>1, <2>2
<1> QED
  BY <1>2, <1>4

\* A system message that has been encrypted is all that is in play of its page, or lost.
LEMMA MailSent ==
    ASSUME IInv, NEW c \in Clients, NEW t \in sending[c], Sent(c, t),
           deriving'[c] = deriving[c]
    PROVE  /\ Sends(c, t) /\ NoMail(c) =>
                  /\ Silent(c)'
                  /\ \/ NoMail(c)'
                     \/ \E m : /\ Mail(c, m)'
                               /\ m.type = t.type /\ m.rid = t.rid /\ m.eph = t.eph
           /\ t.type = "TEXT" => TasksKept(c) /\ MailKept(c)
           /\ MailKept(Peer(c))
<1> DEFINE d == Peer(c)
<1>0. PICK m : m = [type |-> t.type, from |-> c, rid |-> t.rid, eph |-> t.eph,
                    enc |-> t.enc, label |-> key[c]]
  OBVIOUS
<1>1. /\ inbox[d] \in Seq(Message) /\ queue[c] \in Seq(Message)
      /\ d \in Clients /\ d # c /\ Peer(d) = c
      /\ sending'[c] = sending[c] \ {t}
  BY CourseTypes DEF IInv, TypeOK, Sent
<1>2. /\ m \in Message /\ m.type = t.type /\ m.rid = t.rid /\ m.eph = t.eph
      /\ <<m>> \in Seq(Message)
  <2>1. t \in Sending /\ key[c] \in SessionKey
    BY DEF IInv, TypeOK
  <2>2. m \in Message
    BY <1>0, <2>1 DEF Sending, Message
  <2> QED
    BY <1>0, <2>2
<1>3. /\ queue'[d] = queue[d] /\ inbox'[c] = inbox[c]
      /\ \/ queue'[c] = queue[c] /\ inbox'[d] \in {inbox[d], inbox[d] \o <<m>>}
         \/ queue'[c] = queue[c] \o <<m>> /\ inbox'[d] = inbox[d]
  <2>1. queue[c] \o <<m>> = Append(queue[c], m)
    BY <1>1, <1>2
  <2> QED
    BY <1>0, <1>1, <2>1 DEF Sent, Forward, IInv, TypeOK, net
<1>4. MailKept(d)
  BY <1>1, <1>3, MailStays
<1>5. \A s \in {inbox[d], queue[c]} :
          IF t.type = "TEXT"
          THEN /\ Clear(s) => Clear(s \o <<m>>)
               /\ \A n : Just(s, n) => Just(s \o <<m>>, n)
          ELSE Clear(s) => Just(s \o <<m>>, m)
  <2>1. IF t.type = "TEXT" THEN Clear(<<m>>) ELSE Just(<<m>>, m)
    BY <1>2, JustOne
  <2> TAKE s \in {inbox[d], queue[c]}
  <2>2. s \in Seq(Message)
    BY <1>1
  <2>3. /\ Clear(s) /\ Clear(<<m>>) => Clear(s \o <<m>>)
        /\ \A n : Just(s, n) /\ Clear(<<m>>) => Just(s \o <<m>>, n)
        /\ \A n : Clear(s) /\ Just(<<m>>, n) => Just(s \o <<m>>, n)
    BY <1>2, <2>2, JustJoined
  <2> QED
    BY <2>1, <2>3
<1>6. ASSUME Sends(c, t), NoMail(c)
      PROVE  /\ Silent(c)'
             /\ NoMail(c)' \/ Mail(c, m)'
  <2>1. t.type # "TEXT" /\ Silent(c)'
    BY <1>1, <1>6 DEF Sends, Silent
  <2>2. NoMail(c)' \/ Mail(c, m)'
    BY <1>1, <1>3, <1>5, <1>6, <2>1 DEF NoMail, Mail
  <2> QED
    BY <2>1, <2>2
<1>7. ASSUME t.type = "TEXT" PROVE TasksKept(c) /\ MailKept(c)
  <2>1. TasksKept(c)
    BY <1>1, <1>7 DEF TasksKept
  <2>2. MailKept(c)
    BY <1>1, <1>3, <1>5, <1>7 DEF MailKept, NoMail, Mail
  <2> QED
    BY <2>1, <2>2
<1> QED
  BY <1>2, <1>4, <1>6, <1>7

\* A step that brings nothing into play and leaves keys and requests as they are.
LEMMA CourseKept ==
    ASSUME NEW a \in Clients, NEW b \in Clients, b = Peer(a), Course(a, b),
           \A c \in Clients : TasksKept(c) /\ MailKept(c) /\ rot'[c].pend = rot[c].pend,
           key' = key, Busy(a) => Busy(a)'
    PROVE  Course(a, b)'
<1>1. /\ \A c \in {a, b} : Asks(c)' <=> Asks(c)
      /\ Same(a, b)' <=> Same(a, b)
  BY DEF Asks, Same
<1>2. \A c \in {a, b} : /\ Silent(c) => Silent(c)'
                        /\ \A t : Derives(c, t) => Derives(c, t)'
                        /\ \A t : Sends(c, t) => Sends(c, t)'
  BY TasksStay
<1>3. \A c \in {a, b} : /\ NoMail(c) => NoMail(c)'
                        /\ \A m : Mail(c, m) => Mail(c, m)' \/ NoMail(c)'
  BY DEF MailKept
<1>4. CASE Settled(a, b)
  BY <1>1, <1>2, <1>3, <1>4 DEF Course, Settled, Mute
<1>5. CASE Shown(a, b)
  BY <1>1, <1>2, <1>3, <1>5 DEF Course, Shown, Mute
<1>6. CASE InitiatorSpeaks(a, b)
  <2>1. Busy(a)' /\ Mute(b)' /\ ~Asks(b)' /\ ~Asks(a)'
    BY <1>1, <1>2, <1>3, <1>6 DEF Course, InitiatorSpeaks, Mute
  <2>2. ASSUME NEW m, Silent(a), Mail(a, m), m.type \in {"REQUEST", "CONFIRM"}, Same(a, b)
        PROVE  Course(a, b)'
    <3>1. CASE NoMail(a)'
      BY <1>2, <2>1, <2>2, <3>1 DEF Course, Settled, Mute
    <3>2. CASE Mail(a, m)'
      BY <1>1, <1>2, <2>1, <2>2, <3>2 DEF Course, InitiatorSpeaks
    <3> QED
      BY <1>3, <2>2, <3>1, <3>2
  <2>3. ASSUME NEW t, Sends(a, t), NoMail(a), t.type \in {"REQUEST", "CONFIRM"}, Same(a, b)
        PROVE  Course(a, b)'
    BY <1>1, <1>2, <1>3, <2>1, <2>3 DEF Course, InitiatorSpeaks
  <2>4. ASSUME NEW t, Derives(a, t), NoMail(a), t.type = "CONFIRM", t.newKey = key[b]
        PROVE  Course(a, b)'
    BY <1>1, <1>2, <1>3, <2>1, <2>4 DEF Course, InitiatorSpeaks
  <2> QED
    BY <1>6, <2>2, <2>3, <2>4 DEF InitiatorSpeaks
<1>7. CASE ResponderSpeaks(a, b)
  <2>1. Busy(a)' /\ Mute(a)' /\ ~Asks(a)' /\ rot'[b].pend = rot[b].pend
    BY <1>1, <1>2, <1>3, <1>7 DEF Course, ResponderSpeaks, Mute
  <2>2. ASSUME NEW m, Silent(b), Mail(b, m), ~Asks(b),
               \/ m.type = "ACCEPT" /\ key[b] = DeriveNewKey(m.rid, m.rid, m.eph)
               \/ m.type \in {"REJECT", "COMPLETE"} /\ Same(a, b)
        PROVE  Course(a, b)'
    <3>1. CASE NoMail(b)'
      BY <1>1, <1>2, <2>1, <2>2, <3>1 DEF Course, Settled, Mute
    <3>2. CASE Mail(b, m)'
      BY <1>1, <1>2, <2>1, <2>2, <3>2 DEF Course, ResponderSpeaks
    <3> QED
      BY <1>3, <2>2, <3>1, <3>2
  <2>3. ASSUME NEW t, Derives(b, t) \/ Sends(b, t), NoMail(b), t.type \in {"ACCEPT", "REJECT"},
               Asks(b), rot[b].pend.rid = t.rid, Same(a, b),
               t.type = "ACCEPT" => t.newKey = DeriveNewKey(t.rid, t.rid, t.eph)
        PROVE  Course(a, b)'
    BY <1>1, <1>2, <1>3, <2>1, <2>3 DEF Course, ResponderSpeaks
  <2>4. ASSUME NEW t, Sends(b, t), NoMail(b), t.type = "COMPLETE", ~Asks(b), Same(a, b)
        PROVE  Course(a, b)'
    BY <1>1, <1>2, <1>3, <2>1, <2>4 DEF Course, ResponderSpeaks
  <2> QED
    BY <1>7, <2>2, <2>3, <2>4 DEF ResponderSpeaks
<1> QED
  BY <1>4, <1>5, <1>6, <1>7 DEF Course

\* A handler of a system message is all that is in play.
LEMMA TaskInPlay ==
    ASSUME IInv, NEW a \in Clients, NEW b \in Clients, b = Peer(a), Course(a, b),
           NEW c \in Clients, NEW t \in deriving[c] \cup sending[c], t.type # "TEXT"
    PROVE  /\ t \in deriving[c] => Derives(c, t)
           /\ t \in sending[c] => Sends(c, t)
           /\ NoMail(c) /\ Mute(Peer(c)) /\ Busy(a) /\ ~Asks(a)
           /\ c = a => /\ ~Asks(b) /\ t.type \in {"REQUEST", "CONFIRM"}
                       /\ t \in sending[c] => Same(a, b)
                       /\ t \in deriving[c] => t.newKey = key[b]
           /\ c = b => \/ /\ t.type \in {"ACCEPT", "REJECT"}
                          /\ Asks(b) /\ rot[b].pend.rid = t.rid /\ Same(a, b)
                          /\ t.type = "ACCEPT" => t.newKey = DeriveNewKey(t.rid, t.rid, t.eph)
                       \/ /\ t.type = "COMPLETE" /\ t \in sending[c]
                          /\ ~Asks(b) /\ Same(a, b)
<1>1. c \in {a, b} /\ a # b /\ Peer(b) = a /\ ~Silent(c)
  BY PeerIsClient DEF Clients, Peer, Silent
<1>2. \A u : /\ Derives(c, u) => t = u /\ t \in deriving[c] /\ t \notin sending[c]
             /\ Sends(c, u) => t = u /\ t \in sending[c] /\ t \notin deriving[c]
  BY DEF Derives, Sends
<1>3. ~Asks(a) /\ (InitiatorSpeaks(a, b) \/ ResponderSpeaks(a, b))
  BY <1>1 DEF Course, Settled, Shown, Mute
<1>4. CASE InitiatorSpeaks(a, b)
  <2>1. c = a
    BY <1>1, <1>4 DEF InitiatorSpeaks, Mute
  <2> QED
    BY <1>1, <1>2, <1>3, <1>4, <2>1 DEF InitiatorSpeaks
<1>5. CASE ResponderSpeaks(a, b)
  <2>1. c = b
    BY <1>1, <1>5 DEF ResponderSpeaks, Mute
  <2> QED
    BY <1>1, <1>2, <1>3, <1>5, <2>1 DEF ResponderSpeaks
<1> QED
  BY <1>3, <1>4, <1>5

\* So is a system message that reaches a page.
LEMMA MailInPlay ==
    ASSUME IInv, NEW a \in Clients, NEW b \in Clients, b = Peer(a), Course(a, b),
           NEW c \in Clients, inbox[c] # <<>>, Head(inbox[c]).type # "TEXT",
           inbox' = [inbox EXCEPT ![c] = Tail(@)], queue' = queue,
           NEW m, m = Head(inbox[c])
    PROVE  /\ Silent(a) /\ Silent(b) /\ NoMail(a)' /\ NoMail(b)'
           /\ Busy(a) /\ ~Asks(a) /\ ~Asks(b)
           /\ c = b => m.type \in {"REQUEST", "CONFIRM"} /\ Same(a, b)
           /\ c = a => \/ m.type = "ACCEPT" /\ key[b] = DeriveNewKey(m.rid, m.rid, m.eph)
                       \/ m.type \in {"REJECT", "COMPLETE"} /\ Same(a, b)
<1>1. c \in {a, b} /\ a # b /\ Peer(b) = a
  BY PeerIsClient DEF Clients, Peer
<1>2. /\ MailKept(c) /\ MailKept(Peer(c)) /\ ~NoMail(Peer(c))
      /\ \A n : Mail(Peer(c), n) => m = n /\ NoMail(Peer(c))'
  BY MailTaken
<1>3. ~Asks(a) /\ (InitiatorSpeaks(a, b) \/ ResponderSpeaks(a, b))
  BY <1>1, <1>2 DEF Course, Settled, Shown, Mute
<1>4. CASE InitiatorSpeaks(a, b)
  <2>1. c = b /\ Peer(c) = a
    BY <1>1, <1>2, <1>4 DEF InitiatorSpeaks, Mute
  <2>2. NoMail(b)'
    BY <1>2, <1>4, <2>1 DEF InitiatorSpeaks, Mute, MailKept
  <2> QED
    BY <1>1, <1>2, <1>3, <1>4, <2>1, <2>2 DEF InitiatorSpeaks, Mute
<1>5. CASE ResponderSpeaks(a, b)
  <2>1. c = a /\ Peer(c) = b
    BY <1>1, <1>2, <1>5 DEF ResponderSpeaks, Mute
  <2>2. NoMail(a)'
    BY <1>2, <1>5, <2>1 DEF ResponderSpeaks, Mute, MailKept
  <2> QED
    BY <1>1, <1>2, <1>3, <1>5, <2>1, <2>2 DEF ResponderSpeaks, Mute
<1> QED
  BY <1>3, <1>4, <1>5

\* The state after a step that leaves nothing in play.
LEMMA CourseSettles ==
    ASSUME NEW a, NEW b, Mute(a)', Mute(b)', ~Asks(a)', ~Asks(b)', Busy(a)' \/ Same(a, b)'
    PROVE  Course(a, b)'
BY DEF Course, Settled

\* What is on its way stays so in a step that concerns no message.
LEMMA MuteStays ==
    ASSUME NEW c \in Clients, queue' = queue, inbox' = inbox
    PROVE  /\ NoMail(c) => NoMail(c)'
           /\ Mute(c) /\ deriving'[c] = deriving[c] /\ sending'[c] = sending[c] => Mute(c)'
BY DEF NoMail, Mute, Silent

\* The buttons stand below a request that nothing else of the rotation is under way with.
LEMMA AnswersShown ==
    ASSUME NEW a \in Clients, NEW b \in Clients, b = Peer(a), Course(a, b),
           NEW c \in Clients, CanAnswer(c)
    PROVE  c = b /\ Shown(a, b)
<1>1. c \in {a, b} /\ a # b /\ Peer(b) = a
  BY PeerIsClient DEF Clients, Peer
<1>2. Asks(c)
  BY DEF CanAnswer, Asks
<1>3. c = b /\ (Shown(a, b) \/ ResponderSpeaks(a, b))
  BY <1>1, <1>2 DEF Course, Settled, InitiatorSpeaks
<1>4. ASSUME NEW t, Derives(b, t) \/ Sends(b, t), t.type \in {"ACCEPT", "REJECT"},
             rot[b].pend.rid = t.rid
      PROVE  FALSE
  <2>1. t \in deriving[b] \cup sending[b]
    BY <1>4 DEF Derives, Sends
  <2> QED
    BY <1>3, <1>4, <2>1 DEF CanAnswer
<1> QED
  BY <1>2, <1>3, <1>4 DEF ResponderSpeaks

\* The user's buttons.
LEMMA CourseButtons ==
    ASSUME IInv, NEW a \in Clients, NEW b \in Clients, b = Peer(a), Course(a, b),
           ~Initiate(b), NEW c \in Clients, ClientStep(c),
           Initiate(c) \/ Accept(c) \/ AcceptExpired(c) \/ Reject(c) \/ SendText(c)
    PROVE  Course(a, b)'
<1>0. TypeOK
  BY DEF IInv
<1>1. c \in {a, b} /\ a # b /\ Peer(b) = a
  BY PeerIsClient DEF Clients, Peer
<1>2. queue' = queue /\ inbox' = inbox
  BY DEF Initiate, Accept, AcceptExpired, Reject, SendText, net
<1>3. \A d \in Clients : /\ NoMail(d) => NoMail(d)'
                         /\ d # c /\ Mute(d) => Mute(d)'
  <2> TAKE d \in Clients
  <2>1. d # c => SamePage(d)
    BY PagesApart
  <2> QED
    BY <1>2, <2>1, MuteStays DEF SamePage
<1>4. \A d \in Clients : d # c => /\ Asks(d)' <=> Asks(d)
                                  /\ Busy(d)' <=> Busy(d)
  <2> TAKE d \in Clients
  <2>1. d # c => SamePage(d)
    BY PagesApart
  <2> QED
    BY <2>1 DEF SamePage, Asks, Busy
<1>5. ASSUME key' = key PROVE Same(a, b)' <=> Same(a, b)
  BY <1>5 DEF Same
<1>6. CASE Initiate(c)
  <2>1. c = a /\ ~Busy(a) /\ key' = key
    BY <1>1, <1>6 DEF Initiate, Busy
  <2>2. Settled(a, b) /\ Same(a, b)
    BY <2>1 DEF Course, Settled, Shown, InitiatorSpeaks, ResponderSpeaks
  <2>3. Mute(b)' /\ ~Asks(b)' /\ NoMail(a)' /\ Same(a, b)' /\ deriving'[a] = {}
    BY <1>1, <1>3, <1>4, <1>5, <1>6, <2>1, <2>2 DEF Settled, Mute, Silent, Initiate
  <2>4. CASE ~connected[c]
    <3>1. Mute(a)' /\ ~Asks(a)'
      BY <1>0, <1>6, <2>1, <2>2, <2>3, <2>4 DEF Settled, Mute, Silent, Initiate, ResetRotation, SetRot,
         Idle, NoSaved, Asks, TypeOK
    <3> QED
      BY <2>3, <3>1, CourseSettles
  <2>5. CASE connected[c]
    <3>0. PICK t : t = [type |-> "REQUEST", rid |-> NextEph(a), eph |-> NextEph(a),
                        enc |-> key[a], newKey |-> key[a]]
      OBVIOUS
    <3>1. /\ t.type = "REQUEST" /\ sending'[a] = sending[a] \cup {t}
          /\ rot'[a].isPending /\ rot'[a].status = "REQUEST" /\ rot'[a].pend = NoSaved
      BY <1>0, <1>6, <2>1, <2>5, <3>0 DEF Initiate, SetRot, StartSend, TypeOK, ResetRotation
    <3>2. Sends(a, t)' /\ Busy(a)' /\ ~Asks(a)'
      BY <2>2, <2>3, <3>1 DEF Settled, Mute, Silent, Sends, Busy, Asks, NoSaved
    <3> QED
      BY <2>3, <3>1, <3>2 DEF Course, InitiatorSpeaks
  <2> QED
    BY <2>4, <2>5
<1>7. ASSUME CanAnswer(c)
      PROVE  c = b /\ Shown(a, b)
  BY <1>7, AnswersShown
<1>8. ASSUME CanAnswer(c), key' = key
      PROVE  /\ c = b /\ Mute(a)' /\ NoMail(b)' /\ Silent(b) /\ Busy(a)' /\ ~Asks(a)'
             /\ Asks(b) /\ Same(a, b)'
  <2>1. c = b /\ Shown(a, b) /\ a # c
    BY <1>1, <1>7, <1>8
  <2> QED
    BY <1>3, <1>4, <1>5, <1>8, <2>1 DEF Shown, Course, Mute
<1>9. CASE Accept(c)
  <2>1. key' = key /\ CanAnswer(c) /\ used[c] < MaxEph /\ rot' = rot /\ sending' = sending
    BY <1>9 DEF Accept
  <2>2. PICK e : e = NextEph(c)
    OBVIOUS
  <2>3. PICK t : t = [type |-> "ACCEPT", rid |-> rot[c].pend.rid, eph |-> e,
                      newKey |-> DeriveNewKey(rot[c].pend.rid, e, rot[c].pend.eph)]
    OBVIOUS
  <2>4. deriving'[c] = deriving[c] \cup {t}
    BY <1>0, <1>9, <2>2, <2>3 DEF Accept, StartDerive, TypeOK
  <2>5. rot[c].pend.rid # None /\ rot[c].pend.eph = rot[c].pend.rid
    BY <2>1 DEF CanAnswer, IInv, RotOK, RequestStored
  <2>6. t.type = "ACCEPT" /\ t.rid = rot[c].pend.rid /\ t.newKey = DeriveNewKey(t.rid, t.rid, t.eph)
    BY <2>3, <2>5 DEF DeriveNewKey
  <2>7. Derives(b, t)' /\ Asks(b)'
    BY <1>8, <2>1, <2>4 DEF Derives, Silent, Asks
  <2> QED
    BY <1>8, <2>1, <2>6, <2>7 DEF Course, ResponderSpeaks
<1>10. ASSUME CanAnswer(c), key' = key, deriving' = deriving, sending' = sending, ResetRotation(c)
       PROVE  Course(a, b)'
  <2>1. Mute(b)' /\ ~Asks(b)'
    BY <1>0, <1>8, <1>10 DEF Mute, Silent, Asks, ResetRotation, SetRot, Idle, NoSaved, TypeOK
  <2> QED
    BY <1>8, <1>10, <2>1, CourseSettles
<1>11. CASE AcceptExpired(c)
  BY <1>10, <1>11 DEF AcceptExpired
<1>12. CASE Reject(c)
  <2>1. CanAnswer(c) /\ key' = key /\ deriving' = deriving
    BY <1>12 DEF Reject
  <2>2. CASE ResetRotation(c) /\ UNCHANGED sending
    BY <1>10, <2>1, <2>2
  <2>3. CASE /\ StartSend(c, "REJECT", rot[c].pend.rid, None, key[c], key[c])
             /\ UNCHANGED rot
    <3>0. PICK t : t = [type |-> "REJECT", rid |-> rot[c].pend.rid, eph |-> None,
                        enc |-> key[c], newKey |-> key[c]]
      OBVIOUS
    <3>1. t.type = "REJECT" /\ t.rid = rot[c].pend.rid /\ sending'[c] = sending[c] \cup {t}
      BY <1>0, <2>3, <3>0 DEF StartSend, TypeOK
    <3>2. Sends(b, t)' /\ Asks(b)'
      BY <1>8, <2>1, <2>3, <3>1 DEF Sends, Silent, Asks
    <3> QED
      BY <1>8, <2>1, <2>3, <3>1, <3>2 DEF Course, ResponderSpeaks
  <2> QED
    BY <1>12, <2>2, <2>3 DEF Reject
<1>13. CASE SendText(c)
  <2>1. rot' = rot /\ key' = key /\ deriving' = deriving
    BY <1>13 DEF SendText
  <2>2. PICK t : t.type = "TEXT" /\ sending' = [sending EXCEPT ![c] = @ \cup {t}]
    BY <1>13 DEF SendText, StartSend
  <2>3. \A d \in Clients : TasksKept(d) /\ MailKept(d)
    <3> TAKE d \in Clients
    <3>1. TasksKept(d)
      BY <1>0, <2>1, <2>2 DEF TasksKept, TypeOK
    <3> QED
      BY <1>2, <3>1, MailStays
  <2>4. Busy(a) => Busy(a)'
    BY <2>1 DEF Busy
  <2> QED
    BY <2>1, <2>3, <2>4, CourseKept
<1> QED
  BY <1>6, <1>9, <1>11, <1>12, <1>13

\* The handlers of incoming messages.
LEMMA CourseHandled ==
    ASSUME IInv, NEW a \in Clients, NEW b \in Clients, b = Peer(a), Course(a, b),
           NEW c \in Clients, ClientStep(c), Handle(c)
    PROVE  Course(a, b)'
<1>0. TypeOK
  BY DEF IInv
<1>1. Clients = {a, b} /\ c \in {a, b} /\ a # b /\ Peer(b) = a
  BY PeerIsClient DEF Clients, Peer
<1>2. PICK m : m = Head(inbox[c])
  OBVIOUS
<1>3. /\ inbox[c] # <<>> /\ key' = key /\ queue' = queue
      /\ inbox' = [inbox EXCEPT ![c] = Tail(@)]
  BY DEF Handle, ShowOrIgnore, ProcessIncomingRequest, ProcessAccept, ProcessConfirm,
     ProcessComplete, ProcessReject, Taking, page
<1>4. \A d \in Clients : MailKept(d)
  <2>1. MailKept(c) /\ MailKept(Peer(c))
    BY <1>3, MailTaken
  <2> QED
    BY <1>1, <2>1
<1>5. Same(a, b)' <=> Same(a, b)
  BY <1>3 DEF Same
<1>6. \A d \in Clients : d # c => /\ Asks(d)' <=> Asks(d)
                                  /\ Busy(d)' <=> Busy(d)
                                  /\ Silent(d)' <=> Silent(d)
  <2> TAKE d \in Clients
  <2>1. d # c => SamePage(d)
    BY PagesApart
  <2> QED
    BY <2>1 DEF SamePage, Asks, Busy, Silent
<1>7. ASSUME rot' = rot, deriving' = deriving, sending' = sending
      PROVE  Course(a, b)'
  BY <1>3, <1>4, <1>7, CourseKept DEF TasksKept, Busy
<1>8. CASE ShowOrIgnore(c)
  BY <1>7, <1>8 DEF ShowOrIgnore, page
<1>9. ASSUME m.type # "TEXT"
      PROVE  /\ Silent(a) /\ Silent(b) /\ NoMail(a)' /\ NoMail(b)'
             /\ Busy(a) /\ ~Asks(a) /\ ~Asks(b)
             /\ c = b => m.type \in {"REQUEST", "CONFIRM"} /\ Same(a, b)
             /\ c = a => \/ m.type = "ACCEPT" /\ key[b] = DeriveNewKey(m.rid, m.rid, m.eph)
                         \/ m.type \in {"REJECT", "COMPLETE"} /\ Same(a, b)
  BY <1>2, <1>3, <1>9, MailInPlay
<1>10. ASSUME rot'[c] = Idle, deriving' = deriving, sending' = sending,
              m.type \in {"CONFIRM", "REJECT", "COMPLETE"}
       PROVE  Course(a, b)'
  <2>0. \A d \in Clients : Silent(d)' <=> Silent(d)
    BY <1>10 DEF Silent
  <2>1. \A d \in Clients : Mute(d)' /\ ~Asks(d)'
    BY <1>1, <1>6, <1>9, <1>10, <2>0 DEF Mute, Asks, Idle, NoSaved
  <2>2. Same(a, b)'
    BY <1>1, <1>5, <1>9, <1>10
  <2> QED
    BY <2>1, <2>2, CourseSettles
<1>11. CASE ProcessIncomingRequest(c)
  <2>1. m.type = "REQUEST" /\ deriving' = deriving /\ sending' = sending
    BY <1>2, <1>11 DEF ProcessIncomingRequest, Taking
  <2>2. c = b
    BY <1>1, <1>9, <2>1
  <2>3. Mute(a)' /\ Mute(b)' /\ ~Asks(a)' /\ Busy(a)' /\ Same(a, b)'
    BY <1>1, <1>5, <1>6, <1>9, <2>1, <2>2 DEF Mute, Silent
  <2> QED
    BY <2>3 DEF Course, Settled, Shown
<1>12. CASE ProcessAccept(c)
  <2>1. m.type = "ACCEPT" /\ sending' = sending
    BY <1>2, <1>12 DEF ProcessAccept, Taking
  <2>2. c = a /\ key[b] = DeriveNewKey(m.rid, m.rid, m.eph)
    BY <1>1, <1>9, <2>1
  <2>3. CASE UNCHANGED <<rot, deriving>>
    BY <1>7, <2>1, <2>3
  <2>4. CASE ~UNCHANGED <<rot, deriving>>
    <3>1. PICK r : r = Adopt(c, m.rid, "REQUEST")
      OBVIOUS
    <3>2. PICK t : t = [type |-> "CONFIRM", rid |-> m.rid, eph |-> None,
                        newKey |-> DeriveNewKey(m.rid, r.priv, m.eph)]
      OBVIOUS
    <3>3. /\ HasSavedKey(c, m.rid) /\ r.status = "REQUEST"
          /\ rot'[c] = r /\ deriving'[c] = deriving[c] \cup {t}
      BY <1>0, <1>2, <1>12, <2>4, <3>1, <3>2 DEF ProcessAccept, StartDerive, SetRot, TypeOK
    <3>4. m.rid \in EphsOf(a) /\ m.rid # None
      <4>1. inbox[c] \in Seq(MessagesFrom(Peer(c)))
        BY DEF IInv
      <4>2. m \in MessagesFrom(Peer(c))
        BY <1>2, <1>3, <4>1
      <4> QED
        BY <1>1, <2>1, <2>2, <4>2, EphOwners DEF MessagesFrom, WellFormed
    <3>5. r.priv = m.rid /\ r.isPending /\ r.pend = rot[c].pend
      <4>1. CASE rot[c].cur = m.rid
        <5>1. r = rot[c]
          BY <3>1, <4>1 DEF Adopt
        <5> QED
          BY <1>9, <2>1, <2>2, <3>3, <3>4, <4>1, <5>1 DEF IInv, RotOK, Busy
      <4>2. CASE rot[c].cur # m.rid
        <5>1. r = [rot[c] EXCEPT !.isPending = TRUE, !.status = "REQUEST", !.cur = m.rid,
                                 !.priv = slot[c].eph]
          BY <3>1, <4>2 DEF Adopt
        <5>2. slot[c].eph = m.rid
          BY <2>2, <3>3, <3>4 DEF IInv, SlotOK, HasSavedKey
        <5> QED
          BY <1>0, <5>1, <5>2 DEF TypeOK, Rotation
      <4> QED
        BY <4>1, <4>2
    <3>6. t.type = "CONFIRM" /\ t.newKey = key'[b]
      BY <1>3, <2>2, <3>2, <3>5
    <3>7. Derives(a, t)' /\ Busy(a)' /\ ~Asks(a)'
      BY <1>9, <2>1, <2>2, <3>3, <3>5 DEF Derives, Silent, Busy, Asks
    <3>8. Mute(b)' /\ ~Asks(b)' /\ NoMail(a)'
      BY <1>1, <1>6, <1>9, <2>1, <2>2 DEF Mute
    <3> QED
      BY <3>6, <3>7, <3>8 DEF Course, InitiatorSpeaks
  <2> QED
    BY <2>3, <2>4
<1>13. CASE ProcessConfirm(c)
  <2>1. m.type = "CONFIRM" /\ deriving' = deriving
    BY <1>2, <1>13 DEF ProcessConfirm, Taking
  <2>2. c = b
    BY <1>1, <1>9, <2>1
  <2>3. CASE rot' = rot /\ sending' = sending
    BY <1>7, <2>1, <2>3
  <2>4. CASE CompleteRotation(c) /\ sending' = sending
    <3>1. rot'[c] = Idle
      BY <1>0, <2>4 DEF CompleteRotation, SetRot, TypeOK
    <3> QED
      BY <1>10, <2>1, <2>4, <3>1
  <2>5. CASE /\ SetRot(c, [Adopt(c, m.rid, "ACCEPT") EXCEPT !.status = "COMPLETE"])
             /\ StartSend(c, "COMPLETE", m.rid, None, key[c], key[c])
    <3>1. PICK t : t = [type |-> "COMPLETE", rid |-> m.rid, eph |-> None,
                        enc |-> key[c], newKey |-> key[c]]
      OBVIOUS
    <3>2. sending'[c] = sending[c] \cup {t} /\ t.type = "COMPLETE"
      BY <1>0, <2>5, <3>1 DEF StartSend, TypeOK
    <3>3. rot'[c].pend = rot[c].pend
      BY <1>0, <2>5 DEF SetRot, Adopt, TypeOK, Rotation
    <3>4. Sends(b, t)' /\ ~Asks(b)' /\ NoMail(b)'
      BY <1>9, <2>1, <2>2, <3>2, <3>3 DEF Sends, Silent, Asks
    <3>5. Mute(a)' /\ ~Asks(a)' /\ Busy(a)' /\ Same(a, b)'
      BY <1>1, <1>5, <1>6, <1>9, <2>1, <2>2 DEF Mute
    <3> QED
      BY <3>2, <3>4, <3>5 DEF Course, ResponderSpeaks
  <2> QED
    BY <1>2, <1>13, <2>3, <2>4, <2>5 DEF ProcessConfirm
<1>14. CASE ProcessComplete(c)
  <2>1. m.type = "COMPLETE" /\ deriving' = deriving /\ sending' = sending /\ rot'[c] = Idle
    BY <1>0, <1>2, <1>14 DEF ProcessComplete, Taking, CompleteRotation, SetRot, TypeOK
  <2> QED
    BY <1>10, <2>1
<1>15. CASE ProcessReject(c)
  <2>1. m.type = "REJECT" /\ deriving' = deriving /\ sending' = sending /\ rot'[c] = Idle
    BY <1>0, <1>2, <1>15 DEF ProcessReject, Taking, ResetRotation, SetRot, TypeOK
  <2> QED
    BY <1>10, <2>1
<1> QED
  BY <1>8, <1>11, <1>12, <1>13, <1>14, <1>15 DEF Handle

\* The two handlers that have derived a key.
LEMMA CourseDerived ==
    ASSUME IInv, NEW a \in Clients, NEW b \in Clients, b = Peer(a), Course(a, b),
           NEW c \in Clients, ClientStep(c), AcceptDerived(c) \/ ConfirmDerived(c)
    PROVE  Course(a, b)'
<1>0. TypeOK
  BY DEF IInv
<1>1. c \in {a, b} /\ a # b /\ Peer(b) = a
  BY PeerIsClient DEF Clients, Peer
<1>2. queue' = queue /\ inbox' = inbox
  BY DEF AcceptDerived, ConfirmDerived, net
<1>3. \A d \in Clients : /\ NoMail(d) => NoMail(d)'
                         /\ d # c => /\ Mute(d) => Mute(d)'
                                     /\ Asks(d)' <=> Asks(d)
                                     /\ Busy(d)' <=> Busy(d)
                                     /\ key'[d] = key[d]
  <2> TAKE d \in Clients
  <2>1. d # c => SamePage(d)
    BY PagesApart
  <2> QED
    BY <1>2, <2>1, MuteStays DEF SamePage, Asks, Busy
<1>4. CASE AcceptDerived(c)
  <2>1. PICK t \in deriving[c] :
            /\ t.type = "ACCEPT" /\ key' = key
            /\ deriving' = [deriving EXCEPT ![c] = @ \ {t}]
            /\ \/ /\ rot[c].pend.rid = None
                  /\ ResetRotation(c)
                  /\ LoadMessages(c)
                  /\ UNCHANGED sending
               \/ /\ rot[c].pend.rid # None
                  /\ SaveEphPrivateKey(c, t.rid, t.eph)
                  /\ SetRot(c, [isPending |-> TRUE, status |-> "ACCEPT", cur |-> t.rid,
                                pend |-> IF connected[c] THEN rot[c].pend ELSE NoSaved,
                                priv |-> t.eph])
                  /\ IF connected[c]
                     THEN /\ StartSend(c, "ACCEPT", t.rid, t.eph, key[c], t.newKey)
                          /\ UNCHANGED resolved
                     ELSE LoadMessages(c) /\ UNCHANGED sending
    BY <1>4 DEF AcceptDerived
  <2>2. /\ Derives(c, t) /\ NoMail(c) /\ Mute(Peer(c)) /\ Busy(a) /\ ~Asks(a) /\ c = b
        /\ Asks(b) /\ rot[b].pend.rid = t.rid /\ Same(a, b)
        /\ t.newKey = DeriveNewKey(t.rid, t.rid, t.eph)
    BY <1>1, <2>1, TaskInPlay
  <2>3. /\ Mute(a)' /\ NoMail(b)' /\ Busy(a)' /\ ~Asks(a)' /\ Same(a, b)'
        /\ deriving'[b] = {} /\ \A u \in sending[b] : u.type = "TEXT"
    BY <1>0, <1>1, <1>3, <2>1, <2>2 DEF Same, Derives, TypeOK
  <2>4. CASE connected[c]
    <3>1. PICK u : u = [type |-> "ACCEPT", rid |-> t.rid, eph |-> t.eph,
                        enc |-> key[c], newKey |-> t.newKey]
      OBVIOUS
    <3>2. sending'[b] = sending[b] \cup {u} /\ rot'[b].pend = rot[b].pend
      BY <1>0, <2>1, <2>2, <2>4, <3>1 DEF StartSend, SetRot, TypeOK, Asks
    <3>3. Sends(b, u)' /\ Asks(b)' /\ rot'[b].pend.rid = u.rid
      BY <2>2, <2>3, <3>1, <3>2 DEF Sends, Asks
    <3>4. u.type = "ACCEPT" /\ u.newKey = DeriveNewKey(u.rid, u.rid, u.eph)
      BY <2>2, <3>1
    <3> QED
      BY <2>3, <3>3, <3>4 DEF Course, ResponderSpeaks
  <2>5. CASE ~connected[c]
    <3>1. sending' = sending /\ rot'[b].pend = NoSaved
      BY <1>0, <2>1, <2>2, <2>5 DEF SetRot, TypeOK, Asks
    <3>2. Mute(b)' /\ ~Asks(b)'
      BY <2>3, <3>1 DEF Mute, Silent, Asks, NoSaved
    <3> QED
      BY <2>3, <3>2, CourseSettles
  <2> QED
    BY <2>4, <2>5
<1>5. CASE ConfirmDerived(c)
  <2>1. PICK t \in deriving[c] :
            /\ t.type = "CONFIRM"
            /\ deriving' = [deriving EXCEPT ![c] = @ \ {t}]
            /\ SetRot(c, [rot[c] EXCEPT !.status = "CONFIRM"])
            /\ ActivateNewKey(c, t.newKey)
            /\ IF connected[c]
               THEN StartSend(c, "CONFIRM", t.rid, None, t.newKey, t.newKey)
               ELSE UNCHANGED sending
    BY <1>5 DEF ConfirmDerived
  <2>2. /\ Derives(c, t) /\ NoMail(c) /\ Mute(Peer(c)) /\ Busy(a) /\ ~Asks(a)
        /\ c = a /\ ~Asks(b) /\ t.newKey = key[b]
    BY <1>1, <2>1, TaskInPlay
  <2>3. /\ Mute(b)' /\ NoMail(a)' /\ ~Asks(b)' /\ Same(a, b)'
        /\ deriving'[a] = {} /\ \A u \in sending[a] : u.type = "TEXT"
    BY <1>0, <1>1, <1>3, <2>1, <2>2 DEF Same, Derives, ActivateNewKey, TypeOK
  <2>4. Busy(a)' /\ ~Asks(a)'
    BY <1>0, <2>1, <2>2 DEF SetRot, Busy, Asks, TypeOK, Rotation
  <2>5. CASE connected[c]
    <3>1. PICK u : u = [type |-> "CONFIRM", rid |-> t.rid, eph |-> None,
                        enc |-> t.newKey, newKey |-> t.newKey]
      OBVIOUS
    <3>2. sending'[a] = sending[a] \cup {u} /\ u.type = "CONFIRM"
      BY <1>0, <2>1, <2>2, <2>5, <3>1 DEF StartSend, TypeOK
    <3>3. Sends(a, u)'
      BY <2>3, <3>2 DEF Sends
    <3> QED
      BY <2>3, <2>4, <3>2, <3>3 DEF Course, InitiatorSpeaks
  <2>6. CASE ~connected[c]
    <3>1. Mute(a)'
      BY <2>1, <2>3, <2>6 DEF Mute, Silent
    <3> QED
      BY <2>3, <2>4, <3>1, CourseSettles
  <2> QED
    BY <2>5, <2>6
<1> QED
  BY <1>4, <1>5

\* The handlers whose message has been encrypted.
LEMMA CourseSent ==
    ASSUME IInv, NEW a \in Clients, NEW b \in Clients, b = Peer(a), Course(a, b),
           NEW c \in Clients, ClientStep(c),
           \/ RequestOrConfirmSent(c) \/ AcceptSent(c) \/ RejectSent(c)
           \/ CompleteSent(c) \/ TextSent(c)
    PROVE  Course(a, b)'
<1>0. TypeOK
  BY DEF IInv
<1>1. Clients = {a, b} /\ c \in {a, b} /\ a # b /\ Peer(b) = a
  BY PeerIsClient DEF Clients, Peer
<1>2. \A d \in Clients : d # c => /\ SamePage(d)
                                  /\ Asks(d)' <=> Asks(d)
                                  /\ Busy(d)' <=> Busy(d)
                                  /\ Silent(d)' <=> Silent(d)
  <2> TAKE d \in Clients
  <2>1. d # c => SamePage(d)
    BY PagesApart
  <2> QED
    BY <2>1 DEF SamePage, Asks, Busy, Silent
<1>3. ASSUME NEW t \in sending[c], t.type # "TEXT", Sent(c, t), deriving' = deriving
      PROVE  /\ NoMail(c) /\ Mute(Peer(c))' /\ Busy(a) /\ ~Asks(a)
             /\ Silent(c)'
             /\ \/ NoMail(c)'
                \/ \E m : /\ Mail(c, m)'
                          /\ m.type = t.type /\ m.rid = t.rid /\ m.eph = t.eph
             /\ c = a => ~Asks(b) /\ t.type \in {"REQUEST", "CONFIRM"} /\ Same(a, b)
             /\ c = b => \/ /\ t.type \in {"ACCEPT", "REJECT"}
                            /\ Asks(b) /\ rot[b].pend.rid = t.rid /\ Same(a, b)
                            /\ t.type = "ACCEPT" =>
                                   t.newKey = DeriveNewKey(t.rid, t.rid, t.eph)
                         \/ t.type = "COMPLETE" /\ ~Asks(b) /\ Same(a, b)
  <2>1. /\ Sends(c, t) /\ NoMail(c) /\ Mute(Peer(c)) /\ Busy(a) /\ ~Asks(a)
        /\ c = a => ~Asks(b) /\ t.type \in {"REQUEST", "CONFIRM"} /\ Same(a, b)
        /\ c = b => \/ /\ t.type \in {"ACCEPT", "REJECT"}
                       /\ Asks(b) /\ rot[b].pend.rid = t.rid /\ Same(a, b)
                       /\ t.type = "ACCEPT" => t.newKey = DeriveNewKey(t.rid, t.rid, t.eph)
                    \/ t.type = "COMPLETE" /\ ~Asks(b) /\ Same(a, b)
    BY <1>3, TaskInPlay
  <2>2. /\ Silent(c)' /\ MailKept(Peer(c))
        /\ \/ NoMail(c)'
           \/ \E m : Mail(c, m)' /\ m.type = t.type /\ m.rid = t.rid /\ m.eph = t.eph
    BY <1>3, <2>1, MailSent
  <2>3. Mute(Peer(c))'
    BY <1>1, <1>2, <2>1, <2>2 DEF Mute, MailKept
  <2> QED
    BY <2>1, <2>2, <2>3
<1>4. ASSUME NEW t \in sending[c], t.type \in {"REJECT", "COMPLETE"}, Sent(c, t),
             deriving' = deriving, key' = key, rot'[c] = Idle
      PROVE  Course(a, b)'
  <2>1. c = b /\ t.type # "TEXT"
    BY <1>1, <1>3, <1>4
  <2>2. /\ Mute(a)' /\ Silent(b)' /\ Busy(a)' /\ ~Asks(a)' /\ ~Asks(b)' /\ Same(a, b)'
        /\ NoMail(b)' \/ \E m : Mail(b, m)' /\ m.type = t.type
    BY <1>1, <1>2, <1>3, <1>4, <2>1 DEF Same, Asks, Idle, NoSaved
  <2>3. CASE NoMail(b)'
    BY <2>2, <2>3, CourseSettles DEF Mute
  <2>4. CASE \E m : Mail(b, m)' /\ m.type = t.type
    BY <1>4, <2>2, <2>4 DEF Course, ResponderSpeaks
  <2> QED
    BY <2>2, <2>3, <2>4
<1>5. CASE RequestOrConfirmSent(c)
  <2>1. PICK t \in sending[c] : /\ t.type \in {"REQUEST", "CONFIRM"} /\ Sent(c, t)
                                /\ deriving' = deriving /\ key' = key /\ rot' = rot
    BY <1>5 DEF RequestOrConfirmSent
  <2>2. c = a /\ t.type # "TEXT"
    BY <1>1, <1>3, <2>1
  <2>3. /\ Mute(b)' /\ Silent(a)' /\ Busy(a)' /\ ~Asks(a)' /\ ~Asks(b)' /\ Same(a, b)'
        /\ NoMail(a)' \/ \E m : Mail(a, m)' /\ m.type = t.type
    BY <1>3, <2>1, <2>2 DEF Same, Asks, Busy
  <2>4. CASE NoMail(a)'
    BY <2>3, <2>4, CourseSettles DEF Mute
  <2>5. CASE \E m : Mail(a, m)' /\ m.type = t.type
    BY <2>1, <2>3, <2>5 DEF Course, InitiatorSpeaks
  <2> QED
    BY <2>3, <2>4, <2>5
<1>6. CASE AcceptSent(c)
  <2>1. PICK t \in sending[c] :
            /\ t.type = "ACCEPT" /\ Sent(c, t) /\ deriving' = deriving
            /\ key'[c] = t.newKey /\ rot'[c].pend = NoSaved
    BY <1>0, <1>6 DEF AcceptSent, ActivateNewKey, SetRot, TypeOK, Rotation
  <2>2. c = b /\ t.type # "TEXT"
    BY <1>1, <1>3, <2>1
  <2>3. /\ Mute(a)' /\ Silent(b)' /\ Busy(a)' /\ ~Asks(a)' /\ ~Asks(b)'
        /\ key'[b] = DeriveNewKey(t.rid, t.rid, t.eph)
        /\ \/ NoMail(b)'
           \/ \E m : Mail(b, m)' /\ m.type = t.type /\ m.rid = t.rid /\ m.eph = t.eph
    BY <1>1, <1>2, <1>3, <2>1, <2>2 DEF Asks, NoSaved
  <2>4. CASE NoMail(b)'
    BY <2>3, <2>4, CourseSettles DEF Mute
  <2>5. ASSUME NEW m, Mail(b, m)', m.type = t.type, m.rid = t.rid, m.eph = t.eph
        PROVE  Course(a, b)'
    <3>1. key'[b] = DeriveNewKey(m.rid, m.rid, m.eph) /\ m.type = "ACCEPT"
      BY <2>1, <2>3, <2>5
    <3> QED
      BY <2>3, <2>5, <3>1 DEF Course, ResponderSpeaks
  <2> QED
    BY <2>3, <2>4, <2>5
<1>7. CASE RejectSent(c)
  <2>1. PICK t \in sending[c] : /\ t.type = "REJECT" /\ Sent(c, t)
                                /\ deriving' = deriving /\ key' = key /\ rot'[c] = Idle
    BY <1>0, <1>7 DEF RejectSent, ResetRotation, SetRot, TypeOK
  <2> QED
    BY <1>4, <2>1
<1>8. CASE CompleteSent(c)
  <2>1. PICK t \in sending[c] : /\ t.type = "COMPLETE" /\ Sent(c, t)
                                /\ deriving' = deriving /\ key' = key /\ rot'[c] = Idle
    BY <1>0, <1>8 DEF CompleteSent, CompleteRotation, SetRot, TypeOK
  <2> QED
    BY <1>4, <2>1
<1>9. CASE TextSent(c)
  <2>1. PICK t \in sending[c] :
            /\ t.type = "TEXT"
            /\ \/ Sent(c, t)
               \/ /\ sending' = [sending EXCEPT ![c] = @ \ {t}]
                  /\ UNCHANGED <<queue, net>>
            /\ rot' = rot /\ deriving' = deriving /\ key' = key
    BY <1>9 DEF TextSent
  <2>2. TasksKept(c) /\ MailKept(c) /\ MailKept(Peer(c))
    <3>1. CASE Sent(c, t)
      BY <2>1, <3>1, MailSent
    <3>2. CASE /\ sending' = [sending EXCEPT ![c] = @ \ {t}]
               /\ UNCHANGED <<queue, net>>
      <4>1. \A d \in Clients : MailKept(d)
        BY <3>2, MailStays DEF net
      <4>2. TasksKept(c)
        BY <1>0, <2>1, <3>2 DEF TasksKept, TypeOK
      <4> QED
        BY <1>1, <4>1, <4>2
    <3> QED
      BY <2>1, <3>1, <3>2
  <2>3. \A d \in Clients : TasksKept(d) /\ MailKept(d)
    BY <1>1, <1>2, <2>1, <2>2 DEF TasksKept, SamePage
  <2>4. Busy(a) => Busy(a)'
    BY <2>1 DEF Busy
  <2> QED
    BY <2>1, <2>3, <2>4, CourseKept
<1> QED
  BY <1>5, <1>6, <1>7, <1>8, <1>9

\* Cut sockets, reconnections, deadlines, and steps of something else.
LEMMA CourseStill ==
    ASSUME IInv, NEW a \in Clients, NEW b \in Clients, b = Peer(a), Course(a, b),
           \/ \E c \in Clients : Cut(c) \/ Reconnect(c)
           \/ \E r \in Rids : Expire(r)
           \/ UNCHANGED vars
    PROVE  Course(a, b)'
<1>1. Clients = {a, b} /\ Peer(b) = a
  BY PeerIsClient DEF Clients, Peer
<1>2. rot' = rot /\ deriving' = deriving /\ sending' = sending /\ key' = key
  BY DEF Cut, Reconnect, Expire, vars, page
<1>3. \A d \in Clients : MailKept(d)
  <2>1. ASSUME NEW c \in Clients, Cut(c) PROVE MailKept(c) /\ MailKept(Peer(c))
    <3>1. PICK n \in 0..Len(inbox[c]) : inbox' = [inbox EXCEPT ![c] = SubSeq(@, 1, n)]
      BY <2>1 DEF Cut
    <3>2. queue' = queue
      BY <2>1 DEF Cut, page
    <3> QED
      BY <3>1, <3>2, MailCut
  <2>2. ASSUME NEW c \in Clients, Reconnect(c) PROVE MailKept(c) /\ MailKept(Peer(c))
    BY <2>2, MailFlushed DEF Reconnect
  <2>3. CASE (\E r \in Rids : Expire(r)) \/ UNCHANGED vars
    BY <2>3, MailStays DEF Expire, vars, page, net
  <2> QED
    BY <1>1, <2>1, <2>2, <2>3
<1>4. \A d \in Clients : TasksKept(d) /\ rot'[d].pend = rot[d].pend
  BY <1>2 DEF TasksKept
<1>5. Busy(a) => Busy(a)'
  BY <1>2 DEF Busy
<1> QED
  BY <1>2, <1>3, <1>4, <1>5, CourseKept

LEMMA CourseInit ==
    ASSUME Init, NEW a \in Clients, NEW b \in Clients, b = Peer(a)
    PROVE  Course(a, b)
BY PeerIsClient DEF Init, Course, Settled, Mute, Silent, NoMail, Clear, Asks, Same, Idle, NoSaved

\* Without room for a reload there is none.
LEMMA NoReloads ==
    ASSUME MaxReloads = 0, IInv, NEW c \in Clients
    PROVE  ~Reload(c)
<1>1. reloads[c] \in 0..MaxReloads
  BY DEF IInv, TypeOK
<1>2. ~(reloads[c] < MaxReloads)
  BY <1>1
<1>3. ~LoadPage(c)
  BY <1>2 DEF LoadPage
<1> QED
  BY <1>3 DEF Reload, ReloadIdle, ReloadToRequest, ReloadAfterOwnAccept, ReloadAfterConfirm

LEMMA CourseStep ==
    ASSUME MaxReloads = 0, IInv, NEW a \in Clients, NEW b \in Clients, b = Peer(a),
           ~Initiate(b), Course(a, b), [Next]_vars
    PROVE  Course(a, b)'
<1>1. ASSUME NEW c \in Clients, ClientStep(c) PROVE Course(a, b)'
  <2>1. ~Reload(c)
    BY NoReloads
  <2>2. CASE Initiate(c) \/ Accept(c) \/ AcceptExpired(c) \/ Reject(c) \/ SendText(c)
    BY <1>1, <2>2, CourseButtons
  <2>3. CASE Handle(c)
    BY <1>1, <2>3, CourseHandled
  <2>4. CASE Resume(c)
    BY <1>1, <2>4, CourseDerived, CourseSent DEF Resume
  <2>5. CASE Cut(c) \/ Reconnect(c)
    BY <2>5, CourseStill
  <2> QED
    BY <1>1, <2>1, <2>2, <2>3, <2>4, <2>5 DEF ClientStep
<1>2. CASE UNCHANGED vars
  BY <1>2, CourseStill
<1>3. CASE \E r \in Rids : Expire(r)
  BY <1>3, CourseStill
<1> QED
  BY <1>1, <1>2, <1>3 DEF Next

\* The other user begins none.
LEMMA OneBegins ==
    ASSUME NEW a \in Clients, Initiators \subseteq {a}, NEW b \in Clients, b = Peer(a)
    PROVE  ~Initiate(b)
BY PeerIsClient DEF Initiate

\* When one user alone begins rotations and no page is reloaded, two pages that are
\* done and have nothing on its way use the same key: for any number of rotations and
\* interleaved handlers, whatever messages are lost, sockets cut, requests rejected
\* or left to expire, a rotation that does not end in one key leaves its initiator waiting.
THEOREM QuietPagesAgree ==
    (\E a \in Clients : Initiators \subseteq {a}) /\ MaxReloads = 0 /\ Spec => []QuietAgreement
<1> SUFFICES ASSUME NEW a \in Clients, Initiators \subseteq {a}, MaxReloads = 0
             PROVE  Spec => []QuietAgreement
  OBVIOUS
<1>0. PICK b \in Clients : b = Peer(a)
  BY PeerIsClient
<1>1. Course(a, b) => QuietAgreement
  <2> SUFFICES ASSUME Course(a, b), Quiet PROVE key[Alice] = key[Bob]
    BY DEF QuietAgreement
  <2>1. ~Busy(a)
    BY DEF Quiet, Busy
  <2>2. Same(a, b)
    BY <2>1 DEF Course, Settled, Shown, InitiatorSpeaks, ResponderSpeaks
  <2> QED
    BY <1>0, <2>2, PeerIsClient DEF Same, Clients, Peer
<1>2. Init => Course(a, b)
  BY <1>0, CourseInit
<1>3. IInv /\ Course(a, b) /\ [Next]_vars => Course(a, b)'
  BY <1>0, OneBegins, CourseStep
<1> QED
  BY <1>1, <1>2, <1>3, Invariance, PTL DEF Spec

-----------------------------------------------------------------------------
(* The keys are handed over                                                   *)

\* The user who begins the rotations, if it is one.
Initiator == CHOOSE a \in Clients : Initiators \subseteq {a}

\* The side that answers offers a key, the side that began takes it.
Handover == INSTANCE KeyHandover WITH
    Keys <- SessionKey, FirstKey <- BaseKey,
    offered <- key[Peer(Initiator)], taken <- key[Initiator]

\* Handlers that change no key.
LEMMA KeysChange ==
    ASSUME MaxReloads = 0, IInv, [Next]_vars
    PROVE  \/ key' = key
           \/ \E c \in Clients : ClientStep(c) /\ (AcceptSent(c) \/ ConfirmDerived(c))
<1>1. ASSUME NEW c \in Clients, ClientStep(c), ~AcceptSent(c), ~ConfirmDerived(c)
      PROVE  key' = key
  <2>1. ~Reload(c)
    BY NoReloads
  <2>2. CASE Initiate(c) \/ Accept(c) \/ AcceptExpired(c) \/ Reject(c) \/ SendText(c)
    BY <2>2 DEF Initiate, Accept, AcceptExpired, Reject, SendText
  <2>3. CASE Handle(c)
    BY <2>3 DEF Handle, ShowOrIgnore, ProcessIncomingRequest, ProcessAccept, ProcessConfirm,
       ProcessComplete, ProcessReject, page
  <2>4. CASE Resume(c)
    BY <1>1, <2>4 DEF Resume, RequestOrConfirmSent, AcceptDerived, RejectSent, CompleteSent,
       TextSent
  <2>5. CASE Cut(c) \/ Reconnect(c)
    BY <2>5 DEF Cut, Reconnect, page
  <2> QED
    BY <1>1, <2>1, <2>2, <2>3, <2>4, <2>5 DEF ClientStep
<1>2. ASSUME NEW r \in Rids, Expire(r) PROVE key' = key
  BY <1>2 DEF Expire, page
<1> QED
  BY <1>1, <1>2 DEF Next, vars, page

\* Each switch of a key is an offer of the one side or the other's taking it.
LEMMA HandoverStep ==
    ASSUME MaxReloads = 0, IInv, NEW a \in Clients, NEW b \in Clients, b = Peer(a),
           Course(a, b), [Next]_vars
    PROVE  \/ key'[a] = key[b] /\ key'[b] = key[b]
           \/ key[a] = key[b] /\ key'[b] \in SessionKey /\ key'[a] = key[a]
           \/ key'[a] = key[a] /\ key'[b] = key[b]
<1>0. TypeOK
  BY DEF IInv
<1>1. Clients = {a, b} /\ a # b /\ Peer(b) = a
  BY PeerIsClient DEF Clients, Peer
<1>2. ASSUME NEW c \in Clients, ClientStep(c), AcceptSent(c)
      PROVE  key[a] = key[b] /\ key'[b] \in SessionKey /\ key'[a] = key[a]
  <2>1. PICK t \in sending[c] : t.type = "ACCEPT" /\ key' = [key EXCEPT ![c] = t.newKey]
    BY <1>2 DEF AcceptSent, ActivateNewKey
  <2>2. c = b /\ Same(a, b)
    BY <1>1, <2>1, TaskInPlay
  <2>3. t.newKey \in SessionKey
    BY <1>0, <2>1 DEF TypeOK, Sending
  <2> QED
    BY <1>0, <1>1, <2>1, <2>2, <2>3 DEF Same, TypeOK
<1>3. ASSUME NEW c \in Clients, ClientStep(c), ConfirmDerived(c)
      PROVE  key'[a] = key[b] /\ key'[b] = key[b]
  <2>1. PICK t \in deriving[c] : t.type = "CONFIRM" /\ key' = [key EXCEPT ![c] = t.newKey]
    BY <1>3 DEF ConfirmDerived, ActivateNewKey
  <2>2. c = a /\ t.newKey = key[b]
    BY <1>1, <2>1, TaskInPlay
  <2> QED
    BY <1>0, <1>1, <2>1, <2>2 DEF TypeOK
<1> QED
  BY <1>2, <1>3, KeysChange

\* The rotation implements KeyHandover when one user alone begins rotations and no
\* page is reloaded: the responder switches to a new key only while both use the same
\* one, and the initiator to no other than the responder's, so that the keys are never
\* more than one rotation apart, however messages are lost and handlers interleave.
THEOREM RotationHandsKeysOver ==
    (\E a \in Clients : Initiators \subseteq {a}) /\ MaxReloads = 0 /\ Spec => Handover!Spec
<1> SUFFICES ASSUME \E a \in Clients : Initiators \subseteq {a}, MaxReloads = 0
             PROVE  Spec => Handover!Spec
  OBVIOUS
<1>1. Initiator \in Clients /\ Initiators \subseteq {Initiator}
  BY DEF Initiator
<1>2. PICK a \in Clients, b \in Clients : a = Initiator /\ b = Peer(a)
  BY <1>1, PeerIsClient
<1>3. Init => Course(a, b) /\ Handover!Init
  BY <1>1, <1>2, CourseInit, PeerIsClient DEF Init, Handover!Init
<1>4. IInv /\ Course(a, b) /\ [Next]_vars => Course(a, b)'
  BY <1>1, <1>2, OneBegins, CourseStep
<1>5. IInv /\ Course(a, b) /\ [Next]_vars
          => [Handover!Next]_<<key[Peer(Initiator)], key[Initiator]>>
  <2> SUFFICES ASSUME IInv, Course(a, b), [Next]_vars
               PROVE  [Handover!Next]_<<key[Peer(Initiator)], key[Initiator]>>
    OBVIOUS
  <2>1. \/ key'[a] = key[b] /\ key'[b] = key[b]
        \/ key[a] = key[b] /\ key'[b] \in SessionKey /\ key'[a] = key[a]
        \/ key'[a] = key[a] /\ key'[b] = key[b]
    BY <1>2, HandoverStep
  <2> QED
    BY <1>2, <2>1 DEF Handover!Next, Handover!Offer, Handover!Take
<1> QED
  BY <1>3, <1>4, <1>5, Invariance, PTL DEF Spec, Handover!Spec

-----------------------------------------------------------------------------
(* Both users begin rotations, in turns: the roles are those of the rotation  *)
(* that is under way, and may swap when nobody waits in one.                  *)

\* The page waits in a rotation it began.
Began(c) == rot[c].status \in {"REQUEST", "CONFIRM"}

\* Who begins a rotation, and who answers: a page waits for an answer, or for a
\* COMPLETE, or answers, and never does both.
Roles(a, b) ==
    /\ rot[a].status \in {"NONE", "REQUEST", "CONFIRM"}
    /\ rot[b].status \in {"NONE", "PENDING_REQUEST", "ACCEPT", "COMPLETE"}
    /\ \A c \in {a, b} : rot[c].isPending <=> rot[c].status # "NONE"

LEMMA RolesSet ==
    ASSUME TypeOK, NEW a \in Clients, NEW b \in Clients, b = Peer(a), Roles(a, b),
           NEW c \in Clients, rot' = [rot EXCEPT ![c] = rot'[c]],
           rot'[c].isPending <=> rot'[c].status # "NONE",
           c = a => rot'[c].status \in {"NONE", "REQUEST", "CONFIRM"},
           c = b => rot'[c].status \in {"NONE", "PENDING_REQUEST", "ACCEPT", "COMPLETE"}
    PROVE  Roles(a, b)'
<1>1. \A d \in Clients : rot'[d] = IF d = c THEN rot'[c] ELSE rot[d]
  BY DEF TypeOK
<1>2. \A d \in {a, b} : rot'[d].isPending <=> rot'[d].status # "NONE"
  BY <1>1 DEF Roles
<1>3. rot'[a].status \in {"NONE", "REQUEST", "CONFIRM"}
  BY <1>1 DEF Roles
<1>4. rot'[b].status \in {"NONE", "PENDING_REQUEST", "ACCEPT", "COMPLETE"}
  BY <1>1 DEF Roles
<1> QED
  BY <1>2, <1>3, <1>4 DEF Roles

LEMMA RolesStep ==
    ASSUME MaxReloads = 0, IInv, NEW a \in Clients, NEW b \in Clients, b = Peer(a),
           ~Initiate(b), Course(a, b), Roles(a, b), [Next]_vars
    PROVE  Roles(a, b)'
<1>0. TypeOK
  BY DEF IInv
<1>1. \A c \in Clients : c \in {a, b}
  BY PeerIsClient DEF Clients, Peer
<1>2. ASSUME rot' = rot PROVE Roles(a, b)'
  BY <1>2 DEF Roles
<1>3. ASSUME NEW c \in Clients, rot' = [rot EXCEPT ![c] = Idle] PROVE Roles(a, b)'
  <2>1. rot'[c] = Idle
    BY <1>0, <1>3 DEF TypeOK
  <2>2. ~rot'[c].isPending /\ rot'[c].status = "NONE"
    BY <2>1 DEF Idle
  <2>3. rot' = [rot EXCEPT ![c] = rot'[c]]
    BY <1>3, <2>1
  <2> QED
    BY <1>0, <2>2, <2>3, RolesSet
<1>4. ASSUME NEW c \in Clients, ClientStep(c) PROVE Roles(a, b)'
  <2>0. rot[c] \in Rotation
    BY <1>0 DEF TypeOK
  <2>1. CASE Initiate(c)
    <3>1. CASE SetRot(c, [isPending |-> TRUE, status |-> "REQUEST", cur |-> NextEph(c),
                           pend |-> NoSaved, priv |-> NextEph(c)])
      <4>1. rot'[c].isPending /\ rot'[c].status = "REQUEST" /\ c = a /\ c # b
        BY <1>0, <1>1, <2>1, <3>1, PeerIsClient DEF SetRot, TypeOK
      <4> QED
        BY <1>0, <3>1, <4>1, RolesSet DEF SetRot
    <3>2. CASE ResetRotation(c)
      BY <1>3, <3>2 DEF ResetRotation, SetRot
    <3> QED
      BY <2>1, <3>1, <3>2 DEF Initiate
  <2>2. CASE Accept(c) \/ SendText(c)
    BY <1>2, <2>2 DEF Accept, SendText
  <2>3. CASE AcceptExpired(c) \/ Reject(c)
    BY <1>2, <1>3, <2>3 DEF AcceptExpired, Reject, ResetRotation, SetRot
  <2>4. CASE Handle(c)
    <3>0. PICK m : m = Head(inbox[c])
      OBVIOUS
    <3>1. /\ inbox[c] # <<>> /\ queue' = queue
          /\ inbox' = [inbox EXCEPT ![c] = Tail(@)]
      BY <2>4 DEF Handle, ShowOrIgnore, ProcessIncomingRequest, ProcessAccept, ProcessConfirm,
         ProcessComplete, ProcessReject, Taking, page
    <3>2. m.type # "TEXT" => /\ c = b => m.type \in {"REQUEST", "CONFIRM"}
                             /\ c = a => m.type \in {"ACCEPT", "REJECT", "COMPLETE"}
      BY <3>0, <3>1, MailInPlay
    <3>3. CASE ShowOrIgnore(c)
      BY <1>2, <3>3 DEF ShowOrIgnore, page
    <3>4. CASE ProcessIncomingRequest(c)
      <4>1. m.type = "REQUEST" /\ c = b /\ c # a
        BY <1>1, <3>0, <3>2, <3>4, PeerIsClient DEF ProcessIncomingRequest, Taking
      <4>2. CASE rot' = rot
        BY <1>2, <4>2
      <4>3. CASE SetRot(c, [isPending |-> TRUE, status |-> "PENDING_REQUEST",
                            cur |-> m.rid, pend |-> [rid |-> m.rid, eph |-> m.eph],
                            priv |-> rot[c].priv])
        <5>1. rot'[c].isPending /\ rot'[c].status = "PENDING_REQUEST"
          BY <1>0, <4>3 DEF SetRot, TypeOK
        <5>2. rot' = [rot EXCEPT ![c] = rot'[c]]
          BY <1>0, <4>3 DEF SetRot, TypeOK
        <5> QED
          BY <1>0, <4>1, <5>1, <5>2, RolesSet
      <4> QED
        BY <3>0, <3>4, <4>2, <4>3 DEF ProcessIncomingRequest
    <3>5. CASE ProcessAccept(c)
      <4>1. m.type = "ACCEPT" /\ c = a /\ c # b
        BY <1>1, <3>0, <3>2, <3>5, PeerIsClient DEF ProcessAccept, Taking
      <4>2. CASE rot' = rot
        BY <1>2, <4>2
      <4>3. CASE /\ Adopt(c, m.rid, "REQUEST").status = "REQUEST"
                 /\ SetRot(c, Adopt(c, m.rid, "REQUEST"))
        <5>1. rot'[c] = Adopt(c, m.rid, "REQUEST")
          BY <1>0, <4>3 DEF SetRot, TypeOK
        <5>2. rot'[c].isPending /\ rot'[c].status = "REQUEST"
          BY <2>0, <4>1, <4>3, <5>1 DEF Adopt, Roles, Rotation
        <5> QED
          BY <1>0, <4>1, <4>3, <5>1, <5>2, RolesSet DEF SetRot
      <4> QED
        BY <3>0, <3>5, <4>2, <4>3 DEF ProcessAccept
    <3>6. CASE ProcessConfirm(c)
      <4>1. m.type = "CONFIRM" /\ c = b /\ c # a
        BY <1>1, <3>0, <3>2, <3>6, PeerIsClient DEF ProcessConfirm, Taking
      <4>2. CASE rot' = rot
        BY <1>2, <4>2
      <4>3. CASE CompleteRotation(c)
        BY <1>3, <4>3 DEF CompleteRotation, SetRot
      <4>4. CASE /\ Adopt(c, m.rid, "ACCEPT").status = "ACCEPT"
                 /\ SetRot(c, [Adopt(c, m.rid, "ACCEPT") EXCEPT !.status = "COMPLETE"])
        <5>1. rot'[c] = [Adopt(c, m.rid, "ACCEPT") EXCEPT !.status = "COMPLETE"]
          BY <1>0, <4>4 DEF SetRot, TypeOK
        <5>2. rot'[c].isPending /\ rot'[c].status = "COMPLETE"
          BY <2>0, <4>1, <4>4, <5>1 DEF Adopt, Roles, Rotation
        <5>3. rot' = [rot EXCEPT ![c] = rot'[c]]
          BY <4>4, <5>1 DEF SetRot
        <5> QED
          BY <1>0, <4>1, <5>2, <5>3, RolesSet
      <4> QED
        BY <3>0, <3>6, <4>2, <4>3, <4>4 DEF ProcessConfirm
    <3>7. CASE ProcessComplete(c) \/ ProcessReject(c)
      BY <1>3, <3>7 DEF ProcessComplete, ProcessReject, CompleteRotation, ResetRotation, SetRot
    <3> QED
      BY <2>4, <3>3, <3>4, <3>5, <3>6, <3>7 DEF Handle
  <2>5. CASE AcceptDerived(c)
    <3>1. PICK t \in deriving[c] :
              /\ t.type = "ACCEPT"
              /\ \/ ResetRotation(c)
                 \/ SetRot(c, [isPending |-> TRUE, status |-> "ACCEPT", cur |-> t.rid,
                               pend |-> IF connected[c] THEN rot[c].pend ELSE NoSaved,
                               priv |-> t.eph])
      BY <2>5 DEF AcceptDerived
    <3>2. c = b /\ c # a
      BY <1>1, <3>1, TaskInPlay, PeerIsClient
    <3>3. CASE ResetRotation(c)
      BY <1>3, <3>3 DEF ResetRotation, SetRot
    <3>4. CASE SetRot(c, [isPending |-> TRUE, status |-> "ACCEPT", cur |-> t.rid,
                          pend |-> IF connected[c] THEN rot[c].pend ELSE NoSaved,
                          priv |-> t.eph])
      <4>1. rot'[c].isPending /\ rot'[c].status = "ACCEPT"
        BY <1>0, <3>4 DEF SetRot, TypeOK
      <4> QED
        BY <1>0, <3>2, <3>4, <4>1, RolesSet DEF SetRot
    <3> QED
      BY <3>1, <3>3, <3>4
  <2>6. CASE ConfirmDerived(c)
    <3>1. PICK t \in deriving[c] : t.type = "CONFIRM" /\ SetRot(c, [rot[c] EXCEPT !.status = "CONFIRM"])
      BY <2>6 DEF ConfirmDerived
    <3>2. c = a /\ c # b /\ Busy(a)
      BY <1>1, <3>1, TaskInPlay, PeerIsClient
    <3>3. rot'[c].isPending /\ rot'[c].status = "CONFIRM"
      BY <1>0, <2>0, <3>1, <3>2 DEF SetRot, Busy, TypeOK, Rotation
    <3> QED
      BY <1>0, <3>1, <3>2, <3>3, RolesSet DEF SetRot
  <2>7. CASE AcceptSent(c)
    <3>1. rot' = [rot EXCEPT ![c] = [rot[c] EXCEPT !.pend = NoSaved]]
      BY <2>7 DEF AcceptSent, SetRot
    <3>2. rot'[c].isPending = rot[c].isPending /\ rot'[c].status = rot[c].status
      BY <1>0, <2>0, <3>1 DEF TypeOK, Rotation
    <3> QED
      BY <1>0, <1>1, <3>1, <3>2, RolesSet DEF Roles
  <2>8. CASE RequestOrConfirmSent(c) \/ TextSent(c)
    BY <1>2, <2>8 DEF RequestOrConfirmSent, TextSent
  <2>9. CASE RejectSent(c) \/ CompleteSent(c)
    BY <1>3, <2>9 DEF RejectSent, CompleteSent, CompleteRotation, ResetRotation, SetRot
  <2>10. CASE Cut(c) \/ Reconnect(c)
    BY <1>2, <2>10 DEF Cut, Reconnect, page
  <2>11. ~Reload(c)
    BY NoReloads
  <2> QED
    BY <1>4, <2>1, <2>2, <2>3, <2>4, <2>5, <2>6, <2>7, <2>8, <2>9, <2>10, <2>11 DEF ClientStep, Resume
<1>5. CASE \E r \in Rids : Expire(r)
  BY <1>2, <1>5 DEF Expire, page
<1>6. CASE UNCHANGED vars
  BY <1>2, <1>6 DEF vars, page
<1> QED
  BY <1>4, <1>5, <1>6 DEF Next

\* When nobody waits in a rotation that was begun, either page may begin the next.
LEMMA RolesSwap ==
    ASSUME NEW a \in Clients, NEW b \in Clients, b = Peer(a), Course(a, b), Roles(a, b),
           ~Began(a), ~rot[b].isPending
    PROVE  Course(b, a) /\ Roles(b, a)
<1>1. ~Busy(a)
  BY DEF Began, Busy, Roles
<1>2. Settled(a, b) /\ Same(a, b) /\ ~Asks(a)
  BY <1>1 DEF Course, Settled, Shown, InitiatorSpeaks, ResponderSpeaks
<1>3. Course(b, a)
  BY <1>2 DEF Course, Settled, Same
<1>4. Roles(b, a)
  BY DEF Roles, Began
<1> QED
  BY <1>3, <1>4

\* No user begins a rotation while the other page waits in one it began.
TakingTurns == \A c \in Clients : Initiate(c) => ~Began(Peer(c))

\* One rotation is under way at most, begun by one of the two.
TurnInv == \E a \in Clients : Course(a, Peer(a)) /\ Roles(a, Peer(a))

LEMMA RolesStill ==
    ASSUME NEW a, NEW b, Roles(a, b), UNCHANGED vars
    PROVE  Roles(a, b)'
BY DEF Roles, vars, page

LEMMA TurnInit == Init => TurnInv
<1> SUFFICES ASSUME Init PROVE TurnInv
  OBVIOUS
<1>1. PICK a \in Clients, b \in Clients : b = Peer(a)
  BY PeerIsClient DEF Clients
<1>2. Course(a, b)
  BY <1>1, CourseInit
<1>3. Roles(a, b)
  BY <1>1 DEF Init, Roles, Idle
<1> QED
  BY <1>1, <1>2, <1>3 DEF TurnInv

\* The one who has the turn, when a user begins a rotation as much as otherwise.
LEMMA Turn ==
    ASSUME IInv, TurnInv, TakingTurns
    PROVE  \E a, b \in Clients : b = Peer(a) /\ ~Initiate(b) /\ Course(a, b) /\ Roles(a, b)
<1>1. PICK a \in Clients : Course(a, Peer(a)) /\ Roles(a, Peer(a))
  BY DEF TurnInv
<1>2. PICK b \in Clients : b = Peer(a) /\ a = Peer(b) /\ a # b
  BY PeerIsClient
<1>3. CASE ~Initiate(b)
  BY <1>1, <1>2, <1>3
<1>4. CASE Initiate(b)
  <2>1. ~Began(a) /\ ~rot[b].isPending
    BY <1>2, <1>4 DEF TakingTurns, Initiate
  <2>2. Course(b, a) /\ Roles(b, a)
    BY <1>1, <1>2, <2>1, RolesSwap
  <2>3. used[a] \in Nat /\ used'[a] = used[a]
    BY <1>2, <1>4 DEF IInv, TypeOK, Initiate, MakeEph
  <2>4. ~Initiate(a)
    BY <2>3 DEF IInv, TypeOK, Initiate, MakeEph
  <2> QED
    BY <1>2, <2>2, <2>4
<1> QED
  BY <1>3, <1>4

LEMMA TurnStep ==
    ASSUME MaxReloads = 0, IInv, TurnInv, [Next]_vars, TakingTurns
    PROVE  TurnInv'
<1>1. PICK a \in Clients, b \in Clients :
          b = Peer(a) /\ ~Initiate(b) /\ Course(a, b) /\ Roles(a, b)
  BY Turn
<1>2. Course(a, b)'
  BY <1>1, CourseStep
<1>3. Roles(a, b)'
  BY <1>1, RolesStep
<1> QED
  BY <1>1, <1>2, <1>3 DEF TurnInv, Peer

\* Both users may begin rotations, one after the other: as long as none does while the
\* other page waits in one it began, and no page is reloaded, quiet pages use the same
\* key.  What QuietPagesAgree needs of one initiator is that requests do not cross.
THEOREM TurnsKeepPagesAgreed ==
    MaxReloads = 0 /\ Spec /\ [][TakingTurns]_vars => []QuietAgreement
<1> SUFFICES ASSUME MaxReloads = 0
             PROVE  Spec /\ [][TakingTurns]_vars => []QuietAgreement
  OBVIOUS
<1>1. TurnInv => QuietAgreement
  <2> SUFFICES ASSUME TurnInv, Quiet PROVE key[Alice] = key[Bob]
    BY DEF QuietAgreement
  <2>1. PICK a \in Clients, b \in Clients : b = Peer(a) /\ Course(a, b)
    BY PeerIsClient DEF TurnInv
  <2>2. ~Busy(a)
    BY DEF Quiet, Busy
  <2>3. Same(a, b)
    BY <2>1, <2>2 DEF Course, Settled, Shown, InitiatorSpeaks, ResponderSpeaks
  <2> QED
    BY <2>1, <2>3, PeerIsClient DEF Same, Clients, Peer
<1>2. ASSUME IInv, TurnInv, [Next]_vars, [TakingTurns]_vars PROVE TurnInv'
  <2>1. CASE UNCHANGED vars
    <3>1. PICK a \in Clients, b \in Clients : b = Peer(a) /\ Course(a, b) /\ Roles(a, b)
      BY <1>2, PeerIsClient DEF TurnInv
    <3>2. Course(a, b)'
      BY <1>2, <2>1, <3>1, CourseStill
    <3>3. Roles(a, b)'
      BY <2>1, <3>1, RolesStill
    <3> QED
      BY <3>1, <3>2, <3>3 DEF TurnInv, Peer
  <2>2. CASE TakingTurns
    BY <1>2, <2>2, TurnStep
  <2> QED
    BY <1>2, <2>1, <2>2
<1> QED
  BY <1>1, <1>2, TurnInit, Invariance, PTL DEF Spec

-----------------------------------------------------------------------------
(* What a page remembers, works on or is sent names rotations that were begun. *)

\* The rotation has been named: its request's pair is one its owner has made.
Made(r) == r \in Rids => r[2] <= used[r[1]]

\* Whatever the page remembers, works on or is sent names rotations that were begun.
Named(c) ==
    /\ \A p \in seen[c] : Made(p[1])
    /\ \A r \in resolved[c] : Made(r)
    /\ Made(slot[c].rid) /\ Made(rot[c].pend.rid)
    /\ \A t \in Under(c) : Made(t.rid)
    /\ \A m \in Elements(queue[c]) \cup Elements(inbox[c]) : Made(m.rid)

NamedInv ==
    /\ \A m \in Elements(log) : Made(m.rid)
    /\ \A c \in Clients : Named(c)

LEMMA NamedInit == Init => NamedInv
<1> SUFFICES ASSUME Init PROVE NamedInv
  OBVIOUS
<1>1. Elements(<<>>) = {} /\ Made(None)
  BY NoneIsNoEph DEF Elements, Made, Rids
<1>2. ASSUME NEW c \in Clients PROVE Named(c)
  <2>1. /\ seen[c] = {} /\ resolved[c] = {} /\ Under(c) = {}
        /\ queue[c] = <<>> /\ inbox[c] = <<>>
        /\ slot[c].rid = None /\ rot[c].pend.rid = None
    BY <1>2 DEF Init, Under, NoSaved, Idle
  <2> QED
    BY <1>1, <2>1 DEF Named
<1> QED
  BY <1>1, <1>2 DEF NamedInv, Init

\* A pair that was made stays so, and the next one joins them.
LEMMA MadeStays ==
    ASSUME TypeOK, NEW c \in Clients, used' = used \/ (used[c] < MaxEph /\ MakeEph(c))
    PROVE  /\ \A r : Made(r) => Made(r)'
           /\ \A n : n = NextEph(c) /\ MakeEph(c) => Made(n)'
<1>1. \A d \in Clients : used[d] \in Nat /\ used'[d] \in Nat /\ used[d] <= used'[d]
  <2> TAKE d \in Clients
  <2>1. used[d] \in Nat /\ used[c] \in Nat
    BY BoundsAssumption DEF TypeOK
  <2>2. used'[d] \in {used[d], used[d] + 1}
    BY DEF TypeOK, MakeEph
  <2> QED
    BY <2>1, <2>2
<1>2. ASSUME NEW r, Made(r) PROVE Made(r)'
  <2>1. SUFFICES ASSUME r \in Rids PROVE r[2] <= used'[r[1]]
    BY DEF Made
  <2>2. r[2] \in Nat /\ r[1] \in Clients /\ r[2] <= used[r[1]]
    BY <1>2, <2>1, BoundsAssumption DEF Rids, Ephs, Made
  <2>3. used[r[1]] \in Nat /\ used'[r[1]] \in Nat /\ used[r[1]] <= used'[r[1]]
    BY <1>1, <2>2
  <2> QED
    BY <2>2, <2>3
<1>3. ASSUME NEW n, n = NextEph(c), MakeEph(c) PROVE Made(n)'
  <2>1. n[1] = c /\ n[2] = used[c] + 1
    BY <1>3 DEF NextEph
  <2>2. used'[c] = used[c] + 1
    BY <1>3 DEF TypeOK, MakeEph
  <2> QED
    BY <1>1, <2>1, <2>2 DEF Made
<1> QED
  BY <1>2, <1>3

\* Taking up another rotation leaves the request that is shown.
LEMMA AdoptKeepsRequest ==
    ASSUME TypeOK, NEW c \in Clients, NEW rid, NEW s, NEW u
    PROVE  /\ Adopt(c, rid, s).pend = rot[c].pend
           /\ [Adopt(c, rid, s) EXCEPT !.status = u].pend = rot[c].pend
<1>1. rot[c] \in Rotation
  BY DEF TypeOK
<1>2. CASE rot[c].cur = rid
  <2>1. Adopt(c, rid, s) = rot[c]
    BY <1>2 DEF Adopt
  <2> QED
    BY <1>1, <2>1 DEF Rotation
<1>3. CASE rot[c].cur # rid
  <2>1. Adopt(c, rid, s) = [rot[c] EXCEPT !.isPending = TRUE, !.status = s, !.cur = rid,
                                          !.priv = slot[c].eph]
    BY <1>3 DEF Adopt
  <2> QED
    BY <1>1, <2>1 DEF Rotation
<1> QED
  BY <1>2, <1>3

\* What a step of c leaves to be shown.
LEMMA NamedKept ==
    ASSUME IInv, NamedInv, NEW c \in Clients, ClientStep(c),
           used' = used \/ (used[c] < MaxEph /\ MakeEph(c)),
           NEW n, n = None \/ (n = NextEph(c) /\ MakeEph(c)),
           \A m \in Elements(log') : Made(m.rid),
           \A d \in Clients : \A m \in Elements(inbox'[d]) : Made(m.rid),
           \A m \in Elements(queue'[c]) : Made(m.rid),
           \A p \in seen'[c] : Made(p[1]),
           resolved'[c] = resolved[c] \/ LoadMessages(c),
           Made(slot'[c].rid) \/ slot'[c].rid = n,
           Made(rot'[c].pend.rid),
           \A t \in deriving'[c] \cup sending'[c] : Made(t.rid) \/ t.rid = n
    PROVE  NamedInv'
<1>0. TypeOK
  BY DEF IInv
<1>1. (\A r : Made(r) => Made(r)') /\ Made(n)'
  <2>1. Made(None)
    BY NoneIsNoEph DEF Made, Rids
  <2> QED
    BY <1>0, <2>1, MadeStays
<1>2. \A r \in resolved'[c] : Made(r)
  <2>1. CASE resolved'[c] = resolved[c]
    BY <2>1 DEF NamedInv, Named
  <2>2. CASE LoadMessages(c)
    <3>1. resolved'[c] = ResolvedIn(log')
      BY <1>0, <2>2 DEF LoadMessages, TypeOK
    <3>2. \A r \in ResolvedIn(log') : \E i \in DOMAIN log' : r = log'[i].rid
      BY DEF ResolvedIn, History
    <3> QED
      BY <3>1, <3>2 DEF Elements
  <2> QED
    BY <2>1, <2>2
<1>3. Named(c)'
  <2>1. \A t \in Under(c)' : Made(t.rid)'
    BY <1>1 DEF Under
  <2>2. PICK p, q : p = slot'[c].rid /\ q = rot'[c].pend.rid
    OBVIOUS
  <2>3. Made(p)' /\ Made(q)'
    BY <1>1, <2>2
  <2> QED
    BY <1>1, <1>2, <2>1, <2>2, <2>3 DEF Named
<1>4. ASSUME NEW d \in Clients, d # c PROVE Named(d)'
  <2>1. SamePage(d)
    BY <1>4, PagesApart
  <2>2. Named(d)
    BY DEF NamedInv
  <2>3. Under(d)' = Under(d)
    BY <2>1 DEF SamePage, Under
  <2>4. \A m \in Elements(queue[d])' \cup Elements(inbox[d])' : Made(m.rid)
    BY <2>1, <2>2 DEF SamePage, Named
  <2> QED
    BY <1>1, <2>1, <2>2, <2>3, <2>4 DEF SamePage, Named
<1>5. \A m \in Elements(log)' : Made(m.rid)'
  BY <1>1
<1> QED
  BY <1>3, <1>4, <1>5 DEF NamedInv

LEMMA NamedQuiet ==
    ASSUME IInv, NamedInv, NEW c \in Clients, ClientStep(c),
           used' = used \/ (used[c] < MaxEph /\ MakeEph(c)),
           \A m \in Elements(log') : Made(m.rid),
           \A d \in Clients : \A m \in Elements(inbox'[d]) : Made(m.rid),
           \A m \in Elements(queue'[c]) : Made(m.rid),
           \A p \in seen'[c] : Made(p[1]),
           resolved'[c] = resolved[c] \/ LoadMessages(c),
           Made(slot'[c].rid), Made(rot'[c].pend.rid),
           \A t \in deriving'[c] \cup sending'[c] : Made(t.rid)
    PROVE  NamedInv'
<1>1. PICK n : n = None
  OBVIOUS
<1> QED
  BY <1>1, NamedKept

\* The message of a handler is named as the handler is.
LEMMA NamedSent ==
    ASSUME IInv, NamedInv, NEW c \in Clients, NEW t \in sending[c], Sent(c, t)
    PROVE  /\ \A m \in Elements(log') : Made(m.rid)
           /\ \A d \in Clients : \A m \in Elements(inbox'[d]) : Made(m.rid)
           /\ \A m \in Elements(queue'[c]) : Made(m.rid)
           /\ sending'[c] \subseteq sending[c]
<1>0. TypeOK
  BY DEF IInv
<1>1. PICK m : m = [type |-> t.type, from |-> c, rid |-> t.rid, eph |-> t.eph,
                    enc |-> t.enc, label |-> key[c]]
  OBVIOUS
<1> DEFINE ms == <<m>>
<1>2. m \in Message /\ ms \in Seq(Message) /\ Elements(ms) = {m} /\ Made(m.rid)
  <2>1. t \in Sending /\ key[c] \in SessionKey
    BY <1>0 DEF TypeOK
  <2>2. Made(t.rid)
    BY DEF NamedInv, Named, Under
  <2> QED
    BY <1>1, <2>1, <2>2 DEF Sending, Message, Elements
<1> HIDE DEF ms
<1>3. /\ \A d \in Clients : inbox[d] \in Seq(Message) /\ queue[d] \in Seq(Message)
      /\ log \in Seq(Message) /\ Peer(c) \in Clients
  BY <1>0, PeerIsClient DEF TypeOK
<1>4. /\ Elements(log \o ms) = Elements(log) \cup {m}
      /\ \A d \in Clients : Elements(inbox[d] \o ms) = Elements(inbox[d]) \cup {m}
      /\ Elements(Append(queue[c], m)) = Elements(queue[c]) \cup {m}
  <2>1. Elements(log \o ms) = Elements(log) \cup Elements(ms)
    BY <1>2, <1>3, ElementsOf
  <2>2. ASSUME NEW d \in Clients
        PROVE  Elements(inbox[d] \o ms) = Elements(inbox[d]) \cup Elements(ms)
    <3>1. inbox[d] \in Seq(Message)
      BY <1>3
    <3> QED
      BY <1>2, <3>1, ElementsOf
  <2>3. Elements(Append(queue[c], m)) = Elements(queue[c]) \cup {m}
    <3>1. queue[c] \in Seq(Message)
      BY <1>3
    <3> QED
      BY <1>2, <3>1, ElementsOf
  <2> QED
    BY <1>2, <2>1, <2>2, <2>3
<1>5. /\ \A n \in Elements(log) : Made(n.rid)
      /\ \A d \in Clients : \A n \in Elements(inbox[d]) \cup Elements(queue[d]) : Made(n.rid)
  BY DEF NamedInv, Named
<1>6. /\ sending' = [sending EXCEPT ![c] = @ \ {t}]
      /\ \/ Forward(c, ms) /\ queue' = queue
         \/ queue' = queue /\ inbox' = inbox /\ log' = log
         \/ queue' = [queue EXCEPT ![c] = Append(@, m)] /\ inbox' = inbox /\ log' = log
  BY <1>1 DEF Sent, net, ms
<1>7. sending'[c] \subseteq sending[c]
  BY <1>0, <1>6 DEF TypeOK
<1>8. CASE Forward(c, ms) /\ queue' = queue
  <2>1. log' = log \o ms /\ \A d \in Clients : inbox'[d] \in {inbox[d], inbox[d] \o ms}
    BY <1>0, <1>8 DEF Forward, TypeOK
  <2> QED
    BY <1>2, <1>4, <1>5, <1>7, <1>8, <2>1
<1>9. CASE queue' = queue /\ inbox' = inbox /\ log' = log
  BY <1>5, <1>7, <1>9
<1>10. CASE queue' = [queue EXCEPT ![c] = Append(@, m)] /\ inbox' = inbox /\ log' = log
  <2>1. queue'[c] = Append(queue[c], m)
    BY <1>0, <1>10 DEF TypeOK
  <2> QED
    BY <1>2, <1>4, <1>5, <1>7, <1>10, <2>1
<1> QED
  BY <1>6, <1>8, <1>9, <1>10

LEMMA NamedStep ==
    ASSUME MaxReloads = 0, IInv, NamedInv, [Next]_vars
    PROVE  NamedInv'
<1>0. TypeOK
  BY DEF IInv
<1>1. Made(None)
  BY NoneIsNoEph DEF Made, Rids
<1>2. ASSUME NEW c \in Clients, ClientStep(c) PROVE NamedInv'
  <2>1. /\ \A m \in Elements(log) : Made(m.rid)
        /\ \A d \in Clients : \A m \in Elements(inbox[d]) \cup Elements(queue[d]) : Made(m.rid)
        /\ \A p \in seen[c] : Made(p[1])
        /\ Made(slot[c].rid) /\ Made(rot[c].pend.rid)
        /\ \A t \in deriving[c] \cup sending[c] : Made(t.rid)
    BY DEF NamedInv, Named, Under
  <2>2. ASSUME NothingStored(c)
        PROVE  /\ \A m \in Elements(log') : Made(m.rid)
               /\ \A d \in Clients : \A m \in Elements(inbox'[d]) : Made(m.rid)
    BY <2>1, <2>2 DEF NothingStored
  <2>3. ASSUME ResetRotation(c) PROVE slot'[c].rid = None /\ rot'[c].pend.rid = None
    BY <1>0, <2>3 DEF ResetRotation, SetRot, Idle, NoSaved, TypeOK
  <2>4. ASSUME CompleteRotation(c) PROVE slot' = slot /\ rot'[c].pend.rid = None
    BY <1>0, <2>4 DEF CompleteRotation, SetRot, Idle, NoSaved, TypeOK
  <2>5. CASE Initiate(c)
    <3>1. NothingStored(c)
      BY <2>5, StoresNothing
    <3>2. /\ used[c] < MaxEph /\ MakeEph(c) /\ queue' = queue /\ seen' = seen
          /\ resolved' = resolved /\ deriving' = deriving
      BY <2>5 DEF Initiate
    <3>3. PICK n : n = NextEph(c)
      OBVIOUS
    <3>4. CASE sending' = sending /\ ResetRotation(c)
      BY <1>1, <2>1, <2>2, <2>3, <3>1, <3>2, <3>4, <1>2, NamedQuiet
    <3>5. CASE /\ SetRot(c, [isPending |-> TRUE, status |-> "REQUEST", cur |-> NextEph(c),
                             pend |-> NoSaved, priv |-> NextEph(c)])
               /\ SaveEphPrivateKey(c, NextEph(c), NextEph(c))
               /\ StartSend(c, "REQUEST", NextEph(c), NextEph(c), key[c], key[c])
      <4>1. slot'[c].rid = NextEph(c) /\ rot'[c].pend.rid = None
        BY <1>0, <3>5 DEF SaveEphPrivateKey, SetRot, NoSaved, TypeOK
      <4>2. \A t \in sending'[c] : t \in sending[c] \/ t.rid = NextEph(c)
        BY <1>0, <3>5 DEF StartSend, TypeOK
      <4>3. \A t \in deriving'[c] \cup sending'[c] : Made(t.rid) \/ t.rid = n
        BY <2>1, <3>2, <3>3, <4>2
      <4> QED
        BY <1>1, <1>2, <2>1, <2>2, <3>1, <3>2, <3>3, <4>1, <4>3, NamedKept
    <3> QED
      BY <2>5, <3>4, <3>5 DEF Initiate
  <2>6. CASE Accept(c)
    <3>1. NothingStored(c)
      BY <2>6, StoresNothing
    <3>2. /\ used[c] < MaxEph /\ MakeEph(c) /\ queue' = queue /\ seen' = seen
          /\ resolved' = resolved /\ sending' = sending /\ slot' = slot /\ rot' = rot
      BY <2>6 DEF Accept
    <3>3. \A t \in deriving'[c] : t \in deriving[c] \/ t.rid = rot[c].pend.rid
      BY <1>0, <2>6 DEF Accept, StartDerive, TypeOK
    <3> QED
      BY <1>2, <2>1, <2>2, <3>1, <3>2, <3>3, NamedQuiet
  <2>7. CASE AcceptExpired(c)
    <3>1. NothingStored(c)
      BY <2>7, StoresNothing
    <3>2. /\ used' = used /\ queue' = queue /\ seen' = seen /\ sending' = sending
          /\ deriving' = deriving /\ LoadMessages(c) /\ ResetRotation(c)
      BY <2>7 DEF AcceptExpired, counters
    <3> QED
      BY <1>1, <1>2, <2>1, <2>2, <2>3, <3>1, <3>2, NamedQuiet
  <2>8. CASE Reject(c)
    <3>1. NothingStored(c)
      BY <2>8, StoresNothing
    <3>2. /\ used' = used /\ queue' = queue /\ seen' = seen /\ deriving' = deriving
          /\ \/ resolved' = resolved /\ rot' = rot /\ slot' = slot
             \/ LoadMessages(c) /\ ResetRotation(c)
      BY <2>8 DEF Reject, counters
    <3>3. \A t \in sending'[c] : t \in sending[c] \/ t.rid = rot[c].pend.rid
      BY <1>0, <2>8 DEF Reject, StartSend, TypeOK
    <3> QED
      BY <1>1, <1>2, <2>1, <2>2, <2>3, <3>1, <3>2, <3>3, NamedQuiet
  <2>9. CASE SendText(c)
    <3>1. NothingStored(c)
      BY <2>9, StoresNothing
    <3>2. /\ used' = used /\ queue' = queue /\ seen' = seen /\ deriving' = deriving
          /\ resolved' = resolved /\ rot' = rot /\ slot' = slot
      BY <2>9 DEF SendText
    <3>3. \A t \in sending'[c] : t \in sending[c] \/ t.rid = None
      BY <1>0, <2>9 DEF SendText, StartSend, TypeOK
    <3> QED
      BY <1>1, <1>2, <2>1, <2>2, <3>1, <3>2, <3>3, NamedQuiet
  <2>10. CASE Handle(c)
    <3>0. PICK m : m = Head(inbox[c])
      OBVIOUS
    <3>1. NothingStored(c)
      BY <2>10, StoresNothing
    <3>2. used' = used /\ queue' = queue /\ inbox[c] # <<>>
      BY <2>10 DEF Handle, ShowOrIgnore, ProcessIncomingRequest, ProcessAccept, ProcessConfirm,
         ProcessComplete, ProcessReject, Taking, page, counters
    <3>3. Made(m.rid)
      <4>1. m \in Elements(inbox[c])
        BY <1>0, <3>0, <3>2, ElementsOf DEF TypeOK
      <4> QED
        BY <2>1, <4>1
    <3>4. ASSUME NEW type, Taking(c, type) PROVE \A p \in seen'[c] : Made(p[1])
      <4>1. seen'[c] = seen[c] \cup {<<m.rid, type>>}
        BY <1>0, <3>0, <3>4 DEF Taking, TypeOK
      <4> QED
        BY <2>1, <3>3, <4>1
    <3>5. CASE ShowOrIgnore(c)
      <4>1. /\ seen' = seen /\ resolved' = resolved /\ rot' = rot /\ slot' = slot
            /\ deriving' = deriving /\ sending' = sending
        BY <3>5 DEF ShowOrIgnore, page
      <4> QED
        BY <1>2, <2>1, <2>2, <3>1, <3>2, <4>1, NamedQuiet
    <3>6. CASE ProcessIncomingRequest(c)
      <4>1. /\ Taking(c, "REQUEST") /\ resolved' = resolved /\ slot' = slot
            /\ deriving' = deriving /\ sending' = sending
        BY <3>6 DEF ProcessIncomingRequest
      <4>2. rot'[c].pend.rid \in {m.rid, rot[c].pend.rid}
        BY <1>0, <3>0, <3>6 DEF ProcessIncomingRequest, SetRot, TypeOK
      <4> QED
        BY <1>2, <2>1, <2>2, <3>1, <3>2, <3>3, <3>4, <4>1, <4>2, NamedQuiet
    <3>7. CASE ProcessAccept(c)
      <4>1. Taking(c, "ACCEPT") /\ resolved' = resolved /\ slot' = slot /\ sending' = sending
        BY <3>7 DEF ProcessAccept
      <4>2. rot'[c].pend = rot[c].pend
        <5>1. rot' = rot \/ SetRot(c, Adopt(c, m.rid, "REQUEST"))
          BY <3>0, <3>7 DEF ProcessAccept
        <5> QED
          BY <1>0, <5>1, AdoptKeepsRequest DEF SetRot, TypeOK
      <4>3. \A t \in deriving'[c] : t \in deriving[c] \/ t.rid = m.rid
        BY <1>0, <3>0, <3>7 DEF ProcessAccept, StartDerive, TypeOK
      <4> QED
        BY <1>2, <2>1, <2>2, <3>1, <3>2, <3>3, <3>4, <4>1, <4>2, <4>3, NamedQuiet
    <3>8. CASE ProcessConfirm(c)
      <4>1. /\ Taking(c, "CONFIRM") /\ slot' = slot /\ deriving' = deriving
            /\ resolved' = resolved \/ LoadMessages(c)
        BY <3>8 DEF ProcessConfirm, CompleteRotation
      <4>2. rot'[c].pend.rid \in {None, rot[c].pend.rid}
        <5>1. CASE rot' = rot
          BY <5>1
        <5>2. CASE CompleteRotation(c)
          BY <2>4, <5>2
        <5>3. CASE SetRot(c, [Adopt(c, m.rid, "ACCEPT") EXCEPT !.status = "COMPLETE"])
          BY <1>0, <5>3, AdoptKeepsRequest DEF SetRot, TypeOK
        <5> QED
          BY <3>0, <3>8, <5>1, <5>2, <5>3 DEF ProcessConfirm
      <4>3. \A t \in sending'[c] : t \in sending[c] \/ t.rid = m.rid
        BY <1>0, <3>0, <3>8 DEF ProcessConfirm, StartSend, TypeOK
      <4> QED
        BY <1>1, <1>2, <2>1, <2>2, <3>1, <3>2, <3>3, <3>4, <4>1, <4>2, <4>3, NamedQuiet
    <3>9. CASE ProcessComplete(c)
      <4>1. /\ Taking(c, "COMPLETE") /\ CompleteRotation(c) /\ LoadMessages(c)
            /\ deriving' = deriving /\ sending' = sending
        BY <3>9 DEF ProcessComplete
      <4> QED
        BY <1>1, <1>2, <2>1, <2>2, <2>4, <3>1, <3>2, <3>4, <4>1, NamedQuiet
    <3>10. CASE ProcessReject(c)
      <4>1. /\ Taking(c, "REJECT") /\ ResetRotation(c) /\ LoadMessages(c)
            /\ deriving' = deriving /\ sending' = sending
        BY <3>10 DEF ProcessReject
      <4> QED
        BY <1>1, <1>2, <2>1, <2>2, <2>3, <3>1, <3>2, <3>4, <4>1, NamedQuiet
    <3> QED
      BY <2>10, <3>5, <3>6, <3>7, <3>8, <3>9, <3>10 DEF Handle
  <2>11. CASE AcceptDerived(c)
    <3>1. NothingStored(c)
      BY <2>11, StoresNothing
    <3>2. PICK t \in deriving[c] :
              /\ deriving' = [deriving EXCEPT ![c] = @ \ {t}]
              /\ resolved' = resolved \/ LoadMessages(c)
              /\ \/ ResetRotation(c) /\ sending' = sending
                 \/ /\ SaveEphPrivateKey(c, t.rid, t.eph)
                    /\ SetRot(c, [isPending |-> TRUE, status |-> "ACCEPT", cur |-> t.rid,
                                  pend |-> IF connected[c] THEN rot[c].pend ELSE NoSaved,
                                  priv |-> t.eph])
                    /\ \/ StartSend(c, "ACCEPT", t.rid, t.eph, key[c], t.newKey)
                       \/ sending' = sending
      BY <2>11 DEF AcceptDerived
    <3>3. used' = used /\ queue' = queue /\ seen' = seen
      BY <2>11 DEF AcceptDerived, counters
    <3>4. slot'[c].rid \in {None, t.rid} /\ rot'[c].pend.rid \in {None, rot[c].pend.rid}
      BY <1>0, <2>3, <3>2 DEF SaveEphPrivateKey, SetRot, NoSaved, TypeOK
    <3>5. /\ deriving'[c] \subseteq deriving[c]
          /\ \A u \in sending'[c] : u \in sending[c] \/ u.rid = t.rid
      BY <1>0, <3>2 DEF StartSend, TypeOK
    <3> QED
      BY <1>1, <1>2, <2>1, <2>2, <3>1, <3>2, <3>3, <3>4, <3>5, NamedQuiet
  <2>12. CASE ConfirmDerived(c)
    <3>1. NothingStored(c)
      BY <2>12, StoresNothing
    <3>2. PICK t \in deriving[c] :
              /\ deriving' = [deriving EXCEPT ![c] = @ \ {t}]
              /\ SetRot(c, [rot[c] EXCEPT !.status = "CONFIRM"])
              /\ \/ StartSend(c, "CONFIRM", t.rid, None, t.newKey, t.newKey)
                 \/ sending' = sending
      BY <2>12 DEF ConfirmDerived
    <3>3. used' = used /\ queue' = queue /\ seen' = seen /\ resolved' = resolved /\ slot' = slot
      BY <2>12 DEF ConfirmDerived, counters
    <3>4. rot'[c].pend = rot[c].pend
      BY <1>0, <3>2 DEF SetRot, TypeOK, Rotation
    <3>5. /\ deriving'[c] \subseteq deriving[c]
          /\ \A u \in sending'[c] : u \in sending[c] \/ u.rid = t.rid
      BY <1>0, <3>2 DEF StartSend, TypeOK
    <3> QED
      BY <1>1, <1>2, <2>1, <2>2, <3>1, <3>2, <3>3, <3>4, <3>5, NamedQuiet
  <2>13. CASE RequestOrConfirmSent(c) \/ AcceptSent(c) \/ RejectSent(c) \/ CompleteSent(c)
    <3>1. PICK t \in sending[c] : Sent(c, t)
      BY <2>13 DEF RequestOrConfirmSent, AcceptSent, RejectSent, CompleteSent
    <3>2. /\ used' = used /\ seen' = seen /\ deriving' = deriving
          /\ resolved' = resolved \/ LoadMessages(c)
          /\ slot' = slot \/ ResetRotation(c)
      BY <2>13 DEF RequestOrConfirmSent, AcceptSent, RejectSent, CompleteSent, CompleteRotation,
         counters
    <3>3. rot'[c].pend.rid \in {None, rot[c].pend.rid}
      BY <1>0, <2>13 DEF RequestOrConfirmSent, AcceptSent, RejectSent, CompleteSent,
         CompleteRotation, ResetRotation, SetRot, Idle, NoSaved, TypeOK, Rotation
    <3>4. /\ \A m \in Elements(log') : Made(m.rid)
          /\ \A d \in Clients : \A m \in Elements(inbox'[d]) : Made(m.rid)
          /\ \A m \in Elements(queue'[c]) : Made(m.rid)
          /\ sending'[c] \subseteq sending[c]
      BY <3>1, NamedSent
    <3> QED
      BY <1>1, <1>2, <2>1, <2>3, <3>2, <3>3, <3>4, NamedQuiet
  <2>14. CASE TextSent(c)
    <3>1. PICK t \in sending[c] :
              \/ Sent(c, t)
              \/ /\ sending' = [sending EXCEPT ![c] = @ \ {t}]
                 /\ UNCHANGED <<queue, net>>
      BY <2>14 DEF TextSent
    <3>2. /\ used' = used /\ seen' = seen /\ deriving' = deriving /\ rot' = rot
          /\ resolved' = resolved /\ slot' = slot
      BY <2>14 DEF TextSent, counters
    <3>3. CASE Sent(c, t)
      BY <1>2, <2>1, <3>2, <3>3, NamedSent, NamedQuiet
    <3>4. CASE /\ sending' = [sending EXCEPT ![c] = @ \ {t}]
               /\ UNCHANGED <<queue, net>>
      <4>1. sending'[c] \subseteq sending[c] /\ log' = log /\ inbox' = inbox /\ queue' = queue
        BY <1>0, <3>4 DEF net, TypeOK
      <4> QED
        BY <1>2, <2>1, <3>2, <4>1, NamedQuiet
    <3> QED
      BY <3>1, <3>3, <3>4
  <2>15. CASE Cut(c)
    <3>1. NothingStored(c)
      BY <2>15, StoresNothing
    <3>2. /\ used' = used /\ seen' = seen /\ deriving' = deriving /\ rot' = rot
          /\ resolved' = resolved /\ slot' = slot /\ sending' = sending /\ queue' = queue
      BY <2>15 DEF Cut, page
    <3> QED
      BY <1>2, <2>1, <2>2, <3>1, <3>2, NamedQuiet
  <2>16. CASE Reconnect(c)
    <3>1. /\ used' = used /\ seen' = seen /\ deriving' = deriving /\ rot' = rot
          /\ resolved' = resolved /\ slot' = slot /\ sending' = sending
          /\ queue' = [queue EXCEPT ![c] = <<>>] /\ Forward(c, queue[c])
      BY <2>16 DEF Reconnect, counters
    <3>2. Elements(queue'[c]) = {}
      BY <1>0, <3>1 DEF TypeOK, Elements
    <3>3. /\ Elements(log \o queue[c]) = Elements(log) \cup Elements(queue[c])
          /\ \A d \in Clients : Elements(inbox[d] \o queue[c]) = Elements(inbox[d]) \cup Elements(queue[c])
      BY <1>0, ElementsOf DEF TypeOK
    <3>4. log' = log \o queue[c] /\ \A d \in Clients : inbox'[d] \in {inbox[d], inbox[d] \o queue[c]}
      BY <1>0, <3>1 DEF Forward, TypeOK
    <3>5. /\ \A m \in Elements(log') : Made(m.rid)
          /\ \A d \in Clients : \A m \in Elements(inbox'[d]) : Made(m.rid)
      BY <2>1, <3>3, <3>4
    <3> QED
      BY <1>2, <2>1, <3>1, <3>2, <3>5, NamedQuiet
  <2>17. ~Reload(c)
    BY NoReloads
  <2> QED
    BY <1>2, <2>5, <2>6, <2>7, <2>8, <2>9, <2>10, <2>11, <2>12, <2>13, <2>14, <2>15, <2>16, <2>17
    DEF ClientStep, Resume
<1>3. ASSUME UNCHANGED <<page, slot, inbox, log, used>> PROVE NamedInv'
  <2>1. \A r : Made(r)' <=> Made(r)
    BY <1>3 DEF Made
  <2>2. \A c \in Clients : Under(c)' = Under(c)
    BY <1>3 DEF Under, page
  <2>3. \A c \in Clients : Named(c)'
    BY <1>3, <2>1, <2>2 DEF Named, NamedInv, page
  <2> QED
    BY <1>3, <2>1, <2>3 DEF NamedInv
<1>4. CASE \E r \in Rids : Expire(r)
  BY <1>3, <1>4 DEF Expire, net, counters
<1>5. CASE UNCHANGED vars
  BY <1>3, <1>5 DEF vars, net, counters
<1> QED
  BY <1>2, <1>4, <1>5 DEF Next

-----------------------------------------------------------------------------
(* Without a fault no rotation hangs: what is in play finds the page it is for *)
(* ready, and holding the key it is encrypted with.                           *)

\* The system messages that a page encrypts, and those that are on their way to it.
Saying(c) == {t \in sending[c] : t.type # "TEXT"}
Coming(c) == {m \in Elements(inbox[c]) : m.type # "TEXT"}

\* Nothing of a rotation is in play.
Still(c) == deriving[c] = {} /\ Saying(c) = {} /\ Coming(c) = {}

Unread(c, r, type) == <<r, type>> \notin seen[c]

\* The initiator a is ready for an answer to its request r, and b for its CONFIRM.
Awaits(a, r) == rot[a].status = "REQUEST" /\ rot[a].cur = r
Unanswered(a, b, r) ==
    /\ Awaits(a, r) /\ r \notin resolved[b]
    /\ \A type \in {"ACCEPT", "REJECT", "COMPLETE"} : Unread(a, r, type)
    /\ Unread(b, r, "CONFIRM")

\* b has not heard of r, and has nothing else to do.
Untold(b, r) == Unread(b, r, "REQUEST") /\ slot[b].rid # r /\ rot[b].status = "NONE"

\* b has accepted r and waits for the CONFIRM.
Accepted(a, b, r) ==
    /\ rot[b].status = "ACCEPT" /\ rot[b].cur = r
    /\ Unread(b, r, "CONFIRM") /\ Unread(a, r, "COMPLETE")

\* What is in play finds the page it is for ready.
InitiatorHeard(a, b) ==
    \A x \in deriving[a] \cup Saying(a) \cup Coming(b) :
        /\ x.type = "REQUEST" => Unanswered(a, b, x.rid) /\ Untold(b, x.rid)
        /\ x.type = "CONFIRM" => Accepted(a, b, x.rid)
ResponderReady(a, b) ==
    /\ Asks(b) => Unanswered(a, b, rot[b].pend.rid)
    /\ \A t \in Saying(b) :
           /\ t.type = "ACCEPT" => rot[b].status = "ACCEPT" /\ rot[b].cur = t.rid
           /\ t.type = "COMPLETE" => Unread(a, t.rid, "COMPLETE")
ResponderHeard(a, b) ==
    \A m \in Coming(a) :
        /\ Unread(a, m.rid, m.type)
        /\ m.type = "ACCEPT" => Awaits(a, m.rid) /\ Accepted(a, b, m.rid)
        /\ m.type \in {"REJECT", "COMPLETE"} => rot[b].status = "NONE"
InTheirKey ==
    \A c \in Clients : /\ \A t \in Saying(c) : t.enc = key[Peer(c)]
                       /\ \A m \in Coming(c) : m.enc = key[c]
NobodyWaits(a, b) ==
    Still(a) /\ Still(b) /\ ~Asks(b) => rot[a].status = "NONE" /\ rot[b].status = "NONE"

Online == \A c \in Clients : connected[c] /\ queue[c] = <<>>

Track(a, b) ==
    /\ Online
    /\ InitiatorHeard(a, b) /\ ResponderReady(a, b) /\ ResponderHeard(a, b)
    /\ InTheirKey
    /\ NobodyWaits(a, b)

LEMMA ClearComing ==
    ASSUME NEW c, Clear(inbox[Peer(c)])
    PROVE  Coming(Peer(c)) = {}
BY DEF Clear, Coming, Elements

LEMMA StillPage ==
    ASSUME NEW a \in Clients, NEW b \in Clients, b = Peer(a), Mute(a), Mute(b)
    PROVE  Still(a) /\ Still(b)
<1>1. a = Peer(b)
  BY PeerIsClient
<1>2. Coming(a) = {} /\ Coming(b) = {}
  BY <1>1, ClearComing DEF Mute, NoMail
<1> QED
  BY <1>2 DEF Still, Mute, Silent, Saying

\* A handler of a system message is all that is in play.
LEMMA AloneAtWork ==
    ASSUME IInv, NEW a \in Clients, NEW b \in Clients, b = Peer(a), Course(a, b),
           NEW c \in Clients, NEW t \in deriving[c] \cup Saying(c)
    PROVE  /\ t \in deriving[c] => deriving[c] = {t} /\ Saying(c) = {}
           /\ t \in Saying(c) => deriving[c] = {} /\ Saying(c) = {t}
           /\ Coming(c) = {} /\ Still(Peer(c))
<1>0. t.type # "TEXT" /\ t \in deriving[c] \cup sending[c]
  <2>1. deriving[c] \subseteq Deriving
    BY DEF IInv, TypeOK
  <2>2. t \in deriving[c] => t.type # "TEXT"
    BY <2>1 DEF Deriving
  <2> QED
    BY <2>2 DEF Saying
<1>1. /\ t \in deriving[c] => Derives(c, t)
      /\ t \in sending[c] => Sends(c, t)
      /\ NoMail(c) /\ Mute(Peer(c))
  BY <1>0, TaskInPlay
<1>2. Peer(c) \in Clients /\ Peer(Peer(c)) = c
  BY PeerIsClient
<1>3. Coming(Peer(c)) = {} /\ Coming(c) = {}
  <2>1. Clear(inbox[Peer(c)]) /\ Clear(inbox[Peer(Peer(c))])
    BY <1>1 DEF Mute, NoMail
  <2> QED
    BY <1>2, <2>1, ClearComing
<1> QED
  BY <1>0, <1>1, <1>3 DEF Derives, Sends, Still, Mute, Silent, Saying

\* A system message that arrives is all that is in play.
LEMMA AloneOnItsWay ==
    ASSUME IInv, NEW a \in Clients, NEW b \in Clients, b = Peer(a), Course(a, b),
           NEW c \in Clients, inbox[c] # <<>>, Head(inbox[c]).type # "TEXT",
           inbox' = [inbox EXCEPT ![c] = Tail(@)], queue' = queue,
           NEW m, m = Head(inbox[c])
    PROVE  /\ m \in Coming(c)
           /\ \A d \in {a, b} : deriving[d] = {} /\ Saying(d) = {} /\ Coming(d)' = {}
           /\ ~Asks(a) /\ ~Asks(b)
           /\ c = b => m.type \in {"REQUEST", "CONFIRM"} /\ Same(a, b)
           /\ c = a => \/ m.type = "ACCEPT"
                       \/ (m.type \in {"REJECT", "COMPLETE"} /\ Same(a, b))
<1>1. /\ Silent(a) /\ Silent(b) /\ NoMail(a)' /\ NoMail(b)'
      /\ ~Asks(a) /\ ~Asks(b)
      /\ c = b => m.type \in {"REQUEST", "CONFIRM"} /\ Same(a, b)
      /\ c = a => (m.type = "ACCEPT" \/ (m.type \in {"REJECT", "COMPLETE"} /\ Same(a, b)))
  <2>1. Silent(a) /\ Silent(b)
    BY MailInPlay, Zenon
  <2>4. NoMail(a)' /\ NoMail(b)'
    BY MailInPlay, Zenon
  <2>5. ~Asks(a) /\ ~Asks(b)
    BY MailInPlay, Zenon
  <2>2. ASSUME c = b PROVE m.type \in {"REQUEST", "CONFIRM"} /\ Same(a, b)
    <3>1. m.type \in {"REQUEST", "CONFIRM"}
      BY <2>2, MailInPlay
    <3>2. Same(a, b)
      BY <2>2, MailInPlay
    <3> QED
      BY <3>1, <3>2
  <2>3. c = a => (m.type = "ACCEPT" \/ (m.type \in {"REJECT", "COMPLETE"} /\ Same(a, b)))
    BY MailInPlay, Zenon
  <2> QED
    BY <2>1, <2>2, <2>3, <2>4, <2>5
<1>2. m \in Coming(c)
  <2>1. inbox[c] \in Seq(Message)
    BY DEF IInv, TypeOK
  <2> QED
    BY <2>1, ElementsOf DEF Coming
<1>3. a = Peer(b)
  BY PeerIsClient
<1>4. Coming(a)' = {} /\ Coming(b)' = {}
  BY <1>1, <1>3 DEF NoMail, Clear, Coming, Elements
<1> QED
  BY <1>1, <1>2, <1>4 DEF Silent, Saying

\* A step that concerns no rotation.
LEMMA TrackKept ==
    ASSUME NEW a \in Clients, NEW b \in Clients, b = Peer(a), Track(a, b),
           \A c \in Clients : /\ deriving'[c] = deriving[c] /\ Saying(c)' = Saying(c)
                              /\ Coming(c)' = Coming(c),
           rot' = rot, key' = key, seen' = seen, resolved' = resolved, slot' = slot,
           queue' = queue, connected' = connected
    PROVE  Track(a, b)'
<1>1. \A c \in {a, b} : /\ deriving[c]' = deriving[c] /\ Saying(c)' = Saying(c)
                        /\ Coming(c)' = Coming(c)
  OBVIOUS
<1>2. \A r : /\ Unanswered(a, b, r)' <=> Unanswered(a, b, r)
             /\ Untold(b, r)' <=> Untold(b, r)
             /\ Accepted(a, b, r)' <=> Accepted(a, b, r)
             /\ Awaits(a, r)' <=> Awaits(a, r)
             /\ \A c, type : Unread(c, r, type)' <=> Unread(c, r, type)
  BY DEF Unanswered, Untold, Accepted, Awaits, Unread
<1>3. InitiatorHeard(a, b)'
  BY <1>1, <1>2 DEF Track, InitiatorHeard
<1>4. ResponderReady(a, b)'
  BY <1>1, <1>2 DEF Track, ResponderReady, Asks
<1>5. ResponderHeard(a, b)'
  BY <1>1, <1>2 DEF Track, ResponderHeard
<1>6. InTheirKey' /\ Online'
  BY DEF Track, InTheirKey, Online
<1>7. NobodyWaits(a, b)'
  BY <1>1 DEF Track, NobodyWaits, Still, Asks
<1> QED
  BY <1>3, <1>4, <1>5, <1>6, <1>7 DEF Track

\* A request's pair that has yet to be made is in nobody's memory.
LEMMA NextIsNew ==
    ASSUME IInv, NamedInv, NEW a \in Clients, used[a] < MaxEph, NEW r, r = NextEph(a)
    PROVE  /\ \A c \in Clients : /\ \A type : Unread(c, r, type)
                                 /\ r \notin resolved[c] /\ slot[c].rid # r
           /\ r # None
<1>1. r \in Rids /\ r # None
  BY NextEphType, EphOwners DEF IInv
<1>2. ~Made(r)
  <2>1. r[1] = a /\ r[2] = used[a] + 1 /\ used[a] \in Nat
    BY BoundsAssumption DEF NextEph, IInv, TypeOK
  <2> QED
    BY <1>1, <2>1 DEF Made
<1>3. ASSUME NEW c \in Clients PROVE \A type : Unread(c, r, type)
  <2>1. \A p \in seen[c] : Made(p[1])
    BY DEF NamedInv, Named
  <2> QED
    BY <1>2, <2>1 DEF Unread
<1> QED
  BY <1>1, <1>2, <1>3 DEF NamedInv, Named

\* Without a fault the message of a handler is on its way.
LEMMA SentOnline ==
    ASSUME IInv, Online, NEW c \in Clients, NEW t \in sending[c], Sent(c, t), drops' = drops
    PROVE  /\ queue' = queue /\ \A d \in Clients : d # c => sending'[d] = sending[d]
           /\ Coming(c)' = Coming(c)
           /\ t.type = "TEXT" => Saying(c)' = Saying(c) /\ Coming(Peer(c))' = Coming(Peer(c))
           /\ t.type # "TEXT" =>
                  /\ Saying(c)' = Saying(c) \ {t}
                  /\ \E m : /\ m.type = t.type /\ m.rid = t.rid /\ m.enc = t.enc
                            /\ Coming(Peer(c))' = Coming(Peer(c)) \cup {m}
<1>0. TypeOK
  BY DEF IInv
<1>1. PICK m : m = [type |-> t.type, from |-> c, rid |-> t.rid, eph |-> t.eph,
                    enc |-> t.enc, label |-> key[c]]
  OBVIOUS
<1> DEFINE ms == <<m>>
<1>2. /\ m \in Message /\ m.type = t.type /\ m.rid = t.rid /\ m.enc = t.enc
      /\ ms \in Seq(Message) /\ Elements(ms) = {m}
  <2>1. t \in Sending /\ key[c] \in SessionKey
    BY <1>0 DEF TypeOK
  <2> QED
    BY <1>1, <2>1 DEF Sending, Message, Elements
<1>3. /\ sending' = [sending EXCEPT ![c] = @ \ {t}] /\ queue' = queue
      /\ Forward(c, ms)
  <2>1. drops \in Nat
    BY <1>0, BoundsAssumption DEF TypeOK
  <2> QED
    BY <1>1, <2>1 DEF Sent, Online
<1> HIDE DEF ms
<1>4. Peer(c) \in Clients /\ Peer(c) # c /\ inbox[Peer(c)] \in Seq(Message)
  BY <1>0, PeerIsClient DEF TypeOK
<1>5. inbox'[c] = inbox[c] /\ inbox'[Peer(c)] = inbox[Peer(c)] \o ms
  BY <1>0, <1>3, <1>4 DEF Forward, TypeOK, Online
<1>6. Elements(inbox[Peer(c)] \o ms) = Elements(inbox[Peer(c)]) \cup Elements(ms)
  BY <1>2, <1>4, ElementsOf
<1>7. Elements(inbox[Peer(c)])' = Elements(inbox[Peer(c)]) \cup {m}
  BY <1>2, <1>5, <1>6
<1>8. Coming(c)' = Coming(c)
  BY <1>5 DEF Coming
<1>9. sending'[c] = sending[c] \ {t} /\ \A d \in Clients : d # c => sending'[d] = sending[d]
  BY <1>0, <1>3 DEF TypeOK
<1>10. CASE t.type = "TEXT"
  <2>1. Coming(Peer(c))' = Coming(Peer(c))
    BY <1>2, <1>7, <1>10 DEF Coming
  <2>2. Saying(c)' = Saying(c)
    BY <1>9, <1>10 DEF Saying
  <2> QED
    BY <1>3, <1>8, <1>9, <1>10, <2>1, <2>2
<1>11. CASE t.type # "TEXT"
  <2>1. Coming(Peer(c))' = Coming(Peer(c)) \cup {m}
    BY <1>2, <1>7, <1>11 DEF Coming
  <2>2. Saying(c)' = Saying(c) \ {t}
    BY <1>9 DEF Saying
  <2> QED
    BY <1>2, <1>3, <1>8, <1>9, <1>11, <2>1, <2>2
<1> QED
  BY <1>10, <1>11

\* The initiator's message, or its handler, is what is in play.
LEMMA TrackSpeaks ==
    ASSUME NEW a \in Clients, NEW b \in Clients, b = Peer(a), Online',
           deriving'[b] = {}, Saying(b)' = {}, Coming(a)' = {}, ~Asks(b)',
           NEW x, deriving'[a] \cup Saying(a)' \cup Coming(b)' = {x},
           x \in Saying(a)' \cup Coming(b)' => x.enc = key'[b],
           x.type = "REQUEST" => Unanswered(a, b, x.rid)' /\ Untold(b, x.rid)',
           x.type = "CONFIRM" => Accepted(a, b, x.rid)'
    PROVE  Track(a, b)'
<1>1. a = Peer(b) /\ Clients = {a, b}
  BY PeerIsClient DEF Clients, Peer
<1>2. InitiatorHeard(a, b)'
  BY DEF InitiatorHeard
<1>3. ResponderReady(a, b)' /\ ResponderHeard(a, b)'
  BY DEF ResponderReady, ResponderHeard
<1>4. InTheirKey'
  <2>1. ASSUME NEW c \in Clients
        PROVE  /\ \A t \in Saying(c)' : t.enc = key'[Peer(c)]
               /\ \A m \in Coming(c)' : m.enc = key'[c]
    BY <1>1
  <2> QED
    BY <2>1 DEF InTheirKey
<1>5. NobodyWaits(a, b)'
  BY DEF NobodyWaits, Still
<1> QED
  BY <1>2, <1>3, <1>4, <1>5 DEF Track

\* What b does, or has sent, is; or nothing.
LEMMA TrackAnswers ==
    ASSUME NEW a \in Clients, NEW b \in Clients, b = Peer(a), Online',
           deriving'[a] = {}, Saying(a)' = {}, Coming(b)' = {},
           ResponderReady(a, b)', ResponderHeard(a, b)',
           \A x \in Saying(b)' \cup Coming(a)' : x.enc = key'[a],
           NobodyWaits(a, b)'
    PROVE  Track(a, b)'
<1>1. a = Peer(b) /\ Clients = {a, b}
  BY PeerIsClient DEF Clients, Peer
<1>2. InitiatorHeard(a, b)'
  BY DEF InitiatorHeard
<1>4. InTheirKey'
  <2>1. ASSUME NEW c \in Clients
        PROVE  /\ \A t \in Saying(c)' : t.enc = key'[Peer(c)]
               /\ \A m \in Coming(c)' : m.enc = key'[c]
    BY <1>1
  <2> QED
    BY <2>1 DEF InTheirKey
<1> QED
  BY <1>2, <1>4 DEF Track

\* Nothing goes wrong in a step that leaves the faults as they were.
LEMMA FaultlessBefore ==
    ASSUME IInv, [Next]_vars, Faultless'
    PROVE  Faultless /\ drops' = drops /\ cuts' = cuts /\ expired' = expired
<1>1. drops \in Nat /\ cuts \in Nat
  BY BoundsAssumption DEF IInv, TypeOK
<1>2. drops' = drops \/ drops' = drops + 1
  <2>1. ASSUME NEW c \in Clients, ClientStep(c) PROVE drops' = drops \/ drops' = drops + 1
    BY <2>1 DEF ClientStep, Initiate, Accept, AcceptExpired, Reject, SendText, Handle, ShowOrIgnore,
       ProcessIncomingRequest, ProcessAccept, ProcessConfirm, ProcessComplete, ProcessReject,
       Resume, RequestOrConfirmSent, AcceptDerived, AcceptSent, RejectSent, ConfirmDerived,
       CompleteSent, TextSent, Sent, Reload, ReloadIdle, ReloadToRequest, ReloadAfterOwnAccept,
       ReloadAfterConfirm, LoadPage, Cut, Reconnect, net
  <2> QED
    BY <2>1 DEF Next, Expire, vars, net
<1>3. cuts' = cuts \/ cuts' = cuts + 1
  <2>1. ASSUME NEW c \in Clients, ClientStep(c) PROVE cuts' = cuts \/ cuts' = cuts + 1
    BY <2>1 DEF ClientStep, Initiate, Accept, AcceptExpired, Reject, SendText, Handle, ShowOrIgnore,
       ProcessIncomingRequest, ProcessAccept, ProcessConfirm, ProcessComplete, ProcessReject,
       Resume, RequestOrConfirmSent, AcceptDerived, AcceptSent, RejectSent, ConfirmDerived,
       CompleteSent, TextSent, Reload, ReloadIdle, ReloadToRequest, ReloadAfterOwnAccept,
       ReloadAfterConfirm, LoadPage, Cut, Reconnect, counters
  <2> QED
    BY <2>1 DEF Next, Expire, vars, counters
<1>4. expired \subseteq expired'
  <2>1. ASSUME NEW c \in Clients, ClientStep(c) PROVE expired' = expired
    BY <2>1 DEF ClientStep, Initiate, Accept, AcceptExpired, Reject, SendText, Handle, ShowOrIgnore,
       ProcessIncomingRequest, ProcessAccept, ProcessConfirm, ProcessComplete, ProcessReject,
       Resume, RequestOrConfirmSent, AcceptDerived, AcceptSent, RejectSent, ConfirmDerived,
       CompleteSent, TextSent, Reload, ReloadIdle, ReloadToRequest, ReloadAfterOwnAccept,
       ReloadAfterConfirm, LoadPage, Cut, Reconnect
  <2> QED
    BY <2>1 DEF Next, Expire, vars
<1>5. drops' = 0 /\ cuts' = 0 /\ expired' = {}
  BY DEF Faultless
<1> QED
  BY <1>1, <1>2, <1>3, <1>4, <1>5 DEF Faultless

\* The initiator's user begins a rotation.
LEMMA TrackBegins ==
    ASSUME IInv, NamedInv, NEW a \in Clients, NEW b \in Clients, b = Peer(a), Course(a, b),
           Roles(a, b), Track(a, b), Initiate(a)
    PROVE  Track(a, b)'
<1>0. TypeOK
  BY DEF IInv
<1>1. a = Peer(b) /\ a # b
  BY PeerIsClient
<1>2. /\ used[a] < MaxEph /\ ~rot[a].isPending
      /\ deriving' = deriving /\ key' = key /\ seen' = seen /\ resolved' = resolved
      /\ queue' = queue /\ inbox' = inbox /\ connected' = connected
  BY DEF Initiate, net
<1>3. ~Busy(a)
  BY <1>2 DEF Busy
<1>4. Settled(a, b) /\ Same(a, b)
  BY <1>3 DEF Course, Settled, Shown, InitiatorSpeaks, ResponderSpeaks
<1>5. Still(a) /\ Still(b) /\ ~Asks(b)
  BY <1>4, StillPage DEF Settled
<1>6. rot[b].status = "NONE" /\ connected[a]
  BY <1>5 DEF Track, NobodyWaits, Online
<1>7. PICK r : r = NextEph(a)
  OBVIOUS
<1>8. PICK t : t = [type |-> "REQUEST", rid |-> r, eph |-> r, enc |-> key[a], newKey |-> key[a]]
  OBVIOUS
<1>9. /\ SetRot(a, [isPending |-> TRUE, status |-> "REQUEST", cur |-> r,
                    pend |-> NoSaved, priv |-> r])
      /\ SaveEphPrivateKey(a, r, r)
      /\ sending' = [sending EXCEPT ![a] = @ \cup {t}]
  BY <1>6, <1>7, <1>8 DEF Initiate, StartSend
<1>10. /\ rot'[a].status = "REQUEST" /\ rot'[a].cur = r /\ rot'[b] = rot[b]
       /\ slot'[b] = slot[b]
       /\ sending'[a] = sending[a] \cup {t} /\ sending'[b] = sending[b]
  BY <1>0, <1>1, <1>9 DEF SetRot, SaveEphPrivateKey, TypeOK
<1>11. /\ t.type = "REQUEST" /\ t.rid = r /\ t.enc = key[b]
  BY <1>4, <1>8 DEF Same
<1>12. /\ deriving'[a] = {} /\ deriving'[b] = {} /\ Saying(a)' = {t} /\ Saying(b)' = {}
       /\ Coming(a)' = {} /\ Coming(b)' = {} /\ ~Asks(b)'
  BY <1>2, <1>5, <1>10, <1>11 DEF Still, Saying, Coming, Asks
<1>13. Unanswered(a, b, r)' /\ Untold(b, r)'
  BY <1>2, <1>6, <1>7, <1>10, NextIsNew DEF Unanswered, Untold, Awaits, Unread
<1>14. Online'
  BY <1>2 DEF Track, Online
<1> QED
  BY <1>2, <1>11, <1>12, <1>13, <1>14, TrackSpeaks

\* The other user answers, or a user writes.
LEMMA TrackButtons ==
    ASSUME IInv, NEW a \in Clients, NEW b \in Clients, b = Peer(a), Course(a, b),
           Track(a, b), Faultless, NEW c \in Clients,
           Accept(c) \/ AcceptExpired(c) \/ Reject(c) \/ SendText(c)
    PROVE  Track(a, b)'
<1>0. TypeOK
  BY DEF IInv
<1>1. a = Peer(b) /\ a # b /\ connected[c]
  BY PeerIsClient DEF Track, Online
<1>2. /\ key' = key /\ seen' = seen /\ queue' = queue /\ inbox' = inbox
      /\ connected' = connected
  BY DEF Accept, AcceptExpired, Reject, SendText, net
<1>3. Online'
  BY <1>2 DEF Track, Online
<1>4. CASE SendText(c)
  <2>1. /\ deriving' = deriving /\ rot' = rot /\ resolved' = resolved /\ slot' = slot
    BY <1>4 DEF SendText
  <2>2. PICK t : t.type = "TEXT" /\ sending' = [sending EXCEPT ![c] = @ \cup {t}]
    BY <1>4 DEF SendText, StartSend
  <2>3. \A d \in Clients : Saying(d)' = Saying(d) /\ Coming(d)' = Coming(d)
    BY <1>0, <1>2, <2>2 DEF Saying, Coming, TypeOK
  <2> QED
    BY <1>2, <2>1, <2>3, TrackKept
<1>5. ASSUME CanAnswer(c)
      PROVE  /\ c = b /\ Asks(b) /\ Still(a) /\ Still(b)
             /\ Unanswered(a, b, rot[b].pend.rid)
  BY <1>5, AnswersShown, StillPage DEF Shown, Track, ResponderReady
<1>6. CASE Accept(c)
  <2>1. /\ CanAnswer(c) /\ rot' = rot /\ sending' = sending /\ resolved' = resolved
        /\ \A d \in Clients : d # c => deriving'[d] = deriving[d]
    BY <1>0, <1>6 DEF Accept, StartDerive, TypeOK
  <2>2. deriving'[b] # {}
    BY <1>0, <1>5, <1>6, <2>1 DEF Accept, StartDerive, TypeOK
  <2>3. /\ deriving'[a] = {} /\ Saying(a)' = {} /\ Saying(b)' = {}
        /\ Coming(a)' = {} /\ Coming(b)' = {}
    BY <1>1, <1>2, <1>5, <2>1 DEF Still, Saying, Coming
  <2>4. ResponderReady(a, b)'
    <3>1. Unanswered(a, b, rot[b].pend.rid)'
      BY <1>2, <1>5, <2>1 DEF Unanswered, Awaits, Unread
    <3> QED
      BY <2>3, <3>1 DEF ResponderReady
  <2>5. ResponderHeard(a, b)' /\ NobodyWaits(a, b)'
    BY <2>2, <2>3 DEF ResponderHeard, NobodyWaits, Still
  <2> QED
    BY <1>3, <2>3, <2>4, <2>5, TrackAnswers
<1>7. CASE Reject(c)
  <2>0. PICK t : t = [type |-> "REJECT", rid |-> rot[c].pend.rid, eph |-> None,
                      enc |-> key[c], newKey |-> key[c]]
    OBVIOUS
  <2>1. /\ CanAnswer(c) /\ rot' = rot /\ deriving' = deriving /\ resolved' = resolved
        /\ sending' = [sending EXCEPT ![c] = @ \cup {t}]
    BY <1>1, <1>7, <2>0 DEF Reject, StartSend
  <2>2. c = b /\ key[a] = key[b]
    BY <1>5, <2>1, AnswersShown DEF Shown, Same
  <2>3. t.type = "REJECT" /\ t.enc = key[a] /\ sending'[a] = sending[a] /\ sending'[b] = sending[b] \cup {t}
    BY <1>0, <1>1, <2>0, <2>1, <2>2 DEF TypeOK
  <2>4. /\ deriving'[a] = {} /\ Saying(a)' = {} /\ Saying(b)' = {t}
        /\ Coming(a)' = {} /\ Coming(b)' = {}
    BY <1>1, <1>2, <1>5, <2>1, <2>3 DEF Still, Saying, Coming
  <2>5. ResponderReady(a, b)'
    <3>1. Unanswered(a, b, rot[b].pend.rid)'
      BY <1>2, <1>5, <2>1 DEF Unanswered, Awaits, Unread
    <3> QED
      BY <2>3, <2>4, <3>1 DEF ResponderReady
  <2>6. ResponderHeard(a, b)' /\ NobodyWaits(a, b)'
    BY <2>4 DEF ResponderHeard, NobodyWaits, Still
  <2> QED
    BY <1>2, <1>3, <2>3, <2>4, <2>5, <2>6, TrackAnswers
<1>8. ~AcceptExpired(c)
  BY DEF AcceptExpired, Faultless
<1> QED
  BY <1>4, <1>6, <1>7, <1>8

\* A handler whose derivation is done.
LEMMA TrackDerived ==
    ASSUME IInv, NEW a \in Clients, NEW b \in Clients, b = Peer(a), Course(a, b),
           Track(a, b), NEW c \in Clients, AcceptDerived(c) \/ ConfirmDerived(c)
    PROVE  Track(a, b)'
<1>0. TypeOK
  BY DEF IInv
<1>1. a = Peer(b) /\ a # b /\ c \in {a, b} /\ connected[c]
  BY PeerIsClient DEF Track, Online, Clients, Peer
<1>2. PICK t \in deriving[c] : /\ t.type \in {"ACCEPT", "CONFIRM"}
                               /\ deriving' = [deriving EXCEPT ![c] = @ \ {t}]
                               /\ t.type = "ACCEPT" => AcceptDerived(c)
                               /\ t.type = "CONFIRM" => ConfirmDerived(c)
  BY DEF AcceptDerived, ConfirmDerived
<1>3. /\ deriving[c] = {t} /\ Saying(c) = {} /\ Coming(c) = {} /\ Still(Peer(c))
  BY <1>2, AloneAtWork
<1>4. /\ t.type = "ACCEPT" => c = b /\ Asks(b) /\ rot[b].pend.rid = t.rid /\ Same(a, b)
      /\ t.type = "CONFIRM" => c = a /\ ~Asks(b) /\ t.newKey = key[b]
  BY <1>1, <1>2, TaskInPlay
<1>5. /\ queue' = queue /\ inbox' = inbox /\ connected' = connected /\ seen' = seen
  BY DEF AcceptDerived, ConfirmDerived, net
<1>6. Online' /\ deriving'[a] = {} /\ deriving'[b] = {} /\ Coming(a)' = {} /\ Coming(b)' = {}
  BY <1>0, <1>1, <1>2, <1>3, <1>5 DEF Track, Online, Still, Coming, TypeOK
<1>7. CASE t.type = "ACCEPT"
  <2>1. PICK u \in deriving[c] :
            /\ u.type = "ACCEPT" /\ rot[c].pend.rid # None
            /\ SetRot(c, [isPending |-> TRUE, status |-> "ACCEPT", cur |-> u.rid,
                          pend |-> rot[c].pend, priv |-> u.eph])
            /\ StartSend(c, "ACCEPT", u.rid, u.eph, key[c], u.newKey)
            /\ resolved' = resolved /\ key' = key
    BY <1>1, <1>2, <1>4, <1>7 DEF AcceptDerived, Asks
  <2>2. PICK s : s = [type |-> "ACCEPT", rid |-> u.rid, eph |-> u.eph, enc |-> key[c], newKey |-> u.newKey]
    OBVIOUS
  <2>3. u = t /\ c = b
    BY <1>3, <1>4, <1>7, <2>1
  <2>4. /\ s.type = "ACCEPT" /\ s.rid = t.rid /\ s.enc = key[a]
        /\ sending'[a] = sending[a] /\ sending'[b] = sending[b] \cup {s}
        /\ rot'[a] = rot[a] /\ rot'[b].status = "ACCEPT" /\ rot'[b].cur = t.rid
        /\ rot'[b].pend = rot[b].pend
    BY <1>0, <1>1, <1>4, <1>7, <2>1, <2>2, <2>3 DEF SetRot, StartSend, TypeOK, Same
  <2>5. Saying(a)' = {} /\ Saying(b)' = {s}
    BY <1>1, <1>3, <2>3, <2>4 DEF Still, Saying
  <2>6. ResponderReady(a, b)'
    <3>1. Unanswered(a, b, rot[b].pend.rid)
      BY <1>4, <1>7 DEF Track, ResponderReady
    <3>2. PICK r : r = rot[b].pend.rid
      OBVIOUS
    <3>3. Unanswered(a, b, r)' /\ rot'[b].pend.rid = r
      BY <1>5, <2>1, <2>4, <3>1, <3>2 DEF Unanswered, Awaits, Unread
    <3>4. Asks(b)' => Unanswered(a, b, rot[b].pend.rid)'
      BY <3>3 DEF Unanswered, Awaits, Unread
    <3> QED
      BY <2>4, <2>5, <3>4 DEF ResponderReady
  <2>7. ResponderHeard(a, b)' /\ NobodyWaits(a, b)'
    BY <1>6, <2>5 DEF ResponderHeard, NobodyWaits, Still
  <2> QED
    BY <1>6, <2>1, <2>4, <2>5, <2>6, <2>7, TrackAnswers
<1>8. CASE t.type = "CONFIRM"
  <2>1. PICK u \in deriving[c] :
            /\ SetRot(c, [rot[c] EXCEPT !.status = "CONFIRM"])
            /\ ActivateNewKey(c, u.newKey)
            /\ StartSend(c, "CONFIRM", u.rid, None, u.newKey, u.newKey)
    BY <1>1, <1>2, <1>8 DEF ConfirmDerived
  <2>2. PICK s : s = [type |-> "CONFIRM", rid |-> u.rid, eph |-> None, enc |-> u.newKey, newKey |-> u.newKey]
    OBVIOUS
  <2>3. u = t /\ c = a
    BY <1>3, <1>4, <1>8, <2>1
  <2>4. /\ s.type = "CONFIRM" /\ s.rid = t.rid /\ s.enc = key[b] /\ key'[b] = key[b]
        /\ sending'[b] = sending[b] /\ sending'[a] = sending[a] \cup {s}
        /\ rot'[b] = rot[b]
    BY <1>0, <1>1, <1>4, <1>8, <2>1, <2>2, <2>3 DEF SetRot, StartSend, ActivateNewKey, TypeOK
  <2>5. Saying(b)' = {} /\ Saying(a)' = {s} /\ ~Asks(b)'
    BY <1>1, <1>3, <1>4, <1>8, <2>3, <2>4 DEF Still, Saying, Asks
  <2>6. Accepted(a, b, t.rid)'
    <3>1. Accepted(a, b, t.rid)
      BY <1>8, <2>3 DEF Track, InitiatorHeard
    <3> QED
      BY <1>5, <2>4, <3>1 DEF Accepted, Unread
  <2> QED
    BY <1>6, <2>4, <2>5, <2>6, TrackSpeaks
<1> QED
  BY <1>2, <1>7, <1>8

\* The next message and the ones behind it.
LEMMA ElementsTaken ==
    ASSUME NEW S, NEW s \in Seq(S), s # <<>>
    PROVE  Elements(s) = {Head(s)} \cup Elements(Tail(s))
<1>1. /\ Elements(Tail(s)) \subseteq Elements(s) /\ Head(s) \in Elements(s)
  BY ElementsOf
<1>2. ASSUME NEW i \in DOMAIN s PROVE s[i] \in {Head(s)} \cup Elements(Tail(s))
  <2>1. Len(s) \in Nat /\ i \in 1..Len(s) /\ Tail(s) \in Seq(S) /\ Len(Tail(s)) = Len(s) - 1
    OBVIOUS
  <2>2. CASE i = 1
    BY <2>2
  <2>3. CASE i # 1
    <3>1. i - 1 \in 1..Len(Tail(s)) /\ Tail(s)[i - 1] = s[i]
      BY <2>1, <2>3
    <3> QED
      BY <2>1, <3>1 DEF Elements
  <2> QED
    BY <2>2, <2>3
<1> QED
  BY <1>1, <1>2 DEF Elements

\* A message that is encrypted, without a fault.
LEMMA TrackSent ==
    ASSUME IInv, NEW a \in Clients, NEW b \in Clients, b = Peer(a), Course(a, b),
           Track(a, b), drops' = drops, NEW c \in Clients,
           \/ RequestOrConfirmSent(c) \/ AcceptSent(c) \/ RejectSent(c) \/ CompleteSent(c)
           \/ TextSent(c)
    PROVE  Track(a, b)'
<1>0. TypeOK /\ Online
  BY DEF IInv, Track
<1>1. a = Peer(b) /\ a # b /\ c \in {a, b} /\ connected[c]
  BY <1>0, PeerIsClient DEF Online, Clients, Peer
<1>2. PICK t \in sending[c] :
          /\ Sent(c, t)
          /\ \/ /\ t.type \in {"REQUEST", "CONFIRM", "TEXT"} /\ rot' = rot /\ key' = key
                /\ resolved' = resolved /\ slot' = slot
             \/ /\ t.type = "ACCEPT" /\ key' = [key EXCEPT ![c] = t.newKey]
                /\ SetRot(c, [rot[c] EXCEPT !.pend = NoSaved])
             \/ t.type = "REJECT" /\ key' = key /\ ResetRotation(c)
             \/ t.type = "COMPLETE" /\ key' = key /\ CompleteRotation(c)
  BY <1>1 DEF RequestOrConfirmSent, AcceptSent, RejectSent, CompleteSent, TextSent, ActivateNewKey
<1>3. deriving' = deriving /\ seen' = seen /\ connected' = connected
  BY DEF RequestOrConfirmSent, AcceptSent, RejectSent, CompleteSent, TextSent
<1>4. /\ queue' = queue /\ \A d \in Clients : d # c => sending'[d] = sending[d]
      /\ Coming(c)' = Coming(c)
      /\ t.type = "TEXT" => Saying(c)' = Saying(c) /\ Coming(Peer(c))' = Coming(Peer(c))
      /\ t.type # "TEXT" =>
             /\ Saying(c)' = Saying(c) \ {t}
             /\ \E m : /\ m.type = t.type /\ m.rid = t.rid /\ m.enc = t.enc
                       /\ Coming(Peer(c))' = Coming(Peer(c)) \cup {m}
  BY <1>0, <1>2, SentOnline
<1>5. Online'
  BY <1>0, <1>3, <1>4 DEF Online
<1>6. CASE t.type = "TEXT"
  <2>1. \A d \in Clients : Saying(d)' = Saying(d) /\ Coming(d)' = Coming(d)
    <3> TAKE d \in Clients
    <3>1. d = c \/ d = Peer(c)
      BY <1>1, PeerIsClient DEF Clients, Peer
    <3>2. d # c => Saying(d)' = Saying(d)
      BY <1>4 DEF Saying
    <3> QED
      BY <1>4, <1>6, <3>1, <3>2
  <2> QED
    BY <1>2, <1>3, <1>4, <1>6, <2>1, TrackKept
<1>7. ASSUME t.type # "TEXT"
      PROVE  /\ t \in Saying(c) /\ deriving'[a] = {} /\ deriving'[b] = {}
             /\ Saying(a)' = {} /\ Saying(b)' = {} /\ Coming(c)' = {}
             /\ Saying(c) = {t}
             /\ \E m : /\ m.type = t.type /\ m.rid = t.rid /\ m.enc = t.enc
                       /\ Coming(Peer(c))' = {m}
  <2>1. t \in Saying(c)
    BY <1>2, <1>7 DEF Saying
  <2>2. deriving[c] = {} /\ Saying(c) = {t} /\ Coming(c) = {} /\ Still(Peer(c))
    BY <2>1, AloneAtWork
  <2>3. Saying(Peer(c))' = Saying(Peer(c))
    BY <1>1, <1>4 DEF Saying
  <2> QED
    BY <1>1, <1>3, <1>4, <1>7, <2>1, <2>2, <2>3 DEF Still
<1>8. t.type # "TEXT" =>
          /\ t.type \in {"REQUEST", "CONFIRM"} => c = a /\ ~Asks(b)
          /\ t.type \in {"ACCEPT", "REJECT"} => c = b /\ Asks(b) /\ rot[b].pend.rid = t.rid
          /\ t.type = "COMPLETE" => c = b /\ ~Asks(b)
  BY <1>1, <1>2, TaskInPlay
<1>9. CASE t.type \in {"REQUEST", "CONFIRM"}
  <2>1. rot' = rot /\ key' = key /\ resolved' = resolved /\ slot' = slot /\ c = a /\ ~Asks(b)'
    BY <1>2, <1>8, <1>9 DEF Asks
  <2>2. PICK m : m.type = t.type /\ m.rid = t.rid /\ m.enc = t.enc /\ Coming(b)' = {m}
    BY <1>7, <1>9, <2>1
  <2>3. t.enc = key[b]
    BY <1>7, <1>9, <2>1 DEF Track, InTheirKey
  <2>4. /\ t.type = "REQUEST" => Unanswered(a, b, t.rid)' /\ Untold(b, t.rid)'
        /\ t.type = "CONFIRM" => Accepted(a, b, t.rid)'
    <3>1. /\ t.type = "REQUEST" => Unanswered(a, b, t.rid) /\ Untold(b, t.rid)
          /\ t.type = "CONFIRM" => Accepted(a, b, t.rid)
      BY <1>7, <1>9, <2>1 DEF Track, InitiatorHeard
    <3> QED
      BY <1>3, <2>1, <3>1 DEF Unanswered, Untold, Accepted, Awaits, Unread
  <2> QED
    BY <1>5, <1>7, <1>9, <2>1, <2>2, <2>3, <2>4, TrackSpeaks
<1>10. ASSUME t.type \in {"ACCEPT", "REJECT", "COMPLETE"},
              rot'[b].pend.rid = None, key'[a] = key[a], NEW m, m.type = t.type, m.rid = t.rid,
              Unread(a, t.rid, t.type),
              t.type = "ACCEPT" => Awaits(a, t.rid)' /\ Accepted(a, b, t.rid)',
              t.type \in {"REJECT", "COMPLETE"} => rot'[b].status = "NONE",
              m.enc = t.enc, Coming(a)' = {m}, c = b
       PROVE  Track(a, b)'
  <2>1. ResponderReady(a, b)'
    BY <1>7, <1>10 DEF ResponderReady, Asks
  <2>2. ResponderHeard(a, b)'
    BY <1>3, <1>10 DEF ResponderHeard, Unread
  <2>3. NobodyWaits(a, b)'
    BY <1>10 DEF NobodyWaits, Still
  <2>4. m.enc = key'[a]
    BY <1>1, <1>7, <1>10 DEF Track, InTheirKey
  <2> QED
    BY <1>5, <1>7, <1>10, <2>1, <2>2, <2>3, <2>4, TrackAnswers
<1>11. CASE t.type = "ACCEPT"
  <2>1. c = b /\ Asks(b) /\ rot[b].pend.rid = t.rid /\ Unanswered(a, b, t.rid)
    BY <1>8, <1>11 DEF Track, ResponderReady
  <2>2. rot[b].status = "ACCEPT" /\ rot[b].cur = t.rid
    BY <1>7, <1>11, <2>1 DEF Track, ResponderReady
  <2>3. rot[b] \in Rotation
    BY <1>0 DEF TypeOK
  <2>4. /\ rot'[a] = rot[a] /\ rot'[b].status = "ACCEPT" /\ rot'[b].cur = t.rid
        /\ rot'[b].pend.rid = None /\ key'[a] = key[a]
    BY <1>0, <1>1, <1>2, <1>11, <2>1, <2>2, <2>3 DEF SetRot, NoSaved, Rotation, TypeOK
  <2>5. Awaits(a, t.rid)' /\ Accepted(a, b, t.rid)' /\ Unread(a, t.rid, "ACCEPT")
    BY <1>3, <2>1, <2>4 DEF Unanswered, Awaits, Accepted, Unread
  <2>6. PICK m : m.type = t.type /\ m.rid = t.rid /\ m.enc = t.enc /\ Coming(a)' = {m}
    BY <1>1, <1>7, <1>11, <2>1
  <2> QED
    BY <1>10, <1>11, <2>1, <2>4, <2>5, <2>6
<1>12. CASE t.type \in {"REJECT", "COMPLETE"}
  <2>1. c = b
    BY <1>8, <1>12
  <2>2. Unread(a, t.rid, t.type)
    <3>1. t.type = "REJECT" => Unread(a, t.rid, "REJECT")
      BY <1>8 DEF Track, ResponderReady, Unanswered
    <3>2. t.type = "COMPLETE" => Unread(a, t.rid, "COMPLETE")
      BY <1>7, <2>1 DEF Track, ResponderReady
    <3> QED
      BY <1>12, <3>1, <3>2
  <2>3. rot'[b].pend.rid = None /\ rot'[b].status = "NONE" /\ key'[a] = key[a]
    BY <1>0, <1>2, <1>12, <2>1 DEF ResetRotation, CompleteRotation, SetRot, Idle, NoSaved, TypeOK
  <2>4. PICK m : m.type = t.type /\ m.rid = t.rid /\ m.enc = t.enc /\ Coming(a)' = {m}
    BY <1>1, <1>7, <1>12, <2>1
  <2> QED
    BY <1>10, <1>12, <2>1, <2>2, <2>3, <2>4
<1> QED
  BY <1>2, <1>6, <1>9, <1>11, <1>12

\* The handlers of incoming messages.
LEMMA TrackHandled ==
    ASSUME IInv, WaitingHoldsSecret, NEW a \in Clients, NEW b \in Clients, b = Peer(a),
           Course(a, b), Track(a, b), Faultless, NEW c \in Clients, Handle(c)
    PROVE  Track(a, b)'
<1>0. TypeOK /\ Online
  BY DEF IInv, Track
<1>1. a = Peer(b) /\ a # b /\ c \in {a, b} /\ connected[c]
  BY <1>0, PeerIsClient DEF Online, Clients, Peer
<1>2. PICK m : m = Head(inbox[c])
  OBVIOUS
<1>3. /\ inbox[c] # <<>> /\ inbox' = [inbox EXCEPT ![c] = Tail(@)]
      /\ queue' = queue /\ connected' = connected /\ key' = key
  BY DEF Handle, ShowOrIgnore, ProcessIncomingRequest, ProcessAccept, ProcessConfirm,
     ProcessComplete, ProcessReject, Taking, page
<1>4. Online'
  BY <1>0, <1>3 DEF Online
<1>5. CASE m.type = "TEXT"
  <2>1. ShowOrIgnore(c)
    BY <1>2, <1>5 DEF Handle, ProcessIncomingRequest, ProcessAccept, ProcessConfirm,
       ProcessComplete, ProcessReject, Taking
  <2>2. /\ rot' = rot /\ deriving' = deriving /\ sending' = sending /\ seen' = seen
        /\ resolved' = resolved /\ slot' = slot
    BY <2>1 DEF ShowOrIgnore, page
  <2>3. \A d \in Clients : Saying(d)' = Saying(d) /\ Coming(d)' = Coming(d)
    <3> TAKE d \in Clients
    <3>1. Saying(d)' = Saying(d)
      BY <2>2 DEF Saying
    <3>2. d # c => Coming(d)' = Coming(d)
      BY <1>0, <1>3 DEF Coming, TypeOK
    <3>3. Elements(inbox[c]) = {m} \cup Elements(Tail(inbox[c]))
      <4>1. inbox[c] \in Seq(Message) /\ inbox[c] # <<>>
        BY <1>0, <1>3 DEF TypeOK
      <4> QED
        BY <1>2, <4>1, ElementsTaken
    <3>4. Coming(c)' = Coming(c)
      <4>1. inbox'[c] = Tail(inbox[c])
        BY <1>0, <1>3 DEF TypeOK
      <4>2. Elements(inbox[c])' = Elements(Tail(inbox[c]))
        BY <4>1 DEF Elements
      <4> QED
        BY <1>5, <3>3, <4>2 DEF Coming
    <3> QED
      BY <3>1, <3>2, <3>4
  <2> QED
    BY <1>3, <2>2, <2>3, TrackKept
<1>6. ASSUME m.type # "TEXT"
      PROVE  /\ m \in Coming(c)
             /\ \A d \in {a, b} : deriving[d] = {} /\ Saying(d) = {} /\ Coming(d)' = {}
             /\ ~Asks(a) /\ ~Asks(b)
             /\ c = b => m.type \in {"REQUEST", "CONFIRM"} /\ Same(a, b)
             /\ c = a => m.type \in {"ACCEPT", "REJECT", "COMPLETE"}
             /\ Readable(c, m)
  <2>1. /\ m \in Coming(c)
        /\ \A d \in {a, b} : deriving[d] = {} /\ Saying(d) = {} /\ Coming(d)' = {}
        /\ ~Asks(a) /\ ~Asks(b)
        /\ c = b => m.type \in {"REQUEST", "CONFIRM"} /\ Same(a, b)
        /\ c = a => m.type \in {"ACCEPT", "REJECT", "COMPLETE"}
    <3>1. Head(inbox[c]).type # "TEXT"
      BY <1>2, <1>6
    <3>2. /\ m \in Coming(c)
          /\ \A d \in {a, b} : deriving[d] = {} /\ Saying(d) = {} /\ Coming(d)' = {}
          /\ ~Asks(a) /\ ~Asks(b)
      BY <1>2, <1>3, <3>1, AloneOnItsWay
    <3>3. ASSUME c = b PROVE m.type \in {"REQUEST", "CONFIRM"} /\ Same(a, b)
      <4>1. m.type \in {"REQUEST", "CONFIRM"}
        BY <1>2, <1>3, <3>1, <3>3, AloneOnItsWay
      <4>2. Same(a, b)
        BY <1>2, <1>3, <3>1, <3>3, AloneOnItsWay
      <4> QED
        BY <4>1, <4>2
    <3>4. c = a => m.type \in {"ACCEPT", "REJECT", "COMPLETE"}
      BY <1>2, <1>3, <3>1, AloneOnItsWay
    <3> QED
      BY <3>2, <3>3, <3>4
  <2>2. Readable(c, m)
    BY <2>1 DEF Track, InTheirKey, Readable
  <2> QED
    BY <2>1, <2>2
<1>7. ASSUME m.type # "TEXT", Unread(c, m.rid, m.type) PROVE ~ShowOrIgnore(c)
  BY <1>2, <1>6, <1>7 DEF ShowOrIgnore, Repeated, Unread
<1>8. CASE m.type = "REQUEST"
  <2>1. c = b /\ Unanswered(a, b, m.rid) /\ Untold(b, m.rid)
    BY <1>1, <1>6, <1>8 DEF Track, InitiatorHeard
  <2>2. ProcessIncomingRequest(c)
    BY <1>2, <1>7, <1>8, <2>1 DEF Handle, ProcessAccept, ProcessConfirm,
       ProcessComplete, ProcessReject, Taking, Untold
  <2>3. AdmitsRequest(c, m.rid)
    BY <2>1 DEF AdmitsRequest, Unanswered, Untold, Faultless
  <2>4. /\ rot' = [rot EXCEPT ![c] = [isPending |-> TRUE, status |-> "PENDING_REQUEST",
                          cur |-> m.rid, pend |-> [rid |-> m.rid, eph |-> m.eph],
                          priv |-> rot[c].priv]]
        /\ deriving' = deriving /\ sending' = sending /\ resolved' = resolved
        /\ seen' = [seen EXCEPT ![c] = @ \cup {<<m.rid, "REQUEST">>}]
    BY <1>2, <2>2, <2>3 DEF ProcessIncomingRequest, SetRot, Taking
  <2>5. /\ rot'[a] = rot[a] /\ rot'[b].pend.rid = m.rid /\ seen'[a] = seen[a]
        /\ seen'[b] = seen[b] \cup {<<m.rid, "REQUEST">>}
    BY <1>0, <1>1, <2>1, <2>4 DEF TypeOK
  <2>6. Unanswered(a, b, m.rid)'
    BY <2>1, <2>4, <2>5 DEF Unanswered, Awaits, Unread
  <2>7. Saying(a)' = {} /\ Saying(b)' = {} /\ deriving'[a] = {}
    BY <1>6, <1>8, <2>4 DEF Saying
  <2>8. ResponderReady(a, b)'
    <3>1. Unanswered(a, b, rot[b].pend.rid)'
      BY <2>5, <2>6 DEF Unanswered, Awaits, Unread
    <3> QED
      BY <2>7, <3>1 DEF ResponderReady
  <2>9. m.rid # None
    <3>1. inbox[b] \in Seq(MessagesFrom(a))
      BY <1>1 DEF IInv
    <3>2. m \in MessagesFrom(a)
      BY <1>2, <1>3, <2>1, <3>1
    <3> QED
      BY <1>8, <3>2, EphOwners DEF MessagesFrom, WellFormed
  <2>10. ResponderHeard(a, b)' /\ NobodyWaits(a, b)'
    BY <1>6, <1>8, <2>5, <2>9 DEF ResponderHeard, NobodyWaits, Asks
  <2> QED
    BY <1>4, <1>6, <1>8, <2>7, <2>8, <2>10, TrackAnswers
<1>9. CASE m.type = "ACCEPT"
  <2>1. c = a /\ Awaits(a, m.rid) /\ Accepted(a, b, m.rid) /\ Unread(a, m.rid, "ACCEPT")
    BY <1>1, <1>6, <1>9 DEF Track, ResponderHeard
  <2>2. ProcessAccept(c)
    BY <1>2, <1>7, <1>9, <2>1 DEF Handle, ProcessIncomingRequest, ProcessConfirm,
       ProcessComplete, ProcessReject, Taking
  <2>3. HasSavedKey(c, m.rid) /\ Adopt(c, m.rid, "REQUEST") = rot[c] /\ rot[c].status = "REQUEST"
    BY <2>1 DEF HasSavedKey, WaitingHoldsSecret, Awaits, Adopt, Faultless
  <2>4. PICK t : t = [type |-> "CONFIRM", rid |-> m.rid, eph |-> None,
                      newKey |-> DeriveNewKey(m.rid, rot[c].priv, m.eph)]
    OBVIOUS
  <2>5. /\ rot' = [rot EXCEPT ![c] = rot[c]] /\ deriving' = [deriving EXCEPT ![c] = @ \cup {t}]
        /\ sending' = sending
        /\ seen' = [seen EXCEPT ![c] = @ \cup {<<m.rid, "ACCEPT">>}]
    BY <1>2, <2>2, <2>3, <2>4 DEF ProcessAccept, SetRot, StartDerive, Taking
  <2>6. /\ rot'[b] = rot[b] /\ seen'[b] = seen[b]
        /\ seen'[a] = seen[a] \cup {<<m.rid, "ACCEPT">>}
        /\ deriving'[a] = {t} /\ deriving'[b] = {} /\ t.type = "CONFIRM" /\ t.rid = m.rid
    BY <1>0, <1>1, <1>6, <1>9, <2>1, <2>4, <2>5 DEF TypeOK
  <2>7. Accepted(a, b, t.rid)'
    BY <2>1, <2>6 DEF Accepted, Unread
  <2>8. Saying(a)' = {} /\ Saying(b)' = {} /\ ~Asks(b)'
    BY <1>6, <1>9, <2>5, <2>6 DEF Saying, Asks
  <2> QED
    BY <1>4, <1>6, <1>9, <2>6, <2>7, <2>8, TrackSpeaks
<1>10. CASE m.type = "CONFIRM"
  <2>1. c = b /\ Accepted(a, b, m.rid)
    BY <1>1, <1>6, <1>10 DEF Track, InitiatorHeard
  <2>2. ProcessConfirm(c)
    BY <1>2, <1>7, <1>10, <2>1 DEF Handle, ProcessIncomingRequest, ProcessAccept,
       ProcessComplete, ProcessReject, Taking, Accepted
  <2>3. HasSavedKey(c, m.rid) /\ Adopt(c, m.rid, "ACCEPT") = rot[c] /\ rot[c].status = "ACCEPT"
    BY <2>1 DEF HasSavedKey, WaitingHoldsSecret, Accepted, Adopt, Faultless
  <2>4. PICK t : t = [type |-> "COMPLETE", rid |-> m.rid, eph |-> None,
                      enc |-> key[c], newKey |-> key[c]]
    OBVIOUS
  <2>5. /\ rot' = [rot EXCEPT ![c] = [rot[c] EXCEPT !.status = "COMPLETE"]]
        /\ deriving' = deriving
        /\ sending' = [sending EXCEPT ![c] = @ \cup {t}]
        /\ seen' = [seen EXCEPT ![c] = @ \cup {<<m.rid, "CONFIRM">>}]
    BY <1>1, <1>2, <2>2, <2>3, <2>4 DEF ProcessConfirm, SetRot, StartSend, Taking
  <2>6. /\ seen'[a] = seen[a] /\ sending'[a] = sending[a]
        /\ sending'[b] = sending[b] \cup {t} /\ t.type = "COMPLETE" /\ t.rid = m.rid
        /\ t.enc = key[a]
    BY <1>0, <1>1, <1>6, <1>10, <2>1, <2>4, <2>5 DEF TypeOK, Same
  <2>7. rot'[b].pend.rid = None
    <3>1. rot[b] \in Rotation /\ rot[b].pend.rid = None
      BY <1>0, <1>6, <1>10 DEF TypeOK, Asks
    <3> QED
      BY <1>0, <2>1, <2>5, <3>1 DEF TypeOK, Rotation
  <2>8. Saying(a)' = {} /\ Saying(b)' = {t} /\ deriving'[a] = {}
    BY <1>6, <1>10, <2>5, <2>6 DEF Saying
  <2>9. ResponderReady(a, b)'
    BY <2>1, <2>6, <2>7, <2>8 DEF ResponderReady, Asks, Accepted, Unread
  <2>10. ResponderHeard(a, b)' /\ NobodyWaits(a, b)'
    BY <1>6, <1>10, <2>8 DEF ResponderHeard, NobodyWaits, Still
  <2> QED
    BY <1>3, <1>4, <1>6, <1>10, <2>6, <2>8, <2>9, <2>10, TrackAnswers
<1>11. CASE m.type \in {"REJECT", "COMPLETE"}
  <2>1. c = a /\ Unread(a, m.rid, m.type) /\ rot[b].status = "NONE"
    BY <1>1, <1>6, <1>11 DEF Track, ResponderHeard
  <2>2. ProcessComplete(c) \/ ProcessReject(c)
    BY <1>2, <1>7, <1>11, <2>1 DEF Handle, ProcessIncomingRequest, ProcessAccept,
       ProcessConfirm, Taking
  <2>3. rot' = [rot EXCEPT ![c] = Idle] /\ deriving' = deriving /\ sending' = sending
    BY <2>2 DEF ProcessComplete, ProcessReject, CompleteRotation, ResetRotation, SetRot
  <2>4. rot'[a].status = "NONE" /\ rot'[b] = rot[b]
    BY <1>0, <1>1, <2>1, <2>3 DEF TypeOK, Idle
  <2>5. Saying(a)' = {} /\ Saying(b)' = {} /\ deriving'[a] = {} /\ ~Asks(b)'
    BY <1>6, <1>11, <2>3, <2>4 DEF Saying, Asks
  <2>6. ResponderReady(a, b)' /\ ResponderHeard(a, b)' /\ NobodyWaits(a, b)'
    BY <1>6, <1>11, <2>1, <2>4, <2>5 DEF ResponderReady, ResponderHeard, NobodyWaits
  <2> QED
    BY <1>4, <1>6, <1>11, <2>5, <2>6, TrackAnswers
<1> QED
  BY <1>5, <1>6, <1>8, <1>9, <1>10, <1>11, <1>1

LEMMA TrackStep ==
    ASSUME MaxReloads = 0, IInv, NamedInv, WaitingHoldsSecret,
           NEW a \in Clients, NEW b \in Clients, b = Peer(a), Course(a, b), Roles(a, b),
           ~Initiate(b), Faultless => Track(a, b), [Next]_vars, Faultless'
    PROVE  Track(a, b)'
<1>1. /\ Faultless /\ Track(a, b)
      /\ drops' = drops /\ cuts' = cuts /\ expired' = expired
  BY FaultlessBefore
<1>2. ASSUME NEW c \in Clients, ClientStep(c) PROVE Track(a, b)'
  <2>1. ~Reload(c)
    BY NoReloads
  <2>2. c = a \/ c = b
    BY PeerIsClient DEF Clients, Peer
  <2>3. CASE Initiate(c)
    BY <1>1, <2>2, <2>3, TrackBegins
  <2>4. CASE Accept(c) \/ AcceptExpired(c) \/ Reject(c) \/ SendText(c)
    BY <1>1, <2>4, TrackButtons
  <2>5. CASE Handle(c)
    BY <1>1, <2>5, TrackHandled
  <2>6. CASE AcceptDerived(c) \/ ConfirmDerived(c)
    BY <1>1, <2>6, TrackDerived
  <2>7. CASE \/ RequestOrConfirmSent(c) \/ AcceptSent(c) \/ RejectSent(c) \/ CompleteSent(c)
             \/ TextSent(c)
    BY <1>1, <2>7, TrackSent
  <2>8. ~Cut(c)
    <3>1. cuts = 0 /\ cuts' = 0
      BY <1>1 DEF Faultless
    <3> QED
      BY <3>1 DEF Cut
  <2>9. ~Reconnect(c)
    BY <1>1 DEF Reconnect, Track, Online
  <2> QED
    BY <1>2, <2>1, <2>3, <2>4, <2>5, <2>6, <2>7, <2>8, <2>9 DEF ClientStep, Resume
<1>3. \A r \in Rids : ~Expire(r)
  BY <1>1 DEF Expire
<1>4. CASE UNCHANGED vars
  <2>1. \A c \in Clients : /\ deriving'[c] = deriving[c] /\ Saying(c)' = Saying(c)
                           /\ Coming(c)' = Coming(c)
    BY <1>4 DEF vars, page, net, Saying, Coming
  <2> QED
    BY <1>1, <1>4, <2>1, TrackKept DEF vars, page
<1> QED
  BY <1>2, <1>3, <1>4 DEF Next

\* k is the key of the last rotation that was accepted, as the history tells it.
LastKey(k) ==
    \/ k = BaseKey /\ \A i \in DOMAIN log : log[i].type # "ACCEPT"
    \/ \E i \in DOMAIN log :
           /\ log[i].type = "ACCEPT" /\ \A j \in DOMAIN log : j > i => log[j].type # "ACCEPT"
           /\ k = DeriveNewKey(log[i].rid, log[i].rid, log[i].eph)

\* A message more in the history.
LEMMA LastKeyStored ==
    ASSUME log \in Seq(Message), NEW m \in Message, log' = log \o <<m>>
    PROVE  /\ \A k : m.type # "ACCEPT" /\ LastKey(k) => LastKey(k)'
           /\ \A k : m.type = "ACCEPT" /\ k = DeriveNewKey(m.rid, m.rid, m.eph) => LastKey(k)'
<1>1. /\ Len(log) \in Nat /\ DOMAIN log = 1..Len(log) /\ DOMAIN log' = 1..(Len(log) + 1)
      /\ \A i \in 1..Len(log) : log'[i] = log[i]
      /\ log'[Len(log) + 1] = m
  <2>1. <<m>> \in Seq(Message) /\ Len(<<m>>) = 1 /\ <<m>>[1] = m
    OBVIOUS
  <2> QED
    BY <2>1
<1>2. ASSUME m.type # "ACCEPT", NEW k, LastKey(k) PROVE LastKey(k)'
  <2>1. \A i \in DOMAIN log' : log'[i].type = "ACCEPT" => i \in DOMAIN log /\ log'[i] = log[i]
    BY <1>1, <1>2
  <2>2. CASE k = BaseKey /\ \A i \in DOMAIN log : log[i].type # "ACCEPT"
    BY <2>1, <2>2 DEF LastKey
  <2>3. ASSUME NEW i \in DOMAIN log, log[i].type = "ACCEPT",
               \A j \in DOMAIN log : j > i => log[j].type # "ACCEPT",
               k = DeriveNewKey(log[i].rid, log[i].rid, log[i].eph)
        PROVE  LastKey(k)'
    <3>1. i \in DOMAIN log' /\ log'[i] = log[i]
      BY <1>1
    <3>2. \A j \in DOMAIN log' : j > i => log'[j].type # "ACCEPT"
      BY <2>1, <2>3
    <3> QED
      BY <2>3, <3>1, <3>2 DEF LastKey
  <2> QED
    BY <1>2, <2>2, <2>3 DEF LastKey
<1>3. ASSUME m.type = "ACCEPT", NEW k, k = DeriveNewKey(m.rid, m.rid, m.eph) PROVE LastKey(k)'
  <2>1. PICK n : n = Len(log) + 1
    OBVIOUS
  <2>2. n \in DOMAIN log' /\ log'[n] = m /\ \A j \in DOMAIN log' : ~(j > n)
    BY <1>1, <2>1
  <2> QED
    BY <1>3, <2>2 DEF LastKey
<1> QED
  BY <1>2, <1>3

\* The key the responder uses is that of its last ACCEPT, stored as it switches.
LEMMA LastKeyStep ==
    ASSUME MaxReloads = 0, IInv, NEW a \in Clients, NEW b \in Clients, b = Peer(a),
           Course(a, b), Online, drops' = drops, cuts' = cuts, LastKey(key[b]), [Next]_vars
    PROVE  LastKey(key[b])'
<1>0. TypeOK
  BY DEF IInv
<1>1. a = Peer(b) /\ a # b
  BY PeerIsClient
<1>2. PICK k : k = key[b]
  OBVIOUS
<1>3. ASSUME log' = log, key'[b] = k PROVE LastKey(key[b])'
  BY <1>2, <1>3 DEF LastKey
<1>4. ASSUME NEW c \in Clients, NEW t \in sending[c], Sent(c, t), t.type # "ACCEPT", key'[b] = k
      PROVE  LastKey(key[b])'
  <2>1. PICK m : m = [type |-> t.type, from |-> c, rid |-> t.rid, eph |-> t.eph,
                      enc |-> t.enc, label |-> key[c]]
    OBVIOUS
  <2>2. m \in Message /\ m.type # "ACCEPT"
    BY <1>0, <1>4, <2>1 DEF Message, Sending, TypeOK
  <2>3. drops \in Nat /\ connected[c]
    BY <1>0, BoundsAssumption DEF TypeOK, Online
  <2>4. log' = log \o <<m>>
    BY <1>4, <2>1, <2>3 DEF Sent, Forward
  <2>5. LastKey(k)'
    BY <1>0, <1>2, <2>2, <2>4, LastKeyStored DEF TypeOK
  <2> QED
    BY <1>4, <2>5
<1>5. ASSUME NEW c \in Clients, ClientStep(c) PROVE LastKey(key[b])'
  <2>1. ~Reload(c) /\ ~Reconnect(c)
    BY NoReloads, <1>5 DEF Reconnect, Online
  <2>2. CASE AcceptSent(c)
    <3>1. PICK t \in sending[c] : /\ t.type = "ACCEPT" /\ Sent(c, t)
                                  /\ key' = [key EXCEPT ![c] = t.newKey]
      BY <2>2 DEF AcceptSent, ActivateNewKey
    <3>2. c = b /\ t.newKey = DeriveNewKey(t.rid, t.rid, t.eph)
      <4>1. c = a \/ c = b
        BY <1>1, PeerIsClient DEF Clients, Peer
      <4> QED
        BY <3>1, <4>1, TaskInPlay
    <3>3. PICK m : m = [type |-> t.type, from |-> c, rid |-> t.rid, eph |-> t.eph,
                        enc |-> t.enc, label |-> key[c]]
      OBVIOUS
    <3>4. m \in Message /\ m.type = "ACCEPT" /\ m.rid = t.rid /\ m.eph = t.eph
      BY <1>0, <3>1, <3>3 DEF Message, Sending, TypeOK
    <3>5. drops \in Nat /\ connected[c]
      BY <1>0, BoundsAssumption DEF TypeOK, Online
    <3>6. log' = log \o <<m>>
      BY <3>1, <3>3, <3>5 DEF Sent, Forward
    <3>7. LastKey(t.newKey)' /\ key'[b] = t.newKey
      BY <1>0, <3>1, <3>2, <3>4, <3>6, LastKeyStored DEF TypeOK
    <3> QED
      BY <3>7 DEF LastKey
  <2>3. CASE ConfirmDerived(c)
    <3>1. PICK t \in deriving[c] : t.type = "CONFIRM" /\ key' = [key EXCEPT ![c] = t.newKey]
      BY <2>3 DEF ConfirmDerived, ActivateNewKey
    <3>2. c # b
      BY <1>1, <3>1, TaskInPlay
    <3> QED
      BY <1>0, <1>2, <1>3, <2>3, <3>1, <3>2 DEF ConfirmDerived, net, TypeOK
  <2>4. CASE RequestOrConfirmSent(c) \/ RejectSent(c) \/ CompleteSent(c)
    <3>1. PICK t \in sending[c] : t.type # "ACCEPT" /\ Sent(c, t)
      BY <2>4 DEF RequestOrConfirmSent, RejectSent, CompleteSent
    <3>2. key' = key
      BY <2>4 DEF RequestOrConfirmSent, RejectSent, CompleteSent
    <3> QED
      BY <1>2, <1>4, <3>1, <3>2
  <2>5. CASE TextSent(c)
    <3>1. PICK t \in sending[c] : /\ t.type = "TEXT"
                                  /\ Sent(c, t) \/ UNCHANGED <<queue, net>>
      BY <2>5 DEF TextSent
    <3>2. key' = key
      BY <2>5 DEF TextSent
    <3> QED
      BY <1>2, <1>3, <1>4, <3>1, <3>2 DEF net
  <2>6. CASE Initiate(c) \/ Accept(c) \/ AcceptExpired(c) \/ Reject(c) \/ SendText(c)
    BY <1>2, <1>3, <2>6 DEF Initiate, Accept, AcceptExpired, Reject, SendText, net
  <2>7. CASE Handle(c)
    BY <1>2, <1>3, <2>7 DEF Handle, ShowOrIgnore, ProcessIncomingRequest, ProcessAccept,
       ProcessConfirm, ProcessComplete, ProcessReject, page
  <2>8. CASE AcceptDerived(c)
    BY <1>2, <1>3, <2>8 DEF AcceptDerived, net
  <2>9. CASE Cut(c)
    BY <1>2, <1>3, <2>9 DEF Cut, page
  <2> QED
    BY <1>5, <2>1, <2>2, <2>3, <2>4, <2>5, <2>6, <2>7, <2>8, <2>9 DEF ClientStep, Resume
<1>6. CASE \E r \in Rids : Expire(r)
  BY <1>2, <1>3, <1>6 DEF Expire, net, page
<1>7. CASE UNCHANGED vars
  BY <1>2, <1>3, <1>7 DEF vars, net, page
<1> QED
  BY <1>5, <1>6, <1>7 DEF Next

\* Nobody waits in a rotation, so that either user may begin the next.
LEMMA TrackSwap ==
    ASSUME NEW a \in Clients, NEW b \in Clients, b = Peer(a), Course(a, b), Roles(a, b),
           Track(a, b), ~Began(a), ~rot[b].isPending
    PROVE  Track(b, a)
<1>1. ~Busy(a)
  BY DEF Began, Busy, Roles
<1>2. Settled(a, b) /\ ~Asks(a)
  BY <1>1 DEF Course, Settled, Shown, InitiatorSpeaks, ResponderSpeaks
<1>3. Still(a) /\ Still(b)
  BY <1>2, StillPage DEF Settled
<1>4. rot[a].status = "NONE" /\ rot[b].status = "NONE"
  BY DEF Roles, Began
<1> QED
  BY <1>2, <1>3, <1>4 DEF Track, InitiatorHeard, ResponderReady, ResponderHeard, NobodyWaits, Still

\* The rotation that is under way, and how it goes without faults.
OnTrack(a, b) ==
    Course(a, b) /\ Roles(a, b) /\ (Faultless => Track(a, b) /\ LastKey(key[b]))
TrackInv == NamedInv /\ \E a \in Clients : OnTrack(a, Peer(a))

LEMMA TrackInit == Init => TrackInv
<1> SUFFICES ASSUME Init PROVE TrackInv
  OBVIOUS
<1>1. PICK a \in Clients, b \in Clients : b = Peer(a)
  BY PeerIsClient DEF Clients
<1>2. Course(a, b)
  BY <1>1, CourseInit
<1>3. Roles(a, b)
  BY <1>1 DEF Init, Roles, Idle
<1>4. \A c \in Clients : /\ connected[c] /\ queue[c] = <<>> /\ ~Asks(c)
                         /\ deriving[c] = {} /\ Saying(c) = {} /\ Coming(c) = {}
                         /\ rot[c].status = "NONE"
  BY DEF Init, Saying, Coming, Elements, Asks, Idle, NoSaved
<1>5. Track(a, b)
  BY <1>4 DEF Track, Online, InitiatorHeard, ResponderReady, ResponderHeard, InTheirKey, NobodyWaits
<1>6. LastKey(key[b])
  BY DEF Init, LastKey
<1> QED
  BY <1>1, <1>2, <1>3, <1>5, <1>6, NamedInit DEF TrackInv, OnTrack

\* The one who has the turn.
LEMMA OnTrackTurn ==
    ASSUME IInv, NEW x \in Clients, OnTrack(x, Peer(x)), TakingTurns
    PROVE  \E a, b \in Clients : b = Peer(a) /\ ~Initiate(b) /\ OnTrack(a, b)
<1>1. PICK y \in Clients : y = Peer(x) /\ x = Peer(y) /\ x # y
  BY PeerIsClient
<1>2. CASE ~Initiate(y)
  BY <1>1, <1>2
<1>3. CASE Initiate(y)
  <2>1. ~Began(x) /\ ~rot[y].isPending
    BY <1>1, <1>3 DEF TakingTurns, Initiate
  <2>2. OnTrack(y, x)
    <3>1. Course(x, y) /\ Roles(x, y) /\ ~Busy(x)
      BY <1>1, <2>1 DEF OnTrack, Began, Busy, Roles
    <3>2. key[x] = key[y]
      BY <3>1 DEF Course, Settled, Shown, InitiatorSpeaks, ResponderSpeaks, Same
    <3> QED
      BY <1>1, <2>1, <3>1, <3>2, RolesSwap, TrackSwap DEF OnTrack
  <2>3. used[x] \in Nat /\ used'[x] = used[x]
    BY <1>1, <1>3 DEF IInv, TypeOK, Initiate, MakeEph
  <2>4. ~Initiate(x)
    BY <2>3 DEF IInv, TypeOK, Initiate, MakeEph
  <2> QED
    BY <1>1, <2>2, <2>4
<1> QED
  BY <1>2, <1>3

LEMMA OnTrackStep ==
    ASSUME MaxReloads = 0, IInv, TrackInv, WaitingHoldsSecret, [Next]_vars,
           [TakingTurns]_vars
    PROVE  TrackInv'
<1>1. NamedInv'
  BY NamedStep DEF TrackInv
<1>2. PICK x \in Clients : OnTrack(x, Peer(x))
  BY DEF TrackInv
<1>3. PICK a \in Clients, b \in Clients : b = Peer(a) /\ ~Initiate(b) /\ OnTrack(a, b)
  <2>1. CASE TakingTurns
    BY <1>2, <2>1, OnTrackTurn
  <2>2. CASE UNCHANGED vars
    <3>1. PICK y \in Clients : y = Peer(x)
      BY PeerIsClient
    <3>2. used[y] \in Nat /\ used'[y] = used[y]
      BY <2>2, BoundsAssumption DEF IInv, TypeOK, vars, counters
    <3>3. ~Initiate(y)
      BY <3>2 DEF IInv, TypeOK, Initiate, MakeEph
    <3> QED
      BY <1>2, <3>1, <3>3
  <2> QED
    BY <2>1, <2>2
<1>4. Course(a, b)' /\ Roles(a, b)'
  BY <1>3, CourseStep, RolesStep DEF OnTrack
<1>5. Faultless' => Track(a, b)'
  BY <1>3, TrackStep DEF OnTrack, TrackInv
<1>6. Faultless' => LastKey(key[b])'
  BY <1>3, FaultlessBefore, LastKeyStep DEF OnTrack, Track
<1> QED
  BY <1>1, <1>3, <1>4, <1>5, <1>6 DEF TrackInv, OnTrack, Peer

\* No handler is under way and no message: the pages wait for their users.
Resting == \A c \in Clients : deriving[c] = {} /\ sending[c] = {} /\ inbox[c] = <<>>

\* Without a fault, two pages that rest are done and use the key of the last rotation
\* that was accepted, or ask a user to answer a request: none hangs in the middle.
NeverStuck ==
    Faultless /\ Resting =>
        \/ \A c \in Clients : ~rot[c].isPending /\ LastKey(key[c])
        \/ \E c \in Clients : CanAnswer(c)

LEMMA OnTrackRests ==
    ASSUME NEW a \in Clients, OnTrack(a, Peer(a)) PROVE NeverStuck
<1> SUFFICES ASSUME Faultless, Resting
             PROVE  \/ \A c \in Clients : ~rot[c].isPending /\ LastKey(key[c])
                    \/ \E c \in Clients : CanAnswer(c)
  BY DEF NeverStuck
<1>1. PICK b \in Clients : b = Peer(a) /\ a = Peer(b) /\ a # b
  BY PeerIsClient
<1>2. Course(a, b) /\ Roles(a, b) /\ Track(a, b) /\ Clients = {a, b}
  BY <1>1 DEF OnTrack, Clients, Peer
<1>3. Still(a) /\ Still(b)
  BY DEF Resting, Still, Saying, Coming, Elements
<1>4. CASE Asks(b)
  <2>1. Unanswered(a, b, rot[b].pend.rid) /\ rot[b].pend.rid # None
    BY <1>2, <1>4 DEF Track, ResponderReady, Asks
  <2>2. Free(b)
    <3>1. deriving[b] = {} /\ sending[b] = {}
      BY DEF Resting
    <3>2. Cardinality({}) = 0
      BY FS_EmptySet
    <3> QED
      BY <3>1, <3>2, BoundsAssumption DEF Free
  <2>3. deriving[b] = {} /\ sending[b] = {}
    BY DEF Resting
  <2> QED
    BY <2>1, <2>2, <2>3 DEF CanAnswer, Unanswered
<1>5. CASE ~Asks(b)
  <2>1. rot[a].status = "NONE" /\ rot[b].status = "NONE"
    BY <1>2, <1>3, <1>5 DEF Track, NobodyWaits
  <2>2. ~rot[a].isPending /\ ~rot[b].isPending /\ ~Busy(a)
    BY <1>2, <2>1 DEF Roles, Busy
  <2>3. Same(a, b)
    BY <1>2, <2>2 DEF Course, Settled, Shown, InitiatorSpeaks, ResponderSpeaks
  <2> QED
    BY <1>1, <1>2, <2>2, <2>3 DEF OnTrack, Same
<1> QED
  BY <1>4, <1>5

\* Without a fault, and as long as no user begins a rotation while the other page waits
\* in one it began and no page is reloaded, no rotation hangs: every message finds the
\* page it is for ready for it and holding the key it is encrypted with, so that pages
\* at rest are done and agree, or ask a user.  This is the safety side of
\* AcceptedCompletes: what the fairness of handlers then brings about is its end.
THEOREM FaultlessNeverStuck ==
    MaxReloads = 0 /\ Spec /\ [][TakingTurns]_vars => []NeverStuck
<1> SUFFICES ASSUME MaxReloads = 0
             PROVE  Spec /\ [][TakingTurns]_vars => []NeverStuck
  OBVIOUS
<1>1. TrackInv => NeverStuck
  BY OnTrackRests DEF TrackInv
<1>2. IInv /\ TrackInv /\ WaitingHoldsSecret /\ [Next]_vars /\ [TakingTurns]_vars => TrackInv'
  BY OnTrackStep
<1> QED
  BY <1>1, <1>2, TrackInit, Invariance, WaitingPagesHoldSecret, PTL DEF Spec

\* One user who begins the rotations takes turns with nobody.
LEMMA OneTakesTurns ==
    (\E a \in Clients : Initiators \subseteq {a}) /\ MaxReloads = 0 /\ Spec
        => [][TakingTurns]_vars
<1> SUFFICES ASSUME NEW a \in Clients, Initiators \subseteq {a}, MaxReloads = 0
             PROVE  Spec => [][TakingTurns]_vars
  OBVIOUS
<1>1. PICK b \in Clients : b = Peer(a) /\ a # b
  BY PeerIsClient
<1>2. Init => Course(a, b) /\ Roles(a, b)
  BY <1>1, CourseInit DEF Init, Roles, Idle
<1>3. IInv /\ Course(a, b) /\ Roles(a, b) /\ [Next]_vars => (Course(a, b) /\ Roles(a, b))'
  BY <1>1, OneBegins, CourseStep, RolesStep
<1>4. Roles(a, b) /\ [Next]_vars => [TakingTurns]_vars
  <2> SUFFICES ASSUME Roles(a, b), NEW c \in Clients, Initiate(c) PROVE ~Began(Peer(c))
    BY DEF TakingTurns
  <2>1. c = a
    BY DEF Initiate
  <2> QED
    BY <1>1, <2>1 DEF Roles, Began
<1> QED
  BY <1>2, <1>3, <1>4, Invariance, PTL DEF Spec

\* So when one user alone begins rotations, none hangs without a fault.
COROLLARY OneInitiatorNeverStuck ==
    (\E a \in Clients : Initiators \subseteq {a}) /\ MaxReloads = 0 /\ Spec => []NeverStuck
BY OneTakesTurns, FaultlessNeverStuck
=============================================================================
