------------------------- MODULE KeyRotationProofs -------------------------
(***************************************************************************)
(* Theorems about KeyRotation for every value of its constants.            *)
(***************************************************************************)
EXTENDS KeyRotation, TLAPS

\* The other end of the dialog is a client, and not oneself.
LEMMA PeerIsClient ==
    ASSUME NEW c \in Clients
    PROVE  Peer(c) \in Clients /\ Peer(c) # c /\ Peer(Peer(c)) = c
BY ClientsAssumption DEF Clients, Peer

\* The values a page starts from have their types.
LEMMA StartingValues ==
    /\ Idle \in Rotation
    /\ NoSaved \in Saved
    /\ BaseKey \in SessionKey
BY DEF Idle, Rotation, Statuses, NoSaved, Saved, BaseKey, SessionKey

\* None is no ephemeral pair, hence no rotation id.
LEMMA NoneIsNoEph == None \notin Ephs
BY NoneAssumption, BoundsAssumption DEF Ephs

\* A client's own pairs are not those of the other side.
LEMMA EphOwners ==
    ASSUME NEW c \in Clients, NEW e \in EphsOf(c)
    PROVE  e \in Ephs /\ e \in Rids /\ e # None /\ Owner(e) = c /\ e \notin EphsOf(Peer(c))
<1>1. e # None
  BY NoneAssumption, BoundsAssumption DEF EphsOf, Ephs
<1> QED
  BY <1>1, PeerIsClient DEF EphsOf, Rids

\* Changing the status, or adopting a rotation, leaves a rotation with its request.
LEMMA StatusType ==
    ASSUME NEW r \in Rotation, NEW s \in Statuses
    PROVE  LET q == [r EXCEPT !.status = s]
           IN q \in Rotation /\ q.status = s /\ q.pend = r.pend
BY DEF Rotation

LEMMA AdoptType ==
    ASSUME TypeOK, NEW c \in Clients, NEW rid \in Rids, NEW s \in Statuses
    PROVE  Adopt(c, rid, s) \in Rotation /\ Adopt(c, rid, s).pend = rot[c].pend
<1>1. rot[c] \in Rotation /\ slot[c].eph \in Ephs \cup {None}
  BY DEF TypeOK, Saved
<1>2. CASE rot[c].cur = rid
  BY <1>1, <1>2 DEF Adopt
<1>3. CASE rot[c].cur # rid
  <2>1. Adopt(c, rid, s) = [rot[c] EXCEPT !.isPending = TRUE, !.status = s, !.cur = rid,
                                          !.priv = slot[c].eph]
    BY <1>3 DEF Adopt
  <2> QED
    BY <1>1, <2>1 DEF Rotation
<1> QED
  BY <1>2, <1>3

\* The pair a client makes next is a pair of its own within the bound.
LEMMA NextEphType ==
    ASSUME TypeOK, NEW c \in Clients, used[c] < MaxEph
    PROVE  NextEph(c) \in EphsOf(c) /\ used[c] + 1 \in 0..MaxEph
BY BoundsAssumption DEF TypeOK, NextEph, Ephs, EphsOf, Owner

\* The key both sides derive, whichever half is the private one.
LEMMA AgreedKeyType ==
    ASSUME NEW c \in Clients, NEW r \in EphsOf(c), NEW e \in EphsOf(Peer(c))
    PROVE  /\ DeriveNewKey(r, r, e) \in AgreedKeys
           /\ DeriveNewKey(r, e, r) = DeriveNewKey(r, r, e)
           /\ DeriveNewKey(r, e, r) \in SessionKey
<1>1. r \in Rids /\ Owner(r) = c /\ r \in Ephs /\ e \in Ephs
  BY EphOwners, PeerIsClient
<1>2. DeriveNewKey(r, e, r) = DeriveNewKey(r, r, e)
  BY DEF DeriveNewKey
<1>3. DeriveNewKey(r, e, r) \in SessionKey
  BY <1>1 DEF DeriveNewKey, SessionKey
<1>4. DeriveNewKey(r, r, e) \in AgreedKeys
  BY <1>1 DEF AgreedKeys
<1> QED
  BY <1>2, <1>3, <1>4

\* A key of pairs of the page's own.
LEMMA OwnKeyType ==
    ASSUME NEW c \in Clients, NEW r \in Rids, NEW e \in EphsOf(c), NEW f \in EphsOf(c)
    PROVE  DeriveNewKey(r, e, f) \in OwnKeys(c) /\ DeriveNewKey(r, e, f) \in SessionKey
BY EphOwners DEF DeriveNewKey, OwnKeys, SessionKey

-----------------------------------------------------------------------------
(* The inductive invariant *)

\* A message of c names pairs of the right sides: a request carries the pair it is
\* named after, an ACCEPT answers a request of the other side with an own pair.
WellFormed(c, m) ==
    /\ m.type = "REQUEST" => m.rid \in EphsOf(c) /\ m.eph = m.rid
    /\ m.type = "ACCEPT" => m.rid \in EphsOf(Peer(c)) /\ m.eph \in EphsOf(c)
    /\ m.type \in {"CONFIRM", "COMPLETE", "REJECT"} => m.rid \in Rids

MessagesFrom(c) == {m \in Message : m.from = c /\ WellFormed(c, m)}
Messages == {m \in Message : WellFormed(m.from, m)}

\* What is under way carries the keys its handler will switch to.
SendingFrom(c) ==
    {t \in Sending : /\ WellFormed(c, t)
                     /\ t.type = "ACCEPT" => t.newKey \in AgreedKeys}

GoodKey(c, k) == k \in AgreedKeys \/ (reloads[c] > 0 /\ k \in OwnKeys(c))

DerivingBy(c) ==
    {t \in Deriving :
        /\ t.type = "ACCEPT" => /\ t.rid \in EphsOf(Peer(c)) /\ t.eph \in EphsOf(c)
                                /\ t.newKey \in AgreedKeys
        /\ t.type = "CONFIRM" => t.rid \in Rids /\ GoodKey(c, t.newKey)}

RequestStored(c, p) ==
    p.rid # None => p.rid \in EphsOf(Peer(c)) /\ p.eph = p.rid

\* localStorage holds a private half of the page's own, and for a rotation it
\* asked for the very pair of the request.
SlotOK(c) ==
    slot[c].rid # None =>
        /\ slot[c].eph \in EphsOf(c)
        /\ slot[c].rid \in EphsOf(c) => slot[c].eph = slot[c].rid

RotOK(c) ==
    /\ RequestStored(c, rot[c].pend)
    /\ rot[c].status = "REQUEST" =>
           /\ rot[c].priv \in EphsOf(c)
           /\ rot[c].cur \in EphsOf(c) => rot[c].priv = rot[c].cur

IInv ==
    /\ TypeOK
    /\ log \in Seq(Messages)
    /\ \A c \in Clients :
        /\ inbox[c] \in Seq(MessagesFrom(Peer(c)))
        /\ queue[c] \in Seq(MessagesFrom(c))
        /\ sending[c] \subseteq SendingFrom(c)
        /\ deriving[c] \subseteq DerivingBy(c)
        /\ SlotOK(c) /\ RotOK(c)
    /\ KeyOrigin

\* The invariant holds when a page has just been opened on both sides.
LEMMA InitIInv == Init => IInv
<1> SUFFICES ASSUME Init PROVE IInv
  OBVIOUS
<1>1. TypeOK
  BY StartingValues, BoundsAssumption DEF Init, TypeOK
<1>2. KeyOrigin
  BY DEF Init, KeyOrigin
<1>3. \A c \in Clients : SlotOK(c) /\ RotOK(c)
  BY DEF Init, SlotOK, RotOK, NoSaved, Idle, RequestStored
<1> QED
  BY <1>1, <1>2, <1>3 DEF Init, IInv

-----------------------------------------------------------------------------
(* What the shared effects preserve *)

\* Sending a message that is well formed keeps queues, sockets and the database so.
LEMMA SentKeeps ==
    ASSUME IInv, NEW c \in Clients, NEW t \in sending[c], Sent(c, t)
    PROVE  /\ sending' \in [Clients -> SUBSET Sending]
           /\ queue' \in [Clients -> Seq(Message)]
           /\ inbox' \in [Clients -> Seq(Message)]
           /\ log' \in Seq(Message) /\ log' \in Seq(Messages)
           /\ drops' \in 0..MaxDrops
           /\ \A d \in Clients :
                 /\ inbox'[d] \in Seq(MessagesFrom(Peer(d)))
                 /\ queue'[d] \in Seq(MessagesFrom(d))
                 /\ sending'[d] \subseteq SendingFrom(d)
<1> DEFINE m == [type |-> t.type, from |-> c, rid |-> t.rid, eph |-> t.eph,
                 enc |-> t.enc, label |-> key[c]]
<1>1. m \in MessagesFrom(c)
  <2>1. t \in Sending /\ WellFormed(c, t) /\ key[c] \in SessionKey
    BY DEF IInv, TypeOK, SendingFrom
  <2> QED
    BY <2>1 DEF Sending, Message, MessagesFrom, WellFormed
<1>2. m \in Message /\ m \in Messages
  BY <1>1 DEF MessagesFrom, Messages
<1> HIDE DEF m
<1>3. sending' \in [Clients -> SUBSET Sending] /\ \A d \in Clients : sending'[d] \subseteq sending[d]
  BY DEF IInv, TypeOK, Sent
<1>4. CASE Forward(c, <<m>>) /\ UNCHANGED <<queue, drops>>
  <2>1. log' \in Seq(Message) /\ log' \in Seq(Messages)
    BY <1>2, <1>4 DEF IInv, TypeOK, Forward
  <2>2. inbox' \in [Clients -> Seq(Message)]
    BY <1>2, <1>4, PeerIsClient DEF IInv, TypeOK, Forward
  <2>3. \A d \in Clients : inbox'[d] \in Seq(MessagesFrom(Peer(d)))
    BY <1>1, <1>4, PeerIsClient DEF IInv, TypeOK, Forward
  <2> QED
    BY <1>3, <1>4, <2>1, <2>2, <2>3 DEF IInv, TypeOK
<1>5. CASE drops < MaxDrops /\ drops' = drops + 1 /\ UNCHANGED <<queue, inbox, log>>
  BY <1>3, <1>5, BoundsAssumption DEF IInv, TypeOK
<1>6. CASE queue' = [queue EXCEPT ![c] = Append(@, m)] /\ UNCHANGED net
  BY <1>1, <1>2, <1>3, <1>6 DEF IInv, TypeOK, net
<1> QED
  BY <1>4, <1>5, <1>6 DEF Sent, m

\* What isRotationResolved answers from is a set of rotation ids.
LEMMA LoadMessagesType ==
    ASSUME TypeOK, NEW c \in Clients, log' \in Seq(Message), LoadMessages(c)
    PROVE  resolved' \in [Clients -> SUBSET (Rids \cup {None})]
<1>1. ASSUME NEW l \in Seq(Message)
      PROVE  ResolvedIn(l) \subseteq Rids \cup {None}
  <2>1. \A i \in DOMAIN l : l[i] \in Message
    OBVIOUS
  <2>2. \A i \in DOMAIN l : l[i].rid \in Rids \cup {None}
    BY <2>1 DEF Message
  <2> QED
    BY <2>2 DEF ResolvedIn, History
<1> QED
  BY <1>1, ResolvedIn(log') \subseteq Rids \cup {None} DEF LoadMessages, TypeOK

\* What a handler takes off the socket is a well-formed message of the other side.
LEMMA TakingKeeps ==
    ASSUME IInv, NEW c \in Clients, NEW type \in Types, Taking(c, type)
    PROVE  /\ Head(inbox[c]) \in MessagesFrom(Peer(c))
           /\ Head(inbox[c]).type = type
           /\ seen' \in [Clients -> SUBSET ((Rids \cup {None}) \X Types)]
           /\ inbox' \in [Clients -> Seq(Message)]
           /\ \A d \in Clients : inbox'[d] \in Seq(MessagesFrom(Peer(d)))
<1>1. Head(inbox[c]) \in MessagesFrom(Peer(c)) /\ Tail(inbox[c]) \in Seq(MessagesFrom(Peer(c)))
  BY DEF IInv, Taking
<1>2. Head(inbox[c]) \in Message /\ Tail(inbox[c]) \in Seq(Message)
  BY DEF IInv, TypeOK, Taking
<1>3. <<Head(inbox[c]).rid, type>> \in (Rids \cup {None}) \X Types
  BY <1>2 DEF Message
<1>4. seen' \in [Clients -> SUBSET ((Rids \cup {None}) \X Types)]
  BY <1>3 DEF Taking, IInv, TypeOK
<1>5. inbox' \in [Clients -> Seq(Message)]
  BY <1>2 DEF Taking, IInv, TypeOK
<1>6. \A d \in Clients : inbox'[d] \in Seq(MessagesFrom(Peer(d)))
  BY <1>1 DEF Taking, IInv, TypeOK
<1> QED
  BY <1>1, <1>4, <1>5, <1>6 DEF Taking

\* Forgetting a rotation, with or without the slot, leaves nothing to be wrong.
LEMMA ForgetKeeps ==
    ASSUME IInv, NEW c \in Clients, CompleteRotation(c) \/ ResetRotation(c)
    PROVE  /\ rot' \in [Clients -> Rotation] /\ slot' \in [Clients -> Saved]
           /\ \A d \in Clients : SlotOK(d)' /\ RotOK(d)'
<1>1. rot' \in [Clients -> Rotation] /\ slot' \in [Clients -> Saved]
  BY StartingValues DEF IInv, TypeOK, CompleteRotation, ResetRotation, SetRot
<1>2. ASSUME NEW d \in Clients PROVE SlotOK(d)' /\ RotOK(d)'
  <2>1. rot'[d] = Idle \/ rot'[d] = rot[d]
    BY DEF IInv, TypeOK, CompleteRotation, ResetRotation, SetRot
  <2>2. slot'[d] = NoSaved \/ slot'[d] = slot[d]
    BY DEF IInv, TypeOK, CompleteRotation, ResetRotation
  <2>3. SlotOK(d)'
    BY <2>2 DEF IInv, SlotOK, NoSaved
  <2>4. RotOK(d)'
    BY <2>1 DEF IInv, RotOK, RequestStored, Idle, NoSaved
  <2> QED
    BY <2>3, <2>4
<1> QED
  BY <1>1, <1>2

-----------------------------------------------------------------------------
(* The handlers of the user and what follows them *)

LEMMA InitiateKeeps ==
    ASSUME IInv, NEW c \in Clients, Initiate(c)
    PROVE  IInv'
<1> DEFINE e == NextEph(c)
<1>1. e \in EphsOf(c) /\ used' \in [Clients -> 0..MaxEph]
  BY NextEphType DEF Initiate, MakeEph, IInv, TypeOK
<1>2. e \in Ephs /\ e \in Rids /\ e # None /\ key[c] \in SessionKey
  BY <1>1, EphOwners DEF IInv, TypeOK
<1>3. CASE /\ SetRot(c, [isPending |-> TRUE, status |-> "REQUEST", cur |-> e,
                        pend |-> NoSaved, priv |-> e])
           /\ SaveEphPrivateKey(c, e, e)
           /\ StartSend(c, "REQUEST", e, e, key[c], key[c])
  <2> HIDE DEF e
  <2>1. rot' \in [Clients -> Rotation] /\ slot' \in [Clients -> Saved]
    BY <1>2, <1>3, StartingValues
    DEF IInv, TypeOK, SetRot, SaveEphPrivateKey, Rotation, Statuses, Saved
  <2>2. \A d \in Clients : SlotOK(d)' /\ RotOK(d)'
    BY <1>1, <1>2, <1>3
    DEF IInv, TypeOK, SetRot, SaveEphPrivateKey, SlotOK, RotOK, RequestStored, NoSaved
  <2>3. /\ sending' \in [Clients -> SUBSET Sending]
        /\ \A d \in Clients : sending'[d] \subseteq SendingFrom(d)
    <3> DEFINE t == [type |-> "REQUEST", rid |-> e, eph |-> e, enc |-> key[c], newKey |-> key[c]]
    <3>1. t \in SendingFrom(c) /\ t \in Sending
      BY <1>1, <1>2 DEF SendingFrom, Sending, Types, WellFormed
    <3> HIDE DEF t
    <3>2. sending' = [sending EXCEPT ![c] = @ \cup {t}]
      BY <1>3 DEF StartSend, t
    <3> QED
      BY <3>1, <3>2 DEF IInv, TypeOK
  <2> QED
    BY <1>1, <2>1, <2>2, <2>3
    DEF Initiate, IInv, TypeOK, net, KeyOrigin, DerivingBy, GoodKey
<1>4. CASE ResetRotation(c) /\ UNCHANGED sending
  BY <1>1, <1>4, ForgetKeeps
  DEF Initiate, IInv, TypeOK, net, KeyOrigin, DerivingBy, GoodKey
<1> QED
  BY <1>3, <1>4 DEF Initiate

LEMMA AcceptKeeps ==
    ASSUME IInv, NEW c \in Clients, Accept(c)
    PROVE  IInv'
<1> DEFINE p == rot[c].pend
           e == NextEph(c)
           t == [type |-> "ACCEPT", rid |-> p.rid, eph |-> e,
                 newKey |-> DeriveNewKey(p.rid, e, p.eph)]
<1>1. e \in EphsOf(c) /\ used' \in [Clients -> 0..MaxEph]
  BY NextEphType DEF Accept, MakeEph, IInv, TypeOK
<1>2. p.rid \in EphsOf(Peer(c)) /\ p.eph = p.rid
  BY DEF Accept, CanAnswer, IInv, RotOK, RequestStored
<1>3. DeriveNewKey(p.rid, e, p.eph) \in AgreedKeys \cap SessionKey
  BY <1>1, <1>2, AgreedKeyType, PeerIsClient
<1>4. t \in Deriving /\ t \in DerivingBy(c)
  BY <1>1, <1>2, <1>3, EphOwners, PeerIsClient DEF Deriving, DerivingBy
<1>5. deriving' = [deriving EXCEPT ![c] = @ \cup {t}]
  BY DEF Accept, StartDerive
<1> HIDE DEF t, e, p
<1>6. /\ deriving' \in [Clients -> SUBSET Deriving]
      /\ \A d \in Clients : deriving'[d] \subseteq DerivingBy(d)
  BY <1>4, <1>5 DEF IInv, TypeOK
<1> QED
  BY <1>1, <1>6
  DEF Accept, IInv, TypeOK, net, KeyOrigin, DerivingBy, GoodKey, SlotOK, RotOK, RequestStored

LEMMA AcceptExpiredKeeps ==
    ASSUME IInv, NEW c \in Clients, AcceptExpired(c)
    PROVE  IInv'
<1>1. resolved' \in [Clients -> SUBSET (Rids \cup {None})]
  BY LoadMessagesType DEF AcceptExpired, IInv, TypeOK, net
<1> QED
  BY <1>1, ForgetKeeps
  DEF AcceptExpired, IInv, TypeOK, net, counters, KeyOrigin, DerivingBy, GoodKey

LEMMA AcceptDerivedKeeps ==
    ASSUME IInv, NEW c \in Clients, AcceptDerived(c)
    PROVE  IInv'
<1>1. PICK t \in deriving[c] :
        /\ t.type = "ACCEPT"
        /\ deriving' = [deriving EXCEPT ![c] = @ \ {t}]
        /\ UNCHANGED net
        /\ \/ /\ rot[c].pend.rid = None
              /\ ResetRotation(c)
              /\ LoadMessages(c)
              /\ UNCHANGED sending
           \/ /\ rot[c].pend.rid # None
              /\ SaveEphPrivateKey(c, t.rid, t.eph)
              /\ SetRot(c, [isPending |-> TRUE, status |-> "ACCEPT", cur |-> t.rid,
                            pend |-> IF connected[c] THEN rot[c].pend ELSE NoSaved,
                            priv |-> t.eph])
              /\ IF connected[c]
                 THEN /\ StartSend(c, "ACCEPT", t.rid, t.eph, key[c], t.newKey)
                      /\ UNCHANGED resolved
                 ELSE LoadMessages(c) /\ UNCHANGED sending
        /\ UNCHANGED <<key, seen, queue, connected, expired, counters>>
  BY DEF AcceptDerived
<1>2. /\ t \in Deriving /\ t.rid \in EphsOf(Peer(c)) /\ t.eph \in EphsOf(c)
      /\ t.newKey \in AgreedKeys
  BY <1>1 DEF IInv, TypeOK, DerivingBy
<1>3. /\ deriving' \in [Clients -> SUBSET Deriving]
      /\ \A d \in Clients : deriving'[d] \subseteq deriving[d]
  BY <1>1 DEF IInv, TypeOK
<1>4. LoadMessages(c) => resolved' \in [Clients -> SUBSET (Rids \cup {None})]
  BY <1>1, LoadMessagesType DEF IInv, TypeOK, net
<1>5. CASE ResetRotation(c) /\ LoadMessages(c) /\ UNCHANGED sending
  BY <1>1, <1>3, <1>4, <1>5, ForgetKeeps
  DEF IInv, TypeOK, net, counters, KeyOrigin, DerivingBy, GoodKey
<1>6. CASE /\ SaveEphPrivateKey(c, t.rid, t.eph)
           /\ SetRot(c, [isPending |-> TRUE, status |-> "ACCEPT", cur |-> t.rid,
                         pend |-> IF connected[c] THEN rot[c].pend ELSE NoSaved,
                         priv |-> t.eph])
           /\ IF connected[c]
              THEN /\ StartSend(c, "ACCEPT", t.rid, t.eph, key[c], t.newKey)
                   /\ UNCHANGED resolved
              ELSE LoadMessages(c) /\ UNCHANGED sending
  <2>1. t.rid \in Rids /\ t.eph \in Ephs
    BY <1>2, EphOwners, PeerIsClient
  <2>2. rot' \in [Clients -> Rotation] /\ slot' \in [Clients -> Saved]
    BY <1>6, <2>1, StartingValues
    DEF IInv, TypeOK, SetRot, SaveEphPrivateKey, Rotation, Statuses, Saved
  <2>3. \A d \in Clients : SlotOK(d)' /\ RotOK(d)'
    <3>1. t.rid \notin EphsOf(c)
      BY <1>2, EphOwners, PeerIsClient
    <3> QED
      BY <1>2, <1>6, <3>1
      DEF IInv, TypeOK, SetRot, SaveEphPrivateKey, SlotOK, RotOK, RequestStored, NoSaved
  <2>4. /\ sending' \in [Clients -> SUBSET Sending]
        /\ \A d \in Clients : sending'[d] \subseteq SendingFrom(d)
    <3> DEFINE u == [type |-> "ACCEPT", rid |-> t.rid, eph |-> t.eph, enc |-> key[c],
                     newKey |-> t.newKey]
    <3>1. key[c] \in SessionKey /\ t.newKey \in SessionKey
      BY <1>2 DEF IInv, TypeOK, Deriving
    <3>2. u \in SendingFrom(c) /\ u \in Sending
      BY <1>2, <2>1, <3>1 DEF SendingFrom, Sending, Types, WellFormed
    <3> HIDE DEF u
    <3>3. CASE sending' = [sending EXCEPT ![c] = @ \cup {u}]
      BY <3>2, <3>3 DEF IInv, TypeOK
    <3>4. CASE sending' = sending
      BY <3>4 DEF IInv, TypeOK
    <3> QED
      BY <1>6, <3>3, <3>4 DEF StartSend, u
  <2>5. resolved' \in [Clients -> SUBSET (Rids \cup {None})]
    BY <1>4, <1>6 DEF IInv, TypeOK
  <2> QED
    BY <1>1, <1>3, <2>2, <2>3, <2>4, <2>5
    DEF IInv, TypeOK, net, counters, KeyOrigin, DerivingBy, GoodKey
<1> QED
  BY <1>1, <1>5, <1>6

LEMMA RejectKeeps ==
    ASSUME IInv, NEW c \in Clients, Reject(c)
    PROVE  IInv'
<1>1. CASE /\ StartSend(c, "REJECT", rot[c].pend.rid, None, key[c], key[c])
           /\ UNCHANGED <<rot, slot, resolved>>
  <2> DEFINE t == [type |-> "REJECT", rid |-> rot[c].pend.rid, eph |-> None,
                   enc |-> key[c], newKey |-> key[c]]
  <2>1. rot[c].pend.rid \in Rids /\ key[c] \in SessionKey
    BY DEF Reject, CanAnswer, IInv, TypeOK, Rotation, Saved
  <2>2. t \in SendingFrom(c) /\ t \in Sending
    BY <2>1 DEF SendingFrom, Sending, Types, WellFormed
  <2> HIDE DEF t
  <2>3. sending' = [sending EXCEPT ![c] = @ \cup {t}]
    BY <1>1 DEF StartSend, t
  <2>4. /\ sending' \in [Clients -> SUBSET Sending]
        /\ \A d \in Clients : sending'[d] \subseteq SendingFrom(d)
    BY <2>2, <2>3 DEF IInv, TypeOK
  <2> QED
    BY <1>1, <2>4
    DEF Reject, IInv, TypeOK, net, counters, KeyOrigin, DerivingBy, GoodKey, SlotOK, RotOK,
        RequestStored
<1>2. CASE ResetRotation(c) /\ LoadMessages(c) /\ UNCHANGED sending
  <2>1. resolved' \in [Clients -> SUBSET (Rids \cup {None})]
    BY <1>2, LoadMessagesType DEF Reject, IInv, TypeOK, net
  <2> QED
    BY <1>2, <2>1, ForgetKeeps
    DEF Reject, IInv, TypeOK, net, counters, KeyOrigin, DerivingBy, GoodKey
<1> QED
  BY <1>1, <1>2 DEF Reject

LEMMA SendTextKeeps ==
    ASSUME IInv, NEW c \in Clients, SendText(c)
    PROVE  IInv'
<1> DEFINE t == [type |-> "TEXT", rid |-> None, eph |-> None, enc |-> key[c],
                 newKey |-> key[c]]
<1>1. t \in SendingFrom(c) /\ t \in Sending
  BY DEF IInv, TypeOK, SendingFrom, Sending, Types, WellFormed
<1> HIDE DEF t
<1>2. sending' = [sending EXCEPT ![c] = @ \cup {t}]
  BY DEF SendText, StartSend, t
<1>3. /\ sending' \in [Clients -> SUBSET Sending]
      /\ \A d \in Clients : sending'[d] \subseteq SendingFrom(d)
  BY <1>1, <1>2 DEF IInv, TypeOK
<1>4. texts' \in 0..MaxTexts
  BY BoundsAssumption DEF SendText, IInv, TypeOK
<1> QED
  BY <1>3, <1>4
  DEF SendText, IInv, TypeOK, net, KeyOrigin, DerivingBy, GoodKey, SlotOK, RotOK,
      RequestStored

LEMMA RequestOrConfirmSentKeeps ==
    ASSUME IInv, NEW c \in Clients, RequestOrConfirmSent(c)
    PROVE  IInv'
BY SentKeeps
DEF RequestOrConfirmSent, IInv, TypeOK, counters, KeyOrigin, DerivingBy, GoodKey, SlotOK,
    RotOK, RequestStored

LEMMA AcceptSentKeeps ==
    ASSUME IInv, NEW c \in Clients, AcceptSent(c)
    PROVE  IInv'
<1>1. PICK t \in sending[c] :
        /\ t.type = "ACCEPT"
        /\ Sent(c, t)
        /\ ActivateNewKey(c, t.newKey)
        /\ SetRot(c, [rot[c] EXCEPT !.pend = NoSaved])
        /\ LoadMessages(c)
        /\ UNCHANGED <<deriving, seen, slot, connected, expired, counters>>
  BY DEF AcceptSent
<1>2. t.newKey \in SessionKey /\ t.newKey \in AgreedKeys
  BY <1>1 DEF IInv, TypeOK, Sending, SendingFrom
<1>3. key' \in [Clients -> SessionKey] /\ KeyOrigin'
  BY <1>1, <1>2 DEF ActivateNewKey, IInv, TypeOK, KeyOrigin, counters
<1>4. rot' \in [Clients -> Rotation] /\ \A d \in Clients : RotOK(d)'
  BY <1>1, StartingValues
  DEF IInv, TypeOK, SetRot, Rotation, RotOK, RequestStored, NoSaved
<1>5. resolved' \in [Clients -> SUBSET (Rids \cup {None})]
  BY <1>1, SentKeeps, LoadMessagesType DEF IInv
<1> QED
  BY <1>1, <1>3, <1>4, <1>5, SentKeeps
  DEF IInv, TypeOK, counters, DerivingBy, GoodKey, SlotOK

LEMMA RejectSentKeeps ==
    ASSUME IInv, NEW c \in Clients, RejectSent(c)
    PROVE  IInv'
<1>1. PICK t \in sending[c] :
        /\ Sent(c, t)
        /\ ResetRotation(c)
        /\ LoadMessages(c)
        /\ UNCHANGED <<deriving, key, seen, connected, expired, counters>>
  BY DEF RejectSent
<1>2. resolved' \in [Clients -> SUBSET (Rids \cup {None})]
  BY <1>1, SentKeeps, LoadMessagesType DEF IInv
<1> QED
  BY <1>1, <1>2, SentKeeps, ForgetKeeps
  DEF IInv, TypeOK, counters, KeyOrigin, DerivingBy, GoodKey

LEMMA CompleteSentKeeps ==
    ASSUME IInv, NEW c \in Clients, CompleteSent(c)
    PROVE  IInv'
<1>1. PICK t \in sending[c] :
        /\ Sent(c, t)
        /\ CompleteRotation(c)
        /\ LoadMessages(c)
        /\ UNCHANGED <<deriving, key, seen, connected, expired, counters>>
  BY DEF CompleteSent
<1>2. resolved' \in [Clients -> SUBSET (Rids \cup {None})]
  BY <1>1, SentKeeps, LoadMessagesType DEF IInv
<1> QED
  BY <1>1, <1>2, SentKeeps, ForgetKeeps
  DEF IInv, TypeOK, counters, KeyOrigin, DerivingBy, GoodKey

LEMMA TextSentKeeps ==
    ASSUME IInv, NEW c \in Clients, TextSent(c)
    PROVE  IInv'
<1>1. PICK t \in sending[c] :
        /\ \/ connected[c] /\ Sent(c, t)
           \/ /\ ~connected[c]
              /\ sending' = [sending EXCEPT ![c] = @ \ {t}]
              /\ UNCHANGED <<queue, net>>
        /\ UNCHANGED <<rot, deriving, key, seen, resolved, slot, connected,
                       expired, counters>>
  BY DEF TextSent
<1>2. CASE Sent(c, t)
  BY <1>1, <1>2, SentKeeps
  DEF IInv, TypeOK, counters, KeyOrigin, DerivingBy, GoodKey, SlotOK, RotOK, RequestStored
<1>3. CASE sending' = [sending EXCEPT ![c] = @ \ {t}] /\ UNCHANGED <<queue, net>>
  <2>1. /\ sending' \in [Clients -> SUBSET Sending]
        /\ \A d \in Clients : sending'[d] \subseteq sending[d]
    BY <1>3 DEF IInv, TypeOK
  <2> QED
    BY <1>1, <1>3, <2>1
    DEF IInv, TypeOK, net, counters, KeyOrigin, DerivingBy, GoodKey, SlotOK, RotOK,
        RequestStored
<1> QED
  BY <1>1, <1>2, <1>3

LEMMA ConfirmDerivedKeeps ==
    ASSUME IInv, NEW c \in Clients, ConfirmDerived(c)
    PROVE  IInv'
<1>1. PICK t \in deriving[c] :
        /\ t.type = "CONFIRM"
        /\ deriving' = [deriving EXCEPT ![c] = @ \ {t}]
        /\ SetRot(c, [rot[c] EXCEPT !.status = "CONFIRM"])
        /\ ActivateNewKey(c, t.newKey)
        /\ IF connected[c]
           THEN StartSend(c, "CONFIRM", t.rid, None, t.newKey, t.newKey)
           ELSE UNCHANGED sending
        /\ UNCHANGED <<seen, resolved, queue, slot, net, connected, expired, counters>>
  BY DEF ConfirmDerived
<1>2. t \in Deriving /\ t.rid \in Rids /\ t.newKey \in SessionKey /\ GoodKey(c, t.newKey)
  BY <1>1 DEF IInv, TypeOK, DerivingBy, Deriving
<1>3. /\ deriving' \in [Clients -> SUBSET Deriving]
      /\ \A d \in Clients : deriving'[d] \subseteq deriving[d]
  BY <1>1 DEF IInv, TypeOK
<1>4. key' \in [Clients -> SessionKey] /\ KeyOrigin'
  BY <1>1, <1>2 DEF ActivateNewKey, IInv, TypeOK, KeyOrigin, GoodKey, counters
<1>5. rot' \in [Clients -> Rotation] /\ \A d \in Clients : RotOK(d)'
  <2> DEFINE r == [rot[c] EXCEPT !.status = "CONFIRM"]
  <2>1. r \in Rotation /\ r.status = "CONFIRM" /\ r.pend = rot[c].pend
    <3>1. rot[c] \in Rotation /\ "CONFIRM" \in Statuses
      BY DEF IInv, TypeOK, Statuses
    <3> QED
      BY <3>1, StatusType
  <2> HIDE DEF r
  <2>2. rot' = [rot EXCEPT ![c] = r]
    BY <1>1 DEF SetRot, r
  <2> QED
    BY <2>1, <2>2 DEF IInv, TypeOK, RotOK, RequestStored
<1>6. /\ sending' \in [Clients -> SUBSET Sending]
      /\ \A d \in Clients : sending'[d] \subseteq SendingFrom(d)
  <2> DEFINE u == [type |-> "CONFIRM", rid |-> t.rid, eph |-> None, enc |-> t.newKey,
                   newKey |-> t.newKey]
  <2>1. u \in SendingFrom(c) /\ u \in Sending
    BY <1>2 DEF SendingFrom, Sending, Types, WellFormed
  <2> HIDE DEF u
  <2>2. CASE sending' = [sending EXCEPT ![c] = @ \cup {u}]
    BY <2>1, <2>2 DEF IInv, TypeOK
  <2>3. CASE sending' = sending
    BY <2>3 DEF IInv, TypeOK
  <2> QED
    BY <1>1, <2>2, <2>3 DEF StartSend, u
<1> QED
  BY <1>1, <1>3, <1>4, <1>5, <1>6
  DEF IInv, TypeOK, net, counters, DerivingBy, GoodKey, SlotOK

-----------------------------------------------------------------------------
(* The handlers of incoming messages *)

LEMMA ShowOrIgnoreKeeps ==
    ASSUME IInv, NEW c \in Clients, ShowOrIgnore(c)
    PROVE  IInv'
<1>1. /\ Tail(inbox[c]) \in Seq(MessagesFrom(Peer(c)))
      /\ Tail(inbox[c]) \in Seq(Message)
  BY DEF IInv, TypeOK, ShowOrIgnore
<1>2. /\ inbox' \in [Clients -> Seq(Message)]
      /\ \A d \in Clients : inbox'[d] \in Seq(MessagesFrom(Peer(d)))
  BY <1>1 DEF IInv, TypeOK, ShowOrIgnore
<1> QED
  BY <1>2
  DEF ShowOrIgnore, IInv, TypeOK, page, counters, KeyOrigin, DerivingBy, GoodKey, SlotOK,
      RotOK, RequestStored

LEMMA ProcessIncomingRequestKeeps ==
    ASSUME IInv, NEW c \in Clients, ProcessIncomingRequest(c)
    PROVE  IInv'
<1> DEFINE m == Head(inbox[c])
<1>1. Taking(c, "REQUEST") /\ "REQUEST" \in Types
  BY DEF ProcessIncomingRequest, Types
<1>2. m.rid \in EphsOf(Peer(c)) /\ m.eph = m.rid
  BY <1>1, TakingKeeps DEF MessagesFrom, WellFormed
<1>3. m.rid \in Rids /\ m.eph \in Ephs
  BY <1>2, EphOwners, PeerIsClient
<1> DEFINE r == [isPending |-> TRUE, status |-> "PENDING_REQUEST",
                 cur |-> m.rid, pend |-> [rid |-> m.rid, eph |-> m.eph],
                 priv |-> rot[c].priv]
<1>4. rot' = [rot EXCEPT ![c] = r] \/ rot' = rot
  BY DEF ProcessIncomingRequest, SetRot
<1> HIDE DEF m
<1>5. /\ r \in Rotation
      /\ r.status = "PENDING_REQUEST" /\ r.pend.rid = m.rid /\ r.pend.eph = m.eph
  <2>1. rot[c].priv \in Ephs \cup {None}
    BY DEF IInv, TypeOK, Rotation
  <2> QED
    BY <1>3, <2>1 DEF Rotation, Statuses, Saved
<1> HIDE DEF r
<1>6. rot' \in [Clients -> Rotation] /\ \A d \in Clients : RotOK(d)'
  BY <1>2, <1>4, <1>5 DEF IInv, TypeOK, RotOK, RequestStored
<1> QED
  BY <1>1, <1>6, TakingKeeps
  DEF ProcessIncomingRequest, IInv, TypeOK, counters, KeyOrigin, DerivingBy, GoodKey, SlotOK

LEMMA ProcessAcceptKeeps ==
    ASSUME IInv, NEW c \in Clients, ProcessAccept(c)
    PROVE  IInv'
<1> DEFINE m == Head(inbox[c])
           r == Adopt(c, m.rid, "REQUEST")
           t == [type |-> "CONFIRM", rid |-> m.rid, eph |-> None,
                 newKey |-> DeriveNewKey(m.rid, r.priv, m.eph)]
<1>1. Taking(c, "ACCEPT") /\ "ACCEPT" \in Types
  BY DEF ProcessAccept, Types
<1>2. m.rid \in EphsOf(c) /\ m.eph \in EphsOf(Peer(c))
  BY <1>1, TakingKeeps, PeerIsClient DEF MessagesFrom, WellFormed
<1>3. m.rid \in Rids /\ m.rid # None
  BY <1>2, EphOwners
<1>4. CASE HasSavedKey(c, m.rid) /\ r.status = "REQUEST"
  <2>1. SetRot(c, r) /\ deriving' = [deriving EXCEPT ![c] = @ \cup {t}]
    BY <1>4 DEF ProcessAccept, StartDerive
  <2>2. slot[c].rid = m.rid /\ slot[c].eph = m.rid
    BY <1>2, <1>3, <1>4 DEF HasSavedKey, IInv, SlotOK
  <2>3. r \in Rotation /\ r.pend = rot[c].pend /\ r.cur = m.rid /\ r.priv = m.rid
    <3>1. CASE rot[c].cur = m.rid
      <4>1. r = rot[c] /\ r.status = "REQUEST"
        BY <1>4, <3>1 DEF Adopt
      <4> QED
        BY <1>2, <3>1, <4>1 DEF IInv, TypeOK, RotOK
    <3>2. CASE rot[c].cur # m.rid
      <4>1. r = [rot[c] EXCEPT !.isPending = TRUE, !.status = "REQUEST", !.cur = m.rid,
                               !.priv = slot[c].eph]
        BY <3>2 DEF Adopt
      <4> HIDE DEF r, m
      <4>2. rot[c] \in Rotation /\ slot[c].eph \in Ephs
        BY <1>3, <2>2 DEF IInv, TypeOK, Rids
      <4> QED
        BY <1>3, <2>2, <4>1, <4>2 DEF Rotation, Statuses
    <3> QED
      BY <3>1, <3>2
  <2>4. r.status = "REQUEST"
    BY <1>4
  <2>5. /\ DeriveNewKey(m.rid, m.rid, m.eph) \in AgreedKeys
        /\ DeriveNewKey(m.rid, m.rid, m.eph) \in SessionKey
    BY <1>2, AgreedKeyType
  <2>6. t \in Deriving /\ t \in DerivingBy(c)
    BY <1>3, <2>3, <2>5 DEF Deriving, DerivingBy, GoodKey
  <2> HIDE DEF m, r, t
  <2>7. rot' \in [Clients -> Rotation] /\ \A d \in Clients : RotOK(d)'
    BY <1>2, <2>1, <2>3, <2>4 DEF SetRot, IInv, TypeOK, RotOK, RequestStored
  <2>8. /\ deriving' \in [Clients -> SUBSET Deriving]
        /\ \A d \in Clients : deriving'[d] \subseteq DerivingBy(d)
    BY <2>1, <2>6 DEF IInv, TypeOK
  <2> QED
    BY <1>1, <2>7, <2>8, TakingKeeps
    DEF ProcessAccept, IInv, TypeOK, counters, KeyOrigin, DerivingBy, GoodKey, SlotOK
<1>5. CASE UNCHANGED <<rot, deriving>>
  BY <1>1, <1>5, TakingKeeps
  DEF ProcessAccept, IInv, TypeOK, counters, KeyOrigin, DerivingBy, GoodKey, SlotOK, RotOK,
      RequestStored
<1> QED
  BY <1>4, <1>5 DEF ProcessAccept

LEMMA ProcessConfirmKeeps ==
    ASSUME IInv, NEW c \in Clients, ProcessConfirm(c)
    PROVE  IInv'
<1> DEFINE m == Head(inbox[c])
           r == Adopt(c, m.rid, "ACCEPT")
<1>1. Taking(c, "CONFIRM") /\ "CONFIRM" \in Types /\ UNCHANGED <<log, drops>>
  BY DEF ProcessConfirm, Types
<1>2. m.rid \in Rids /\ m.rid # None
  BY <1>1, TakingKeeps, NoneIsNoEph DEF MessagesFrom, WellFormed, Rids
<1>3. CASE UNCHANGED <<rot, sending, slot, resolved>>
  BY <1>1, <1>3, TakingKeeps
  DEF ProcessConfirm, IInv, TypeOK, counters, KeyOrigin, DerivingBy, GoodKey, SlotOK, RotOK,
      RequestStored
<1>4. CASE /\ HasSavedKey(c, m.rid)
           /\ SetRot(c, [r EXCEPT !.status = "COMPLETE"])
           /\ StartSend(c, "COMPLETE", m.rid, None, key[c], key[c])
           /\ UNCHANGED <<slot, resolved>>
  <2> DEFINE q == [r EXCEPT !.status = "COMPLETE"]
             t == [type |-> "COMPLETE", rid |-> m.rid, eph |-> None, enc |-> key[c],
                   newKey |-> key[c]]
  <2>1. rot' = [rot EXCEPT ![c] = q] /\ sending' = [sending EXCEPT ![c] = @ \cup {t}]
    BY <1>4 DEF SetRot, StartSend
  <2>2. t \in SendingFrom(c) /\ t \in Sending
    BY <1>2 DEF IInv, TypeOK, SendingFrom, Sending, Types, WellFormed
  <2> HIDE DEF m, t
  <2>3. r \in Rotation /\ r.pend = rot[c].pend
    <3>1. "ACCEPT" \in Statuses
      BY DEF Statuses
    <3> QED
      BY <1>2, <3>1, AdoptType DEF IInv
  <2> HIDE DEF r
  <2>4. q \in Rotation /\ q.status = "COMPLETE" /\ q.pend = rot[c].pend
    BY <2>3 DEF Rotation, Statuses
  <2> HIDE DEF q
  <2>5. rot' \in [Clients -> Rotation] /\ \A d \in Clients : RotOK(d)'
    BY <2>1, <2>4 DEF IInv, TypeOK, RotOK, RequestStored
  <2>6. /\ sending' \in [Clients -> SUBSET Sending]
        /\ \A d \in Clients : sending'[d] \subseteq SendingFrom(d)
    BY <2>1, <2>2 DEF IInv, TypeOK
  <2> QED
    BY <1>1, <1>4, <2>5, <2>6, TakingKeeps
    DEF ProcessConfirm, IInv, TypeOK, counters, KeyOrigin, DerivingBy, GoodKey, SlotOK
<1>5. CASE CompleteRotation(c) /\ LoadMessages(c) /\ UNCHANGED sending
  <2>1. resolved' \in [Clients -> SUBSET (Rids \cup {None})]
    BY <1>1, <1>5, LoadMessagesType DEF IInv, TypeOK
  <2> QED
    BY <1>1, <1>5, <2>1, TakingKeeps, ForgetKeeps
    DEF ProcessConfirm, IInv, TypeOK, counters, KeyOrigin, DerivingBy, GoodKey
<1> QED
  BY <1>3, <1>4, <1>5 DEF ProcessConfirm

LEMMA ProcessCompleteKeeps ==
    ASSUME IInv, NEW c \in Clients, ProcessComplete(c)
    PROVE  IInv'
<1>1. Taking(c, "COMPLETE") /\ "COMPLETE" \in Types
  BY DEF ProcessComplete, Types
<1>2. resolved' \in [Clients -> SUBSET (Rids \cup {None})]
  BY LoadMessagesType DEF ProcessComplete, IInv, TypeOK
<1> QED
  BY <1>1, <1>2, TakingKeeps, ForgetKeeps
  DEF ProcessComplete, IInv, TypeOK, counters, KeyOrigin, DerivingBy, GoodKey

LEMMA ProcessRejectKeeps ==
    ASSUME IInv, NEW c \in Clients, ProcessReject(c)
    PROVE  IInv'
<1>1. Taking(c, "REJECT") /\ "REJECT" \in Types
  BY DEF ProcessReject, Types
<1>2. resolved' \in [Clients -> SUBSET (Rids \cup {None})]
  BY LoadMessagesType DEF ProcessReject, IInv, TypeOK
<1> QED
  BY <1>1, <1>2, TakingKeeps, ForgetKeeps
  DEF ProcessReject, IInv, TypeOK, counters, KeyOrigin, DerivingBy, GoodKey

-----------------------------------------------------------------------------
(* Reloading a page, and the environment *)

\* A message of the history is a well-formed message.
LEMMA HistoryIsWellFormed ==
    ASSUME IInv, NEW m \in {log[i] : i \in History(log)}
    PROVE  m \in Message /\ m.from \in Clients /\ WellFormed(m.from, m)
<1>1. m \in Messages
  BY DEF IInv, History
<1> QED
  BY <1>1 DEF Messages, Message

\* Opening a page anew keeps everything but the rotation and the handlers.
LEMMA LoadPageKeeps ==
    ASSUME IInv, NEW c \in Clients, LoadPage(c)
    PROVE  /\ reloads' \in [Clients -> 0..MaxReloads]
           /\ reloads'[c] > 0
           /\ connected' \in [Clients -> BOOLEAN]
           /\ key' \in [Clients -> SessionKey]
           /\ seen' \in [Clients -> SUBSET ((Rids \cup {None}) \X Types)]
           /\ queue' \in [Clients -> Seq(Message)]
           /\ inbox' \in [Clients -> Seq(Message)]
           /\ slot' \in [Clients -> Saved]
           /\ resolved' \in [Clients -> SUBSET (Rids \cup {None})]
           /\ UNCHANGED <<log, drops, expired, used, texts, cuts>>
           /\ \A d \in Clients :
                 /\ inbox'[d] \in Seq(MessagesFrom(Peer(d)))
                 /\ queue'[d] \in Seq(MessagesFrom(d))
                 /\ SlotOK(d)'
                 /\ d # c => reloads'[d] = reloads[d]
           /\ KeyOrigin'
<1>1. /\ reloads' \in [Clients -> 0..MaxReloads] /\ reloads'[c] > 0
      /\ \A d \in Clients : d # c => reloads'[d] = reloads[d]
  BY BoundsAssumption DEF IInv, TypeOK, LoadPage
<1>2. key' \in [Clients -> SessionKey] /\ KeyOrigin'
  BY <1>1, StartingValues DEF IInv, TypeOK, LoadPage, KeyOrigin
<1>3. slot' \in [Clients -> Saved] /\ \A d \in Clients : SlotOK(d)'
  BY StartingValues DEF IInv, TypeOK, LoadPage, SlotOK, NoSaved
<1>4. resolved' \in [Clients -> SUBSET (Rids \cup {None})]
  BY LoadMessagesType DEF IInv, TypeOK, LoadPage
<1>5. connected' \in [Clients -> BOOLEAN]
  BY DEF IInv, TypeOK, LoadPage
<1>6. /\ queue' \in [Clients -> Seq(Message)] /\ inbox' \in [Clients -> Seq(Message)]
      /\ \A d \in Clients : /\ inbox'[d] \in Seq(MessagesFrom(Peer(d)))
                            /\ queue'[d] \in Seq(MessagesFrom(d))
  BY DEF IInv, TypeOK, LoadPage
<1>7. seen' \in [Clients -> SUBSET ((Rids \cup {None}) \X Types)]
  BY DEF IInv, TypeOK, LoadPage
<1> QED
  BY <1>1, <1>2, <1>3, <1>4, <1>5, <1>6, <1>7 DEF LoadPage

\* A reloaded page is right if the rotation it restores and what it starts are.
LEMMA ReloadKeeps ==
    ASSUME IInv, NEW c \in Clients, LoadPage(c),
           NEW r \in Rotation, SetRot(c, r),
           NEW D \in SUBSET Deriving, deriving' = [deriving EXCEPT ![c] = D],
           NEW S \in SUBSET Sending, sending' = [sending EXCEPT ![c] = S],
           RequestStored(c, r.pend),
           r.status = "REQUEST" => /\ r.priv \in EphsOf(c)
                                   /\ r.cur \in EphsOf(c) => r.priv = r.cur,
           D \subseteq DerivingBy(c)', S \subseteq SendingFrom(c)
    PROVE  IInv'
<1>1. rot' \in [Clients -> Rotation] /\ \A d \in Clients : RotOK(d)'
  BY DEF SetRot, IInv, TypeOK, RotOK, RequestStored
<1>2. /\ deriving' \in [Clients -> SUBSET Deriving]
      /\ \A d \in Clients : deriving'[d] \subseteq DerivingBy(d)'
  <2>1. \A d \in Clients : d # c => reloads'[d] = reloads[d]
    BY LoadPageKeeps
  <2> QED
    BY <2>1 DEF IInv, TypeOK, DerivingBy, GoodKey
<1>3. /\ sending' \in [Clients -> SUBSET Sending]
      /\ \A d \in Clients : sending'[d] \subseteq SendingFrom(d)
  BY DEF IInv, TypeOK
<1> QED
  BY <1>1, <1>2, <1>3, LoadPageKeeps DEF IInv, TypeOK

\* A reloaded page that starts nothing is right if the rotation it restores is.
LEMMA RestoreKeeps ==
    ASSUME IInv, NEW c \in Clients, LoadPage(c),
           NEW r \in Rotation, SetRot(c, r), NoDeriving(c), NoSending(c),
           RequestStored(c, r.pend),
           r.status = "REQUEST" => /\ r.priv \in EphsOf(c)
                                   /\ r.cur \in EphsOf(c) => r.priv = r.cur
    PROVE  IInv'
<1>1. /\ deriving' = [deriving EXCEPT ![c] = {}]
      /\ sending' = [sending EXCEPT ![c] = {}]
  BY DEF NoDeriving, NoSending
<1>2. /\ {} \in SUBSET Deriving /\ {} \in SUBSET Sending
      /\ {} \subseteq DerivingBy(c)' /\ {} \subseteq SendingFrom(c)
  OBVIOUS
<1> QED
  BY <1>1, <1>2, ReloadKeeps

LEMMA ReloadIdleKeeps ==
    ASSUME IInv, NEW c \in Clients, ReloadIdle(c)
    PROVE  IInv'
<1>1. Idle \in Rotation /\ RequestStored(c, Idle.pend) /\ Idle.status # "REQUEST"
  BY StartingValues DEF Idle, RequestStored, NoSaved
<1>2. LoadPage(c) /\ SetRot(c, Idle) /\ NoDeriving(c) /\ NoSending(c)
  BY DEF ReloadIdle
<1> QED
  BY <1>1, <1>2, RestoreKeeps

LEMMA ReloadToRequestKeeps ==
    ASSUME IInv, NEW c \in Clients, ReloadToRequest(c)
    PROVE  IInv'
<1>1. PICK m \in {log[i] : i \in History(log)} :
        /\ m.type = "REQUEST" /\ RestoreStopsAt(c, m)
        /\ LoadPage(c)
        /\ SetRot(c, RestoredRequest(c, m))
        /\ NoDeriving(c) /\ NoSending(c)
  BY DEF ReloadToRequest
<1>2. /\ m.from \in Clients /\ m.rid \in EphsOf(m.from) /\ m.eph = m.rid
      /\ m.rid \in Rids /\ m.rid \in Ephs /\ m.rid # None
  BY <1>1, HistoryIsWellFormed, EphOwners DEF WellFormed
<1>3. slot[c].rid = m.rid => slot[c].eph \in EphsOf(c) /\ slot[c].eph \in Ephs
  BY <1>2, EphOwners DEF IInv, SlotOK
<1> DEFINE r == RestoredRequest(c, m)
           eph == IF HasSavedKey(c, m.rid) THEN slot[c].eph ELSE None
<1>4. eph \in Ephs \cup {None}
  BY <1>3 DEF HasSavedKey
<1>5. CASE m.from = c
  <2>1. r = [isPending |-> TRUE, status |-> "REQUEST", cur |-> m.rid, pend |-> NoSaved,
             priv |-> eph]
    BY <1>5 DEF RestoredRequest
  <2>2. eph \in EphsOf(c) /\ eph = m.rid
    BY <1>1, <1>2, <1>5 DEF RestoreStopsAt, Restorable, HasSavedKey, IInv, SlotOK
  <2> HIDE DEF eph
  <2>3. r \in Rotation
    BY <1>2, <1>4, <2>1, StartingValues DEF Rotation, Statuses
  <2>4. /\ RequestStored(c, r.pend)
        /\ r.priv \in EphsOf(c) /\ r.priv = r.cur
    BY <2>1, <2>2 DEF RequestStored, NoSaved
  <2>5. SetRot(c, r)
    BY <1>1
  <2> HIDE DEF r
  <2> QED
    BY <1>1, <2>3, <2>4, <2>5, RestoreKeeps
<1>6. CASE m.from # c
  <2>1. \E s \in {"ACCEPT", "PENDING_REQUEST"} :
           r = [isPending |-> TRUE, status |-> s, cur |-> m.rid,
                pend |-> [rid |-> m.rid, eph |-> m.eph], priv |-> eph]
    BY <1>6 DEF RestoredRequest
  <2>2. m.from = Peer(c)
    BY <1>2, <1>6 DEF Clients, Peer
  <2> HIDE DEF eph
  <2>3. r \in Rotation
    BY <1>2, <1>4, <2>1 DEF Rotation, Statuses, Saved
  <2>4. RequestStored(c, r.pend) /\ r.status # "REQUEST"
    BY <1>2, <2>1, <2>2 DEF RequestStored
  <2>5. SetRot(c, r)
    BY <1>1
  <2> HIDE DEF r
  <2> QED
    BY <1>1, <2>3, <2>4, <2>5, RestoreKeeps
<1> QED
  BY <1>5, <1>6

LEMMA ReloadAfterOwnAcceptKeeps ==
    ASSUME IInv, NEW c \in Clients, ReloadAfterOwnAccept(c)
    PROVE  IInv'
<1>1. PICK m \in {log[i] : i \in History(log)} :
        /\ m.type = "ACCEPT" /\ RestoreStopsAt(c, m)
        /\ LoadPage(c)
        /\ SetRot(c, [isPending |-> TRUE, status |-> "REQUEST", cur |-> m.rid,
                      pend |-> NoSaved, priv |-> slot[c].eph])
        /\ deriving' = [deriving EXCEPT ![c] =
               {[type |-> "CONFIRM", rid |-> m.rid, eph |-> None,
                 newKey |-> DeriveNewKey(m.rid, slot[c].eph, m.eph)]}]
        /\ NoSending(c)
  BY DEF ReloadAfterOwnAccept
<1>2. m.from = c /\ HasSavedKey(c, m.rid)
  BY <1>1 DEF RestoreStopsAt, Restorable
<1>3. m.rid \in EphsOf(Peer(c)) /\ m.eph \in EphsOf(c)
  BY <1>1, <1>2, HistoryIsWellFormed DEF WellFormed
<1>4. m.rid \in Rids /\ m.rid # None /\ m.rid \notin EphsOf(c)
  BY <1>3, EphOwners, PeerIsClient
<1>5. slot[c].eph \in EphsOf(c) /\ slot[c].eph \in Ephs
  BY <1>2, <1>4, EphOwners DEF HasSavedKey, IInv, SlotOK
<1> DEFINE r == [isPending |-> TRUE, status |-> "REQUEST", cur |-> m.rid, pend |-> NoSaved,
                 priv |-> slot[c].eph]
           t == [type |-> "CONFIRM", rid |-> m.rid, eph |-> None,
                 newKey |-> DeriveNewKey(m.rid, slot[c].eph, m.eph)]
<1>6. r \in Rotation /\ RequestStored(c, r.pend) /\ r.priv = slot[c].eph /\ r.cur = m.rid
  BY <1>4, <1>5, StartingValues DEF Rotation, Statuses, RequestStored, NoSaved
<1>7. t \in Deriving /\ t \in DerivingBy(c)'
  <2>1. DeriveNewKey(m.rid, slot[c].eph, m.eph) \in OwnKeys(c) \cap SessionKey
    BY <1>3, <1>4, <1>5, OwnKeyType
  <2>2. reloads'[c] > 0
    BY <1>1, LoadPageKeeps
  <2> QED
    BY <1>4, <2>1, <2>2 DEF Deriving, DerivingBy, GoodKey
<1>8. SetRot(c, r) /\ deriving' = [deriving EXCEPT ![c] = {t}]
  BY <1>1
<1> HIDE DEF r, t
<1>9. {t} \in SUBSET Deriving /\ {t} \subseteq DerivingBy(c)'
  BY <1>7
<1>10. /\ sending' = [sending EXCEPT ![c] = {}]
       /\ {} \in SUBSET Sending /\ {} \subseteq SendingFrom(c)
  BY <1>1 DEF NoSending
<1>11. r.priv \in EphsOf(c) /\ r.cur \notin EphsOf(c)
  BY <1>4, <1>5, <1>6
<1>12. LoadPage(c) /\ r \in Rotation /\ RequestStored(c, r.pend)
  BY <1>1, <1>6
<1> QED
  BY <1>8, <1>9, <1>10, <1>11, <1>12, ReloadKeeps

LEMMA ReloadAfterConfirmKeeps ==
    ASSUME IInv, NEW c \in Clients, ReloadAfterConfirm(c)
    PROVE  IInv'
<1>1. PICK m \in {log[i] : i \in History(log)} :
        /\ m.type = "CONFIRM" /\ RestoreStopsAt(c, m)
        /\ LoadPage(c)
        /\ NoDeriving(c)
        /\ \/ /\ SetRot(c, [isPending |-> TRUE, status |-> "COMPLETE", cur |-> m.rid,
                            pend |-> NoSaved, priv |-> slot[c].eph])
              /\ sending' = [sending EXCEPT ![c] =
                     {[type |-> "COMPLETE", rid |-> m.rid, eph |-> None,
                       enc |-> BaseKey, newKey |-> BaseKey]}]
           \/ /\ SetRot(c, Idle)
              /\ NoSending(c)
  BY DEF ReloadAfterConfirm
<1>2. m.rid \in Rids
  BY <1>1, HistoryIsWellFormed DEF WellFormed
<1> DEFINE r == [isPending |-> TRUE, status |-> "COMPLETE", cur |-> m.rid,
                 pend |-> NoSaved, priv |-> slot[c].eph]
           t == [type |-> "COMPLETE", rid |-> m.rid, eph |-> None,
                 enc |-> BaseKey, newKey |-> BaseKey]
<1>3. r \in Rotation /\ RequestStored(c, r.pend) /\ r.status # "REQUEST"
  <2>1. slot[c].eph \in Ephs \cup {None}
    BY DEF IInv, TypeOK, Saved
  <2> QED
    BY <1>2, <2>1, StartingValues DEF Rotation, Statuses, RequestStored, NoSaved
<1>4. {t} \in SUBSET Sending /\ {t} \subseteq SendingFrom(c)
  BY <1>2, StartingValues DEF Sending, SendingFrom, Types, WellFormed
<1>5. CASE SetRot(c, r) /\ sending' = [sending EXCEPT ![c] = {t}]
  <2> HIDE DEF r, t
  <2>1. /\ deriving' = [deriving EXCEPT ![c] = {}]
        /\ {} \in SUBSET Deriving /\ {} \subseteq DerivingBy(c)'
    BY <1>1 DEF NoDeriving
  <2>2. LoadPage(c)
    BY <1>1
  <2> QED
    BY <1>3, <1>4, <1>5, <2>1, <2>2, ReloadKeeps
<1>6. CASE SetRot(c, Idle) /\ NoSending(c)
  <2>1. Idle \in Rotation /\ RequestStored(c, Idle.pend) /\ Idle.status # "REQUEST"
    BY StartingValues DEF Idle, RequestStored, NoSaved
  <2> QED
    BY <1>1, <1>6, <2>1, RestoreKeeps
<1> QED
  BY <1>1, <1>5, <1>6

LEMMA CutKeeps ==
    ASSUME IInv, NEW c \in Clients, Cut(c)
    PROVE  IInv'
<1>1. PICK n \in 0..Len(inbox[c]) : inbox' = [inbox EXCEPT ![c] = SubSeq(@, 1, n)]
  BY DEF Cut
<1>2. /\ SubSeq(inbox[c], 1, n) \in Seq(MessagesFrom(Peer(c)))
      /\ SubSeq(inbox[c], 1, n) \in Seq(Message)
  BY DEF IInv, TypeOK
<1>3. /\ inbox' \in [Clients -> Seq(Message)]
      /\ \A d \in Clients : inbox'[d] \in Seq(MessagesFrom(Peer(d)))
  BY <1>1, <1>2 DEF IInv, TypeOK
<1>4. cuts' \in 0..MaxCuts /\ connected' \in [Clients -> BOOLEAN]
  BY BoundsAssumption DEF Cut, IInv, TypeOK
<1> QED
  BY <1>3, <1>4
  DEF Cut, IInv, TypeOK, page, KeyOrigin, DerivingBy, GoodKey, SlotOK, RotOK, RequestStored

LEMMA ReconnectKeeps ==
    ASSUME IInv, NEW c \in Clients, Reconnect(c)
    PROVE  IInv'
<1>1. /\ queue[c] \in Seq(MessagesFrom(c)) /\ queue[c] \in Seq(Message)
      /\ queue[c] \in Seq(Messages)
  <2>1. queue[c] \in Seq(MessagesFrom(c)) /\ queue[c] \in Seq(Message)
    BY DEF IInv, TypeOK
  <2>2. \A m \in MessagesFrom(c) : m \in Messages
    BY DEF MessagesFrom, Messages
  <2>3. \A i \in DOMAIN queue[c] : queue[c][i] \in MessagesFrom(c)
    BY <2>1
  <2>4. \A i \in DOMAIN queue[c] : queue[c][i] \in Messages
    BY <2>2, <2>3
  <2> QED
    BY <2>1, <2>4
<1>2. log' \in Seq(Message) /\ log' \in Seq(Messages)
  BY <1>1 DEF Reconnect, Forward, IInv, TypeOK
<1>3. inbox' \in [Clients -> Seq(Message)]
  BY <1>1, PeerIsClient DEF Reconnect, Forward, IInv, TypeOK
<1>4. \A d \in Clients : inbox'[d] \in Seq(MessagesFrom(Peer(d)))
  BY <1>1, PeerIsClient DEF Reconnect, Forward, IInv, TypeOK
<1>5. /\ queue' \in [Clients -> Seq(Message)]
      /\ \A d \in Clients : queue'[d] \in Seq(MessagesFrom(d))
  BY DEF Reconnect, IInv, TypeOK
<1> QED
  BY <1>2, <1>3, <1>4, <1>5
  DEF Reconnect, IInv, TypeOK, counters, KeyOrigin, DerivingBy, GoodKey, SlotOK, RotOK,
      RequestStored

LEMMA ExpireKeeps ==
    ASSUME IInv, NEW r \in Rids, Expire(r)
    PROVE  IInv'
BY DEF Expire, IInv, TypeOK, page, net, counters, KeyOrigin, DerivingBy, GoodKey, SlotOK,
       RotOK, RequestStored

LEMMA StutterKeeps ==
    ASSUME IInv, UNCHANGED vars
    PROVE  IInv'
BY DEF vars, IInv, TypeOK, page, net, counters, KeyOrigin, DerivingBy, GoodKey, SlotOK,
       RotOK, RequestStored

-----------------------------------------------------------------------------
(* The theorems *)

LEMMA ClientStepKeeps ==
    ASSUME IInv, NEW c \in Clients, ClientStep(c)
    PROVE  IInv'
<1>1. CASE Handle(c)
  BY <1>1, ShowOrIgnoreKeeps, ProcessIncomingRequestKeeps, ProcessAcceptKeeps,
     ProcessConfirmKeeps, ProcessCompleteKeeps, ProcessRejectKeeps DEF Handle
<1>2. CASE Resume(c)
  BY <1>2, RequestOrConfirmSentKeeps, AcceptDerivedKeeps, AcceptSentKeeps, RejectSentKeeps,
     ConfirmDerivedKeeps, CompleteSentKeeps, TextSentKeeps DEF Resume
<1>3. CASE Reload(c)
  BY <1>3, ReloadIdleKeeps, ReloadToRequestKeeps, ReloadAfterOwnAcceptKeeps,
     ReloadAfterConfirmKeeps DEF Reload
<1> QED
  BY <1>1, <1>2, <1>3, InitiateKeeps, AcceptKeeps, AcceptExpiredKeeps, RejectKeeps,
     SendTextKeeps, CutKeeps, ReconnectKeeps DEF ClientStep

\* Every reachable state satisfies the inductive invariant, whatever the bounds,
\* the initiators and the number of handlers that interleave.
THEOREM Invariance == Spec => []IInv
<1>1. ASSUME IInv, [Next]_vars PROVE IInv'
  BY <1>1, ClientStepKeeps, ExpireKeeps, StutterKeeps DEF Next
<1> QED
  BY InitIInv, <1>1, PTL DEF Spec

\* Every variable of the rotation model keeps its type.
THEOREM TypeCorrect == Spec => []TypeOK
<1>1. IInv => TypeOK
  BY DEF IInv
<1> QED
  BY Invariance, <1>1, PTL

\* A page never encrypts with a key that does not come from the server, from a
\* request's own pair and a pair of the answering side, or, after a reload only,
\* from pairs of its own (processAccept, accept, restoreStateFromMessages).
THEOREM KeysHaveOrigin == Spec => []KeyOrigin
<1>1. IInv => KeyOrigin
  BY DEF IInv
<1> QED
  BY Invariance, <1>1, PTL

-----------------------------------------------------------------------------
(* A page that waits holds the secret: of TypeOK alone, this is inductive.     *)

Waits(r) == r.status \in {"REQUEST", "ACCEPT"}

\* One page changes its rotation and its slot, and if it waits now, for what
\* the slot holds.
LEMMA WaitingBoth ==
    ASSUME TypeOK, WaitingHoldsSecret, NEW c \in Clients, NEW r, NEW s,
           rot' = [rot EXCEPT ![c] = r], slot' = [slot EXCEPT ![c] = s],
           Waits(r) => s.rid = r.cur
    PROVE  WaitingHoldsSecret'
BY DEF TypeOK, WaitingHoldsSecret, Waits

\* The same with the slot as it is.
LEMMA WaitingRot ==
    ASSUME TypeOK, WaitingHoldsSecret, NEW c \in Clients, NEW r, SetRot(c, r), UNCHANGED slot,
           Waits(r) => slot[c].rid = r.cur
    PROVE  WaitingHoldsSecret'
BY DEF TypeOK, WaitingHoldsSecret, Waits, SetRot

LEMMA WaitingSame ==
    ASSUME WaitingHoldsSecret, UNCHANGED <<rot, slot>>
    PROVE  WaitingHoldsSecret'
BY DEF WaitingHoldsSecret

\* A page that forgets its rotation does not wait.
LEMMA WaitingForgets ==
    ASSUME TypeOK, WaitingHoldsSecret, NEW c \in Clients,
           CompleteRotation(c) \/ ResetRotation(c)
    PROVE  WaitingHoldsSecret'
<1>1. ~Waits(Idle)
  BY DEF Waits, Idle
<1>2. CASE CompleteRotation(c)
  BY <1>1, <1>2, WaitingRot DEF CompleteRotation
<1>3. CASE ResetRotation(c)
  BY <1>1, <1>3, WaitingBoth DEF ResetRotation, SetRot
<1> QED
  BY <1>2, <1>3

\* What a handler adopts, it adopts with the slot's secret.
LEMMA WaitingAdopts ==
    ASSUME TypeOK, WaitingHoldsSecret, NEW c \in Clients, NEW rid, NEW s,
           HasSavedKey(c, rid)
    PROVE  Waits(Adopt(c, rid, s)) => slot[c].rid = Adopt(c, rid, s).cur
<1>1. CASE rot[c].cur = rid
  BY <1>1 DEF Adopt, HasSavedKey
<1>2. CASE rot[c].cur # rid
  BY <1>2 DEF Adopt, HasSavedKey, TypeOK, Rotation
<1> QED
  BY <1>1, <1>2

\* A page that is loaded anew keeps the slot of a rotation that has not expired.
LEMMA WaitingReload ==
    ASSUME TypeOK, WaitingHoldsSecret, NEW c \in Clients, LoadPage(c), NEW r, SetRot(c, r),
           Waits(r) => HasSavedKey(c, r.cur)
    PROVE  WaitingHoldsSecret'
<1>1. CASE slot[c].rid \in expired
  <2>1. ~Waits(r)
    BY <1>1 DEF HasSavedKey
  <2>2. slot' = [slot EXCEPT ![c] = NoSaved]
    BY <1>1 DEF LoadPage
  <2> QED
    BY <2>1, <2>2, WaitingBoth DEF SetRot
<1>2. CASE slot[c].rid \notin expired
  <2>1. slot' = slot
    BY <1>2 DEF LoadPage
  <2> QED
    BY <2>1, WaitingRot DEF HasSavedKey
<1> QED
  BY <1>1, <1>2

LEMMA WaitingReloaded ==
    ASSUME TypeOK, WaitingHoldsSecret, NEW c \in Clients, Reload(c)
    PROVE  WaitingHoldsSecret'
<1>1. CASE ReloadIdle(c)
  <2>1. ~Waits(Idle)
    BY DEF Waits, Idle
  <2> QED
    BY <1>1, <2>1, WaitingReload DEF ReloadIdle
<1>2. CASE ReloadToRequest(c)
  <2>1. PICK m \in {log[i] : i \in History(log)} :
          m.type = "REQUEST" /\ RestoreStopsAt(c, m) /\ LoadPage(c)
            /\ SetRot(c, RestoredRequest(c, m))
    BY <1>2 DEF ReloadToRequest
  <2>2. RestoredRequest(c, m).cur = m.rid
    BY DEF RestoredRequest
  <2>3. Waits(RestoredRequest(c, m)) => HasSavedKey(c, m.rid)
    BY <2>1 DEF RestoredRequest, RestoreStopsAt, Restorable, Waits
  <2> QED
    BY <2>1, <2>2, <2>3, WaitingReload
<1>3. CASE ReloadAfterOwnAccept(c)
  <2> DEFINE r(m) == [isPending |-> TRUE, status |-> "REQUEST", cur |-> m.rid,
                      pend |-> NoSaved, priv |-> slot[c].eph]
  <2>1. PICK m \in {log[i] : i \in History(log)} :
          m.type = "ACCEPT" /\ RestoreStopsAt(c, m) /\ LoadPage(c) /\ SetRot(c, r(m))
    BY <1>3 DEF ReloadAfterOwnAccept
  <2>2. HasSavedKey(c, m.rid)
    BY <2>1 DEF RestoreStopsAt, Restorable
  <2>3. r(m).cur = m.rid
    OBVIOUS
  <2> HIDE DEF r
  <2> QED
    BY <2>1, <2>2, <2>3, WaitingReload
<1>4. CASE ReloadAfterConfirm(c)
  <2> DEFINE r(m) == [isPending |-> TRUE, status |-> "COMPLETE", cur |-> m.rid,
                      pend |-> NoSaved, priv |-> slot[c].eph]
  <2>1. PICK m \in {log[i] : i \in History(log)} :
          LoadPage(c) /\ (SetRot(c, r(m)) \/ SetRot(c, Idle))
    BY <1>4 DEF ReloadAfterConfirm
  <2>2. ~Waits(r(m)) /\ ~Waits(Idle)
    BY DEF Waits, Idle
  <2> HIDE DEF r
  <2> QED
    BY <2>1, <2>2, WaitingReload
<1> QED
  BY <1>1, <1>2, <1>3, <1>4 DEF Reload

LEMMA WaitingHandled ==
    ASSUME TypeOK, WaitingHoldsSecret, NEW c \in Clients, Handle(c)
    PROVE  WaitingHoldsSecret'
<1> DEFINE m == Head(inbox[c])
<1>1. CASE ShowOrIgnore(c)
  BY <1>1, WaitingSame DEF ShowOrIgnore, page
<1>2. CASE ProcessIncomingRequest(c)
  <2> DEFINE r == [isPending |-> TRUE, status |-> "PENDING_REQUEST", cur |-> m.rid,
                   pend |-> [rid |-> m.rid, eph |-> m.eph], priv |-> rot[c].priv]
  <2>1. ~Waits(r)
    BY DEF Waits
  <2>2. UNCHANGED slot /\ (SetRot(c, r) \/ UNCHANGED rot)
    BY <1>2 DEF ProcessIncomingRequest
  <2> HIDE DEF r
  <2> QED
    BY <2>1, <2>2, WaitingRot, WaitingSame
<1>3. CASE ProcessAccept(c)
  <2>1. /\ UNCHANGED slot
        /\ \/ HasSavedKey(c, m.rid) /\ SetRot(c, Adopt(c, m.rid, "REQUEST"))
           \/ UNCHANGED rot
    BY <1>3 DEF ProcessAccept
  <2> QED
    BY <2>1, WaitingRot, WaitingSame, WaitingAdopts
<1>4. CASE ProcessConfirm(c)
  <2> DEFINE r == [Adopt(c, m.rid, "ACCEPT") EXCEPT !.status = "COMPLETE"]
  <2>1. \/ UNCHANGED <<rot, slot>>
        \/ SetRot(c, r) /\ UNCHANGED slot
        \/ CompleteRotation(c)
    BY <1>4 DEF ProcessConfirm
  <2>2. ~Waits(r)
    <3>1. rot[c] \in Rotation
      BY DEF TypeOK
    <3> QED
      BY <3>1 DEF Waits, Adopt, Rotation
  <2> HIDE DEF r
  <2> QED
    BY <2>1, <2>2, WaitingRot, WaitingSame, WaitingForgets
<1>5. CASE ProcessComplete(c)
  BY <1>5, WaitingForgets DEF ProcessComplete
<1>6. CASE ProcessReject(c)
  BY <1>6, WaitingForgets DEF ProcessReject
<1> QED
  BY <1>1, <1>2, <1>3, <1>4, <1>5, <1>6 DEF Handle

LEMMA WaitingResumed ==
    ASSUME TypeOK, WaitingHoldsSecret, NEW c \in Clients, Resume(c)
    PROVE  WaitingHoldsSecret'
<1>1. CASE RequestOrConfirmSent(c)
  BY <1>1, WaitingSame DEF RequestOrConfirmSent
<1>2. CASE AcceptDerived(c)
  <2>1. CASE ResetRotation(c)
    BY <2>1, WaitingForgets
  <2>2. CASE \E t \in deriving[c] :
               /\ SaveEphPrivateKey(c, t.rid, t.eph)
               /\ SetRot(c, [isPending |-> TRUE, status |-> "ACCEPT", cur |-> t.rid,
                             pend |-> IF connected[c] THEN rot[c].pend ELSE NoSaved,
                             priv |-> t.eph])
    BY <2>2, WaitingBoth DEF SaveEphPrivateKey, SetRot
  <2> QED
    BY <1>2, <2>1, <2>2 DEF AcceptDerived
<1>3. CASE AcceptSent(c)
  <2> DEFINE r == [rot[c] EXCEPT !.pend = NoSaved]
  <2>1. SetRot(c, r) /\ UNCHANGED slot
    BY <1>3 DEF AcceptSent
  <2>2. r.status = rot[c].status /\ r.cur = rot[c].cur
    BY DEF TypeOK, Rotation
  <2>3. Waits(r) => slot[c].rid = r.cur
    BY <2>2 DEF Waits, WaitingHoldsSecret
  <2> HIDE DEF r
  <2> QED
    BY <2>1, <2>3, WaitingRot
<1>4. CASE RejectSent(c)
  BY <1>4, WaitingForgets DEF RejectSent
<1>5. CASE ConfirmDerived(c)
  <2> DEFINE r == [rot[c] EXCEPT !.status = "CONFIRM"]
  <2>1. SetRot(c, r) /\ UNCHANGED slot
    BY <1>5 DEF ConfirmDerived
  <2>2. ~Waits(r)
    BY DEF Waits, TypeOK, Rotation
  <2> HIDE DEF r
  <2> QED
    BY <2>1, <2>2, WaitingRot
<1>6. CASE CompleteSent(c)
  BY <1>6, WaitingForgets DEF CompleteSent
<1>7. CASE TextSent(c)
  BY <1>7, WaitingSame DEF TextSent
<1> QED
  BY <1>1, <1>2, <1>3, <1>4, <1>5, <1>6, <1>7 DEF Resume

LEMMA WaitingStep ==
    ASSUME TypeOK, WaitingHoldsSecret, [Next]_vars
    PROVE  WaitingHoldsSecret'
<1>1. ASSUME NEW c \in Clients, Initiate(c)
      PROVE  WaitingHoldsSecret'
  <2> DEFINE e == NextEph(c)
             r == [isPending |-> TRUE, status |-> "REQUEST", cur |-> e,
                   pend |-> NoSaved, priv |-> e]
  <2>1. \/ SetRot(c, r) /\ SaveEphPrivateKey(c, e, e)
        \/ ResetRotation(c)
    BY <1>1 DEF Initiate
  <2>2. SaveEphPrivateKey(c, e, e) => slot' = [slot EXCEPT ![c] = [rid |-> e, eph |-> e]]
    BY DEF SaveEphPrivateKey
  <2>3. [rid |-> e, eph |-> e].rid = r.cur
    OBVIOUS
  <2> HIDE DEF r, e
  <2> QED
    BY <2>1, <2>2, <2>3, WaitingBoth, WaitingForgets DEF SetRot
<1>2. ASSUME NEW c \in Clients, Accept(c) \/ SendText(c) \/ Cut(c) \/ Reconnect(c)
      PROVE  WaitingHoldsSecret'
  BY <1>2, WaitingSame DEF Accept, SendText, Cut, Reconnect, page
<1>3. ASSUME NEW c \in Clients, AcceptExpired(c)
      PROVE  WaitingHoldsSecret'
  BY <1>3, WaitingForgets DEF AcceptExpired
<1>4. ASSUME NEW c \in Clients, Reject(c)
      PROVE  WaitingHoldsSecret'
  BY <1>4, WaitingForgets, WaitingSame DEF Reject
<1>5. ASSUME NEW r \in Rids, Expire(r)
      PROVE  WaitingHoldsSecret'
  BY <1>5, WaitingSame DEF Expire, page
<1>6. CASE UNCHANGED vars
  BY <1>6, WaitingSame DEF vars, page
<1> QED
  BY <1>1, <1>2, <1>3, <1>4, <1>5, <1>6, WaitingHandled, WaitingResumed, WaitingReloaded
  DEF Next, ClientStep

\* A page that waits for an ACCEPT or a CONFIRM holds the private half of its
\* rotation, over reloads, expiries, requests that cross and however many of its
\* handlers run interleaved.
THEOREM WaitingPagesHoldSecret == Spec => []WaitingHoldsSecret
<1>1. Init => WaitingHoldsSecret
  BY DEF Init, WaitingHoldsSecret, Idle
<1> QED
  BY <1>1, WaitingStep, TypeCorrect, PTL DEF Spec
=============================================================================
