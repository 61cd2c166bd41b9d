--------------------------- MODULE InvitesProofs ---------------------------
(***************************************************************************)
(* Theorems about Invites for every value of its constants, the number of  *)
(* processes among them.  No property is inductive alone: that a process   *)
(* lets go of what it withdraws keeps that final for it; what the senders  *)
(* under way have seen bounds the live invites; the dialogs half written   *)
(* hold the key of whoever writes them; senders and accepters have an      *)
(* account, which gives both sides a contact; and that the rejections of   *)
(* the last block are spent, in the table and in the records about to be   *)
(* saved, makes the next one earned.                                       *)
(***************************************************************************)
EXTENDS Invites, SequenceTheorems, TLAPS

\* The rejections before the last block were spent on it.  Those of today are
\* still unspent unless the block was set today, when it runs beyond today.
Earned(s) ==
    /\ s.block_level = s.blocks
    /\ s.rejections_total >= MaxRejections * s.blocks
    /\ \/ s.blocks = 3
       \/ s.blocks \in 1..2 /\ s.block_until.day > s.last_reset_date
       \/ s.rejections_total >= MaxRejections * s.blocks + s.rejections_today

\* A sender without a record has earned no block.
LEMMA NewStatsEarned == NewStats \in Stats /\ Earned(NewStats)
<1>1. NewStats \in Stats
  BY DEF NewStats, Stats, NoTime, Time
<1>2. MaxRejections * 0 = 0
  BY SpamAssumption
<1> QED
  BY <1>1, <1>2 DEF NewStats, Earned

\* What each further block costs, for the four lengths of the history.
LEMMA Costs ==
    ASSUME NEW b \in 0..3
    PROVE  /\ MaxRejections * b \in Nat
           /\ MaxRejections * (b + 1) = MaxRejections * b + MaxRejections
<1>1. MaxRejections \in Nat
  BY SpamAssumption
<1>2. b = 0 \/ b = 1 \/ b = 2 \/ b = 3
  OBVIOUS
<1> QED
  BY <1>1, <1>2

\* The record with one more rejection, and with other values of the block.
LEMMA Incremented ==
    ASSUME NEW s \in Stats
    PROVE  LET c == [s EXCEPT !.rejections_today = @ + 1, !.rejections_total = @ + 1]
           IN  /\ c \in Stats
               /\ c.blocks = s.blocks /\ c.block_level = s.block_level
               /\ c.block_until = s.block_until
               /\ c.last_reset_date = s.last_reset_date
               /\ c.rejections_total = s.rejections_total + 1
               /\ c.rejections_today = s.rejections_today + 1
<1>1. s.rejections_today + 1 \in Nat /\ s.rejections_total + 1 \in Nat
  BY DEF Stats
<1> QED
  BY <1>1 DEF Stats

LEMMA BlockIsSet ==
    ASSUME NEW s \in Stats, NEW l \in 0..3, NEW u \in Time
    PROVE  /\ Block(s, l, u) \in Stats
           /\ Block(s, l, u).blocks = l /\ Block(s, l, u).block_level = l
           /\ Block(s, l, u).block_until = u
           /\ Block(s, l, u).last_reset_date = s.last_reset_date
           /\ Block(s, l, u).rejections_total = s.rejections_total
BY DEF Stats, Block

LEMMA DaysLaterType ==
    ASSUME NEW t \in Time, NEW d \in Nat
    PROVE  DaysLater(t, d) \in Time /\ DaysLater(t, d).day = t.day + d
<1>1. t.day + d \in Nat
  BY DEF Time
<1> QED
  BY <1>1 DEF DaysLater, Time

\* The daily reset and the increments of record_rejection().
LEMMA CountingKeeps ==
    ASSUME NEW s \in Stats, Earned(s), NEW t \in Time, s.last_reset_date <= t.day
    PROVE  LET c == [CheckDailyReset(s, t) EXCEPT !.rejections_today = @ + 1,
                                                  !.rejections_total = @ + 1]
           IN  c \in Stats /\ Earned(c) /\ c.last_reset_date = t.day
<1> DEFINE r == CheckDailyReset(s, t)
           c == [r EXCEPT !.rejections_today = @ + 1, !.rejections_total = @ + 1]
<1>1. t.day \in Nat /\ s.last_reset_date \in Nat /\ s.block_until \in Time
      /\ s.blocks \in 0..3 /\ s.rejections_today \in Nat /\ s.rejections_total \in Nat
  BY DEF Time, Stats
<1>2. MaxRejections * s.blocks \in Nat
  BY <1>1, Costs
<1>3. r \in Stats /\ r.last_reset_date = t.day
  BY <1>1 DEF CheckDailyReset, Stats
<1>4. /\ r.blocks = s.blocks /\ r.block_level = s.block_level
      /\ r.block_until = s.block_until /\ r.rejections_total = s.rejections_total
      /\ r.rejections_today = IF s.last_reset_date = t.day THEN s.rejections_today ELSE 0
  BY DEF CheckDailyReset, Stats
<1> HIDE DEF r
<1>5. c \in Stats /\ c.last_reset_date = t.day
  BY <1>3, Incremented
<1>6. /\ c.blocks = s.blocks /\ c.block_level = s.block_level
      /\ c.block_until = s.block_until /\ c.rejections_total = s.rejections_total + 1
      /\ c.rejections_today = r.rejections_today + 1
  BY <1>3, <1>4, Incremented
<1> HIDE DEF c
<1>7. Earned(c)
  <2>1. c.rejections_total >= MaxRejections * c.blocks
    BY <1>1, <1>2, <1>6 DEF Earned
  <2>2. CASE s.last_reset_date = t.day
    BY <1>1, <1>2, <1>4, <1>5, <1>6, <2>1, <2>2 DEF Earned
  <2>3. CASE s.last_reset_date # t.day
    <3>1. c.rejections_today = 1
      BY <1>4, <1>6, <2>3
    <3>2. c.rejections_total >= MaxRejections * c.blocks + c.rejections_today
      BY <1>1, <1>2, <1>6, <3>1 DEF Earned
    <3> QED
      BY <1>6, <2>1, <3>2 DEF Earned
  <2> QED
    BY <2>2, <2>3
<1> QED
  BY <1>5, <1>7 DEF c, r

\* The next block is only given when the rejections of today pay for it.
LEMMA UpdateBlockLevelKeeps ==
    ASSUME NEW s \in Stats, Earned(s), NEW t \in Time, s.last_reset_date = t.day
    PROVE  /\ UpdateBlockLevel(s, t) \in Stats
           /\ Earned(UpdateBlockLevel(s, t))
           /\ UpdateBlockLevel(s, t).last_reset_date = t.day
<1>1. /\ t.day \in Nat /\ t.hour \in Nat /\ s.blocks \in 0..3 /\ s.block_until.day \in Nat
      /\ s.rejections_today \in Nat /\ s.rejections_total \in Nat /\ MaxRejections \in Nat
  BY SpamAssumption DEF Time, Stats
<1>2. /\ MaxRejections * s.blocks \in Nat
      /\ MaxRejections * (s.blocks + 1) = MaxRejections * s.blocks + MaxRejections
  BY <1>1, Costs
<1>3. CASE ~ (s.rejections_today >= MaxRejections /\ ~ BlockIsRunning(s, t))
  BY <1>3 DEF UpdateBlockLevel
<1>4. CASE s.rejections_today >= MaxRejections /\ ~ BlockIsRunning(s, t) /\ s.blocks < 2
  <2> DEFINE e == Escalate(s, t)
             d == BlockDays[s.blocks + 1]
  <2>1. UpdateBlockLevel(s, t) = e
    BY <1>4 DEF UpdateBlockLevel
  <2>2. d \in Nat /\ d > 0
    BY <1>1, <1>4, SpamAssumption
  <2>3. DaysLater(t, d) \in Time /\ DaysLater(t, d).day = t.day + d
    BY <2>2, DaysLaterType
  <2>4. /\ e \in Stats /\ e.blocks = s.blocks + 1 /\ e.block_level = s.blocks + 1
        /\ e.block_until.day = t.day + d /\ e.last_reset_date = t.day
        /\ e.rejections_total = s.rejections_total
    <3>1. e = Block(s, s.blocks + 1, DaysLater(t, d))
      BY <1>4 DEF Escalate
    <3>2. s.blocks + 1 \in 0..3
      BY <1>1, <1>4
    <3> DEFINE b == Block(s, s.blocks + 1, DaysLater(t, d))
    <3>3. /\ b \in Stats /\ b.blocks = s.blocks + 1 /\ b.block_level = s.blocks + 1
          /\ b.block_until = DaysLater(t, d)
          /\ b.last_reset_date = s.last_reset_date
          /\ b.rejections_total = s.rejections_total
      <4> DEFINE until == DaysLater(t, d)
                 level == s.blocks + 1
      <4>1. until \in Time /\ level \in 0..3
        BY <2>3, <3>2
      <4> HIDE DEF until, level
      <4>2. b = Block(s, level, until)
        BY DEF until, level
      <4> HIDE DEF b
      <4>3. /\ b \in Stats /\ b.blocks = level /\ b.block_level = level
            /\ b.block_until = until
            /\ b.last_reset_date = s.last_reset_date
            /\ b.rejections_total = s.rejections_total
        BY <4>1, <4>2, BlockIsSet
      <4> QED
        BY <4>3 DEF until, level
    <3> HIDE DEF b
    <3> QED
      BY <2>3, <3>1, <3>3 DEF b
  <2>5. ~ (s.blocks \in 1..2 /\ s.block_until.day > s.last_reset_date)
    BY <1>1, <1>4 DEF Earned, BlockIsRunning, Before
  <2>6. s.rejections_total >= MaxRejections * (s.blocks + 1)
    BY <1>1, <1>2, <1>4, <2>5 DEF Earned
  <2>7. Earned(e)
    BY <1>1, <1>4, <2>2, <2>4, <2>6 DEF Earned
  <2> QED
    BY <2>1, <2>4, <2>7
<1>5. CASE s.rejections_today >= MaxRejections /\ ~ BlockIsRunning(s, t) /\ s.blocks >= 2
  <2> DEFINE e == Escalate(s, t)
  <2>1. UpdateBlockLevel(s, t) = e
    BY <1>5 DEF UpdateBlockLevel
  <2>2. /\ e \in Stats /\ e.blocks = 3 /\ e.block_level = 3 /\ e.last_reset_date = t.day
        /\ e.rejections_total = s.rejections_total
    <3>1. e = Block(s, 3, NoTime)
      BY <1>1, <1>5 DEF Escalate
    <3>2. NoTime \in Time /\ 3 \in 0..3
      BY DEF NoTime, Time
    <3> DEFINE b == Block(s, 3, NoTime)
    <3>3. /\ b \in Stats /\ b.blocks = 3 /\ b.block_level = 3
          /\ b.last_reset_date = s.last_reset_date
          /\ b.rejections_total = s.rejections_total
      BY <3>2, BlockIsSet
    <3> QED
      BY <3>1, <3>3
  <2>3. s.rejections_total >= MaxRejections * 3
    <3>1. CASE s.blocks = 3
      BY <3>1 DEF Earned
    <3>2. CASE s.blocks = 2
      <4>1. ~ (s.block_until.day > s.last_reset_date)
        BY <1>1, <1>5, <3>2 DEF Earned, BlockIsRunning, Before
      <4>2. s.rejections_total >= MaxRejections * (s.blocks + 1)
        BY <1>1, <1>2, <1>5, <3>2, <4>1 DEF Earned
      <4> QED
        BY <3>2, <4>2
    <3> QED
      BY <1>1, <1>5, <3>1, <3>2
  <2> QED
    BY <2>1, <2>2, <2>3 DEF Earned
<1> QED
  BY <1>1, <1>3, <1>4, <1>5

\* record_rejection() as a whole.
LEMMA RecordRejectionKeeps ==
    ASSUME NEW s \in Stats, Earned(s), NEW t \in Time, s.last_reset_date <= t.day
    PROVE  /\ RecordRejection(s, t) \in Stats
           /\ Earned(RecordRejection(s, t))
           /\ RecordRejection(s, t).last_reset_date <= t.day
<1> DEFINE c == [CheckDailyReset(s, t) EXCEPT !.rejections_today = @ + 1,
                                              !.rejections_total = @ + 1]
<1>1. c \in Stats /\ Earned(c) /\ c.last_reset_date = t.day
  BY CountingKeeps
<1>2. RecordRejection(s, t) = UpdateBlockLevel(c, t)
  BY DEF RecordRejection
<1>3. t.day \in Nat
  BY DEF Time
<1> HIDE DEF c
<1> QED
  BY <1>1, <1>2, <1>3, UpdateBlockLevelKeeps

-----------------------------------------------------------------------------
(* The invariant *)

\* What each handler under way knows of its users.
UsersHaveAccounts ==
    /\ \A i \in Ids : invites[i].from_id \in accounts
    /\ \A p \in Processes :
        /\ task[p].do = "insert" => task[p].from \in accounts /\ task[p].from # task[p].to
        /\ task[p].do \in AcceptWrites => invites[task[p].invite].to_id \in accounts

\* The process that withdrew an invite neither holds nor accepts it.
WithdrawerLetsGo ==
    \A i \in Ids : invites[i].status \in Withdrawn =>
        i \notin pending[invites[i].withdrawer] /\ ~ Accepting(invites[i].withdrawer, i)

Gone(i) == invites[i].status \in Withdrawn \/ invites[i].revived

\* The rows a sender under way looked at are in the table and in its way no more.
SendersLooked ==
    /\ \A j \in Ids : invites[j].seen < j
    /\ \A p \in Processes : task[p].do = "insert" =>
        /\ task[p].seen <= Len(invites)
        /\ \A i \in 1..task[p].seen :
             invites[i].from_id = task[p].from /\ invites[i].to_id = task[p].to => Gone(i)

\* A dialog half written holds the key of those writing it, which is the same
\* unless they cross.
Half(p) == task[p].do = "peer_dialog" /\ Parties(task[p].invite) \notin crossed

HalvesAgree ==
    /\ \A p \in Processes : Half(p) => dialogs[<<Accepter(p), Sender(p)>>] = task[p].key
    /\ \A p, q \in Processes :
           Half(p) /\ Half(q) /\ Parties(task[p].invite) = Parties(task[q].invite)
               => task[p].key = task[q].key

\* What a handler that accepts has written by the write that is next.
Written(p) ==
    /\ task[p].do \in AcceptWrites => task[p].key # NoKey
    /\ task[p].do \in {"contact", "peer_contact"} =>
           dialogs[<<Sender(p), Accepter(p)>>] # NoKey
    /\ task[p].do = "peer_contact" => <<Accepter(p), Sender(p)>> \in contacts

AcceptedConnect ==
    /\ \A p \in Processes : Written(p)
    /\ \A i \in Ids : invites[i].status = "accepted"
         => Connected(i) \/ \E p \in Processes : Accepting(p, i)

Faultless == faults = 0 => DialogsAgree /\ HalvesAgree /\ AcceptedConnect

StatsEarned ==
    /\ \A u \in Users : Earned(stats[u]) /\ stats[u].last_reset_date <= now.day
    /\ \A p \in Processes : task[p].do = "save" =>
           Earned(task[p].record) /\ task[p].record.last_reset_date <= now.day

IInv ==
    /\ TypeOK
    /\ UsersHaveAccounts
    /\ WithdrawerLetsGo
    /\ SendersLooked
    /\ OneLiveInvite
    /\ Faultless
    /\ StatsEarned

-----------------------------------------------------------------------------
(* The table and the handlers *)

LEMMA RowType ==
    ASSUME TypeOK, NEW i \in Ids
    PROVE  /\ invites[i] \in Rows
           /\ invites[i].from_id \in Users /\ invites[i].to_id \in Users
           /\ invites[i].from_id # invites[i].to_id
           /\ invites[i].session_key \in Keys
           /\ invites[i].status \in Statuses
           /\ invites[i].seen \in Nat
           /\ invites[i].withdrawer \in Processes
           /\ invites[i].revived \in BOOLEAN
<1>1. invites \in Seq(Rows) /\ i \in 1..Len(invites)
  BY DEF TypeOK, Ids
<1>2. invites[i] \in Rows
  BY <1>1, ElementOfSeq
<1> QED
  BY <1>2 DEF Rows

LEMMA TaskType ==
    ASSUME TypeOK, NEW p \in Processes
    PROVE  /\ task[p] \in Tasks
           /\ task[p].do = "insert" => /\ task[p].from \in Users /\ task[p].to \in Users
                                       /\ task[p].seen \in Nat
           /\ task[p].do = "revoke" => task[p].invite \in Ids
           /\ task[p].do \in AcceptWrites => /\ task[p].invite \in Ids
                                             /\ task[p].key \in Keys
           /\ task[p].do \in {"count", "save"} => task[p].sender \in Users
           /\ task[p].do = "save" => task[p].record \in Stats
<1>1. task[p] \in Tasks
  BY DEF TypeOK
<1>2. /\ task[p].do \in AcceptWrites => task[p].invite \in Ids
      /\ task[p].do = "revoke" => task[p].invite \in Ids
  BY DEF TypeOK
<1> QED
  BY <1>1, <1>2 DEF Tasks, Idle, AcceptWrites

\* The handler of process p becomes t.
LEMMA TaskSet ==
    ASSUME TypeOK, NEW p \in Processes, NEW t \in Tasks, task' = [task EXCEPT ![p] = t]
    PROVE  /\ task' \in [Processes -> Tasks]
           /\ task'[p] = t
           /\ \A q \in Processes : q # p => task'[q] = task[q]
BY DEF TypeOK

LEMMA IdleTask == Idle \in Tasks /\ Idle.do = "idle"
BY DEF Idle, Tasks

\* The handler of process p goes on to the write w of accept_invite().
LEMMA AcceptGoesOn ==
    ASSUME TypeOK, NEW p \in Processes, NEW w \in AcceptWrites,
           task[p].do \in AcceptWrites, GoOn(p, w)
    PROVE  /\ task' \in [Processes -> Tasks]
           /\ task'[p].do = w /\ task'[p].invite = task[p].invite
           /\ task'[p].key = task[p].key
           /\ \A q \in Processes : q # p => task'[q] = task[q]
<1> DEFINE t == [task[p] EXCEPT !.do = w]
<1>1. task[p] \in [do : AcceptWrites, invite : Nat, key : Keys]
  BY TaskType DEF Tasks, Idle, AcceptWrites
<1>2. t \in Tasks /\ t.do = w /\ t.invite = task[p].invite /\ t.key = task[p].key
  BY <1>1 DEF Tasks
<1>3. task' = [task EXCEPT ![p] = t]
  BY DEF GoOn
<1> HIDE DEF t
<1> QED
  BY <1>2, <1>3, TaskSet

\* How the table may change in a step that inserts nothing: an invite keeps its
\* parties and what its sender saw, and what is gone stays gone.
RowsMove ==
    /\ invites' \in Seq(Rows)
    /\ Ids' = Ids /\ Len(invites') = Len(invites)
    /\ \A i \in Ids :
        /\ invites'[i].from_id = invites[i].from_id
        /\ invites'[i].to_id = invites[i].to_id
        /\ invites'[i].seen = invites[i].seen
        /\ Gone(i) => Gone(i)'

LEMMA UnchangedRows ==
    ASSUME TypeOK, invites' = invites
    PROVE  RowsMove
BY DEF TypeOK, RowsMove, Gone, Ids

LEMMA WithdrawnRows ==
    ASSUME TypeOK, NEW p \in Processes, NEW i \in Ids, NEW st \in Withdrawn,
           Withdraw(p, i, st)
    PROVE  /\ RowsMove
           /\ invites'[i].status \in Withdrawn /\ invites'[i].withdrawer = p
           /\ \A j \in Ids : j # i => invites'[j] = invites[j]
<1> DEFINE row == [invites[i] EXCEPT !.status = st, !.withdrawer = p]
<1>1. invites \in Seq(Rows) /\ i \in 1..Len(invites)
  BY DEF TypeOK, Ids
<1>2. /\ row \in Rows /\ row.status = st /\ row.withdrawer = p
      /\ row.from_id = invites[i].from_id /\ row.to_id = invites[i].to_id
      /\ row.seen = invites[i].seen
  BY RowType DEF Rows, Withdrawn, Statuses
<1>3. invites' = [invites EXCEPT ![i] = row]
  BY DEF Withdraw
<1> HIDE DEF row
<1>4. /\ invites' \in Seq(Rows) /\ Len(invites') = Len(invites)
      /\ \A j \in 1..Len(invites) : invites'[j] = IF j = i THEN row ELSE invites[j]
  BY <1>1, <1>2, <1>3, ExceptSeq
<1> QED
  BY <1>1, <1>2, <1>4 DEF Ids, RowsMove, Gone

LEMMA AcceptedRows ==
    ASSUME TypeOK, NEW i \in Ids, MarkAccepted(i)
    PROVE  /\ RowsMove
           /\ invites'[i].status = "accepted"
           /\ \A j \in Ids : j # i => invites'[j] = invites[j]
<1> DEFINE row == [invites[i] EXCEPT !.status = "accepted",
                       !.revived = @ \/ invites[i].status \in Withdrawn]
<1>1. invites \in Seq(Rows) /\ i \in 1..Len(invites)
  BY DEF TypeOK, Ids
<1>2. /\ row \in Rows /\ row.status = "accepted"
      /\ row.from_id = invites[i].from_id /\ row.to_id = invites[i].to_id
      /\ row.seen = invites[i].seen
      /\ invites[i].status \in Withdrawn => row.revived
      /\ invites[i].revived => row.revived
  <2>1. (invites[i].revived \/ invites[i].status \in Withdrawn) \in BOOLEAN
    OBVIOUS
  <2> QED
    BY <2>1, RowType DEF Rows, Statuses
<1>3. invites' = [invites EXCEPT ![i] = row]
  BY DEF MarkAccepted
<1> HIDE DEF row
<1>4. /\ invites' \in Seq(Rows) /\ Len(invites') = Len(invites)
      /\ \A j \in 1..Len(invites) : invites'[j] = IF j = i THEN row ELSE invites[j]
  BY <1>1, <1>2, <1>3, ExceptSeq
<1>5. \A j \in Ids : Gone(j) => Gone(j)'
  <2>1. Gone(i) => invites'[i].revived
    BY <1>1, <1>2, <1>4 DEF Gone
  <2>2. \A j \in Ids : j # i => invites'[j] = invites[j]
    BY <1>4 DEF Ids
  <2> QED
    BY <2>1, <2>2 DEF Gone
<1> QED
  BY <1>1, <1>2, <1>4, <1>5 DEF Ids, RowsMove

\* Two invites have the same parties in one direction or in two.
LEMMA SameParties ==
    ASSUME NEW i, NEW x, NEW y, Parties(i) = {x, y}
    PROVE  \/ invites[i].from_id = x /\ invites[i].to_id = y
           \/ invites[i].from_id = y /\ invites[i].to_id = x
BY DEF Parties

LEMMA PartiesMove ==
    ASSUME RowsMove, NEW i \in Ids
    PROVE  Parties(i)' = Parties(i)
BY DEF RowsMove, Parties

-----------------------------------------------------------------------------
(* What steps of several kinds keep of the invariant *)

\* Handlers that send and accept go on or end; none begins.
LEMMA UsersKeep ==
    ASSUME IInv, RowsMove, accounts \subseteq accounts',
           \A q \in Processes : task'[q].do = "insert" => task'[q] = task[q],
           \A q \in Processes : task'[q].do \in AcceptWrites =>
               task[q].do \in AcceptWrites /\ task'[q].invite = task[q].invite
    PROVE  UsersHaveAccounts' /\ SendersLooked' /\ OneLiveInvite'
<1>1. \A q \in Processes : task[q].do \in AcceptWrites => task[q].invite \in Ids
  BY TaskType DEF IInv
<1>2. UsersHaveAccounts'
  <2>1. \A i \in Ids' : invites'[i].from_id \in accounts'
    BY DEF IInv, UsersHaveAccounts, RowsMove
  <2>2. ASSUME NEW q \in Processes, task'[q].do \in AcceptWrites
        PROVE  invites'[task'[q].invite].to_id \in accounts'
    BY <1>1, <2>2 DEF IInv, UsersHaveAccounts, RowsMove
  <2>3. ASSUME NEW q \in Processes, task'[q].do = "insert"
        PROVE  task'[q].from \in accounts' /\ task'[q].from # task'[q].to
    BY <2>3 DEF IInv, UsersHaveAccounts
  <2> QED
    BY <2>1, <2>2, <2>3 DEF UsersHaveAccounts
<1>3. \A j \in Ids : invites[j].seen \in Nat /\ invites[j].seen < j
  BY RowType DEF IInv, SendersLooked
<1>4. \A q \in Processes : task[q].do = "insert" =>
          /\ task[q].seen \in Nat /\ task[q].seen <= Len(invites)
          /\ \A i \in 1..task[q].seen : i \in Ids
  BY TaskType DEF IInv, SendersLooked, TypeOK, Ids
<1>5. SendersLooked'
  <2>1. \A j \in Ids' : invites'[j].seen < j
    BY <1>3 DEF RowsMove
  <2>2. ASSUME NEW q \in Processes, task'[q].do = "insert"
        PROVE  /\ task'[q].seen <= Len(invites')
               /\ \A i \in 1..task'[q].seen :
                    invites'[i].from_id = task'[q].from
                        /\ invites'[i].to_id = task'[q].to => Gone(i)'
    BY <1>4, <2>2 DEF IInv, SendersLooked, RowsMove
  <2> QED
    BY <2>1, <2>2 DEF SendersLooked
<1>6. OneLiveInvite'
  <2> SUFFICES ASSUME NEW j \in Ids, NEW i \in 1..invites[j].seen,
                      invites[i].from_id = invites[j].from_id,
                      invites[i].to_id = invites[j].to_id
               PROVE  Gone(i)'
    <3>1. \A j \in Ids : \A i \in 1..invites[j].seen : i \in Ids
      BY <1>3 DEF Ids
    <3> QED
      BY <3>1 DEF RowsMove, OneLiveInvite, Gone
  <2>1. i \in Ids
    BY <1>3 DEF Ids
  <2>2. Gone(i)
    BY DEF IInv, OneLiveInvite, Gone
  <2> QED
    BY <2>1, <2>2 DEF RowsMove
<1> QED
  BY <1>2, <1>5, <1>6

\* No invite is withdrawn, none that is comes into memory or is accepted anew.
LEMMA LetGoKept ==
    ASSUME IInv, Ids \subseteq Ids',
           \A j \in Ids' : invites'[j].status \in Withdrawn =>
               /\ j \in Ids /\ invites[j].status \in Withdrawn
               /\ invites'[j].withdrawer = invites[j].withdrawer,
           \A q \in Processes, j \in Ids : j \in pending'[q] =>
               j \in pending[q] \/ invites[j].status \notin Withdrawn,
           \A q \in Processes, j \in Ids : Accepting(q, j)' =>
               \/ Accepting(q, j) \/ j \in pending[q]
               \/ invites[j].status \notin Withdrawn
    PROVE  WithdrawerLetsGo'
<1>1. \A j \in Ids : invites[j].withdrawer \in Processes
  BY RowType DEF IInv
<1> QED
  BY <1>1 DEF IInv, WithdrawerLetsGo, Accepting

\* Nothing is written to a dialog, and no handler that has written the first of
\* two sides goes on.
LEMMA DialogsKept ==
    ASSUME IInv, faults = 0, UNCHANGED <<dialogs, crossed>>,
           \A j \in Ids : /\ invites'[j].from_id = invites[j].from_id
                          /\ invites'[j].to_id = invites[j].to_id,
           \A q \in Processes : task[q].do = "peer_dialog" => task'[q] = task[q],
           \A q \in Processes : task'[q].do = "peer_dialog" => task'[q] = task[q]
    PROVE  DialogsAgree' /\ HalvesAgree'
<1>1. \A q \in Processes : task[q].do = "peer_dialog" =>
          /\ task[q].invite \in Ids
          /\ Parties(task[q].invite)' = Parties(task[q].invite)
          /\ Accepter(q)' = Accepter(q) /\ Sender(q)' = Sender(q)
  <2> SUFFICES ASSUME NEW q \in Processes, task[q].do = "peer_dialog"
               PROVE  /\ task[q].invite \in Ids
                      /\ Parties(task[q].invite)' = Parties(task[q].invite)
                      /\ Accepter(q)' = Accepter(q) /\ Sender(q)' = Sender(q)
    OBVIOUS
  <2>1. task[q].invite \in Ids /\ task'[q] = task[q]
    BY TaskType DEF IInv, AcceptWrites
  <2> QED
    BY <2>1 DEF Parties, Accepter, Sender
<1>2. \A q \in Processes : Half(q)' => Half(q) /\ task'[q] = task[q]
  BY <1>1 DEF Half
<1>3. HalvesAgree'
  BY <1>1, <1>2 DEF IInv, Faultless, HalvesAgree, Half
<1>4. DialogsAgree'
  BY <1>1 DEF IInv, Faultless, DialogsAgree
<1> QED
  BY <1>3, <1>4

\* Handlers that accept stay where they are or begin, and none ends; no invite
\* is accepted.
LEMMA ConnectedKept ==
    ASSUME IInv, faults = 0, UNCHANGED <<dialogs, contacts>>,
           \A j \in Ids : /\ invites'[j].from_id = invites[j].from_id
                          /\ invites'[j].to_id = invites[j].to_id,
           \A j \in Ids' : invites'[j].status = "accepted" =>
               j \in Ids /\ invites[j].status = "accepted",
           \A q \in Processes : task[q].do \in AcceptWrites => task'[q] = task[q],
           \A q \in Processes : task'[q].do \in AcceptWrites =>
               task'[q] = task[q] \/ (task'[q].do = "status" /\ task'[q].key # NoKey)
    PROVE  AcceptedConnect'
<1>1. ASSUME NEW q \in Processes PROVE Written(q)'
  <2>1. CASE task'[q].do \notin AcceptWrites
    BY <2>1 DEF Written, AcceptWrites
  <2>2. CASE task'[q].do = "status" /\ task'[q].key # NoKey
    BY <2>2 DEF Written
  <2>3. CASE task'[q] = task[q] /\ task[q].do \in AcceptWrites
    <3>1. task[q].invite \in Ids
      BY <2>3, TaskType DEF IInv
    <3>2. Accepter(q)' = Accepter(q) /\ Sender(q)' = Sender(q)
      BY <2>3, <3>1 DEF Accepter, Sender
    <3> QED
      BY <2>3, <3>2 DEF IInv, Faultless, AcceptedConnect, Written
  <2> QED
    BY <2>1, <2>2, <2>3
<1>2. ASSUME NEW j \in Ids, invites[j].status = "accepted"
      PROVE  Connected(j)' \/ \E q \in Processes : Accepting(q, j)'
  <2>1. CASE Connected(j)
    BY <2>1 DEF Connected
  <2>2. ASSUME NEW q \in Processes, Accepting(q, j) PROVE Accepting(q, j)'
    BY <2>2 DEF Accepting
  <2> QED
    BY <1>2, <2>1, <2>2 DEF IInv, Faultless, AcceptedConnect
<1> QED
  BY <1>1, <1>2 DEF AcceptedConnect

\* No record is saved or computed, and the day does not go back.
LEMMA EarnedKept ==
    ASSUME IInv, stats' = stats, now'.day \in Nat, now'.day >= now.day,
           \A q \in Processes : task'[q].do = "save" => task'[q] = task[q]
    PROVE  StatsEarned'
<1>1. now.day \in Nat /\ \A u \in Users : stats[u].last_reset_date \in Nat
  BY DEF IInv, TypeOK, Stats, Time
<1>2. \A q \in Processes : task[q].do = "save" => task[q].record.last_reset_date \in Nat
  BY TaskType DEF IInv, Stats
<1> QED
  BY <1>1, <1>2 DEF IInv, StatsEarned, Earned

-----------------------------------------------------------------------------
(* Steps that leave the table and the handlers alone *)

LEMMA InitIInv == ASSUME Init PROVE IInv
<1>1. Ids = {} /\ Len(invites) = 0
  BY DEF Init, Ids
<1>2. \A p \in Processes : task[p] = Idle /\ task[p].do = "idle"
  BY DEF Init, Idle
<1>3. TypeOK
  BY <1>1, <1>2, NewStatsEarned, InvitesAssumption, IdleTask
     DEF Init, TypeOK, Pairs, Keys, NoKey, Time, AcceptWrites
<1>4. UsersHaveAccounts /\ SendersLooked
  BY <1>1, <1>2 DEF UsersHaveAccounts, SendersLooked, AcceptWrites
<1>5. WithdrawerLetsGo /\ OneLiveInvite
  BY <1>1 DEF WithdrawerLetsGo, OneLiveInvite
<1>6. Faultless
  <2>1. DialogsAgree
    BY DEF Init, DialogsAgree, Pairs
  <2>2. HalvesAgree
    BY <1>2 DEF HalvesAgree, Half
  <2>3. AcceptedConnect
    BY <1>1, <1>2 DEF AcceptedConnect, Written, AcceptWrites
  <2> QED
    BY <2>1, <2>2, <2>3 DEF Faultless
<1>7. StatsEarned
  BY <1>2, NewStatsEarned DEF Init, StatsEarned, NewStats
<1> QED
  BY <1>3, <1>4, <1>5, <1>6, <1>7 DEF IInv

LEMMA TickKeeps ==
    ASSUME IInv, Tick
    PROVE  IInv' /\ RowsMove
<1>1. /\ UNCHANGED <<accounts, invites, dialogs, contacts, stats, pending, task, keys,
                    faults, crossed>>
      /\ Ids' = Ids
  BY DEF Tick, tables, Ids
<1>2. now' \in Time /\ now'.day >= now.day
  <2>1. now \in Time
    BY DEF IInv, TypeOK
  <2>2. now.day \in Nat /\ now.hour \in Nat
    BY <2>1 DEF Time
  <2>3. /\ now' = IF now.hour < LastHour THEN [now EXCEPT !.hour = now.hour + 1]
                                         ELSE [day |-> now.day + 1, hour |-> 0]
        /\ now'.day <= MaxDay
    BY DEF Tick
  <2>4. CASE now.hour < LastHour
    <3>1. now' = [now EXCEPT !.hour = now.hour + 1]
      BY <2>3, <2>4
    <3> QED
      BY <2>1, <2>2, <3>1 DEF Time
  <2>5. CASE ~(now.hour < LastHour)
    <3>1. now' = [day |-> now.day + 1, hour |-> 0]
      BY <2>3, <2>5
    <3> QED
      BY <2>1, <2>2, <2>3, <3>1 DEF Time
  <2> QED
    BY <2>4, <2>5
<1>3. TypeOK'
  BY <1>1, <1>2 DEF IInv, TypeOK
<1>4. RowsMove
  BY <1>1, UnchangedRows DEF IInv
<1>5. UsersHaveAccounts' /\ SendersLooked' /\ OneLiveInvite'
  BY <1>1, <1>4, UsersKeep
<1>6. WithdrawerLetsGo'
  BY <1>1 DEF IInv, WithdrawerLetsGo, Accepting
<1>7. Faultless'
  <2>1. faults = 0 => DialogsAgree' /\ HalvesAgree'
    BY <1>1, DialogsKept
  <2>2. faults = 0 => AcceptedConnect'
    BY <1>1, ConnectedKept
  <2> QED
    BY <1>1, <2>1, <2>2 DEF Faultless
<1>8. StatsEarned'
  BY <1>1, <1>2, EarnedKept DEF Time
<1> QED
  BY <1>3, <1>4, <1>5, <1>6, <1>7, <1>8 DEF IInv

LEMMA RegisterKeeps ==
    ASSUME IInv, NEW u \in Users, Register(u)
    PROVE  IInv' /\ RowsMove
<1>1. /\ UNCHANGED <<invites, dialogs, contacts, stats, pending, task, keys, now,
                    faults, crossed>>
      /\ Ids' = Ids
  BY DEF Register, Ids
<1>2. accounts \subseteq accounts' /\ accounts' \subseteq Users
  BY DEF Register, IInv, TypeOK
<1>3. TypeOK'
  BY <1>1, <1>2 DEF IInv, TypeOK
<1>4. RowsMove
  BY <1>1, UnchangedRows DEF IInv
<1>5. UsersHaveAccounts' /\ SendersLooked' /\ OneLiveInvite'
  BY <1>1, <1>2, <1>4, UsersKeep
<1>6. WithdrawerLetsGo'
  BY <1>1 DEF IInv, WithdrawerLetsGo, Accepting
<1>7. Faultless'
  <2>1. faults = 0 => DialogsAgree' /\ HalvesAgree'
    BY <1>1, DialogsKept
  <2>2. faults = 0 => AcceptedConnect'
    BY <1>1, ConnectedKept
  <2> QED
    BY <1>1, <2>1, <2>2 DEF Faultless
<1>8. StatsEarned'
  BY <1>1 DEF IInv, StatsEarned, Earned
<1> QED
  BY <1>3, <1>4, <1>5, <1>6, <1>7, <1>8 DEF IInv

\* A handler ends, or one begins or goes on that neither inserts nor accepts nor
\* saves.
LEMMA QuietKeeps ==
    ASSUME IInv, NEW p \in Processes, NEW t \in Tasks,
           t.do \in {"idle", "revoke", "count"}, t.do = "revoke" => t.invite \in Ids,
           task' = [task EXCEPT ![p] = t],
           pending' \in [Processes -> SUBSET Ids],
           \A q \in Processes, j \in Ids : j \in pending'[q] =>
               j \in pending[q] \/ invites[j].status \notin Withdrawn,
           faults' \in 0..MaxFaults,
           faults' = 0 => faults = 0 /\ task[p].do \notin AcceptWrites,
           UNCHANGED <<tables, keys, now, crossed>>
    PROVE  IInv' /\ RowsMove
<1>1. /\ UNCHANGED <<accounts, invites, dialogs, contacts, stats, keys, now, crossed>>
      /\ Ids' = Ids
  BY DEF tables, Ids
<1>2. /\ task' \in [Processes -> Tasks]
      /\ task'[p] = t /\ task'[p].do \notin AcceptWrites
      /\ \A q \in Processes : q # p => task'[q] = task[q]
  BY TaskSet DEF IInv, AcceptWrites
<1>3. TypeOK'
  <2>1. \A q \in Processes : task'[q].do \in AcceptWrites \cup {"revoke"} =>
            task'[q].invite \in Ids'
    BY <1>1, <1>2 DEF IInv, TypeOK, AcceptWrites
  <2> QED
    BY <1>1, <1>2, <2>1 DEF IInv, TypeOK
<1>4. RowsMove
  BY <1>1, UnchangedRows DEF IInv
<1>5. UsersHaveAccounts' /\ SendersLooked' /\ OneLiveInvite'
  BY <1>1, <1>2, <1>4, UsersKeep
<1>6. WithdrawerLetsGo'
  BY <1>1, <1>2, LetGoKept DEF Accepting
<1>7. Faultless'
  <2>1. faults' = 0 => DialogsAgree' /\ HalvesAgree'
    BY <1>1, <1>2, DialogsKept DEF AcceptWrites
  <2>2. faults' = 0 => AcceptedConnect'
    BY <1>1, <1>2, ConnectedKept
  <2> QED
    BY <2>1, <2>2 DEF Faultless
<1>8. StatsEarned'
  BY <1>1, <1>2, EarnedKept DEF IInv, TypeOK, Time
<1> QED
  BY <1>3, <1>4, <1>5, <1>6, <1>7, <1>8 DEF IInv

LEMMA RestartKeeps ==
    ASSUME IInv, NEW p \in Processes, Restart(p)
    PROVE  IInv' /\ RowsMove
<1>1. task' = [task EXCEPT ![p] = Idle] /\ Idle \in Tasks /\ Idle.do = "idle"
  BY IdleTask DEF Restart, Finish
<1>2. pending' \in [Processes -> SUBSET Ids]
  BY DEF Restart, LoadActiveInvites, IInv, TypeOK
<1>3. \A q \in Processes, j \in Ids : j \in pending'[q] =>
          j \in pending[q] \/ invites[j].status \notin Withdrawn
  BY DEF Restart, LoadActiveInvites, IInv, TypeOK, Withdrawn
<1>4. faults' \in 0..MaxFaults /\ (faults' = 0 => faults = 0 /\ task[p] = Idle)
  BY InvitesAssumption DEF Restart, IInv, TypeOK
<1>5. task[p] = Idle => task[p].do \notin AcceptWrites
  BY IdleTask DEF AcceptWrites
<1> QED
  BY <1>1, <1>2, <1>3, <1>4, <1>5, QuietKeeps DEF Restart

LEMMA RevokeKeeps ==
    ASSUME IInv, NEW p \in Processes, NEW i \in Nat, NEW u \in Users, RevokeInvite(p, i, u)
    PROVE  IInv' /\ RowsMove
<1> DEFINE t == [do |-> "revoke", invite |-> i]
<1>1. /\ t \in Tasks /\ t.do = "revoke" /\ t.invite = i /\ i \in Ids
      /\ task' = [task EXCEPT ![p] = t] /\ task[p] = Idle
  BY DEF RevokeInvite, Begin, Tasks
<1>2. task[p].do \notin AcceptWrites
  BY <1>1, IdleTask DEF AcceptWrites
<1> HIDE DEF t
<1> QED
  BY <1>1, <1>2, QuietKeeps DEF RevokeInvite, IInv, TypeOK

-----------------------------------------------------------------------------
(* send_invite() and revoke_invite() *)

LEMMA SendKeeps ==
    ASSUME IInv, NEW p \in Processes, NEW u \in Users, NEW v \in Users, SendInvite(p, u, v)
    PROVE  IInv' /\ RowsMove
<1> DEFINE t == [do |-> "insert", from |-> u, to |-> v, seen |-> Len(invites)]
<1>1. /\ UNCHANGED <<accounts, invites, dialogs, contacts, stats, pending, keys, now,
                    faults, crossed>>
      /\ Ids' = Ids
  BY DEF SendInvite, tables, Ids
<1>2. /\ t \in Tasks /\ t.do = "insert" /\ t.from = u /\ t.to = v
      /\ t.seen = Len(invites) /\ Len(invites) \in Nat
      /\ task' = [task EXCEPT ![p] = t] /\ task[p].do = "idle"
  BY IdleTask, LenProperties DEF SendInvite, Begin, Tasks, IInv, TypeOK
<1> HIDE DEF t
<1>3. /\ task' \in [Processes -> Tasks] /\ task'[p] = t
      /\ \A q \in Processes : q # p => task'[q] = task[q]
  BY <1>2, TaskSet DEF IInv
<1>4. TypeOK'
  <2>1. \A q \in Processes : task'[q].do \in AcceptWrites \cup {"revoke"} =>
            task'[q].invite \in Ids'
    BY <1>1, <1>2, <1>3 DEF IInv, TypeOK, AcceptWrites
  <2> QED
    BY <1>1, <1>3, <2>1 DEF IInv, TypeOK
<1>5. RowsMove
  BY <1>1, UnchangedRows DEF IInv
<1>6. UsersHaveAccounts'
  BY <1>1, <1>2, <1>3 DEF SendInvite, MayInvite, IInv, UsersHaveAccounts, AcceptWrites
<1>7. SendersLooked'
  <2>1. \A i \in Ids : invites[i].from_id = u /\ invites[i].to_id = v => Gone(i)
    <3>1. \A i \in Ids : invites[i].status \in Statuses
      BY RowType DEF IInv
    <3> QED
      BY <3>1 DEF SendInvite, InviteExists, Statuses, Withdrawn, Gone
  <2>2. \A j \in Ids' : invites'[j].seen < j
    BY <1>1 DEF IInv, SendersLooked
  <2>3. ASSUME NEW q \in Processes, task'[q].do = "insert"
        PROVE  /\ task'[q].seen <= Len(invites')
               /\ \A i \in 1..task'[q].seen :
                    invites'[i].from_id = task'[q].from
                        /\ invites'[i].to_id = task'[q].to => Gone(i)'
    <3>1. CASE q = p
      BY <1>1, <1>2, <1>3, <2>1, <3>1 DEF Gone, Ids
    <3>2. CASE q # p
      BY <1>1, <1>3, <2>3, <3>2 DEF IInv, SendersLooked, Gone
    <3> QED
      BY <3>1, <3>2
  <2> QED
    BY <2>2, <2>3 DEF SendersLooked
<1>8. OneLiveInvite'
  BY <1>1 DEF IInv, OneLiveInvite
<1>9. WithdrawerLetsGo'
  BY <1>1, <1>2, <1>3, LetGoKept DEF Accepting, AcceptWrites
<1>10. Faultless'
  <2>1. faults' = 0 => DialogsAgree' /\ HalvesAgree'
    BY <1>1, <1>2, <1>3, DialogsKept
  <2>2. faults' = 0 => AcceptedConnect'
    BY <1>1, <1>2, <1>3, ConnectedKept DEF AcceptWrites
  <2> QED
    BY <2>1, <2>2 DEF Faultless
<1>11. StatsEarned'
  BY <1>1, <1>2, <1>3, EarnedKept DEF IInv, TypeOK, Time
<1> QED
  BY <1>4, <1>5, <1>6, <1>7, <1>8, <1>9, <1>10, <1>11 DEF IInv

LEMMA InsertKeeps ==
    ASSUME IInv, NEW p \in Processes, InsertInvite(p)
    PROVE  /\ IInv'
           /\ \A i \in Ids : invites'[i] = invites[i]
<1> DEFINE t == task[p]
           key == IF t.to \in accounts THEN keys + 1 ELSE NoKey
           row == [from_id |-> t.from, to_id |-> t.to, status |-> "pending",
                   session_key |-> key, expires_at |-> DaysLater(now, InviteDays),
                   seen |-> t.seen, withdrawer |-> p, revived |-> FALSE]
           new == Len(invites) + 1
<1>1. /\ UNCHANGED <<accounts, dialogs, contacts, stats, now, faults, crossed>>
      /\ t.do = "insert" /\ invites' = Append(invites, row)
      /\ key <= MaxKeys /\ keys' = IF t.to \in accounts THEN keys + 1 ELSE keys
      /\ pending' = [pending EXCEPT ![p] = @ \cup {new}]
      /\ task' = [task EXCEPT ![p] = Idle]
  BY DEF InsertInvite, Finish
<1>2. /\ t.from \in Users /\ t.to \in Users /\ t.from # t.to /\ t.from \in accounts
      /\ t.seen \in Nat /\ t.seen <= Len(invites)
  BY <1>1, TaskType DEF IInv, UsersHaveAccounts, SendersLooked
<1>3. key \in Keys /\ keys' \in Keys
  BY <1>1, InvitesAssumption DEF IInv, TypeOK, Keys, NoKey
<1>4. DaysLater(now, InviteDays) \in Time
  BY DaysLaterType, InvitesAssumption DEF IInv, TypeOK
<1>5. /\ row \in Rows /\ row.from_id = t.from /\ row.to_id = t.to
      /\ row.status = "pending" /\ row.seen = t.seen
  BY <1>2, <1>3, <1>4 DEF Rows, Statuses
<1> HIDE DEF row, key
<1>6. /\ invites \in Seq(Rows) /\ Len(invites) \in Nat
      /\ invites' \in Seq(Rows) /\ Len(invites') = new /\ invites'[new] = row
      /\ \A i \in Ids : invites'[i] = invites[i]
      /\ Ids' = Ids \cup {new} /\ new \notin Ids
  <2>1. invites \in Seq(Rows) /\ Len(invites) \in Nat
    BY LenProperties DEF IInv, TypeOK
  <2>2. /\ invites' \in Seq(Rows) /\ Len(invites') = new
        /\ \A i \in 1..Len(invites) : invites'[i] = invites[i]
        /\ invites'[new] = row
    BY <1>1, <1>5, <2>1, AppendProperties
  <2> QED
    BY <2>1, <2>2 DEF Ids
<1>7. /\ task' \in [Processes -> Tasks] /\ task'[p].do = "idle"
      /\ \A q \in Processes : q # p => task'[q] = task[q]
  BY <1>1, IdleTask, TaskSet DEF IInv
<1>8. pending' \in [Processes -> SUBSET Ids']
      /\ \A q \in Processes : pending'[q] \subseteq pending[q] \cup {new}
  BY <1>1, <1>6 DEF IInv, TypeOK
<1>9. TypeOK'
  <2>1. \A q \in Processes : task'[q].do \in AcceptWrites \cup {"revoke"} =>
            task'[q].invite \in Ids'
    BY <1>6, <1>7 DEF IInv, TypeOK, AcceptWrites
  <2> QED
    BY <1>1, <1>3, <1>6, <1>7, <1>8, <2>1 DEF IInv, TypeOK
<1>10. \A q \in Processes : task[q].do \in AcceptWrites => task[q].invite \in Ids
  BY TaskType DEF IInv
<1>11. UsersHaveAccounts'
  <2>1. \A i \in Ids' : invites'[i].from_id \in accounts'
    BY <1>1, <1>2, <1>5, <1>6 DEF IInv, UsersHaveAccounts
  <2>2. \A q \in Processes : task'[q].do \in AcceptWrites =>
            invites'[task'[q].invite].to_id \in accounts'
    BY <1>1, <1>6, <1>7, <1>10 DEF IInv, UsersHaveAccounts, AcceptWrites
  <2>3. \A q \in Processes : task'[q].do = "insert" =>
            task'[q].from \in accounts' /\ task'[q].from # task'[q].to
    BY <1>1, <1>7 DEF IInv, UsersHaveAccounts
  <2> QED
    BY <2>1, <2>2, <2>3 DEF UsersHaveAccounts
<1>12. \A i \in Ids : Gone(i)' = Gone(i)
  BY <1>6 DEF Gone
<1>13. \A q \in Processes : task[q].do = "insert" =>
           task[q].seen \in Nat /\ \A i \in 1..task[q].seen : i \in Ids
  BY <1>6, TaskType DEF IInv, SendersLooked, Ids
<1>14. SendersLooked'
  <2>1. \A j \in Ids' : invites'[j].seen < j
    BY <1>2, <1>5, <1>6 DEF IInv, SendersLooked
  <2>2. ASSUME NEW q \in Processes, task'[q].do = "insert"
        PROVE  /\ task'[q].seen <= Len(invites')
               /\ \A i \in 1..task'[q].seen :
                    invites'[i].from_id = task'[q].from
                        /\ invites'[i].to_id = task'[q].to => Gone(i)'
    <3>1. q # p /\ task'[q] = task[q] /\ task[q].do = "insert"
      BY <1>7, <2>2
    <3>2. /\ task[q].seen \in Nat /\ task[q].seen <= Len(invites)
          /\ \A i \in 1..task[q].seen : i \in Ids /\
                 (invites[i].from_id = task[q].from
                        /\ invites[i].to_id = task[q].to => Gone(i))
      BY <1>13, <3>1 DEF IInv, SendersLooked
    <3> QED
      BY <1>6, <1>12, <3>1, <3>2
  <2> QED
    BY <2>1, <2>2 DEF SendersLooked
<1>15. OneLiveInvite'
  <2>1. \A j \in Ids : invites[j].seen \in Nat /\ invites[j].seen < j
    BY RowType DEF IInv, SendersLooked
  <2>2. \A j \in Ids : \A i \in 1..invites[j].seen : i \in Ids
    BY <2>1 DEF Ids
  <2>3. ASSUME NEW j \in Ids', NEW i \in 1..invites'[j].seen,
               invites'[i].from_id = invites'[j].from_id,
               invites'[i].to_id = invites'[j].to_id
        PROVE  Gone(i)'
    <3>1. CASE j = new
      <4>1. i \in 1..t.seen /\ i \in Ids
        BY <1>1, <1>5, <1>6, <1>13, <2>3, <3>1
      <4>2. Gone(i)
        BY <1>1, <1>5, <1>6, <2>3, <3>1, <4>1 DEF IInv, SendersLooked
      <4> QED
        BY <1>12, <4>1, <4>2
    <3>2. CASE j \in Ids
      <4>1. i \in Ids /\ i \in 1..invites[j].seen
        BY <1>6, <2>2, <2>3, <3>2
      <4>2. Gone(i)
        BY <1>6, <2>3, <3>2, <4>1 DEF IInv, OneLiveInvite, Gone
      <4> QED
        BY <1>12, <4>1, <4>2
    <3> QED
      BY <1>6, <3>1, <3>2
  <2> QED
    BY <2>3 DEF OneLiveInvite, Gone
<1>16. WithdrawerLetsGo'
  <2>1. \A j \in Ids' : invites'[j].status \in Withdrawn =>
               /\ j \in Ids /\ invites[j].status \in Withdrawn
               /\ invites'[j].withdrawer = invites[j].withdrawer
    BY <1>5, <1>6 DEF Withdrawn
  <2>2. \A q \in Processes, j \in Ids : j \in pending'[q] => j \in pending[q]
    BY <1>6, <1>8
  <2>3. \A q \in Processes, j \in Ids : Accepting(q, j)' => Accepting(q, j)
    BY <1>7 DEF Accepting, AcceptWrites
  <2>4. Ids \subseteq Ids'
    BY <1>6
  <2> HIDE DEF new, t
  <2> QED
    BY <2>1, <2>2, <2>3, <2>4, LetGoKept
<1>17. Faultless'
  <2>1. \A j \in Ids : /\ invites'[j].from_id = invites[j].from_id
                       /\ invites'[j].to_id = invites[j].to_id
    BY <1>6
  <2>2. \A j \in Ids' : invites'[j].status = "accepted" =>
               j \in Ids /\ invites[j].status = "accepted"
    BY <1>5, <1>6
  <2>3. \A q \in Processes : task[q].do \in AcceptWrites => task'[q] = task[q]
    BY <1>1, <1>7 DEF AcceptWrites
  <2>4. \A q \in Processes : task'[q].do \in AcceptWrites => task'[q] = task[q]
    BY <1>7 DEF AcceptWrites
  <2>5. "peer_dialog" \in AcceptWrites
    BY DEF AcceptWrites
  <2> HIDE DEF new, t
  <2>6. faults' = 0 => DialogsAgree' /\ HalvesAgree'
    BY <1>1, <2>1, <2>3, <2>4, <2>5, DialogsKept
  <2>7. faults' = 0 => AcceptedConnect'
    BY <1>1, <2>1, <2>2, <2>3, <2>4, ConnectedKept
  <2> QED
    BY <2>6, <2>7 DEF Faultless
<1>18. StatsEarned'
  BY <1>1, <1>7, EarnedKept DEF IInv, TypeOK, Time
<1> QED
  BY <1>6, <1>9, <1>11, <1>14, <1>15, <1>16, <1>17, <1>18 DEF IInv

\* An invite is withdrawn by a handler that then ends or counts the rejection.
LEMMA WithdrawKeeps ==
    ASSUME IInv, NEW p \in Processes, NEW i \in Ids, NEW st \in Withdrawn,
           Withdraw(p, i, st), Forget(p, i),
           NEW t \in Tasks, t.do \in {"idle", "count"}, task' = [task EXCEPT ![p] = t],
           task[p].do \notin AcceptWrites,
           UNCHANGED <<accounts, dialogs, contacts, stats, keys, now, faults, crossed>>
    PROVE  IInv' /\ RowsMove
<1>1. /\ RowsMove
      /\ invites'[i].status \in Withdrawn /\ invites'[i].withdrawer = p
      /\ \A j \in Ids : j # i => invites'[j] = invites[j]
  BY WithdrawnRows DEF IInv
<1>2. /\ invites' \in Seq(Rows) /\ Ids' = Ids
      /\ \A j \in Ids : /\ invites'[j].from_id = invites[j].from_id
                        /\ invites'[j].to_id = invites[j].to_id
  BY <1>1 DEF RowsMove
<1>3. /\ task' \in [Processes -> Tasks]
      /\ task'[p] = t /\ task'[p].do \notin AcceptWrites
      /\ \A q \in Processes : q # p => task'[q] = task[q]
  BY TaskSet DEF IInv, AcceptWrites
<1>4. /\ pending' \in [Processes -> SUBSET Ids] /\ i \notin pending'[p]
      /\ \A q \in Processes : pending'[q] \subseteq pending[q]
  BY DEF Forget, IInv, TypeOK
<1>5. TypeOK'
  <2>1. \A q \in Processes : task'[q].do \in AcceptWrites \cup {"revoke"} =>
            task'[q].invite \in Ids'
    BY <1>2, <1>3 DEF IInv, TypeOK, AcceptWrites
  <2> QED
    BY <1>2, <1>3, <1>4, <2>1 DEF IInv, TypeOK
<1>6. UsersHaveAccounts' /\ SendersLooked' /\ OneLiveInvite'
  BY <1>1, <1>3, UsersKeep
<1>7. WithdrawerLetsGo'
  <2> SUFFICES ASSUME NEW j \in Ids, invites'[j].status \in Withdrawn
               PROVE  /\ j \notin pending'[invites'[j].withdrawer]
                      /\ ~ Accepting(invites[j].withdrawer, j)'
    BY <1>2 DEF WithdrawerLetsGo
  <2>1. CASE j = i
    BY <1>1, <1>3, <1>4, <2>1 DEF Accepting
  <2>2. CASE j # i
    <3>1. invites'[j] = invites[j] /\ invites[j].withdrawer \in Processes
      BY <1>1, <2>2, RowType DEF IInv
    <3>2. /\ j \notin pending[invites[j].withdrawer]
          /\ ~ Accepting(invites[j].withdrawer, j)
      BY <3>1 DEF IInv, WithdrawerLetsGo
    <3> QED
      BY <1>3, <1>4, <3>1, <3>2 DEF Accepting
  <2> QED
    BY <2>1, <2>2
<1>8. Faultless'
  <2>1. \A j \in Ids' : invites'[j].status = "accepted" =>
            j \in Ids /\ invites[j].status = "accepted"
    BY <1>1, <1>2 DEF Withdrawn
  <2>2. \A q \in Processes : task[q].do \in AcceptWrites => task'[q] = task[q]
    BY <1>3
  <2>3. \A q \in Processes : task'[q].do \in AcceptWrites => task'[q] = task[q]
    BY <1>3
  <2>4. "peer_dialog" \in AcceptWrites
    BY DEF AcceptWrites
  <2>5. faults' = 0 => DialogsAgree' /\ HalvesAgree'
    BY <1>2, <2>2, <2>3, <2>4, DialogsKept
  <2>6. faults' = 0 => AcceptedConnect'
    BY <1>2, <2>1, <2>2, <2>3, ConnectedKept
  <2> QED
    BY <2>5, <2>6 DEF Faultless
<1>9. StatsEarned'
  BY <1>3, EarnedKept DEF IInv, TypeOK, Time
<1> QED
  BY <1>1, <1>5, <1>6, <1>7, <1>8, <1>9 DEF IInv

LEMMA MarkRevokedKeeps ==
    ASSUME IInv, NEW p \in Processes, MarkRevoked(p)
    PROVE  IInv' /\ RowsMove
<1>1. task[p].do = "revoke" /\ task[p].invite \in Ids /\ task[p].do \notin AcceptWrites
  BY TaskType DEF MarkRevoked, IInv, AcceptWrites
<1>2. "revoked" \in Withdrawn /\ Idle \in Tasks /\ Idle.do = "idle"
  BY IdleTask DEF Withdrawn
<1>3. /\ Withdraw(p, task[p].invite, "revoked") /\ Forget(p, task[p].invite)
      /\ task' = [task EXCEPT ![p] = Idle]
      /\ UNCHANGED <<accounts, dialogs, contacts, stats, keys, now, faults, crossed>>
  BY DEF MarkRevoked, Finish
<1> QED
  BY <1>1, <1>2, <1>3, WithdrawKeeps

-----------------------------------------------------------------------------
(* reject_invite() *)

LEMMA RejectKeeps ==
    ASSUME IInv, NEW p \in Processes, NEW i \in Nat, NEW u \in Users, RejectInvite(p, i, u)
    PROVE  IInv' /\ RowsMove
<1> DEFINE t == [do |-> "count", sender |-> invites[i].from_id]
<1>1. i \in Ids /\ invites[i].from_id \in Users
  BY RowType DEF RejectInvite, IInv
<1>2. /\ t \in Tasks /\ t.do = "count"
      /\ task' = [task EXCEPT ![p] = t] /\ task[p] = Idle
  BY <1>1 DEF RejectInvite, Begin, Tasks
<1>3. task[p].do \notin AcceptWrites
  BY <1>2, IdleTask DEF AcceptWrites
<1>4. /\ Forget(p, i)
      /\ UNCHANGED <<accounts, dialogs, contacts, stats, keys, now, faults, crossed>>
  BY DEF RejectInvite
<1> HIDE DEF t
<1>5. CASE Withdraw(p, i, "rejected")
  <2>1. "rejected" \in Withdrawn
    BY DEF Withdrawn
  <2> QED
    BY <1>1, <1>2, <1>3, <1>4, <1>5, <2>1, WithdrawKeeps
<1>6. CASE invites' = invites
  <2>1. /\ pending' \in [Processes -> SUBSET Ids]
        /\ \A q \in Processes : pending'[q] \subseteq pending[q]
    BY <1>4 DEF Forget, IInv, TypeOK
  <2>2. faults' \in 0..MaxFaults
    BY <1>4 DEF IInv, TypeOK
  <2> QED
    BY <1>2, <1>3, <1>4, <1>6, <2>1, <2>2, QuietKeeps DEF tables
<1> QED
  BY <1>5, <1>6 DEF RejectInvite

LEMMA LoadStatsKeeps ==
    ASSUME IInv, NEW p \in Processes, LoadStats(p)
    PROVE  IInv' /\ RowsMove
<1> DEFINE u == task[p].sender
           r == RecordRejection(stats[u], now)
           t == [do |-> "save", sender |-> u, record |-> r]
<1>1. /\ UNCHANGED <<accounts, invites, dialogs, contacts, stats, pending, keys, now,
                    faults, crossed>>
      /\ Ids' = Ids
  BY DEF LoadStats, tables, Ids
<1>2. task[p].do = "count" /\ u \in Users /\ now \in Time
  BY TaskType DEF LoadStats, IInv, TypeOK
<1>3. stats[u] \in Stats /\ Earned(stats[u]) /\ stats[u].last_reset_date <= now.day
  BY <1>2 DEF IInv, TypeOK, StatsEarned
<1>4. r \in Stats /\ Earned(r) /\ r.last_reset_date <= now.day
  BY <1>2, <1>3, RecordRejectionKeeps
<1>5. task' = [task EXCEPT ![p] = t]
  BY DEF LoadStats
<1> HIDE DEF r
<1>6. t \in Tasks /\ t.do = "save" /\ t.record = r
  BY <1>2, <1>4 DEF Tasks
<1> HIDE DEF t, u
<1>7. /\ task' \in [Processes -> Tasks] /\ task'[p] = t
      /\ \A q \in Processes : q # p => task'[q] = task[q]
  BY <1>5, <1>6, TaskSet DEF IInv
<1>8. TypeOK'
  <2>1. \A q \in Processes : task'[q].do \in AcceptWrites \cup {"revoke"} =>
            task'[q].invite \in Ids'
    BY <1>1, <1>6, <1>7 DEF IInv, TypeOK, AcceptWrites
  <2> QED
    BY <1>1, <1>7, <2>1 DEF IInv, TypeOK
<1>9. RowsMove
  BY <1>1, UnchangedRows DEF IInv
<1>10. UsersHaveAccounts' /\ SendersLooked' /\ OneLiveInvite'
  BY <1>1, <1>6, <1>7, <1>9, UsersKeep DEF AcceptWrites
<1>11. WithdrawerLetsGo'
  BY <1>1, <1>6, <1>7, LetGoKept DEF Accepting, AcceptWrites
<1>12. Faultless'
  <2>1. faults' = 0 => DialogsAgree' /\ HalvesAgree'
    BY <1>1, <1>2, <1>6, <1>7, DialogsKept
  <2>2. faults' = 0 => AcceptedConnect'
    BY <1>1, <1>2, <1>6, <1>7, ConnectedKept DEF AcceptWrites
  <2> QED
    BY <2>1, <2>2 DEF Faultless
<1>13. StatsEarned'
  <2>1. \A v \in Users : Earned(stats'[v]) /\ stats'[v].last_reset_date <= now'.day
    BY <1>1 DEF IInv, StatsEarned
  <2>2. ASSUME NEW q \in Processes, task'[q].do = "save"
        PROVE  Earned(task'[q].record) /\ task'[q].record.last_reset_date <= now'.day
    BY <1>1, <1>4, <1>6, <1>7, <2>2 DEF IInv, StatsEarned
  <2> QED
    BY <2>1, <2>2 DEF StatsEarned, Earned
<1> QED
  BY <1>8, <1>9, <1>10, <1>11, <1>12, <1>13 DEF IInv

LEMMA SaveStatsKeeps ==
    ASSUME IInv, NEW p \in Processes, SaveStats(p)
    PROVE  IInv' /\ RowsMove
<1>1. /\ UNCHANGED <<accounts, invites, dialogs, contacts, pending, keys, now,
                    faults, crossed>>
      /\ Ids' = Ids
  BY DEF SaveStats, Ids
<1>2. /\ task[p].do = "save" /\ task[p].sender \in Users /\ task[p].record \in Stats
      /\ Earned(task[p].record) /\ task[p].record.last_reset_date <= now.day
  BY TaskType DEF SaveStats, IInv, StatsEarned
<1>3. /\ task' \in [Processes -> Tasks] /\ task'[p].do = "idle"
      /\ \A q \in Processes : q # p => task'[q] = task[q]
  BY IdleTask, TaskSet DEF SaveStats, Finish, IInv
<1>4. /\ stats' \in [Users -> Stats]
      /\ \A v \in Users : stats'[v] = IF v = task[p].sender THEN task[p].record
                                      ELSE stats[v]
  BY <1>2 DEF SaveStats, IInv, TypeOK
<1>5. TypeOK'
  <2>1. \A q \in Processes : task'[q].do \in AcceptWrites \cup {"revoke"} =>
            task'[q].invite \in Ids'
    BY <1>1, <1>3 DEF IInv, TypeOK, AcceptWrites
  <2> QED
    BY <1>1, <1>3, <1>4, <2>1 DEF IInv, TypeOK
<1>6. RowsMove
  BY <1>1, UnchangedRows DEF IInv
<1>7. UsersHaveAccounts' /\ SendersLooked' /\ OneLiveInvite'
  BY <1>1, <1>3, <1>6, UsersKeep DEF AcceptWrites
<1>8. WithdrawerLetsGo'
  BY <1>1, <1>3, LetGoKept DEF Accepting, AcceptWrites
<1>9. Faultless'
  <2>1. faults' = 0 => DialogsAgree' /\ HalvesAgree'
    BY <1>1, <1>2, <1>3, DialogsKept
  <2>2. faults' = 0 => AcceptedConnect'
    BY <1>1, <1>2, <1>3, ConnectedKept DEF AcceptWrites
  <2> QED
    BY <2>1, <2>2 DEF Faultless
<1>10. StatsEarned'
  <2>1. \A v \in Users : Earned(stats'[v]) /\ stats'[v].last_reset_date <= now'.day
    BY <1>1, <1>2, <1>4 DEF IInv, StatsEarned
  <2>2. \A q \in Processes : task'[q].do = "save" =>
            Earned(task'[q].record) /\ task'[q].record.last_reset_date <= now'.day
    BY <1>1, <1>3 DEF IInv, StatsEarned
  <2> QED
    BY <2>1, <2>2 DEF StatsEarned, Earned
<1> QED
  BY <1>5, <1>6, <1>7, <1>8, <1>9, <1>10 DEF IInv

-----------------------------------------------------------------------------
(* accept_invite() *)

LEMMA AcceptKeeps ==
    ASSUME IInv, NEW p \in Processes, NEW i \in Nat, NEW u \in Users, AcceptInvite(p, i, u)
    PROVE  IInv' /\ RowsMove
<1> DEFINE key == IF invites[i].session_key = NoKey THEN keys + 1
                  ELSE invites[i].session_key
           t == [do |-> "status", invite |-> i, key |-> key]
<1>1. /\ UNCHANGED <<accounts, invites, dialogs, contacts, stats, pending, now,
                    faults, crossed>>
      /\ Ids' = Ids
  BY DEF AcceptInvite, tables, Ids
<1>2. /\ i \in Ids /\ invites[i].to_id \in accounts /\ key <= MaxKeys
      /\ keys' = IF invites[i].session_key = NoKey THEN keys + 1 ELSE keys
      /\ i \in pending[p] \/ invites[i].status = "pending"
      /\ task' = [task EXCEPT ![p] = t] /\ task[p] = Idle
  BY DEF AcceptInvite, Begin
<1>3. key \in Keys /\ key # NoKey /\ keys' \in Keys
  BY <1>2, RowType, InvitesAssumption DEF IInv, TypeOK, Keys, NoKey
<1>4. task[p].do = "idle"
  BY <1>2, IdleTask
<1> HIDE DEF key
<1>5. t \in Tasks /\ t.do = "status" /\ t.invite = i /\ t.key = key
  BY <1>2, <1>3 DEF Tasks, AcceptWrites
<1> HIDE DEF t
<1>6. /\ task' \in [Processes -> Tasks] /\ task'[p] = t
      /\ \A q \in Processes : q # p => task'[q] = task[q]
  BY <1>2, <1>5, TaskSet DEF IInv
<1>7. TypeOK'
  <2>1. \A q \in Processes : task'[q].do \in AcceptWrites \cup {"revoke"} =>
            task'[q].invite \in Ids'
    BY <1>1, <1>2, <1>5, <1>6 DEF IInv, TypeOK
  <2> QED
    BY <1>1, <1>3, <1>6, <2>1 DEF IInv, TypeOK
<1>8. RowsMove
  BY <1>1, UnchangedRows DEF IInv
<1>9. UsersHaveAccounts'
  <2>1. \A q \in Processes : task'[q].do = "insert" =>
            task'[q].from \in accounts' /\ task'[q].from # task'[q].to
    BY <1>1, <1>5, <1>6 DEF IInv, UsersHaveAccounts
  <2>2. \A q \in Processes : task'[q].do \in AcceptWrites =>
            invites'[task'[q].invite].to_id \in accounts'
    BY <1>1, <1>2, <1>5, <1>6 DEF IInv, UsersHaveAccounts
  <2> QED
    BY <1>1, <2>1, <2>2 DEF IInv, UsersHaveAccounts
<1>10. SendersLooked'
  BY <1>1, <1>5, <1>6 DEF IInv, SendersLooked, Gone
<1>11. OneLiveInvite'
  BY <1>1 DEF IInv, OneLiveInvite
<1>12. WithdrawerLetsGo'
  <2>1. invites[i].status = "pending" => invites[i].status \notin Withdrawn
    BY DEF Withdrawn
  <2>2. \A q \in Processes, j \in Ids : Accepting(q, j)' =>
            \/ Accepting(q, j) \/ j \in pending[q]
            \/ invites[j].status \notin Withdrawn
    BY <1>2, <1>5, <1>6, <2>1 DEF Accepting
  <2> QED
    BY <1>1, <2>2, LetGoKept
<1>13. Faultless'
  <2>1. faults' = 0 => DialogsAgree' /\ HalvesAgree'
    BY <1>1, <1>4, <1>5, <1>6, DialogsKept
  <2>2. \A q \in Processes : task[q].do \in AcceptWrites => task'[q] = task[q]
    BY <1>4, <1>6 DEF AcceptWrites
  <2>3. \A q \in Processes : task'[q].do \in AcceptWrites =>
            task'[q] = task[q] \/ (task'[q].do = "status" /\ task'[q].key # NoKey)
    BY <1>3, <1>5, <1>6
  <2>4. faults' = 0 => AcceptedConnect'
    BY <1>1, <2>2, <2>3, ConnectedKept
  <2> QED
    BY <2>1, <2>4 DEF Faultless
<1>14. StatsEarned'
  BY <1>1, <1>5, <1>6, EarnedKept DEF IInv, TypeOK, Time
<1> QED
  BY <1>7, <1>8, <1>9, <1>10, <1>11, <1>12, <1>13, <1>14 DEF IInv

\* A handler that accepts makes its next write or fails to, and goes on or ends.
LEMMA AcceptFrame ==
    ASSUME IInv, NEW p \in Processes, task[p].do \in AcceptWrites,
           (\E w \in AcceptWrites : GoOn(p, w)) \/ Finish(p),
           UNCHANGED <<accounts, invites, pending, stats, keys, now>>,
           dialogs' \in [Pairs -> Keys], contacts' \subseteq Pairs,
           crossed' \subseteq SUBSET Users, faults' \in 0..MaxFaults
    PROVE  /\ TypeOK' /\ UsersHaveAccounts' /\ SendersLooked' /\ OneLiveInvite'
           /\ WithdrawerLetsGo' /\ StatsEarned' /\ RowsMove
<1>1. Ids' = Ids /\ task[p].invite \in Ids
  BY TaskType DEF Ids, IInv
<1>2. /\ task' \in [Processes -> Tasks]
      /\ \A q \in Processes : q # p => task'[q] = task[q]
      /\ \/ task'[p].do \in AcceptWrites /\ task'[p].invite = task[p].invite
         \/ task'[p].do = "idle"
  <2>1. ASSUME NEW w \in AcceptWrites, GoOn(p, w)
        PROVE  /\ task' \in [Processes -> Tasks]
               /\ \A q \in Processes : q # p => task'[q] = task[q]
               /\ task'[p].do \in AcceptWrites /\ task'[p].invite = task[p].invite
    BY <2>1, AcceptGoesOn DEF IInv
  <2>2. ASSUME Finish(p)
        PROVE  /\ task' \in [Processes -> Tasks]
               /\ \A q \in Processes : q # p => task'[q] = task[q]
               /\ task'[p].do = "idle"
    BY <2>2, IdleTask, TaskSet DEF Finish, IInv
  <2> QED
    BY <2>1, <2>2
<1>3. TypeOK'
  <2>1. \A q \in Processes : task'[q].do \in AcceptWrites \cup {"revoke"} =>
            task'[q].invite \in Ids'
    BY <1>1, <1>2 DEF IInv, TypeOK, AcceptWrites
  <2> QED
    BY <1>1, <1>2, <2>1 DEF IInv, TypeOK
<1>4. RowsMove
  BY UnchangedRows DEF IInv
<1>5. UsersHaveAccounts' /\ SendersLooked' /\ OneLiveInvite'
  BY <1>2, <1>4, UsersKeep DEF AcceptWrites
<1>6. WithdrawerLetsGo'
  BY <1>1, <1>2, LetGoKept DEF Accepting, AcceptWrites
<1>7. StatsEarned'
  BY <1>2, EarnedKept DEF IInv, TypeOK, Time, AcceptWrites
<1> QED
  BY <1>3, <1>4, <1>5, <1>6, <1>7

\* The status makes the invite accepted, and revived if it was withdrawn: by
\* another process, since this one has let go of what it withdrew.
LEMMA SaveStatusKeeps ==
    ASSUME IInv, NEW p \in Processes, SaveStatus(p)
    PROVE  /\ IInv' /\ RowsMove
           /\ \A j \in Ids : invites[j].status \in Withdrawn =>
                \/ invites'[j].status \in Withdrawn
                \/ /\ p # invites[j].withdrawer /\ Accepting(p, j)
                   /\ invites'[j].status = "accepted"
<1> DEFINE i == task[p].invite
<1>1. /\ task[p].do = "status" /\ i \in Ids /\ task[p].key \in Keys
      /\ task[p].do \in AcceptWrites /\ "dialog" \in AcceptWrites
  BY TaskType DEF SaveStatus, IInv, AcceptWrites
<1>2. /\ MarkAccepted(i) /\ GoOn(p, "dialog")
      /\ UNCHANGED <<accounts, pending, dialogs, contacts, stats, keys, now, faults,
                    crossed>>
  BY DEF SaveStatus
<1>3. /\ RowsMove /\ invites'[i].status = "accepted"
      /\ \A j \in Ids : j # i => invites'[j] = invites[j]
  BY <1>1, <1>2, AcceptedRows DEF IInv
<1>4. /\ invites' \in Seq(Rows) /\ Ids' = Ids
      /\ \A j \in Ids : /\ invites'[j].from_id = invites[j].from_id
                        /\ invites'[j].to_id = invites[j].to_id
  BY <1>3 DEF RowsMove
<1>5. /\ task' \in [Processes -> Tasks]
      /\ task'[p].do = "dialog" /\ task'[p].invite = i /\ task'[p].key = task[p].key
      /\ \A q \in Processes : q # p => task'[q] = task[q]
  BY <1>1, <1>2, AcceptGoesOn DEF IInv
<1> HIDE DEF i
<1>6. TypeOK'
  <2>1. \A q \in Processes : task'[q].do \in AcceptWrites \cup {"revoke"} =>
            task'[q].invite \in Ids'
    BY <1>1, <1>4, <1>5 DEF IInv, TypeOK
  <2> QED
    BY <1>2, <1>4, <1>5, <2>1 DEF IInv, TypeOK
<1>7. UsersHaveAccounts' /\ SendersLooked' /\ OneLiveInvite'
  <2>1. \A q \in Processes : task'[q].do = "insert" => task'[q] = task[q]
    BY <1>5
  <2>2. \A q \in Processes : task'[q].do \in AcceptWrites =>
            task[q].do \in AcceptWrites /\ task'[q].invite = task[q].invite
    BY <1>1, <1>5 DEF i
  <2> QED
    BY <1>2, <1>3, <2>1, <2>2, UsersKeep
<1>8. WithdrawerLetsGo'
  <2>1. \A j \in Ids' : invites'[j].status \in Withdrawn =>
               /\ j \in Ids /\ invites[j].status \in Withdrawn
               /\ invites'[j].withdrawer = invites[j].withdrawer
    BY <1>3, <1>4 DEF Withdrawn
  <2>2. \A q \in Processes, j \in Ids : Accepting(q, j)' => Accepting(q, j)
    BY <1>1, <1>5 DEF Accepting, i
  <2> QED
    BY <1>2, <1>4, <2>1, <2>2, LetGoKept
<1>9. Faultless'
  <2>1. \A q \in Processes : task[q].do = "peer_dialog" => task'[q] = task[q]
    BY <1>1, <1>5
  <2>2. \A q \in Processes : task'[q].do = "peer_dialog" => task'[q] = task[q]
    BY <1>5
  <2>3. faults' = 0 => DialogsAgree' /\ HalvesAgree'
    BY <1>2, <1>4, <2>1, <2>2, DialogsKept
  <2>4. ASSUME faults = 0, NEW q \in Processes PROVE Written(q)'
    <3>1. CASE q = p
      BY <1>1, <1>5, <2>4, <3>1 DEF IInv, Faultless, AcceptedConnect, Written
    <3>2. CASE q # p /\ task[q].do \notin AcceptWrites
      BY <1>5, <3>2 DEF Written, AcceptWrites
    <3>3. CASE q # p /\ task[q].do \in AcceptWrites
      <4>1. task'[q] = task[q] /\ task[q].invite \in Ids
        BY <1>5, <3>3, TaskType DEF IInv
      <4>2. Accepter(q)' = Accepter(q) /\ Sender(q)' = Sender(q)
        BY <1>4, <4>1 DEF Accepter, Sender
      <4> QED
        BY <1>2, <2>4, <4>1, <4>2 DEF IInv, Faultless, AcceptedConnect, Written
    <3> QED
      BY <3>1, <3>2, <3>3
  <2>5. ASSUME faults = 0, NEW j \in Ids, invites'[j].status = "accepted"
        PROVE  Connected(j)' \/ \E q \in Processes : Accepting(q, j)'
    <3>1. CASE j = i
      BY <1>5, <3>1 DEF Accepting, AcceptWrites
    <3>2. CASE j # i
      <4>1. invites'[j] = invites[j] /\ invites[j].status = "accepted"
        BY <1>3, <2>5, <3>2
      <4>2. Connected(j) => Connected(j)'
        BY <1>2, <4>1 DEF Connected
      <4>3. \A q \in Processes : Accepting(q, j) => Accepting(q, j)'
        BY <1>1, <1>5, <3>2 DEF Accepting, i
      <4> QED
        BY <2>5, <4>1, <4>2, <4>3 DEF IInv, Faultless, AcceptedConnect
    <3> QED
      BY <3>1, <3>2
  <2>6. faults' = 0 => AcceptedConnect'
    BY <1>2, <1>4, <2>4, <2>5 DEF AcceptedConnect
  <2> QED
    BY <2>3, <2>6 DEF Faultless
<1>10. StatsEarned'
  BY <1>2, <1>5, EarnedKept DEF IInv, TypeOK, Time
<1>11. Accepting(p, i)
  BY <1>1 DEF Accepting, i
<1>12. invites[i].status \in Withdrawn => p # invites[i].withdrawer
  BY <1>1, <1>11 DEF IInv, WithdrawerLetsGo
<1> QED
  BY <1>3, <1>6, <1>7, <1>8, <1>9, <1>10, <1>11, <1>12 DEF IInv

\* The users of the invite a handler accepts.
LEMMA PartiesOf ==
    ASSUME IInv, NEW p \in Processes, task[p].do \in AcceptWrites
    PROVE  /\ task[p].invite \in Ids /\ task[p].key \in Keys
           /\ Accepter(p) \in Users /\ Sender(p) \in Users /\ Accepter(p) # Sender(p)
           /\ <<Accepter(p), Sender(p)>> \in Pairs /\ <<Sender(p), Accepter(p)>> \in Pairs
           /\ Parties(task[p].invite) = {Accepter(p), Sender(p)}
           /\ Parties(task[p].invite) \subseteq Users
           /\ Accepter(p) \in accounts /\ Sender(p) \in accounts
<1>1. task[p].invite \in Ids /\ task[p].key \in Keys
  BY TaskType DEF IInv
<1>2. /\ Accepter(p) \in Users /\ Sender(p) \in Users /\ Accepter(p) # Sender(p)
  BY <1>1, RowType DEF IInv, Accepter, Sender
<1>3. Accepter(p) \in accounts /\ Sender(p) \in accounts
  BY <1>1 DEF IInv, UsersHaveAccounts, Accepter, Sender
<1>4. Parties(task[p].invite) = {Accepter(p), Sender(p)}
  BY DEF Parties, Accepter, Sender
<1> QED
  BY <1>1, <1>2, <1>3, <1>4 DEF Pairs

\* A handler that accepts writes the next of its keys and contacts.
LEMMA ConnectedGrows ==
    ASSUME IInv, faults = 0, NEW p \in Processes, invites' = invites,
           \A x \in Pairs : dialogs[x] # NoKey => dialogs'[x] # NoKey,
           contacts \subseteq contacts',
           \A q \in Processes : q # p => task'[q] = task[q],
           Written(p)',
           \A j \in Ids : Accepting(p, j) => Accepting(p, j)' \/ Connected(j)'
    PROVE  AcceptedConnect'
<1>1. Ids' = Ids
  BY DEF Ids
<1>2. ASSUME NEW q \in Processes PROVE Written(q)'
  <2>1. CASE q # p /\ task[q].do \notin AcceptWrites
    BY <2>1 DEF Written, AcceptWrites
  <2>2. CASE q # p /\ task[q].do \in AcceptWrites
    <3>1. task'[q] = task[q] /\ Accepter(q)' = Accepter(q) /\ Sender(q)' = Sender(q)
      BY <2>2 DEF Accepter, Sender
    <3>2. <<Sender(q), Accepter(q)>> \in Pairs
      BY <2>2, PartiesOf
    <3> QED
      BY <3>1, <3>2 DEF IInv, Faultless, AcceptedConnect, Written
  <2> QED
    BY <2>1, <2>2
<1>3. ASSUME NEW j \in Ids, invites[j].status = "accepted"
      PROVE  Connected(j)' \/ \E q \in Processes : Accepting(q, j)'
  <2>1. CASE Connected(j)
    <3>1. <<invites[j].from_id, invites[j].to_id>> \in Pairs
      BY RowType DEF IInv, Pairs
    <3> QED
      BY <2>1, <3>1 DEF Connected
  <2>2. ASSUME NEW q \in Processes, Accepting(q, j), q # p PROVE Accepting(q, j)'
    BY <2>2 DEF Accepting
  <2> QED
    BY <1>3, <2>1, <2>2 DEF IInv, Faultless, AcceptedConnect
<1> QED
  BY <1>1, <1>2, <1>3 DEF AcceptedConnect

LEMMA SaveDialogKeeps ==
    ASSUME IInv, NEW p \in Processes, SaveDialog(p)
    PROVE  IInv' /\ RowsMove
<1> DEFINE i == task[p].invite
           x == Accepter(p)
           y == Sender(p)
           k == task[p].key
<1>1. /\ task[p].do = "dialog" /\ task[p].do \in AcceptWrites
      /\ "peer_dialog" \in AcceptWrites /\ GoOn(p, "peer_dialog")
      /\ UNCHANGED <<accounts, invites, pending, contacts, stats, keys, now, faults>>
      /\ crossed' = IF Crosses(p) THEN crossed \cup {Parties(i)} ELSE crossed
      /\ dialogs' = [dialogs EXCEPT ![<<x, y>>] = k]
  BY DEF SaveDialog, AcceptWrites
<1>2. /\ i \in Ids /\ k \in Keys /\ x \in Users /\ y \in Users /\ x # y
      /\ <<x, y>> \in Pairs /\ Parties(i) = {x, y} /\ Parties(i) \subseteq Users
  BY <1>1, PartiesOf
<1>3. /\ task'[p].do = "peer_dialog" /\ task'[p].invite = i /\ task'[p].key = k
      /\ \A q \in Processes : q # p => task'[q] = task[q]
  BY <1>1, AcceptGoesOn DEF IInv
<1>4. /\ Ids' = Ids
      /\ \A q \in Processes : Parties(task[q].invite)' = Parties(task[q].invite)
      /\ Parties(task[p].invite)' = Parties(i)
  BY <1>1, <1>3 DEF Ids, Parties
<1>5. Accepter(p)' = x /\ Sender(p)' = y
  BY <1>1, <1>3 DEF Accepter, Sender
<1>6. \A q \in Processes : q # p => Accepter(q)' = Accepter(q) /\ Sender(q)' = Sender(q)
  BY <1>1, <1>3 DEF Accepter, Sender
<1> HIDE DEF i, x, y, k
<1>7. /\ dialogs' \in [Pairs -> Keys]
      /\ \A z \in Pairs : dialogs'[z] = IF z = <<x, y>> THEN k ELSE dialogs[z]
  BY <1>1, <1>2 DEF IInv, TypeOK
<1>8. crossed' \subseteq SUBSET Users /\ crossed \subseteq crossed'
  BY <1>1, <1>2 DEF IInv, TypeOK
<1>9. /\ TypeOK' /\ UsersHaveAccounts' /\ SendersLooked' /\ OneLiveInvite'
      /\ WithdrawerLetsGo' /\ StatsEarned' /\ RowsMove
  <2>1. faults' \in 0..MaxFaults /\ contacts' \subseteq Pairs
    BY <1>1 DEF IInv, TypeOK
  <2> QED
    BY <1>1, <1>7, <1>8, <2>1, AcceptFrame
<1>10. ASSUME faults = 0 PROVE DialogsAgree'
  <2> SUFFICES ASSUME NEW u \in Users, NEW v \in Users
               PROVE  \/ dialogs'[<<u, v>>] = dialogs'[<<v, u>>]
                      \/ {u, v} \in crossed'
                      \/ \E q \in Processes :
                           task'[q].do = "peer_dialog" /\ Parties(task[q].invite)' = {u, v}
    BY DEF DialogsAgree, Pairs
  <2>1. CASE {u, v} = Parties(i)
    BY <1>2, <1>3, <1>4, <2>1
  <2>2. CASE {u, v} # Parties(i)
    <3>1. /\ <<u, v>> \in Pairs /\ <<v, u>> \in Pairs
          /\ <<u, v>> # <<x, y>> /\ <<v, u>> # <<x, y>>
      BY <1>2, <2>2 DEF Pairs
    <3>2. dialogs'[<<u, v>>] = dialogs[<<u, v>>] /\ dialogs'[<<v, u>>] = dialogs[<<v, u>>]
      BY <1>7, <3>1
    <3>3. CASE dialogs[<<u, v>>] = dialogs[<<v, u>>]
      BY <3>2, <3>3
    <3>4. CASE {u, v} \in crossed
      BY <1>8, <3>4
    <3>5. ASSUME NEW q \in Processes, task[q].do = "peer_dialog",
                 Parties(task[q].invite) = {u, v}
          PROVE  task'[q].do = "peer_dialog" /\ Parties(task[q].invite)' = {u, v}
      <4>1. q # p /\ task[q].invite \in Ids
        BY <1>1, <3>5, PartiesOf DEF AcceptWrites
      <4> QED
        BY <1>3, <1>4, <3>5, <4>1
    <3> QED
      BY <1>10, <3>1, <3>3, <3>4, <3>5 DEF IInv, Faultless, DialogsAgree
  <2> QED
    BY <2>1, <2>2
<1>11. \A q \in Processes : Half(q)' /\ q # p =>
           /\ Half(q) /\ task'[q] = task[q] /\ task[q].invite \in Ids
           /\ task[q].do \in AcceptWrites
  <2> SUFFICES ASSUME NEW q \in Processes, Half(q)', q # p
               PROVE  /\ Half(q) /\ task'[q] = task[q] /\ task[q].invite \in Ids
                      /\ task[q].do \in AcceptWrites
    OBVIOUS
  <2>1. task'[q] = task[q] /\ task[q].do = "peer_dialog" /\ task[q].do \in AcceptWrites
    BY <1>3 DEF Half, AcceptWrites
  <2>2. task[q].invite \in Ids
    BY <2>1, PartiesOf
  <2> QED
    BY <1>4, <1>8, <2>1, <2>2 DEF Half
<1>12. ASSUME NEW q \in Processes, Half(p)', Half(q)', q # p,
              Parties(task[q].invite) = Parties(i)
       PROVE  task[q].key = k
  <2>1. ~ Crosses(p)
    BY <1>1, <1>3, <1>4, <1>2, <1>12 DEF Half
  <2>2. task[q].do = "peer_dialog"
    BY <1>3, <1>12 DEF Half
  <2> QED
    BY <1>12, <2>1, <2>2 DEF Crosses, i, k
<1>13. ASSUME faults = 0 PROVE HalvesAgree'
  <2>1. ASSUME NEW q \in Processes, Half(q)'
        PROVE  dialogs'[<<Accepter(q), Sender(q)>>'] = task'[q].key
    <3>1. CASE q = p
      BY <1>2, <1>3, <1>5, <1>7, <3>1
    <3>2. CASE q # p
      <4>1. /\ Half(q) /\ task'[q] = task[q] /\ task[q].do \in AcceptWrites
        BY <1>11, <2>1, <3>2
      <4>2. <<Accepter(q), Sender(q)>> \in Pairs
            /\ Parties(task[q].invite) = {Accepter(q), Sender(q)}
        BY <4>1, PartiesOf
      <4>3. dialogs[<<Accepter(q), Sender(q)>>] = task[q].key
        BY <1>13, <4>1 DEF IInv, Faultless, HalvesAgree
      <4>4. CASE <<Accepter(q), Sender(q)>> = <<x, y>>
        <5>1. Parties(task[q].invite) = Parties(i)
          BY <1>2, <4>2, <4>4
        <5>2. Half(p)'
          <6>1. Parties(task[q].invite) \notin crossed'
            BY <1>4, <1>11, <2>1, <3>2, <4>1 DEF Half
          <6> QED
            BY <1>2, <1>3, <1>4, <5>1, <6>1 DEF Half
        <5>3. task[q].key = k
          BY <1>12, <2>1, <3>2, <5>1, <5>2
        <5> QED
          BY <1>6, <1>7, <3>2, <4>1, <4>2, <4>4, <5>3
      <4>5. CASE <<Accepter(q), Sender(q)>> # <<x, y>>
        BY <1>6, <1>7, <3>2, <4>1, <4>2, <4>3, <4>5
      <4> QED
        BY <4>4, <4>5
    <3> QED
      BY <3>1, <3>2
  <2>2. ASSUME NEW q \in Processes, NEW r \in Processes, Half(q)', Half(r)',
               Parties(task[q].invite)' = Parties(task[r].invite)'
        PROVE  task'[q].key = task'[r].key
    <3>1. CASE q # p /\ r # p
      <4>1. /\ Half(q) /\ task'[q] = task[q] /\ task[q].invite \in Ids
            /\ Half(r) /\ task'[r] = task[r] /\ task[r].invite \in Ids
        BY <1>11, <2>2, <3>1
      <4>2. Parties(task[q].invite) = Parties(task[r].invite)
        BY <1>4, <2>2, <4>1
      <4> QED
        BY <1>13, <4>1, <4>2 DEF IInv, Faultless, HalvesAgree
    <3>2. CASE q = p /\ r # p
      <4>1. task'[r] = task[r] /\ task[r].invite \in Ids
        BY <1>11, <2>2, <3>2
      <4>2. Parties(task[r].invite) = Parties(i)
        BY <1>2, <1>3, <1>4, <2>2, <3>2, <4>1
      <4> QED
        BY <1>3, <1>12, <2>2, <3>2, <4>1, <4>2
    <3>3. CASE q # p /\ r = p
      <4>1. task'[q] = task[q] /\ task[q].invite \in Ids
        BY <1>11, <2>2, <3>3
      <4>2. Parties(task[q].invite) = Parties(i)
        BY <1>2, <1>3, <1>4, <2>2, <3>3, <4>1
      <4> QED
        BY <1>3, <1>12, <2>2, <3>3, <4>1, <4>2
    <3> QED
      BY <3>1, <3>2, <3>3
  <2> QED
    BY <2>1, <2>2 DEF HalvesAgree
<1>14. ASSUME faults = 0 PROVE AcceptedConnect'
  <2>1. k # NoKey
    BY <1>1, <1>14 DEF IInv, Faultless, AcceptedConnect, Written, k
  <2>2. \A z \in Pairs : dialogs[z] # NoKey => dialogs'[z] # NoKey
    BY <1>7, <2>1
  <2>3. Written(p)'
    BY <1>3, <2>1 DEF Written
  <2>4. \A j \in Ids : Accepting(p, j) => Accepting(p, j)'
    BY <1>1, <1>3 DEF Accepting, i
  <2> QED
    BY <1>1, <1>3, <1>14, <2>2, <2>3, <2>4, ConnectedGrows
<1>15. Faultless'
  BY <1>1, <1>10, <1>13, <1>14 DEF Faultless
<1> QED
  BY <1>9, <1>15 DEF IInv

LEMMA SavePeerDialogKeeps ==
    ASSUME IInv, NEW p \in Processes, SavePeerDialog(p)
    PROVE  IInv' /\ RowsMove
<1> DEFINE i == task[p].invite
           x == Accepter(p)
           y == Sender(p)
           k == task[p].key
<1>1. /\ task[p].do = "peer_dialog" /\ task[p].do \in AcceptWrites
      /\ "contact" \in AcceptWrites /\ GoOn(p, "contact")
      /\ UNCHANGED <<accounts, invites, pending, contacts, stats, keys, now, faults,
                    crossed>>
      /\ dialogs' = [dialogs EXCEPT ![<<y, x>>] = k]
  BY DEF SavePeerDialog, AcceptWrites
<1>2. /\ i \in Ids /\ k \in Keys /\ x \in Users /\ y \in Users /\ x # y
      /\ <<x, y>> \in Pairs /\ <<y, x>> \in Pairs /\ Parties(i) = {x, y}
  BY <1>1, PartiesOf
<1>3. /\ task'[p].do = "contact" /\ task'[p].invite = i /\ task'[p].key = k
      /\ \A q \in Processes : q # p => task'[q] = task[q]
  BY <1>1, AcceptGoesOn DEF IInv
<1>4. /\ Ids' = Ids
      /\ \A q \in Processes : /\ Parties(task[q].invite)' = Parties(task[q].invite)
                              /\ Accepter(q)' = Accepter(q) /\ Sender(q)' = Sender(q)
  BY <1>1, <1>3 DEF Ids, Parties, Accepter, Sender
<1>5. Sender(p)' = y /\ Accepter(p)' = x
  BY <1>4
<1>6. faults = 0 /\ Half(p) => dialogs[<<x, y>>] = k
  BY DEF IInv, Faultless, HalvesAgree
<1>7. Half(p) <=> {x, y} \notin crossed
  BY <1>1, <1>2 DEF Half
<1> HIDE DEF i, x, y, k
<1>8. /\ dialogs' \in [Pairs -> Keys]
      /\ \A z \in Pairs : dialogs'[z] = IF z = <<y, x>> THEN k ELSE dialogs[z]
  BY <1>1, <1>2 DEF IInv, TypeOK
<1>9. /\ TypeOK' /\ UsersHaveAccounts' /\ SendersLooked' /\ OneLiveInvite'
      /\ WithdrawerLetsGo' /\ StatsEarned' /\ RowsMove
  <2>1. /\ faults' \in 0..MaxFaults /\ contacts' \subseteq Pairs
        /\ crossed' \subseteq SUBSET Users
    BY <1>1 DEF IInv, TypeOK
  <2> QED
    BY <1>1, <1>8, <2>1, AcceptFrame
<1>10. ASSUME faults = 0 PROVE DialogsAgree'
  <2> SUFFICES ASSUME NEW u \in Users, NEW v \in Users, {u, v} \notin crossed,
                      dialogs'[<<u, v>>] # dialogs'[<<v, u>>]
               PROVE  \E q \in Processes :
                         task'[q].do = "peer_dialog" /\ Parties(task[q].invite)' = {u, v}
    BY <1>1 DEF DialogsAgree, Pairs
  <2>1. CASE {u, v} = {x, y}
    <3>1. dialogs[<<x, y>>] = k
      BY <1>6, <1>7, <1>10, <2>1
    <3>2. dialogs'[<<x, y>>] = k /\ dialogs'[<<y, x>>] = k
      BY <1>2, <1>8, <3>1
    <3>3. (u = x /\ v = y) \/ (u = y /\ v = x)
      BY <1>2, <2>1
    <3> QED
      BY <3>2, <3>3
  <2>2. CASE {u, v} # {x, y}
    <3>1. /\ <<u, v>> \in Pairs /\ <<v, u>> \in Pairs
          /\ <<u, v>> # <<y, x>> /\ <<v, u>> # <<y, x>>
      BY <1>2, <2>2 DEF Pairs
    <3>2. dialogs[<<u, v>>] # dialogs[<<v, u>>]
      BY <1>8, <3>1
    <3>3. PICK q \in Processes :
              task[q].do = "peer_dialog" /\ Parties(task[q].invite) = {u, v}
      BY <1>10, <3>1, <3>2 DEF IInv, Faultless, DialogsAgree
    <3>4. q # p
      BY <1>2, <2>2, <3>3 DEF i
    <3> QED
      BY <1>3, <1>4, <3>3, <3>4
  <2> QED
    BY <2>1, <2>2
<1>11. \A q \in Processes : Half(q)' =>
           /\ q # p /\ Half(q) /\ task'[q] = task[q] /\ task[q].do \in AcceptWrites
  <2> SUFFICES ASSUME NEW q \in Processes, Half(q)'
               PROVE  /\ q # p /\ Half(q) /\ task'[q] = task[q]
                      /\ task[q].do \in AcceptWrites
    OBVIOUS
  <2>1. q # p
    BY <1>3 DEF Half
  <2> QED
    BY <1>1, <1>3, <1>4, <2>1 DEF Half, AcceptWrites
<1>12. ASSUME faults = 0 PROVE HalvesAgree'
  <2>1. ASSUME NEW q \in Processes, Half(q)'
        PROVE  dialogs'[<<Accepter(q), Sender(q)>>'] = task'[q].key
    <3>1. q # p /\ Half(q) /\ task'[q] = task[q] /\ task[q].do \in AcceptWrites
      BY <1>11, <2>1
    <3>2. /\ <<Accepter(q), Sender(q)>> \in Pairs
          /\ Parties(task[q].invite) = {Accepter(q), Sender(q)}
      BY <3>1, PartiesOf
    <3>3. dialogs[<<Accepter(q), Sender(q)>>] = task[q].key
      BY <1>12, <3>1 DEF IInv, Faultless, HalvesAgree
    <3>4. CASE <<Accepter(q), Sender(q)>> = <<y, x>>
      <4>1. Parties(task[q].invite) = Parties(i)
        BY <1>2, <3>2, <3>4
      <4>2. Half(p)
        BY <1>2, <1>7, <3>1, <4>1 DEF Half
      <4>3. task[q].key = k
        BY <1>12, <3>1, <4>1, <4>2 DEF IInv, Faultless, HalvesAgree, i, k
      <4> QED
        BY <1>4, <1>8, <3>1, <3>2, <3>4, <4>3
    <3>5. CASE <<Accepter(q), Sender(q)>> # <<y, x>>
      BY <1>4, <1>8, <3>1, <3>2, <3>3, <3>5
    <3> QED
      BY <3>4, <3>5
  <2>2. ASSUME NEW q \in Processes, NEW r \in Processes, Half(q)', Half(r)',
               Parties(task[q].invite)' = Parties(task[r].invite)'
        PROVE  task'[q].key = task'[r].key
    <3>1. Half(q) /\ task'[q] = task[q] /\ Half(r) /\ task'[r] = task[r]
      BY <1>11, <2>2
    <3>2. Parties(task[q].invite) = Parties(task[r].invite)
      BY <1>4, <2>2
    <3> QED
      BY <1>12, <3>1, <3>2 DEF IInv, Faultless, HalvesAgree
  <2> QED
    BY <2>1, <2>2 DEF HalvesAgree
<1>13. ASSUME faults = 0 PROVE AcceptedConnect'
  <2>1. k # NoKey
    BY <1>1, <1>13 DEF IInv, Faultless, AcceptedConnect, Written, k
  <2>2. \A z \in Pairs : dialogs[z] # NoKey => dialogs'[z] # NoKey
    BY <1>8, <2>1
  <2>3. Written(p)'
    BY <1>2, <1>3, <1>5, <1>8, <2>1 DEF Written
  <2>4. \A j \in Ids : Accepting(p, j) => Accepting(p, j)'
    BY <1>1, <1>3 DEF Accepting, i
  <2> QED
    BY <1>1, <1>3, <1>13, <2>2, <2>3, <2>4, ConnectedGrows
<1>14. Faultless'
  BY <1>1, <1>10, <1>12, <1>13 DEF Faultless
<1> QED
  BY <1>9, <1>14 DEF IInv

\* The contact of the accepter, and then that of the sender, after which both
\* have a key and a contact.
LEMMA ContactKeeps ==
    ASSUME IInv, NEW p \in Processes, AddContact(p) \/ AddPeerContact(p)
    PROVE  IInv' /\ RowsMove
<1> DEFINE x == Accepter(p)
           y == Sender(p)
<1>1. /\ task[p].do \in {"contact", "peer_contact"} /\ task[p].do \in AcceptWrites
      /\ UNCHANGED <<accounts, invites, pending, dialogs, stats, keys, now, faults,
                    crossed>>
  BY DEF AddContact, AddPeerContact, AcceptWrites
<1>2. /\ x \in accounts /\ y \in accounts
      /\ <<x, y>> \in Pairs /\ <<y, x>> \in Pairs
  BY <1>1, PartiesOf
<1>3. contacts \subseteq contacts' /\ contacts' \subseteq Pairs
  BY <1>2 DEF AddContact, AddPeerContact, Added, IInv, TypeOK
<1>4. (\E w \in AcceptWrites : GoOn(p, w)) \/ Finish(p)
  BY DEF AddContact, AddPeerContact, AcceptWrites
<1>5. /\ TypeOK' /\ UsersHaveAccounts' /\ SendersLooked' /\ OneLiveInvite'
      /\ WithdrawerLetsGo' /\ StatsEarned' /\ RowsMove
  <2>1. /\ faults' \in 0..MaxFaults /\ crossed' \subseteq SUBSET Users
        /\ dialogs' \in [Pairs -> Keys]
    BY <1>1 DEF IInv, TypeOK
  <2> QED
    BY <1>1, <1>3, <1>4, <2>1, AcceptFrame
<1>6. /\ \A q \in Processes : q # p => task'[q] = task[q]
      /\ AddContact(p) => /\ task'[p].do = "peer_contact"
                          /\ task'[p].invite = task[p].invite
                          /\ task'[p].key = task[p].key
      /\ AddPeerContact(p) => task'[p].do = "idle"
  <2>1. CASE AddContact(p)
    <3>1. "peer_contact" \in AcceptWrites /\ GoOn(p, "peer_contact") /\ ~ AddPeerContact(p)
      BY <2>1 DEF AcceptWrites, AddContact, AddPeerContact
    <3> QED
      BY <1>1, <3>1, AcceptGoesOn DEF IInv
  <2>2. CASE AddPeerContact(p)
    <3>1. ~ AddContact(p) /\ task' = [task EXCEPT ![p] = Idle]
      BY <2>2 DEF AddContact, AddPeerContact, Finish
    <3> QED
      BY <3>1, IdleTask, TaskSet DEF IInv
  <2> QED
    BY <2>1, <2>2
<1>7. faults = 0 => DialogsAgree' /\ HalvesAgree'
  <2>1. \A j \in Ids : /\ invites'[j].from_id = invites[j].from_id
                       /\ invites'[j].to_id = invites[j].to_id
    BY <1>1
  <2>2. \A q \in Processes : task[q].do = "peer_dialog" => task'[q] = task[q]
    BY <1>1, <1>6
  <2>3. \A q \in Processes : task'[q].do = "peer_dialog" => task'[q] = task[q]
    BY <1>6
  <2> QED
    BY <1>1, <2>1, <2>2, <2>3, DialogsKept
<1>8. ASSUME faults = 0 PROVE AcceptedConnect'
  <2>1. \A z \in Pairs : dialogs[z] # NoKey => dialogs'[z] # NoKey
    BY <1>1
  <2>2. /\ Written(p)
        /\ task[p].key # NoKey /\ dialogs[<<y, x>>] # NoKey
    BY <1>1, <1>8 DEF IInv, Faultless, AcceptedConnect, Written
  <2>3. CASE AddContact(p)
    <3>1. Accepter(p)' = x /\ Sender(p)' = y
      BY <1>1, <1>6, <2>3 DEF Accepter, Sender
    <3>2. <<x, y>> \in contacts'
      BY <1>2, <2>3 DEF AddContact, Added
    <3>3. Written(p)'
      BY <1>1, <1>6, <2>2, <2>3, <3>1, <3>2 DEF Written
    <3>4. \A j \in Ids : Accepting(p, j) => Accepting(p, j)'
      BY <1>6, <2>3 DEF Accepting, AcceptWrites
    <3> QED
      BY <1>1, <1>3, <1>6, <1>8, <2>1, <3>3, <3>4, ConnectedGrows
  <2>4. CASE AddPeerContact(p)
    <3>1. Written(p)'
      BY <1>6, <2>4 DEF Written, AcceptWrites
    <3>2. {<<x, y>>, <<y, x>>} \subseteq contacts'
      BY <1>2, <2>2, <2>4 DEF AddPeerContact, Added, Written
    <3>3. ASSUME NEW j \in Ids, Accepting(p, j) PROVE Connected(j)'
      <4>1. invites'[j].from_id = y /\ invites'[j].to_id = x
        BY <1>1, <3>3 DEF Accepting, Accepter, Sender
      <4> QED
        BY <1>1, <2>2, <3>2, <4>1 DEF Connected
    <3> QED
      BY <1>1, <1>3, <1>6, <1>8, <2>1, <3>1, <3>3, ConnectedGrows
  <2> QED
    BY <2>3, <2>4
<1>9. Faultless'
  BY <1>1, <1>7, <1>8 DEF Faultless
<1> QED
  BY <1>5, <1>9 DEF IInv

-----------------------------------------------------------------------------
(* Every step *)

LEMMA WriteFailsKeeps ==
    ASSUME IInv, NEW p \in Processes, WriteFails(p)
    PROVE  IInv' /\ RowsMove
<1>1. /\ faults' \in 0..MaxFaults /\ faults' # 0
      /\ UNCHANGED <<tables, pending, keys, now, crossed>>
      /\ task' = [task EXCEPT ![p] = AfterFailure(task[p])]
  BY InvitesAssumption DEF WriteFails, IInv, TypeOK
<1>2. CASE task[p].do \in {"status", "dialog", "peer_dialog"}
  <2>1. task[p].do \in AcceptWrites
    BY <1>2 DEF AcceptWrites
  <2>2. \E w \in AcceptWrites : GoOn(p, w)
    <3>1. CASE task[p].do = "status"
      BY <1>1, <3>1 DEF AfterFailure, GoOn, AcceptWrites
    <3>2. CASE task[p].do \in {"dialog", "peer_dialog"}
      BY <1>1, <3>2 DEF AfterFailure, GoOn, AcceptWrites
    <3> QED
      BY <1>2, <3>1, <3>2
  <2>3. /\ dialogs' \in [Pairs -> Keys] /\ contacts' \subseteq Pairs
        /\ crossed' \subseteq SUBSET Users
    BY <1>1 DEF IInv, TypeOK, tables
  <2> QED
    BY <1>1, <2>1, <2>2, <2>3, AcceptFrame DEF IInv, Faultless, tables
<1>3. CASE task[p].do \notin {"status", "dialog", "peer_dialog"}
  <2>1. task' = [task EXCEPT ![p] = Idle]
    BY <1>1, <1>3 DEF AfterFailure
  <2> QED
    BY <1>1, <2>1, IdleTask, QuietKeeps DEF IInv, TypeOK
<1> QED
  BY <1>2, <1>3

\* What a step does to withdrawn invites.
StaysWithdrawn ==
    \A i \in Ids : invites[i].status \in Withdrawn
        => \/ invites'[i].status \in Withdrawn
           \/ \E q \in Processes \ {invites[i].withdrawer} :
                  Accepting(q, i) /\ invites'[i].status = "accepted"

\* A step that accepts no invite leaves what is withdrawn so.
LEMMA NotAccepted ==
    ASSUME \/ invites' = invites
           \/ \E p \in Processes, i \in Ids, st \in Withdrawn :
                  invites \in Seq(Rows) /\ Withdraw(p, i, st)
    PROVE  StaysWithdrawn
<1>1. CASE invites' = invites
  BY <1>1 DEF StaysWithdrawn
<1>2. ASSUME NEW p \in Processes, NEW i \in Ids, NEW st \in Withdrawn,
             invites \in Seq(Rows), Withdraw(p, i, st)
      PROVE  StaysWithdrawn
  <2>1. \A j \in Ids : invites'[j].status = IF j = i THEN st ELSE invites[j].status
    <3>1. \A j \in Ids : invites[j] \in Rows
      BY <1>2, ElementOfSeq DEF Ids
    <3> QED
      BY <1>2, <3>1 DEF Withdraw, Rows, Ids
  <2> QED
    BY <2>1 DEF StaysWithdrawn
<1> QED
  BY <1>1, <1>2

\* Every step keeps the invariant and brings no withdrawn invite back but in a
\* process that did not withdraw it.
LEMMA NextKeeps ==
    ASSUME IInv, [Next]_vars
    PROVE  IInv' /\ StaysWithdrawn
<1>1. CASE Tick
  BY <1>1, TickKeeps, NotAccepted DEF Tick, tables
<1>2. ASSUME NEW u \in Users, Register(u) PROVE IInv' /\ StaysWithdrawn
  BY <1>2, RegisterKeeps, NotAccepted DEF Register
<1>3. ASSUME NEW p \in Processes, Restart(p) PROVE IInv' /\ StaysWithdrawn
  BY <1>3, RestartKeeps, NotAccepted DEF Restart, tables
<1>4. ASSUME NEW p \in Processes, Request(p) PROVE IInv' /\ StaysWithdrawn
  <2>1. ASSUME NEW u \in Users, NEW v \in Users, SendInvite(p, u, v)
        PROVE  IInv' /\ StaysWithdrawn
    BY <2>1, SendKeeps, NotAccepted DEF SendInvite, tables
  <2>2. ASSUME NEW i \in 1..MaxInvites, NEW u \in Users, RevokeInvite(p, i, u)
        PROVE  IInv' /\ StaysWithdrawn
    BY <2>2, RevokeKeeps, NotAccepted DEF RevokeInvite, tables
  <2>3. ASSUME NEW i \in 1..MaxInvites, NEW u \in Users, AcceptInvite(p, i, u)
        PROVE  IInv' /\ StaysWithdrawn
    BY <2>3, AcceptKeeps, NotAccepted DEF AcceptInvite, tables
  <2>4. ASSUME NEW i \in 1..MaxInvites, NEW u \in Users, RejectInvite(p, i, u)
        PROVE  IInv' /\ StaysWithdrawn
    <3>1. IInv'
      BY <2>4, RejectKeeps
    <3>2. i \in Ids /\ "rejected" \in Withdrawn /\ invites \in Seq(Rows)
      BY <2>4 DEF RejectInvite, Withdrawn, IInv, TypeOK
    <3>3. Withdraw(p, i, "rejected") \/ invites' = invites
      BY <2>4 DEF RejectInvite
    <3> QED
      BY <3>1, <3>2, <3>3, NotAccepted
  <2> QED
    BY <1>4, <2>1, <2>2, <2>3, <2>4 DEF Request
<1>5. ASSUME NEW p \in Processes, HandlerStep(p) PROVE IInv' /\ StaysWithdrawn
  <2>1. CASE InsertInvite(p)
    BY <2>1, InsertKeeps DEF StaysWithdrawn
  <2>2. CASE MarkRevoked(p)
    <3>1. IInv'
      BY <2>2, MarkRevokedKeeps
    <3>2. /\ task[p].invite \in Ids /\ "revoked" \in Withdrawn /\ invites \in Seq(Rows)
          /\ Withdraw(p, task[p].invite, "revoked")
      BY <2>2, TaskType DEF MarkRevoked, Withdrawn, IInv, TypeOK
    <3> QED
      BY <3>1, <3>2, NotAccepted
  <2>3. CASE SaveStatus(p)
    BY <2>3, SaveStatusKeeps DEF StaysWithdrawn
  <2>4. CASE SaveDialog(p)
    BY <2>4, SaveDialogKeeps, NotAccepted DEF SaveDialog
  <2>5. CASE SavePeerDialog(p)
    BY <2>5, SavePeerDialogKeeps, NotAccepted DEF SavePeerDialog
  <2>6. CASE AddContact(p) \/ AddPeerContact(p)
    BY <2>6, ContactKeeps, NotAccepted DEF AddContact, AddPeerContact
  <2>7. CASE LoadStats(p)
    BY <2>7, LoadStatsKeeps, NotAccepted DEF LoadStats, tables
  <2>8. CASE SaveStats(p)
    BY <2>8, SaveStatsKeeps, NotAccepted DEF SaveStats
  <2>9. CASE WriteFails(p)
    BY <2>9, WriteFailsKeeps, NotAccepted DEF WriteFails, tables
  <2> QED
    BY <1>5, <2>1, <2>2, <2>3, <2>4, <2>5, <2>6, <2>7, <2>8, <2>9 DEF HandlerStep
<1>6. CASE UNCHANGED vars
  <2>1. /\ Ids' = Ids /\ UNCHANGED <<accounts, invites, pending, task, dialogs, contacts,
                                     stats, keys, now, faults, crossed>>
    BY <1>6 DEF vars, Ids
  <2>2. TypeOK' /\ UsersHaveAccounts' /\ WithdrawerLetsGo' /\ SendersLooked'
        /\ OneLiveInvite'
    BY <2>1 DEF IInv, TypeOK, UsersHaveAccounts, WithdrawerLetsGo, Accepting,
                SendersLooked, Gone, OneLiveInvite
  <2>3. Faultless' /\ StatsEarned'
    BY <2>1 DEF IInv, Faultless, DialogsAgree, Parties, HalvesAgree, Half, Accepter,
                Sender, AcceptedConnect, Written, Connected, Accepting, StatsEarned,
                Earned
  <2> QED
    BY <2>1, <2>2, <2>3, NotAccepted DEF IInv
<1> QED
  BY <1>1, <1>2, <1>3, <1>4, <1>5, <1>6 DEF Next

-----------------------------------------------------------------------------
(* The theorems *)

THEOREM Invariance == Spec => []IInv
<1>1. Init => IInv
  BY InitIInv
<1>2. IInv /\ [Next]_vars => IInv'
  BY NextKeeps
<1> QED
  BY <1>1, <1>2, PTL DEF Spec

\* Every reachable state is well typed: the memory of every process and the
\* handler it has under way name invites of the table only.
THEOREM InvitesTypeCorrect == Spec => []TypeOK
<1>1. IInv => TypeOK
  BY DEF IInv
<1> QED
  BY <1>1, Invariance, PTL

\* However many processes there are, a user's older invite to another is
\* withdrawn when the sender of a newer one could see it, or was accepted after
\* that in another process: send_invite() looks before it inserts.
THEOREM NoSecondInvite == Spec => []OneLiveInvite
<1>1. IInv => OneLiveInvite
  BY DEF IInv
<1> QED
  BY <1>1, Invariance, PTL

\* An invite that was rejected or revoked comes back only by accept_invite() in
\* a process other than the one that withdrew it, whatever memory, restarts and
\* handlers cut short do.
THEOREM WithdrawnStays == Spec => WithdrawnIsFinal
<1>1. IInv /\ [Next]_vars => [StaysWithdrawn]_vars
  BY NextKeeps
<1> QED
  BY <1>1, Invariance, PTL DEF Spec, WithdrawnIsFinal, StaysWithdrawn

\* With one process (run_web.sh) an invite that was rejected or revoked is never
\* accepted.
THEOREM OneProcessWithdrawsForGood ==
    ASSUME \A p, q \in Processes : p = q
    PROVE  Spec => [][\A i \in Ids : invites[i].status \in Withdrawn
                                => invites'[i].status \in Withdrawn]_vars
<1>1. IInv /\ [Next]_vars => [\A i \in Ids : invites[i].status \in Withdrawn
                                => invites'[i].status \in Withdrawn]_vars
  BY NextKeeps, RowType DEF StaysWithdrawn, IInv
<1> QED
  BY <1>1, Invariance, PTL DEF Spec

\* Unless a handler was cut short, the two sides of a dialog nobody is writing
\* hold one key, but where two processes wrote it at once with different keys,
\* and the parties of an accepted invite are each other's contacts.
THEOREM ContactsAgree == Spec => []ContactsShareKey
<1>1. IInv => ContactsShareKey
  BY DEF IInv, Faultless, AcceptedConnect, ContactsShareKey
<1> QED
  BY <1>1, Invariance, PTL

\* A sender is never blocked twice for the same rejections, for every limit
\* and all durations of the blocks (_update_block_level()), although processes
\* save their counts over each other's.
THEOREM NoBlockForNothing == Spec => []BlocksEarned
<1>1. IInv => BlocksEarned
  BY DEF IInv, StatsEarned, Earned, BlocksEarned
<1> QED
  BY <1>1, Invariance, PTL
=============================================================================
