----------------------------- MODULE MCInvites -----------------------------
(* Small instances of Invites: two users of one machine, days of two hours, *)
(* blocks of one and of two days.  An instance that could do everything for *)
(* as long as a permanent block takes is too large; a behaviour of          *)
(* StorySpec is one of three: two processes interleave their handlers, with *)
(* two invites on the first day; one process has a fault and two invites on *)
(* two days; or two processes count rejections of one invite on five days.  *)
EXTENDS Invites, TLC

CONSTANTS alice, bob, web, web2

VARIABLE story

TwoUsers == {alice, bob}
OneProcess == {web}
TwoProcesses == {web, web2}
OneAndTwoDays == <<1, 2>>
Symmetry == Permutations(TwoUsers) \cup Permutations(Processes)

\* One process serves, the other has not been started.
Alone == \E p \in Processes : \A q \in Processes \ {p} : task[q] = Idle /\ pending[q] = {}

Within ==
    \/ /\ story = "processes"
       /\ faults = 0 /\ now.day = 0 /\ now.hour = 0
       /\ Rejections = 0 \/ (Rejections = 1 /\ Len(invites) = 1)
    \/ /\ story = "faults"
       /\ Alone /\ Rejections <= 1
       /\ now.day = 0 \/ (now.day = 1 /\ now.hour = 0)
    \/ /\ story = "blocks"
       /\ faults = 0 /\ Len(invites) <= 1 /\ keys <= 1
       /\ Alone \/ (now.day = 0 /\ now.hour = 0)
       /\ \A p \in Processes : task[p].do \in {"idle", "insert", "count", "save"}

StoryInit == Init /\ story \in {"processes", "faults", "blocks"}

StorySpec == StoryInit /\ [][Next /\ UNCHANGED story /\ Within']_<<vars, story>>
=============================================================================
