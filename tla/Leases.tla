------------------------------- MODULE Leases -------------------------------
(***************************************************************************)
(* What a table of registrations with a lifetime promises: an entry lasts  *)
(* until Term after it was last renewed, and after that may be renewed     *)
(* still or be dropped at any time.  Before that it is given up in two     *)
(* ways only, and the table's user knows of both: by a release of its      *)
(* holder, where holders may be released, and with the process that keeps  *)
(* the table, where the table is volatile.                                 *)
(***************************************************************************)
EXTENDS Naturals

CONSTANTS Holders, Term, Releasable, Volatile

VARIABLES
    lease,    \* when the entry of a holder expires, or Free
    given,    \* holders whose entry was given up since it was last renewed
    now

Free == 0

Held == {h \in Holders : lease[h] # Free}
Elapsed == {h \in Held : now >= lease[h]}

Init == lease = [h \in Holders |-> Free] /\ given = {} /\ now = 0

Renew(h) ==
    /\ lease' = [lease EXCEPT ![h] = now + Term]
    /\ given' = given \ {h}
    /\ UNCHANGED now

Drop(S) == lease' = [h \in Holders |-> IF h \in S THEN Free ELSE lease[h]] /\ UNCHANGED now

Release(h) == h \in Releasable /\ Drop({h}) /\ given' = given \union {h}

\* A clean-up drops entries whose time has passed, all of them or some.
Expire(S) == Drop(S) /\ UNCHANGED given

Lose == Volatile /\ Drop(Held) /\ given' = given \union Held

Pass == now' = now + 1 /\ UNCHANGED <<lease, given>>

Next ==
    \/ \E S \in SUBSET Elapsed : Expire(S)
    \/ \E h \in Holders : Renew(h) \/ Release(h)
    \/ Lose
    \/ Pass

Spec == Init /\ [][Next]_<<lease, given, now>>
=============================================================================
