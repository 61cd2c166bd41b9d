----------------------------- MODULE KeyHandover -----------------------------
(***************************************************************************)
(* What a key rotation promises the two ends of a dialog: one side offers  *)
(* a new key only when the other has taken the last one, and the other     *)
(* takes no key but the one that is offered.  So the two keys in use are   *)
(* never more than one rotation apart.                                     *)
(***************************************************************************)
CONSTANTS Keys, FirstKey

VARIABLES offered, taken

Init == offered = FirstKey /\ taken = FirstKey

Offer == taken = offered /\ offered' \in Keys /\ UNCHANGED taken

Take == taken' = offered /\ UNCHANGED offered

Next == Offer \/ Take

Spec == Init /\ [][Next]_<<offered, taken>>
=============================================================================
