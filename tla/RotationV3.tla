----------------------------- MODULE RotationV3 -----------------------------
(***************************************************************************)
(* Key rotation of the Python client, version 3: RotationManager and       *)
(* SystemMessageHandler of the two users of one dialog.  A manager keeps   *)
(* the rotations it knows in memory and the state of the dialog in memory  *)
(* and in a table, which is read again when the dialog is next used.       *)
(*                                                                         *)
(* A method is a step; a user's call and the message it makes are one, for *)
(* a message may be lost anyway.  Messages come in any order, not at all,  *)
(* or again.  A rotation's new key is named by the rotation and by which   *)
(* acceptance of it made the second key pair.  Both clocks are the same.   *)
(* The statuses, which nothing asks for, and the stored copies of messages *)
(* are left out.  The duplicate filter forgets none of the few messages of *)
(* an instance; it forgets arbitrary ones beyond 100.                      *)
(***************************************************************************)
EXTENDS ServerClock, FiniteSets

CONSTANTS
    Users,            \* the two of the dialog
    RotationTimeout,  \* ROTATION_TIMEOUT
    MaxRotations,     \* bound: rotations a user initiates
    MaxAccepts,       \* bound: acceptances of a rotation
    MaxFaults         \* bound: restarts of a process and deletions of a dialog

ASSUME RotationV3Assumption ==
    /\ IsFiniteSet(Users) /\ Cardinality(Users) = 2
    /\ {RotationTimeout, MaxRotations, MaxAccepts, MaxFaults} \subseteq Nat

VARIABLES
    pending,    \* _pending_rotations: when each expires
    dialog,     \* row of the dialog in rotation_state
    cached,     \* it is in _dialog_states
    seen,       \* _processed_messages
    sent,       \* messages ever sent
    accepts,    \* history: acceptances of a rotation
    confirmed,  \* history: acceptances its initiator has confirmed
    orphans,    \* history: rotations a restart removed from memory
    restarts,   \* history
    deleted     \* history: users who have deleted the dialog; once each

v3Vars == <<pending, dialog, cached, seen, sent, accepts, confirmed, orphans,
            restarts, deleted>>
histories == <<accepts, confirmed, orphans, restarts, deleted>>

Other(u) == CHOOSE p \in Users : p # u
Rotations == Users \X (1..MaxRotations)
NoRotation == <<>>
BaseKey == [rotation |-> NoRotation, nth |-> 0]
NewKeys == [rotation : Rotations, nth : 1..MaxAccepts]

Dialog == [exists : BOOLEAN, key : {BaseKey} \union NewKeys,
           rotation : {NoRotation} \union Rotations, expires : Nat]
NoDialog == [exists |-> FALSE, key |-> BaseKey, rotation |-> NoRotation, expires |-> 0]

Request(r, expires) == [type |-> "REQUEST", rotation |-> r, arg |-> expires]
Accepted(r, nth) == [type |-> "ACCEPT", rotation |-> r, arg |-> nth]
Plain(type, r) == [type |-> type, rotation |-> r, arg |-> 0]
Message == [type : {"REQUEST", "ACCEPT", "CONFIRM", "COMPLETE", "REJECT", "TIMEOUT"},
            rotation : Rotations, arg : Nat]

V3Init ==
    /\ pending = [u \in Users |-> [r \in {} |-> 0]]
    /\ dialog = [u \in Users |-> NoDialog]
    /\ cached = [u \in Users |-> FALSE]
    /\ seen = [u \in Users |-> {}]
    /\ sent = [u \in Users |-> {}]
    /\ accepts = [r \in Rotations |-> 0]
    /\ confirmed = {} /\ orphans = [u \in Users |-> {}]
    /\ restarts = 0 /\ deleted = {}

-----------------------------------------------------------------------------
InTransition(d) == d.rotation # NoRotation
Expired3(t) == now >= t

\* _get_or_create_state(): what the table has, or a row with the session key.
State(u) == [dialog[u] EXCEPT !.exists = TRUE]

Rollback(d) == [d EXCEPT !.rotation = NoRotation, !.expires = 0]
StartTransition(d, r) == [d EXCEPT !.rotation = r, !.expires = now + RotationTimeout]
RollbackIf(d, r) == IF d.rotation = r THEN Rollback(d) ELSE d

\* The state of u in memory and in the table.
SaveState(u, d) ==
    /\ dialog' = [dialog EXCEPT ![u] = d]
    /\ cached' = [cached EXCEPT ![u] = TRUE]

\* What _dialog_states.get() finds; a dialog not used since a restart is
\* not found.
RollbackCached_mut(u, r) == UNCHANGED <<dialog, cached>>
RollbackCached(u, r) ==
    /\ dialog' = [dialog EXCEPT ![u] = IF cached[u] THEN RollbackIf(@, r) ELSE @]
    /\ UNCHANGED cached

Remember(u, r, expires) ==
    pending' = [pending EXCEPT ![u] =
                   [s \in DOMAIN @ \union {r} |-> IF s = r THEN expires ELSE @[s]]]
Drop(u, R) ==
    pending' = [pending EXCEPT ![u] = [s \in DOMAIN @ \ R |-> @[s]]]

Live(u, r) == r \in DOMAIN pending[u] /\ ~Expired3(pending[u][r])
Send(u, m) == sent' = [sent EXCEPT ![u] = @ \union {m}]

-----------------------------------------------------------------------------
(* What the users and the client do.                                        *)

\* A dialog that is not in memory does not keep anyone from rotating.
CanRotate(u) == cached[u] /\ InTransition(dialog[u]) => Expired3(dialog[u].expires)

Initiate(u, r) ==
    /\ r[1] = u /\ \A m \in sent[u] : m.rotation # r
    /\ CanRotate(u)
    /\ Remember(u, r, now + RotationTimeout)
    /\ SaveState(u, StartTransition(State(u), r))
    /\ Send(u, Request(r, now + RotationTimeout))
    /\ UNCHANGED <<seen, histories, now>>

\* The new key is active at once, and a second acceptance makes another.
Accept(u, r) ==
    /\ r[1] # u /\ Live(u, r) /\ accepts[r] < MaxAccepts
    /\ SaveState(u, [State(u) EXCEPT !.key = [rotation |-> r, nth |-> accepts[r] + 1]])
    /\ Send(u, Accepted(r, accepts[r] + 1))
    /\ accepts' = [accepts EXCEPT ![r] = @ + 1]
    /\ UNCHANGED <<pending, seen, confirmed, orphans, restarts, deleted, now>>

\* The key stays what it is, new or not.
Reject(u, r) ==
    /\ r \in DOMAIN pending[u]
    /\ RollbackCached(u, r) /\ Drop(u, {r})
    /\ Send(u, Plain("REJECT", r))
    /\ UNCHANGED <<seen, histories, now>>

\* The client that drops them may tell the other side.
CheckExpired(u, told) ==
    LET old == {r \in DOMAIN pending[u] : Expired3(pending[u][r])}
    IN  /\ old # {}
        /\ Drop(u, old)
        /\ dialog' = [dialog EXCEPT ![u] =
                         IF cached[u] /\ @.rotation \in old THEN Rollback(@) ELSE @]
        /\ sent' = [sent EXCEPT ![u] = @ \union
                       {Plain("TIMEOUT", r) : r \in IF told THEN old ELSE {}}]
        /\ UNCHANGED <<cached, seen, histories, now>>

\* set_active_key().
UseDialog(u) ==
    /\ ~cached[u]
    /\ SaveState(u, State(u))
    /\ UNCHANGED <<pending, seen, sent, histories, now>>

\* A text that is sent over the API, or received, uses the dialog; storing it
\* fails then, at a method that the storage does not have.
SendText(u) == UseDialog(u)
ReceiveText(u) == UseDialog(u)

Faulty == restarts + Cardinality(deleted) < MaxFaults

V3Restart(u) ==
    /\ Faulty /\ restarts' = restarts + 1
    /\ pending' = [pending EXCEPT ![u] = [r \in {} |-> 0]]
    /\ orphans' = [orphans EXCEPT ![u] = @ \union DOMAIN pending[u]]
    /\ cached' = [cached EXCEPT ![u] = FALSE]
    /\ seen' = [seen EXCEPT ![u] = {}]
    /\ UNCHANGED <<dialog, sent, accepts, confirmed, deleted, now>>

DeleteDialogState(u) ==
    /\ Faulty /\ dialog[u].exists /\ u \notin deleted
    /\ deleted' = deleted \union {u}
    /\ dialog' = [dialog EXCEPT ![u] = NoDialog]
    /\ cached' = [cached EXCEPT ![u] = FALSE]
    /\ pending' = [pending EXCEPT ![u] = [r \in {} |-> 0]]
    /\ UNCHANGED <<seen, sent, accepts, confirmed, orphans, restarts, now>>

-----------------------------------------------------------------------------
(* What arrives.                                                            *)

\* A request is taken although another rotation is under way.
Takes_mut(d) == TRUE
Takes(d) == ~InTransition(d)

ProcessRequest(u, m) ==
    /\ m.type = "REQUEST"
    /\ IF ~Expired3(m.arg) /\ Takes(State(u))
       THEN /\ Remember(u, m.rotation, m.arg)
            /\ SaveState(u, StartTransition(State(u), m.rotation))
       ELSE SaveState(u, State(u)) /\ UNCHANGED pending
    /\ UNCHANGED <<sent, accepts, confirmed>>

\* The answer to an accepted request: confirm_key_rotation().
ProcessAccept(u, m) ==
    /\ m.type = "ACCEPT"
    /\ IF Live(u, m.rotation)
       THEN /\ SaveState(u, [State(u) EXCEPT
                   !.key = [rotation |-> m.rotation, nth |-> m.arg]])
            /\ Send(u, Plain("CONFIRM", m.rotation))
            /\ confirmed' = confirmed \union {[rotation |-> m.rotation, nth |-> m.arg]}
       ELSE UNCHANGED <<dialog, cached, sent, confirmed>>
    /\ UNCHANGED <<pending, accepts>>

\* complete_key_rotation(); a CONFIRM is answered, a COMPLETE is not.
ProcessComplete(u, m) ==
    /\ m.type \in {"CONFIRM", "COMPLETE"}
    /\ IF m.rotation \in DOMAIN pending[u]
       THEN /\ SaveState(u, RollbackIf(State(u), m.rotation))
            /\ Drop(u, {m.rotation})
            /\ IF m.type = "CONFIRM" THEN Send(u, Plain("COMPLETE", m.rotation))
                                     ELSE UNCHANGED sent
       ELSE UNCHANGED <<dialog, cached, pending, sent>>
    /\ UNCHANGED <<accepts, confirmed>>

\* A REJECT of a rotation that is not in memory changes nothing.
ProcessEnd(u, m) ==
    /\ m.type \in {"REJECT", "TIMEOUT"}
    /\ IF m.type = "REJECT" /\ m.rotation \notin DOMAIN pending[u]
       THEN UNCHANGED <<dialog, cached, pending>>
       ELSE RollbackCached(u, m.rotation) /\ Drop(u, {m.rotation})
    /\ UNCHANGED <<sent, accepts, confirmed>>

Handle(u, m) ==
    /\ <<m.rotation, m.type>> \notin seen[u]
    /\ seen' = [seen EXCEPT ![u] = @ \union {<<m.rotation, m.type>>}]
    /\ \/ ProcessRequest(u, m)
       \/ ProcessAccept(u, m)
       \/ ProcessComplete(u, m)
       \/ ProcessEnd(u, m)
    /\ UNCHANGED <<orphans, restarts, deleted, now>>

\* receive() of a system message.
ReceiveSystem(u) == \E m \in sent[Other(u)] : Handle(u, m)

V3Tick == Tick /\ UNCHANGED v3Vars

V3Next ==
    \/ \E u \in Users :
          \/ \E r \in Rotations :
                \/ Initiate(u, r)
                \/ Accept(u, r)
                \/ Reject(u, r)
          \/ \E told \in BOOLEAN : CheckExpired(u, told)
          \/ SendText(u)
          \/ ReceiveText(u)
          \/ V3Restart(u)
          \/ DeleteDialogState(u)
          \/ ReceiveSystem(u)
    \/ V3Tick

V3Spec == V3Init /\ now = 0 /\ [][V3Next]_<<v3Vars, now>>

-----------------------------------------------------------------------------
(* Properties.                                                              *)

V3TypeOK ==
    /\ \A u \in Users :
          /\ DOMAIN pending[u] \subseteq Rotations
          /\ \A r \in DOMAIN pending[u] : pending[u][r] \in Nat
          /\ seen[u] \subseteq Rotations \X {m.type : m \in sent[Other(u)]}
          /\ \A m \in sent[u] : m \in Message
    /\ dialog \in [Users -> Dialog]
    /\ cached \in [Users -> BOOLEAN]
    /\ accepts \in [Rotations -> 0..MaxAccepts]
    /\ confirmed \subseteq NewKeys
    /\ orphans \in [Users -> SUBSET Rotations]
    /\ restarts \in 0..MaxFaults /\ deleted \subseteq Users

\* A dialog that is in memory waits only for a rotation that is too, so that
\* an answer to it is understood; one that was under way when the process
\* ended is all that can keep it waiting for nothing, until it expires.
WaitsForKnown ==
    \A u \in Users :
        cached[u] /\ InTransition(dialog[u]) /\ dialog[u].rotation \notin orphans[u]
            => dialog[u].rotation \in DOMAIN pending[u]

\* When every acceptance has been confirmed, no rotation was accepted twice
\* and no dialog was deleted, both sides use one key: requests that cross,
\* are lost, come late, again or after a restart do no harm.
ConfirmedAgree ==
    (/\ \A r \in Rotations : accepts[r] <= 1
     /\ \A r \in Rotations : accepts[r] = 1 => [rotation |-> r, nth |-> 1] \in confirmed
     /\ deleted = {})
        => \A u, p \in Users : dialog[u].key = dialog[p].key
=============================================================================
