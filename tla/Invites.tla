------------------------------ MODULE Invites ------------------------------
(***************************************************************************)
(* Invites between the users of one machine: InviteProtocol with its       *)
(* SpamProtection, in every process that runs main:app over the same       *)
(* duonet.db and duonet_server.db.  The table of invites, the dialogs, the *)
(* contacts and the statistics are shared; _pending_invites is a copy each *)
(* process fills when it starts and then changes by its own handlers only. *)
(*                                                                         *)
(* A handler awaits nothing, so a process has one under way at a time; but *)
(* every statement commits by itself, and the handlers of other processes  *)
(* come between two of them.  The reads before a write are one step, and   *)
(* each write is one.  A write may fail, which leaves no trace in the      *)
(* table, and the process may end with a handler under way.  Messages,     *)
(* signatures, names, and the contacts users add or delete themselves are  *)
(* left out; process_invite() and cleanup_expired() are called by no code. *)
(***************************************************************************)
EXTENDS SpamProtection, Sequences, FiniteSets, Functions

CONSTANTS
    Processes,    \* processes that serve main:app on this machine
    Users,        \* public ids of clients
    InviteDays,   \* INVITE_TTL_SECONDS
    LastHour,     \* a day has the hours 0..LastHour
    MaxInvites,   \* bound: invites sent
    MaxKeys,      \* bound: session keys drawn
    MaxTotal,     \* bound: rejections counted, of all senders
    MaxDay,       \* bound: the last day
    MaxFaults     \* bound: writes failed and handlers cut short

ASSUME InvitesAssumption ==
    /\ {InviteDays, LastHour, MaxInvites, MaxKeys, MaxTotal, MaxDay, MaxFaults} \subseteq Nat

VARIABLES
    accounts,   \* users registered on this machine
    invites,    \* table invites, in the order of sending; an id is an index
    pending,    \* ids in _pending_invites of every process
    task,       \* the handler every process has under way
    dialogs,    \* table dialogs: session key of <<user, contact>>
    contacts,   \* ContactsStorage of every user: pairs <<user, contact>>
    stats,      \* spam statistics of every user
    keys,       \* session keys drawn so far; a key is its number
    now,        \* the server's clock
    faults,     \* writes failed and handlers cut short so far
    crossed     \* history: pairs whose dialog was written by two handlers at once

vars == <<accounts, invites, pending, task, dialogs, contacts, stats, keys, now,
          faults, crossed>>
tables == <<accounts, invites, dialogs, contacts, stats>>

NoKey == 0
Keys == 0..MaxKeys
Pairs == Users \X Users
Statuses == {"pending", "accepted", "rejected", "revoked"}
Withdrawn == {"rejected", "revoked"}

\* The last three fields are history: the number of rows its sender looked at
\* before inserting it, the process that withdrew it last (its sender's before
\* that), and whether it was accepted after it had been withdrawn.
Rows == {r \in [from_id : Users, to_id : Users, session_key : Keys,
                status : Statuses, expires_at : Time,
                seen : Nat, withdrawer : Processes, revived : BOOLEAN] :
         r.from_id # r.to_id}
Ids == 1..Len(invites)
Parties(i) == {invites[i].from_id, invites[i].to_id}

\* A handler under way is named by its next write: of send_invite(), of
\* revoke_invite(), the five of accept_invite(), and, after the UPDATE of
\* reject_invite(), the statistics to be loaded and those to be saved.
AcceptWrites == {"status", "dialog", "peer_dialog", "contact", "peer_contact"}
Idle == [do |-> "idle"]
Tasks ==
    {Idle}
    \cup [do : {"insert"}, from : Users, to : Users, seen : Nat]
    \cup [do : {"revoke"}, invite : Nat]
    \cup [do : AcceptWrites, invite : Nat, key : Keys]
    \cup [do : {"count"}, sender : Users]
    \cup [do : {"save"}, sender : Users, record : Stats]

Accepting(p, i) == task[p].do \in AcceptWrites /\ task[p].invite = i

TypeOK ==
    /\ accounts \subseteq Users
    /\ invites \in Seq(Rows)
    /\ pending \in [Processes -> SUBSET Ids]
    /\ task \in [Processes -> Tasks]
    /\ \A p \in Processes :
           task[p].do \in AcceptWrites \cup {"revoke"} => task[p].invite \in Ids
    /\ dialogs \in [Pairs -> Keys]
    /\ contacts \subseteq Pairs
    /\ stats \in [Users -> Stats]
    /\ keys \in Keys
    /\ now \in Time
    /\ faults \in 0..MaxFaults
    /\ crossed \subseteq SUBSET Users

Init ==
    /\ accounts = {}
    /\ invites = << >>
    /\ pending = [p \in Processes |-> {}]
    /\ task = [p \in Processes |-> Idle]
    /\ dialogs = [p \in Pairs |-> NoKey]
    /\ contacts = {}
    /\ stats = [u \in Users |-> NewStats]
    /\ keys = 0
    /\ now = [day |-> 0, hour |-> 0]
    /\ faults = 0
    /\ crossed = {}

Begin(p, t) == task[p] = Idle /\ task' = [task EXCEPT ![p] = t]
GoOn(p, write) == task' = [task EXCEPT ![p].do = write]
Finish(p) == task' = [task EXCEPT ![p] = Idle]
Forget(p, i) == pending' = [pending EXCEPT ![p] = @ \ {i}]

\* UPDATE invites SET status = ... WHERE invite_id = ..., in process p
Withdraw(p, i, st) ==
    invites' = [invites EXCEPT ![i].status = st, ![i].withdrawer = p]

-----------------------------------------------------------------------------
(* The clock, the accounts, the start of a process and failing writes *)

Tick ==
    /\ now' = IF now.hour < LastHour THEN [now EXCEPT !.hour = @ + 1]
              ELSE [day |-> now.day + 1, hour |-> 0]
    /\ now'.day <= MaxDay
    /\ UNCHANGED <<tables, pending, task, keys, faults, crossed>>

\* A user registers on this machine: its public key is found from now on.
Register(u) ==
    /\ u \notin accounts
    /\ accounts' = accounts \cup {u}
    /\ UNCHANGED <<invites, pending, task, dialogs, contacts, stats, keys, now,
                   faults, crossed>>

\* _load_active_invites(): pending invites that have not expired.
LoadActiveInvites ==
    {i \in Ids : invites[i].status = "pending" /\ Before(now, invites[i].expires_at)}

\* A process is started, again or beside the others.  If the one before had a
\* handler under way, that one ended where it was.
Restart(p) ==
    /\ IF task[p] = Idle THEN faults' = faults
       ELSE faults < MaxFaults /\ faults' = faults + 1
    /\ Finish(p)
    /\ pending' = [pending EXCEPT ![p] = LoadActiveInvites]
    /\ UNCHANGED <<tables, keys, now, crossed>>

\* accept_invite() prints the failures of its first three writes and goes on;
\* after one of the two of the dialog the other is not tried.  The failure of
\* any other write ends its handler.
AfterFailure(t) ==
    CASE t.do = "status" -> [t EXCEPT !.do = "dialog"]
      [] t.do \in {"dialog", "peer_dialog"} -> [t EXCEPT !.do = "contact"]
      [] OTHER -> Idle

WriteFails(p) ==
    /\ task[p] # Idle
    /\ faults < MaxFaults
    /\ faults' = faults + 1
    /\ task' = [task EXCEPT ![p] = AfterFailure(@)]
    /\ UNCHANGED <<tables, pending, keys, now, crossed>>

-----------------------------------------------------------------------------
(* send_invite() and revoke_invite() *)

\* An accepted invite does not keep another from being sent.
InviteExists_mut(u, v) ==
    \E i \in Ids : /\ invites[i].from_id = u /\ invites[i].to_id = v
                   /\ invites[i].status = "pending"

InviteExists(u, v) ==
    \E i \in Ids : /\ invites[i].from_id = u /\ invites[i].to_id = v
                   /\ invites[i].status \in {"pending", "accepted"}

\* Users may invite themselves.
MayInvite_mut(u, v) ==
    ~ IsBlocked(stats[u], now) /\ HasRemainingInvites(stats[u], now)

MayInvite(u, v) ==
    u # v /\ ~ IsBlocked(stats[u], now) /\ HasRemainingInvites(stats[u], now)

SendInvite(p, u, v) ==
    /\ u \in accounts
    /\ MayInvite(u, v)
    /\ ~ InviteExists(u, v)
    /\ Begin(p, [do |-> "insert", from |-> u, to |-> v, seen |-> Len(invites)])
    /\ UNCHANGED <<tables, pending, keys, now, faults, crossed>>

\* A session key is stored with the invite if the recipient's public key is
\* known here, and drawn when the invite is accepted otherwise.
InsertInvite(p) ==
    LET t == task[p]
        key == IF t.to \in accounts THEN keys + 1 ELSE NoKey
    IN  /\ t.do = "insert"
        /\ Len(invites) < MaxInvites
        /\ key <= MaxKeys
        /\ keys' = IF t.to \in accounts THEN keys + 1 ELSE keys
        /\ invites' = Append(invites,
               [from_id |-> t.from, to_id |-> t.to, status |-> "pending",
                session_key |-> key, expires_at |-> DaysLater(now, InviteDays),
                seen |-> t.seen, withdrawer |-> p, revived |-> FALSE])
        /\ pending' = [pending EXCEPT ![p] = @ \cup {Len(invites) + 1}]
        /\ Finish(p)
        /\ UNCHANGED <<accounts, dialogs, contacts, stats, now, faults, crossed>>

RevokeInvite(p, i, u) ==
    /\ i \in Ids /\ invites[i].from_id = u
    /\ invites[i].status = "pending"
    /\ Begin(p, [do |-> "revoke", invite |-> i])
    /\ UNCHANGED <<tables, pending, keys, now, faults, crossed>>

\* The invite stays in memory.
MarkRevoked_mut(p) ==
    /\ task[p].do = "revoke"
    /\ Withdraw(p, task[p].invite, "revoked")
    /\ Finish(p)
    /\ UNCHANGED <<accounts, pending, dialogs, contacts, stats, keys, now, faults,
                   crossed>>

\* The table is updated whatever the status has become, and the invite leaves
\* the memory of this process.
MarkRevoked(p) ==
    /\ task[p].do = "revoke"
    /\ Withdraw(p, task[p].invite, "revoked")
    /\ Forget(p, task[p].invite)
    /\ Finish(p)
    /\ UNCHANGED <<accounts, dialogs, contacts, stats, keys, now, faults, crossed>>

-----------------------------------------------------------------------------
(* accept_invite() *)

\* An invite in the memory of the process is accepted whatever the table says
\* of it; one that is only in the table has to be pending there.  Without a
\* stored key every accept draws another.
AcceptInvite(p, i, u) ==
    LET stored == invites[i].session_key
        key == IF stored = NoKey THEN keys + 1 ELSE stored
    IN  /\ i \in Ids /\ u \in accounts
        /\ i \in pending[p] \/ invites[i].status = "pending"
        /\ invites[i].to_id = u
        /\ key <= MaxKeys
        /\ keys' = IF stored = NoKey THEN keys + 1 ELSE keys
        /\ Begin(p, [do |-> "status", invite |-> i, key |-> key])
        /\ UNCHANGED <<tables, pending, now, faults, crossed>>

MarkAccepted(i) ==
    invites' = [invites EXCEPT ![i].status = "accepted",
                               ![i].revived = @ \/ invites[i].status \in Withdrawn]

SaveStatus(p) ==
    LET i == task[p].invite
    IN  /\ task[p].do = "status"
        /\ MarkAccepted(i)
        /\ GoOn(p, "dialog")
        /\ UNCHANGED <<accounts, pending, dialogs, contacts, stats, keys, now, faults,
                       crossed>>

\* The two users of the invite process p is accepting.
Accepter(p) == invites[task[p].invite].to_id
Sender(p) == invites[task[p].invite].from_id

\* Another process is between its two writes of the same dialog, with another
\* key.
Crosses(p) ==
    \E q \in Processes \ {p} :
        /\ task[q].do = "peer_dialog"
        /\ Parties(task[q].invite) = Parties(task[p].invite)
        /\ task[q].key # task[p].key

\* save_dialog() for the side of the accepter.
SaveDialog(p) ==
    /\ task[p].do = "dialog"
    /\ dialogs' = [dialogs EXCEPT ![<<Accepter(p), Sender(p)>>] = task[p].key]
    /\ crossed' = IF Crosses(p) THEN crossed \cup {Parties(task[p].invite)} ELSE crossed
    /\ GoOn(p, "peer_dialog")
    /\ UNCHANGED <<accounts, invites, pending, contacts, stats, keys, now, faults>>

\* The accepter's side of the dialog is saved twice.
SavePeerDialog_mut(p) ==
    /\ task[p].do = "peer_dialog"
    /\ dialogs' = [dialogs EXCEPT ![<<Accepter(p), Sender(p)>>] = task[p].key]
    /\ GoOn(p, "contact")
    /\ UNCHANGED <<accounts, invites, pending, contacts, stats, keys, now, faults,
                   crossed>>

SavePeerDialog(p) ==
    /\ task[p].do = "peer_dialog"
    /\ dialogs' = [dialogs EXCEPT ![<<Sender(p), Accepter(p)>>] = task[p].key]
    /\ GoOn(p, "contact")
    /\ UNCHANGED <<accounts, invites, pending, contacts, stats, keys, now, faults,
                   crossed>>

\* _add_contact_to_storage(): nothing is added for a user without an account.
Added(u, v) == IF u \in accounts THEN contacts \cup {<<u, v>>} ELSE contacts

AddContact(p) ==
    /\ task[p].do = "contact"
    /\ contacts' = Added(Accepter(p), Sender(p))
    /\ GoOn(p, "peer_contact")
    /\ UNCHANGED <<accounts, invites, pending, dialogs, stats, keys, now, faults,
                   crossed>>

AddPeerContact(p) ==
    /\ task[p].do = "peer_contact"
    /\ contacts' = Added(Sender(p), Accepter(p))
    /\ Finish(p)
    /\ UNCHANGED <<accounts, invites, pending, dialogs, stats, keys, now, faults,
                   crossed>>

-----------------------------------------------------------------------------
(* reject_invite() *)

\* The number of rejections counted, and about to be.
Rejections ==
    SumFunction([v \in Users |-> stats[v].rejections_total])
        + Cardinality({p \in Processes : task[p].do \in {"count", "save"}})

\* The table is updated whatever the status, but for the recipient only.  The
\* invite leaves the memory of this process, and each rejection of it is
\* counted for its sender.
RejectInvite(p, i, u) ==
    /\ i \in Ids /\ u \in accounts
    /\ Rejections < MaxTotal
    /\ IF invites[i].to_id = u THEN Withdraw(p, i, "rejected") ELSE invites' = invites
    /\ Forget(p, i)
    /\ Begin(p, [do |-> "count", sender |-> invites[i].from_id])
    /\ UNCHANGED <<accounts, dialogs, contacts, stats, keys, now, faults, crossed>>

\* record_rejection() computes the new record from the one it loads,
LoadStats(p) ==
    LET u == task[p].sender
    IN  /\ task[p].do = "count"
        /\ task' = [task EXCEPT ![p] = [do |-> "save", sender |-> u,
                                        record |-> RecordRejection(stats[u], now)]]
        /\ UNCHANGED <<tables, pending, keys, now, faults, crossed>>

\* and saves it whatever other processes have saved since.
SaveStats(p) ==
    /\ task[p].do = "save"
    /\ stats' = [stats EXCEPT ![task[p].sender] = task[p].record]
    /\ Finish(p)
    /\ UNCHANGED <<accounts, invites, pending, dialogs, contacts, keys, now, faults,
                   crossed>>

-----------------------------------------------------------------------------
Request(p) ==
    \/ \E u, v \in Users : SendInvite(p, u, v)
    \/ \E i \in 1..MaxInvites, u \in Users :
           RevokeInvite(p, i, u) \/ AcceptInvite(p, i, u) \/ RejectInvite(p, i, u)

HandlerStep(p) ==
    \/ InsertInvite(p)
    \/ MarkRevoked(p)
    \/ SaveStatus(p)
    \/ SaveDialog(p)
    \/ SavePeerDialog(p)
    \/ AddContact(p)
    \/ AddPeerContact(p)
    \/ LoadStats(p)
    \/ SaveStats(p)
    \/ WriteFails(p)

Next ==
    \/ Tick
    \/ \E u \in Users : Register(u)
    \/ \E p \in Processes : Restart(p) \/ Request(p) \/ HandlerStep(p)

Spec == Init /\ [][Next]_vars

-----------------------------------------------------------------------------
(* Properties *)

\* What memory holds of an invite never brings it back in the process that
\* withdrew it: an invite rejected or revoked in the table stays so through
\* stale pages, restarts and handlers cut short, unless another process, which
\* still has it in memory or was accepting it, writes accepted over it.  On a
\* machine with one process withdrawn is final.
WithdrawnIsFinal ==
    [][\A i \in Ids : invites[i].status \in Withdrawn
                      => \/ invites'[i].status \in Withdrawn
                         \/ \E q \in Processes \ {invites[i].withdrawer} :
                                Accepting(q, i) /\ invites'[i].status = "accepted"]_vars

\* Of two invites of a user to another the older is withdrawn, if the newer
\* one's sender could see it, unless it was accepted after that withdrawal:
\* only a send_invite() of another process between the look and the insertion
\* makes a second live invite.
OneLiveInvite ==
    \A j \in Ids : \A i \in 1..invites[j].seen :
        /\ invites[i].from_id = invites[j].from_id
        /\ invites[i].to_id = invites[j].to_id
        => invites[i].status \in Withdrawn \/ invites[i].revived

\* As long as no handler was cut short, both sides of a dialog hold the same
\* key whenever no process is between the two writes of it, unless two
\* processes wrote it at once with different keys; and whoever may send to a
\* contact (get_contacts(): the invite is accepted) has a key for it and was
\* given it in the list of contacts, once the handler is through.
DialogsAgree ==
    \A p \in Pairs :
        \/ dialogs[p] = dialogs[<<p[2], p[1]>>]
        \/ {p[1], p[2]} \in crossed
        \/ \E q \in Processes : /\ task[q].do = "peer_dialog"
                                /\ Parties(task[q].invite) = {p[1], p[2]}

Connected(i) ==
    LET p == <<invites[i].from_id, invites[i].to_id>>
    IN  dialogs[p] # NoKey /\ {p, <<p[2], p[1]>>} \subseteq contacts

ContactsShareKey ==
    faults = 0 =>
        /\ DialogsAgree
        /\ \A i \in Ids : invites[i].status = "accepted"
               => Connected(i) \/ \E p \in Processes : Accepting(p, i)

\* Every block was earned anew: no rejection counts towards two blocks,
\* although the count of the day goes on while a block is running, and two
\* processes may save their counts over each other's.
BlocksEarned ==
    \A u \in Users : stats[u].rejections_total >= MaxRejections * stats[u].blocks

\* A sender is charged for its rejected invites: no more rejections than
\* invites it has sent (spam_protection.py:5 counts the rejected invites).
RejectionsAreInvites ==
    \A u \in Users :
        stats[u].rejections_total
            <= Cardinality({i \in Ids : invites[i].from_id = u})
=============================================================================
