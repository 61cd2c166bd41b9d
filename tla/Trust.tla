------------------------------- MODULE Trust -------------------------------
(***************************************************************************)
(* What a server keeps about the other servers: TrustManager with its      *)
(* BlacklistManager, and GossipProtocol, which asks it before it talks to  *)
(* one of them.  The trust level, the blocked flag, the quarantine and the *)
(* counters of a server are one row of trust_levels, which some operations *)
(* replace and others update; the blacklist and the violations are tables  *)
(* of their own.  Nonces and tasks live in memory.                         *)
(*                                                                         *)
(* A handler runs to its end in one task (the database is locked for a     *)
(* transaction, and no handler awaits between two), so a step is a         *)
(* handler.  The quarantine ends one second after its days: one tick here. *)
(* _get_public_key() is a stub that knows no server; the tests put a       *)
(* directory in its place, which is KnownKeys.  Signatures always verify,  *)
(* last_seen, reasons and charter versions are left out.                   *)
(***************************************************************************)
EXTENDS ServerClock, FiniteSets

CONSTANTS
    Peers,           \* the other servers
    KnownKeys,       \* those whose public key is known
    Day,             \* a day in ticks
    QuarantineDays,  \* QUARANTINE_DAYS
    Limit,           \* DAILY_CLIENT_LIMIT, HOURLY_GOSSIP_LIMIT, HOURLY_INCOMING_LIMIT
    MessageLife,     \* the 300 s of _verify_message()
    Nonces,          \* bound: gossip messages
    MaxViolations,   \* bound: violations of a server on record
    MaxExcused       \* bound: allowances an operator renews on one date

Actions == {"registration", "gossip_out", "gossip_in"}

ASSUME TrustAssumption ==
    /\ KnownKeys \subseteq Peers
    /\ Day \in Nat \ {0}
    /\ {QuarantineDays, MessageLife, MaxViolations, MaxExcused} \subseteq Nat
    /\ Limit \in [Actions -> Nat \ {0}]

VARIABLES
    trust,       \* table trust_levels
    blacklist,   \* table blacklist
    violations,  \* number of rows of each server in table violations
    nonces,      \* _used_nonces
    mail,        \* gossip messages sent to this server; delivery removes none
    outbox,      \* tasks of broadcast_change() that have not run
    applied,     \* history: handlers this process has run for a message
    spent,       \* history: what a server in quarantine was granted this date
    excused      \* history: allowances given back to it this date

trustVars == <<trust, blacklist, violations, nonces, mail, outbox, applied,
               spent, excused>>
history == <<spent, excused>>
gossip == <<nonces, mail, outbox, applied>>

Levels == 0..3       \* UNKNOWN, QUARANTINE, TRUSTED, PRIVILEGED
Quarantine == 1
Trusted == 2

\* quarantine_until and last_reset_date are 0 when they are NULL.
Rows == [stored : BOOLEAN, level : Levels, blocked : BOOLEAN,
         until : Nat, day : Nat, used : [Actions -> Nat]]
Unused == [a \in Actions |-> 0]
NewRow(level) == [stored |-> TRUE, level |-> level, blocked |-> FALSE,
                  until |-> 0, day |-> 0, used |-> Unused]
NoRow == [NewRow(0) EXCEPT !.stored = FALSE]
Gossip == [id : Nonces, from : Peers, sent : Nat]

Today == 1 + now \div Day
QuarantineEnd == now + QuarantineDays * Day + 1

TrustInit ==
    /\ trust = [s \in Peers |-> NoRow]
    /\ blacklist = {}
    /\ violations = [s \in Peers |-> 0]
    /\ nonces = {} /\ mail = {} /\ outbox = {}
    /\ applied = [n \in Nonces |-> 0]
    /\ spent = [s \in Peers |-> Unused]
    /\ excused = [s \in Peers |-> 0]

-----------------------------------------------------------------------------
(* What an operator does.  A row is replaced: flag and counters are gone.   *)

Excuse(s) == excused' = [excused EXCEPT ![s] = @ + 1] /\ UNCHANGED spent

SetTrustLevel(s, level) ==
    /\ excused[s] < MaxExcused
    /\ trust' = [trust EXCEPT ![s] = NewRow(level)]
    /\ Excuse(s)
    /\ UNCHANGED <<blacklist, violations, gossip, now>>

AddToQuarantine(s) ==
    /\ excused[s] < MaxExcused
    /\ trust' = [trust EXCEPT ![s] = [NewRow(Quarantine) EXCEPT
                     !.until = QuarantineEnd, !.day = Today]]
    /\ Excuse(s)
    /\ UNCHANGED <<blacklist, violations, gossip, now>>

Unblock(s) ==
    /\ trust' = [trust EXCEPT ![s].blocked = FALSE]
    /\ blacklist' = blacklist \ {s}
    /\ UNCHANGED <<violations, gossip, history, now>>

-----------------------------------------------------------------------------
(* Blocks, violations and the end of a quarantine.                          *)

IsBlocked(s) == IF trust[s].stored THEN trust[s].blocked ELSE s \in blacklist

Block(s) ==
    /\ trust' = [trust EXCEPT ![s].blocked = trust[s].stored]
    /\ blacklist' = blacklist \union {s}

InQuarantine(s) == trust[s].level = Quarantine /\ now < trust[s].until

\* The row goes through add_to_quarantine() and comes back unblocked.
ResetQuarantine_mut(s) ==
    trust' = [trust EXCEPT ![s] = [NewRow(Quarantine) EXCEPT
                  !.until = QuarantineEnd, !.day = Today]]

ResetQuarantine(s) ==
    trust' = [trust EXCEPT ![s].until = QuarantineEnd, ![s].day = Today,
                           ![s].used = Unused]

CountViolation(s) ==
    /\ violations[s] < MaxViolations
    /\ violations' = [violations EXCEPT ![s] = @ + 1]

RateViolation(s) ==
    /\ CountViolation(s)
    /\ IF InQuarantine(s) THEN ResetQuarantine(s) /\ Excuse(s)
                          ELSE UNCHANGED <<trust, history>>

\* record_violation(); "other" is a malformed message or spam.
RecordViolation(s, type) ==
    /\ \/ type = "invalid_signature" /\ CountViolation(s) /\ Block(s) /\ UNCHANGED history
       \/ type = "rate_limit" /\ RateViolation(s) /\ UNCHANGED blacklist
       \/ type = "other" /\ CountViolation(s) /\ UNCHANGED <<trust, blacklist, history>>
    /\ UNCHANGED <<gossip, now>>

BlockServer(s) == Block(s) /\ UNCHANGED <<violations, gossip, history, now>>

\* Violations of this date only.
Clean_mut(s) == excused[s] = 0
Clean(s) == violations[s] = 0

PromoteFromQuarantine(s) ==
    /\ trust[s].level = Quarantine
    /\ trust[s].until # 0 /\ now >= trust[s].until
    /\ trust' = [trust EXCEPT ![s] =
                     IF Clean(s) THEN [@ EXCEPT !.level = Trusted]
                                 ELSE [@ EXCEPT !.until = QuarantineEnd]]
    /\ UNCHANGED <<blacklist, violations, gossip, history, now>>

-----------------------------------------------------------------------------
(* check_and_increment(): the counters are those of one date.               *)

Used(s, a) == IF trust[s].day = Today THEN trust[s].used[a] ELSE 0

Allowed(s, a) == \/ trust[s].level >= Trusted
                 \/ trust[s].level = Quarantine /\ Used(s, a) < Limit[a]

\* The date is not stored with the counters.
Grant_mut(s, a) ==
    /\ trust' = [trust EXCEPT ![s].used =
                     [b \in Actions |-> IF b = a THEN Used(s, b) + 1 ELSE Used(s, b)]]
    /\ spent' = [spent EXCEPT ![s][a] = @ + 1]
    /\ UNCHANGED <<violations, excused>>

Grant(s, a) ==
    /\ trust' = [trust EXCEPT ![s].day = Today, ![s].used =
                     [b \in Actions |-> IF b = a THEN Used(s, b) + 1 ELSE Used(s, b)]]
    /\ spent' = [spent EXCEPT ![s][a] = @ + 1]
    /\ UNCHANGED <<violations, excused>>

CheckAndIncrement(s, a) ==
    /\ \/ trust[s].level # Quarantine /\ UNCHANGED <<trust, violations, history>>
       \/ trust[s].level = Quarantine /\ Allowed(s, a) /\ Grant(s, a)
       \/ trust[s].level = Quarantine /\ ~Allowed(s, a) /\ RateViolation(s)
    /\ UNCHANGED <<blacklist, now>>

\* A client of server s registers; also what sync_with_server() does before
\* it returns its stub's answer, with "gossip_out".
AskLeave(s, a) ==
    /\ a \in {"registration", "gossip_out"}
    /\ CheckAndIncrement(s, a)
    /\ UNCHANGED gossip

-----------------------------------------------------------------------------
(* Gossip.                                                                  *)

Sendable == {s \in Peers : trust[s].stored /\ trust[s].level >= Quarantine
                                           /\ ~trust[s].blocked}

\* Bound: one broadcast at a time has tasks that have not run.
BroadcastChange ==
    /\ outbox = {} /\ Sendable # {}
    /\ outbox' = Sendable
    /\ UNCHANGED <<trust, blacklist, violations, nonces, mail, applied, history, now>>

SendToServer(s) ==
    /\ s \in outbox
    /\ outbox' = outbox \ {s}
    /\ CheckAndIncrement(s, "gossip_out")
    /\ UNCHANGED <<nonces, mail, applied>>

PeerSends(s, n) ==
    /\ \A m \in mail : m.id # n
    /\ mail' = mail \union {[id |-> n, from |-> s, sent |-> now]}
    /\ UNCHANGED <<trust, blacklist, violations, nonces, outbox, applied, history, now>>

\* The nonce is looked up and not kept.
UseNonce_mut(m) == m.id \notin nonces /\ UNCHANGED nonces
UseNonce(m) == m.id \notin nonces /\ nonces' = nonces \union {m.id}

Verified(m) == now <= m.sent + MessageLife /\ m.from \in KnownKeys

\* A server that is not in quarantine has no limit, an unknown one neither.
Admitted(m) == Verified(m) /\ (trust[m.from].level # Quarantine
                                 \/ Allowed(m.from, "gossip_in"))

HandleGossipMessage(m) ==
    /\ UseNonce(m)
    /\ IF Verified(m)
       THEN CheckAndIncrement(m.from, "gossip_in")
       ELSE UNCHANGED <<trust, blacklist, violations, history, now>>
    /\ applied' = [applied EXCEPT ![m.id] = IF Admitted(m) THEN @ + 1 ELSE @]
    /\ UNCHANGED <<mail, outbox>>

\* The process ends and starts again: tables stay, memory is empty.
TrustRestart ==
    /\ nonces' = {} /\ outbox' = {} /\ applied' = [n \in Nonces |-> 0]
    /\ UNCHANGED <<trust, blacklist, violations, mail, history, now>>

TrustTick ==
    /\ Tick
    /\ IF now' \div Day = now \div Day
       THEN UNCHANGED history
       ELSE spent' = [s \in Peers |-> Unused] /\ excused' = [s \in Peers |-> 0]
    /\ UNCHANGED <<trust, blacklist, violations, gossip>>

Operate(s) ==
    \/ \E level \in Levels : SetTrustLevel(s, level)
    \/ AddToQuarantine(s)
    \/ Unblock(s)

TrustNext ==
    \/ \E s \in Peers :
          \/ Operate(s)
          \/ BlockServer(s)
          \/ \E type \in {"invalid_signature", "rate_limit", "other"} : RecordViolation(s, type)
          \/ PromoteFromQuarantine(s)
          \/ \E a \in Actions : AskLeave(s, a)
          \/ SendToServer(s)
          \/ \E n \in Nonces : PeerSends(s, n)
    \/ BroadcastChange
    \/ \E m \in mail : HandleGossipMessage(m)
    \/ TrustRestart
    \/ TrustTick

TrustSpec == TrustInit /\ now = 0 /\ [][TrustNext]_<<trustVars, now>>

-----------------------------------------------------------------------------
(* Properties.                                                              *)

TrustTypeOK ==
    /\ now \in 0..MaxNow
    /\ trust \in [Peers -> Rows]
    /\ blacklist \subseteq Peers /\ outbox \subseteq Peers
    /\ violations \in [Peers -> 0..MaxViolations]
    /\ nonces \subseteq Nonces /\ mail \subseteq Gossip
    /\ applied \in [Nonces -> Nat]
    /\ spent \in [Peers -> [Actions -> Nat]]
    /\ excused \in [Peers -> Nat]

\* On one date a server in quarantine is granted its limit, and its limit
\* again only for an allowance it was given back: by a recorded offence,
\* which also starts its quarantine anew, or by an operator.  The counters
\* live in a row that is updated, replaced and reset on a new date.
AllowancePaid ==
    \A s \in Peers, a \in Actions : spent[s][a] <= Limit[a] * (1 + excused[s])

\* Traffic never lifts a block: neither an offence of a blocked server, nor
\* the end of its quarantine, nor a new date; only an operator does.
BlockOutlivesTraffic ==
    [][\A s \in Peers : IsBlocked(s) /\ ~IsBlocked(s)' => Operate(s)]_<<trustVars, now>>

\* A server that ever offended is not trusted automatically, however long
\* ago that was and however often its quarantine has begun anew since.
OffenderStaysOut ==
    [][\A s \in Peers :
           (trust[s].level = Quarantine /\ trust'[s].level = Trusted /\ violations[s] > 0)
               => Operate(s)]_<<trustVars, now>>

\* However often a gossip message is delivered, a process applies it once.
GossipOnce == \A n \in Nonces : applied[n] <= 1
=============================================================================
