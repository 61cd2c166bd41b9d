------------------------------ MODULE Accounts ------------------------------
(***************************************************************************)
(* AccountManager, the sliding-window limiter it asks and RecoveryService, *)
(* with the endpoints over them.  An account is a row for a seed phrase    *)
(* and a role; a phrase that registers a server gets a client too while    *)
(* there is room.  Several processes share the tables; each has windows of *)
(* its own, of the limiter and of the recovery mails, in memory.           *)
(*                                                                         *)
(* A handler awaits nothing, so that a process runs one at a time.  Of a   *)
(* registration the checks are a step and so is every write, with the id   *)
(* drawn for it: other processes go between, and a write may fail or be    *)
(* the last thing the process does.  The other handlers are a step each.   *)
(* A password stands for its hash, a phrase for its hash.  Regions are     *)
(* left out: the rows of a phrase and a role share the public id of one    *)
(* region, and a second server of a phrase, which the table refuses in the *)
(* same region alone, may be refused or not.                               *)
(***************************************************************************)
EXTENDS ServerClock, FiniteSets

CONSTANTS
    AccountProcesses,    \* server processes on one database
    Phrases,             \* seed phrases
    Passwords,           \* passwords that are long enough
    NoPassword,          \* the empty one
    Addresses,           \* client_ip
    MailAddresses,
    MailIn,              \* extract_email_from_seed(): phrases that hold one
    MaxClientAccounts, MaxServerAccounts,
    MaxDraws,            \* max_attempts of an id
    RegistrationLimit, RegistrationPeriod,
    RecoveryLimit, RecoveryPeriod,
    LinkLife,            \* RECOVERY_TOKEN_TTL_SECONDS
    Links,               \* bound: recovery links
    MaxMails             \* bound: requests for one address in a tick

ASSUME AccountsAssumption ==
    /\ NoPassword \notin Passwords
    /\ MailIn \in [DOMAIN MailIn -> MailAddresses] /\ DOMAIN MailIn \subseteq Phrases
    /\ {MaxClientAccounts, MaxServerAccounts, MaxDraws, RegistrationLimit,
        RegistrationPeriod, RecoveryLimit, RecoveryPeriod, LinkLife, MaxMails} \subseteq Nat

VARIABLES
    accounts,     \* table accounts
    links,        \* table recovery_tokens
    registering,  \* register() in a process: none, or what it has still to do
    stamps,       \* _counters of a process for an address: how many in a tick
    attempts,     \* _recovery_attempts, likewise
    admitted,     \* history: registrations a process has counted since it began
    mailed,       \* history: attempts that it has counted
    refused,      \* history: valid links that were turned down
    overlapped    \* history: phrases that two processes registered at a time

accountVars == <<accounts, links, registering, stamps, attempts, admitted, mailed, refused,
                 overlapped>>

Roles == {"client", "server"}
Draws == 0..(MaxDraws - 1)
Ids == [phrase : Phrases, role : Roles, draw : Draws]
Account == [phrase : Phrases, role : Roles, draw : Draws, password : Passwords, mail : BOOLEAN]
Link == [id : Links, of : Ids, expires : Nat]
\* "next" is the row to insert, if any; "rows" are the ids of those inserted.
Registration == [phrase : Phrases, password : Passwords, server : BOOLEAN, address : Addresses,
            next : Roles \union {"done"}, rows : SUBSET Ids]

\* A process and whose events it counts.
Clients == AccountProcesses \X Addresses
Mailboxes == AccountProcesses \X MailAddresses
Ticks == 0..MaxNow
Windows(S) == [S -> [Ticks -> Nat]]
Quiet == [t \in Ticks |-> 0]

AccountsInit ==
    /\ accounts = {} /\ links = {} /\ refused = {} /\ overlapped = {}
    /\ registering = [p \in AccountProcesses |-> {}]
    /\ stamps = [c \in Clients |-> Quiet] /\ admitted = stamps
    /\ attempts = [m \in Mailboxes |-> Quiet] /\ mailed = attempts

-----------------------------------------------------------------------------
(* The sliding window: a time that is as old as the period still counts.    *)

Recent_mut(window, period) == [t \in Ticks |-> IF t + period > now THEN window[t] ELSE 0]
Recent(window, period) == [t \in Ticks |-> IF t + period >= now THEN window[t] ELSE 0]

\* The times that the list holds, those of a tick told apart by a number.
Stamps(window) == UNION {{t} \X (1..window[t]) : t \in DOMAIN window}
Total(window) == Cardinality(Stamps(window))

Check(window, limit, period) == Total(Recent(window, period)) < limit
Stamped(window, period) == [Recent(window, period) EXCEPT ![now] = @ + 1]

-----------------------------------------------------------------------------
Of(role) == {x \in accounts : x.role = role}
Id(x) == [phrase |-> x.phrase, role |-> x.role, draw |-> x.draw]
Waiting(p) == registering[p] = {}

\* A phrase is known when it has an account of the role.
MayRegister_mut(phrase, server, client) ==
    /\ \A x \in accounts : x.phrase # phrase \/ (x.role = "server") # server
    /\ Check(stamps[client], RegistrationLimit, RegistrationPeriod)
    /\ IF server THEN Cardinality(Of("server")) < MaxServerAccounts
                 ELSE Cardinality(Of("client")) < MaxClientAccounts

MayRegister(phrase, server, client) ==
    /\ \A x \in accounts : x.phrase # phrase
    /\ Check(stamps[client], RegistrationLimit, RegistrationPeriod)
    /\ IF server THEN Cardinality(Of("server")) < MaxServerAccounts
                 ELSE Cardinality(Of("client")) < MaxClientAccounts

\* The checks of a registration.
AccountRegister(p, phrase, password, server, address) ==
    /\ Waiting(p)
    /\ MayRegister(phrase, server, <<p, address>>)
    /\ registering' = [registering EXCEPT ![p] =
          {[phrase |-> phrase, password |-> password, server |-> server, address |-> address,
            next |-> IF server THEN "server" ELSE "client", rows |-> {}]}]
    /\ overlapped' = overlapped \union
          {f \in {phrase} : \E q \in AccountProcesses : \E r \in registering[q] : r.phrase = f}
    /\ UNCHANGED <<accounts, links, stamps, attempts, admitted, mailed, refused, now>>

\* The first id that no row has; when all are taken register() raises.
Drawn(phrase, role) ==
    {i \in [phrase : {phrase}, role : {role}, draw : Draws] :
        /\ \A x \in accounts : Id(x) # i
        /\ \A n \in 0..(i.draw - 1) : \E x \in accounts : Id(x) = [i EXCEPT !.draw = n]}

Row(i, password) == [phrase |-> i.phrase, role |-> i.role, draw |-> i.draw,
                     password |-> password, mail |-> FALSE]

GoOnWith(p, r, next, rows) ==
    registering' = [registering EXCEPT ![p] = {[r EXCEPT !.next = next, !.rows = rows]}]

InsertServer(p) ==
    \E r \in registering[p] : \E i \in Drawn(r.phrase, "server") :
        /\ r.next = "server"
        /\ accounts' = accounts \union {Row(i, r.password)}
        /\ GoOnWith(p, r, "client", {i})
        /\ UNCHANGED <<links, stamps, attempts, admitted, mailed, refused, overlapped, now>>

\* A server that registers is not counted.
CountRegistration_mut(server, client) ==
    stamps' = [stamps EXCEPT ![client] =
                  IF server THEN @ ELSE Stamped(@, RegistrationPeriod)]
CountRegistration(server, client) ==
    stamps' = [stamps EXCEPT ![client] = Stamped(@, RegistrationPeriod)]

\* The client of a server is for the room there is left.
Skips(r) == r.server /\ Cardinality(Of("client")) >= MaxClientAccounts

InsertClient(p) ==
    \E r \in registering[p] :
        /\ r.next = "client"
        /\ IF Skips(r)
           THEN GoOnWith(p, r, "done", r.rows) /\ UNCHANGED accounts
           ELSE \E i \in Drawn(r.phrase, "client") :
                   /\ accounts' = accounts \union {Row(i, r.password)}
                   /\ GoOnWith(p, r, "done", r.rows \union {i})
        /\ CountRegistration(r.server, <<p, r.address>>)
        /\ admitted' = [admitted EXCEPT ![<<p, r.address>>][now] = @ + 1]
        /\ UNCHANGED <<links, attempts, mailed, refused, overlapped, now>>

\* setup_recovery(): the mail address goes to the account that the result
\* names, that of the server when the phrase registers both.
Mailed(r) == {i \in r.rows : (i.role = "server") = r.server /\ r.phrase \in DOMAIN MailIn}
WithMail(r) == {IF Id(x) \in Mailed(r) THEN [x EXCEPT !.mail = TRUE] ELSE x : x \in accounts}

FinishRegistration(p) ==
    \E r \in registering[p] :
        /\ r.next = "done"
        /\ accounts' = WithMail(r)
        /\ registering' = [registering EXCEPT ![p] = {}]
        /\ UNCHANGED <<links, stamps, attempts, admitted, mailed, refused, overlapped, now>>

\* A write raises: the database is locked, or another process has taken the
\* id since it was drawn, or the server's.  What was written stays: a phrase
\* with a server can never register its client.
RegisterFails(p) ==
    /\ ~Waiting(p)
    /\ registering' = [registering EXCEPT ![p] = {}]
    /\ UNCHANGED <<accounts, links, stamps, attempts, admitted, mailed, refused, overlapped, now>>

\* What a process that begins has in memory.
Cleared(p, windows) == [c \in DOMAIN windows |-> IF c[1] = p THEN Quiet ELSE windows[c]]

AccountRestart(p) ==
    /\ registering' = [registering EXCEPT ![p] = {}]
    /\ stamps' = Cleared(p, stamps) /\ admitted' = Cleared(p, admitted)
    /\ attempts' = Cleared(p, attempts) /\ mailed' = Cleared(p, mailed)
    /\ UNCHANGED <<accounts, links, refused, overlapped, now>>

\* The other account of the phrase keeps its password.
WithPassword(x, password) == (accounts \ {x}) \union {[x EXCEPT !.password = password]}

ChangePassword(x, old, new) ==
    /\ x.password = old
    /\ accounts' = WithPassword(x, new)
    /\ UNCHANGED <<links, registering, stamps, attempts, admitted, mailed, refused, overlapped, now>>

-----------------------------------------------------------------------------
(* Recovery.                                                                *)

Reachable(e) == {x \in accounts : x.mail /\ MailIn[x.phrase] = e}

\* Attempts are counted whether the address is known or not.
CountAttempt_mut(e, m) == attempts' = [attempts EXCEPT ![m] =
    IF Reachable(e) = {} THEN @ ELSE Stamped(@, RecoveryPeriod)]
CountAttempt(e, m) == attempts' = [attempts EXCEPT ![m] = Stamped(@, RecoveryPeriod)]

\* One of the accounts with this address gets the link.
RequestRecovery(e, m, id) ==
    /\ Check(attempts[m], RecoveryLimit, RecoveryPeriod)
    /\ mailed[m][now] < MaxMails /\ \A l \in links : l.id # id
    /\ CountAttempt(e, m)
    /\ mailed' = [mailed EXCEPT ![m][now] = @ + 1]
    /\ IF Reachable(e) = {}
       THEN UNCHANGED links
       ELSE \E x \in Reachable(e) :
               links' = links \union {[id |-> id, of |-> Id(x), expires |-> now + LinkLife]}
    /\ UNCHANGED <<accounts, registering, stamps, admitted, refused, overlapped, now>>

LinkValid(l) == l.expires > now
Holder(l) == CHOOSE x \in accounts : Id(x) = l.of

\* change_password() is given the empty password as the old one.
ResetPassword(l, password) ==
    /\ LinkValid(l)
    /\ IF Holder(l).password = NoPassword
       THEN /\ accounts' = WithPassword(Holder(l), password)
            /\ links' = links \ {l}
            /\ UNCHANGED refused
       ELSE refused' = refused \union {l.id} /\ UNCHANGED <<accounts, links>>
    /\ UNCHANGED <<registering, stamps, attempts, admitted, mailed, overlapped, now>>

CleanupExpiredTokens ==
    /\ links' = {l \in links : LinkValid(l)}
    /\ UNCHANGED <<accounts, registering, stamps, attempts, admitted, mailed, refused, overlapped, now>>

AccountTick == Tick /\ UNCHANGED accountVars

AccountsNext ==
    \/ \E p \in AccountProcesses :
          \/ \E phrase \in Phrases, password \in Passwords, server \in BOOLEAN,
                address \in Addresses : AccountRegister(p, phrase, password, server, address)
          \/ InsertServer(p)
          \/ InsertClient(p)
          \/ FinishRegistration(p)
          \/ RegisterFails(p)
          \/ AccountRestart(p)
          \/ /\ Waiting(p)
             /\ \/ \E x \in accounts, old, new \in Passwords : ChangePassword(x, old, new)
                \/ \E e \in MailAddresses, id \in Links : RequestRecovery(e, <<p, e>>, id)
                \/ \E l \in links, password \in Passwords : ResetPassword(l, password)
                \/ CleanupExpiredTokens
    \/ AccountTick

AccountsSpec == AccountsInit /\ now = 0 /\ [][AccountsNext]_<<accountVars, now>>

-----------------------------------------------------------------------------
(* Properties.                                                              *)

AccountsTypeOK ==
    /\ accounts \subseteq Account /\ links \subseteq Link
    /\ refused \subseteq Links /\ overlapped \subseteq Phrases
    /\ registering \in [AccountProcesses -> SUBSET Registration]
    /\ \A p \in AccountProcesses : \A r, s \in registering[p] : r = s
    /\ stamps \in Windows(Clients) /\ admitted \in Windows(Clients)
    /\ attempts \in Windows(Mailboxes) /\ mailed \in Windows(Mailboxes)

Within(window, t, period) ==
    Total([u \in Ticks \intersect t..(t + period) |-> window[u]])

\* In no window of its period, which may as well begin with an event, does
\* one process register more than the limit from an address or mail more than
\* the limit to one; times that leave the window are dropped at every use.
WindowsLimited ==
    \A t \in Ticks :
        /\ \A c \in Clients :
              admitted[c][t] > 0 => Within(admitted[c], t, RegistrationPeriod) <= RegistrationLimit
        /\ \A m \in Mailboxes :
              mailed[m][t] > 0 => Within(mailed[m], t, RecoveryPeriod) <= RecoveryLimit

\* A phrase has two rows of a role only when two processes were registering it
\* at a time, between the check of seed_hash and the INSERT: no failure or end
\* of a process between the rows of a server, and no registration after it,
\* gives it a second one.
PhraseRegistersOnce ==
    \A x, y \in accounts :
        x.phrase = y.phrase /\ x.role = y.role => x = y \/ x.phrase \in overlapped

\* "Меняем пароль": a link that is valid changes the password.
ResetChangesPassword == refused = {}
=============================================================================
