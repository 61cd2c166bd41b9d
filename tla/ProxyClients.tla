---------------------------- MODULE ProxyClients ----------------------------
(***************************************************************************)
(* The HTTP proxy of a server: ClientManager, which keeps invites and      *)
(* clients in two tables, the owner's endpoints over it, and ProxyServer,  *)
(* which charges a client for what goes through.                           *)
(*                                                                         *)
(* A request is asked twice for its client, before and after its body is   *)
(* read, and charged twice, for its body before it goes upstream and for   *)
(* the answer when that is there; the steps of several requests and of the *)
(* owner interleave at those awaits.  Traffic is counted in units, an      *)
(* answer has at most MaxAnswer of them (the cap on its size).  Names, QR  *)
(* codes, traffic_total and statistics are left out; so are the settings   *)
(* that nothing reads: default_group, default_daily_limit, proxy_enabled.  *)
(* Redeeming an invite may be cut short between its two statements.        *)
(***************************************************************************)
EXTENDS ServerClock, FiniteSets

CONSTANTS
    People,      \* public ids of the accounts of this server
    Tokens,      \* bound: invites
    ClientIds,   \* bound: client ids
    Requests,    \* bound: requests in progress
    InviteLife,  \* expires_in of a basic invite
    Month,       \* a month in ticks
    BasicLimit, StandardLimit,  \* daily_limit of the two groups
    OwnLimits,   \* limits an owner sets
    MaxAnswer,   \* PROXY_MAX_RESPONSE_SIZE_MB
    Rooms,       \* values of max_clients
    MaxActs,     \* bound: what the owner does with clients and settings
    MaxToday     \* bound: traffic of a client

ASSUME ProxyAssumption ==
    /\ Month \in Nat \ {0}
    /\ {InviteLife, BasicLimit, StandardLimit, MaxAnswer, MaxActs, MaxToday} \subseteq Nat
    /\ OwnLimits \subseteq Nat
    /\ IsFiniteSet(Requests)
    /\ Rooms \subseteq Nat /\ Rooms # {}

VARIABLES
    tokens,     \* proxy_invites, by token
    clients,    \* proxy_clients, by client id
    maxClients, \* max_clients of proxy_settings
    requests,   \* handle_proxy_request() in progress
    issued,     \* history: the redeemed invites
    acts        \* history: what the owner has done

proxyVars == <<tokens, clients, maxClients, requests, issued, acts>>

Groups == {"basic", "standard", "privileged"}
Never == 0        \* expires_at is NULL
Unlimited == [none |-> TRUE, n |-> 0]
LimitOf(n) == [none |-> FALSE, n |-> n]
DailyLimits == [none : BOOLEAN, n : Nat]
GroupLimit(g) == CASE g = "basic" -> LimitOf(BasicLimit)
                   [] g = "standard" -> LimitOf(StandardLimit)
                   [] g = "privileged" -> Unlimited

TokenRow == [group : Groups, limit : DailyLimits, expires : Nat, used : BOOLEAN]

\* "most" is history: the highest limit since the client was admitted.
ClientRow == [owner : People, limit : DailyLimits, expires : Nat,
              today : Nat, most : DailyLimits]

\* "reading": has_permission() was true; "upstream": it has been charged.
RequestState == [stage : {"reading", "upstream"}, client : ClientIds]

With(f, x, row) == [y \in DOMAIN f \union {x} |-> IF y = x THEN row ELSE f[y]]
Only(f, S) == [y \in DOMAIN f \intersect S |-> f[y]]
NoRows == [x \in {} |-> 0]

ProxyInit ==
    /\ tokens = NoRows /\ clients = NoRows /\ requests = NoRows
    /\ maxClients \in Rooms
    /\ issued = {} /\ acts = 0

\* The end of the month before.
MonthEnd_mut == (now \div Month) * Month - 1
MonthEnd == (1 + now \div Month) * Month - 1

OwnerActs == acts < MaxActs /\ acts' = acts + 1

-----------------------------------------------------------------------------
(* Invites.                                                                 *)

\* A token is random and never comes twice.  Only a basic invite has an end;
\* the others store 0.
GenerateInvite(t, group, limit) ==
    /\ t \notin DOMAIN tokens /\ \A i \in issued : i.token # t
    /\ limit \in {GroupLimit(group)} \union {LimitOf(n) : n \in OwnLimits}
    /\ tokens' = With(tokens, t,
                      [group |-> group, limit |-> limit, used |-> FALSE,
                       expires |-> IF group = "basic" THEN now + InviteLife ELSE Never])
    /\ UNCHANGED <<clients, maxClients, requests, issued, acts, now>>

Redeemable(t) ==
    /\ ~tokens[t].used
    /\ tokens[t].expires = Never \/ now <= tokens[t].expires

ExpiryOf(t) == CASE tokens[t].group = "privileged" -> Never
                 [] tokens[t].group = "standard" -> MonthEnd
                 [] tokens[t].group = "basic" -> tokens[t].expires

\* Column public_id is UNIQUE: a second row of a person is not inserted.
NoClientYet(p) == \A c \in DOMAIN clients : clients[c].owner # p

\* Only the invites that have an end are marked.
MarkUsed_mut(t) == tokens' = [tokens EXCEPT ![t].used = tokens[t].expires # Never]
MarkUsed(t) == tokens' = [tokens EXCEPT ![t].used = TRUE]

\* "cut": the process ends between the two statements, and with it the
\* requests in progress.
AddClient(t, p, c, cut) ==
    /\ \A i \in issued : i.client # c
    /\ Redeemable(t) /\ NoClientYet(p)
    /\ Cardinality(DOMAIN clients) < maxClients
    /\ clients' = With(clients, c,
                       [owner |-> p, limit |-> tokens[t].limit, most |-> tokens[t].limit,
                        expires |-> ExpiryOf(t), today |-> 0])
    /\ IF cut THEN UNCHANGED tokens /\ requests' = NoRows
              ELSE MarkUsed(t) /\ UNCHANGED requests
    /\ issued' = issued \union {[client |-> c, token |-> t, cut |-> cut]}
    /\ UNCHANGED <<maxClients, acts, now>>

-----------------------------------------------------------------------------
(* What the owner does with clients and settings.                           *)

Higher(a, b) == IF a.none \/ (~b.none /\ a.n >= b.n) THEN a ELSE b
WithLimit(row, limit) == [row EXCEPT !.limit = limit, !.most = Higher(@, limit)]

\* A client that becomes basic keeps limit and end as they are.
Regrouped(row, group) ==
    CASE group = "privileged" -> [WithLimit(row, Unlimited) EXCEPT !.expires = Never]
      [] group = "standard" -> [WithLimit(row, GroupLimit(group)) EXCEPT !.expires = MonthEnd]
      [] group = "basic" -> row

\* A call that sets several fields does what the calls for each would do.
UpdateClient(c) ==
    /\ OwnerActs
    /\ \E row \in {Regrouped(clients[c], g) : g \in Groups}
                    \union {WithLimit(clients[c], LimitOf(n)) : n \in OwnLimits}
                    \union {[clients[c] EXCEPT !.expires = now + 1]} :
          clients' = [clients EXCEPT ![c] = row]
    /\ UNCHANGED <<tokens, maxClients, requests, issued, now>>

RevokeAccess(c) ==
    /\ OwnerActs
    /\ clients' = Only(clients, DOMAIN clients \ {c})
    /\ UNCHANGED <<tokens, maxClients, requests, issued, now>>

AccessOver(row) == row.expires # Never /\ row.expires < now

\* An invite without an end is deleted too: it stores 0.
CleanupExpiredClients ==
    /\ clients' = Only(clients, {c \in DOMAIN clients : ~AccessOver(clients[c])})
    /\ tokens' = Only(tokens, {t \in DOMAIN tokens : tokens[t].used \/ tokens[t].expires >= now})
    /\ UNCHANGED <<maxClients, requests, issued, acts, now>>

ResetDailyTraffic ==
    /\ OwnerActs
    /\ clients' = [c \in DOMAIN clients |-> [clients[c] EXCEPT !.today = 0]]
    /\ UNCHANGED <<tokens, maxClients, requests, issued, now>>

UpdateSettings ==
    /\ OwnerActs
    /\ maxClients' \in Rooms
    /\ UNCHANGED <<tokens, clients, requests, issued, now>>

-----------------------------------------------------------------------------
(* A request.                                                               *)

HasPermission(c) ==
    /\ ~AccessOver(clients[c])
    /\ clients[c].limit.none \/ clients[c].today < clients[c].limit.n

StartRequest(r, c) ==
    /\ r \notin DOMAIN requests /\ HasPermission(c)
    /\ requests' = With(requests, r, [stage |-> "reading", client |-> c])
    /\ UNCHANGED <<tokens, clients, maxClients, issued, acts, now>>

\* What has_permission() found is taken to hold still.
WithinLimit_mut(c, n) == c \in DOMAIN clients
WithinLimit(c, n) ==
    /\ c \in DOMAIN clients
    /\ clients[c].limit.none \/ clients[c].today + n <= clients[c].limit.n

\* add_traffic(): a client that is gone is not charged.
Charge(c, n) ==
    /\ c \in DOMAIN clients => clients[c].today + n <= MaxToday
    /\ clients' = [d \in DOMAIN clients |->
                      [clients[d] EXCEPT !.today = IF d = c THEN @ + n ELSE @]]

Forward(r, body) ==
    /\ requests[r].stage = "reading"
    /\ WithinLimit(requests[r].client, body)
    /\ Charge(requests[r].client, body)
    /\ requests' = [requests EXCEPT ![r].stage = "upstream"]
    /\ UNCHANGED <<tokens, maxClients, issued, acts, now>>

Answered(r, n) ==
    /\ requests[r].stage = "upstream"
    /\ Charge(requests[r].client, n)
    /\ requests' = Only(requests, DOMAIN requests \ {r})
    /\ UNCHANGED <<tokens, maxClients, issued, acts, now>>

\* Refused, malformed, timed out, too large, or the connection is lost.
Failed(r) ==
    /\ requests' = Only(requests, DOMAIN requests \ {r})
    /\ UNCHANGED <<tokens, clients, maxClients, issued, acts, now>>

ProxyTick == Tick /\ UNCHANGED proxyVars

Owner ==
    \/ \E c \in DOMAIN clients : UpdateClient(c) \/ RevokeAccess(c)
    \/ ResetDailyTraffic
    \/ UpdateSettings

ProxyNext ==
    \/ \E t \in Tokens, group \in Groups :
          \E limit \in {GroupLimit(g) : g \in Groups} \union {LimitOf(n) : n \in OwnLimits} :
              GenerateInvite(t, group, limit)
    \/ \E t \in DOMAIN tokens, p \in People, c \in ClientIds, cut \in BOOLEAN :
          AddClient(t, p, c, cut)
    \/ Owner
    \/ \E r \in Requests, c \in DOMAIN clients : StartRequest(r, c)
    \/ \E r \in DOMAIN requests :
          \/ \E n \in 0..MaxAnswer : Forward(r, n) \/ Answered(r, n)
          \/ Failed(r)
    \/ CleanupExpiredClients
    \/ ProxyTick

ProxySpec == ProxyInit /\ now = 0 /\ [][ProxyNext]_<<proxyVars, now>>

-----------------------------------------------------------------------------
(* Properties.                                                              *)

AllRows(f, S, R) == DOMAIN f \subseteq S /\ \A x \in DOMAIN f : f[x] \in R

ProxyTypeOK ==
    /\ AllRows(tokens, Tokens, TokenRow)
    /\ AllRows(clients, ClientIds, ClientRow)
    /\ AllRows(requests, Requests, RequestState)
    /\ maxClients \in Rooms
    /\ issued \subseteq [client : ClientIds, token : Tokens, cut : BOOLEAN]
    /\ acts \in Nat

Upstream(c) ==
    {r \in DOMAIN requests : requests[r].stage = "upstream" /\ requests[r].client = c}

\* A client exceeds the limits it has had by no more than the answers of the
\* requests that were under way together, although answers are charged
\* without a check and requests pass theirs at different times.
OvershootBounded ==
    \A c \in DOMAIN clients :
        \/ clients[c].most.none
        \/ clients[c].today + MaxAnswer * Cardinality(Upstream(c))
               <= clients[c].most.n + MaxAnswer * Cardinality(Requests)

\* An invite admits one client, whoever redeems it and whatever becomes of
\* that client; only a redemption that was cut short leaves it open.
InviteOnce ==
    \A i, j \in issued : i.token = j.token /\ ~i.cut => i = j \/ j.cut
=============================================================================
