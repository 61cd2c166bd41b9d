----------------------------- MODULE Directory -----------------------------
(***************************************************************************)
(* How servers find each other: the rendezvous server (ServerStore behind  *)
(* its HTTP handlers), the RendezvousClient of one server, which keeps the *)
(* answers it got, and the two places that recommend servers from them:    *)
(* the WebSocket status answer and the load balancer.                      *)
(*                                                                         *)
(* All servers are of one region and register through clients of their     *)
(* own; the client modelled here is that of server Self.  A request may    *)
(* fail before the rendezvous server sees it or lose its reply.  Loads are *)
(* "light" (below 70), "busy" (up to 90) and "over".  Addresses, capacity  *)
(* and the checks of a public id are left out; so are the requests that    *)
(* those checks refuse.                                                    *)
(***************************************************************************)
EXTENDS ServerClock

CONSTANTS
    Servers,    \* public ids of servers of the region
    Self,       \* the server whose client is modelled
    NatServers, \* those of type "nat"; the others are validators
    ServerTTL,  \* SERVER_TTL_SECONDS
    CacheTTL,   \* cache_ttl of RendezvousClient
    Asked       \* bound: the queries that are made, of Queries

ASSUME DirectoryAssumption ==
    /\ Self \in Servers /\ NatServers \subseteq Servers
    /\ ServerTTL \in Nat \ {0} /\ CacheTTL \in Nat

VARIABLES
    store,   \* _servers of ServerStore
    cache,   \* _cache of RendezvousClient: one answer for each query
    behind,  \* history: the last reply to a change Self made was lost
    beat,    \* history: last registration or heartbeat of each server
    lost     \* history: went with the process and not heard of since

directoryVars == <<store, cache, behind, beat, lost>>

Loads == {"light", "busy", "over"}
Entry == [id : Servers, load : Loads, expires : Nat \ {0}]
Kinds == {"any", "validator", "nat"}
Queries == {<<"server", s>> : s \in Servers} \union {<<"region", k>> : k \in Kinds}
               \union {<<"region_load", "any">>}
Answers == [known : BOOLEAN, data : SUBSET Entry, at : Nat]
NoAnswer == [known |-> FALSE, data |-> {}, at |-> 0]

DirectoryInit ==
    /\ store = {}
    /\ cache = [q \in Queries |-> NoAnswer]
    /\ behind = FALSE
    /\ beat = [s \in Servers |-> 0]
    /\ lost = {}

-----------------------------------------------------------------------------
(* The rendezvous server.                                                   *)

IsActive(e) == now < e.expires
Put(e) == store' = {x \in store : x.id # e.id} \union {e}

\* A server is heard of.
HeardOf(s) == beat' = [beat EXCEPT ![s] = now] /\ lost' = lost \ {s}

\* register() replaces the entry: its load is 0 again.
Register(s) ==
    /\ Put([id |-> s, load |-> "light", expires |-> now + ServerTTL])
    /\ HeardOf(s)

\* heartbeat() revives an entry that has expired and is not cleaned up; a
\* request without load leaves the load, which is then one of Loads too.
Heartbeat(s, load) ==
    /\ \E e \in store : e.id = s
    /\ Put([id |-> s, load |-> load, expires |-> now + ServerTTL])
    /\ HeardOf(s)

OfKind(k) == CASE k = "nat" -> NatServers
               [] k = "validator" -> Servers \ NatServers
               [] k = "any" -> Servers

\* Expired entries are answered until they are cleaned up.
Active_mut == store
Active == {e \in store : IsActive(e)}

Answer(q) ==
    CASE q[1] = "server" -> {e \in Active : e.id = q[2]}
      [] q[1] = "region" -> {e \in Active : e.id \in OfKind(q[2])}
      [] q[1] = "region_load" -> {e \in Active : e.load # "over"}

Cleanup ==
    /\ store # Active
    /\ store' = Active
    /\ UNCHANGED <<cache, behind, beat, lost, now>>

RendezvousRestart ==
    /\ store' = {}
    /\ lost' = lost \union {e.id : e \in store}
    /\ UNCHANGED <<cache, behind, beat, now>>

\* Another server, through a client of its own.
OtherServer(s) ==
    /\ s # Self
    /\ Register(s) \/ \E load \in Loads : Heartbeat(s, load)
    /\ UNCHANGED <<cache, behind, now>>

-----------------------------------------------------------------------------
(* The client of Self.                                                      *)

\* An answer does not age.
Fresh_mut(q) == cache[q].known
Fresh(q) == cache[q].known /\ now - cache[q].at < CacheTTL

\* An answer without the server asked for is not kept; an empty list is.
Keeps(q) == q[1] = "server" => Answer(q) # {}

\* find_server_by_id() and the queries of a region, when the cache does not
\* answer: the entry that is too old is dropped first.
Ask(q, replied) ==
    /\ ~Fresh(q)
    /\ cache' = [cache EXCEPT ![q] =
                    IF replied /\ Keeps(q)
                    THEN [known |-> TRUE, data |-> Answer(q), at |-> now]
                    ELSE NoAnswer]
    /\ UNCHANGED <<store, behind, beat, lost, now>>

RegisterServer(replied) ==
    /\ Register(Self)
    /\ behind' = ~replied
    /\ cache' = IF replied THEN [q \in Queries |-> NoAnswer] ELSE cache
    /\ UNCHANGED now

\* Only region answers are dropped.
AfterHeartbeat_mut == [q \in Queries |-> IF q[1] = "server" THEN cache[q] ELSE NoAnswer]
AfterHeartbeat == [cache EXCEPT ![<<"server", Self>>] = NoAnswer]

SendHeartbeat(load, replied) ==
    /\ Heartbeat(Self, load)
    /\ behind' = ~replied
    /\ cache' = IF replied THEN AfterHeartbeat ELSE cache
    /\ UNCHANGED now

DirectoryTick == Tick /\ UNCHANGED directoryVars

DirectoryNext ==
    \/ \E s \in Servers : OtherServer(s)
    \/ \E q \in Queries \intersect Asked, replied \in BOOLEAN : Ask(q, replied)
    \/ \E replied \in BOOLEAN :
          RegisterServer(replied) \/ \E load \in Loads : SendHeartbeat(load, replied)
    \/ Cleanup
    \/ RendezvousRestart
    \/ DirectoryTick

DirectorySpec == DirectoryInit /\ now = 0 /\ [][DirectoryNext]_<<directoryVars, now>>

-----------------------------------------------------------------------------
(* What is answered: the contact search, _get_status_response() and         *)
(* get_recommended_servers(), which takes the lightly loaded others.        *)

Told(q) == IF Fresh(q) THEN cache[q].data ELSE {}

\* Found for a public id, or for the mask of a region: the servers are shown
\* offline, and a client is not looked for.
Search(q) == {[id |-> e.id, load |-> e.load, online |-> FALSE] : e \in Told(q)}
Recommended == {e \in Told(<<"region_load", "any">>) : e.id # Self /\ e.load = "light"}

DirectoryTypeOK ==
    /\ store \subseteq Entry
    /\ cache \in [Queries -> Answers]
    /\ behind \in BOOLEAN
    /\ beat \in [Servers -> Nat]
    /\ lost \subseteq Servers

\* No answer, cached or not, no search and no recommendation names a server
\* that has been silent for the two lifetimes together: that of a registration
\* and that of a cached answer.
ToldWereAlive ==
    \A q \in Queries : \A e \in Search(q) : now < beat[e.id] + ServerTTL + CacheTTL

\* Unless the reply to its last change was lost, what Self is told of itself
\* is what the rendezvous server has, or that has forgotten it since.
OwnEntryCurrent ==
    \A e \in cache[<<"server", Self>>].data :
        behind \/ e \in store \/ \A x \in store : x.id # Self

\* The rendezvous server's store is a table of leases that ends with its process
\* and from which nobody is released: a server stays listed for a lifetime after
\* its last registration or heartbeat, whatever is registered, cleaned up or asked
\* meanwhile, unless the process ends, and then all servers are gone.
ListedUntil(s) ==
    IF \E e \in store : e.id = s THEN (CHOOSE e \in store : e.id = s).expires ELSE 0
StoreLease == INSTANCE Leases WITH
    Holders <- Servers, Term <- ServerTTL, Releasable <- {}, Volatile <- TRUE,
    lease <- [s \in Servers |-> ListedUntil(s)], given <- lost
StoreLeases == StoreLease!Spec
=============================================================================
