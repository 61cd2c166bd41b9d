----------------------------- MODULE Processes -----------------------------
(***************************************************************************)
(* The child processes of the server: the extra web clients of             *)
(* MultiClientManager, each on a port of its own, and the rendezvous       *)
(* server of RendezvousManager, which a thread starts and waits for.       *)
(*                                                                         *)
(* Nothing is awaited under the lock of MultiClientManager, so the lock is *)
(* never waited for: deletion with the stop it calls is one step, and the  *)
(* task that starts a new client has run before its id reaches anybody.    *)
(* start() and stop() of RendezvousManager block the event loop and        *)
(* interleave with its threads only.  A process that ends leaves its       *)
(* children behind and its successor does not know them; one process is    *)
(* modelled.  Heartbeats are written and read by no code that runs.        *)
(***************************************************************************)
EXTENDS Naturals, FiniteSets

CONSTANTS
    WebClients,       \* client ids
    MaxWebClients,    \* MAX_CLIENTS
    Runners           \* bound: threads of RendezvousManager

ASSUME ProcessesAssumption == MaxWebClients \in Nat

VARIABLES
    configs,      \* _clients: the port and status of an id, or Unlisted
    ports,        \* _port_allocations: the client of a port, or {}
    children,     \* clients whose process lives
    runner,       \* what a thread does in _run_server()
    thread,       \* _thread, or {}
    process,      \* _process, or {}: the thread that started it stands for it
    started,      \* _running
    serving       \* rendezvous servers that live

webVars == <<configs, ports, children>>
managerVars == <<runner, thread, process, started, serving>>
processVars == <<webVars, managerVars>>

Unlisted == [port |-> 0, status |-> "none"]
Listed == {i \in WebClients : configs[i] # Unlisted}

ProcessesInit ==
    /\ configs = [i \in WebClients |-> Unlisted]
    /\ ports = [p \in 1..MaxWebClients |-> {}]
    /\ children = {}
    /\ runner = [r \in Runners |-> "ended"]
    /\ thread = {} /\ process = {} /\ serving = {}
    /\ started = FALSE

-----------------------------------------------------------------------------
(* MultiClientManager.                                                      *)

IsNextPort(p) == ports[p] = {} /\ \A q \in 1..(p - 1) : ports[q] # {}

\* create_client() and the task it schedules; Popen may fail.
CreateClient(i, starts) ==
    /\ i \notin Listed /\ Cardinality(Listed) < MaxWebClients
    /\ \E p \in 1..MaxWebClients :
          /\ IsNextPort(p)
          /\ configs' = [configs EXCEPT ![i] =
                            [port |-> p, status |-> IF starts THEN "running" ELSE "stopped"]]
          /\ ports' = [ports EXCEPT ![p] = {i}]
    /\ children' = IF starts THEN children \union {i} ELSE children
    /\ UNCHANGED managerVars

\* A client that was stopped is listed and keeps its port; none starts again.
StopClient(i) ==
    /\ i \in Listed /\ configs[i].status # "stopped"
    /\ configs' = [configs EXCEPT ![i].status = "stopped"]
    /\ children' = children \ {i}
    /\ UNCHANGED <<ports, managerVars>>

\* The process is not stopped.
DeleteClient_mut(i) ==
    /\ i \in Listed
    /\ ports' = [ports EXCEPT ![configs[i].port] = {}]
    /\ configs' = [configs EXCEPT ![i] = Unlisted]
    /\ UNCHANGED <<children, managerVars>>

DeleteClient(i) ==
    /\ i \in Listed
    /\ children' = children \ {i}
    /\ ports' = [ports EXCEPT ![configs[i].port] = {}]
    /\ configs' = [configs EXCEPT ![i] = Unlisted]
    /\ UNCHANGED managerVars

\* Nobody polls: the status stays "running".
ClientExits(i) ==
    /\ i \in children
    /\ children' = children \ {i}
    /\ UNCHANGED <<configs, ports, managerVars>>

-----------------------------------------------------------------------------
(* RendezvousManager.                                                       *)

ThreadAlive == \E r \in thread : runner[r] # "ended"

\* start_background(), which nothing calls, looks at the flag only.
MayStart_mut == ~started
MayStart == ~started /\ ~ThreadAlive

Start(r) ==
    /\ MayStart /\ runner[r] = "ended"
    /\ runner' = [runner EXCEPT ![r] = "begun"]
    /\ thread' = {r}
    /\ UNCHANGED <<process, started, serving, webVars>>

Spawn(r) ==
    /\ runner[r] = "begun"
    /\ runner' = [runner EXCEPT ![r] = "spawned"]
    /\ process' = {r} /\ serving' = serving \union {r}
    /\ UNCHANGED <<thread, started, webVars>>

SpawnFails(r) ==
    /\ runner[r] = "begun"
    /\ runner' = [runner EXCEPT ![r] = "ended"]
    /\ started' = FALSE
    /\ UNCHANGED <<thread, process, serving, webVars>>

Announce(r) ==
    /\ runner[r] = "spawned"
    /\ runner' = [runner EXCEPT ![r] = "waiting"]
    /\ started' = TRUE
    /\ UNCHANGED <<thread, process, serving, webVars>>

ServerExits(r) ==
    /\ r \in serving
    /\ serving' = serving \ {r}
    /\ UNCHANGED <<runner, thread, process, started, webVars>>

\* wait() has returned.
Reap(r) ==
    /\ runner[r] = "waiting" /\ r \notin serving
    /\ runner' = [runner EXCEPT ![r] = "ended"]
    /\ started' = FALSE
    /\ UNCHANGED <<thread, process, serving, webVars>>

\* Without effect until the thread has said that the server runs.
Stop ==
    /\ started /\ process # {}
    /\ started' = FALSE
    /\ serving' = serving \ process
    /\ UNCHANGED <<runner, thread, process, webVars>>

ProcessesNext ==
    \/ \E i \in WebClients :
          \/ \E starts \in BOOLEAN : CreateClient(i, starts)
          \/ StopClient(i)
          \/ DeleteClient(i)
          \/ ClientExits(i)
    \/ \E r \in Runners :
          \/ Start(r)
          \/ Spawn(r)
          \/ SpawnFails(r)
          \/ Announce(r)
          \/ ServerExits(r)
          \/ Reap(r)
    \/ Stop

ProcessesSpec == ProcessesInit /\ [][ProcessesNext]_processVars

-----------------------------------------------------------------------------
ProcessesTypeOK ==
    /\ configs \in [WebClients -> {Unlisted} \union
                       [port : 1..MaxWebClients, status : {"running", "stopped"}]]
    /\ ports \in [1..MaxWebClients -> SUBSET WebClients]
    /\ children \subseteq WebClients /\ serving \subseteq Runners
    /\ runner \in [Runners -> {"ended", "begun", "spawned", "waiting"}]
    /\ thread \subseteq Runners /\ process \subseteq Runners
    /\ started \in BOOLEAN

\* A web client that lives is on the list as running, so that its owner can
\* stop it, and the port it listens on is given to nobody else.
ClientsOwned ==
    \A i \in children :
        configs[i].status = "running" /\ ports[configs[i].port] = {i}

\* start() and stop() leave no second rendezvous server behind, in whatever
\* order the threads of earlier starts end: a server that lives is the one that
\* stop() ends, and the manager knows it runs or its thread is about to say so.
OneServer ==
    /\ serving \subseteq process
    /\ \A r \in serving : started \/ runner[r] = "spawned"
=============================================================================
