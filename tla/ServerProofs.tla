-------------------------- MODULE ServerProofs ------------------------------
(*****************************************************************************)
(* What holds of a server's processes, its database, its proxy clients, the  *)
(* accounts with their rate limits and sessions, and the contacts, for any   *)
(* clients, peers, users, phrases, limits and periods.                       *)
(*****************************************************************************)
EXTENDS Processes, Registry, ProxyClients, Contacts, Sessions, FiniteSetTheorems, TLAPS

-----------------------------------------------------------------------------
(* Processes. *)

USE ProcessesAssumption

(* The types of the web clients and their ports. *)
PortsTyped ==
    /\ configs \in [WebClients -> {Unlisted} \union
                       [port : 1..MaxWebClients, status : {"running", "stopped"}]]
    /\ ports \in [1..MaxWebClients -> SUBSET WebClients]
    /\ children \subseteq WebClients

(* Whatever is listed has its port for itself, stopped or not. *)
PortsHeld == \A i \in Listed : ports[configs[i].port] = {i}

(* A client that lives is listed as running. *)
ChildrenRun == \A i \in children : configs[i].status = "running"

(* The inductive invariant of the web clients. *)
WebInv == PortsTyped /\ PortsHeld /\ ChildrenRun

LEMMA ListedConfig ==
  ASSUME WebInv, NEW i \in Listed
  PROVE  /\ i \in WebClients
         /\ configs[i] \in [port : 1..MaxWebClients, status : {"running", "stopped"}]
         /\ configs[i] # Unlisted
  BY DEF WebInv, PortsTyped, Listed

LEMMA ChildrenListed ==
  ASSUME WebInv
  PROVE  children \subseteq Listed
  BY DEF WebInv, PortsTyped, ChildrenRun, Listed, Unlisted

LEMMA CreateKeeps ==
  ASSUME WebInv, NEW i \in WebClients, NEW starts \in BOOLEAN, CreateClient(i, starts)
  PROVE  WebInv'
  <1>1. PICK p \in 1..MaxWebClients :
          /\ ports[p] = {}
          /\ configs' = [configs EXCEPT ![i] =
                            [port |-> p, status |-> IF starts THEN "running" ELSE "stopped"]]
          /\ ports' = [ports EXCEPT ![p] = {i}]
    BY DEF CreateClient, IsNextPort
  <1> DEFINE n == [port |-> p, status |-> IF starts THEN "running" ELSE "stopped"]
  <1>2. /\ n \in [port : 1..MaxWebClients, status : {"running", "stopped"}]
        /\ n.port = p /\ n.status = (IF starts THEN "running" ELSE "stopped")
        /\ n # Unlisted
    BY DEF Unlisted
  <1>3. configs' = [configs EXCEPT ![i] = n]
    BY <1>1
  <1> HIDE DEF n
  <1>4. children' = IF starts THEN children \union {i} ELSE children
    BY DEF CreateClient
  <1>5. i \notin Listed /\ i \notin children
    BY ChildrenListed DEF CreateClient
  <1>6. PortsTyped'
    BY <1>1, <1>2, <1>3, <1>4 DEF WebInv, PortsTyped
  <1>7. PortsHeld'
    <2> SUFFICES ASSUME NEW j \in WebClients, configs'[j] # Unlisted
                 PROVE  ports'[configs'[j].port] = {j}
      BY <1>6 DEF PortsHeld, Listed
    <2>1. CASE j = i
      BY <1>1, <1>2, <1>3, <2>1 DEF WebInv, PortsTyped
    <2>2. CASE j # i
      <3>1. configs'[j] = configs[j] /\ j \in Listed
        BY <1>3, <2>2 DEF WebInv, PortsTyped, Listed
      <3>2. ports[configs[j].port] = {j} /\ configs[j].port \in 1..MaxWebClients
        BY <3>1, ListedConfig DEF WebInv, PortsHeld
      <3>3. configs[j].port # p
        BY <1>1, <3>2
      <3> QED
        BY <1>1, <3>1, <3>2, <3>3 DEF WebInv, PortsTyped
    <2> QED
      BY <2>1, <2>2
  <1>8. ChildrenRun'
    BY <1>2, <1>3, <1>4, <1>5 DEF WebInv, PortsTyped, ChildrenRun
  <1> QED
    BY <1>6, <1>7, <1>8 DEF WebInv

LEMMA StopKeeps ==
  ASSUME WebInv, NEW i \in WebClients, StopClient(i)
  PROVE  WebInv'
  <1> DEFINE n == [configs[i] EXCEPT !.status = "stopped"]
  <1>1. i \in Listed /\ configs[i] \in [port : 1..MaxWebClients, status : {"running", "stopped"}]
    BY ListedConfig DEF StopClient
  <1>2. /\ n \in [port : 1..MaxWebClients, status : {"running", "stopped"}]
        /\ n.port = configs[i].port
    BY <1>1
  <1>3. /\ configs' = [configs EXCEPT ![i] = n]
        /\ children' = children \ {i} /\ ports' = ports
    BY DEF StopClient
  <1> HIDE DEF n
  <1>4. PortsTyped'
    BY <1>2, <1>3 DEF WebInv, PortsTyped
  <1>5. PortsHeld'
    BY <1>1, <1>2, <1>3 DEF WebInv, PortsTyped, PortsHeld, Listed
  <1>6. ChildrenRun'
    BY <1>3 DEF WebInv, PortsTyped, ChildrenRun
  <1> QED
    BY <1>4, <1>5, <1>6 DEF WebInv

LEMMA DeleteKeeps ==
  ASSUME WebInv, NEW i \in WebClients, DeleteClient(i)
  PROVE  WebInv'
  <1>1. /\ i \in Listed
        /\ configs' = [configs EXCEPT ![i] = Unlisted]
        /\ ports' = [ports EXCEPT ![configs[i].port] = {}]
        /\ children' = children \ {i}
    BY DEF DeleteClient
  <1>2. PortsTyped'
    BY <1>1 DEF WebInv, PortsTyped
  <1>3. PortsHeld'
    <2> SUFFICES ASSUME NEW j \in WebClients, configs'[j] # Unlisted
                 PROVE  ports'[configs'[j].port] = {j}
      BY <1>2 DEF PortsHeld, Listed
    <2>1. j # i /\ configs'[j] = configs[j] /\ j \in Listed
      BY <1>1 DEF WebInv, PortsTyped, Listed
    <2>2. /\ ports[configs[j].port] = {j} /\ configs[j].port \in 1..MaxWebClients
          /\ ports[configs[i].port] = {i}
      BY <1>1, <2>1, ListedConfig DEF WebInv, PortsHeld
    <2>3. configs[j].port # configs[i].port
      BY <2>1, <2>2
    <2> QED
      BY <1>1, <2>1, <2>2, <2>3 DEF WebInv, PortsTyped
  <1>4. ChildrenRun'
    BY <1>1 DEF WebInv, PortsTyped, ChildrenRun
  <1> QED
    BY <1>2, <1>3, <1>4 DEF WebInv

-----------------------------------------------------------------------------

(* The types of the rendezvous server's threads. *)
ThreadsTyped ==
    /\ serving \subseteq Runners
    /\ runner \in [Runners -> {"ended", "begun", "spawned", "waiting"}]
    /\ thread \subseteq Runners /\ process \subseteq Runners
    /\ started \in BOOLEAN

(* One thread at most has not ended: the last one that was started. *)
OneThread == \A r \in Runners : runner[r] # "ended" => thread = {r}

(* A thread that has not started a server yet finds none running, nor a manager
   that says one is; and one that has is the last that did. *)
BegunAlone == \A r \in Runners : runner[r] = "begun" => ~started /\ serving = {}

(* The thread that has a child is the one whose child the manager holds. *)
SpawnedOwn == \A r \in Runners : runner[r] \in {"spawned", "waiting"} => process = {r}

(* The inductive invariant of the rendezvous process. *)
ThreadInv == ThreadsTyped /\ OneThread /\ BegunAlone /\ SpawnedOwn /\ OneServer

(* Both parts: neither touches the other's state. *)
ProcessesInv == WebInv /\ ThreadInv

(* Every step of start(), of its thread, of the child and of stop() keeps one
   server at most. *)
LEMMA ThreadStep ==
  ASSUME ThreadInv, NEW r \in Runners,
         Start(r) \/ Spawn(r) \/ SpawnFails(r) \/ Announce(r) \/ ServerExits(r) \/ Reap(r)
  PROVE  ThreadInv' /\ UNCHANGED webVars
  <1> USE DEF ThreadInv, ThreadsTyped, OneThread, BegunAlone, SpawnedOwn, OneServer
  <1>1. CASE Start(r)
    <2>1. ~started /\ \A x \in Runners : runner[x] = "ended"
      BY <1>1 DEF Start, MayStart, ThreadAlive
    <2>2. serving = {}
      BY <2>1
    <2> QED
      BY <1>1, <2>1, <2>2 DEF Start
  <1>2. CASE Spawn(r)
    <2>1. \A x \in Runners : x # r => runner[x] = "ended"
      BY <1>2 DEF Spawn
    <2>2. ~started /\ serving = {}
      BY <1>2 DEF Spawn
    <2> QED
      BY <1>2, <2>1, <2>2 DEF Spawn
  <1>3. CASE SpawnFails(r)
    BY <1>3 DEF SpawnFails
  <1>4. CASE Announce(r)
    <2>1. \A x \in Runners : x # r => runner[x] = "ended"
      BY <1>4 DEF Announce
    <2> QED
      BY <1>4, <2>1 DEF Announce
  <1>5. CASE ServerExits(r)
    BY <1>5 DEF ServerExits
  <1>6. CASE Reap(r)
    <2>1. process = {r} /\ serving = {} /\ \A x \in Runners : x # r => runner[x] = "ended"
      BY <1>6 DEF Reap
    <2> QED
      BY <1>6, <2>1 DEF Reap
  <1> QED
    BY <1>1, <1>2, <1>3, <1>4, <1>5, <1>6
       DEF Start, Spawn, SpawnFails, Announce, ServerExits, Reap

LEMMA ProcessesInvInit == ProcessesInit => ProcessesInv
  <1> SUFFICES ASSUME ProcessesInit
               PROVE  ProcessesInv
    OBVIOUS
  <1>1. WebInv
    BY DEF ProcessesInit, WebInv, PortsTyped, PortsHeld, ChildrenRun, Listed
  <1>2. ThreadInv
    BY DEF ProcessesInit, ThreadInv, ThreadsTyped, OneThread, BegunAlone, SpawnedOwn, OneServer
  <1> QED
    BY <1>1, <1>2 DEF ProcessesInv

LEMMA ProcessesInvStep == ProcessesInv /\ [ProcessesNext]_processVars => ProcessesInv'
  <1> SUFFICES ASSUME WebInv, ThreadInv, [ProcessesNext]_processVars
               PROVE  WebInv' /\ ThreadInv'
    BY DEF ProcessesInv
  <1>1. UNCHANGED webVars => WebInv'
    BY DEF webVars, WebInv, PortsTyped, PortsHeld, ChildrenRun, Listed
  <1>2. UNCHANGED managerVars => ThreadInv'
    BY DEF managerVars, ThreadInv, ThreadsTyped, OneThread, BegunAlone, SpawnedOwn, OneServer
  <1>3. ASSUME NEW i \in WebClients, NEW starts \in BOOLEAN, CreateClient(i, starts)
        PROVE  WebInv' /\ ThreadInv'
    BY <1>2, <1>3, CreateKeeps DEF CreateClient
  <1>4. ASSUME NEW i \in WebClients, StopClient(i)
        PROVE  WebInv' /\ ThreadInv'
    BY <1>2, <1>4, StopKeeps DEF StopClient
  <1>5. ASSUME NEW i \in WebClients, DeleteClient(i)
        PROVE  WebInv' /\ ThreadInv'
    BY <1>2, <1>5, DeleteKeeps DEF DeleteClient
  <1>6. ASSUME NEW i \in WebClients, ClientExits(i)
        PROVE  WebInv' /\ ThreadInv'
    <2>1. WebInv'
      BY <1>6 DEF ClientExits, WebInv, PortsTyped, PortsHeld, ChildrenRun, Listed
    <2> QED
      BY <1>2, <1>6, <2>1 DEF ClientExits
  <1>7. ASSUME NEW r \in Runners,
               Start(r) \/ Spawn(r) \/ SpawnFails(r) \/ Announce(r) \/ ServerExits(r) \/ Reap(r)
        PROVE  WebInv' /\ ThreadInv'
    BY <1>1, <1>7, ThreadStep
  <1>8. CASE Stop
    <2>1. ThreadInv'
      BY <1>8 DEF Stop, ThreadInv, ThreadsTyped, OneThread, BegunAlone, SpawnedOwn, OneServer
    <2> QED
      BY <1>1, <1>8, <2>1 DEF Stop
  <1>9. CASE UNCHANGED processVars
    BY <1>1, <1>2, <1>9 DEF processVars
  <1> QED
    BY <1>3, <1>4, <1>5, <1>6, <1>7, <1>8, <1>9 DEF ProcessesNext

(* Ports, configurations and children fit together, and so do the threads and the
   rendezvous process, in every reachable state. *)
THEOREM ProcessesInvariance == ProcessesSpec => []ProcessesInv
  BY ProcessesInvInit, ProcessesInvStep, PTL DEF ProcessesSpec

(* For any number of web clients and ports: a client that lives is listed as
   running and no other has its port, over all creations, stops, deletions and
   children that end by themselves. *)
THEOREM LivingClientsAreOwned == ProcessesSpec => []ClientsOwned
  <1>1. ProcessesInv => ClientsOwned
    BY ChildrenListed DEF ProcessesInv, WebInv, ClientsOwned, ChildrenRun, PortsHeld
  <1> QED
    BY <1>1, ProcessesInvariance, PTL

(* For any number of starts whose threads are late: no rendezvous server lives
   that stop() would not end. *)
THEOREM AtMostOneServer == ProcessesSpec => []OneServer
  <1>1. ProcessesInv => OneServer
    BY DEF ProcessesInv, ThreadInv
  <1> QED
    BY <1>1, ProcessesInvariance, PTL

-----------------------------------------------------------------------------
(* Registry. *)

HIDE ProcessesAssumption
USE RegistryAssumption

(* While every key could be saved, and no web client was started without one,
   the key in .env is the one that was made, processes have that key or none,
   and everything was written with it. *)
OneKey ==
    /\ \A p \in ServerProcesses : inUse[p] \in {{}, dotenv}
    /\ exported \in {{}, dotenv}
    /\ dotenv = {} <=> made = {}
    /\ \A s \in KnownServers : urls[s] \in {{}, dotenv}
    /\ \A h \in homes : h.hash.key = dotenv /\ dotenv # {}

(* The inductive invariant: OneKey, but for the two ways the code has to lose it. *)
RegistryInv == RegistryTypeOK /\ (~unsaved /\ ~forked => OneKey)

LEMMA RegistryInvInit == RegistryInit => RegistryInv
  BY DEF RegistryInit, RegistryInv, RegistryTypeOK, OneKey, Statuses

(* The key of a process that starts: the one it finds, or one it makes. *)
LEMMA KeyLoaded ==
  ASSUME RegistryInv, NEW p \in ServerProcesses, NEW environ \in {exported, dotenv},
         NEW saves \in BOOLEAN, ~Running(p),
         LoadOrCreateMasterKey(p, environ, saves),
         exported' \in {exported, dotenv}, UNCHANGED recordVars,
         forked' \in BOOLEAN, forked => forked',
         environ = {} => forked' \/ dotenv = {}
  PROVE  RegistryInv'
  <1>0. /\ inUse \in [ServerProcesses -> SUBSET MasterKeys]
        /\ exported \subseteq MasterKeys /\ dotenv \subseteq MasterKeys
        /\ made \subseteq MasterKeys /\ unsaved \in BOOLEAN
    BY DEF RegistryInv, RegistryTypeOK
  <1>1. UNCHANGED <<urls, homes, peers, queued>>
    BY DEF recordVars
  <1>2. CASE environ # {}
    <2>1. inUse' = [inUse EXCEPT ![p] = environ] /\ UNCHANGED <<dotenv, made, unsaved>>
      BY <1>2 DEF LoadOrCreateMasterKey
    <2>2. RegistryTypeOK'
      BY <1>0, <1>1, <2>1 DEF RegistryInv, RegistryTypeOK
    <2>3. ASSUME ~unsaved', ~forked'
          PROVE  OneKey'
      <3>1. OneKey
        BY <2>1, <2>3 DEF RegistryInv
      <3> QED
        BY <1>0, <1>1, <1>2, <2>1, <3>1 DEF OneKey
    <2> QED
      BY <2>2, <2>3 DEF RegistryInv
  <1>3. CASE environ = {}
    <2>1. PICK k \in MasterKeys \ made :
            /\ inUse' = [inUse EXCEPT ![p] = {k}]
            /\ made' = made \union {k}
            /\ dotenv' = IF saves THEN {k} ELSE dotenv
            /\ unsaved' = (unsaved \/ ~saves)
      BY <1>3 DEF LoadOrCreateMasterKey, SaveKey
    <2>2. RegistryTypeOK'
      BY <1>0, <1>1, <2>1 DEF RegistryInv, RegistryTypeOK
    <2>3. ASSUME ~unsaved', ~forked'
          PROVE  OneKey'
      <3>1. saves /\ ~unsaved /\ ~forked /\ dotenv = {}
        BY <1>0, <1>3, <2>1, <2>3
      <3>2. OneKey
        BY <3>1 DEF RegistryInv
      <3>3. /\ \A x \in ServerProcesses : inUse[x] = {}
            /\ exported' = {} /\ homes' = {}
            /\ \A s \in KnownServers : urls'[s] = {}
        BY <1>1, <3>1, <3>2 DEF OneKey
      <3>4. dotenv' = {k} /\ made' # {}
        BY <2>1, <3>1
      <3> QED
        BY <1>0, <2>1, <3>3, <3>4 DEF OneKey
    <2> QED
      BY <2>2, <2>3 DEF RegistryInv
  <1> QED
    BY <1>2, <1>3

(* What a running process writes, it writes with its key. *)
LEMMA RecordsKeep ==
  ASSUME RegistryInv, UNCHANGED <<exported, dotenv, made, unsaved, forked>>,
         inUse' \in [ServerProcesses -> SUBSET MasterKeys],
         \A p \in ServerProcesses : inUse'[p] \in {{}, inUse[p]},
         NEW p \in ServerProcesses, Running(p),
         urls' \in [KnownServers -> SUBSET MasterKeys],
         \A s \in KnownServers : urls'[s] \in {urls[s], inUse[p]},
         homes' \subseteq [client : KnownClients, hash : Hash],
         \A h \in homes' : h \in homes \/ h.hash.key = inUse[p],
         queued' \subseteq KnownServers,
         peers' \in [KnownServers -> Statuses]
  PROVE  RegistryInv'
  <1>1. RegistryTypeOK'
    BY DEF RegistryInv, RegistryTypeOK
  <1>2. ASSUME OneKey
        PROVE  OneKey'
    BY <1>2 DEF OneKey, Running
  <1> QED
    BY <1>1, <1>2 DEF RegistryInv

LEMMA RegistryInvStep == RegistryInv /\ [RegistryNext]_registryVars => RegistryInv'
  <1> SUFFICES ASSUME RegistryInv, [RegistryNext]_registryVars
               PROVE  RegistryInv'
    OBVIOUS
  <1>0. /\ inUse \in [ServerProcesses -> SUBSET MasterKeys]
        /\ urls \in [KnownServers -> SUBSET MasterKeys]
        /\ homes \subseteq [client : KnownClients, hash : Hash]
        /\ queued \subseteq KnownServers
        /\ peers \in [KnownServers -> Statuses]
        /\ forked \in BOOLEAN
    BY DEF RegistryInv, RegistryTypeOK
  <1>1. ASSUME NEW saves \in BOOLEAN, StartServer(saves)
        PROVE  RegistryInv'
    BY <1>0, <1>1, KeyLoaded DEF StartServer
  <1>2. ASSUME NEW saves \in BOOLEAN, NEW p \in ServerProcesses, StartWebClient(p, saves)
        PROVE  RegistryInv'
    <2>1. forked' = (forked \/ exported = {})
      BY <1>2 DEF StartWebClient
    <2>2. forked' \in BOOLEAN /\ (forked => forked') /\ (exported = {} => forked')
      BY <2>1
    <2> QED
      BY <1>2, <2>2, KeyLoaded DEF StartWebClient
  <1>3. ASSUME NEW p \in ServerProcesses, EndProcess(p)
        PROVE  RegistryInv'
    BY <1>0, <1>3, RecordsKeep DEF EndProcess, recordVars
  <1>4. ASSUME NEW p \in ServerProcesses, NEW s \in KnownServers, AddServer(p, s)
        PROVE  RegistryInv'
    BY <1>0, <1>4, RecordsKeep DEF AddServer, keyVars
  <1>5. ASSUME NEW p \in ServerProcesses, NEW s \in KnownServers, NEW c \in KnownClients,
               AddClientRow(p, c, s)
        PROVE  RegistryInv'
    <2> DEFINE h == [client |-> c, hash |-> HmacServerId(p, s)]
    <2>1. h \in [client : KnownClients, hash : Hash] /\ h.hash.key = inUse[p]
      BY <1>0 DEF HmacServerId, Hash
    <2>2. homes' = homes \union {h}
      BY <1>5 DEF AddClientRow
    <2> HIDE DEF h
    <2> QED
      BY <1>0, <1>5, <2>1, <2>2, RecordsKeep DEF AddClientRow, keyVars
  <1>6. ASSUME NEW p \in ServerProcesses, NEW s \in KnownServers, AddToSyncQueue(p, s)
        PROVE  RegistryInv'
    BY <1>0, <1>6, RecordsKeep DEF AddToSyncQueue, keyVars
  <1>7. ASSUME NEW p \in ServerProcesses, NEW s \in KnownServers,
               \/ AddPeer(p, s) \/ ConnectPeer(p, s) \/ DisconnectPeer(p, s)
               \/ DeletePeer(p, s)
        PROVE  RegistryInv'
    <2>1. /\ Running(p) /\ UNCHANGED <<keyVars, urls, homes, queued>>
          /\ peers' \in [KnownServers -> Statuses]
      BY <1>0, <1>7 DEF AddPeer, ConnectPeer, DisconnectPeer, DeletePeer, SetPeer, Statuses
    <2> QED
      BY <1>0, <2>1, RecordsKeep DEF keyVars
  <1>8. ASSUME NEW p \in ServerProcesses, NEW s \in KnownServers, ConnectPeerCut(p, s)
        PROVE  RegistryInv'
    <2>1. /\ Running(p) /\ UNCHANGED <<exported, dotenv, made, unsaved, forked>>
          /\ UNCHANGED <<urls, homes, queued>>
          /\ peers' \in [KnownServers -> Statuses]
          /\ inUse' = [inUse EXCEPT ![p] = {}]
      BY <1>0, <1>8 DEF ConnectPeerCut, SetPeer, Statuses
    <2> QED
      BY <1>0, <2>1, RecordsKeep
  <1>9. CASE UNCHANGED registryVars
    BY <1>9 DEF registryVars, keyVars, recordVars, RegistryInv, RegistryTypeOK, OneKey
  <1> QED
    BY <1>1, <1>2, <1>3, <1>4, <1>5, <1>6, <1>7, <1>8, <1>9 DEF RegistryNext

(* Rows that differ in client or server only are no more than clients times
   servers. *)
LEMMA RowsCounted ==
  ASSUME NEW R, NEW k,
         R \subseteq [client : KnownClients, hash : [server : KnownServers, key : {k}]]
  PROVE  Cardinality(R) <= Cardinality(KnownClients) * Cardinality(KnownServers)
  <1> DEFINE P == KnownClients \X KnownServers
             f == [h \in R |-> <<h.client, h.hash.server>>]
  <1>1. /\ IsFiniteSet(P)
        /\ Cardinality(P) = Cardinality(KnownClients) * Cardinality(KnownServers)
    BY FS_Product
  <1>2. f \in [R -> P]
    OBVIOUS
  <1>3. ASSUME NEW x \in R, NEW y \in R, f[x] = f[y]
        PROVE  x = y
    <2>1. x.client = y.client /\ x.hash.server = y.hash.server
      BY <1>3
    <2>2. x.hash.key = k /\ y.hash.key = k
      OBVIOUS
    <2>3. x.hash = y.hash
      BY <2>1, <2>2
    <2> QED
      BY <2>1, <2>3
  <1>4. f \in Injection(R, P)
    BY <1>2, <1>3 DEF Injection, IsInjective
  <1> HIDE DEF f, P
  <1> QED
    BY <1>1, <1>4, FS_Injection

(* For any number of processes, servers and clients: unless a key could not be
   saved or a web client started in the run that made the first, what one process
   wrote every other reads, and the statistics count a client of a server once. *)
THEOREM RowsAreReadable == RegistrySpec => []RowsReadable
  <1>1. RegistryInv => RowsReadable
    <2> SUFFICES ASSUME RegistryInv, OneKey, NEW p \in ServerProcesses, Running(p)
                 PROVE  /\ \A row \in GetServers(p) : row.url = "address"
                        /\ \A c \in KnownClients :
                              GetClientServer(c) \subseteq
                                  {HmacServerId(p, s) : s \in KnownServers}
                        /\ GetStats.clients <=
                               Cardinality(KnownClients) * Cardinality(KnownServers)
      BY DEF RowsReadable, RegistryInv
    <2>1. inUse[p] = dotenv
      BY DEF OneKey, Running
    <2>2. \A row \in GetServers(p) : row.url = "address"
      <3> SUFFICES ASSUME NEW s \in Registered
                   PROVE  GetServer(p, s).url = "address"
        BY DEF GetServers
      <3>1. s \in KnownServers /\ urls[s] = inUse[p]
        BY <2>1 DEF OneKey, Registered
      <3>2. DecryptedUrl(p, s) = "address"
        BY <3>1 DEF DecryptedUrl
      <3> QED
        BY <3>2 DEF GetServer
    <2>3. homes \subseteq [client : KnownClients, hash : [server : KnownServers, key : {dotenv}]]
      BY DEF RegistryInv, RegistryTypeOK, OneKey, Hash
    <2>4. ASSUME NEW c \in KnownClients
          PROVE  GetClientServer(c) \subseteq {HmacServerId(p, s) : s \in KnownServers}
      <3> SUFFICES ASSUME NEW h \in homes
                   PROVE  \E s \in KnownServers : h.hash = HmacServerId(p, s)
        BY DEF GetClientServer, GetClients
      <3>1. h.hash \in [server : KnownServers, key : {dotenv}]
        BY <2>3
      <3>2. h.hash = [server |-> h.hash.server, key |-> dotenv]
        BY <3>1
      <3> QED
        BY <2>1, <3>1, <3>2 DEF HmacServerId
    <2>5. GetStats.clients <= Cardinality(KnownClients) * Cardinality(KnownServers)
      BY <2>3, RowsCounted DEF GetStats, GetClients
    <2> QED
      BY <2>2, <2>4, <2>5
  <1> QED
    BY <1>1, RegistryInvInit, RegistryInvStep, PTL DEF RegistrySpec

-----------------------------------------------------------------------------
(* Proxy clients. *)

HIDE RegistryAssumption
USE ProxyAssumption, ClockAssumption

(* The limit of now is one of those a client has had. *)
LimitHad(row) ==
    row.most.none \/ (~row.limit.none /\ row.limit.n <= row.most.n)

(* Every client has had the limit it has. *)
MostIsHighest == \A c \in DOMAIN clients : LimitHad(clients[c])

(* No less traffic is left to a client than before. *)
Eased(row, new) ==
    /\ new.today <= row.today
    /\ new.most.none \/ (~row.most.none /\ row.most.n <= new.most.n)

(* The traffic of a client, when u of its requests are upstream. *)
Fits(row, u) ==
    \/ row.most.none
    \/ row.today + MaxAnswer * u <= row.most.n + MaxAnswer * Cardinality(Requests)

(* What was redeemed to the end cannot be redeemed again. *)
RedeemedIsUsed ==
    \A i \in issued : ~i.cut /\ i.token \in DOMAIN tokens => tokens[i.token].used

(* An id of a client comes with an invite that was redeemed for it. *)
ClientsIssued == \A c \in DOMAIN clients : \E i \in issued : i.client = c

(* The inductive invariant of the clients, their requests and their invites. *)
ProxyInv ==
    /\ now \in Nat
    /\ ProxyTypeOK
    /\ MostIsHighest
    /\ OvershootBounded
    /\ ClientsIssued
    /\ RedeemedIsUsed
    /\ InviteOnce

-----------------------------------------------------------------------------
(* Tables.                                                                  *)

(* One answer more, in requests that are no more than all. *)
LEMMA ProductMonotone ==
  ASSUME NEW m \in Nat, NEW u \in Nat, NEW n \in Nat, u <= n
  PROVE  m * u \in Nat /\ m * n \in Nat /\ m * u <= m * n
  <1>1. PICK d \in Nat : n = u + d
    <2>1. n - u \in Nat /\ n = u + (n - u)
      OBVIOUS
    <2> QED
      BY <2>1
  <1>2. m * n = m * u + m * d
    BY <1>1
  <1>3. m * d \in Nat /\ m * u \in Nat /\ m * n \in Nat
    BY <1>1
  <1> QED
    BY <1>2, <1>3

(* Requests upstream for a client are some of those that can be in progress. *)
LEMMA UpstreamCount ==
  ASSUME ProxyTypeOK, NEW c, NEW T \in SUBSET Upstream(c)
  PROVE  /\ IsFiniteSet(T) /\ Cardinality(T) \in Nat
         /\ Cardinality(T) <= Cardinality(Upstream(c))
         /\ Cardinality(Upstream(c)) \in Nat
         /\ Cardinality(Upstream(c)) <= Cardinality(Requests)
         /\ Cardinality(Requests) \in Nat
  <1>1. Upstream(c) \in SUBSET Requests
    BY DEF Upstream, ProxyTypeOK, AllRows
  <1>2. IsFiniteSet(Upstream(c)) /\ Cardinality(Upstream(c)) <= Cardinality(Requests)
    BY <1>1, FS_Subset
  <1>3. IsFiniteSet(T) /\ Cardinality(T) <= Cardinality(Upstream(c))
    BY <1>2, FS_Subset
  <1> QED
    BY <1>2, <1>3, FS_CardinalityType

(* Less traffic, fewer requests upstream and a higher limit keep the bound. *)
LEMMA StillFits ==
  ASSUME NEW row \in ClientRow, NEW new \in ClientRow,
         NEW u \in Nat, NEW v \in Nat, v <= u, Fits(row, u),
         Cardinality(Requests) \in Nat,
         Eased(row, new)
  PROVE  Fits(new, v)
  <1> DEFINE q == MaxAnswer * Cardinality(Requests)
             x == MaxAnswer * u
             y == MaxAnswer * v
  <1>1. x \in Nat /\ y \in Nat /\ y <= x
    BY ProductMonotone
  <1>2. q \in Nat
    BY ProductMonotone
  <1>3. /\ row.today \in Nat /\ new.today \in Nat /\ row.most.n \in Nat /\ new.most.n \in Nat
    BY DEF ClientRow, DailyLimits
  <1>4. row.most.none \/ row.today + x <= row.most.n + q
    BY DEF Fits
  <1> HIDE DEF x, y, q
  <1>5. new.most.none \/ new.today + y <= new.most.n + q
    BY <1>1, <1>2, <1>3, <1>4 DEF Eased
  <1> QED
    BY <1>5 DEF Fits, y, q

(* Clients whose limit is raised, whose traffic is set back, or who go. *)
LEMMA RowsRaised ==
  ASSUME ProxyInv, AllRows(clients', ClientIds, ClientRow),
         DOMAIN clients' \subseteq DOMAIN clients,
         \A c \in DOMAIN clients' :
             Eased(clients[c], clients'[c]) /\ LimitHad(clients'[c]),
         AllRows(requests', Requests, RequestState),
         \A r \in DOMAIN requests' : r \in DOMAIN requests /\ requests'[r] = requests[r]
  PROVE  MostIsHighest' /\ OvershootBounded'
  <1>1. MostIsHighest'
    BY DEF MostIsHighest, LimitHad
  <1>2. ASSUME NEW c \in DOMAIN clients'
        PROVE  Fits(clients'[c], Cardinality(Upstream(c)'))
    <2>1. Upstream(c)' \in SUBSET Upstream(c)
      BY DEF Upstream
    <2>2. clients[c] \in ClientRow /\ clients'[c] \in ClientRow
      BY <1>2 DEF ProxyInv, ProxyTypeOK, AllRows
    <2>3. Fits(clients[c], Cardinality(Upstream(c)))
      BY <1>2 DEF ProxyInv, OvershootBounded, Fits
    <2> DEFINE U == Upstream(c)'
               u == Cardinality(Upstream(c))
               row == clients[c]
               new == clients'[c]
    <2>4. U \in SUBSET Upstream(c) /\ ProxyTypeOK
      BY <2>1 DEF ProxyInv
    <2>5. Eased(row, new)
      OBVIOUS
    <2> HIDE DEF U
    <2>6. Cardinality(U) \in Nat /\ u \in Nat /\ Cardinality(U) <= u /\ Cardinality(Requests) \in Nat
      BY <2>4, UpstreamCount
    <2>7. row \in ClientRow /\ new \in ClientRow /\ Fits(row, u)
      BY <2>2, <2>3
    <2> HIDE DEF u, row, new
    <2>8. Fits(new, Cardinality(U))
      BY <2>5, <2>6, <2>7, StillFits
    <2> QED
      BY <2>8 DEF U, new
  <1>3. OvershootBounded'
    BY <1>2 DEF OvershootBounded, Fits, Upstream
  <1> QED
    BY <1>1, <1>3
(* Requests that end, or begin to be read, are not upstream. *)
LEMMA RequestsOnly ==
  ASSUME ProxyInv, clients' = clients,
         AllRows(requests', Requests, RequestState),
         \A r \in DOMAIN requests' :
             requests'[r].stage = "upstream" => r \in DOMAIN requests /\ requests'[r] = requests[r]
  PROVE  MostIsHighest' /\ OvershootBounded'
  <1>1. MostIsHighest'
    BY DEF ProxyInv, MostIsHighest
  <1>2. ASSUME NEW c \in DOMAIN clients
        PROVE  Fits(clients[c], Cardinality(Upstream(c)'))
    <2>1. Upstream(c)' \in SUBSET Upstream(c) /\ ProxyTypeOK
      BY DEF Upstream, ProxyInv
    <2> DEFINE U == Upstream(c)'
               u == Cardinality(Upstream(c))
               row == clients[c]
    <2>2. row \in ClientRow /\ row.today \in Nat /\ row.most \in DailyLimits
      BY <1>2 DEF ProxyInv, ProxyTypeOK, AllRows, ClientRow
    <2>3. Fits(row, u)
      BY <1>2 DEF ProxyInv, OvershootBounded, Fits
    <2>4. U \in SUBSET Upstream(c)
      BY <2>1
    <2> HIDE DEF U
    <2>5. Cardinality(U) \in Nat /\ u \in Nat /\ Cardinality(U) <= u /\ Cardinality(Requests) \in Nat
      BY <2>1, <2>4, UpstreamCount
    <2>6. Eased(row, row)
      BY <2>2 DEF DailyLimits, Eased
    <2> HIDE DEF u, row
    <2>7. Fits(row, Cardinality(U))
      BY <2>2, <2>3, <2>5, <2>6, StillFits
    <2> QED
      BY <2>7 DEF U, row
  <1>3. OvershootBounded'
    BY <1>2 DEF OvershootBounded, Fits, Upstream
  <1> QED
    BY <1>1, <1>3

(* A client that is admitted has no traffic yet; requests of one that had its
   id may still be upstream. *)
LEMMA Admission ==
  ASSUME ProxyInv, NEW c \in ClientIds, NEW row \in ClientRow, c \notin DOMAIN clients,
         clients' = With(clients, c, row), row.today = 0, row.most = row.limit,
         AllRows(requests', Requests, RequestState),
         \A r \in DOMAIN requests' : r \in DOMAIN requests /\ requests'[r] = requests[r]
  PROVE  MostIsHighest' /\ OvershootBounded'
  <1>1. /\ DOMAIN clients' = DOMAIN clients \union {c} /\ clients'[c] = row
        /\ \A d \in DOMAIN clients : clients'[d] = clients[d]
    BY DEF With
  <1>2. row.limit \in DailyLimits /\ LimitHad(row)
    BY DEF ClientRow, DailyLimits, LimitHad
  <1>3. MostIsHighest'
    BY <1>1, <1>2 DEF ProxyInv, MostIsHighest
  <1>4. ASSUME NEW d \in DOMAIN clients'
        PROVE  Fits(clients'[d], Cardinality(Upstream(d)'))
    <2>1. Upstream(d)' \in SUBSET Upstream(d) /\ ProxyTypeOK
      BY DEF Upstream, ProxyInv
    <2> DEFINE U == Upstream(d)'
               u == Cardinality(Upstream(d))
    <2>2. U \in SUBSET Upstream(d)
      BY <2>1
    <2> HIDE DEF U
    <2>3. /\ Cardinality(U) \in Nat /\ u \in Nat /\ Cardinality(U) <= u
          /\ u <= Cardinality(Requests) /\ Cardinality(Requests) \in Nat
      BY <2>1, <2>2, UpstreamCount
    <2>4. CASE d = c
      <3>1. MaxAnswer * Cardinality(U) \in Nat /\ MaxAnswer * Cardinality(Requests) \in Nat
            /\ MaxAnswer * Cardinality(U) <= MaxAnswer * Cardinality(Requests)
        <4>1. Cardinality(U) <= Cardinality(Requests)
          BY <2>3
        <4> QED
          BY <2>3, <4>1, ProductMonotone
      <3>2. row.most.n \in Nat /\ clients'[d] = row
        BY <1>1, <1>2, <2>4 DEF DailyLimits
      <3> DEFINE x == MaxAnswer * Cardinality(U)
                 q == MaxAnswer * Cardinality(Requests)
      <3> HIDE DEF x, q
      <3>3. 0 + x <= row.most.n + q
        BY <3>1, <3>2 DEF x, q
      <3> QED
        BY <3>2, <3>3 DEF Fits, U, x, q
    <2>5. CASE d # c
      <3> DEFINE old == clients[d]
      <3>1. d \in DOMAIN clients /\ clients'[d] = old
        BY <1>1, <1>4, <2>5
      <3>2. old \in ClientRow /\ old.today \in Nat /\ old.most \in DailyLimits /\ Fits(old, u)
        BY <3>1 DEF ProxyInv, ProxyTypeOK, AllRows, ClientRow, OvershootBounded, Fits
      <3>3. Eased(old, old)
        BY <3>2 DEF DailyLimits, Eased
      <3> HIDE DEF u, old
      <3>4. Fits(old, Cardinality(U))
        BY <2>3, <3>2, <3>3, StillFits
      <3> QED
        BY <3>1, <3>4 DEF U
    <2> QED
      BY <2>4, <2>5
  <1>5. OvershootBounded'
    BY <1>4 DEF OvershootBounded, Fits, Upstream
  <1> QED
    BY <1>3, <1>5

(* A row that is charged keeps its limits. *)
LEMMA ChargeRow ==
  ASSUME ProxyInv, NEW c, NEW n \in Nat, Charge(c, n)
  PROVE  /\ AllRows(clients', ClientIds, ClientRow)
         /\ DOMAIN clients' = DOMAIN clients
         /\ \A d \in DOMAIN clients :
                /\ clients'[d].limit = clients[d].limit /\ clients'[d].most = clients[d].most
                /\ clients'[d].today = clients[d].today + (IF d = c THEN n ELSE 0)
         /\ MostIsHighest'
  <1>1. clients' = [d \in DOMAIN clients |->
                       [clients[d] EXCEPT !.today = IF d = c THEN @ + n ELSE @]]
    BY DEF Charge
  <1>2. \A d \in DOMAIN clients : d \in ClientIds /\ clients[d] \in ClientRow
    BY DEF ProxyInv, ProxyTypeOK, AllRows
  <1>3. ASSUME NEW d \in DOMAIN clients
        PROVE  /\ d \in ClientIds /\ clients'[d] \in ClientRow
               /\ clients'[d].limit = clients[d].limit /\ clients'[d].most = clients[d].most
               /\ clients'[d].today = clients[d].today + (IF d = c THEN n ELSE 0)
    BY <1>1, <1>2 DEF ClientRow
  <1>4. AllRows(clients', ClientIds, ClientRow) /\ DOMAIN clients' = DOMAIN clients
    BY <1>1, <1>3 DEF AllRows
  <1>5. MostIsHighest'
    BY <1>3, <1>4 DEF ProxyInv, MostIsHighest, LimitHad
  <1> QED
    BY <1>3, <1>4, <1>5

(* A body that is within the limit of now, with every answer still to come, is
   within the bound. *)
LEMMA ForwardKeeps ==
  ASSUME ProxyInv, NEW r \in DOMAIN requests, NEW n \in 0..MaxAnswer, Forward(r, n)
  PROVE  ProxyInv'
  <1> DEFINE c == requests[r].client
  <1>0. /\ ProxyTypeOK /\ r \in Requests /\ requests[r] \in RequestState /\ n \in Nat
    BY DEF ProxyInv, ProxyTypeOK, AllRows
  <1>1. /\ WithinLimit(c, n) /\ Charge(c, n)
        /\ requests' = [requests EXCEPT ![r].stage = "upstream"]
        /\ UNCHANGED <<tokens, maxClients, issued, acts, now>>
    BY DEF Forward
  <1>2. AllRows(requests', Requests, RequestState)
    BY <1>0, <1>1 DEF ProxyTypeOK, AllRows, RequestState
  <1>3. /\ AllRows(clients', ClientIds, ClientRow)
        /\ DOMAIN clients' = DOMAIN clients
        /\ \A d \in DOMAIN clients :
                /\ clients'[d].limit = clients[d].limit /\ clients'[d].most = clients[d].most
                /\ clients'[d].today = clients[d].today + (IF d = c THEN n ELSE 0)
        /\ MostIsHighest'
    <2> HIDE DEF c
    <2> QED
      BY <1>0, <1>1, ChargeRow
  <1>4. ProxyTypeOK'
    BY <1>0, <1>1, <1>2, <1>3 DEF ProxyTypeOK
  <1>5. ASSUME NEW d \in DOMAIN clients
        PROVE  Fits(clients'[d], Cardinality(Upstream(d)'))
    <2>1. CASE d = c
      <3> DEFINE U == Upstream(d)'
                 row == clients[d]
      <3>1. /\ U \in SUBSET Requests
        BY <1>2 DEF Upstream, AllRows
      <3> HIDE DEF U
      <3>2. /\ Cardinality(U) \in Nat /\ Cardinality(Requests) \in Nat
            /\ Cardinality(U) <= Cardinality(Requests)
        BY <3>1, FS_Subset, FS_CardinalityType
      <3> DEFINE x == MaxAnswer * Cardinality(U)
                 q == MaxAnswer * Cardinality(Requests)
      <3>3. x \in Nat /\ q \in Nat /\ x <= q
        BY <3>2, ProductMonotone
      <3>4. row \in ClientRow
        BY <1>0 DEF ProxyTypeOK, AllRows
      <3>5. row.limit \in DailyLimits /\ row.most \in DailyLimits /\ row.today \in Nat
        BY <3>4 DEF ClientRow
      <3>6. row.limit.none \/ row.today + n <= row.limit.n
        BY <1>1, <2>1 DEF WithinLimit
      <3>7. row.most.none \/ (~row.limit.none /\ row.limit.n <= row.most.n)
        BY DEF ProxyInv, MostIsHighest, LimitHad
      <3>8. clients'[d].most = row.most /\ clients'[d].today = row.today + n
        BY <1>3, <2>1
      <3> HIDE DEF row, x, q
      <3>9. row.most.none \/ row.today + n <= row.most.n
        BY <1>0, <3>5, <3>6, <3>7 DEF DailyLimits
      <3>10. row.most.none \/ row.today + n + x <= row.most.n + q
        BY <1>0, <3>3, <3>5, <3>9 DEF DailyLimits
      <3> QED
        BY <3>8, <3>10 DEF Fits, U, x, q
    <2>2. CASE d # c
      <3>1. Upstream(d)' = Upstream(d)
        BY <1>0, <1>1, <2>2 DEF Upstream, RequestState
      <3>2. clients[d] \in ClientRow
        BY <1>0 DEF ProxyTypeOK, AllRows
      <3>3. clients'[d].most = clients[d].most /\ clients'[d].today = clients[d].today
        BY <1>3, <2>2, <3>2 DEF ClientRow
      <3>4. Fits(clients[d], Cardinality(Upstream(d)))
        BY DEF ProxyInv, OvershootBounded, Fits
      <3> QED
        BY <3>1, <3>3, <3>4 DEF Fits
    <2> QED
      BY <2>1, <2>2
  <1>6. OvershootBounded'
    BY <1>3, <1>5 DEF OvershootBounded, Fits, Upstream
  <1>7. now' \in Nat /\ ClientsIssued' /\ RedeemedIsUsed' /\ InviteOnce'
    BY <1>1, <1>3 DEF ProxyInv, ClientsIssued, RedeemedIsUsed, InviteOnce
  <1> QED
    BY <1>3, <1>4, <1>6, <1>7 DEF ProxyInv

(* An answer is charged as its request ends: what it may add was counted. *)
LEMMA AnsweredKeeps ==
  ASSUME ProxyInv, NEW r \in DOMAIN requests, NEW n \in 0..MaxAnswer, Answered(r, n)
  PROVE  ProxyInv'
  <1> DEFINE c == requests[r].client
  <1>0. /\ ProxyTypeOK /\ r \in Requests /\ requests[r] \in RequestState /\ n \in Nat
    BY DEF ProxyInv, ProxyTypeOK, AllRows
  <1>1. /\ requests[r].stage = "upstream" /\ Charge(c, n)
        /\ requests' = Only(requests, DOMAIN requests \ {r})
        /\ UNCHANGED <<tokens, maxClients, issued, acts, now>>
    BY DEF Answered
  <1>2. /\ AllRows(requests', Requests, RequestState)
        /\ DOMAIN requests' = DOMAIN requests \ {r}
        /\ \A x \in DOMAIN requests' : requests'[x] = requests[x]
    BY <1>0, <1>1 DEF ProxyTypeOK, Only, AllRows
  <1>3. /\ AllRows(clients', ClientIds, ClientRow)
        /\ DOMAIN clients' = DOMAIN clients
        /\ \A d \in DOMAIN clients :
                /\ clients'[d].limit = clients[d].limit /\ clients'[d].most = clients[d].most
                /\ clients'[d].today = clients[d].today + (IF d = c THEN n ELSE 0)
        /\ MostIsHighest'
    <2> HIDE DEF c
    <2> QED
      BY <1>0, <1>1, ChargeRow
  <1>4. ProxyTypeOK'
    BY <1>0, <1>1, <1>2, <1>3 DEF ProxyTypeOK
  <1>5. ASSUME NEW d \in DOMAIN clients
        PROVE  Fits(clients'[d], Cardinality(Upstream(d)'))
    <2> DEFINE U == Upstream(d)'
               row == clients[d]
               u == Cardinality(Upstream(d))
    <2>1. row \in ClientRow /\ Fits(row, u)
      BY <1>0 DEF ProxyTypeOK, AllRows, ProxyInv, OvershootBounded, Fits
    <2>2. row.most \in DailyLimits /\ row.today \in Nat
      BY <2>1 DEF ClientRow
    <2>3. CASE d = c
      <3>1. U = Upstream(d) \ {r} /\ r \in Upstream(d)
        BY <1>1, <1>2, <2>3 DEF Upstream
      <3>2. IsFiniteSet(Upstream(d)) /\ u \in Nat /\ Cardinality(Requests) \in Nat
        BY <1>0, UpstreamCount
      <3>3. Cardinality(U) = u - 1
        <4>1. Cardinality(Upstream(d) \ {r}) = Cardinality(Upstream(d)) - 1
          BY <3>1, <3>2, FS_RemoveElement
        <4> QED
          BY <3>1, <4>1
      <3>4. Cardinality(U) \in Nat
        <4>1. IsFiniteSet(Upstream(d) \ {r})
          BY <3>2, FS_RemoveElement
        <4> QED
          BY <3>1, <4>1, FS_CardinalityType
      <3> DEFINE v == Cardinality(U)
                 x == MaxAnswer * v
                 q == MaxAnswer * Cardinality(Requests)
      <3>5. clients'[d].most = row.most /\ clients'[d].today = row.today + n
        BY <1>3, <2>3
      <3>6. row.most.none \/ row.today + MaxAnswer * u <= row.most.n + q
        BY <2>1 DEF Fits
      <3> HIDE DEF U, u, row
      <3>7. MaxAnswer * u = x + MaxAnswer /\ x \in Nat
        <4>1. v \in Nat /\ u = v + 1 /\ MaxAnswer \in Nat
          BY <3>2, <3>3, <3>4
        <4> HIDE DEF v
        <4>2. MaxAnswer * (v + 1) = MaxAnswer * v + MaxAnswer /\ MaxAnswer * v \in Nat
          BY <4>1
        <4> QED
          BY <4>1, <4>2
      <3>8. q \in Nat
        BY <3>2, ProductMonotone
      <3> HIDE DEF v, x, q
      <3>9. row.most.none \/ row.today + n + x <= row.most.n + q
        BY <1>0, <2>2, <3>6, <3>7, <3>8 DEF DailyLimits
      <3> QED
        BY <3>5, <3>9 DEF Fits, U, x, q, v
    <2>4. CASE d # c
      <3>1. U = Upstream(d)
        BY <1>2, <2>4 DEF Upstream
      <3>2. clients'[d].most = row.most /\ clients'[d].today = row.today
        BY <1>3, <2>2, <2>4
      <3> QED
        BY <2>1, <3>1, <3>2 DEF Fits
    <2> QED
      BY <2>3, <2>4
  <1>6. OvershootBounded'
    BY <1>3, <1>5 DEF OvershootBounded, Fits, Upstream
  <1>7. now' \in Nat /\ ClientsIssued' /\ RedeemedIsUsed' /\ InviteOnce'
    BY <1>1, <1>3 DEF ProxyInv, ClientsIssued, RedeemedIsUsed, InviteOnce
  <1> QED
    BY <1>3, <1>4, <1>6, <1>7 DEF ProxyInv

-----------------------------------------------------------------------------
(* Limits and ends.                                                         *)

LEMMA LimitsTyped ==
  /\ Unlimited \in DailyLimits
  /\ \A n \in Nat : LimitOf(n) \in DailyLimits
  /\ \A g \in Groups : GroupLimit(g) \in DailyLimits
  <1>1. Unlimited \in DailyLimits /\ \A n \in Nat : LimitOf(n) \in DailyLimits
    BY DEF Unlimited, LimitOf, DailyLimits
  <1>2. BasicLimit \in Nat /\ StandardLimit \in Nat
    OBVIOUS
  <1> QED
    BY <1>1, <1>2 DEF Groups, GroupLimit

(* Replacing a month's row changes neither its types nor what it was issued. *)
LEMMA MonthEndTyped ==
  ASSUME now \in Nat
  PROVE  MonthEnd \in Nat
  <1> DEFINE k == now \div Month
  <1>1. k \in Nat /\ Month \in Nat \ {0}
    OBVIOUS
  <1> HIDE DEF k
  <1>2. Month * 1 <= Month * (1 + k) /\ Month * (1 + k) \in Nat
    BY <1>1, ProductMonotone
  <1>3. (1 + k) * Month - 1 \in Nat
    BY <1>1, <1>2
  <1> QED
    BY <1>3 DEF MonthEnd, k

(* The higher of two limits is above both. *)
LEMMA HigherIs ==
  ASSUME NEW x \in DailyLimits, NEW y \in DailyLimits
  PROVE  /\ Higher(x, y) \in DailyLimits
         /\ Higher(x, y).none \/ (~x.none /\ x.n <= Higher(x, y).n)
         /\ Higher(x, y).none \/ (~y.none /\ y.n <= Higher(x, y).n)
  BY DEF Higher, DailyLimits

(* A row that gets a limit: the highest so far is no lower than it was, nor
   than the new one. *)
LEMMA LimitSet ==
  ASSUME NEW row \in ClientRow, LimitHad(row), NEW limit \in DailyLimits
  PROVE  /\ WithLimit(row, limit) \in ClientRow
         /\ Eased(row, WithLimit(row, limit)) /\ LimitHad(WithLimit(row, limit))
  <1> DEFINE h == Higher(row.most, limit)
  <1>1. row.most \in DailyLimits /\ row.today \in Nat
    BY DEF ClientRow
  <1>2. /\ h \in DailyLimits
        /\ h.none \/ (~row.most.none /\ row.most.n <= h.n)
        /\ h.none \/ (~limit.none /\ limit.n <= h.n)
    BY <1>1, HigherIs
  <1>3. WithLimit(row, limit) = [row EXCEPT !.limit = limit, !.most = h]
    BY DEF WithLimit
  <1> HIDE DEF h
  <1>4. /\ WithLimit(row, limit) \in ClientRow
        /\ WithLimit(row, limit).limit = limit /\ WithLimit(row, limit).most = h
        /\ WithLimit(row, limit).today = row.today
    BY <1>2, <1>3 DEF ClientRow
  <1> QED
    BY <1>1, <1>2, <1>4 DEF Eased, LimitHad

(* What becomes of a row that only gets another end. *)
LEMMA EndSet ==
  ASSUME NEW row \in ClientRow, LimitHad(row), NEW t \in Nat
  PROVE  LET new == [row EXCEPT !.expires = t]
         IN  /\ new \in ClientRow /\ LimitHad(new)
             /\ new.today = row.today /\ new.most = row.most
  BY DEF ClientRow, LimitHad

LEMMA SameEased ==
  ASSUME NEW row \in ClientRow, NEW new, new.today = row.today, new.most = row.most
  PROVE  Eased(row, new)
  BY DEF ClientRow, DailyLimits, Eased

LEMMA EasedAgain ==
  ASSUME NEW row \in ClientRow, NEW new, Eased(row, new), NEW newer,
         newer.today = new.today, newer.most = new.most
  PROVE  Eased(row, newer)
  BY DEF Eased

LEMMA RegroupedRow ==
  ASSUME now \in Nat, NEW row \in ClientRow, LimitHad(row), NEW g \in Groups
  PROVE  /\ Regrouped(row, g) \in ClientRow
         /\ Eased(row, Regrouped(row, g)) /\ LimitHad(Regrouped(row, g))
  <1>1. CASE g = "basic"
    BY <1>1, SameEased DEF Regrouped
  <1>2. ASSUME NEW limit \in DailyLimits, NEW t \in Nat,
               Regrouped(row, g) = [WithLimit(row, limit) EXCEPT !.expires = t]
        PROVE  /\ Regrouped(row, g) \in ClientRow
               /\ Eased(row, Regrouped(row, g)) /\ LimitHad(Regrouped(row, g))
    <2> DEFINE w == WithLimit(row, limit)
    <2>1. w \in ClientRow /\ Eased(row, w) /\ LimitHad(w)
      BY LimitSet
    <2> HIDE DEF w
    <2> DEFINE x == [w EXCEPT !.expires = t]
    <2>2. x \in ClientRow /\ LimitHad(x) /\ x.today = w.today /\ x.most = w.most
      BY <2>1, EndSet
    <2> HIDE DEF x
    <2>3. Eased(row, x)
      BY <2>1, <2>2, EasedAgain
    <2> QED
      BY <1>2, <2>2, <2>3 DEF x, w
  <1>3. CASE g = "standard"
    <2>1. Regrouped(row, g) = [WithLimit(row, GroupLimit(g)) EXCEPT !.expires = MonthEnd]
      BY <1>3 DEF Regrouped
    <2> QED
      BY <1>2, <2>1, LimitsTyped, MonthEndTyped
  <1>4. CASE g = "privileged"
    <2>1. Regrouped(row, g) = [WithLimit(row, Unlimited) EXCEPT !.expires = Never]
      BY <1>4 DEF Regrouped
    <2>2. Never \in Nat
      BY DEF Never
    <2> QED
      BY <1>2, <2>1, <2>2, LimitsTyped
  <1> QED
    BY <1>1, <1>3, <1>4 DEF Groups

-----------------------------------------------------------------------------
(* The steps.                                                               *)

(* What only touches clients that stay, or go, and no invite. *)
LEMMA ClientsChanged ==
  ASSUME ProxyInv, AllRows(clients', ClientIds, ClientRow),
         DOMAIN clients' \subseteq DOMAIN clients,
         \A c \in DOMAIN clients' :
             Eased(clients[c], clients'[c]) /\ LimitHad(clients'[c]),
         AllRows(tokens', Tokens, TokenRow),
         \A t \in DOMAIN tokens' : t \in DOMAIN tokens /\ tokens'[t] = tokens[t],
         UNCHANGED <<requests, issued, now>>, maxClients' \in Rooms, acts' \in Nat
  PROVE  ProxyInv'
  <1>1. ProxyTypeOK'
    BY DEF ProxyInv, ProxyTypeOK
  <1>2. /\ AllRows(requests', Requests, RequestState)
        /\ \A r \in DOMAIN requests' : r \in DOMAIN requests /\ requests'[r] = requests[r]
    BY DEF ProxyInv, ProxyTypeOK
  <1>3. MostIsHighest' /\ OvershootBounded'
    BY <1>2, RowsRaised
  <1>4. now' \in Nat /\ ClientsIssued' /\ RedeemedIsUsed' /\ InviteOnce'
    BY DEF ProxyInv, ClientsIssued, RedeemedIsUsed, InviteOnce
  <1> QED
    BY <1>1, <1>3, <1>4 DEF ProxyInv

(* A row that stays as it is. *)
LEMMA RowStays ==
  ASSUME ProxyInv, NEW c \in DOMAIN clients
  PROVE  /\ clients[c] \in ClientRow /\ LimitHad(clients[c])
         /\ Eased(clients[c], clients[c])
  <1>1. clients[c] \in ClientRow /\ LimitHad(clients[c])
    BY DEF ProxyInv, ProxyTypeOK, AllRows, MostIsHighest
  <1> QED
    BY <1>1, SameEased

LEMMA ProxyInit_Inv ==
  ASSUME ProxyInit, now = 0
  PROVE  ProxyInv
  <1>1. DOMAIN NoRows = {}
    BY DEF NoRows
  <1>2. ProxyTypeOK
    BY <1>1 DEF ProxyInit, ProxyTypeOK, AllRows
  <1>3. MostIsHighest /\ OvershootBounded /\ ClientsIssued /\ RedeemedIsUsed /\ InviteOnce
    BY <1>1 DEF ProxyInit, MostIsHighest, OvershootBounded, ClientsIssued,
                RedeemedIsUsed, InviteOnce
  <1> QED
    BY <1>2, <1>3 DEF ProxyInv

LEMMA GenerateKeeps ==
  ASSUME ProxyInv, NEW t \in Tokens, NEW group \in Groups, NEW limit \in DailyLimits,
         GenerateInvite(t, group, limit)
  PROVE  ProxyInv'
  <1> DEFINE row == [group |-> group, limit |-> limit, used |-> FALSE,
                     expires |-> IF group = "basic" THEN now + InviteLife ELSE Never]
  <1>1. row \in TokenRow
    BY DEF ProxyInv, TokenRow, Never
  <1> HIDE DEF row
  <1>2. /\ \A i \in issued : i.token # t
        /\ tokens' = With(tokens, t, row)
        /\ UNCHANGED <<clients, maxClients, requests, issued, acts, now>>
    BY DEF GenerateInvite, row
  <1>3. AllRows(tokens', Tokens, TokenRow)
    BY <1>1, <1>2 DEF ProxyInv, ProxyTypeOK, AllRows, With
  <1>4. ProxyTypeOK'
    BY <1>2, <1>3 DEF ProxyInv, ProxyTypeOK
  <1>5. RedeemedIsUsed'
    BY <1>2 DEF ProxyInv, RedeemedIsUsed, With
  <1>6. MostIsHighest' /\ OvershootBounded' /\ ClientsIssued' /\ InviteOnce' /\ now' \in Nat
    BY <1>2 DEF ProxyInv, MostIsHighest, OvershootBounded, Upstream, ClientsIssued, InviteOnce
  <1> QED
    BY <1>4, <1>5, <1>6 DEF ProxyInv

(* The invite that is redeemed is not used, so every redemption of it before
   was cut short; this one marks it or is cut short too. *)
LEMMA AddClientKeeps ==
  ASSUME ProxyInv, NEW t \in DOMAIN tokens, NEW p \in People, NEW c \in ClientIds,
         NEW cut \in BOOLEAN, AddClient(t, p, c, cut)
  PROVE  ProxyInv'
  <1> DEFINE row == [owner |-> p, limit |-> tokens[t].limit, most |-> tokens[t].limit,
                     expires |-> ExpiryOf(t), today |-> 0]
             new == [client |-> c, token |-> t, cut |-> cut]
  <1>1. t \in Tokens /\ tokens[t] \in TokenRow /\ now \in Nat
    BY DEF ProxyInv, ProxyTypeOK, AllRows
  <1>2. ExpiryOf(t) \in Nat
    <2>1. tokens[t].group \in Groups /\ tokens[t].expires \in Nat
      BY <1>1 DEF TokenRow
    <2> QED
      BY <1>1, <2>1, MonthEndTyped DEF ExpiryOf, Groups, Never
  <1>3. row \in ClientRow /\ row.today = 0 /\ row.most = row.limit
    BY <1>1, <1>2 DEF TokenRow, ClientRow
  <1> HIDE DEF row
  <1>4. /\ \A i \in issued : i.client # c
        /\ ~tokens[t].used
        /\ clients' = With(clients, c, row)
        /\ IF cut THEN UNCHANGED tokens /\ requests' = NoRows
                  ELSE MarkUsed(t) /\ UNCHANGED requests
        /\ issued' = issued \union {new}
        /\ UNCHANGED <<maxClients, acts, now>>
    BY DEF AddClient, Redeemable, row
  <1>5. /\ DOMAIN tokens' = DOMAIN tokens
        /\ \A x \in DOMAIN tokens : x # t => tokens'[x] = tokens[x]
        /\ tokens'[t] \in TokenRow
        /\ ~cut => tokens'[t].used
    BY <1>1, <1>4 DEF MarkUsed, TokenRow
  <1>6. /\ AllRows(requests', Requests, RequestState)
        /\ \A r \in DOMAIN requests' : r \in DOMAIN requests /\ requests'[r] = requests[r]
    BY <1>4 DEF ProxyInv, ProxyTypeOK, AllRows, NoRows
  <1>7. c \notin DOMAIN clients
    BY <1>4 DEF ProxyInv, ClientsIssued
  <1>8. MostIsHighest' /\ OvershootBounded'
    BY <1>3, <1>4, <1>6, <1>7, Admission
  <1>9. ProxyTypeOK'
    <2>1. AllRows(clients', ClientIds, ClientRow)
      BY <1>3, <1>4 DEF ProxyInv, ProxyTypeOK, AllRows, With
    <2>2. AllRows(tokens', Tokens, TokenRow)
      BY <1>5 DEF ProxyInv, ProxyTypeOK, AllRows
    <2>3. issued' \subseteq [client : ClientIds, token : Tokens, cut : BOOLEAN]
      BY <1>1, <1>4 DEF ProxyInv, ProxyTypeOK
    <2> QED
      BY <1>4, <1>6, <2>1, <2>2, <2>3 DEF ProxyInv, ProxyTypeOK
  <1>10. ClientsIssued'
    <2>1. DOMAIN clients' = DOMAIN clients \union {c}
      BY <1>4 DEF With
    <2>2. issued \subseteq issued' /\ new \in issued' /\ new.client = c
      BY <1>4
    <2> HIDE DEF new
    <2> QED
      BY <2>1, <2>2 DEF ProxyInv, ClientsIssued
  <1>11. \A i \in issued : i.token = t => i.cut
    BY <1>4 DEF ProxyInv, RedeemedIsUsed
  <1>12. RedeemedIsUsed'
    <2> SUFFICES ASSUME NEW i \in issued', ~i.cut, i.token \in DOMAIN tokens'
                 PROVE  tokens'[i.token].used
      BY DEF RedeemedIsUsed
    <2>1. CASE i = new
      BY <1>5, <2>1
    <2>2. CASE i \in issued
      BY <1>5, <1>11, <2>2 DEF ProxyInv, RedeemedIsUsed
    <2> QED
      BY <1>4, <2>1, <2>2
  <1>13. InviteOnce'
    <2> SUFFICES ASSUME NEW i \in issued', NEW j \in issued', i.token = j.token, ~i.cut
                 PROVE  i = j \/ j.cut
      BY DEF InviteOnce
    <2>1. CASE i = new
      BY <1>4, <1>11, <2>1
    <2>2. CASE i \in issued /\ j \in issued
      BY <2>2 DEF ProxyInv, InviteOnce
    <2>3. CASE i \in issued /\ j = new
      BY <1>11, <2>3
    <2> QED
      BY <1>4, <2>1, <2>2, <2>3
  <1> QED
    BY <1>4, <1>8, <1>9, <1>10, <1>12, <1>13 DEF ProxyInv

LEMMA UpdateClientKeeps ==
  ASSUME ProxyInv, NEW c \in DOMAIN clients, UpdateClient(c)
  PROVE  ProxyInv'
  <1>1. PICK row \in {Regrouped(clients[c], g) : g \in Groups}
                       \union {WithLimit(clients[c], LimitOf(n)) : n \in OwnLimits}
                       \union {[clients[c] EXCEPT !.expires = now + 1]} :
              clients' = [clients EXCEPT ![c] = row]
    BY DEF UpdateClient
  <1>2. UNCHANGED <<tokens, maxClients, requests, issued, now>> /\ acts' \in Nat
    BY DEF UpdateClient, OwnerActs, ProxyInv, ProxyTypeOK
  <1> DEFINE old == clients[c]
  <1>3. /\ old \in ClientRow /\ LimitHad(old) /\ now \in Nat
    BY RowStays DEF ProxyInv
  <1>4. row \in ClientRow /\ Eased(old, row) /\ LimitHad(row)
    <2>1. CASE \E g \in Groups : row = Regrouped(old, g)
      BY <1>3, <2>1, RegroupedRow
    <2>2. CASE \E n \in OwnLimits : row = WithLimit(old, LimitOf(n))
      <3>1. PICK n \in OwnLimits : row = WithLimit(old, LimitOf(n))
        BY <2>2
      <3>2. LimitOf(n) \in DailyLimits
        BY LimitsTyped
      <3> QED
        BY <1>3, <3>1, <3>2, LimitSet
    <2>3. CASE row = [old EXCEPT !.expires = now + 1]
      <3>1. now + 1 \in Nat
        BY <1>3
      <3>2. row \in ClientRow /\ LimitHad(row) /\ row.today = old.today /\ row.most = old.most
        <4> HIDE DEF old
        <4> QED
          BY <1>3, <2>3, <3>1, EndSet
      <3> QED
        BY <1>3, <3>2, SameEased
    <2> QED
      BY <1>1, <2>1, <2>2, <2>3
  <1>5. /\ AllRows(clients', ClientIds, ClientRow) /\ DOMAIN clients' = DOMAIN clients
        /\ clients'[c] = row
        /\ \A d \in DOMAIN clients : d # c => clients'[d] = clients[d]
    BY <1>1, <1>4 DEF ProxyInv, ProxyTypeOK, AllRows
  <1>6. \A d \in DOMAIN clients' : Eased(clients[d], clients'[d]) /\ LimitHad(clients'[d])
    BY <1>4, <1>5, RowStays
  <1>7. /\ AllRows(tokens', Tokens, TokenRow) /\ maxClients' \in Rooms
        /\ \A t \in DOMAIN tokens' : t \in DOMAIN tokens /\ tokens'[t] = tokens[t]
    BY <1>2 DEF ProxyInv, ProxyTypeOK
  <1> QED
    BY <1>2, <1>5, <1>6, <1>7, ClientsChanged

LEMMA RevokeKeeps ==
  ASSUME ProxyInv, NEW c \in DOMAIN clients, RevokeAccess(c)
  PROVE  ProxyInv'
  <1>1. /\ AllRows(clients', ClientIds, ClientRow) /\ DOMAIN clients' \subseteq DOMAIN clients
        /\ \A d \in DOMAIN clients' : clients'[d] = clients[d]
    BY DEF RevokeAccess, Only, ProxyInv, ProxyTypeOK, AllRows
  <1>2. \A d \in DOMAIN clients' : Eased(clients[d], clients'[d]) /\ LimitHad(clients'[d])
    BY <1>1, RowStays
  <1>3. /\ AllRows(tokens', Tokens, TokenRow) /\ maxClients' \in Rooms /\ acts' \in Nat
        /\ \A t \in DOMAIN tokens' : t \in DOMAIN tokens /\ tokens'[t] = tokens[t]
        /\ UNCHANGED <<requests, issued, now>>
    BY DEF RevokeAccess, OwnerActs, ProxyInv, ProxyTypeOK
  <1> QED
    BY <1>1, <1>2, <1>3, ClientsChanged

LEMMA CleanupKeeps ==
  ASSUME ProxyInv, CleanupExpiredClients
  PROVE  ProxyInv'
  <1>1. /\ AllRows(clients', ClientIds, ClientRow) /\ DOMAIN clients' \subseteq DOMAIN clients
        /\ \A d \in DOMAIN clients' : clients'[d] = clients[d]
    BY DEF CleanupExpiredClients, Only, ProxyInv, ProxyTypeOK, AllRows
  <1>2. \A d \in DOMAIN clients' : Eased(clients[d], clients'[d]) /\ LimitHad(clients'[d])
    BY <1>1, RowStays
  <1>3. /\ AllRows(tokens', Tokens, TokenRow)
        /\ \A t \in DOMAIN tokens' : t \in DOMAIN tokens /\ tokens'[t] = tokens[t]
    BY DEF CleanupExpiredClients, Only, ProxyInv, ProxyTypeOK, AllRows
  <1>4. UNCHANGED <<requests, issued, now>> /\ maxClients' \in Rooms /\ acts' \in Nat
    BY DEF CleanupExpiredClients, ProxyInv, ProxyTypeOK
  <1> QED
    BY <1>1, <1>2, <1>3, <1>4, ClientsChanged

LEMMA ResetKeeps ==
  ASSUME ProxyInv, ResetDailyTraffic
  PROVE  ProxyInv'
  <1>1. clients' = [c \in DOMAIN clients |-> [clients[c] EXCEPT !.today = 0]]
    BY DEF ResetDailyTraffic
  <1>2. ASSUME NEW c \in DOMAIN clients
        PROVE  clients'[c] \in ClientRow /\ Eased(clients[c], clients'[c]) /\ LimitHad(clients'[c])
    <2>1. clients[c] \in ClientRow /\ LimitHad(clients[c]) /\ Eased(clients[c], clients[c])
      BY RowStays
    <2>2. /\ clients'[c] \in ClientRow /\ clients'[c].today = 0
          /\ clients'[c].most = clients[c].most /\ clients'[c].limit = clients[c].limit
          /\ clients[c].today \in Nat
      BY <1>1, <2>1 DEF ClientRow
    <2> QED
      BY <2>1, <2>2 DEF Eased, LimitHad
  <1>3. AllRows(clients', ClientIds, ClientRow) /\ DOMAIN clients' = DOMAIN clients
    BY <1>1, <1>2 DEF ProxyInv, ProxyTypeOK, AllRows
  <1>4. /\ AllRows(tokens', Tokens, TokenRow) /\ maxClients' \in Rooms /\ acts' \in Nat
        /\ \A t \in DOMAIN tokens' : t \in DOMAIN tokens /\ tokens'[t] = tokens[t]
        /\ UNCHANGED <<requests, issued, now>>
    BY DEF ResetDailyTraffic, OwnerActs, ProxyInv, ProxyTypeOK
  <1> QED
    BY <1>2, <1>3, <1>4, ClientsChanged

LEMMA SettingsKeeps ==
  ASSUME ProxyInv, UpdateSettings
  PROVE  ProxyInv'
  <1>1. UNCHANGED <<tokens, clients, requests, issued, now>> /\ maxClients' \in Rooms /\ acts' \in Nat
    BY DEF UpdateSettings, OwnerActs, ProxyInv, ProxyTypeOK
  <1> QED
    BY <1>1 DEF ProxyInv, ProxyTypeOK, MostIsHighest, OvershootBounded, Upstream,
                ClientsIssued, RedeemedIsUsed, InviteOnce

(* A request that begins or ends without a charge. *)
LEMMA RequestsChanged ==
  ASSUME ProxyInv, AllRows(requests', Requests, RequestState),
         \A r \in DOMAIN requests' :
             requests'[r].stage = "upstream" => r \in DOMAIN requests /\ requests'[r] = requests[r],
         UNCHANGED <<tokens, clients, maxClients, issued, acts, now>>
  PROVE  ProxyInv'
  <1>1. MostIsHighest' /\ OvershootBounded'
    BY RequestsOnly
  <1>2. ProxyTypeOK' /\ now' \in Nat /\ ClientsIssued' /\ RedeemedIsUsed' /\ InviteOnce'
    BY DEF ProxyInv, ProxyTypeOK, ClientsIssued, RedeemedIsUsed, InviteOnce
  <1> QED
    BY <1>1, <1>2 DEF ProxyInv

LEMMA StartKeeps ==
  ASSUME ProxyInv, NEW r \in Requests, NEW c \in DOMAIN clients, StartRequest(r, c)
  PROVE  ProxyInv'
  <1>1. requests' = With(requests, r, [stage |-> "reading", client |-> c])
    BY DEF StartRequest
  <1>2. c \in ClientIds
    BY DEF ProxyInv, ProxyTypeOK, AllRows
  <1>3. /\ AllRows(requests', Requests, RequestState)
        /\ \A x \in DOMAIN requests' :
             requests'[x].stage = "upstream" => x \in DOMAIN requests /\ requests'[x] = requests[x]
    BY <1>1, <1>2 DEF ProxyInv, ProxyTypeOK, AllRows, With, RequestState
  <1> QED
    BY <1>3, RequestsChanged DEF StartRequest

LEMMA FailedKeeps ==
  ASSUME ProxyInv, NEW r \in DOMAIN requests, Failed(r)
  PROVE  ProxyInv'
  <1>1. /\ AllRows(requests', Requests, RequestState)
        /\ \A x \in DOMAIN requests' : x \in DOMAIN requests /\ requests'[x] = requests[x]
    BY DEF Failed, ProxyInv, ProxyTypeOK, AllRows, Only
  <1> QED
    BY <1>1, RequestsChanged DEF Failed

LEMMA ProxyStep ==
  ASSUME ProxyInv, [ProxyNext]_<<proxyVars, now>>
  PROVE  ProxyInv'
  <1>1. CASE UNCHANGED <<proxyVars, now>>
    BY <1>1 DEF proxyVars, ProxyInv, ProxyTypeOK, MostIsHighest, OvershootBounded, Upstream,
                ClientsIssued, RedeemedIsUsed, InviteOnce
  <1>2. CASE ProxyTick
    <2>1. now' \in Nat
      BY <1>2 DEF ProxyTick, Tick, ProxyInv
    <2> QED
      BY <1>2, <2>1 DEF ProxyTick, proxyVars, ProxyInv, ProxyTypeOK, MostIsHighest,
                OvershootBounded, Upstream, ClientsIssued, RedeemedIsUsed, InviteOnce
  <1>3. CASE \E t \in Tokens, group \in Groups :
                \E limit \in {GroupLimit(g) : g \in Groups} \union {LimitOf(n) : n \in OwnLimits} :
                    GenerateInvite(t, group, limit)
    <2>1. PICK t \in Tokens, group \in Groups,
               limit \in {GroupLimit(g) : g \in Groups} \union {LimitOf(n) : n \in OwnLimits} :
               GenerateInvite(t, group, limit)
      BY <1>3
    <2>2. limit \in DailyLimits
      BY LimitsTyped
    <2> QED
      BY <2>1, <2>2, GenerateKeeps
  <1>4. CASE \E t \in DOMAIN tokens, p \in People, c \in ClientIds, cut \in BOOLEAN :
                AddClient(t, p, c, cut)
    BY <1>4, AddClientKeeps
  <1>5. CASE Owner
    BY <1>5, UpdateClientKeeps, RevokeKeeps, ResetKeeps, SettingsKeeps DEF Owner
  <1>6. CASE \E r \in Requests, c \in DOMAIN clients : StartRequest(r, c)
    BY <1>6, StartKeeps
  <1>7. CASE \E r \in DOMAIN requests :
                \/ \E n \in 0..MaxAnswer : Forward(r, n) \/ Answered(r, n)
                \/ Failed(r)
    BY <1>7, ForwardKeeps, AnsweredKeeps, FailedKeeps
  <1>8. CASE CleanupExpiredClients
    BY <1>8, CleanupKeeps
  <1> QED
    BY <1>1, <1>2, <1>3, <1>4, <1>5, <1>6, <1>7, <1>8 DEF ProxyNext

(* The clients, the requests of each, and the invites that were redeemed fit
   together in every reachable state. *)
THEOREM ProxyInvariance == ProxySpec => []ProxyInv
  <1>1. ProxyInit /\ now = 0 => ProxyInv
    BY ProxyInit_Inv
  <1>2. ProxyInv /\ [ProxyNext]_<<proxyVars, now>> => ProxyInv'
    BY ProxyStep
  <1> QED
    BY <1>1, <1>2, PTL DEF ProxySpec

(* For any number of requests under way and any size of an answer: a client is
   served beyond the limits it has had by the answers of those requests at most,
   although only the passing of a request is checked and an answer is charged
   unchecked; new limits, new days and revocations do not add to it. *)
THEOREM OvershootIsBounded == ProxySpec => []OvershootBounded
  <1>1. ProxyInv => OvershootBounded
    BY DEF ProxyInv
  <1> QED
    BY <1>1, ProxyInvariance, PTL

(* An invite that was redeemed to the end admits one client, for any number of
   clients and of redemptions that are cut short. *)
THEOREM InvitesAdmitOnce == ProxySpec => []InviteOnce
  <1>1. ProxyInv => InviteOnce
    BY DEF ProxyInv
  <1> QED
    BY <1>1, ProxyInvariance, PTL

-----------------------------------------------------------------------------
(* Accounts, sessions and contacts. *)

HIDE ProxyAssumption
USE AccountsAssumption, SessionsAssumption

(* What the list of a window holds is the history as far as it still counts,
   and the history has not reached the future. *)
Tracks(window, history, period) ==
    \A t \in Ticks : /\ t + period >= now => window[t] = history[t]
                     /\ t > now => history[t] = 0

(* No window of the period holds more than the limit. *)
KeepsLimit(history, limit, period) == \A t \in Ticks : Within(history, t, period) <= limit

(* Both limits: the lists of a process say of its past what still counts, and
   its past keeps within the limit in every window. *)
WindowInv ==
    /\ \A c \in Clients :
          /\ Tracks(stamps[c], admitted[c], RegistrationPeriod)
          /\ KeepsLimit(admitted[c], RegistrationLimit, RegistrationPeriod)
    /\ \A m \in Mailboxes :
          /\ Tracks(attempts[m], mailed[m], RecoveryPeriod)
          /\ KeepsLimit(mailed[m], RecoveryLimit, RecoveryPeriod)

(* A recovery link is of an account. *)
LinksHeld == \A l \in links : \E x \in accounts : Id(x) = l.of

(* A registration that is not counted yet would still be let through. *)
Admitting ==
    \A p \in AccountProcesses : \A r \in registering[p] :
        r.next # "done" => Check(stamps[<<p, r.address>>], RegistrationLimit, RegistrationPeriod)

(* While no other process has registered it at a time, a phrase is registered by
   one process, and has but the rows that its registration has inserted. *)
Uncontested ==
    \A p \in AccountProcesses : \A r \in registering[p] :
        r.phrase \notin overlapped =>
            /\ \A q \in AccountProcesses \ {p} : \A s \in registering[q] : s.phrase # r.phrase
            /\ \A x \in accounts : x.phrase = r.phrase =>
                  r.next = "done" \/ (r.next = "client" /\ x.role = "server")

(* The inductive invariant of the accounts. *)
AccountsInv ==
    /\ now \in Ticks
    /\ AccountsTypeOK
    /\ PhraseRegistersOnce
    /\ LinksHeld
    /\ WindowInv
    /\ Admitting
    /\ Uncontested

-----------------------------------------------------------------------------
(* The sliding window.                                                      *)

(* A list of times is finite, so that its length is a number. *)
LEMMA StampsFinite ==
  ASSUME NEW S \in SUBSET Ticks, NEW window \in [S -> Nat]
  PROVE  IsFiniteSet(Stamps(window)) /\ Total(window) \in Nat
  <1> DEFINE f == [t \in S |-> {t} \X (1..window[t])]
             T == {{t} \X (1..window[t]) : t \in S}
  <1>1. IsFiniteSet(S)
    <2>1. IsFiniteSet(Ticks)
      <3>1. 0 \in Int /\ MaxNow \in Int
        OBVIOUS
      <3> QED
        BY <3>1, FS_Interval DEF Ticks
    <2> QED
      BY <2>1, FS_Subset
  <1>2. f \in Surjection(S, T)
    BY DEF Surjection
  <1>3. IsFiniteSet(T)
    BY <1>1, <1>2, FS_Surjection
  <1>4. ASSUME NEW t \in S
        PROVE  IsFiniteSet({t} \X (1..window[t]))
    <2>1. IsFiniteSet({t}) /\ IsFiniteSet(1..window[t])
      <3>1. 1 \in Int /\ window[t] \in Int
        OBVIOUS
      <3> QED
        BY <3>1, FS_Singleton, FS_Interval
    <2> QED
      BY <2>1, FS_Product
  <1>5. IsFiniteSet(UNION T)
    BY <1>3, <1>4, FS_UNION
  <1>6. Stamps(window) = UNION T
    BY DEF Stamps
  <1> QED
    BY <1>5, <1>6, FS_CardinalityType DEF Total

(* The entries of a list: as many of a time as the list counts. *)
LEMMA StampsAre ==
  ASSUME NEW S \in SUBSET Ticks, NEW window \in [S -> Nat]
  PROVE  Stamps(window) = {p \in Ticks \X Nat : p[1] \in S /\ 1 <= p[2] /\ p[2] <= window[p[1]]}
  <1>1. ASSUME NEW p \in Stamps(window)
        PROVE  p \in Ticks \X Nat /\ p[1] \in S /\ 1 <= p[2] /\ p[2] <= window[p[1]]
    <2>1. PICK t \in S : p \in {t} \X (1..window[t])
      BY DEF Stamps
    <2> QED
      BY <2>1
  <1>2. ASSUME NEW p \in Ticks \X Nat, p[1] \in S, 1 <= p[2], p[2] <= window[p[1]]
        PROVE  p \in Stamps(window)
    <2>1. window[p[1]] \in Nat
      BY <1>2
    <2>2. p \in {p[1]} \X (1..window[p[1]])
      BY <1>2, <2>1
    <2> QED
      BY <1>2, <2>2 DEF Stamps
  <1> QED
    BY <1>1, <1>2

(* An event at a time when fewer than the limit of those before it still count
   leaves every window of the period within the limit. *)
LEMMA EventAdmitted ==
  ASSUME now \in Ticks, NEW window \in [Ticks -> Nat], NEW history \in [Ticks -> Nat],
         NEW limit \in Nat, NEW period \in Nat,
         Tracks(window, history, period), KeepsLimit(history, limit, period),
         Check(window, limit, period)
  PROVE  LET next == [history EXCEPT ![now] = @ + 1]
         IN  /\ Tracks(Stamped(window, period), next, period)
             /\ KeepsLimit(next, limit, period)
             /\ Stamped(window, period) \in [Ticks -> Nat]
             /\ next \in [Ticks -> Nat]
  <1> DEFINE next == [history EXCEPT ![now] = @ + 1]
             recent == Recent(window, period)
  <1>1. /\ next \in [Ticks -> Nat] /\ next[now] = history[now] + 1
        /\ \A t \in Ticks \ {now} : next[t] = history[t]
    OBVIOUS
  <1>2. /\ recent \in [Ticks -> Nat]
        /\ \A t \in Ticks : t + period >= now => recent[t] = window[t]
    BY DEF Recent, Ticks
  <1>3. /\ Stamped(window, period) \in [Ticks -> Nat]
        /\ Stamped(window, period)[now] = recent[now] + 1
        /\ \A t \in Ticks \ {now} : Stamped(window, period)[t] = recent[t]
    BY <1>2 DEF Stamped
  <1>4. Total(recent) < limit
    BY DEF Check
  <1> HIDE DEF next, recent
  <1>5. Tracks(Stamped(window, period), next, period)
    <2> SUFFICES ASSUME NEW t \in Ticks
                 PROVE  /\ t + period >= now => Stamped(window, period)[t] = next[t]
                        /\ t > now => next[t] = 0
      BY DEF Tracks
    <2>1. CASE t = now
      <3>1. next[t] = history[t] + 1 /\ Stamped(window, period)[t] = recent[t] + 1
        BY <1>1, <1>3, <2>1
      <3>2. t \in Nat /\ now + period >= now
        BY DEF Ticks
      <3>3. recent[t] = window[t] /\ window[t] = history[t]
        BY <1>2, <2>1, <3>2 DEF Tracks
      <3>4. ~(t > now)
        BY <2>1, <3>2
      <3> QED
        BY <3>1, <3>3, <3>4
    <2>2. CASE t # now
      <3>1. /\ next[t] = history[t] /\ Stamped(window, period)[t] = recent[t]
            /\ t + period >= now => recent[t] = window[t]
        BY <1>1, <1>2, <1>3, <2>2
      <3>2. /\ t + period >= now => window[t] = history[t]
            /\ t > now => history[t] = 0
        BY DEF Tracks
      <3> QED
        BY <3>1, <3>2
    <2> QED
      BY <2>1, <2>2
  <1>6. ASSUME NEW t \in Ticks
        PROVE  Within(next, t, period) <= limit
    <2> DEFINE S == Ticks \intersect t..(t + period)
               old == [u \in S |-> history[u]]
               new == [u \in S |-> next[u]]
    <2>1. S \in SUBSET Ticks /\ old \in [S -> Nat] /\ new \in [S -> Nat]
      BY <1>1
    <2>2. Within(history, t, period) = Total(old) /\ Within(next, t, period) = Total(new)
      BY DEF Within
    <2>3. CASE now \notin S
      <3>1. old = new
        BY <1>1, <2>3
      <3> QED
        BY <2>2, <3>1 DEF KeepsLimit
    <2>4. CASE now \in S
      <3> DEFINE e == <<now, history[now] + 1>>
      <3>1. \A u \in S : u \in Ticks /\ recent[u] = history[u]
        <4> SUFFICES ASSUME NEW u \in S
                     PROVE  u \in Ticks /\ recent[u] = history[u]
          OBVIOUS
        <4>1. u \in Ticks /\ t \in Nat /\ u \in Nat /\ now \in Nat
          BY DEF Ticks
        <4>2. t <= u /\ now <= t + period
          BY <2>4, <4>1
        <4>3. u + period >= now
          BY <4>1, <4>2
        <4> QED
          BY <1>2, <4>1, <4>3 DEF Tracks
      <3>2. \A u \in S : new[u] = IF u = now THEN old[u] + 1 ELSE old[u]
        BY <1>1, <2>4
      <3>3. Stamps(old) \in SUBSET Stamps(recent)
        <4>1. \A u \in S : old[u] = recent[u]
          BY <3>1
        <4> HIDE DEF S, old
        <4>2. /\ Stamps(old) = {p \in Ticks \X Nat : p[1] \in S /\ 1 <= p[2] /\ p[2] <= old[p[1]]}
              /\ Stamps(recent) = {p \in Ticks \X Nat : p[1] \in Ticks /\ 1 <= p[2] /\ p[2] <= recent[p[1]]}
          BY <1>2, <2>1, StampsAre
        <4> QED
          BY <2>1, <4>1, <4>2
      <3>4. Stamps(new) \in SUBSET (Stamps(old) \union {e})
        <4>1. old[now] = history[now] /\ now \in S
          BY <2>4
        <4> HIDE DEF S, old, new
        <4>2. /\ Stamps(old) = {p \in Ticks \X Nat : p[1] \in S /\ 1 <= p[2] /\ p[2] <= old[p[1]]}
              /\ Stamps(new) = {p \in Ticks \X Nat : p[1] \in S /\ 1 <= p[2] /\ p[2] <= new[p[1]]}
          BY <2>1, StampsAre
        <4> SUFFICES ASSUME NEW p \in Stamps(new), p \notin Stamps(old)
                     PROVE  p = e
          OBVIOUS
        <4>3. p \in Ticks \X Nat /\ p[1] \in S /\ 1 <= p[2] /\ p[2] <= new[p[1]] /\ ~(p[2] <= old[p[1]])
          BY <4>2
        <4>4. p[1] = now /\ p[2] <= old[now] + 1 /\ ~(p[2] <= old[now]) /\ old[now] \in Nat /\ p[2] \in Nat
          BY <2>1, <3>2, <4>1, <4>3
        <4>5. p[2] = old[now] + 1
          BY <4>4
        <4> QED
          BY <4>1, <4>3, <4>4, <4>5
      <3>5. /\ IsFiniteSet(Stamps(recent)) /\ Total(recent) \in Nat
            /\ IsFiniteSet(Stamps(old)) /\ Total(old) \in Nat /\ Total(new) \in Nat
        <4> HIDE DEF S, old, new
        <4> QED
          BY <1>2, <2>1, StampsFinite
      <3> HIDE DEF S, old, new, e
      <3>6. Cardinality(Stamps(old)) <= Cardinality(Stamps(recent))
        BY <3>3, <3>5, FS_Subset
      <3>7. /\ IsFiniteSet(Stamps(old) \union {e})
            /\ Cardinality(Stamps(old) \union {e}) <= Cardinality(Stamps(old)) + 1
        <4>1. Cardinality(Stamps(old)) \in Nat
          BY <3>5 DEF Total
        <4>2. /\ IsFiniteSet(Stamps(old) \union {e})
              /\ Cardinality(Stamps(old) \union {e})
                   = IF e \in Stamps(old) THEN Cardinality(Stamps(old)) ELSE Cardinality(Stamps(old)) + 1
          BY <3>5, FS_AddElement
        <4> QED
          BY <4>1, <4>2
      <3>8. Cardinality(Stamps(new)) <= Cardinality(Stamps(old) \union {e})
        BY <3>4, <3>7, FS_Subset
      <3>9. Cardinality(Stamps(old) \union {e}) \in Nat
        BY <3>7, FS_CardinalityType
      <3>10. Total(new) <= limit
        BY <1>4, <3>5, <3>6, <3>7, <3>8, <3>9 DEF Total
      <3> QED
        BY <2>2, <3>10
    <2> QED
      BY <2>3, <2>4
  <1>7. KeepsLimit(next, limit, period)
    BY <1>6 DEF KeepsLimit
  <1> QED
    BY <1>1, <1>3, <1>5, <1>7 DEF next

(* Nothing has happened yet. *)
LEMMA QuietLimited ==
  ASSUME NEW limit \in Nat, NEW period \in Nat
  PROVE  /\ Quiet \in [Ticks -> Nat]
         /\ Tracks(Quiet, Quiet, period) /\ KeepsLimit(Quiet, limit, period)
  <1>1. Quiet \in [Ticks -> Nat] /\ \A t \in Ticks : Quiet[t] = 0
    BY DEF Quiet
  <1>2. ASSUME NEW t \in Ticks
        PROVE  Within(Quiet, t, period) <= limit
    <2> DEFINE S == Ticks \intersect t..(t + period)
               w == [u \in S |-> Quiet[u]]
    <2>1. S \in SUBSET Ticks /\ w \in [S -> Nat] /\ \A u \in S : w[u] = 0
      BY <1>1
    <2>2. Within(Quiet, t, period) = Total(w)
      BY DEF Within
    <2> HIDE DEF S, w
    <2>3. Stamps(w) = {}
      BY <2>1, StampsAre
    <2>4. Total(w) = 0
      BY <2>3, FS_EmptySet DEF Total
    <2> QED
      BY <2>2, <2>4
  <1> QED
    BY <1>1, <1>2 DEF Tracks, KeepsLimit

-----------------------------------------------------------------------------
(* The steps of the accounts.                                               *)

(* Nothing was counted and no time has passed. *)
NoEvents == UNCHANGED <<stamps, attempts, admitted, mailed, now>>

LEMMA LimitsAreNumbers ==
  /\ RegistrationLimit \in Nat /\ RegistrationPeriod \in Nat
  /\ RecoveryLimit \in Nat /\ RecoveryPeriod \in Nat /\ LinkLife \in Nat
  OBVIOUS

LEMMA WindowsKept ==
  ASSUME WindowInv, NoEvents
  PROVE  WindowInv'
  BY DEF WindowInv, NoEvents, Tracks, KeepsLimit

(* What would be let through now would be later. *)
LEMMA CheckLater ==
  ASSUME now \in Ticks, now' \in Ticks, now <= now',
         NEW window \in [Ticks -> Nat], NEW limit \in Nat, NEW period \in Nat,
         Check(window, limit, period)
  PROVE  Check(window, limit, period)'
  <1> DEFINE v == Recent(window, period)
             w == [t \in Ticks |-> IF t + period >= now' THEN window[t] ELSE 0]
  <1>1. v \in [Ticks -> Nat] /\ w \in [Ticks -> Nat] /\ \A t \in Ticks : w[t] <= v[t]
    <2>1. v \in [Ticks -> Nat] /\ w \in [Ticks -> Nat]
      BY DEF Recent
    <2>2. ASSUME NEW t \in Ticks
          PROVE  w[t] <= v[t]
      <3>1. /\ v[t] = IF t + period >= now THEN window[t] ELSE 0
            /\ w[t] = IF t + period >= now' THEN window[t] ELSE 0
        BY DEF Recent
      <3>2. t \in Nat /\ now \in Nat /\ now' \in Nat /\ window[t] \in Nat
        BY DEF Ticks
      <3>3. t + period >= now' => t + period >= now
        BY <3>2
      <3> QED
        BY <3>1, <3>2, <3>3
    <2> QED
      BY <2>1, <2>2
  <1>2. Recent(window, period)' = w
    BY DEF Recent, Ticks
  <1> HIDE DEF v, w
  <1>3. /\ Stamps(v) = {p \in Ticks \X Nat : p[1] \in Ticks /\ 1 <= p[2] /\ p[2] <= v[p[1]]}
        /\ Stamps(w) = {p \in Ticks \X Nat : p[1] \in Ticks /\ 1 <= p[2] /\ p[2] <= w[p[1]]}
    BY <1>1, StampsAre
  <1>4. Stamps(w) \in SUBSET Stamps(v)
    <2> SUFFICES ASSUME NEW p \in Stamps(w)
                 PROVE  p \in Stamps(v)
      OBVIOUS
    <2>1. p \in Ticks \X Nat /\ p[1] \in Ticks /\ 1 <= p[2] /\ p[2] <= w[p[1]]
      BY <1>3
    <2>2. w[p[1]] \in Nat /\ v[p[1]] \in Nat /\ p[2] \in Nat /\ w[p[1]] <= v[p[1]]
      BY <1>1, <2>1
    <2>3. p[2] <= v[p[1]]
      BY <2>1, <2>2
    <2> QED
      BY <1>3, <2>1, <2>3
  <1>5. IsFiniteSet(Stamps(v)) /\ Total(v) \in Nat /\ Total(w) \in Nat
    BY <1>1, StampsFinite
  <1>6. Total(w) <= Total(v)
    BY <1>4, <1>5, FS_Subset DEF Total
  <1>7. Total(v) < limit
    BY DEF Check, v
  <1>8. Check(window, limit, period)' <=> Total(w) < limit
    BY <1>2 DEF Check, Total, Stamps
  <1> QED
    BY <1>5, <1>6, <1>7, <1>8

LEMMA AccountsInit_Inv ==
  ASSUME AccountsInit, now = 0
  PROVE  AccountsInv
  <1>1. /\ Quiet \in [Ticks -> Nat]
        /\ Tracks(Quiet, Quiet, RegistrationPeriod)
        /\ KeepsLimit(Quiet, RegistrationLimit, RegistrationPeriod)
        /\ Tracks(Quiet, Quiet, RecoveryPeriod) /\ KeepsLimit(Quiet, RecoveryLimit, RecoveryPeriod)
    BY QuietLimited, LimitsAreNumbers
  <1>2. /\ stamps = [c \in Clients |-> Quiet] /\ admitted = stamps
        /\ attempts = [m \in Mailboxes |-> Quiet] /\ mailed = attempts
        /\ accounts = {} /\ links = {} /\ refused = {} /\ overlapped = {}
        /\ registering = [p \in AccountProcesses |-> {}]
    BY DEF AccountsInit
  <1>3. WindowInv
    BY <1>1, <1>2 DEF WindowInv
  <1>4. AccountsTypeOK
    BY <1>1, <1>2 DEF AccountsTypeOK, Windows
  <1> QED
    BY <1>2, <1>3, <1>4
       DEF AccountsInv, Ticks, PhraseRegistersOnce, LinksHeld, Admitting, Uncontested

(* A process forgets what it has counted. *)
LEMMA ForgetKeeps ==
  ASSUME AccountsInv, NEW p \in AccountProcesses, now' = now,
         stamps' = Cleared(p, stamps), admitted' = Cleared(p, admitted),
         attempts' = Cleared(p, attempts), mailed' = Cleared(p, mailed)
  PROVE  /\ WindowInv'
         /\ stamps' \in Windows(Clients) /\ admitted' \in Windows(Clients)
         /\ attempts' \in Windows(Mailboxes) /\ mailed' \in Windows(Mailboxes)
         /\ \A c \in Clients : c[1] # p => stamps'[c] = stamps[c]
  <1>1. /\ stamps \in [Clients -> [Ticks -> Nat]] /\ admitted \in [Clients -> [Ticks -> Nat]]
        /\ attempts \in [Mailboxes -> [Ticks -> Nat]] /\ mailed \in [Mailboxes -> [Ticks -> Nat]]
    BY DEF AccountsInv, AccountsTypeOK, Windows
  <1>2. /\ stamps' = [c \in Clients |-> IF c[1] = p THEN Quiet ELSE stamps[c]]
        /\ admitted' = [c \in Clients |-> IF c[1] = p THEN Quiet ELSE admitted[c]]
        /\ attempts' = [c \in Mailboxes |-> IF c[1] = p THEN Quiet ELSE attempts[c]]
        /\ mailed' = [c \in Mailboxes |-> IF c[1] = p THEN Quiet ELSE mailed[c]]
    <2>1. /\ DOMAIN stamps = Clients /\ DOMAIN admitted = Clients
          /\ DOMAIN attempts = Mailboxes /\ DOMAIN mailed = Mailboxes
      BY <1>1
    <2> QED
      BY <2>1 DEF Cleared
  <1>3. /\ Quiet \in [Ticks -> Nat]
        /\ Tracks(Quiet, Quiet, RegistrationPeriod)
        /\ KeepsLimit(Quiet, RegistrationLimit, RegistrationPeriod)
        /\ Tracks(Quiet, Quiet, RecoveryPeriod) /\ KeepsLimit(Quiet, RecoveryLimit, RecoveryPeriod)
    BY QuietLimited, LimitsAreNumbers
  <1>4. ASSUME NEW c \in Clients
        PROVE  /\ Tracks(stamps'[c], admitted'[c], RegistrationPeriod)
               /\ KeepsLimit(admitted'[c], RegistrationLimit, RegistrationPeriod)
    BY <1>2, <1>3 DEF AccountsInv, WindowInv
  <1>5. ASSUME NEW m \in Mailboxes
        PROVE  /\ Tracks(attempts'[m], mailed'[m], RecoveryPeriod)
               /\ KeepsLimit(mailed'[m], RecoveryLimit, RecoveryPeriod)
    BY <1>2, <1>3 DEF AccountsInv, WindowInv
  <1>6. WindowInv'
    BY <1>4, <1>5 DEF WindowInv, Tracks
  <1>7. stamps' \in Windows(Clients) /\ admitted' \in Windows(Clients)
    BY <1>1, <1>2, <1>3 DEF Windows
  <1>8. attempts' \in Windows(Mailboxes) /\ mailed' \in Windows(Mailboxes)
    BY <1>1, <1>2, <1>3 DEF Windows
  <1> QED
    BY <1>2, <1>6, <1>7, <1>8

(* A registration that was let through is an event of its address. *)
LEMMA RegistrationCounted ==
  ASSUME AccountsInv, NEW server \in BOOLEAN, NEW client \in Clients,
         Check(stamps[client], RegistrationLimit, RegistrationPeriod),
         CountRegistration(server, client),
         admitted' = [admitted EXCEPT ![client][now] = @ + 1],
         UNCHANGED <<attempts, mailed, now>>
  PROVE  /\ WindowInv'
         /\ stamps' \in Windows(Clients) /\ admitted' \in Windows(Clients)
         /\ \A c \in Clients : c # client => stamps'[c] = stamps[c]
  <1> DEFINE w == stamps[client]
             h == admitted[client]
             next == [h EXCEPT ![now] = @ + 1]
             more == Stamped(w, RegistrationPeriod)
  <1>1. /\ now \in Ticks /\ w \in [Ticks -> Nat] /\ h \in [Ticks -> Nat]
        /\ Tracks(w, h, RegistrationPeriod) /\ KeepsLimit(h, RegistrationLimit, RegistrationPeriod)
        /\ Check(w, RegistrationLimit, RegistrationPeriod)
    BY DEF AccountsInv, AccountsTypeOK, Windows, WindowInv
  <1>2. /\ Tracks(more, next, RegistrationPeriod)
        /\ KeepsLimit(next, RegistrationLimit, RegistrationPeriod)
        /\ more \in [Ticks -> Nat] /\ next \in [Ticks -> Nat]
    <2> HIDE DEF w, h
    <2> QED
      BY <1>1, EventAdmitted, LimitsAreNumbers
  <1>3. /\ stamps' = [stamps EXCEPT ![client] = more]
        /\ admitted' = [admitted EXCEPT ![client] = next]
    BY DEF CountRegistration
  <1> HIDE DEF w, h, more, next
  <1>4. /\ stamps \in [Clients -> [Ticks -> Nat]] /\ admitted \in [Clients -> [Ticks -> Nat]]
    BY DEF AccountsInv, AccountsTypeOK, Windows
  <1>5. stamps' \in Windows(Clients) /\ admitted' \in Windows(Clients)
    BY <1>2, <1>3, <1>4 DEF Windows
  <1>6. ASSUME NEW c \in Clients
        PROVE  /\ Tracks(stamps'[c], admitted'[c], RegistrationPeriod)
               /\ KeepsLimit(admitted'[c], RegistrationLimit, RegistrationPeriod)
    <2>1. CASE c = client
      BY <1>2, <1>3, <1>4, <2>1
    <2>2. CASE c # client
      <3>1. stamps'[c] = stamps[c] /\ admitted'[c] = admitted[c]
        BY <1>3, <1>4, <2>2
      <3> QED
        BY <3>1 DEF AccountsInv, WindowInv
    <2> QED
      BY <2>1, <2>2
  <1>7. WindowInv'
    BY <1>6 DEF AccountsInv, WindowInv, Tracks
  <1> QED
    BY <1>3, <1>4, <1>5, <1>7

(* request_password_recovery() counts an attempt for the address it mails to. *)
LEMMA AttemptCounted ==
  ASSUME AccountsInv, NEW e, NEW m \in Mailboxes,
         Check(attempts[m], RecoveryLimit, RecoveryPeriod), CountAttempt(e, m),
         mailed' = [mailed EXCEPT ![m][now] = @ + 1],
         UNCHANGED <<stamps, admitted, now>>
  PROVE  /\ WindowInv'
         /\ attempts' \in Windows(Mailboxes) /\ mailed' \in Windows(Mailboxes)
  <1> DEFINE w == attempts[m]
             h == mailed[m]
             next == [h EXCEPT ![now] = @ + 1]
             more == Stamped(w, RecoveryPeriod)
  <1>1. /\ now \in Ticks /\ w \in [Ticks -> Nat] /\ h \in [Ticks -> Nat]
        /\ Tracks(w, h, RecoveryPeriod) /\ KeepsLimit(h, RecoveryLimit, RecoveryPeriod)
        /\ Check(w, RecoveryLimit, RecoveryPeriod)
    BY DEF AccountsInv, AccountsTypeOK, Windows, WindowInv
  <1>2. /\ Tracks(more, next, RecoveryPeriod)
        /\ KeepsLimit(next, RecoveryLimit, RecoveryPeriod)
        /\ more \in [Ticks -> Nat] /\ next \in [Ticks -> Nat]
    <2> HIDE DEF w, h
    <2> QED
      BY <1>1, EventAdmitted, LimitsAreNumbers
  <1>3. /\ attempts' = [attempts EXCEPT ![m] = more]
        /\ mailed' = [mailed EXCEPT ![m] = next]
    BY DEF CountAttempt
  <1> HIDE DEF w, h, more, next
  <1>4. /\ attempts \in [Mailboxes -> [Ticks -> Nat]] /\ mailed \in [Mailboxes -> [Ticks -> Nat]]
    BY DEF AccountsInv, AccountsTypeOK, Windows
  <1>5. attempts' \in Windows(Mailboxes) /\ mailed' \in Windows(Mailboxes)
    <2> DEFINE R == [Ticks -> Nat]
    <2>1. /\ more \in R /\ attempts \in [Mailboxes -> R]
          /\ next \in R /\ mailed \in [Mailboxes -> R]
      BY <1>2, <1>4
    <2> HIDE DEF R
    <2>2. attempts' \in [Mailboxes -> R]
      BY <1>3, <2>1
    <2>3. mailed' = [mailed EXCEPT ![m] = next]
      BY <1>3
    <2>4. mailed' \in [Mailboxes -> R]
      BY <2>1, <2>3
    <2> QED
      BY <2>2, <2>4 DEF Windows, R
  <1>6. ASSUME NEW a \in Mailboxes
        PROVE  /\ Tracks(attempts'[a], mailed'[a], RecoveryPeriod)
               /\ KeepsLimit(mailed'[a], RecoveryLimit, RecoveryPeriod)
    <2>1. CASE a = m
      BY <1>2, <1>3, <1>4, <2>1
    <2>2. CASE a # m
      <3>1. attempts'[a] = attempts[a] /\ mailed'[a] = mailed[a]
        BY <1>3, <1>4, <2>2
      <3> QED
        BY <3>1 DEF AccountsInv, WindowInv
    <2> QED
      BY <2>1, <2>2
  <1>7. WindowInv'
    BY <1>6 DEF AccountsInv, WindowInv, Tracks
  <1> QED
    BY <1>5, <1>7

(* A check says the same as long as no time passes. *)
LEMMA CheckKept ==
  ASSUME now' = now, NEW window, NEW limit, NEW period, Check(window, limit, period)
  PROVE  Check(window, limit, period)'
  BY DEF Check, Recent, Total, Stamps, Ticks

(* Of the registrations under way none is new, and what they are checked
   against is as it was. *)
LEMMA AdmittingKept ==
  ASSUME Admitting, now' = now,
         NEW same \in SUBSET AccountProcesses,
         \A p \in same : registering'[p] = registering[p],
         \A p \in same : \A m \in Addresses : stamps'[<<p, m>>] = stamps[<<p, m>>],
         \A p \in same : \A r \in registering[p] : r.address \in Addresses,
         \A p \in AccountProcesses \ same : \A r \in registering'[p] : r.next = "done"
  PROVE  Admitting'
  <1> SUFFICES ASSUME NEW p \in AccountProcesses, NEW r \in registering'[p], r.next # "done"
               PROVE  Check(stamps[<<p, r.address>>], RegistrationLimit, RegistrationPeriod)'
    BY DEF Admitting
  <1>1. p \in same
    OBVIOUS
  <1>2. r \in registering[p] /\ stamps'[<<p, r.address>>] = stamps[<<p, r.address>>]
    BY <1>1
  <1> DEFINE window == stamps'[<<p, r.address>>]
  <1>3. Check(window, RegistrationLimit, RegistrationPeriod)
    BY <1>2 DEF Admitting
  <1> QED
    BY <1>3 DEF Check, Recent, Total, Stamps, Ticks

(* Each row of a phrase and a role still has one, possibly renewed. *)
RowsStay == \A x \in accounts : \E y \in accounts' : y.phrase = x.phrase /\ y.role = x.role

LEMMA RowAt ==
  ASSUME NEW i \in Ids, NEW password \in Passwords
  PROVE  /\ Row(i, password) \in Account
         /\ Row(i, password).phrase = i.phrase /\ Row(i, password).role = i.role
         /\ Id(Row(i, password)) = i
  BY DEF Row, Account, Ids, Id, Roles

LEMMA IdOf ==
  ASSUME NEW x \in Account
  PROVE  Id(x) \in Ids /\ Id(x).phrase = x.phrase /\ Id(x).role = x.role
  BY DEF Account, Id, Ids

(* A row that a registration inserts: the phrase has none of its role, unless
   another process registers it too. *)
LEMMA RowInserted ==
  ASSUME AccountsInv, NEW i \in Ids, NEW password \in Passwords,
         \A x \in accounts : x.phrase = i.phrase /\ x.role = i.role => i.phrase \in overlapped,
         accounts' = accounts \union {Row(i, password)},
         UNCHANGED <<links, overlapped>>
  PROVE  accounts' \subseteq Account /\ PhraseRegistersOnce' /\ LinksHeld' /\ RowsStay
  <1> DEFINE y == Row(i, password)
  <1>1. y \in Account /\ y.phrase = i.phrase /\ y.role = i.role
    BY RowAt
  <1>2. accounts' = accounts \union {y}
    OBVIOUS
  <1> HIDE DEF y
  <1>3. PhraseRegistersOnce'
    BY <1>1, <1>2 DEF AccountsInv, PhraseRegistersOnce
  <1> QED
    BY <1>1, <1>2, <1>3 DEF AccountsInv, AccountsTypeOK, LinksHeld, RowsStay, Id

(* Rows that are renewed in place keep their ids. *)
LEMMA RowsRenewed ==
  ASSUME AccountsInv, NEW f \in [accounts -> Account],
         \A x \in accounts : f[x].phrase = x.phrase /\ f[x].role = x.role /\ f[x].draw = x.draw,
         accounts' = {f[x] : x \in accounts},
         links' \subseteq links, overlapped' = overlapped
  PROVE  accounts' \subseteq Account /\ PhraseRegistersOnce' /\ LinksHeld' /\ RowsStay
  <1>1. accounts' \subseteq Account
    OBVIOUS
  <1>2. PhraseRegistersOnce'
    <2> SUFFICES ASSUME NEW x \in accounts, NEW y \in accounts,
                        f[x].phrase = f[y].phrase, f[x].role = f[y].role
                 PROVE  f[x] = f[y] \/ f[x].phrase \in overlapped
      BY DEF PhraseRegistersOnce
    <2>1. x.phrase = y.phrase /\ x.role = y.role
      OBVIOUS
    <2> QED
      BY <2>1 DEF AccountsInv, PhraseRegistersOnce
  <1>3. LinksHeld'
    <2> SUFFICES ASSUME NEW l \in links
                 PROVE  \E y \in accounts' : Id(y) = l.of
      BY DEF LinksHeld, Id
    <2>1. PICK x \in accounts : Id(x) = l.of
      BY DEF AccountsInv, LinksHeld
    <2>2. Id(f[x]) = Id(x)
      BY DEF Id
    <2> QED
      BY <2>1, <2>2
  <1>4. RowsStay
    BY DEF RowsStay
  <1> QED
    BY <1>1, <1>2, <1>3, <1>4

(* Registrations end, and no phrase gets a row. *)
LEMMA UncontestedKept ==
  ASSUME Uncontested, overlapped' = overlapped,
         \A p \in AccountProcesses : registering'[p] \subseteq registering[p],
         \A y \in accounts' : \E x \in accounts : x.phrase = y.phrase /\ x.role = y.role
  PROVE  Uncontested'
  <1> SUFFICES ASSUME NEW p \in AccountProcesses, NEW r \in registering'[p],
                      r.phrase \notin overlapped
               PROVE  /\ \A q \in AccountProcesses \ {p} :
                            \A s \in registering'[q] : s.phrase # r.phrase
                      /\ \A y \in accounts' : y.phrase = r.phrase =>
                            r.next = "done" \/ (r.next = "client" /\ y.role = "server")
    BY DEF Uncontested
  <1>1. r \in registering[p]
    OBVIOUS
  <1>2. /\ \A q \in AccountProcesses \ {p} : \A s \in registering[q] : s.phrase # r.phrase
        /\ \A x \in accounts : x.phrase = r.phrase =>
              r.next = "done" \/ (r.next = "client" /\ x.role = "server")
    BY <1>1 DEF Uncontested
  <1>3. ASSUME NEW q \in AccountProcesses \ {p}, NEW s \in registering'[q]
        PROVE  s.phrase # r.phrase
    BY <1>2
  <1>4. ASSUME NEW y \in accounts', y.phrase = r.phrase
        PROVE  r.next = "done" \/ (r.next = "client" /\ y.role = "server")
    <2>1. PICK x \in accounts : x.phrase = y.phrase /\ x.role = y.role
      OBVIOUS
    <2> QED
      BY <1>2, <1>4, <2>1
  <1> QED
    BY <1>3, <1>4

(* What a process does of its registration. *)
LEMMA RegistrationOf ==
  ASSUME AccountsInv, NEW p \in AccountProcesses, NEW r \in registering[p]
  PROVE  /\ r \in Registration /\ registering[p] = {r}
         /\ r.phrase \in Phrases /\ r.password \in Passwords /\ r.server \in BOOLEAN
         /\ r.address \in Addresses /\ <<p, r.address>> \in Clients
         /\ r.next \in Roles \union {"done"} /\ r.rows \in SUBSET Ids
         /\ registering \in [AccountProcesses -> SUBSET Registration]
  <1>1. registering \in [AccountProcesses -> SUBSET Registration]
    BY DEF AccountsInv, AccountsTypeOK
  <1>2. r \in Registration /\ registering[p] = {r}
    BY <1>1 DEF AccountsInv, AccountsTypeOK
  <1> QED
    BY <1>1, <1>2 DEF Registration, Clients

(* The checks let a phrase through that has no account; other processes that
   register it are remembered. *)
LEMMA RegisterKeeps ==
  ASSUME AccountsInv, NEW p \in AccountProcesses, NEW phrase \in Phrases,
         NEW password \in Passwords, NEW server \in BOOLEAN, NEW address \in Addresses,
         AccountRegister(p, phrase, password, server, address)
  PROVE  AccountsInv' /\ RowsStay
  <1> DEFINE r == [phrase |-> phrase, password |-> password, server |-> server,
                   address |-> address, next |-> IF server THEN "server" ELSE "client",
                   rows |-> {}]
             others == {f \in {phrase} :
                          \E q \in AccountProcesses : \E s \in registering[q] : s.phrase = f}
  <1>1. /\ registering[p] = {} /\ MayRegister(phrase, server, <<p, address>>)
        /\ registering' = [registering EXCEPT ![p] = {r}]
        /\ overlapped' = overlapped \union others
        /\ UNCHANGED <<accounts, links, stamps, attempts, admitted, mailed, refused, now>>
    BY DEF AccountRegister, Waiting
  <1>2. r \in Registration /\ r.phrase = phrase /\ r.address = address
    BY DEF Registration, Roles
  <1>3. /\ others \subseteq {phrase}
        /\ phrase \notin others =>
              \A q \in AccountProcesses : \A s \in registering[q] : s.phrase # phrase
    OBVIOUS
  <1>4. /\ \A x \in accounts : x.phrase # phrase
        /\ Check(stamps[<<p, address>>], RegistrationLimit, RegistrationPeriod)
    BY <1>1 DEF MayRegister
  <1> HIDE DEF r, others
  <1>5. /\ registering \in [AccountProcesses -> SUBSET Registration]
        /\ \A q \in AccountProcesses : \A s, t \in registering[q] : s = t
    BY DEF AccountsInv, AccountsTypeOK
  <1>6. AccountsTypeOK'
    <2>1. registering' \in [AccountProcesses -> SUBSET Registration]
      BY <1>1, <1>2, <1>5
    <2>2. \A q \in AccountProcesses : \A s, t \in registering'[q] : s = t
      BY <1>1, <1>5
    <2> QED
      BY <1>1, <1>3, <2>1, <2>2 DEF AccountsInv, AccountsTypeOK
  <1>7. PhraseRegistersOnce' /\ LinksHeld' /\ RowsStay
    BY <1>1 DEF AccountsInv, PhraseRegistersOnce, LinksHeld, RowsStay, Id
  <1>8. WindowInv'
    BY <1>1, WindowsKept DEF AccountsInv, NoEvents
  <1>9. Admitting'
    <2> SUFFICES ASSUME NEW q \in AccountProcesses, NEW s \in registering'[q], s.next # "done"
                 PROVE  Check(stamps[<<q, s.address>>], RegistrationLimit, RegistrationPeriod)'
      BY DEF Admitting
    <2>1. Check(stamps[<<q, s.address>>], RegistrationLimit, RegistrationPeriod)
      <3>1. CASE q = p
        BY <1>1, <1>2, <1>4, <1>5, <3>1
      <3>2. CASE q # p
        BY <1>1, <1>5, <3>2 DEF AccountsInv, Admitting
      <3> QED
        BY <3>1, <3>2
    <2> QED
      BY <1>1, <2>1 DEF Check, Recent, Total, Stamps, Ticks
  <1>10. Uncontested'
    <2> SUFFICES ASSUME NEW q \in AccountProcesses, NEW s \in registering'[q],
                        s.phrase \notin overlapped'
                 PROVE  /\ \A o \in AccountProcesses \ {q} :
                              \A t \in registering'[o] : t.phrase # s.phrase
                        /\ \A x \in accounts : x.phrase = s.phrase =>
                              s.next = "done" \/ (s.next = "client" /\ x.role = "server")
      BY <1>1 DEF Uncontested
    <2>1. s.phrase \notin overlapped /\ s.phrase \notin others
      BY <1>1
    <2>2. CASE q = p
      <3>1. s = r
        BY <1>1, <1>5, <2>2
      <3>2. \A o \in AccountProcesses : \A t \in registering[o] : t.phrase # phrase
        BY <1>2, <1>3, <2>1, <3>1
      <3> QED
        BY <1>1, <1>2, <1>4, <1>5, <2>2, <3>1, <3>2
    <2>3. CASE q # p
      <3>1. s \in registering[q]
        BY <1>1, <1>5, <2>3
      <3>2. s.phrase # phrase
        BY <1>3, <2>1, <3>1
      <3> QED
        BY <1>1, <1>2, <1>5, <2>1, <2>3, <3>1, <3>2 DEF AccountsInv, Uncontested
    <2> QED
      BY <2>2, <2>3
  <1> QED
    BY <1>1, <1>6, <1>7, <1>8, <1>9, <1>10 DEF AccountsInv

(* A process goes on with its registration. *)
LEMMA GoesOn ==
  ASSUME AccountsInv, NEW p \in AccountProcesses, NEW r \in registering[p],
         NEW next \in {"client", "done"}, NEW rows \in SUBSET Ids,
         GoOnWith(p, r, next, rows)
  PROVE  LET s == [r EXCEPT !.next = next, !.rows = rows]
         IN  /\ registering' = [registering EXCEPT ![p] = {s}]
             /\ s.phrase = r.phrase /\ s.address = r.address /\ s.next = next
             /\ registering' \in [AccountProcesses -> SUBSET Registration]
             /\ \A q \in AccountProcesses : \A t, u \in registering'[q] : t = u
  <1> DEFINE s == [r EXCEPT !.next = next, !.rows = rows]
  <1>1. s \in Registration /\ s.phrase = r.phrase /\ s.address = r.address /\ s.next = next
    <2> DEFINE E == Roles \union {"done"}
               F == SUBSET Ids
    <2>1. /\ r \in [phrase : Phrases, password : Passwords, server : BOOLEAN,
                    address : Addresses, next : E, rows : F]
          /\ next \in E /\ rows \in F
      BY RegistrationOf DEF Registration, Roles
    <2> HIDE DEF E, F
    <2>2. s \in [phrase : Phrases, password : Passwords, server : BOOLEAN,
                address : Addresses, next : E, rows : F]
      BY <2>1
    <2>3. s.phrase = r.phrase /\ s.address = r.address /\ s.next = next
      BY <2>1
    <2> QED
      BY <2>2, <2>3 DEF Registration, E, F
  <1>2. registering' = [registering EXCEPT ![p] = {s}]
    BY DEF GoOnWith
  <1> HIDE DEF s
  <1>3. /\ registering \in [AccountProcesses -> SUBSET Registration]
        /\ \A q \in AccountProcesses : \A t, u \in registering[q] : t = u
    BY DEF AccountsInv, AccountsTypeOK
  <1>4. registering' \in [AccountProcesses -> SUBSET Registration]
    BY <1>1, <1>2, <1>3
  <1>5. \A q \in AccountProcesses : \A t, u \in registering'[q] : t = u
    BY <1>2, <1>3
  <1> QED
    BY <1>1, <1>2, <1>4, <1>5 DEF s

(* Its phrase is as uncontested with the rows that it has inserted since. *)
LEMMA UncontestedOn ==
  ASSUME AccountsInv, NEW p \in AccountProcesses, NEW r \in registering[p], NEW s,
         registering' = [registering EXCEPT ![p] = {s}], s.phrase = r.phrase,
         overlapped' = overlapped,
         \A y \in accounts' : y \in accounts \/ y.phrase = r.phrase,
         r.phrase \notin overlapped => \A y \in accounts' : y.phrase = r.phrase =>
            s.next = "done" \/ (s.next = "client" /\ y.role = "server")
  PROVE  Uncontested'
  <1>1. registering \in [AccountProcesses -> SUBSET Registration]
    BY DEF AccountsInv, AccountsTypeOK
  <1> SUFFICES ASSUME NEW q \in AccountProcesses, NEW u \in registering'[q],
                      u.phrase \notin overlapped
               PROVE  /\ \A o \in AccountProcesses \ {q} :
                            \A t \in registering'[o] : t.phrase # u.phrase
                      /\ \A y \in accounts' : y.phrase = u.phrase =>
                            u.next = "done" \/ (u.next = "client" /\ y.role = "server")
    BY DEF Uncontested
  <1>2. CASE q = p
    <2>1. u = s
      BY <1>1, <1>2
    <2>2. \A o \in AccountProcesses \ {p} : \A t \in registering[o] : t.phrase # r.phrase
      BY <2>1 DEF AccountsInv, Uncontested
    <2> QED
      BY <1>1, <1>2, <2>1, <2>2
  <1>3. CASE q # p
    <2>1. u \in registering[q]
      BY <1>1, <1>3
    <2>2. /\ \A o \in AccountProcesses \ {q} : \A t \in registering[o] : t.phrase # u.phrase
          /\ \A x \in accounts : x.phrase = u.phrase =>
                u.next = "done" \/ (u.next = "client" /\ x.role = "server")
      BY <2>1 DEF AccountsInv, Uncontested
    <2>3. u.phrase # r.phrase
      BY <1>3, <2>2
    <2>4. ASSUME NEW o \in AccountProcesses \ {q}, NEW t \in registering'[o]
          PROVE  t.phrase # u.phrase
      BY <1>1, <2>2, <2>3
    <2>5. ASSUME NEW y \in accounts', y.phrase = u.phrase
          PROVE  u.next = "done" \/ (u.next = "client" /\ y.role = "server")
      BY <2>2, <2>3, <2>5
    <2> QED
      BY <2>4, <2>5
  <1> QED
    BY <1>2, <1>3

LEMMA DrawnId ==
  ASSUME NEW phrase \in Phrases, NEW role \in Roles, NEW i \in Drawn(phrase, role)
  PROVE  i \in Ids /\ i.phrase = phrase /\ i.role = role
  BY DEF Drawn, Ids

(* The row of a server is the first that its registration inserts. *)
LEMMA InsertServerKeeps ==
  ASSUME AccountsInv, NEW p \in AccountProcesses, InsertServer(p)
  PROVE  AccountsInv' /\ RowsStay
  <1>0. PICK r \in registering[p] : \E i \in Drawn(r.phrase, "server") :
           /\ r.next = "server"
           /\ accounts' = accounts \union {Row(i, r.password)}
           /\ GoOnWith(p, r, "client", {i})
           /\ UNCHANGED <<links, stamps, attempts, admitted, mailed, refused, overlapped, now>>
    BY DEF InsertServer
  <1>1. PICK i \in Drawn(r.phrase, "server") :
           /\ r.next = "server"
           /\ accounts' = accounts \union {Row(i, r.password)}
           /\ GoOnWith(p, r, "client", {i})
           /\ UNCHANGED <<links, stamps, attempts, admitted, mailed, refused, overlapped, now>>
    BY <1>0
  <1>2. i \in Ids /\ i.phrase = r.phrase /\ i.role = "server" /\ r.password \in Passwords
    <2>1. r.phrase \in Phrases /\ r.password \in Passwords /\ "server" \in Roles
      BY RegistrationOf DEF Roles
    <2> QED
      BY <2>1, DrawnId
  <1>3. /\ Row(i, r.password) \in Account
        /\ Row(i, r.password).phrase = r.phrase /\ Row(i, r.password).role = "server"
    BY <1>2, RowAt
  <1>4. r.phrase \notin overlapped => \A x \in accounts : x.phrase # r.phrase
    BY <1>1 DEF AccountsInv, Uncontested
  <1>5. accounts' \subseteq Account /\ PhraseRegistersOnce' /\ LinksHeld' /\ RowsStay
    BY <1>1, <1>2, <1>4, RowInserted
  <1> DEFINE s == [r EXCEPT !.next = "client", !.rows = {i}]
  <1>6. /\ registering' = [registering EXCEPT ![p] = {s}]
        /\ s.phrase = r.phrase /\ s.address = r.address /\ s.next = "client"
        /\ registering' \in [AccountProcesses -> SUBSET Registration]
        /\ \A q \in AccountProcesses : \A t, u \in registering'[q] : t = u
    <2>1. {i} \in SUBSET Ids
      BY <1>2
    <2> QED
      BY <1>1, <2>1, GoesOn
  <1> HIDE DEF s
  <1>7. registering \in [AccountProcesses -> SUBSET Registration]
    BY RegistrationOf
  <1>8. Admitting'
    <2> SUFFICES ASSUME NEW q \in AccountProcesses, NEW t \in registering'[q], t.next # "done"
                 PROVE  Check(stamps[<<q, t.address>>], RegistrationLimit, RegistrationPeriod)'
      BY DEF Admitting
    <2>1. \E u \in registering[q] : u.next # "done" /\ u.address = t.address
      <3>1. CASE q = p
        BY <1>1, <1>6, <1>7, <3>1
      <3>2. CASE q # p
        BY <1>6, <1>7, <3>2
      <3> QED
        BY <3>1, <3>2
    <2>2. Check(stamps[<<q, t.address>>], RegistrationLimit, RegistrationPeriod)
      BY <2>1 DEF AccountsInv, Admitting
    <2> QED
      BY <1>1, <2>2 DEF Check, Recent, Total, Stamps, Ticks
  <1>9. Uncontested'
    <2>1. /\ \A y \in accounts' : y \in accounts \/ y.phrase = r.phrase
          /\ r.phrase \notin overlapped => \A y \in accounts' : y.phrase = r.phrase =>
                s.next = "done" \/ (s.next = "client" /\ y.role = "server")
      BY <1>1, <1>3, <1>4, <1>6
    <2>2. overlapped' = overlapped
      BY <1>1
    <2> QED
      BY <1>6, <2>1, <2>2, UncontestedOn
  <1>10. WindowInv'
    BY <1>1, WindowsKept DEF AccountsInv, NoEvents
  <1>11. AccountsTypeOK'
    BY <1>1, <1>5, <1>6 DEF AccountsInv, AccountsTypeOK
  <1> QED
    BY <1>1, <1>5, <1>8, <1>9, <1>10, <1>11 DEF AccountsInv

(* The registration counts when its last row is in, as an event that has been
   let through. *)
LEMMA InsertClientKeeps ==
  ASSUME AccountsInv, NEW p \in AccountProcesses, InsertClient(p)
  PROVE  AccountsInv' /\ RowsStay
  <1>1. PICK r \in registering[p] :
           /\ r.next = "client"
           /\ IF Skips(r)
              THEN GoOnWith(p, r, "done", r.rows) /\ UNCHANGED accounts
              ELSE \E i \in Drawn(r.phrase, "client") :
                      /\ accounts' = accounts \union {Row(i, r.password)}
                      /\ GoOnWith(p, r, "done", r.rows \union {i})
           /\ CountRegistration(r.server, <<p, r.address>>)
           /\ admitted' = [admitted EXCEPT ![<<p, r.address>>][now] = @ + 1]
           /\ UNCHANGED <<links, attempts, mailed, refused, overlapped, now>>
    BY DEF InsertClient
  <1>2. r.phrase \notin overlapped =>
           \A x \in accounts : x.phrase = r.phrase => x.role = "server"
    BY <1>1 DEF AccountsInv, Uncontested
  <1>3. /\ accounts' \subseteq Account /\ PhraseRegistersOnce' /\ LinksHeld' /\ RowsStay
        /\ \A y \in accounts' : y \in accounts \/ y.phrase = r.phrase
        /\ \E rows \in SUBSET Ids : GoOnWith(p, r, "done", rows)
    <2>1. CASE Skips(r)
      <3>1. accounts' = accounts /\ GoOnWith(p, r, "done", r.rows) /\ r.rows \in SUBSET Ids
        BY <1>1, <2>1, RegistrationOf
      <3> QED
        BY <1>1, <3>1
           DEF AccountsInv, AccountsTypeOK, PhraseRegistersOnce, LinksHeld, RowsStay, Id
    <2>2. CASE ~Skips(r)
      <3>1. PICK i \in Drawn(r.phrase, "client") :
               /\ accounts' = accounts \union {Row(i, r.password)}
               /\ GoOnWith(p, r, "done", r.rows \union {i})
        BY <1>1, <2>2
      <3>2. /\ i \in Ids /\ i.phrase = r.phrase /\ i.role = "client"
            /\ r.password \in Passwords /\ r.rows \in SUBSET Ids
        <4>1. /\ r.phrase \in Phrases /\ r.password \in Passwords /\ "client" \in Roles
              /\ r.rows \in SUBSET Ids
          BY RegistrationOf DEF Roles
        <4> QED
          BY <4>1, DrawnId
      <3>3. Row(i, r.password) \in Account /\ Row(i, r.password).phrase = r.phrase
        BY <3>2, RowAt
      <3>4. \A x \in accounts : x.phrase = i.phrase /\ x.role = i.role => i.phrase \in overlapped
        BY <1>2, <3>2
      <3>5. accounts' \subseteq Account /\ PhraseRegistersOnce' /\ LinksHeld' /\ RowsStay
        BY <1>1, <3>1, <3>2, <3>4, RowInserted
      <3> QED
        BY <3>1, <3>2, <3>3, <3>5
    <2> QED
      BY <2>1, <2>2
  <1>4. PICK rows \in SUBSET Ids : GoOnWith(p, r, "done", rows)
    BY <1>3
  <1> DEFINE s == [r EXCEPT !.next = "done", !.rows = rows]
  <1>5. /\ registering' = [registering EXCEPT ![p] = {s}]
        /\ s.phrase = r.phrase /\ s.address = r.address /\ s.next = "done"
        /\ registering' \in [AccountProcesses -> SUBSET Registration]
        /\ \A q \in AccountProcesses : \A t, u \in registering'[q] : t = u
    BY <1>4, GoesOn
  <1> HIDE DEF s
  <1>6. registering \in [AccountProcesses -> SUBSET Registration]
    BY RegistrationOf
  <1>7. /\ <<p, r.address>> \in Clients /\ r.server \in BOOLEAN
        /\ Check(stamps[<<p, r.address>>], RegistrationLimit, RegistrationPeriod)
    BY <1>1, RegistrationOf DEF AccountsInv, Admitting
  <1>8. /\ WindowInv'
        /\ stamps' \in Windows(Clients) /\ admitted' \in Windows(Clients)
        /\ \A c \in Clients : c # <<p, r.address>> => stamps'[c] = stamps[c]
    <2> DEFINE client == <<p, r.address>>
    <2>1. /\ client \in Clients /\ r.server \in BOOLEAN
          /\ Check(stamps[client], RegistrationLimit, RegistrationPeriod)
          /\ CountRegistration(r.server, client)
          /\ admitted' = [admitted EXCEPT ![client][now] = @ + 1]
          /\ UNCHANGED <<attempts, mailed, now>>
      BY <1>1, <1>7
    <2> HIDE DEF client
    <2>2. /\ WindowInv'
          /\ stamps' \in Windows(Clients) /\ admitted' \in Windows(Clients)
          /\ \A c \in Clients : c # client => stamps'[c] = stamps[c]
      BY <2>1, RegistrationCounted
    <2> QED
      BY <2>2 DEF client
  <1>9. Admitting'
    <2> DEFINE same == AccountProcesses \ {p}
    <2>1. \A q \in same : registering'[q] = registering[q]
      BY <1>5, <1>6
    <2>2. \A q \in same : \A m \in Addresses : stamps'[<<q, m>>] = stamps[<<q, m>>]
      BY <1>8 DEF Clients
    <2>3. \A q \in same : \A t \in registering[q] : t.address \in Addresses
      BY RegistrationOf
    <2>4. \A q \in AccountProcesses \ same : \A t \in registering'[q] : t.next = "done"
      BY <1>5, <1>6
    <2> HIDE DEF same
    <2>5. Admitting /\ now' = now /\ same \in SUBSET AccountProcesses
      BY <1>1 DEF AccountsInv, same
    <2> QED
      BY <2>1, <2>2, <2>3, <2>4, <2>5, AdmittingKept
  <1>10. Uncontested'
    <2>1. overlapped' = overlapped
      BY <1>1
    <2> QED
      BY <1>3, <1>5, <2>1, UncontestedOn
  <1>11. AccountsTypeOK'
    BY <1>1, <1>3, <1>5, <1>8 DEF AccountsInv, AccountsTypeOK
  <1> QED
    BY <1>1, <1>3, <1>8, <1>9, <1>10, <1>11 DEF AccountsInv

(* A process is done with its registration, or has lost it. *)
LEMMA RegistrationEnded ==
  ASSUME AccountsInv, NEW p \in AccountProcesses,
         registering' = [registering EXCEPT ![p] = {}],
         overlapped' = overlapped, now' = now,
         \A c \in Clients : c[1] # p => stamps'[c] = stamps[c],
         \A y \in accounts' : \E x \in accounts : x.phrase = y.phrase /\ x.role = y.role
  PROVE  /\ registering' \in [AccountProcesses -> SUBSET Registration]
         /\ \A q \in AccountProcesses : \A r, s \in registering'[q] : r = s
         /\ Admitting' /\ Uncontested'
  <1>1. /\ registering \in [AccountProcesses -> SUBSET Registration]
        /\ \A q \in AccountProcesses : \A r, s \in registering[q] : r = s
    BY DEF AccountsInv, AccountsTypeOK
  <1>2. /\ registering' \in [AccountProcesses -> SUBSET Registration]
        /\ \A q \in AccountProcesses : \A r, s \in registering'[q] : r = s
    BY <1>1
  <1>3. \A q \in AccountProcesses : registering'[q] \subseteq registering[q]
    BY <1>1
  <1>4. Uncontested'
    BY <1>3, UncontestedKept DEF AccountsInv
  <1>5. Admitting'
    <2> DEFINE same == AccountProcesses \ {p}
    <2>1. \A q \in same : registering'[q] = registering[q]
      BY <1>1
    <2>2. \A q \in same : \A m \in Addresses : stamps'[<<q, m>>] = stamps[<<q, m>>]
      BY DEF Clients
    <2>3. \A q \in same : \A t \in registering[q] : t.address \in Addresses
      BY RegistrationOf
    <2>4. \A q \in AccountProcesses \ same : \A t \in registering'[q] : t.next = "done"
      BY <1>1
    <2> HIDE DEF same
    <2>5. Admitting /\ same \in SUBSET AccountProcesses
      BY DEF AccountsInv, same
    <2> QED
      BY <2>1, <2>2, <2>3, <2>4, <2>5, AdmittingKept
  <1> QED
    BY <1>2, <1>4, <1>5

(* The mail address of a registration goes to rows that are there. *)
LEMMA FinishKeeps ==
  ASSUME AccountsInv, NEW p \in AccountProcesses, FinishRegistration(p)
  PROVE  AccountsInv' /\ RowsStay
  <1>1. PICK r \in registering[p] :
           /\ accounts' = WithMail(r)
           /\ registering' = [registering EXCEPT ![p] = {}]
           /\ UNCHANGED <<links, stamps, attempts, admitted, mailed, refused, overlapped, now>>
    BY DEF FinishRegistration
  <1> DEFINE f == [x \in accounts |->
                      IF Id(x) \in Mailed(r) THEN [x EXCEPT !.mail = TRUE] ELSE x]
  <1>2. /\ f \in [accounts -> Account]
        /\ \A x \in accounts :
              f[x].phrase = x.phrase /\ f[x].role = x.role /\ f[x].draw = x.draw
    <2>1. ASSUME NEW x \in accounts
          PROVE  /\ x \in Account /\ [x EXCEPT !.mail = TRUE] \in Account
                 /\ LET y == [x EXCEPT !.mail = TRUE]
                    IN  y.phrase = x.phrase /\ y.role = x.role /\ y.draw = x.draw
      <3> DEFINE B == BOOLEAN
                 yes == TRUE
      <3>1. /\ x \in Account /\ yes \in B
            /\ Account = [phrase : Phrases, role : Roles, draw : Draws,
                          password : Passwords, mail : B]
        BY DEF AccountsInv, AccountsTypeOK, Account
      <3> HIDE DEF B, yes
      <3>2. /\ [x EXCEPT !.mail = yes] \in Account
            /\ LET y == [x EXCEPT !.mail = yes]
               IN  y.phrase = x.phrase /\ y.role = x.role /\ y.draw = x.draw
        BY <3>1
      <3> QED
        BY <3>1, <3>2 DEF yes
    <2> QED
      BY <2>1
  <1>3. accounts' = {f[x] : x \in accounts}
    BY <1>1 DEF WithMail
  <1> HIDE DEF f
  <1>4. accounts' \subseteq Account /\ PhraseRegistersOnce' /\ LinksHeld' /\ RowsStay
    BY <1>1, <1>2, <1>3, RowsRenewed
  <1>5. /\ registering' \in [AccountProcesses -> SUBSET Registration]
        /\ \A q \in AccountProcesses : \A s, t \in registering'[q] : s = t
        /\ Admitting' /\ Uncontested'
    <2>1. /\ registering' = [registering EXCEPT ![p] = {}]
          /\ overlapped' = overlapped /\ now' = now
          /\ \A c \in Clients : c[1] # p => stamps'[c] = stamps[c]
      BY <1>1
    <2>2. \A y \in accounts' : \E x \in accounts : x.phrase = y.phrase /\ x.role = y.role
      BY <1>2, <1>3
    <2> QED
      BY <2>1, <2>2, RegistrationEnded
  <1>6. WindowInv'
    BY <1>1, WindowsKept DEF AccountsInv, NoEvents
  <1> QED
    BY <1>1, <1>4, <1>5, <1>6 DEF AccountsInv, AccountsTypeOK

LEMMA FailureKeeps ==
  ASSUME AccountsInv, NEW p \in AccountProcesses, RegisterFails(p)
  PROVE  AccountsInv' /\ RowsStay
  <1>1. /\ registering' = [registering EXCEPT ![p] = {}]
        /\ UNCHANGED <<accounts, links, stamps, attempts, admitted, mailed, refused, overlapped,
                       now>>
    BY DEF RegisterFails
  <1>2. /\ registering' \in [AccountProcesses -> SUBSET Registration]
        /\ \A q \in AccountProcesses : \A s, t \in registering'[q] : s = t
        /\ Admitting' /\ Uncontested'
    BY <1>1, RegistrationEnded
  <1>3. WindowInv'
    BY <1>1, WindowsKept DEF AccountsInv, NoEvents
  <1> QED
    BY <1>1, <1>2, <1>3
       DEF AccountsInv, AccountsTypeOK, PhraseRegistersOnce, LinksHeld, RowsStay, Id

(* A process that begins again has no registration and has counted nothing. *)
LEMMA RestartKeeps ==
  ASSUME AccountsInv, NEW p \in AccountProcesses, AccountRestart(p)
  PROVE  AccountsInv' /\ RowsStay
  <1>1. /\ registering' = [registering EXCEPT ![p] = {}]
        /\ stamps' = Cleared(p, stamps) /\ admitted' = Cleared(p, admitted)
        /\ attempts' = Cleared(p, attempts) /\ mailed' = Cleared(p, mailed)
        /\ UNCHANGED <<accounts, links, refused, overlapped, now>>
    BY DEF AccountRestart
  <1>2. /\ WindowInv'
        /\ stamps' \in Windows(Clients) /\ admitted' \in Windows(Clients)
        /\ attempts' \in Windows(Mailboxes) /\ mailed' \in Windows(Mailboxes)
        /\ \A c \in Clients : c[1] # p => stamps'[c] = stamps[c]
    BY <1>1, ForgetKeeps
  <1>3. /\ registering' \in [AccountProcesses -> SUBSET Registration]
        /\ \A q \in AccountProcesses : \A s, t \in registering'[q] : s = t
        /\ Admitting' /\ Uncontested'
    BY <1>1, <1>2, RegistrationEnded
  <1> QED
    BY <1>1, <1>2, <1>3
       DEF AccountsInv, AccountsTypeOK, PhraseRegistersOnce, LinksHeld, RowsStay, Id

(* The registrations are left alone, and so is what they are checked against. *)
LEMMA OthersKept ==
  ASSUME AccountsInv, UNCHANGED <<registering, overlapped, stamps, now>>,
         \A y \in accounts' : \E x \in accounts : x.phrase = y.phrase /\ x.role = y.role
  PROVE  Admitting' /\ Uncontested'
  <1>1. Uncontested'
    BY UncontestedKept DEF AccountsInv
  <1>2. Admitting'
    <2>1. \A q \in AccountProcesses : \A t \in registering[q] : t.address \in Addresses
      BY RegistrationOf
    <2>2. Admitting /\ AccountProcesses \in SUBSET AccountProcesses
      BY DEF AccountsInv
    <2> QED
      BY <2>1, <2>2, AdmittingKept
  <1> QED
    BY <1>1, <1>2

LEMMA ChangePasswordKeeps ==
  ASSUME AccountsInv, NEW x \in accounts, NEW old \in Passwords, NEW new \in Passwords,
         ChangePassword(x, old, new)
  PROVE  AccountsInv'
  <1> DEFINE f == [y \in accounts |-> IF y = x THEN [x EXCEPT !.password = new] ELSE y]
  <1>1. /\ accounts' = (accounts \ {x}) \union {[x EXCEPT !.password = new]}
        /\ UNCHANGED <<links, registering, stamps, attempts, admitted, mailed, refused, overlapped,
                       now>>
    BY DEF ChangePassword, WithPassword
  <1>2. /\ f \in [accounts -> Account]
        /\ \A y \in accounts :
              f[y].phrase = y.phrase /\ f[y].role = y.role /\ f[y].draw = y.draw
    <2>1. ASSUME NEW y \in accounts
          PROVE  /\ y \in Account /\ [y EXCEPT !.password = new] \in Account
                 /\ LET z == [y EXCEPT !.password = new]
                    IN  z.phrase = y.phrase /\ z.role = y.role /\ z.draw = y.draw
      BY DEF AccountsInv, AccountsTypeOK, Account
    <2> QED
      BY <2>1
  <1>3. accounts' = {f[y] : y \in accounts}
    BY <1>1
  <1> HIDE DEF f
  <1>4. accounts' \subseteq Account /\ PhraseRegistersOnce' /\ LinksHeld'
    BY <1>1, <1>2, <1>3, RowsRenewed
  <1>5. Admitting' /\ Uncontested'
    BY <1>1, <1>2, <1>3, OthersKept
  <1>6. WindowInv'
    BY <1>1, WindowsKept DEF AccountsInv, NoEvents
  <1> QED
    BY <1>1, <1>4, <1>5, <1>6 DEF AccountsInv, AccountsTypeOK

(* A request for a link: one is added for a row of the table. *)
LEMMA RequestKeeps ==
  ASSUME AccountsInv, NEW e \in MailAddresses, NEW m \in Mailboxes, NEW id \in Links,
         RequestRecovery(e, m, id)
  PROVE  AccountsInv'
  <1>1. /\ Check(attempts[m], RecoveryLimit, RecoveryPeriod) /\ CountAttempt(e, m)
        /\ mailed' = [mailed EXCEPT ![m][now] = @ + 1]
        /\ UNCHANGED <<accounts, registering, stamps, admitted, refused, overlapped, now>>
    BY DEF RequestRecovery
  <1>2. links' \subseteq Link /\ LinksHeld'
    <2>1. CASE Reachable(e) = {}
      BY <1>1, <2>1 DEF RequestRecovery, AccountsInv, AccountsTypeOK, LinksHeld, Id
    <2>2. CASE Reachable(e) # {}
      <3>1. PICK x \in Reachable(e) :
               links' = links \union {[id |-> id, of |-> Id(x), expires |-> now + LinkLife]}
        BY <2>2 DEF RequestRecovery
      <3> DEFINE l == [id |-> id, of |-> Id(x), expires |-> now + LinkLife]
      <3>2. x \in accounts /\ x \in Account
        BY DEF Reachable, AccountsInv, AccountsTypeOK
      <3>3. now + LinkLife \in Nat
        BY LimitsAreNumbers DEF AccountsInv, Ticks
      <3>4. l \in Link /\ l.of = Id(x)
        BY <3>2, <3>3, IdOf DEF Link
      <3>5. links' = links \union {l}
        BY <3>1
      <3> HIDE DEF l
      <3>6. LinksHeld'
        BY <1>1, <3>2, <3>4, <3>5 DEF AccountsInv, LinksHeld, Id
      <3> QED
        BY <3>4, <3>5, <3>6 DEF AccountsInv, AccountsTypeOK
    <2> QED
      BY <2>1, <2>2
  <1>3. /\ WindowInv'
        /\ attempts' \in Windows(Mailboxes) /\ mailed' \in Windows(Mailboxes)
    BY <1>1, AttemptCounted
  <1>4. PhraseRegistersOnce'
    BY <1>1 DEF AccountsInv, PhraseRegistersOnce
  <1>5. Admitting' /\ Uncontested'
    BY <1>1, OthersKept
  <1> QED
    BY <1>1, <1>2, <1>3, <1>4, <1>5 DEF AccountsInv, AccountsTypeOK

(* No account has the empty password, so a link never changes one. *)
LEMMA PasswordResetKeeps ==
  ASSUME AccountsInv, NEW l \in links, NEW password \in Passwords, ResetPassword(l, password)
  PROVE  AccountsInv'
  <1>1. Holder(l) \in accounts
    BY DEF AccountsInv, LinksHeld, Holder
  <1>2. Holder(l).password # NoPassword
    BY <1>1 DEF AccountsInv, AccountsTypeOK, Account
  <1>3. /\ refused' = refused \union {l.id}
        /\ UNCHANGED <<accounts, links, registering, stamps, attempts, admitted, mailed, overlapped,
                       now>>
    BY <1>2 DEF ResetPassword
  <1>4. l.id \in Links
    BY DEF AccountsInv, AccountsTypeOK, Link
  <1>5. WindowInv'
    BY <1>3, WindowsKept DEF AccountsInv, NoEvents
  <1>6. Admitting' /\ Uncontested'
    BY <1>3, OthersKept
  <1> QED
    BY <1>3, <1>4, <1>5, <1>6
       DEF AccountsInv, AccountsTypeOK, PhraseRegistersOnce, LinksHeld, Id

(* Cleaning links up leaves links of accounts. *)
LEMMA LinksCleaned ==
  ASSUME AccountsInv, CleanupExpiredTokens
  PROVE  AccountsInv'
  <1>1. /\ links' \subseteq links
        /\ UNCHANGED <<accounts, registering, stamps, attempts, admitted, mailed, refused,
                       overlapped, now>>
    BY DEF CleanupExpiredTokens
  <1>2. WindowInv'
    BY <1>1, WindowsKept DEF AccountsInv, NoEvents
  <1>3. Admitting' /\ Uncontested'
    BY <1>1, OthersKept
  <1> QED
    BY <1>1, <1>2, <1>3 DEF AccountsInv, AccountsTypeOK, PhraseRegistersOnce, LinksHeld, Id

(* Time passes: less of the past counts. *)
LEMMA ClockKeeps ==
  ASSUME AccountsInv, AccountTick
  PROVE  AccountsInv' /\ RowsStay
  <1>1. /\ now' \in Ticks /\ now' = now + 1 /\ now \in Ticks /\ now <= now'
        /\ UNCHANGED accountVars
    BY DEF AccountTick, Tick, AccountsInv, Ticks
  <1>2. WindowInv'
    <2>1. ASSUME NEW a \in Clients
          PROVE  /\ Tracks(stamps[a], admitted[a], RegistrationPeriod)'
                 /\ KeepsLimit(admitted'[a], RegistrationLimit, RegistrationPeriod)
      <3> DEFINE w == stamps[a]
                 h == admitted[a]
      <3>1. w = stamps'[a] /\ h = admitted'[a]
        BY <1>1 DEF accountVars
      <3>2. /\ Tracks(w, h, RegistrationPeriod)
            /\ KeepsLimit(h, RegistrationLimit, RegistrationPeriod)
        BY DEF AccountsInv, WindowInv
      <3>3. \A t \in Ticks : /\ t + RegistrationPeriod >= now' => w[t] = h[t]
                             /\ t > now' => h[t] = 0
        BY <1>1, <3>2, LimitsAreNumbers DEF Ticks, Tracks
      <3> QED
        BY <3>1, <3>2, <3>3 DEF Tracks
    <2>2. ASSUME NEW e \in Mailboxes
          PROVE  /\ Tracks(attempts[e], mailed[e], RecoveryPeriod)'
                 /\ KeepsLimit(mailed'[e], RecoveryLimit, RecoveryPeriod)
      <3> DEFINE w == attempts[e]
                 h == mailed[e]
      <3>1. w = attempts'[e] /\ h = mailed'[e]
        BY <1>1 DEF accountVars
      <3>2. /\ Tracks(w, h, RecoveryPeriod)
            /\ KeepsLimit(h, RecoveryLimit, RecoveryPeriod)
        BY DEF AccountsInv, WindowInv
      <3>3. \A t \in Ticks : /\ t + RecoveryPeriod >= now' => w[t] = h[t]
                             /\ t > now' => h[t] = 0
        BY <1>1, <3>2, LimitsAreNumbers DEF Ticks, Tracks
      <3> QED
        BY <3>1, <3>2, <3>3 DEF Tracks
    <2> QED
      BY <2>1, <2>2 DEF WindowInv
  <1>3. Admitting'
    <2> SUFFICES ASSUME NEW p \in AccountProcesses, NEW r \in registering[p], r.next # "done"
                 PROVE  Check(stamps[<<p, r.address>>], RegistrationLimit, RegistrationPeriod)'
      BY <1>1 DEF Admitting, accountVars
    <2>1. stamps[<<p, r.address>>] \in [Ticks -> Nat] /\ stamps' = stamps
      BY <1>1, RegistrationOf DEF AccountsInv, AccountsTypeOK, Windows, accountVars
    <2>2. Check(stamps[<<p, r.address>>], RegistrationLimit, RegistrationPeriod)
      BY DEF AccountsInv, Admitting
    <2>3. ASSUME NEW window \in [Ticks -> Nat],
                 Check(window, RegistrationLimit, RegistrationPeriod)
          PROVE  Check(window, RegistrationLimit, RegistrationPeriod)'
      BY <1>1, <2>3, CheckLater, LimitsAreNumbers
    <2>4. PICK w \in [Ticks -> Nat] : w = stamps[<<p, r.address>>]
      BY <2>1
    <2>5. Check(w, RegistrationLimit, RegistrationPeriod)
      BY <2>2, <2>4
    <2>6. Check(w, RegistrationLimit, RegistrationPeriod)'
      BY <2>3, <2>5
    <2>7. w = stamps'[<<p, r.address>>]
      BY <2>1, <2>4
    <2> QED
      BY <2>6, <2>7 DEF Check, Recent, Total, Stamps, Ticks
  <1> QED
    BY <1>1, <1>2, <1>3
       DEF accountVars, AccountsInv, AccountsTypeOK, PhraseRegistersOnce, LinksHeld, Uncontested,
           RowsStay, Id

LEMMA AccountsStill ==
  ASSUME AccountsInv, UNCHANGED <<accountVars, now>>
  PROVE  AccountsInv'
  <1>1. WindowInv'
    BY WindowsKept DEF AccountsInv, NoEvents, accountVars
  <1>2. Admitting' /\ Uncontested'
    BY OthersKept DEF accountVars
  <1> QED
    BY <1>1, <1>2
       DEF accountVars, AccountsInv, AccountsTypeOK, PhraseRegistersOnce, LinksHeld, Id

LEMMA AccountsStep ==
  ASSUME AccountsInv, [AccountsNext]_<<accountVars, now>>
  PROVE  AccountsInv'
  <1>1. ASSUME NEW p \in AccountProcesses,
               \E phrase \in Phrases, password \in Passwords, server \in BOOLEAN,
                  address \in Addresses : AccountRegister(p, phrase, password, server, address)
        PROVE  AccountsInv'
    BY <1>1, RegisterKeeps
  <1>2. ASSUME NEW p \in AccountProcesses,
               \/ InsertServer(p) \/ InsertClient(p) \/ FinishRegistration(p)
               \/ RegisterFails(p) \/ AccountRestart(p)
        PROVE  AccountsInv'
    BY <1>2, InsertServerKeeps, InsertClientKeeps, FinishKeeps, FailureKeeps, RestartKeeps
  <1>3. ASSUME NEW p \in AccountProcesses,
               \/ \E x \in accounts, old, new \in Passwords : ChangePassword(x, old, new)
               \/ \E e \in MailAddresses, id \in Links : RequestRecovery(e, <<p, e>>, id)
               \/ \E l \in links, password \in Passwords : ResetPassword(l, password)
               \/ CleanupExpiredTokens
        PROVE  AccountsInv'
    <2>1. CASE \E e \in MailAddresses, id \in Links : RequestRecovery(e, <<p, e>>, id)
      <3>1. PICK e \in MailAddresses, id \in Links : RequestRecovery(e, <<p, e>>, id)
        BY <2>1
      <3> DEFINE m == <<p, e>>
      <3>2. m \in Mailboxes /\ RequestRecovery(e, m, id)
        BY <3>1 DEF Mailboxes
      <3> HIDE DEF m
      <3> QED
        BY <3>2, RequestKeeps
    <2> QED
      BY <1>3, <2>1, ChangePasswordKeeps, PasswordResetKeeps, LinksCleaned
  <1>4. CASE AccountTick
    BY <1>4, ClockKeeps
  <1>5. CASE UNCHANGED <<accountVars, now>>
    BY <1>5, AccountsStill
  <1> QED
    BY <1>1, <1>2, <1>3, <1>4, <1>5 DEF AccountsNext

(* The rows of a phrase, the registrations under way in any number of processes,
   the links and the windows of each process fit together in every reachable
   state. *)
THEOREM AccountsInvariance == AccountsSpec => []AccountsInv
  <1>1. AccountsInit /\ now = 0 => AccountsInv
    BY AccountsInit_Inv
  <1>2. AccountsInv /\ [AccountsNext]_<<accountVars, now>> => AccountsInv'
    BY AccountsStep
  <1> QED
    BY <1>1, <1>2, PTL DEF AccountsSpec

LEMMA AccountsInvParts ==
  AccountsInv => AccountsTypeOK /\ PhraseRegistersOnce /\ WindowsLimited
  BY DEF AccountsInv, WindowInv, KeepsLimit, WindowsLimited

(* register() leaves two rows of one role for a phrase only when two processes
   register it at a time: with any number of processes, of registrations, of
   those that fail or end between two writes, and of recoveries. *)
THEOREM PhrasesRegisterOnce == AccountsSpec => []PhraseRegistersOnce
  BY AccountsInvariance, AccountsInvParts, PTL

(* check() and count of the rate limiter, for every limit, period and address:
   between two restarts of a process no window of the period holds more
   registrations from an address, nor more recovery mails to one, that it has let
   through than the limit, although the check of a registration comes before its
   two writes and the lists forget what is too old at every use. *)
THEOREM WindowsAreLimited == AccountsSpec => []WindowsLimited
  BY AccountsInvariance, AccountsInvParts, PTL

-----------------------------------------------------------------------------
(* The sessions over them.                                                  *)

(* What is proved of the accounts, and of the browsers and keys over them. *)
SessionsInv ==
    /\ AccountsInv
    /\ SessionsTypeOK
    /\ SessionKeyOwned

(* A phrase keeps its rows and keys only go. *)
LEMMA KeysKept ==
  ASSUME SessionKeyOwned, \A p \in AccountProcesses : keys'[p] \subseteq keys[p], RowsStay
  PROVE  SessionKeyOwned'
  <1> SUFFICES ASSUME NEW p \in AccountProcesses, NEW k \in keys'[p]
               PROVE  /\ k.name # {} => k.name = {k.phrase}
                      /\ \E y \in accounts' : y.phrase = k.phrase /\ KeyName(y) = k.name
                      /\ \A l \in keys'[p] : l.name = k.name => l = k
    BY DEF SessionKeyOwned, KeyName
  <1>1. k \in keys[p]
    OBVIOUS
  <1>2. /\ k.name # {} => k.name = {k.phrase}
        /\ \E x \in accounts : x.phrase = k.phrase /\ KeyName(x) = k.name
        /\ \A l \in keys[p] : l.name = k.name => l = k
    BY <1>1 DEF SessionKeyOwned
  <1>3. \E y \in accounts' : y.phrase = k.phrase /\ KeyName(y) = k.name
    <2>1. PICK x \in accounts : x.phrase = k.phrase /\ KeyName(x) = k.name
      BY <1>2
    <2>2. PICK y \in accounts' : y.phrase = x.phrase /\ y.role = x.role
      BY DEF RowsStay
    <2> QED
      BY <2>1, <2>2 DEF KeyName
  <1> QED
    BY <1>2, <1>3

LEMMA SessionsInit_Inv ==
  ASSUME AccountsInit, SessionsInit, now = 0
  PROVE  SessionsInv
  BY AccountsInit_Inv DEF SessionsInv, SessionsInit, SessionsTypeOK, SessionKeyOwned

(* The accounts go on, and the sessions over them are left alone or end. *)
LEMMA SessionsOver ==
  ASSUME SessionsInv, AccountsInv', RowsStay, SessionsTypeOK',
         \A p \in AccountProcesses : keys'[p] \subseteq keys[p]
  PROVE  SessionsInv'
  BY KeysKept DEF SessionsInv

LEMMA RowsStill ==
  ASSUME accounts' = accounts
  PROVE  RowsStay
  BY DEF RowsStay

LEMMA SessionsStill ==
  ASSUME SessionsInv, UNCHANGED <<accountVars, now>>, SessionsTypeOK',
         \A p \in AccountProcesses : keys'[p] \subseteq keys[p]
  PROVE  SessionsInv'
  <1>1. AccountsInv'
    BY AccountsStill DEF SessionsInv
  <1>2. RowsStay
    BY RowsStill DEF accountVars
  <1> QED
    BY <1>1, <1>2, SessionsOver

LEMMA AcceptKeeps ==
  ASSUME SessionsInv, NEW b \in Browsers, AcceptCharter(b)
  PROVE  SessionsInv'
  <1>1. now + ConsentLife \in Nat
    BY DEF SessionsInv, AccountsInv, Ticks
  <1>2. consent' \in [Browsers -> Nat]
    BY <1>1 DEF AcceptCharter, SessionsInv, SessionsTypeOK
  <1>3. UNCHANGED <<keys, token, signed, page, accountVars, now>>
    BY DEF AcceptCharter
  <1> QED
    BY <1>2, <1>3, SessionsStill DEF SessionsInv, SessionsTypeOK

(* The page waits for a registration. *)
LEMMA WebRegisterKeeps ==
  ASSUME SessionsInv, NEW p \in AccountProcesses, NEW b \in Browsers, NEW phrase \in Phrases,
         NEW password \in Passwords, NEW server \in BOOLEAN, NEW address \in Addresses,
         WebRegister(p, b, phrase, password, server, address)
  PROVE  SessionsInv'
  <1>1. AccountsInv' /\ RowsStay
    BY RegisterKeeps DEF WebRegister, SessionsInv
  <1>2. page' = [page EXCEPT ![p] = {b}] /\ UNCHANGED <<keys, token, consent, signed>>
    BY DEF WebRegister
  <1>3. page' \in [AccountProcesses -> SUBSET Browsers]
    BY <1>2 DEF SessionsInv, SessionsTypeOK
  <1> QED
    BY <1>1, <1>2, <1>3, SessionsOver DEF SessionsInv, SessionsTypeOK

LEMMA ApiRegisterKeeps ==
  ASSUME SessionsInv, NEW p \in AccountProcesses, NEW phrase \in Phrases,
         NEW password \in Passwords, NEW server \in BOOLEAN, NEW address \in Addresses,
         ApiRegister(p, phrase, password, server, address)
  PROVE  SessionsInv'
  <1>1. AccountsInv' /\ RowsStay /\ UNCHANGED sessionVars
    BY RegisterKeeps DEF ApiRegister, SessionsInv
  <1> QED
    BY <1>1, SessionsOver DEF SessionsInv, SessionsTypeOK, sessionVars

LEMMA InsertRowKeeps ==
  ASSUME SessionsInv, NEW p \in AccountProcesses, InsertRow(p)
  PROVE  SessionsInv'
  <1>1. AccountsInv' /\ RowsStay /\ UNCHANGED sessionVars
    BY InsertServerKeeps, InsertClientKeeps DEF InsertRow, SessionsInv
  <1> QED
    BY <1>1, SessionsOver DEF SessionsInv, SessionsTypeOK, sessionVars

(* What is signed is a row of the registration. *)
LEMMA SignRegisteredKeeps ==
  ASSUME SessionsInv, NEW p \in AccountProcesses, SignRegistered(p)
  PROVE  SessionsInv'
  <1>1. PICK r \in registering[p] : signed' \in {signed \union {i} : i \in r.rows}
    BY DEF SignRegistered
  <1>2. PICK i \in r.rows : signed' = signed \union {i}
    BY <1>1
  <1>3. i \in Ids
    <2>1. r.rows \in SUBSET Ids
      BY RegistrationOf DEF SessionsInv
    <2> QED
      BY <2>1
  <1>4. UNCHANGED <<keys, token, consent, page, accountVars, now>>
    BY DEF SignRegistered
  <1> QED
    BY <1>2, <1>3, <1>4, SessionsStill DEF SessionsInv, SessionsTypeOK

LEMMA AnswerKeeps ==
  ASSUME SessionsInv, NEW p \in AccountProcesses, AnswerPage(p)
  PROVE  SessionsInv'
  <1>1. AccountsInv' /\ RowsStay
    BY FinishKeeps DEF AnswerPage, SessionsInv
  <1>2. /\ page' = [page EXCEPT ![p] = {}]
        /\ consent' = [b \in Browsers |-> IF b \in page[p] THEN 0 ELSE consent[b]]
        /\ token' = [b \in Browsers |-> IF b \in page[p] THEN {} ELSE token[b]]
        /\ UNCHANGED <<keys, signed>>
    BY DEF AnswerPage
  <1>3. /\ page' \in [AccountProcesses -> SUBSET Browsers]
        /\ consent' \in [Browsers -> Nat]
    BY <1>2 DEF SessionsInv, SessionsTypeOK
  <1>4. token' \in [Browsers -> SUBSET [of : Ids, expires : Nat]]
    BY <1>2 DEF SessionsInv, SessionsTypeOK
  <1> QED
    BY <1>1, <1>2, <1>3, <1>4, SessionsOver DEF SessionsInv, SessionsTypeOK

LEMMA AnswerFailureKeeps ==
  ASSUME SessionsInv, NEW p \in AccountProcesses, AnswerFailure(p)
  PROVE  SessionsInv'
  <1>1. AccountsInv' /\ RowsStay
    BY FailureKeeps DEF AnswerFailure, SessionsInv
  <1>2. page' = [page EXCEPT ![p] = {}] /\ UNCHANGED <<keys, token, consent, signed>>
    BY DEF AnswerFailure
  <1>3. page' \in [AccountProcesses -> SUBSET Browsers]
    BY <1>2 DEF SessionsInv, SessionsTypeOK
  <1> QED
    BY <1>1, <1>2, <1>3, SessionsOver DEF SessionsInv, SessionsTypeOK

LEMMA LogoutKeeps ==
  ASSUME SessionsInv, NEW p \in AccountProcesses, NEW b \in Browsers, Logout(p, b)
  PROVE  SessionsInv'
  <1> DEFINE left == {k \in keys[p] : \A t \in LoggedIn(b) :
                         ~(t.of.role = "client" /\ k.name = {t.of.phrase})}
  <1>1. /\ keys' = [keys EXCEPT ![p] = left]
        /\ token' = [token EXCEPT ![b] = {}] /\ consent' = [consent EXCEPT ![b] = 0]
        /\ UNCHANGED <<signed, page, accountVars, now>>
    BY DEF Logout
  <1>2. left \subseteq keys[p]
    OBVIOUS
  <1> HIDE DEF left
  <1>3. /\ keys' \in [AccountProcesses -> SUBSET [name : SUBSET Phrases, phrase : Phrases]]
        /\ \A q \in AccountProcesses : keys'[q] \subseteq keys[q]
    BY <1>1, <1>2 DEF SessionsInv, SessionsTypeOK
  <1>4. consent' \in [Browsers -> Nat] /\ token' \in [Browsers -> SUBSET [of : Ids, expires : Nat]]
    BY <1>1 DEF SessionsInv, SessionsTypeOK
  <1>5. SessionsTypeOK'
    BY <1>1, <1>3, <1>4 DEF SessionsInv, SessionsTypeOK
  <1> QED
    BY <1>1, <1>3, <1>5, SessionsStill

LEMMA SignKeeps ==
  ASSUME SessionsInv, NEW x \in accounts, SignCharter(x)
  PROVE  SessionsInv'
  <1>1. Id(x) \in Ids
    BY IdOf DEF SessionsInv, AccountsInv, AccountsTypeOK
  <1>2. signed' = signed \union {Id(x)} /\ UNCHANGED <<keys, token, consent, page, accountVars, now>>
    BY DEF SignCharter
  <1> QED
    BY <1>1, <1>2, SessionsStill DEF SessionsInv, SessionsTypeOK

(* The key of a session is of the account it was opened for. *)
LEMMA OpenKeeps ==
  ASSUME SessionsInv, NEW p \in AccountProcesses, NEW b \in Browsers, NEW x \in accounts,
         NEW phrase \in Phrases, x.phrase = phrase, Open(p, b, x, phrase)
  PROVE  SessionsInv'
  <1> DEFINE k == [name |-> KeyName(x), phrase |-> phrase]
             t == [of |-> Id(x), expires |-> now + TokenLife]
             held == {y \in keys[p] : y.name # KeyName(x)} \union {k}
  <1>1. x \in Account /\ x.phrase = phrase
    BY DEF SessionsInv, AccountsInv, AccountsTypeOK
  <1>2. KeyName(x) \in SUBSET Phrases /\ (KeyName(x) # {} => KeyName(x) = {phrase})
    BY <1>1 DEF KeyName
  <1>3. k \in [name : SUBSET Phrases, phrase : Phrases] /\ k.name = KeyName(x) /\ k.phrase = phrase
    BY <1>2
  <1>4. t \in [of : Ids, expires : Nat]
    <2>1. now + TokenLife \in Nat
      BY DEF SessionsInv, AccountsInv, Ticks
    <2>2. Id(x) \in Ids
      BY <1>1, IdOf
    <2> QED
      BY <2>1, <2>2
  <1>5. /\ token' = [token EXCEPT ![b] = {t}]
        /\ keys' = [keys EXCEPT ![p] = held]
        /\ UNCHANGED <<consent, signed, page, accountVars, now>>
    BY DEF Open, WithKey
  <1> HIDE DEF k, t
  <1>6. AccountsInv'
    BY <1>5, AccountsStill DEF SessionsInv
  <1>7. keys \in [AccountProcesses -> SUBSET [name : SUBSET Phrases, phrase : Phrases]]
    BY DEF SessionsInv, SessionsTypeOK
  <1>8. SessionsTypeOK'
    <2>1. held \in SUBSET [name : SUBSET Phrases, phrase : Phrases]
      BY <1>3, <1>7
    <2> HIDE DEF held
    <2>2. keys' \in [AccountProcesses -> SUBSET [name : SUBSET Phrases, phrase : Phrases]]
      BY <1>5, <1>7, <2>1
    <2>3. token' \in [Browsers -> SUBSET [of : Ids, expires : Nat]]
      BY <1>4, <1>5 DEF SessionsInv, SessionsTypeOK
    <2> QED
      BY <1>5, <2>2, <2>3 DEF SessionsInv, SessionsTypeOK
  <1>9. SessionKeyOwned'
    <2>1. accounts' = accounts
      BY <1>5 DEF accountVars
    <2> SUFFICES ASSUME NEW q \in AccountProcesses, NEW y \in keys'[q]
                 PROVE  /\ y.name # {} => y.name = {y.phrase}
                        /\ \E z \in accounts : z.phrase = y.phrase /\ KeyName(z) = y.name
                        /\ \A l \in keys'[q] : l.name = y.name => l = y
      BY <2>1 DEF SessionKeyOwned, KeyName
    <2>2. CASE q = p
      <3>1. keys'[q] = held
        BY <1>5, <1>7, <2>2
      <3>2. CASE y = k
        BY <1>2, <1>3, <3>1, <3>2
      <3>3. CASE y \in keys[p] /\ y.name # KeyName(x)
        BY <1>3, <3>1, <3>3 DEF SessionsInv, SessionKeyOwned
      <3> QED
        BY <3>1, <3>2, <3>3
    <2>3. CASE q # p
      <3>1. keys'[q] = keys[q]
        BY <1>5, <1>7, <2>3
      <3> QED
        BY <3>1 DEF SessionsInv, SessionKeyOwned
    <2> QED
      BY <2>2, <2>3
  <1> QED
    BY <1>6, <1>8, <1>9 DEF SessionsInv

LEMMA SessionsRestartKeeps ==
  ASSUME SessionsInv, NEW p \in AccountProcesses, SessionsRestart(p)
  PROVE  SessionsInv'
  <1>1. AccountsInv' /\ RowsStay
    BY RestartKeeps DEF SessionsInv, SessionsRestart
  <1>2. /\ keys' = [keys EXCEPT ![p] = {}] /\ page' = [page EXCEPT ![p] = {}]
        /\ UNCHANGED <<token, consent, signed>>
    BY DEF SessionsRestart
  <1>3. /\ keys' \in [AccountProcesses -> SUBSET [name : SUBSET Phrases, phrase : Phrases]]
        /\ \A q \in AccountProcesses : keys'[q] \subseteq keys[q]
        /\ page' \in [AccountProcesses -> SUBSET Browsers]
    BY <1>2 DEF SessionsInv, SessionsTypeOK
  <1> QED
    BY <1>1, <1>2, <1>3, SessionsOver DEF SessionsInv, SessionsTypeOK

LEMMA SessionsClockKeeps ==
  ASSUME SessionsInv, SessionsTick
  PROVE  SessionsInv'
  <1>1. AccountsInv' /\ RowsStay /\ UNCHANGED sessionVars
    BY ClockKeeps DEF SessionsInv, SessionsTick
  <1> QED
    BY <1>1, SessionsOver DEF SessionsInv, SessionsTypeOK, sessionVars

LEMMA SessionsStep ==
  ASSUME SessionsInv, [SessionsNext]_<<accountVars, sessionVars, now>>
  PROVE  SessionsInv'
  <1>1. CASE UNCHANGED <<accountVars, sessionVars, now>>
    BY <1>1, SessionsStill DEF sessionVars, SessionsInv, SessionsTypeOK
  <1>2. ASSUME NEW p \in AccountProcesses,
               \E phrase \in Phrases, password \in Passwords, server \in BOOLEAN, a \in Addresses :
                  \/ \E b \in Browsers : WebRegister(p, b, phrase, password, server, a)
                  \/ ApiRegister(p, phrase, password, server, a)
        PROVE  SessionsInv'
    BY <1>2, WebRegisterKeeps, ApiRegisterKeeps
  <1>3. ASSUME NEW p \in AccountProcesses,
               \/ InsertRow(p) \/ SignRegistered(p) \/ AnswerPage(p) \/ AnswerFailure(p)
               \/ SessionsRestart(p)
        PROVE  SessionsInv'
    BY <1>3, InsertRowKeeps, SignRegisteredKeeps, AnswerKeeps, AnswerFailureKeeps,
       SessionsRestartKeeps
  <1>4. ASSUME NEW p \in AccountProcesses,
               \/ \E b \in Browsers :
                     \/ AcceptCharter(b)
                     \/ Logout(p, b)
                     \/ \E x \in accounts, phrase \in Phrases, password \in Passwords :
                           \/ Login(p, b, x, phrase, password)
                           \/ LoginById(p, b, x, phrase, password)
               \/ \E x \in accounts : SignCharter(x)
        PROVE  SessionsInv'
    BY <1>4, AcceptKeeps, LogoutKeeps, OpenKeeps, SignKeeps DEF Login, LoginById, MayLoginById
  <1>5. CASE SessionsTick
    BY <1>5, SessionsClockKeeps
  <1> QED
    BY <1>1, <1>2, <1>3, <1>4, <1>5 DEF SessionsNext

(* Accounts, registrations, cookies, keys and signatures fit together in every
   reachable state. *)
THEOREM SessionsInvariance == SessionsSpec => []SessionsInv
  <1>1. AccountsInit /\ SessionsInit /\ now = 0 => SessionsInv
    BY SessionsInit_Inv
  <1>2. SessionsInv /\ [SessionsNext]_<<accountVars, sessionVars, now>> => SessionsInv'
    BY SessionsStep
  <1> QED
    BY <1>1, <1>2, PTL DEF SessionsSpec

LEMMA SessionsInvParts == SessionsInv => SessionKeyOwned
  BY DEF SessionsInv

(* Whoever logs in or out and in whatever browser, the key that a process stores
   for a user is made from the phrase of that user's account, and is the only one. *)
THEOREM SessionKeysAreOwned == SessionsSpec => []SessionKeyOwned
  BY SessionsInvariance, SessionsInvParts, PTL

-----------------------------------------------------------------------------
(* Contacts. *)

(* The inductive invariant of the contacts: no row is of the user himself, nor
   is one about to be put back. *)
ContactsInv ==
    /\ contact \in [PublicIds -> Contact \union {NoContact}]
    /\ putting \in [ContactProcesses -> [id : PublicIds, row : Contact] \union {NoPut}]
    /\ partners \subseteq PublicIds
    /\ chatPhrases \in [ContactProcesses -> SUBSET PublicIds]
    /\ contact[Me] = NoContact
    /\ \A p \in ContactProcesses : ~Idle(p) => putting[p].id # Me

(* The lists show rows and partners of others, whatever the tables are. *)
LEMMA ListsShowOthers ==
  ASSUME contact[Me] = NoContact
  PROVE  \A shown \in WebContacts \union ApiContacts \union ApiDialogs : shown.id # Me
  BY DEF WebContacts, ApiContacts, ApiDialogs, Partners, Shown, IsContact

LEMMA ContactsInvInit == ContactsInit => ContactsInv
  BY ContactsAssumption DEF ContactsInv, ContactsInit, Idle

(* No request puts back a row of the user himself. *)
LEMMA ContactsInvStep == ContactsInv /\ [ContactsNext]_contactVars => ContactsInv'
  <1> SUFFICES ASSUME ContactsInv, [ContactsNext]_contactVars
               PROVE  ContactsInv'
    OBVIOUS
  <1> USE ContactsAssumption DEF ContactsInv
  <1>1. ASSUME NEW p \in ContactProcesses, NEW id \in PublicIds, NEW row \in Contact,
               id # Me, WillPut(p, id, row)
        PROVE  ContactsInv'
    BY <1>1 DEF WillPut, Idle
  <1>2. ASSUME NEW p \in ContactProcesses, NEW id \in PublicIds, NEW name \in Names,
               AddContact(p, id, name) \/ UpdateName(p, id, name)
        PROVE  ContactsInv'
    <2>1. NewContact(name) \in Contact
      BY DEF NewContact, Contact
    <2>2. IsContact(id) => id # Me /\ Renamed(contact[id], name) \in Contact
      BY DEF IsContact, Renamed, Contact
    <2> QED
      BY <1>1, <1>2, <2>1, <2>2 DEF AddContact, MayAdd, UpdateName
  <1>3. ASSUME NEW p \in ContactProcesses, NEW id \in PublicIds, NEW set \in BOOLEAN,
               SetPhraseHash(p, id, set)
        PROVE  ContactsInv'
    <2>1. id # Me /\ WithPhrase(contact[id], set) \in Contact
      BY <1>3 DEF SetPhraseHash, IsContact, WithPhrase, Contact
    <2> QED
      BY <1>1, <1>3, <2>1 DEF SetPhraseHash
  <1>4. ASSUME NEW id \in PublicIds, DeleteContact(id)
        PROVE  ContactsInv'
    BY <1>4 DEF DeleteContact, Idle
  <1>5. ASSUME NEW id \in PublicIds, GainDialog(id)
        PROVE  ContactsInv'
    <2>1. NewContact(DefaultName) \in Contact
      BY DEF NewContact, Contact
    <2> QED
      BY <1>5, <2>1 DEF GainDialog, Idle
  <1>6. ASSUME NEW p \in ContactProcesses, PutContact(p)
        PROVE  ContactsInv'
    <2>1. putting[p] \in [id : PublicIds, row : Contact] /\ putting[p].id # Me
      BY <1>6 DEF PutContact, Idle
    <2> QED
      BY <1>6, <2>1 DEF PutContact, Idle
  <1>7. ASSUME NEW p \in ContactProcesses, ContactsRestart(p)
        PROVE  ContactsInv'
    BY <1>7 DEF ContactsRestart, Idle
  <1>8. ASSUME NEW p \in ContactProcesses, NEW id \in Chatted,
               SaveChatPhrase(p, id) \/ ClearChatPhrase(p, id)
        PROVE  ContactsInv'
    BY <1>8 DEF SaveChatPhrase, ClearChatPhrase, Idle
  <1>9. CASE UNCHANGED contactVars
    BY <1>9 DEF contactVars, Idle
  <1> HIDE DEF ContactsInv
  <1> QED
    BY <1>2, <1>3, <1>4, <1>5, <1>6, <1>7, <1>8, <1>9 DEF ContactsNext

LEMMA ContactsInvParts == ContactsInv => ContactsTypeOK
  BY ListsShowOthers DEF ContactsInv, ContactsTypeOK

(* Neither list shows the user as a contact of himself, however requests of
   several processes read a row and put it back over what others changed. *)
THEOREM ContactsAreOthers == ContactsSpec => []ContactsTypeOK
  BY ContactsInvInit, ContactsInvStep, ContactsInvParts, PTL DEF ContactsSpec
=============================================================================
