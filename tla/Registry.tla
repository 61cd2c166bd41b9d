------------------------------ MODULE Registry ------------------------------
(***************************************************************************)
(* The server database: servers, clients and peers this server knows, and  *)
(* the master key its records are encrypted and hashed with.  The key is   *)
(* made by a process that finds none in its environment and is appended to *)
(* .env, where the start script reads the last one.  The web clients that  *)
(* the server starts have its environment, its .env and its database.      *)
(*                                                                         *)
(* Every call is one transaction, and so is a handler, except for the      *)
(* three of connect_peer().  A record stands for what the key does to it:  *)
(* regions, times, signatures and settings are left out.  What is shown of *)
(* regions or limited in number is some of what is shown without.  To the  *)
(* queue of synchronisation is added, and nothing is ever taken from it.   *)
(***************************************************************************)
EXTENDS Naturals, FiniteSets

CONSTANTS
    ServerProcesses, Main,       \* processes on the database: the server, web clients
    KnownServers, KnownClients,
    MasterKeys                   \* bound: keys that can be made

ASSUME RegistryAssumption ==
    /\ Main \in ServerProcesses
    /\ IsFiniteSet(KnownServers) /\ IsFiniteSet(KnownClients)

VARIABLES
    inUse,       \* _master_key of a process: {} while it does not run
    exported,    \* DUONET_MASTER_KEY in the environment of the server
    dotenv,      \* the last DUONET_MASTER_KEY in .env
    made,        \* history: keys that were generated
    urls,        \* table servers: the key that ws_url is encrypted with
    homes,       \* table clients
    peers,       \* table peers: the status
    queued,      \* table sync_queue: for whom something waits
    unsaved,     \* history: a key could not be written to .env
    forked       \* history: a web client started that found no key

keyVars == <<inUse, exported, dotenv, made, unsaved, forked>>
recordVars == <<urls, homes, peers, queued>>
registryVars == <<keyVars, recordVars>>

Hash == [server : KnownServers, key : SUBSET MasterKeys]
Statuses == {"none", "disconnected", "connecting", "connected"}

RegistryInit ==
    /\ inUse = [p \in ServerProcesses |-> {}]
    /\ exported = {} /\ dotenv = {} /\ made = {}
    /\ urls = [s \in KnownServers |-> {}]
    /\ homes = {} /\ queued = {}
    /\ peers = [s \in KnownServers |-> "none"]
    /\ unsaved = FALSE /\ forked = FALSE

Running(p) == inUse[p] # {}

-----------------------------------------------------------------------------
\* The file that holds a key is left as it is.
SaveKey_mut(k, saves) == dotenv' = IF saves /\ dotenv = {} /\ made # {} THEN {k} ELSE dotenv
SaveKey(k, saves) == dotenv' = IF saves THEN {k} ELSE dotenv

LoadOrCreateMasterKey(p, environ, saves) ==
    IF environ # {}
    THEN /\ inUse' = [inUse EXCEPT ![p] = environ]
         /\ UNCHANGED <<dotenv, made, unsaved>>
    ELSE \E k \in MasterKeys \ made :
            /\ inUse' = [inUse EXCEPT ![p] = {k}]
            /\ made' = made \union {k}
            /\ SaveKey(k, saves)
            /\ unsaved' = (unsaved \/ ~saves)

StartServer(saves) ==
    /\ ~Running(Main)
    /\ exported' = dotenv
    /\ LoadOrCreateMasterKey(Main, dotenv, saves)
    /\ UNCHANGED <<forked, recordVars>>

\* MultiClientManager.start_client().
StartWebClient(p, saves) ==
    /\ p # Main /\ Running(Main) /\ ~Running(p)
    /\ LoadOrCreateMasterKey(p, exported, saves)
    /\ forked' = (forked \/ exported = {})
    /\ UNCHANGED <<exported, recordVars>>

EndProcess(p) ==
    /\ Running(p)
    /\ inUse' = [inUse EXCEPT ![p] = {}]
    /\ UNCHANGED <<exported, dotenv, made, unsaved, forked, recordVars>>

-----------------------------------------------------------------------------
(* Records.                                                                 *)

AddServer(p, s) ==
    /\ Running(p)
    /\ urls' = [urls EXCEPT ![s] = inUse[p]]
    /\ UNCHANGED <<homes, peers, queued, keyVars>>

HmacServerId(p, s) == [server |-> s, key |-> inUse[p]]

\* A client may have a row for each of several servers.
AddClientRow(p, c, s) ==
    /\ Running(p)
    /\ homes' = homes \union {[client |-> c, hash |-> HmacServerId(p, s)]}
    /\ UNCHANGED <<urls, peers, queued, keyVars>>

AddToSyncQueue(p, s) ==
    /\ Running(p)
    /\ queued' = queued \union {s}
    /\ UNCHANGED <<urls, homes, peers, keyVars>>

SetPeer(s, status) ==
    /\ peers' = [peers EXCEPT ![s] = status]
    /\ UNCHANGED <<urls, homes, queued>>

\* A peer that is added again is disconnected, whatever it was.
AddPeer(p, s) == Running(p) /\ SetPeer(s, "disconnected") /\ UNCHANGED keyVars

ConnectPeer(p, s) ==
    Running(p) /\ peers[s] # "none" /\ SetPeer(s, "connected") /\ UNCHANGED keyVars

\* The process ends between the second transaction and the third.
ConnectPeerCut(p, s) ==
    /\ Running(p) /\ peers[s] # "none"
    /\ SetPeer(s, "connecting")
    /\ inUse' = [inUse EXCEPT ![p] = {}]
    /\ UNCHANGED <<exported, dotenv, made, unsaved, forked>>

DisconnectPeer(p, s) ==
    Running(p) /\ peers[s] # "none" /\ SetPeer(s, "disconnected") /\ UNCHANGED keyVars

DeletePeer(p, s) == Running(p) /\ SetPeer(s, "none") /\ UNCHANGED keyVars

-----------------------------------------------------------------------------
(* What process p answers.                                                  *)

Registered == {s \in KnownServers : urls[s] # {}}

\* decrypt_data() of another key's text is the empty string.
DecryptedUrl(p, s) == IF urls[s] = inUse[p] THEN "address" ELSE ""

GetServer(p, s) == [server |-> s, url |-> DecryptedUrl(p, s)]
GetServers(p) == {GetServer(p, s) : s \in Registered}

GetClients == homes
GetClientServer(c) == {row.hash : row \in {h \in GetClients : h.client = c}}

GetStats == [servers |-> Cardinality(Registered), clients |-> Cardinality(GetClients),
             pending |-> Cardinality(queued)]

-----------------------------------------------------------------------------
RegistryNext ==
    \/ \E saves \in BOOLEAN :
          \/ StartServer(saves)
          \/ \E p \in ServerProcesses : StartWebClient(p, saves)
    \/ \E p \in ServerProcesses :
          \/ EndProcess(p)
          \/ \E s \in KnownServers :
                \/ AddServer(p, s)
                \/ \E c \in KnownClients : AddClientRow(p, c, s)
                \/ AddToSyncQueue(p, s)
                \/ AddPeer(p, s)
                \/ ConnectPeer(p, s)
                \/ ConnectPeerCut(p, s)
                \/ DisconnectPeer(p, s)
                \/ DeletePeer(p, s)

RegistrySpec == RegistryInit /\ [][RegistryNext]_registryVars

-----------------------------------------------------------------------------
RegistryTypeOK ==
    /\ inUse \in [ServerProcesses -> SUBSET MasterKeys]
    /\ exported \subseteq MasterKeys /\ dotenv \subseteq MasterKeys /\ made \subseteq MasterKeys
    /\ urls \in [KnownServers -> SUBSET MasterKeys]
    /\ homes \subseteq [client : KnownClients, hash : Hash]
    /\ queued \subseteq KnownServers
    /\ peers \in [KnownServers -> Statuses]
    /\ unsaved \in BOOLEAN /\ forked \in BOOLEAN

\* What one process wrote every other can use, over any restarts: it shows the
\* address of every server, and a client that is added again finds its row
\* instead of a second one, so that the statistics count each once.  It fails
\* in two ways only, that a key could not be saved and that a web client was
\* started in the run that made the first key.
RowsReadable ==
    ~unsaved /\ ~forked =>
        \A p \in ServerProcesses : Running(p) =>
            /\ \A shown \in GetServers(p) : shown.url = "address"
            /\ \A c \in KnownClients :
                  GetClientServer(c) \subseteq {HmacServerId(p, s) : s \in KnownServers}
            /\ GetStats.clients <= Cardinality(KnownClients) * Cardinality(KnownServers)
=============================================================================
