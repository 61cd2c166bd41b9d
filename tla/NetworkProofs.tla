-------------------------- MODULE NetworkProofs -----------------------------
(*****************************************************************************)
(* What holds of the network map, the rendezvous directory and the trust     *)
(* between servers, for any nodes, servers, lifetimes and bounds.            *)
(*****************************************************************************)
EXTENDS NetworkMap, Directory, Trust, TLAPS

-----------------------------------------------------------------------------
(* Network map. *)

(* An expiry in the table is a lifetime after the node was last alive: with
   MapStored, so is one in memory. *)
TableFollowsAlive == \A n \in Nodes : table[n] # NoNode => table[n] = alive[n] + NodeTTL

MapInv ==
    /\ NetworkMapTypeOK
    /\ now \in Nat
    /\ MapStored
    /\ TableFollowsAlive

LEMMA MapInvInit == NetworkMapInit /\ now = 0 => MapInv
  <1> SUFFICES ASSUME NetworkMapInit, now = 0
               PROVE  MapInv
    OBVIOUS
  <1>1. NetworkMapTypeOK
    BY DEF NetworkMapInit, NetworkMapTypeOK, NoNode
  <1>2. MapStored /\ TableFollowsAlive
    BY DEF NetworkMapInit, MapStored, TableFollowsAlive, Known
  <1>3. now \in Nat
    OBVIOUS
  <1> QED
    BY <1>1, <1>2, <1>3 DEF MapInv

(* An action that leaves a node what it is. *)
LEMMA AddingKnown ==
  ASSUME MapInv, NEW n \in Nodes, AddNode(n), n \in Known
  PROVE  UNCHANGED <<nodes, table, running, alive, removed, now>>
  <1>1. /\ nodes' = [nodes EXCEPT ![n] = nodes[n]]
        /\ table' = [table EXCEPT ![n] = nodes[n]]
        /\ UNCHANGED <<running, alive, removed, now>>
    BY DEF AddNode, Store
  <1>2. table[n] = nodes[n]
    BY DEF MapInv, MapStored
  <1>3. nodes' = nodes /\ table' = table
    BY <1>1, <1>2 DEF MapInv, NetworkMapTypeOK
  <1> QED
    BY <1>1, <1>3

(* A node that is new or beats has its whole lifetime before it. *)
LEMMA AliveAgain ==
  ASSUME MapInv, NEW n \in Nodes,
         nodes' = [nodes EXCEPT ![n] = now + NodeTTL],
         table' = [table EXCEPT ![n] = now + NodeTTL],
         Beats(n), UNCHANGED <<running, now>>
  PROVE  MapInv'
  <1>1. now + NodeTTL \in Nat
    BY NetworkMapAssumption DEF MapInv
  <1>2. NetworkMapTypeOK' /\ now' \in Nat
    BY <1>1 DEF MapInv, NetworkMapTypeOK, Beats
  <1>3. MapStored'
    BY DEF MapInv, NetworkMapTypeOK, MapStored, Known
  <1>4. TableFollowsAlive'
    BY DEF Beats, MapInv, NetworkMapTypeOK, TableFollowsAlive
  <1> QED
    BY <1>2, <1>3, <1>4 DEF MapInv

(* Nodes that go, go from memory and from the table. *)
LEMMA GoingNodes ==
  ASSUME MapInv, NEW S \in SUBSET Nodes,
         nodes' = [n \in Nodes |-> IF n \in S THEN NoNode ELSE nodes[n]],
         table' = [n \in Nodes |-> IF n \in S THEN NoNode ELSE table[n]],
         removed' \subseteq Nodes, UNCHANGED <<running, alive, now>>
  PROVE  MapInv'
  <1>1. NetworkMapTypeOK' /\ now' \in Nat
    BY DEF MapInv, NetworkMapTypeOK, NoNode
  <1>2. MapStored'
    BY DEF MapInv, MapStored, Known
  <1>3. TableFollowsAlive'
    BY DEF MapInv, TableFollowsAlive
  <1> QED
    BY <1>1, <1>2, <1>3 DEF MapInv

LEMMA MapInvStep == MapInv /\ [NetworkMapNext]_<<mapVars, now>> => MapInv'
  <1> SUFFICES ASSUME MapInv, [NetworkMapNext]_<<mapVars, now>>
               PROVE  MapInv'
    OBVIOUS
  <1>1. ASSUME NEW n \in Nodes, AddNode(n)
        PROVE  MapInv'
    <2>1. CASE n \in Known
      BY <1>1, <2>1, AddingKnown DEF MapInv, NetworkMapTypeOK, MapStored, Known,
           TableFollowsAlive
    <2>2. CASE n \notin Known
      BY <1>1, <2>2, AliveAgain DEF AddNode, Store
    <2> QED
      BY <2>1, <2>2
  <1>2. ASSUME NEW n \in Nodes, RemoveNode(n)
        PROVE  MapInv'
    <2>1. /\ nodes' = [x \in Nodes |-> IF x \in {n} THEN NoNode ELSE nodes[x]]
          /\ table' = [x \in Nodes |-> IF x \in {n} THEN NoNode ELSE table[x]]
      BY <1>2 DEF RemoveNode, Store, MapInv, NetworkMapTypeOK
    <2>2. {n} \in SUBSET Nodes /\ removed' \subseteq Nodes
      BY <1>2 DEF RemoveNode, MapInv, NetworkMapTypeOK
    <2> QED
      BY <1>2, <2>1, <2>2, GoingNodes DEF RemoveNode
  <1>3. ASSUME NEW n \in Nodes, UpdateHeartbeat(n)
        PROVE  MapInv'
    BY <1>3, AliveAgain DEF UpdateHeartbeat, Store
  <1>4. CASE MonitorCleanup
    BY <1>4, GoingNodes
       DEF MonitorCleanup, CleanupExpired, Expired, Known, MapInv, NetworkMapTypeOK
  <1>5. CASE StartMonitor
    BY <1>5 DEF StartMonitor, MapInv, NetworkMapTypeOK, MapStored, TableFollowsAlive, Known
  <1>6. CASE StopMonitor
    BY <1>6 DEF StopMonitor, MapInv, NetworkMapTypeOK, MapStored, TableFollowsAlive, Known
  <1>7. CASE MapRestart
    BY <1>7 DEF MapRestart, MapInv, NetworkMapTypeOK, MapStored, TableFollowsAlive, Known,
         NoNode
  <1>8. CASE MapTick
    BY <1>8 DEF MapTick, Tick, mapVars, MapInv, NetworkMapTypeOK, MapStored,
         TableFollowsAlive, Known
  <1>9. CASE UNCHANGED <<mapVars, now>>
    BY <1>9 DEF mapVars, MapInv, NetworkMapTypeOK, MapStored, TableFollowsAlive, Known
  <1> QED
    BY <1>1, <1>2, <1>3, <1>4, <1>5, <1>6, <1>7, <1>8, <1>9 DEF NetworkMapNext

(* What memory and table hold, and until when, in every reachable state. *)
THEOREM MapInvariance == NetworkMapSpec => []MapInv
  BY MapInvInit, MapInvStep, PTL DEF NetworkMapSpec

(* What is in memory is in the table with the same expiry: no crash, and no
   restart of the monitor, which reads the table over the memory, loses a
   heartbeat. *)
THEOREM MemoryIsStored == NetworkMapSpec => []MapStored
  BY MapInvariance, PTL DEF MapInv

(* A node that announced itself within its lifetime stays on the map, but for
   remove_node() and the end of the process: no clean-up takes it, and no start
   of the monitor. *)
THEOREM NodesThatBeatStay == NetworkMapSpec => BeatingStays
  <1> DEFINE Stays == \A n \in Known :
                        now < alive[n] + NodeTTL /\ nodes'[n] = NoNode
                          => RemoveNode(n) \/ MapRestart
  <1>1. MapInv /\ [NetworkMapNext]_<<mapVars, now>> => [Stays]_<<mapVars, now>>
    <2> SUFFICES ASSUME MapInv, NetworkMapNext,
                        NEW n \in Known, now < alive[n] + NodeTTL, nodes'[n] = NoNode
                 PROVE  RemoveNode(n) \/ MapRestart
      OBVIOUS
    <2> USE DEF MapInv, NetworkMapTypeOK
    <2>1. /\ n \in Nodes /\ nodes[n] # NoNode
          /\ table[n] = nodes[n] /\ nodes[n] = alive[n] + NodeTTL
      BY DEF Known, MapStored, TableFollowsAlive
    <2>2. now + NodeTTL # NoNode
      BY NetworkMapAssumption DEF NoNode
    <2>3. ASSUME NEW x \in Nodes, AddNode(x)
          PROVE  FALSE
      <3>1. CASE x \in Known
        BY <2>1, <2>3, <3>1, AddingKnown
      <3>2. CASE x \notin Known
        BY <2>1, <2>2, <2>3, <3>2 DEF AddNode, Store
      <3> QED
        BY <3>1, <3>2
    <2>4. ASSUME NEW x \in Nodes, RemoveNode(x)
          PROVE  RemoveNode(n)
      <3>1. x = n
        BY <2>1, <2>4 DEF RemoveNode, Store
      <3> QED
        BY <2>4, <3>1
    <2>5. ASSUME NEW x \in Nodes, UpdateHeartbeat(x)
          PROVE  FALSE
      BY <2>1, <2>2, <2>5 DEF UpdateHeartbeat, Store
    <2>6. CASE MonitorCleanup
      <3>1. n \in Expired
        BY <2>1, <2>6 DEF MonitorCleanup, CleanupExpired
      <3> QED
        BY <2>1, <3>1, NetworkMapAssumption DEF Expired
    <2>7. ~StartMonitor
      BY <2>1 DEF StartMonitor
    <2>8. ~StopMonitor
      BY <2>1 DEF StopMonitor
    <2>9. ~MapTick
      BY <2>1 DEF MapTick, mapVars
    <2> QED
      BY <2>3, <2>4, <2>5, <2>6, <2>7, <2>8, <2>9 DEF NetworkMapNext
  <1> QED
    BY <1>1, MapInvariance, PTL DEF NetworkMapSpec, BeatingStays

(* The table implements the leases: every step of the map renews one, releases
   one, drops some whose time has passed, lets time pass or leaves the table. *)
THEOREM TableImplementsLeases == NetworkMapSpec => TableLeases
  <1>1. NetworkMapInit /\ now = 0 => TableLease!Init
    BY DEF NetworkMapInit, TableLease!Init, TableLease!Free, NoNode
  <1>2. MapInv /\ [NetworkMapNext]_<<mapVars, now>> => [TableLease!Next]_<<table, removed, now>>
    <2> SUFFICES ASSUME MapInv, NetworkMapNext
                 PROVE  TableLease!Next \/ UNCHANGED <<table, removed, now>>
      BY DEF mapVars
    <2>1. ASSUME NEW n \in Nodes, AddNode(n)
          PROVE  TableLease!Next \/ UNCHANGED <<table, removed, now>>
      <3>1. CASE n \in Known
        BY <2>1, <3>1, AddingKnown
      <3>2. CASE n \notin Known
        <4>1. TableLease!Renew(n)
          BY <2>1, <3>2 DEF AddNode, Store, Beats, TableLease!Renew
        <4> QED
          BY <4>1 DEF TableLease!Next
      <3> QED
        BY <3>1, <3>2
    <2>2. ASSUME NEW n \in Nodes, RemoveNode(n)
          PROVE  TableLease!Next
      <3>1. TableLease!Release(n)
        BY <2>2 DEF RemoveNode, Store, NoNode, NetworkMapTypeOK, MapInv,
                    TableLease!Release, TableLease!Drop, TableLease!Free
      <3> QED
        BY <3>1 DEF TableLease!Next
    <2>3. ASSUME NEW n \in Nodes, UpdateHeartbeat(n)
          PROVE  TableLease!Next
      <3>1. TableLease!Renew(n)
        BY <2>3 DEF UpdateHeartbeat, Store, Beats, TableLease!Renew
      <3> QED
        BY <3>1 DEF TableLease!Next
    <2>4. ASSUME MonitorCleanup
          PROVE  TableLease!Next
      <3>1. Expired \in SUBSET TableLease!Elapsed
        BY DEF MapInv, MapStored, Expired, Known, TableLease!Elapsed, TableLease!Held,
               TableLease!Free, NoNode
      <3>2. TableLease!Expire(Expired)
        BY <2>4 DEF MonitorCleanup, CleanupExpired, TableLease!Expire, TableLease!Drop,
                    TableLease!Free, NoNode
      <3> QED
        BY <3>1, <3>2 DEF TableLease!Next
    <2>5. ASSUME StartMonitor \/ StopMonitor \/ MapRestart
          PROVE  UNCHANGED <<table, removed, now>>
      BY <2>5 DEF StartMonitor, StopMonitor, MapRestart
    <2>6. ASSUME MapTick
          PROVE  TableLease!Next
      <3>1. TableLease!Pass
        BY <2>6 DEF MapTick, Tick, mapVars, TableLease!Pass
      <3> QED
        BY <3>1 DEF TableLease!Next
    <2> QED
      BY <2>1, <2>2, <2>3, <2>4, <2>5, <2>6 DEF NetworkMapNext
  <1> QED
    BY <1>1, <1>2, MapInvariance, PTL DEF NetworkMapSpec, TableLeases, TableLease!Spec

-----------------------------------------------------------------------------
(* Directory. *)

USE DirectoryAssumption, ClockAssumption

(* The question that a server asks about itself. *)
Own == <<"server", Self>>

(* No time that is kept lies ahead. *)
DirectoryTimes ==
    /\ now \in 0..MaxNow
    /\ \A s \in Servers : beat[s] <= now
    /\ \A q \in Queries : cache[q].at <= now

(* An entry lasts a lifetime from the last beat of its server. *)
StoreFollowsBeats == \A e \in store : e.expires <= beat[e.id] + ServerTTL

(* A server has one registration. *)
OneEntryEach == \A e, x \in store : e.id = x.id => e = x

(* When it was given, a server of the answer had not been silent for long. *)
AnswersWereActive ==
    \A q \in Queries : \A e \in cache[q].data : cache[q].at < beat[e.id] + ServerTTL

(* The answer about oneself names no one else. *)
OwnAnswerIsOwn == \A e \in cache[Own].data : e.id = Self

(* The inductive invariant of the rendezvous server and its client's cache. *)
DirectoryInv ==
    /\ DirectoryTypeOK
    /\ DirectoryTimes
    /\ StoreFollowsBeats
    /\ OneEntryEach
    /\ AnswersWereActive
    /\ OwnAnswerIsOwn
    /\ OwnEntryCurrent

LEMMA OwnQuery == Own \in Queries /\ Own[1] = "server" /\ Own[2] = Self
  BY DEF Own, Queries

LEMMA DirectoryInvInit == DirectoryInit /\ now = 0 => DirectoryInv
  <1> SUFFICES ASSUME DirectoryInit, now = 0
               PROVE  DirectoryInv
    OBVIOUS
  <1>1. NoAnswer \in Answers /\ NoAnswer.data = {} /\ NoAnswer.at = 0
    BY DEF NoAnswer, Answers
  <1>2. \A q \in Queries : cache[q] = NoAnswer
    BY DEF DirectoryInit
  <1>3. DirectoryTypeOK
    BY <1>1 DEF DirectoryInit, DirectoryTypeOK
  <1>4. DirectoryTimes
    BY <1>1, <1>2 DEF DirectoryInit, DirectoryTimes
  <1>5. StoreFollowsBeats /\ OneEntryEach
    BY DEF DirectoryInit, StoreFollowsBeats, OneEntryEach
  <1>6. AnswersWereActive /\ OwnAnswerIsOwn /\ OwnEntryCurrent
    BY <1>1, <1>2, OwnQuery DEF AnswersWereActive, OwnAnswerIsOwn, OwnEntryCurrent, Own
  <1> QED
    BY <1>3, <1>4, <1>5, <1>6 DEF DirectoryInv

(* The rendezvous server hears of a server: it has one entry with a lifetime
   from now, and the others' are what they were. *)
LEMMA Heard ==
  ASSUME DirectoryInv, NEW s \in Servers, NEW l \in Loads,
         Put([id |-> s, load |-> l, expires |-> now + ServerTTL]),
         beat' = [beat EXCEPT ![s] = now], now' = now
  PROVE  /\ store' \subseteq Entry /\ beat' \in [Servers -> Nat]
         /\ StoreFollowsBeats' /\ OneEntryEach'
         /\ \A z \in Servers : beat[z] <= beat'[z] /\ beat'[z] <= now
         /\ \A e \in store : e.id # s => e \in store'
         /\ \A x \in store' : x.id # s => x \in store
  <1> DEFINE n == [id |-> s, load |-> l, expires |-> now + ServerTTL]
  <1>1. n \in Entry /\ n.id = s /\ n.expires = now + ServerTTL /\ now \in Nat
    BY DEF Entry, DirectoryInv, DirectoryTimes
  <1>2. store' = {x \in store : x.id # s} \union {n}
    BY DEF Put
  <1>3. store \subseteq Entry /\ beat \in [Servers -> Nat]
    BY DEF DirectoryInv, DirectoryTypeOK
  <1> HIDE DEF n
  <1>4. store' \subseteq Entry /\ beat' \in [Servers -> Nat]
    BY <1>1, <1>2, <1>3
  <1>5. \A z \in Servers : beat[z] <= beat'[z] /\ beat'[z] <= now
    BY <1>1, <1>3 DEF DirectoryInv, DirectoryTimes
  <1>6. StoreFollowsBeats'
    <2> SUFFICES ASSUME NEW e \in store'
                 PROVE  e.expires <= beat'[e.id] + ServerTTL
      BY DEF StoreFollowsBeats
    <2>1. CASE e = n
      BY <1>1, <1>3, <2>1
    <2>2. CASE e \in store /\ e.id # s
      <3>1. e.id \in Servers /\ beat'[e.id] = beat[e.id]
        BY <1>3, <2>2 DEF Entry
      <3> QED
        BY <2>2, <3>1 DEF DirectoryInv, StoreFollowsBeats
    <2> QED
      BY <1>2, <2>1, <2>2
  <1>7. OneEntryEach'
    BY <1>1, <1>2 DEF DirectoryInv, OneEntryEach
  <1> QED
    BY <1>1, <1>2, <1>4, <1>5, <1>6, <1>7

(* Answers that are kept or dropped while servers beat. *)
LEMMA AnswersKept ==
  ASSUME DirectoryInv, now' = now, beat' \in [Servers -> Nat],
         \A z \in Servers : beat[z] <= beat'[z] /\ beat'[z] <= now,
         cache' \in [Queries -> Answers],
         \A q \in Queries : cache'[q] \in {cache[q], NoAnswer}
  PROVE  DirectoryTimes' /\ AnswersWereActive' /\ OwnAnswerIsOwn'
  <1>1. NoAnswer.data = {} /\ NoAnswer.at = 0 /\ now \in Nat
    BY DEF NoAnswer, DirectoryInv, DirectoryTimes
  <1>2. DirectoryTimes'
    BY <1>1 DEF DirectoryInv, DirectoryTimes
  <1>3. AnswersWereActive'
    <2> SUFFICES ASSUME NEW q \in Queries, NEW e \in cache'[q].data
                 PROVE  cache'[q].at < beat'[e.id] + ServerTTL
      BY DEF AnswersWereActive
    <2>1. cache'[q] = cache[q]
      BY <1>1
    <2>2. e.id \in Servers /\ cache[q].at \in Nat
      BY <2>1 DEF Answers, Entry
    <2>3. cache[q].at < beat[e.id] + ServerTTL
      BY <2>1 DEF DirectoryInv, AnswersWereActive
    <2>4. beat[e.id] <= beat'[e.id] /\ beat[e.id] \in Nat /\ beat'[e.id] \in Nat
      BY <2>2 DEF DirectoryInv, DirectoryTypeOK
    <2> QED
      BY <2>1, <2>2, <2>3, <2>4
  <1>4. OwnAnswerIsOwn'
    BY <1>1, OwnQuery DEF DirectoryInv, OwnAnswerIsOwn, Own
  <1> QED
    BY <1>2, <1>3, <1>4

LEMMA OtherServerKeeps ==
  ASSUME DirectoryInv, NEW s \in Servers, OtherServer(s)
  PROVE  DirectoryInv'
  <1>1. PICK l \in Loads : Put([id |-> s, load |-> l, expires |-> now + ServerTTL])
    BY DEF OtherServer, Register, Heartbeat, Loads
  <1>2. /\ s # Self /\ beat' = [beat EXCEPT ![s] = now]
        /\ UNCHANGED <<cache, behind, now>> /\ lost' \subseteq lost
    BY DEF OtherServer, Register, Heartbeat, HeardOf
  <1>3. /\ store' \subseteq Entry /\ beat' \in [Servers -> Nat]
        /\ StoreFollowsBeats' /\ OneEntryEach'
        /\ \A z \in Servers : beat[z] <= beat'[z] /\ beat'[z] <= now
        /\ \A e \in store : e.id # s => e \in store'
        /\ \A x \in store' : x.id # s => x \in store
    BY <1>1, <1>2, Heard
  <1>4. DirectoryTypeOK'
    BY <1>2, <1>3 DEF DirectoryInv, DirectoryTypeOK
  <1>5. DirectoryTimes' /\ AnswersWereActive' /\ OwnAnswerIsOwn'
    BY <1>2, <1>3, AnswersKept DEF DirectoryInv, DirectoryTypeOK
  <1>6. OwnEntryCurrent'
    BY <1>2, <1>3 DEF DirectoryInv, OwnEntryCurrent, OwnAnswerIsOwn, Own
  <1> QED
    BY <1>3, <1>4, <1>5, <1>6 DEF DirectoryInv

(* Self changes its entry: if the reply came, its answer about itself goes. *)
LEMMA OwnChangeKeeps ==
  ASSUME DirectoryInv, NEW l \in Loads, NEW replied \in BOOLEAN,
         Put([id |-> Self, load |-> l, expires |-> now + ServerTTL]),
         beat' = [beat EXCEPT ![Self] = now],
         behind' = ~replied,
         cache' \in [Queries -> Answers],
         \A q \in Queries : cache'[q] \in {cache[q], NoAnswer},
         replied => cache'[Own] = NoAnswer,
         lost' \subseteq lost, now' = now
  PROVE  DirectoryInv'
  <1>1. /\ store' \subseteq Entry /\ beat' \in [Servers -> Nat]
        /\ StoreFollowsBeats' /\ OneEntryEach'
        /\ \A z \in Servers : beat[z] <= beat'[z] /\ beat'[z] <= now
    BY Heard
  <1>2. DirectoryTypeOK'
    BY <1>1 DEF DirectoryInv, DirectoryTypeOK
  <1>3. DirectoryTimes' /\ AnswersWereActive' /\ OwnAnswerIsOwn'
    BY <1>1, AnswersKept
  <1>4. OwnEntryCurrent'
    <2>1. CASE replied
      <3>1. cache'[<<"server", Self>>].data = {}
        BY <2>1 DEF Own, NoAnswer
      <3> QED
        BY <3>1 DEF OwnEntryCurrent
    <2>2. CASE ~replied
      <3>1. behind'
        BY <2>2
      <3> QED
        BY <3>1 DEF OwnEntryCurrent
    <2> QED
      BY <2>1, <2>2
  <1> QED
    BY <1>1, <1>2, <1>3, <1>4 DEF DirectoryInv

LEMMA AskKeeps ==
  ASSUME DirectoryInv, NEW q \in Queries, NEW replied \in BOOLEAN, Ask(q, replied)
  PROVE  DirectoryInv'
  <1> DEFINE n == IF replied /\ Keeps(q)
                  THEN [known |-> TRUE, data |-> Answer(q), at |-> now] ELSE NoAnswer
  <1>1. cache' = [cache EXCEPT ![q] = n] /\ UNCHANGED <<store, behind, beat, lost, now>>
    BY DEF Ask
  <1>2. store \subseteq Entry /\ cache \in [Queries -> Answers] /\ now \in Nat
        /\ beat \in [Servers -> Nat]
    BY DEF DirectoryInv, DirectoryTypeOK, DirectoryTimes
  <1>3. Active \subseteq store /\ \A e \in Active : now < e.expires
    BY DEF Active, IsActive
  <1>4. Answer(q) \subseteq Active /\ (q = Own => \A e \in Answer(q) : e.id = Self)
    <2>1. q = Own => q[1] = "server" /\ q[2] = Self
      BY OwnQuery
    <2>2. q[1] \in {"server", "region", "region_load"}
      BY DEF Queries
    <2> QED
      BY <2>1, <2>2 DEF Answer
  <1>5. n \in Answers
    BY <1>2, <1>3, <1>4 DEF Answers, NoAnswer
  <1>6. /\ n.at <= now /\ n.data \subseteq Active
        /\ n.data # {} => n.at = now
        /\ q = Own => \A e \in n.data : e.id = Self
    BY <1>2, <1>4 DEF NoAnswer
  <1> HIDE DEF n
  <1>7. DirectoryTypeOK'
    BY <1>1, <1>2, <1>5 DEF DirectoryInv, DirectoryTypeOK
  <1>8. DirectoryTimes' /\ StoreFollowsBeats' /\ OneEntryEach'
    BY <1>1, <1>2, <1>6 DEF DirectoryInv, DirectoryTimes, StoreFollowsBeats, OneEntryEach
  <1>9. AnswersWereActive'
    <2> SUFFICES ASSUME NEW z \in Queries, NEW e \in cache'[z].data
                 PROVE  cache'[z].at < beat[e.id] + ServerTTL
      BY <1>1 DEF AnswersWereActive
    <2>1. CASE z = q
      <3>1. e \in Active /\ cache'[z].at = now /\ e \in store
        BY <1>1, <1>2, <1>3, <1>6, <2>1
      <3>2. e.expires <= beat[e.id] + ServerTTL
        BY <3>1 DEF DirectoryInv, StoreFollowsBeats
      <3>3. e.expires \in Nat /\ beat[e.id] \in Nat
        BY <1>2, <3>1 DEF Entry
      <3> QED
        BY <1>2, <1>3, <3>1, <3>2, <3>3
    <2>2. CASE z # q
      BY <1>1, <1>2, <2>2 DEF DirectoryInv, AnswersWereActive
    <2> QED
      BY <2>1, <2>2
  <1>10. OwnAnswerIsOwn' /\ OwnEntryCurrent'
    BY <1>1, <1>2, <1>3, <1>6, OwnQuery
       DEF DirectoryInv, OwnAnswerIsOwn, OwnEntryCurrent, Own
  <1> QED
    BY <1>7, <1>8, <1>9, <1>10 DEF DirectoryInv

(* Entries only go: expired ones, or all of them. *)
LEMMA EntriesGo ==
  ASSUME DirectoryInv, store' \subseteq store, lost' \subseteq Servers,
         UNCHANGED <<cache, behind, beat, now>>
  PROVE  DirectoryInv'
  <1>1. DirectoryTypeOK' /\ DirectoryTimes' /\ StoreFollowsBeats' /\ OneEntryEach'
    BY DEF DirectoryInv, DirectoryTypeOK, DirectoryTimes, StoreFollowsBeats, OneEntryEach
  <1>2. AnswersWereActive' /\ OwnAnswerIsOwn'
    BY DEF DirectoryInv, AnswersWereActive, OwnAnswerIsOwn
  <1>3. OwnEntryCurrent'
    BY DEF DirectoryInv, OwnEntryCurrent, OwnAnswerIsOwn, OneEntryEach, Own
  <1> QED
    BY <1>1, <1>2, <1>3 DEF DirectoryInv

LEMMA DirectoryInvStep == DirectoryInv /\ [DirectoryNext]_<<directoryVars, now>> => DirectoryInv'
  <1> SUFFICES ASSUME DirectoryInv, [DirectoryNext]_<<directoryVars, now>>
               PROVE  DirectoryInv'
    OBVIOUS
  <1>1. cache \in [Queries -> Answers] /\ NoAnswer \in Answers /\ Own \in Queries
    BY OwnQuery DEF DirectoryInv, DirectoryTypeOK, NoAnswer, Answers
  <1>2. ASSUME NEW s \in Servers, OtherServer(s)
        PROVE  DirectoryInv'
    BY <1>2, OtherServerKeeps
  <1>3. ASSUME NEW q \in Queries \intersect Asked, NEW replied \in BOOLEAN, Ask(q, replied)
        PROVE  DirectoryInv'
    BY <1>3, AskKeeps
  <1>4. ASSUME NEW replied \in BOOLEAN, RegisterServer(replied)
        PROVE  DirectoryInv'
    <2>1. /\ Put([id |-> Self, load |-> "light", expires |-> now + ServerTTL])
          /\ beat' = [beat EXCEPT ![Self] = now] /\ behind' = ~replied /\ now' = now
          /\ cache' = IF replied THEN [q \in Queries |-> NoAnswer] ELSE cache
          /\ lost' \subseteq lost
      BY <1>4 DEF RegisterServer, Register, HeardOf
    <2>2. "light" \in Loads
      BY DEF Loads
    <2>3. /\ cache' \in [Queries -> Answers]
          /\ \A q \in Queries : cache'[q] \in {cache[q], NoAnswer}
          /\ replied => cache'[Own] = NoAnswer
      BY <1>1, <2>1
    <2> QED
      BY <2>1, <2>2, <2>3, OwnChangeKeeps
  <1>5. ASSUME NEW replied \in BOOLEAN, NEW load \in Loads, SendHeartbeat(load, replied)
        PROVE  DirectoryInv'
    <2>1. /\ Put([id |-> Self, load |-> load, expires |-> now + ServerTTL])
          /\ beat' = [beat EXCEPT ![Self] = now] /\ behind' = ~replied /\ now' = now
          /\ cache' = IF replied THEN [cache EXCEPT ![Own] = NoAnswer] ELSE cache
          /\ lost' \subseteq lost
      BY <1>5 DEF SendHeartbeat, Heartbeat, HeardOf, AfterHeartbeat, Own
    <2>2. /\ cache' \in [Queries -> Answers]
          /\ \A q \in Queries : cache'[q] \in {cache[q], NoAnswer}
          /\ replied => cache'[Own] = NoAnswer
      BY <1>1, <2>1
    <2> QED
      BY <2>1, <2>2, OwnChangeKeeps
  <1>6. CASE Cleanup \/ RendezvousRestart
    BY <1>6, EntriesGo
       DEF Cleanup, RendezvousRestart, Active, DirectoryInv, DirectoryTypeOK, Entry
  <1>7. CASE DirectoryTick
    <2>1. now' = now + 1 /\ now' \in 0..MaxNow /\ UNCHANGED <<store, cache, behind, beat, lost>>
      BY <1>7 DEF DirectoryTick, Tick, directoryVars, DirectoryInv, DirectoryTimes
    <2>2. DirectoryTypeOK'
      BY <2>1 DEF DirectoryInv, DirectoryTypeOK
    <2>3. DirectoryTimes'
      BY <1>1, <2>1 DEF DirectoryInv, DirectoryTypeOK, DirectoryTimes, Answers
    <2>4. StoreFollowsBeats' /\ OneEntryEach' /\ AnswersWereActive'
      BY <2>1 DEF DirectoryInv, StoreFollowsBeats, OneEntryEach, AnswersWereActive
    <2>5. OwnAnswerIsOwn' /\ OwnEntryCurrent'
      BY <2>1 DEF DirectoryInv, OwnAnswerIsOwn, OwnEntryCurrent
    <2> QED
      BY <2>2, <2>3, <2>4, <2>5 DEF DirectoryInv
  <1>8. CASE UNCHANGED <<directoryVars, now>>
    BY <1>8, EntriesGo DEF directoryVars, DirectoryInv, DirectoryTypeOK
  <1> QED
    BY <1>2, <1>3, <1>4, <1>5, <1>6, <1>7, <1>8 DEF DirectoryNext

(* The rendezvous server has one entry of a server, that lasts a lifetime from
   its last beat; answers were right when they were given. *)
THEOREM DirectoryInvariance == DirectorySpec => []DirectoryInv
  BY DirectoryInvInit, DirectoryInvStep, PTL DEF DirectorySpec

(* No search, no recommendation and no cached answer names a server that has
   been silent for the lifetimes of a registration and of an answer together. *)
THEOREM ToldServersWereAlive == DirectorySpec => []ToldWereAlive
  <1>1. DirectoryInv => ToldWereAlive
    <2> SUFFICES ASSUME DirectoryInv, NEW q \in Queries, NEW d \in Told(q)
                 PROVE  now < beat[d.id] + ServerTTL + CacheTTL
      BY DEF ToldWereAlive, Search
    <2>1. d \in cache[q].data /\ now - cache[q].at < CacheTTL
      BY DEF Told, Fresh
    <2>2. cache[q] \in Answers /\ now \in Nat
      BY DEF DirectoryInv, DirectoryTypeOK, DirectoryTimes
    <2>3. d \in Entry /\ cache[q].at \in Nat
      BY <2>1, <2>2 DEF Answers
    <2>4. beat[d.id] \in Nat
      BY <2>3 DEF Entry, DirectoryInv, DirectoryTypeOK
    <2>5. cache[q].at < beat[d.id] + ServerTTL
      BY <2>1 DEF DirectoryInv, AnswersWereActive
    <2> QED
      BY <2>1, <2>2, <2>3, <2>4, <2>5
  <1> QED
    BY <1>1, DirectoryInvariance, PTL

(* Unless the reply to its last change was lost, a server is told of itself what
   the rendezvous server has of it, or had before it forgot it. *)
THEOREM OwnEntryIsCurrent == DirectorySpec => []OwnEntryCurrent
  <1>1. DirectoryInv => OwnEntryCurrent
    BY DEF DirectoryInv
  <1> QED
    BY <1>1, DirectoryInvariance, PTL

(* The expiry of a server is that of its one entry, if it has one. *)
LEMMA ExpiryIs ==
  ASSUME OneEntryEach, NEW s
  PROVE  /\ \A e \in store : e.id = s => ListedUntil(s) = e.expires
         /\ (\A e \in store : e.id # s) => ListedUntil(s) = 0
  <1>1. ASSUME NEW e \in store, e.id = s
        PROVE  ListedUntil(s) = e.expires
    <2>1. (CHOOSE x \in store : x.id = s) = e
      BY <1>1 DEF OneEntryEach
    <2> QED
      BY <1>1, <2>1 DEF ListedUntil
  <1> QED
    BY <1>1 DEF ListedUntil

(* So is it after a step. *)
LEMMA ExpiryBecomes ==
  ASSUME OneEntryEach', NEW s
  PROVE  /\ \A e \in store' : e.id = s => ListedUntil(s)' = e.expires
         /\ (\A e \in store' : e.id # s) => ListedUntil(s)' = 0
  <1>1. ASSUME NEW e \in store', e.id = s
        PROVE  ListedUntil(s)' = e.expires
    <2>1. (CHOOSE x \in store' : x.id = s) = e
      BY <1>1 DEF OneEntryEach
    <2> QED
      BY <1>1, <2>1 DEF ListedUntil
  <1> QED
    BY <1>1 DEF ListedUntil

(* What the rendezvous server hears of a server renews its lease. *)
LEMMA HeardRenews ==
  ASSUME DirectoryInv, NEW s \in Servers, NEW l \in Loads,
         Put([id |-> s, load |-> l, expires |-> now + ServerTTL]),
         HeardOf(s), now' = now
  PROVE  StoreLease!Next
  <1>1. /\ OneEntryEach /\ OneEntryEach'
        /\ \A e \in store : e.id # s => e \in store'
        /\ \A x \in store' : x.id # s => x \in store
    BY Heard DEF DirectoryInv, HeardOf
  <1>2. ListedUntil(s)' = now + ServerTTL
    <2>1. PICK n : n = [id |-> s, load |-> l, expires |-> now + ServerTTL]
      OBVIOUS
    <2>2. n \in store' /\ n.id = s /\ n.expires = now + ServerTTL
      BY <2>1 DEF Put
    <2> QED
      BY <1>1, <2>2, ExpiryBecomes
  <1>3. ASSUME NEW z \in Servers, z # s
        PROVE  ListedUntil(z)' = ListedUntil(z)
    <2>1. CASE \E e \in store : e.id = z
      <3>1. PICK e \in store : e.id = z
        BY <2>1
      <3>2. e \in store'
        BY <1>1, <1>3, <3>1
      <3> QED
        BY <1>1, <3>1, <3>2, ExpiryIs, ExpiryBecomes
    <2>2. CASE \A e \in store : e.id # z
      <3>1. \A e \in store' : e.id # z
        BY <1>1, <1>3, <2>2
      <3> QED
        BY <1>1, <2>2, <3>1, ExpiryIs, ExpiryBecomes
    <2> QED
      BY <2>1, <2>2
  <1>4. StoreLease!Renew(s)
    BY <1>2, <1>3 DEF StoreLease!Renew, HeardOf
  <1> QED
    BY <1>4 DEF StoreLease!Next

(* Dropping what is not active ends leases whose time has passed. *)
LEMMA CleanupExpires ==
  ASSUME DirectoryInv, Cleanup
  PROVE  StoreLease!Next
  <1> DEFINE S == {s \in Servers : ListedUntil(s) # 0 /\ now >= ListedUntil(s)}
  <1>1. /\ store' = Active /\ now' = now /\ lost' = lost /\ store \subseteq Entry /\ now \in Nat
        /\ OneEntryEach /\ OneEntryEach'
    BY DEF Cleanup, Active, OneEntryEach, DirectoryInv, DirectoryTypeOK, DirectoryTimes
  <1>2. S \in SUBSET StoreLease!Elapsed
    BY DEF StoreLease!Elapsed, StoreLease!Held, StoreLease!Free
  <1>3. ASSUME NEW s \in Servers
        PROVE  ListedUntil(s)' = IF s \in S THEN 0 ELSE ListedUntil(s)
    <2>1. CASE \A e \in store : e.id # s
      <3>1. \A e \in store' : e.id # s
        BY <1>1, <2>1 DEF Active
      <3>2. ListedUntil(s) = 0
        BY <1>1, <2>1, ExpiryIs
      <3>3. ListedUntil(s)' = 0
        BY <1>1, <3>1, ExpiryBecomes
      <3> QED
        BY <3>2, <3>3
    <2>2. CASE \E e \in store : e.id = s
      <3>1. PICK e \in store : e.id = s
        BY <2>2
      <3>2. ListedUntil(s) = e.expires /\ e.expires \in Nat
        BY <1>1, <3>1, ExpiryIs DEF Entry
      <3>3. CASE IsActive(e)
        <4>1. e \in store'
          BY <1>1, <3>1, <3>3 DEF Active
        <4>2. ListedUntil(s)' = e.expires
          BY <1>1, <3>1, <4>1, ExpiryBecomes
        <4>3. s \notin S
          BY <1>1, <3>2, <3>3 DEF IsActive
        <4> QED
          BY <3>2, <4>2, <4>3
      <3>4. CASE ~IsActive(e)
        <4>1. \A x \in store' : x.id # s
          BY <1>1, <3>1, <3>4 DEF Active, OneEntryEach
        <4>2. ListedUntil(s)' = 0
          BY <1>1, <4>1, ExpiryBecomes
        <4>3. now >= ListedUntil(s)
          BY <1>1, <3>2, <3>4 DEF IsActive
        <4> QED
          BY <4>2, <4>3
      <3> QED
        BY <3>3, <3>4
    <2> QED
      BY <2>1, <2>2
  <1> HIDE DEF S
  <1>4. [s \in Servers |-> ListedUntil(s)]'
            = [s \in Servers |-> IF s \in S THEN 0 ELSE [z \in Servers |-> ListedUntil(z)][s]]
    BY <1>3
  <1>5. StoreLease!Expire(S)
    BY <1>1, <1>4 DEF StoreLease!Expire, StoreLease!Drop, StoreLease!Free
  <1> QED
    BY <1>2, <1>5 DEF StoreLease!Next

(* A server that is listed holds a lease, and no other does. *)
LEMMA ListedAreHeld ==
  ASSUME DirectoryInv
  PROVE  StoreLease!Held = {e.id : e \in store}
  <1>1. OneEntryEach /\ \A e \in store : e.id \in Servers /\ e.expires # 0
    BY DEF DirectoryInv, DirectoryTypeOK, Entry
  <1>2. ASSUME NEW s \in Servers
        PROVE  ListedUntil(s) # 0 <=> \E e \in store : e.id = s
    BY <1>1, ExpiryIs
  <1> QED
    BY <1>1, <1>2 DEF StoreLease!Held, StoreLease!Free

(* The store of the rendezvous server implements the leases: every step of the
   directory renews one, drops some whose time has passed, loses all with the
   process, lets time pass or leaves the store. *)
THEOREM StoreImplementsLeases == DirectorySpec => StoreLeases
  <1>1. DirectoryInit /\ now = 0 => StoreLease!Init
    BY DEF DirectoryInit, StoreLease!Init, StoreLease!Free, ListedUntil
  <1>2. DirectoryInv /\ [DirectoryNext]_<<directoryVars, now>>
            => [StoreLease!Next]_<<[s \in Servers |-> ListedUntil(s)], lost, now>>
    <2> SUFFICES ASSUME DirectoryInv, [DirectoryNext]_<<directoryVars, now>>
                 PROVE  \/ StoreLease!Next
                        \/ UNCHANGED <<[s \in Servers |-> ListedUntil(s)], lost, now>>
      OBVIOUS
    <2>1. ASSUME NEW s \in Servers, Register(s), now' = now
          PROVE  StoreLease!Next
      BY <2>1, HeardRenews DEF Register, Loads
    <2>2. ASSUME NEW s \in Servers, NEW load \in Loads, Heartbeat(s, load), now' = now
          PROVE  StoreLease!Next
      BY <2>2, HeardRenews DEF Heartbeat
    <2>3. CASE \E s \in Servers : OtherServer(s)
      BY <2>1, <2>2, <2>3 DEF OtherServer
    <2>4. CASE \E replied \in BOOLEAN :
                  RegisterServer(replied) \/ \E load \in Loads : SendHeartbeat(load, replied)
      BY <2>1, <2>2, <2>4 DEF RegisterServer, SendHeartbeat
    <2>5. ASSUME store' = store, lost' = lost, now' = now
          PROVE  UNCHANGED <<[s \in Servers |-> ListedUntil(s)], lost, now>>
      BY <2>5 DEF ListedUntil
    <2>6. CASE \E q \in Queries \intersect Asked, replied \in BOOLEAN : Ask(q, replied)
      BY <2>5, <2>6 DEF Ask
    <2>7. CASE Cleanup
      BY <2>7, CleanupExpires
    <2>8. CASE RendezvousRestart
      <3>1. \A s \in Servers : ListedUntil(s)' = 0
        BY <2>8 DEF RendezvousRestart, ListedUntil
      <3>2. StoreLease!Held = {e.id : e \in store}
        BY ListedAreHeld
      <3>3. StoreLease!Drop(StoreLease!Held)
        BY <2>8, <3>1 DEF RendezvousRestart, StoreLease!Drop, StoreLease!Held, StoreLease!Free
      <3>4. StoreLease!Lose
        BY <2>8, <3>2, <3>3 DEF RendezvousRestart, StoreLease!Lose
      <3> QED
        BY <3>4 DEF StoreLease!Next
    <2>9. CASE DirectoryTick
      <3>1. StoreLease!Pass
        BY <2>9 DEF DirectoryTick, Tick, directoryVars, StoreLease!Pass, ListedUntil
      <3> QED
        BY <3>1 DEF StoreLease!Next
    <2>10. CASE UNCHANGED <<directoryVars, now>>
      BY <2>5, <2>10 DEF directoryVars
    <2> QED
      BY <2>3, <2>4, <2>6, <2>7, <2>8, <2>9, <2>10 DEF DirectoryNext
  <1> QED
    BY <1>1, <1>2, DirectoryInvariance, PTL DEF DirectorySpec, StoreLeases, StoreLease!Spec

(* What the leases are for: a server that is listed and whose lifetime is not over
   is listed after the next step, whatever the rendezvous server is told or asked
   and whatever it cleans up, unless its process ends. *)
THEOREM ListingsLast ==
    DirectorySpec => [][\A s \in Servers : now < ListedUntil(s)
                           => ListedUntil(s)' # 0 \/ s \in lost']_<<directoryVars, now>>
  <1> DEFINE Lasts == \A s \in Servers : now < ListedUntil(s)
                         => ListedUntil(s)' # 0 \/ s \in lost'
             Listed == [s \in Servers |-> ListedUntil(s)]
  <1>1. DirectoryInv /\ [StoreLease!Next]_<<Listed, lost, now>> => Lasts
    <2> SUFFICES ASSUME DirectoryInv, [StoreLease!Next]_<<Listed, lost, now>>,
                        NEW s \in Servers, now < ListedUntil(s)
                 PROVE  ListedUntil(s)' # 0 \/ s \in lost'
      OBVIOUS
    <2>1. now \in Nat /\ Listed[s] = ListedUntil(s) /\ Listed'[s] = ListedUntil(s)'
      BY DEF DirectoryInv, DirectoryTimes
    <2>2. ListedUntil(s) \in Nat
      <3>1. OneEntryEach /\ \A e \in store : e.expires \in Nat
        BY DEF DirectoryInv, DirectoryTypeOK, Entry
      <3> QED
        BY <3>1, ExpiryIs
    <2>3. now + ServerTTL # 0 /\ ListedUntil(s) # 0
      BY <2>1
    <2> HIDE DEF Listed
    <2>4. ASSUME NEW S \in SUBSET StoreLease!Elapsed, StoreLease!Expire(S)
          PROVE  ListedUntil(s)' # 0
      <3>1. s \notin S
        <4>1. ASSUME s \in StoreLease!Elapsed
              PROVE  FALSE
          <5>1. now >= ListedUntil(s)
            BY <4>1 DEF StoreLease!Elapsed
          <5> QED
            BY <2>1, <2>2, <5>1
        <4> QED
          BY <4>1
      <3>2. ListedUntil(s)' = ListedUntil(s)
        BY <2>4, <3>1 DEF StoreLease!Expire, StoreLease!Drop
      <3> QED
        BY <2>3, <3>2
    <2>5. ASSUME NEW h \in Servers, StoreLease!Renew(h)
          PROVE  ListedUntil(s)' # 0
      <3>1. Listed' = [Listed EXCEPT ![h] = now + ServerTTL]
        BY <2>5 DEF StoreLease!Renew, Listed
      <3>2. Listed \in [Servers -> {Listed[z] : z \in Servers}]
        BY DEF Listed
      <3> QED
        BY <2>1, <2>3, <3>1, <3>2
    <2>6. ASSUME NEW h \in Servers
          PROVE  ~StoreLease!Release(h)
      BY DEF StoreLease!Release
    <2>7. ASSUME StoreLease!Lose
          PROVE  s \in lost'
      BY <2>3, <2>7 DEF StoreLease!Lose, StoreLease!Held, StoreLease!Free
    <2>8. ASSUME Listed' = Listed
          PROVE  ListedUntil(s)' # 0
      BY <2>1, <2>3, <2>8
    <2>9. StoreLease!Pass => Listed' = Listed
      BY DEF StoreLease!Pass, Listed
    <2> QED
      BY <2>4, <2>5, <2>6, <2>7, <2>8, <2>9 DEF StoreLease!Next
  <1> QED
    BY <1>1, DirectoryInvariance, StoreImplementsLeases, PTL DEF StoreLeases, StoreLease!Spec

-----------------------------------------------------------------------------
(* Trust. *)

USE TrustAssumption, ClockAssumption

(* The allowance of a row: what a server in quarantine was granted on a date
   is what it was given back and what its counters show; any other row was
   granted no more than one allowance over those given back. *)
Budget ==
    \A s \in Peers, a \in Actions :
        /\ trust[s].used[a] <= Limit[a]
        /\ trust[s].level = Quarantine =>
               spent[s][a] <= Limit[a] * excused[s] + Used(s, a)
        /\ spent[s][a] <= Limit[a] * (1 + excused[s])

(* A message whose handler ran has left its nonce. *)
AppliedKept == \A n \in Nonces : applied[n] > 0 => n \in nonces

(* The inductive invariant of the levels and of the gossip. *)
TrustInv == TrustTypeOK /\ Budget /\ GossipOnce /\ AppliedKept


(* One more, within a limit that is granted once more. *)
LEMMA Arithmetic ==
  ASSUME NEW l \in Nat, NEW e \in Nat
  PROVE  /\ l * (1 + e) = l * e + l
         /\ l * (e + 1) = l * e + l
         /\ l * e \in Nat
  <1>1. l * e \in Nat
    OBVIOUS
  <1>2. l * (e + 1) = l * e + l
    BY SMT
  <1> QED
    BY <1>1, <1>2

LEMMA FreshRow ==
  ASSUME NEW level \in Levels
  PROVE  /\ NewRow(level) \in Rows
         /\ NewRow(level).level = level /\ NewRow(level).blocked = FALSE
         /\ NewRow(level).used = Unused /\ NewRow(level).day = 0
         /\ Unused \in [Actions -> Nat]
         /\ \A a \in Actions : Unused[a] = 0
  <1>1. Unused \in [Actions -> Nat] /\ \A a \in Actions : Unused[a] = 0
    BY DEF Unused
  <1> QED
    BY <1>1 DEF NewRow, Rows

LEMMA TrustInvInit == TrustInit /\ now = 0 => TrustInv
  <1> SUFFICES ASSUME TrustInit, now = 0
               PROVE  TrustInv
    OBVIOUS
  <1>1. Unused \in [Actions -> Nat] /\ \A x \in Actions : Unused[x] = 0
    BY DEF Unused
  <1>2. NoRow \in Rows /\ NoRow.used = Unused /\ NoRow.level = 0
    <2>1. 0 \in Levels
      BY DEF Levels
    <2>2. NewRow(0) \in Rows /\ NewRow(0).used = Unused /\ NewRow(0).level = 0
      BY <2>1, FreshRow
    <2>3. FALSE \in BOOLEAN
      OBVIOUS
    <2> QED
      BY <2>2, <2>3 DEF NoRow, Rows
  <1>3. TrustTypeOK
    BY <1>1, <1>2 DEF TrustInit, TrustTypeOK
  <1>4. Budget
    <2> SUFFICES ASSUME NEW s \in Peers, NEW a \in Actions
                 PROVE  /\ trust[s].used[a] <= Limit[a]
                        /\ trust[s].level # Quarantine
                        /\ spent[s][a] <= Limit[a] * (1 + excused[s])
      BY DEF Budget
    <2>1. Limit[a] * (1 + 0) = Limit[a] /\ Limit[a] \in Nat
      OBVIOUS
    <2> QED
      BY <1>1, <1>2, <2>1 DEF TrustInit, Quarantine
  <1>5. GossipOnce /\ AppliedKept
    BY DEF TrustInit, GossipOnce, AppliedKept
  <1> QED
    BY <1>3, <1>4, <1>5 DEF TrustInv

LEMMA Times ==
  ASSUME now \in 0..MaxNow
  PROVE  QuarantineEnd \in Nat /\ Today \in Nat
  <1>1. QuarantineDays \in Nat /\ Day \in Nat \ {0} /\ now \in Nat
    OBVIOUS
  <1>2. QuarantineDays * Day \in Nat
    BY <1>1
  <1>3. now \div Day \in Nat
    BY <1>1
  <1> QED
    BY <1>1, <1>2, <1>3 DEF QuarantineEnd, Today

(* The part of the types that is of rows and their counters. *)
RowsTyped ==
    /\ now \in 0..MaxNow
    /\ trust \in [Peers -> Rows]
    /\ violations \in [Peers -> 0..MaxViolations]
    /\ spent \in [Peers -> [Actions -> Nat]]
    /\ excused \in [Peers -> Nat]

(* What the proofs about rows carry from step to step. *)
RowsFine == RowsTyped /\ Budget

(* What a step does to the row of one server and to its history; the rows of
   the others stay. *)
LEMMA RowUpdated ==
  ASSUME RowsFine, NEW s \in Peers, NEW r \in Rows,
         NEW g \in [Actions -> Nat], NEW x \in Nat,
         trust' = [trust EXCEPT ![s] = r],
         spent' = [spent EXCEPT ![s] = g],
         excused' = [excused EXCEPT ![s] = x],
         violations' \in [Peers -> 0..MaxViolations],
         now' = now,
         \A a \in Actions :
             /\ r.used[a] <= Limit[a]
             /\ r.level = Quarantine =>
                    g[a] <= Limit[a] * x + (IF r.day = Today THEN r.used[a] ELSE 0)
             /\ g[a] <= Limit[a] * (1 + x)
  PROVE  RowsFine'
  <1>1. RowsTyped'
    BY DEF RowsFine, RowsTyped
  <1>2. Budget'
    <2> SUFFICES ASSUME NEW z \in Peers, NEW a \in Actions
                 PROVE  /\ trust'[z].used[a] <= Limit[a]
                        /\ trust'[z].level = Quarantine =>
                               spent'[z][a] <= Limit[a] * excused'[z]
                                   + (IF trust'[z].day = Today THEN trust'[z].used[a] ELSE 0)
                        /\ spent'[z][a] <= Limit[a] * (1 + excused'[z])
      BY DEF Budget, Used, Today
    <2>1. CASE z = s
      BY <2>1 DEF RowsFine, RowsTyped
    <2>2. CASE z # s
      <3>1. trust'[z] = trust[z] /\ spent'[z] = spent[z] /\ excused'[z] = excused[z]
        BY <2>2 DEF RowsFine, RowsTyped
      <3> QED
        BY <3>1 DEF RowsFine, Budget, Used
    <2> QED
      BY <2>1, <2>2
  <1> QED
    BY <1>1, <1>2 DEF RowsFine

(* A row that is replaced or reset: its allowance is given back. *)
LEMMA RowAnew ==
  ASSUME RowsFine, NEW s \in Peers, NEW r \in Rows, r.used = Unused,
         trust' = [trust EXCEPT ![s] = r],
         Excuse(s),
         violations' \in [Peers -> 0..MaxViolations],
         now' = now
  PROVE  RowsFine'
  <1> DEFINE x == excused[s] + 1
  <1>1. x \in Nat /\ spent[s] \in [Actions -> Nat] /\ excused[s] \in Nat
    BY DEF RowsFine, RowsTyped
  <1>2. /\ spent' = [spent EXCEPT ![s] = spent[s]]
        /\ excused' = [excused EXCEPT ![s] = x]
    BY DEF RowsFine, RowsTyped, Excuse
  <1>3. ASSUME NEW a \in Actions
        PROVE  /\ r.used[a] <= Limit[a]
               /\ r.level = Quarantine =>
                      spent[s][a] <= Limit[a] * x + (IF r.day = Today THEN r.used[a] ELSE 0)
               /\ spent[s][a] <= Limit[a] * (1 + x)
    <2>1. r.used[a] = 0 /\ Limit[a] \in Nat
      BY DEF Unused
    <2>2. spent[s][a] <= Limit[a] * (1 + excused[s])
      BY DEF RowsFine, Budget
    <2>3. /\ Limit[a] * (1 + excused[s]) = Limit[a] * x
          /\ Limit[a] * (1 + x) = Limit[a] * x + Limit[a]
          /\ Limit[a] * x \in Nat
      <3>1. 1 + excused[s] = x
        BY <1>1
      <3> QED
        BY <1>1, <2>1, <3>1, Arithmetic
    <2>4. spent[s][a] \in Nat
      BY <1>1
    <2> HIDE DEF x
    <2> QED
      BY <2>1, <2>2, <2>3, <2>4
  <1> HIDE DEF x
  <1> QED
    BY <1>1, <1>2, <1>3, RowUpdated

(* A row that keeps its counters, and is not put into quarantine. *)
LEMMA RowKept ==
  ASSUME RowsFine, NEW s \in Peers, NEW r \in Rows,
         r.used = trust[s].used, r.day = trust[s].day,
         r.level = trust[s].level \/ r.level # Quarantine,
         trust' = [trust EXCEPT ![s] = r],
         UNCHANGED <<spent, excused, now>>,
         violations' \in [Peers -> 0..MaxViolations]
  PROVE  RowsFine'
  <1>1. spent[s] \in [Actions -> Nat] /\ excused[s] \in Nat
    BY DEF RowsFine, RowsTyped
  <1>2. /\ spent' = [spent EXCEPT ![s] = spent[s]]
        /\ excused' = [excused EXCEPT ![s] = excused[s]]
    BY DEF RowsFine, RowsTyped
  <1>3. ASSUME NEW a \in Actions
        PROVE  /\ r.used[a] <= Limit[a]
               /\ r.level = Quarantine =>
                      spent[s][a] <= Limit[a] * excused[s]
                                        + (IF r.day = Today THEN r.used[a] ELSE 0)
               /\ spent[s][a] <= Limit[a] * (1 + excused[s])
    BY DEF RowsFine, Budget, Used
  <1> QED
    BY <1>1, <1>2, <1>3, RowUpdated

(* check_and_increment(): what is granted is counted. *)
LEMMA RowGranted ==
  ASSUME RowsFine, NEW s \in Peers, NEW a \in Actions,
         trust[s].level = Quarantine, Allowed(s, a), Grant(s, a), now' = now
  PROVE  RowsFine'
  <1> DEFINE u == [b \in Actions |-> IF b = a THEN Used(s, b) + 1 ELSE Used(s, b)]
             r == [trust[s] EXCEPT !.day = Today, !.used = u]
             g == [spent[s] EXCEPT ![a] = @ + 1]
  <1>1. /\ spent[s] \in [Actions -> Nat] /\ excused[s] \in Nat /\ trust[s] \in Rows
        /\ now \in Nat
    BY DEF RowsFine, RowsTyped
  <1>2. Today \in Nat
    BY <1>1 DEF Today
  <1>3. \A b \in Actions : Used(s, b) \in Nat /\ Used(s, b) <= Limit[b]
    BY <1>1 DEF Used, Rows, RowsFine, Budget
  <1>4. u \in [Actions -> Nat] /\ g \in [Actions -> Nat]
    BY <1>1, <1>3
  <1>5. r \in Rows /\ r.used = u /\ r.day = Today /\ r.level = Quarantine
    BY <1>1, <1>2, <1>4 DEF Rows
  <1>6. Used(s, a) < Limit[a]
    BY DEF Allowed, Quarantine, Trusted
  <1>7. ASSUME NEW b \in Actions
        PROVE  /\ u[b] <= Limit[b]
               /\ g[b] <= Limit[b] * excused[s] + u[b]
               /\ g[b] <= Limit[b] * (1 + excused[s])
    <2>1. u[b] <= Limit[b] /\ Limit[b] \in Nat
      BY <1>3, <1>6
    <2>2. g[b] <= Limit[b] * excused[s] + u[b]
      <3>1. spent[s][b] <= Limit[b] * excused[s] + Used(s, b)
        BY DEF RowsFine, Budget
      <3>2. Limit[b] * excused[s] \in Nat /\ spent[s][b] \in Nat
        BY <1>1, <2>1, Arithmetic
      <3> QED
        BY <1>1, <1>3, <3>1, <3>2
    <2>3. /\ Limit[b] * (1 + excused[s]) = Limit[b] * excused[s] + Limit[b]
          /\ Limit[b] * excused[s] \in Nat
      BY <1>1, <2>1, Arithmetic
    <2>4. u[b] \in Nat /\ g[b] \in Nat
      BY <1>4
    <2> HIDE DEF u, g
    <2> QED
      BY <2>1, <2>2, <2>3, <2>4
  <1>8. /\ trust' = [trust EXCEPT ![s] = r]
        /\ spent' = [spent EXCEPT ![s] = g]
        /\ excused' = [excused EXCEPT ![s] = excused[s]]
        /\ violations' \in [Peers -> 0..MaxViolations]
    BY <1>1 DEF Grant, RowsFine, RowsTyped
  <1>9. \A b \in Actions :
          /\ r.used[b] <= Limit[b]
          /\ r.level = Quarantine =>
                 g[b] <= Limit[b] * excused[s] + (IF r.day = Today THEN r.used[b] ELSE 0)
          /\ g[b] <= Limit[b] * (1 + excused[s])
    <2> HIDE DEF r, g, u
    <2> QED
      BY <1>5, <1>7
  <1> HIDE DEF r, g, u
  <1> QED
    BY <1>1, <1>4, <1>5, <1>8, <1>9, RowUpdated

LEMMA ViolationCounted ==
  ASSUME RowsFine, NEW s \in Peers, CountViolation(s)
  PROVE  violations' \in [Peers -> 0..MaxViolations]
  BY DEF RowsFine, RowsTyped, CountViolation

LEMMA RateViolationKeeps ==
  ASSUME RowsFine, NEW s \in Peers, RateViolation(s), now' = now
  PROVE  RowsFine'
  <1>1. violations' \in [Peers -> 0..MaxViolations]
    BY ViolationCounted DEF RateViolation
  <1>2. CASE InQuarantine(s)
    <2> DEFINE r == [trust[s] EXCEPT !.until = QuarantineEnd, !.day = Today,
                                     !.used = Unused]
    <2>1. QuarantineEnd \in Nat /\ Today \in Nat
      BY Times DEF RowsFine, RowsTyped
    <2>2. r \in Rows /\ r.used = Unused
      <3>1. trust[s] \in Rows
        BY DEF RowsFine, RowsTyped
      <3>2. Unused \in [Actions -> Nat]
        BY DEF Unused
      <3> QED
        BY <2>1, <3>1, <3>2 DEF Rows
    <2>3. trust' = [trust EXCEPT ![s] = r] /\ Excuse(s)
      BY <1>2 DEF RateViolation, ResetQuarantine, RowsFine, RowsTyped
    <2> HIDE DEF r
    <2> QED
      BY <1>1, <2>2, <2>3, RowAnew
  <1>3. CASE ~InQuarantine(s)
    BY <1>1, <1>3 DEF RateViolation, history, RowsFine, RowsTyped, Budget, Used, Today
  <1> QED
    BY <1>2, <1>3

LEMMA CheckKeeps ==
  ASSUME RowsFine, NEW s \in Peers, NEW a \in Actions, CheckAndIncrement(s, a)
  PROVE  RowsFine' /\ UNCHANGED <<blacklist, now>>
  <1>1. UNCHANGED <<blacklist, now>>
    BY DEF CheckAndIncrement
  <1>2. CASE UNCHANGED <<trust, violations, history>>
    BY <1>1, <1>2 DEF history, RowsFine, RowsTyped, Budget, Used, Today
  <1>3. CASE trust[s].level = Quarantine /\ Allowed(s, a) /\ Grant(s, a)
    BY <1>1, <1>3, RowGranted
  <1>4. CASE RateViolation(s)
    BY <1>1, <1>4, RateViolationKeeps
  <1> QED
    BY <1>1, <1>2, <1>3, <1>4 DEF CheckAndIncrement

(* The rest of the state of the manager and of the protocol. *)
RestFine ==
    /\ blacklist \subseteq Peers /\ outbox \subseteq Peers
    /\ nonces \subseteq Nonces /\ mail \subseteq Gossip
    /\ applied \in [Nonces -> Nat]
    /\ GossipOnce /\ AppliedKept

LEMMA GossipUnchanged ==
  ASSUME RestFine, UNCHANGED gossip, blacklist' \subseteq Peers
  PROVE  RestFine'
  BY DEF RestFine, gossip, GossipOnce, AppliedKept

LEMMA OperateKeeps ==
  ASSUME RowsFine, NEW s \in Peers, Operate(s)
  PROVE  RowsFine' /\ blacklist' \subseteq blacklist /\ UNCHANGED gossip
  <1>1. ASSUME NEW level \in Levels, SetTrustLevel(s, level)
        PROVE  RowsFine' /\ blacklist' \subseteq blacklist /\ UNCHANGED gossip
    <2>1. NewRow(level) \in Rows /\ NewRow(level).used = Unused
      BY FreshRow
    <2>2. /\ trust' = [trust EXCEPT ![s] = NewRow(level)] /\ Excuse(s)
          /\ UNCHANGED <<blacklist, violations, gossip, now>>
      BY <1>1 DEF SetTrustLevel
    <2>3. violations' \in [Peers -> 0..MaxViolations]
      BY <2>2 DEF RowsFine, RowsTyped
    <2> QED
      BY <2>1, <2>2, <2>3, RowAnew
  <1>2. ASSUME AddToQuarantine(s)
        PROVE  RowsFine' /\ blacklist' \subseteq blacklist /\ UNCHANGED gossip
    <2> DEFINE r == [NewRow(Quarantine) EXCEPT !.until = QuarantineEnd, !.day = Today]
    <2>1. NewRow(Quarantine) \in Rows /\ NewRow(Quarantine).used = Unused
      BY FreshRow DEF Quarantine, Levels
    <2>2. QuarantineEnd \in Nat /\ Today \in Nat
      BY Times DEF RowsFine, RowsTyped
    <2>3. r \in Rows /\ r.used = Unused
      BY <2>1, <2>2 DEF Rows
    <2>4. /\ trust' = [trust EXCEPT ![s] = r] /\ Excuse(s)
          /\ UNCHANGED <<blacklist, violations, gossip, now>>
      BY <1>2 DEF AddToQuarantine
    <2>5. violations' \in [Peers -> 0..MaxViolations]
      BY <2>4 DEF RowsFine, RowsTyped
    <2> HIDE DEF r
    <2> QED
      BY <2>3, <2>4, <2>5, RowAnew
  <1>3. ASSUME Unblock(s)
        PROVE  RowsFine' /\ blacklist' \subseteq blacklist /\ UNCHANGED gossip
    <2> DEFINE r == [trust[s] EXCEPT !.blocked = FALSE]
    <2>1. trust[s] \in Rows
      BY DEF RowsFine, RowsTyped
    <2>2. /\ r \in Rows /\ r.used = trust[s].used /\ r.day = trust[s].day
          /\ r.level = trust[s].level
      BY <2>1 DEF Rows
    <2>3. /\ trust' = [trust EXCEPT ![s] = r] /\ blacklist' \subseteq blacklist
          /\ UNCHANGED <<violations, gossip, spent, excused, now>>
      BY <1>3 DEF Unblock, history
    <2>4. violations' \in [Peers -> 0..MaxViolations]
      BY <2>3 DEF RowsFine, RowsTyped
    <2> HIDE DEF r
    <2> QED
      BY <2>2, <2>3, <2>4, RowKept
  <1> QED
    BY <1>1, <1>2, <1>3 DEF Operate

LEMMA BlockKeeps ==
  ASSUME RowsFine, NEW s \in Peers, Block(s), UNCHANGED <<spent, excused, now>>,
         violations' \in [Peers -> 0..MaxViolations]
  PROVE  RowsFine' /\ blacklist' = blacklist \union {s}
  <1> DEFINE r == [trust[s] EXCEPT !.blocked = trust[s].stored]
  <1>1. trust[s] \in Rows
    BY DEF RowsFine, RowsTyped
  <1>2. /\ r \in Rows /\ r.used = trust[s].used /\ r.day = trust[s].day
        /\ r.level = trust[s].level
    BY <1>1 DEF Rows
  <1>3. trust' = [trust EXCEPT ![s] = r] /\ blacklist' = blacklist \union {s}
    BY DEF Block
  <1> HIDE DEF r
  <1> QED
    BY <1>2, <1>3, RowKept

LEMMA RecordKeeps ==
  ASSUME RowsFine, NEW s \in Peers, NEW type, RecordViolation(s, type)
  PROVE  RowsFine' /\ blacklist' \subseteq blacklist \union {s} /\ UNCHANGED gossip
  <1>1. UNCHANGED <<gossip, now>>
    BY DEF RecordViolation
  <1>2. CASE CountViolation(s) /\ Block(s) /\ UNCHANGED history
    BY <1>1, <1>2, ViolationCounted, BlockKeeps DEF history
  <1>3. CASE RateViolation(s) /\ UNCHANGED blacklist
    BY <1>1, <1>3, RateViolationKeeps
  <1>4. CASE CountViolation(s) /\ UNCHANGED <<trust, blacklist, history>>
    BY <1>1, <1>4, ViolationCounted DEF history, RowsFine, RowsTyped, Budget, Used, Today
  <1> QED
    BY <1>2, <1>3, <1>4, <1>1 DEF RecordViolation

LEMMA PromoteKeeps ==
  ASSUME RowsFine, NEW s \in Peers, PromoteFromQuarantine(s)
  PROVE  RowsFine' /\ UNCHANGED <<blacklist, gossip>>
  <1> DEFINE r == IF Clean(s) THEN [trust[s] EXCEPT !.level = Trusted]
                              ELSE [trust[s] EXCEPT !.until = QuarantineEnd]
  <1>1. trust[s] \in Rows /\ QuarantineEnd \in Nat
    BY Times DEF RowsFine, RowsTyped
  <1>2. /\ r \in Rows /\ r.used = trust[s].used /\ r.day = trust[s].day
        /\ r.level = trust[s].level \/ r.level # Quarantine
    BY <1>1 DEF Rows, Trusted, Quarantine, Levels
  <1>3. /\ trust' = [trust EXCEPT ![s] = r]
        /\ UNCHANGED <<blacklist, violations, gossip, spent, excused, now>>
    BY DEF PromoteFromQuarantine, history
  <1>4. violations' \in [Peers -> 0..MaxViolations]
    BY <1>3 DEF RowsFine, RowsTyped
  <1> HIDE DEF r
  <1> QED
    BY <1>2, <1>3, <1>4, RowKept

LEMMA RowsUnchanged ==
  ASSUME RowsFine, UNCHANGED <<trust, violations, history, now>>
  PROVE  RowsFine'
  BY DEF history, RowsFine, RowsTyped, Budget, Used, Today

LEMMA TickKeeps ==
  ASSUME RowsFine, TrustTick
  PROVE  RowsFine'
  <1>1. now' \in 0..MaxNow /\ UNCHANGED <<trust, violations>>
    BY DEF RowsFine, RowsTyped, TrustTick, Tick, trustVars
  <1>2. CASE now' \div Day = now \div Day
    <2>1. UNCHANGED <<spent, excused>>
      BY <1>2 DEF TrustTick, history
    <2> QED
      BY <1>1, <1>2, <2>1 DEF RowsFine, RowsTyped, Budget, Used, Today
  <1>3. CASE now' \div Day # now \div Day
    <2>1. /\ spent' = [s \in Peers |-> Unused] /\ excused' = [s \in Peers |-> 0]
      BY <1>3 DEF TrustTick
    <2>2. Unused \in [Actions -> Nat] /\ \A a \in Actions : Unused[a] = 0
      BY DEF Unused
    <2>3. RowsTyped'
      BY <1>1, <2>1, <2>2 DEF RowsFine, RowsTyped
    <2>4. Budget'
      <3> SUFFICES ASSUME NEW s \in Peers, NEW a \in Actions
                   PROVE  /\ trust'[s].used[a] <= Limit[a]
                          /\ spent'[s][a] <= Limit[a] * excused'[s] + Used(s, a)'
                          /\ spent'[s][a] <= Limit[a] * (1 + excused'[s])
        BY DEF Budget
      <3>1. trust'[s].used[a] <= Limit[a]
        BY <1>1 DEF RowsFine, Budget
      <3>2. Used(s, a)' \in Nat
        BY <1>1 DEF Used, RowsFine, RowsTyped, Rows
      <3>3. spent'[s][a] = 0 /\ excused'[s] = 0
        BY <2>1, <2>2
      <3>4. Limit[a] * 0 = 0 /\ Limit[a] * (1 + 0) = Limit[a] /\ Limit[a] \in Nat
        OBVIOUS
      <3> QED
        BY <3>1, <3>2, <3>3, <3>4
    <2> QED
      BY <2>3, <2>4 DEF RowsFine
  <1> QED
    BY <1>2, <1>3

LEMMA GossipKeeps ==
  ASSUME RowsFine, RestFine, NEW m \in mail, HandleGossipMessage(m)
  PROVE  RowsFine' /\ RestFine'
  <1>1. m.id \in Nonces /\ m.from \in Peers
    BY DEF RestFine, Gossip
  <1>2. RowsFine' /\ UNCHANGED <<blacklist, now>>
    <2>1. CASE Verified(m)
      BY <1>1, <2>1, CheckKeeps DEF HandleGossipMessage, Actions
    <2>2. CASE ~Verified(m)
      BY <2>2, RowsUnchanged DEF HandleGossipMessage
    <2> QED
      BY <2>1, <2>2
  <1>3. /\ m.id \notin nonces /\ nonces' = nonces \union {m.id}
        /\ applied' \in {applied, [applied EXCEPT ![m.id] = @ + 1]}
        /\ UNCHANGED <<mail, outbox>>
    BY DEF HandleGossipMessage, UseNonce, RestFine
  <1>4. applied[m.id] = 0
    BY <1>1, <1>3 DEF RestFine, AppliedKept
  <1>5. RestFine'
    BY <1>1, <1>2, <1>3, <1>4 DEF RestFine, GossipOnce, AppliedKept
  <1> QED
    BY <1>2, <1>5

LEMMA TrustInvStep == TrustInv /\ [TrustNext]_<<trustVars, now>> => TrustInv'
  <1> SUFFICES ASSUME RowsFine, RestFine, [TrustNext]_<<trustVars, now>>
               PROVE  RowsFine' /\ RestFine'
    BY DEF TrustInv, TrustTypeOK, RowsFine, RowsTyped, RestFine
  <1>1. ASSUME NEW s \in Peers, Operate(s)
        PROVE  RowsFine' /\ RestFine'
    BY <1>1, OperateKeeps, GossipUnchanged DEF RestFine
  <1>2. ASSUME NEW s \in Peers, BlockServer(s)
        PROVE  RowsFine' /\ RestFine'
    <2>1. violations' \in [Peers -> 0..MaxViolations]
      BY <1>2 DEF BlockServer, RowsFine, RowsTyped
    <2> QED
      BY <1>2, <2>1, BlockKeeps, GossipUnchanged DEF BlockServer, history, RestFine
  <1>3. ASSUME NEW s \in Peers, NEW type, RecordViolation(s, type)
        PROVE  RowsFine' /\ RestFine'
    BY <1>3, RecordKeeps, GossipUnchanged DEF RestFine
  <1>4. ASSUME NEW s \in Peers, PromoteFromQuarantine(s)
        PROVE  RowsFine' /\ RestFine'
    BY <1>4, PromoteKeeps, GossipUnchanged DEF RestFine
  <1>5. ASSUME NEW s \in Peers, NEW a \in Actions, AskLeave(s, a)
        PROVE  RowsFine' /\ RestFine'
    BY <1>5, CheckKeeps, GossipUnchanged DEF AskLeave, RestFine
  <1>6. ASSUME NEW s \in Peers, SendToServer(s)
        PROVE  RowsFine' /\ RestFine'
    <2>1. CheckAndIncrement(s, "gossip_out") /\ outbox' = outbox \ {s}
          /\ UNCHANGED <<nonces, mail, applied>>
      BY <1>6 DEF SendToServer
    <2>2. RowsFine' /\ blacklist' = blacklist
      BY <2>1, CheckKeeps DEF Actions
    <2> QED
      BY <2>1, <2>2 DEF RestFine, GossipOnce, AppliedKept
  <1>7. ASSUME NEW s \in Peers, NEW n \in Nonces, PeerSends(s, n)
        PROVE  RowsFine' /\ RestFine'
    <2>1. [id |-> n, from |-> s, sent |-> now] \in Gossip
      BY DEF Gossip, RowsFine, RowsTyped
    <2> QED
      BY <1>7, <2>1, RowsUnchanged DEF PeerSends, RestFine, GossipOnce, AppliedKept
  <1>8. CASE BroadcastChange
    BY <1>8, RowsUnchanged DEF BroadcastChange, Sendable, RestFine, GossipOnce, AppliedKept
  <1>9. ASSUME NEW m \in mail, HandleGossipMessage(m)
        PROVE  RowsFine' /\ RestFine'
    BY <1>9, GossipKeeps
  <1>10. CASE TrustRestart
    <2>1. applied' = [n \in Nonces |-> 0] /\ nonces' = {} /\ outbox' = {}
          /\ UNCHANGED <<mail, blacklist>>
      BY <1>10 DEF TrustRestart
    <2>2. RestFine'
      BY <2>1 DEF RestFine, GossipOnce, AppliedKept
    <2> QED
      BY <1>10, <2>2, RowsUnchanged DEF TrustRestart
  <1>11. CASE TrustTick
    BY <1>11, TickKeeps, GossipUnchanged DEF TrustTick, RestFine
  <1>12. CASE UNCHANGED <<trustVars, now>>
    BY <1>12, RowsUnchanged, GossipUnchanged DEF trustVars, history, gossip, RestFine
  <1> QED
    BY <1>1, <1>2, <1>3, <1>4, <1>5, <1>6, <1>7, <1>8, <1>9, <1>10, <1>11, <1>12
       DEF TrustNext

(* The types of the manager's tables and of its memory, and the two sides of the
   allowance, hold in every state. *)
THEOREM TrustInvariance == TrustSpec => []TrustInv
  BY TrustInvInit, TrustInvStep, PTL DEF TrustSpec

(* A server in quarantine gets its limits on one date, and each of them again
   only for an allowance it was given back. *)
THEOREM AllowanceIsPaid == TrustSpec => []AllowancePaid
  <1>1. TrustInv => AllowancePaid
    BY DEF TrustInv, Budget, AllowancePaid
  <1> QED
    BY <1>1, TrustInvariance, PTL

(* A message is applied once, however often it is delivered. *)
THEOREM GossipIsAppliedOnce == TrustSpec => []GossipOnce
  <1>1. TrustInv => GossipOnce
    BY DEF TrustInv
  <1> QED
    BY <1>1, TrustInvariance, PTL

(* A quarantine that begins anew leaves flag and level what they are. *)
LEMMA RateRow ==
  ASSUME trust \in [Peers -> Rows], NEW s \in Peers, RateViolation(s), NEW z \in Peers
  PROVE  /\ trust'[z].stored = trust[z].stored /\ trust'[z].blocked = trust[z].blocked
         /\ trust'[z].level = trust[z].level
  <1>1. CASE InQuarantine(s)
    <2>1. trust' = [trust EXCEPT ![s].until = QuarantineEnd, ![s].day = Today,
                                 ![s].used = Unused]
      BY <1>1 DEF RateViolation, ResetQuarantine
    <2>2. trust[s] \in Rows /\ trust[z] \in Rows
      OBVIOUS
    <2> QED
      BY <2>1, <2>2 DEF Rows
  <1>2. CASE ~InQuarantine(s)
    BY <1>2 DEF RateViolation
  <1> QED
    BY <1>1, <1>2

(* Nor does check_and_increment() touch them. *)
LEMMA CheckRow ==
  ASSUME TrustInv, NEW s \in Peers, NEW a, CheckAndIncrement(s, a), NEW z \in Peers
  PROVE  /\ trust'[z].stored = trust[z].stored /\ trust'[z].blocked = trust[z].blocked
         /\ trust'[z].level = trust[z].level /\ blacklist' = blacklist
  <1>1. trust \in [Peers -> Rows] /\ blacklist' = blacklist
    BY DEF TrustInv, TrustTypeOK, CheckAndIncrement
  <1>2. CASE UNCHANGED <<trust, violations, history>>
    BY <1>1, <1>2
  <1>3. CASE Grant(s, a)
    BY <1>1, <1>3 DEF Grant, Rows
  <1>4. CASE RateViolation(s)
    BY <1>1, <1>4, RateRow
  <1> QED
    BY <1>2, <1>3, <1>4 DEF CheckAndIncrement

LEMMA TrafficRow ==
  ASSUME TrustInv, TrustNext, NEW z \in Peers, ~Operate(z)
  PROVE  /\ trust'[z].stored = trust[z].stored
         /\ trust[z].blocked => trust'[z].blocked \/ ~trust[z].stored
         /\ z \in blacklist => z \in blacklist'
         /\ trust'[z].level # trust[z].level => Clean(z)
  <1> DEFINE Held == /\ trust'[z].stored = trust[z].stored
                     /\ trust[z].blocked => trust'[z].blocked \/ ~trust[z].stored
                     /\ z \in blacklist => z \in blacklist'
                     /\ trust'[z].level # trust[z].level => Clean(z)
  <1> SUFFICES Held
    OBVIOUS
  <1>0. trust \in [Peers -> Rows] /\ mail \subseteq Gossip
    BY DEF TrustInv, TrustTypeOK
  <1>1. ASSUME NEW s \in Peers, Operate(s)
        PROVE  Held
    <2>1. s # z
      BY <1>1
    <2> QED
      BY <1>0, <1>1, <2>1 DEF Operate, SetTrustLevel, AddToQuarantine, Unblock
  <1>2. ASSUME NEW s \in Peers, Block(s)
        PROVE  Held
    BY <1>0, <1>2 DEF Block, Rows
  <1>3. ASSUME NEW s \in Peers, NEW type, RecordViolation(s, type)
        PROVE  Held
    <2>1. CASE Block(s)
      BY <1>2, <2>1
    <2>2. CASE RateViolation(s) /\ UNCHANGED blacklist
      BY <1>0, <2>2, RateRow
    <2>3. CASE UNCHANGED <<trust, blacklist>>
      BY <2>3
    <2> QED
      BY <1>3, <2>1, <2>2, <2>3 DEF RecordViolation
  <1>4. ASSUME NEW s \in Peers, PromoteFromQuarantine(s)
        PROVE  Held
    BY <1>0, <1>4 DEF PromoteFromQuarantine, Rows
  <1>5. ASSUME NEW s \in Peers, NEW a, CheckAndIncrement(s, a)
        PROVE  Held
    BY <1>5, CheckRow
  <1>6. CASE UNCHANGED <<trust, blacklist>>
    BY <1>6
  <1>7. ASSUME NEW m \in mail, HandleGossipMessage(m)
        PROVE  Held
    <2>1. m.from \in Peers
      BY <1>0 DEF Gossip
    <2> QED
      BY <1>5, <1>6, <1>7, <2>1 DEF HandleGossipMessage
  <1> HIDE DEF Held
  <1> QED
    BY <1>1, <1>2, <1>3, <1>4, <1>5, <1>6, <1>7
       DEF TrustNext, BlockServer, AskLeave, SendToServer, PeerSends, BroadcastChange,
           TrustRestart, TrustTick

(* Neither an offence, nor the end of a quarantine, nor a new date lifts a block. *)
THEOREM BlocksOutliveTraffic == TrustSpec => BlockOutlivesTraffic
  <1> DEFINE Lifts == \A s \in Peers : IsBlocked(s) /\ ~IsBlocked(s)' => Operate(s)
  <1>1. TrustInv /\ [TrustNext]_<<trustVars, now>> => [Lifts]_<<trustVars, now>>
    <2> SUFFICES ASSUME TrustInv, TrustNext, NEW s \in Peers,
                        IsBlocked(s), ~IsBlocked(s)', ~Operate(s)
                 PROVE  FALSE
      OBVIOUS
    <2>1. trust[s] \in Rows
      BY DEF TrustInv, TrustTypeOK
    <2> QED
      BY <2>1, TrafficRow DEF IsBlocked, Rows
  <1> QED
    BY <1>1, TrustInvariance, PTL DEF TrustSpec, BlockOutlivesTraffic

(* A quarantine with a violation on record never ends in trust by itself. *)
THEOREM OffendersStayOut == TrustSpec => OffenderStaysOut
  <1> DEFINE Out == \A s \in Peers :
           (trust[s].level = Quarantine /\ trust'[s].level = Trusted /\ violations[s] > 0)
               => Operate(s)
  <1>1. TrustInv /\ [TrustNext]_<<trustVars, now>> => [Out]_<<trustVars, now>>
    <2> SUFFICES ASSUME TrustInv, TrustNext, NEW s \in Peers, ~Operate(s),
                        trust[s].level = Quarantine, trust'[s].level = Trusted,
                        violations[s] > 0
                 PROVE  FALSE
      OBVIOUS
    <2> QED
      BY TrafficRow DEF Quarantine, Trusted, Clean
  <1> QED
    BY <1>1, TrustInvariance, PTL DEF TrustSpec, OffenderStaysOut
=============================================================================
