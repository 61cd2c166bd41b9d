------------------------ MODULE ConnectionsProofs ---------------------------
(*****************************************************************************)
(* What holds of the connections of a user, for any windows and sockets.     *)
(*****************************************************************************)
EXTENDS Connections, TLAPS

-----------------------------------------------------------------------------
(* The WebSocket connections of a user.  Init, Next, vars, Spec and TypeOK are
   those of Connections.  OpenIsRegistered needs no strengthening beyond the
   type invariant: each action that takes a socket off the registration closes
   it. *)

(* The inductive invariant of the connections. *)
ConnectionsInv == TypeOK /\ OpenIsRegistered

LEMMA ConnectionsInit == Init => ConnectionsInv
<1> SUFFICES ASSUME Init PROVE ConnectionsInv
  OBVIOUS
<1>1. shown \subseteq Windows /\ \A w \in Windows : page[w] # None => w \in shown
  BY DEF Init
<1>2. /\ page \in [Windows -> Sockets \cup {None}]
      /\ owner \in [Sockets -> Windows \cup {None}]
      /\ up \in [Sockets -> BOOLEAN]
      /\ pc \in [Sockets -> {"accepted", "welcome", "serving", "done"}]
      /\ target \in [Tasks -> Sockets \cup {None}]
  BY DEF Init
<1>3. conn \in Sockets \cup {None} /\ idle \in BOOLEAN
  BY DEF Init
<1>4. opens \in 0..MaxOpens /\ losses \in 0..MaxLosses /\ fails \in 0..MaxFails
  BY BoundsAssumption DEF Init
<1>5. OpenIsRegistered
  BY DEF Init, OpenIsRegistered
<1> QED
  BY <1>1, <1>2, <1>3, <1>4, <1>5 DEF ConnectionsInv, TypeOK

\* Closing and forgetting the registered socket keeps the invariant.
LEMMA RemoveConnectionKeeps ==
    ASSUME ConnectionsInv, NEW ended \in SUBSET Sockets, RemoveConnection(ended)
    PROVE  /\ up' \in [Sockets -> BOOLEAN]
           /\ conn' \in Sockets \cup {None}
           /\ idle' \in BOOLEAN
           /\ \A s \in Sockets : up'[s] => up[s] /\ s # conn
BY DEF ConnectionsInv, TypeOK, RemoveConnection

\* A socket that is open after such a step has not been past its registration.
LEMMA OnlyRegisteredIsServed ==
    ASSUME ConnectionsInv, NEW s \in Sockets, up[s], s # conn
    PROVE  pc[s] \notin {"welcome", "serving"}
BY DEF ConnectionsInv, OpenIsRegistered

LEMMA EndpointKeeps ==
    ASSUME ConnectionsInv, NEW s \in Sockets, Endpoint(s)
    PROVE  ConnectionsInv'
<1> USE DEF ConnectionsInv
<1>1. s \in Tasks
  BY DEF Tasks
<1>2. CASE Register(s)
  <2>1. TypeOK'
    BY <1>2 DEF Register, TypeOK, browser
  <2>2. OpenIsRegistered'
    BY <1>2 DEF Register, TypeOK, OpenIsRegistered
  <2> QED
    BY <2>1, <2>2
<1>3. CASE Greet(s)
  <2>1. TypeOK'
    BY <1>1, <1>3 DEF Greet, StartSend, TypeOK, browser
  <2>2. OpenIsRegistered'
    BY <1>3 DEF Greet, TypeOK, OpenIsRegistered
  <2> QED
    BY <2>1, <2>2
<1>4. CASE SetUpFails(s)
  <2>1. TypeOK'
    BY <1>4, BoundsAssumption DEF SetUpFails, TypeOK, browser
  <2>2. OpenIsRegistered'
    BY <1>4 DEF SetUpFails, TypeOK, OpenIsRegistered
  <2> QED
    BY <2>1, <2>2
<1>5. CASE Receive(s)
  BY <1>1, <1>5 DEF Receive, StartSend, TypeOK, OpenIsRegistered, browser
<1>6. CASE Closed(s) \/ TimedOut(s)
  <2>1. RemoveConnection({s}) /\ pc' = [pc EXCEPT ![s] = "done"]
        /\ UNCHANGED <<browser, owner, target, fails>>
    BY <1>6 DEF Closed, TimedOut
  <2>2. /\ up' \in [Sockets -> BOOLEAN] /\ conn' \in Sockets \cup {None}
        /\ idle' \in BOOLEAN
        /\ \A r \in Sockets : up'[r] => up[r] /\ r # conn
    BY <2>1, RemoveConnectionKeeps
  <2>3. TypeOK'
    BY <2>1, <2>2 DEF TypeOK, browser
  <2>4. OpenIsRegistered'
    BY <2>1, <2>2, OnlyRegisteredIsServed DEF TypeOK, OpenIsRegistered
  <2> QED
    BY <2>3, <2>4
<1>7. CASE Disconnected(s)
  BY <1>7 DEF Disconnected, TypeOK, OpenIsRegistered, browser
<1> QED
  BY <1>2, <1>3, <1>4, <1>5, <1>6, <1>7 DEF Endpoint

LEMMA SendEndsKeeps ==
    ASSUME ConnectionsInv, NEW t \in Tasks, SendEnds(t)
    PROVE  ConnectionsInv'
<1> USE DEF ConnectionsInv
<1>1. /\ target' = [target EXCEPT ![t] = None]
      /\ pc' = IF t \in Sockets /\ pc[t] = "welcome"
               THEN [pc EXCEPT ![t] = "serving"] ELSE pc
      /\ UNCHANGED <<browser, owner, fails>>
  BY DEF SendEnds
<1>2. target' \in [Tasks -> Sockets \cup {None}]
  BY <1>1 DEF TypeOK
<1>3. /\ pc' \in [Sockets -> {"accepted", "welcome", "serving", "done"}]
      /\ \A s \in Sockets : pc'[s] \in {"welcome", "serving"}
                              => pc[s] \in {"welcome", "serving"}
  BY <1>1 DEF TypeOK
<1>4. CASE UNCHANGED <<conn, idle, up>>
  BY <1>1, <1>2, <1>3, <1>4 DEF TypeOK, OpenIsRegistered, browser
<1>5. CASE RemoveConnection({})
  <2>1. /\ up' \in [Sockets -> BOOLEAN] /\ conn' \in Sockets \cup {None}
        /\ idle' \in BOOLEAN
        /\ \A r \in Sockets : up'[r] => up[r] /\ r # conn
    BY <1>5, RemoveConnectionKeeps
  <2>2. TypeOK'
    BY <1>1, <1>2, <1>3, <2>1 DEF TypeOK, browser
  <2>3. OpenIsRegistered'
    BY <1>3, <2>1, OnlyRegisteredIsServed DEF OpenIsRegistered
  <2> QED
    BY <2>2, <2>3
<1> QED
  BY <1>4, <1>5 DEF SendEnds

LEMMA OthersKeep ==
    ASSUME ConnectionsInv, (\E t \in Pushers : Push(t)) \/ GoIdle \/ CleanupLoop
    PROVE  ConnectionsInv'
<1> USE DEF ConnectionsInv
<1>1. ASSUME NEW t \in Pushers, Push(t) PROVE ConnectionsInv'
  BY <1>1 DEF Push, StartSend, Tasks, TypeOK, OpenIsRegistered, browser
<1>2. CASE GoIdle
  BY <1>2 DEF GoIdle, TypeOK, OpenIsRegistered, browser
<1>3. CASE CleanupLoop
  <2>1. RemoveConnection({}) /\ UNCHANGED <<browser, owner, pc, target, fails>>
    BY <1>3 DEF CleanupLoop
  <2>2. /\ up' \in [Sockets -> BOOLEAN] /\ conn' \in Sockets \cup {None}
        /\ idle' \in BOOLEAN
        /\ \A r \in Sockets : up'[r] => up[r] /\ r # conn
    BY <2>1, RemoveConnectionKeeps
  <2>3. TypeOK'
    BY <2>1, <2>2 DEF TypeOK, browser
  <2>4. OpenIsRegistered'
    BY <2>1, <2>2, OnlyRegisteredIsServed DEF OpenIsRegistered
  <2> QED
    BY <2>3, <2>4
<1> QED
  BY <1>1, <1>2, <1>3

\* The socket a page opens is done with, so it was not past its registration.
LEMMA ConnectKeeps ==
    ASSUME ConnectionsInv, NEW w \in Windows, Connect(w)
    PROVE  ConnectionsInv'
<1> USE DEF ConnectionsInv
<1> DEFINE s == CHOOSE r \in Sockets : Reusable(r)
<1>1. s \in Sockets
  BY DEF Connect
<1>2. NewSocket(w, s) /\ w \in shown
      /\ UNCHANGED <<shown, opens, losses, conn, idle, target, fails>>
  BY DEF Connect
<1> HIDE DEF s
<1>3. TypeOK'
  BY <1>1, <1>2 DEF NewSocket, TypeOK
<1>4. OpenIsRegistered'
  BY <1>1, <1>2 DEF NewSocket, TypeOK, OpenIsRegistered
<1> QED
  BY <1>3, <1>4

LEMMA BrowserKeeps ==
    ASSUME ConnectionsInv, NEW w \in Windows, Browser(w)
    PROVE  ConnectionsInv'
<1> USE DEF ConnectionsInv
<1>1. CASE OpenWindow(w)
  BY <1>1, BoundsAssumption DEF OpenWindow, TypeOK, OpenIsRegistered
<1>2. CASE CloseWindow(w)
  BY <1>2 DEF CloseWindow, TypeOK, OpenIsRegistered
<1>3. CASE Connect(w)
  BY <1>3, ConnectKeeps
<1>4. CASE OnClose(w)
  BY <1>4 DEF OnClose, TypeOK, OpenIsRegistered
<1>5. CASE Lose(w)
  BY <1>5, BoundsAssumption DEF Lose, TypeOK, OpenIsRegistered
<1> QED
  BY <1>1, <1>2, <1>3, <1>4, <1>5 DEF Browser

LEMMA ConnectionsStep == ConnectionsInv /\ [Next]_vars => ConnectionsInv'
<1> SUFFICES ASSUME ConnectionsInv, [Next]_vars PROVE ConnectionsInv'
  OBVIOUS
<1>1. ASSUME NEW s \in Sockets, Endpoint(s) PROVE ConnectionsInv'
  BY <1>1, EndpointKeeps
<1>2. ASSUME NEW t \in Tasks, SendEnds(t) PROVE ConnectionsInv'
  BY <1>2, SendEndsKeeps
<1>3. ASSUME (\E t \in Pushers : Push(t)) \/ GoIdle \/ CleanupLoop PROVE ConnectionsInv'
  BY <1>3, OthersKeep
<1>4. ASSUME NEW w \in Windows, Browser(w) PROVE ConnectionsInv'
  BY <1>4, BrowserKeeps
<1>5. CASE UNCHANGED vars
  BY <1>5 DEF vars, browser, ConnectionsInv, TypeOK, OpenIsRegistered
<1> QED
  BY <1>1, <1>2, <1>3, <1>4, <1>5 DEF Next

\* Every reachable state is well typed and has no open socket beside the
\* registered one.
THEOREM ConnectionsInvariance == Spec => []ConnectionsInv
<1> QED
  BY ConnectionsInit, ConnectionsStep, PTL DEF Spec

\* The state keeps its types, and a page holds a socket only while it is shown.
THEOREM ConnectionsTypeCorrect == Spec => []TypeOK
<1>1. ConnectionsInv => TypeOK
  BY DEF ConnectionsInv
<1> QED
  BY <1>1, ConnectionsInvariance, PTL

\* Whatever the number of windows, sockets, sends and faults, and however late a
\* handler's clean-up comes (websocket.py, add_connection, remove_connection,
\* _cleanup_loop), a socket that is served and open is the registered one.
THEOREM NoDeafPage == Spec => []OpenIsRegistered
<1>1. ConnectionsInv => OpenIsRegistered
  BY DEF ConnectionsInv
<1> QED
  BY <1>1, ConnectionsInvariance, PTL
=============================================================================
