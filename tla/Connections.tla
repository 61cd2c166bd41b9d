---------------------------- MODULE Connections ----------------------------
(***************************************************************************)
(* The WebSocket connections of one user (src/src/server/api/websocket.py, *)
(* src/src/web/static/js/duonet-websocket.js): the pages of the user's     *)
(* chat windows connect and reconnect, the server keeps one connection per *)
(* public id, and every handler, reply and push names the user, never the  *)
(* socket it means.                                                        *)
(*                                                                         *)
(* What is kept: which socket is registered; the handler of each socket    *)
(* with its waits; sends that wait on a slow page while the registration   *)
(* changes; clean-up by the handler's finally, by a failed send and by the *)
(* heartbeat task; half-open sockets; a set-up that fails before the try.  *)
(*                                                                         *)
(* What is abstracted: the contents of messages; the greeting (welcome,    *)
(* status, offline messages) is one send; the wait for close() under the   *)
(* manager's lock is part of the step that holds the lock; 30 s pings, the *)
(* 55 s receive timeout and the 300 s idle limit are what they tell apart: *)
(* a socket whose page is gone is timed out, one whose page lives is not.  *)
(***************************************************************************)
EXTENDS Naturals, FiniteSets

CONSTANTS
    Windows,    \* chat windows of the user, one page each
    Sockets,    \* bound: sockets that exist at a time; one is reused when done
    Pushers,    \* other tasks that send to the user: peers' handlers, web routes
    None,       \* no socket, no window
    Prompt,     \* TRUE: a closed socket's handler ends within the reconnect delay
    MaxOpens,   \* bound: windows the user opens
    MaxLosses,  \* bound: connections the network drops without a word
    MaxFails    \* bound: set-ups that raise

ASSUME NoneAssumption == None \notin Windows \cup Sockets
ASSUME TasksAssumption == Pushers \cap Sockets = {}
ASSUME BoundsAssumption ==
    Prompt \in BOOLEAN /\ MaxOpens \in Nat /\ MaxLosses \in Nat /\ MaxFails \in Nat

VARIABLES
    shown,   \* windows that are open
    page,    \* page[w]: the socket w's page holds
    owner,   \* owner[s]: the window whose page opened s
    up,      \* up[s]: s is open at the server's end
    pc,      \* pc[s]: where websocket_endpoint is with s
    conn,    \* WebSocketManager._connections[public_id]
    idle,    \* that entry's last heartbeat is older than WS_IDLE_TIMEOUT
    target,  \* target[t]: the socket a send of task t is waiting on
    opens, losses, fails

browser == <<shown, page, opens, losses>>
vars == <<browser, owner, up, pc, conn, idle, target, fails>>

\* Every socket's handler sends, and so do tasks of others.
Tasks == Sockets \cup Pushers

Held(s) == \E w \in Windows : page[w] = s

-----------------------------------------------------------------------------
(* The manager *)

\* remove_connection(): whatever is registered by now is closed and forgotten.
RemoveConnection(ended) ==
    /\ conn' = None
    /\ idle' = FALSE
    /\ up' = [s \in Sockets |-> up[s] /\ s # conn /\ s \notin ended]

\* send_to_client() up to its await: the connection is read without the lock.
StartSend(t) == target' = [target EXCEPT ![t] = conn]

-----------------------------------------------------------------------------
(* websocket_endpoint *)

\* Mutant: the socket that is replaced is left open.
Register_mut(s) ==
    /\ pc[s] = "accepted"
    /\ pc' = [pc EXCEPT ![s] = "welcome"]
    /\ conn' = s
    /\ idle' = FALSE
    /\ UNCHANGED <<browser, owner, up, target, fails>>

\* add_connection(): the socket registered so far is closed and replaced.
Register(s) ==
    /\ pc[s] = "accepted"
    /\ pc' = [pc EXCEPT ![s] = "welcome"]
    /\ up' = [r \in Sockets |-> up[r] /\ r # conn]
    /\ conn' = s
    /\ idle' = FALSE
    /\ UNCHANGED <<browser, owner, target, fails>>

\* The welcome goes to the registered socket, if there is one.
Greet(s) ==
    /\ pc[s] = "welcome" /\ target[s] = None
    /\ StartSend(s)
    /\ pc' = IF conn = None THEN [pc EXCEPT ![s] = "serving"] ELSE pc
    /\ UNCHANGED <<browser, owner, up, conn, idle, fails>>

\* An exception between registration and try: no finally, and the entry stays.
SetUpFails(s) ==
    /\ pc[s] = "welcome" /\ target[s] = None
    /\ fails < MaxFails
    /\ fails' = fails + 1
    /\ pc' = [pc EXCEPT ![s] = "done"]
    /\ up' = [up EXCEPT ![s] = FALSE]
    /\ UNCHANGED <<browser, owner, conn, idle, target>>

\* A message or ping of the page: it counts as heartbeat and is replied to.
Receive(s) ==
    /\ pc[s] = "serving" /\ target[s] = None
    /\ up[s] /\ Held(s)
    /\ idle' = FALSE
    /\ StartSend(s)
    /\ UNCHANGED <<browser, owner, up, pc, conn, fails>>

\* The receive fails on a socket closed at either end; finally cleans up.
Closed(s) ==
    /\ pc[s] = "serving" /\ target[s] = None
    /\ ~up[s]
    /\ pc' = [pc EXCEPT ![s] = "done"]
    /\ RemoveConnection({s})
    /\ UNCHANGED <<browser, owner, target, fails>>

\* wait_for() gives up on a page that has not been heard of for 55 seconds.
TimedOut(s) ==
    /\ pc[s] = "serving" /\ target[s] = None
    /\ up[s] /\ ~Held(s)
    /\ pc' = [pc EXCEPT ![s] = "done"]
    /\ RemoveConnection({s})
    /\ UNCHANGED <<browser, owner, target, fails>>

-----------------------------------------------------------------------------
(* Sends and the clean-up task *)

\* A peer's message, or a route, for the user.
Push(t) ==
    /\ target[t] = None
    /\ conn # None
    /\ StartSend(t)
    /\ UNCHANGED <<browser, owner, up, pc, conn, idle, fails>>

\* send_to_client() after its await: a failure removes the user's connection,
\* which need not be the one it failed on.
SendEnds(t) ==
    /\ target[t] # None
    /\ target' = [target EXCEPT ![t] = None]
    /\ pc' = IF t \in Sockets /\ pc[t] = "welcome"
             THEN [pc EXCEPT ![t] = "serving"] ELSE pc
    /\ \/ up[target[t]] /\ UNCHANGED <<conn, idle, up>>
       \/ ~up[target[t]] /\ RemoveConnection({})
    /\ UNCHANGED <<browser, owner, fails>>

\* 300 seconds without a heartbeat.
GoIdle ==
    /\ conn # None /\ ~Held(conn) /\ ~idle
    /\ idle' = TRUE
    /\ UNCHANGED <<browser, owner, up, pc, conn, target, fails>>

\* Mutant: a connection whose socket is already closed is passed over.
CleanupLoop_mut ==
    /\ conn # None /\ idle
    /\ up[conn]
    /\ RemoveConnection({})
    /\ UNCHANGED <<browser, owner, pc, target, fails>>

\* _cleanup_loop()
CleanupLoop ==
    /\ conn # None /\ idle
    /\ RemoveConnection({})
    /\ UNCHANGED <<browser, owner, pc, target, fails>>

-----------------------------------------------------------------------------
(* The browser *)

OpenWindow(w) ==
    /\ w \notin shown /\ opens < MaxOpens
    /\ opens' = opens + 1
    /\ shown' = shown \cup {w}
    /\ UNCHANGED <<page, losses, owner, up, pc, conn, idle, target, fails>>

\* Mutant: the socket outlives its window.
CloseWindow_mut(w) ==
    /\ w \in shown
    /\ shown' = shown \ {w}
    /\ UNCHANGED <<page, opens, losses, owner, up, pc, conn, idle, target, fails>>

CloseWindow(w) ==
    /\ w \in shown
    /\ shown' = shown \ {w}
    /\ page' = [page EXCEPT ![w] = None]
    /\ UNCHANGED <<opens, losses, owner, up, pc, conn, idle, target, fails>>

\* No page holds s, its handler has ended and no send waits on it.
Reusable(s) ==
    /\ pc[s] = "done"
    /\ ~Held(s) /\ s # conn
    /\ \A t \in Tasks : target[t] # s

\* Three seconds after the close of w's last socket the server is done with it.
CleanedUp(w) ==
    \A s \in Sockets : owner[s] = w /\ ~up[s] =>
        /\ pc[s] \notin {"accepted", "welcome", "serving"}
        /\ \A t \in Tasks : target[t] # s

NewSocket(w, s) ==
    /\ page' = [page EXCEPT ![w] = s]
    /\ owner' = [owner EXCEPT ![s] = w]
    /\ up' = [up EXCEPT ![s] = TRUE]
    /\ pc' = [pc EXCEPT ![s] = "accepted"]

\* Mutant: the page reconnects without waiting.
Connect_mut(w) ==
    /\ w \in shown /\ page[w] = None
    /\ \E s \in Sockets : Reusable(s)
    /\ NewSocket(w, CHOOSE s \in Sockets : Reusable(s))
    /\ UNCHANGED <<shown, opens, losses, conn, idle, target, fails>>

\* connect(), at first and from _reconnect(): the server accepts.
Connect(w) ==
    /\ w \in shown /\ page[w] = None
    /\ Prompt => CleanedUp(w)
    /\ \E s \in Sockets : Reusable(s)
    /\ NewSocket(w, CHOOSE s \in Sockets : Reusable(s))
    /\ UNCHANGED <<shown, opens, losses, conn, idle, target, fails>>

\* onclose: the page learns that the server closed its socket.
OnClose(w) ==
    /\ page[w] # None
    /\ ~up[page[w]]
    /\ page' = [page EXCEPT ![w] = None]
    /\ UNCHANGED <<shown, opens, losses, owner, up, pc, conn, idle, target, fails>>

\* The page loses its socket and the server is not told.
Lose(w) ==
    /\ page[w] # None /\ losses < MaxLosses
    /\ losses' = losses + 1
    /\ page' = [page EXCEPT ![w] = None]
    /\ UNCHANGED <<shown, opens, owner, up, pc, conn, idle, target, fails>>

\* The server is told that the page is gone.
Disconnected(s) ==
    /\ up[s] /\ ~Held(s)
    /\ up' = [up EXCEPT ![s] = FALSE]
    /\ UNCHANGED <<browser, owner, pc, conn, idle, target, fails>>

-----------------------------------------------------------------------------

Init ==
    /\ shown = {}
    /\ page = [w \in Windows |-> None]
    /\ owner = [s \in Sockets |-> None]
    /\ up = [s \in Sockets |-> FALSE]
    /\ pc = [s \in Sockets |-> "done"]
    /\ conn = None
    /\ idle = FALSE
    /\ target = [t \in Tasks |-> None]
    /\ opens = 0 /\ losses = 0 /\ fails = 0

Endpoint(s) ==
    \/ Register(s) \/ Greet(s) \/ SetUpFails(s) \/ Receive(s)
    \/ Closed(s) \/ TimedOut(s) \/ Disconnected(s)

Browser(w) ==
    OpenWindow(w) \/ CloseWindow(w) \/ Connect(w) \/ OnClose(w) \/ Lose(w)

Next ==
    \/ \E s \in Sockets : Endpoint(s)
    \/ \E t \in Tasks : SendEnds(t)
    \/ \E t \in Pushers : Push(t)
    \/ GoIdle \/ CleanupLoop
    \/ \E w \in Windows : Browser(w)

Spec == Init /\ [][Next]_vars

\* Handlers, sends and the clean-up task go on and time passes; pages reconnect
\* without end (maxReconnectAttempts is Infinity).  Users, faults and messages may
\* stop.
FairSpec ==
    /\ Spec
    /\ \A s \in Sockets :
        /\ WF_vars(Register(s)) /\ WF_vars(Greet(s))
        /\ WF_vars(Closed(s)) /\ WF_vars(TimedOut(s))
    /\ \A t \in Tasks : WF_vars(SendEnds(t))
    /\ WF_vars(GoIdle) /\ WF_vars(CleanupLoop)
    /\ \A w \in Windows : WF_vars(Connect(w)) /\ WF_vars(OnClose(w))

-----------------------------------------------------------------------------

TypeOK ==
    /\ shown \subseteq Windows
    /\ page \in [Windows -> Sockets \cup {None}]
    /\ \A w \in Windows : page[w] # None => w \in shown
    /\ owner \in [Sockets -> Windows \cup {None}]
    /\ up \in [Sockets -> BOOLEAN]
    /\ pc \in [Sockets -> {"accepted", "welcome", "serving", "done"}]
    /\ conn \in Sockets \cup {None}
    /\ idle \in BOOLEAN
    /\ target \in [Tasks -> Sockets \cup {None}]
    /\ opens \in 0..MaxOpens /\ losses \in 0..MaxLosses /\ fails \in 0..MaxFails

\* No page is deaf: a socket that is open at the server and past its registration
\* is the registered one, so what is sent to the user goes to it.  Every removal
\* therefore closes what it removes (add_connection, remove_connection,
\* _cleanup_loop).
OpenIsRegistered ==
    \A s \in Sockets : up[s] /\ pc[s] \in {"welcome", "serving"} => conn = s

\* The user does not stay "online" through a socket nobody holds, even when the
\* handler of that socket failed before its try (finally, send_to_client,
\* _cleanup_loop).
GhostEnds ==
    \A s \in Sockets : conn = s /\ ~Held(s) ~> conn # s \/ Held(s)

Served(w) == page[w] # None /\ conn = page[w] /\ up[conn]

\* A user with one window left is connected for good in the end, whatever
\* windows, losses and failures came before (_reconnect, reconnectDelay).
Settles ==
    \A w \in Windows : <>[](shown = {w}) => <>[]Served(w)

\* test_add_connection_replaces_existing, "assert conn.websocket == new_ws": a
\* registered socket that is open and held by its page stays registered until
\* another takes its place.
ReplacementStays ==
    [][conn # None /\ Held(conn) /\ up[conn] /\ conn' # conn => conn' # None]_vars
=============================================================================
