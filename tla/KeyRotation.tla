---------------------------- MODULE KeyRotation ----------------------------
(***************************************************************************)
(* Key rotation V4 of the web client (src/src/web/static/js/chat): two     *)
(* browser pages of one dialog agree on a new session key by exchanging    *)
(* REQUEST, ACCEPT, CONFIRM and COMPLETE as ordinary encrypted messages    *)
(* through a server that only stores and forwards.                         *)
(*                                                                         *)
(* What is kept: every guard, early return and assignment of               *)
(* DuoNetRotation; the points where a handler waits for a key derivation   *)
(* or an encryption and other handlers of the page run; the duplicate      *)
(* filter of DuoNetSystemHandler; the single localStorage slot; the key a  *)
(* message is encrypted with and the key it is labelled with; the queue of *)
(* a closed socket; the history kept by the server; the reload of a page   *)
(* and the recovery of its rotation from that history; lost messages, cut  *)
(* sockets and the expiry of requests.                                     *)
(*                                                                         *)
(* What is abstracted: an ephemeral X25519 pair is named <<owner, n>>; the *)
(* shared secret of a private and a public half is the set of the two      *)
(* names; a session key is that set with the rotation whose id salts the   *)
(* HKDF.  A rotation id is named after the pair made for its request.  The *)
(* decryption of a message and the loading of the history take no time.    *)
(***************************************************************************)
EXTENDS Naturals, Sequences, FiniteSets

CONSTANTS
    Alice, Bob,  \* the two ends of the dialog
    None,        \* JavaScript's null
    Initiators,  \* the clients whose user presses "Update key"
    MaxTasks,    \* bound: handlers of a page that run interleaved; 1 is one at a time
    MaxEph,      \* bound: ephemeral key pairs a client makes
    MaxTexts,    \* bound: ordinary messages the users write
    MaxDrops,    \* bound: messages lost on a socket that still looks open
    MaxCuts,     \* bound: times a socket is found closed
    MaxReloads,  \* bound: times each page is reloaded
    MaxExpired   \* bound: requests that run past their 24 hours

Clients == {Alice, Bob}
Peer(c) == IF c = Alice THEN Bob ELSE Alice

Ephs == Clients \X (1..MaxEph)
Rids == Ephs
Owner(e) == e[1]

ASSUME ClientsAssumption == Alice # Bob /\ Initiators \subseteq Clients
ASSUME NoneAssumption == None \notin Clients \X Nat
ASSUME BoundsAssumption ==
    /\ MaxTasks \in Nat \ {0} /\ MaxEph \in Nat /\ MaxTexts \in Nat
    /\ MaxDrops \in Nat /\ MaxCuts \in Nat
    /\ MaxReloads \in Nat /\ MaxExpired \in Nat

VARIABLES
    rot,        \* rot[c]: the DuoNetRotation object of c's page
    deriving,   \* deriving[c]: handlers of the page awaiting _deriveNewKey
    sending,    \* sending[c]: messages of the page awaiting their encryption
    key,        \* key[c]: core.sessionKeyHex, the key c encrypts with
    seen,       \* seen[c]: DuoNetSystemHandler.processed
    resolved,   \* resolved[c]: rotations past REQUEST in the history c last loaded
    queue,      \* queue[c]: _pendingMessages, kept while the socket is closed
    slot,       \* slot[c]: localStorage duonet_rotation_key_<dialog>, kept over reloads
    inbox,      \* inbox[c]: messages forwarded to c's page and not yet handled
    log,        \* the dialog's messages in the server's database
    connected,  \* connected[c]: c's page has an open WebSocket
    expired,    \* rotations whose expires_at has passed
    used,       \* used[c]: ephemeral pairs c has made
    texts, drops, cuts, reloads

page == <<rot, deriving, sending, key, seen, resolved, queue>>
net == <<inbox, log, drops>>
counters == <<used, texts, cuts, reloads>>
vars == <<page, slot, net, connected, expired, counters>>

-----------------------------------------------------------------------------
(* Values *)

Types == {"REQUEST", "ACCEPT", "CONFIRM", "COMPLETE", "REJECT", "TEXT"}

Statuses == {"NONE", "REQUEST", "PENDING_REQUEST", "ACCEPT", "CONFIRM", "COMPLETE"}

\* A rotation id with an ephemeral key: the localStorage entry, or a request's public key.
Saved == [rid : Rids \cup {None}, eph : Ephs \cup {None}]
NoSaved == [rid |-> None, eph |-> None]

Rotation == [isPending : BOOLEAN, status : Statuses, cur : Rids \cup {None},
             pend : Saved, priv : Ephs \cup {None}]
Idle == [isPending |-> FALSE, status |-> "NONE", cur |-> None, pend |-> NoSaved,
         priv |-> None]

SessionKey == [rid : Rids \cup {None}, ephs : SUBSET Ephs]
\* The key of the dialogs table, agreed when the invite was accepted.
BaseKey == [rid |-> None, ephs |-> {}]

\* Mutant: the secret is computed from the own pair alone.
DeriveNewKey_mut(rid, priv, pub) == [rid |-> rid, ephs |-> {priv}]

\* _computeSharedSecret, then _deriveNewKey with the rotation id as salt.
DeriveNewKey(rid, priv, pub) == [rid |-> rid, ephs |-> {priv, pub}]

\* enc is the key of the ciphertext, label the session_key field beside it.
Message == [type : Types, from : Clients, rid : Rids \cup {None},
            eph : Ephs \cup {None}, enc : SessionKey, label : SessionKey]

\* accept() or processAccept() between its key derivation and the rest.
Deriving == [type : {"ACCEPT", "CONFIRM"}, rid : Rids \cup {None},
             eph : Ephs \cup {None}, newKey : SessionKey]

\* A message on its way through encrypt(); newKey is what an ACCEPT switches to.
Sending == [type : Types, rid : Rids \cup {None}, eph : Ephs \cup {None},
            enc : SessionKey, newKey : SessionKey]

\* _loadEphPrivateKey: the slot answers only for its own rotation, and not past expiry.
HasSavedKey(c, rid) == slot[c].rid = rid /\ rid \notin expired

\* decryptMessage tries the newest key, the key the page was loaded with, the label.
Readable(c, m) == m.enc \in {key[c], BaseKey, m.label}

\* Mutant: one spelling of the ACCEPT type is not recognised.
History_mut(l) == {i \in DOMAIN l : l[i].type \notin {"TEXT", "ACCEPT"} /\ l[i].enc = l[i].label}

\* loadMessages decrypts with the label alone; these are the system messages it finds.
History(l) == {i \in DOMAIN l : l[i].type # "TEXT" /\ l[i].enc = l[i].label}

\* isRotationResolved over a freshly loaded history.
ResolvedIn(l) == {l[i].rid : i \in {j \in History(l) : l[j].type # "REQUEST"}}

-----------------------------------------------------------------------------
(* Effects shared by the handlers *)

\* A page takes up another event while no more than MaxTasks handlers are under way.
Free(c) == Cardinality(deriving[c]) + Cardinality(sending[c]) < MaxTasks

StartDerive(c, type, rid, eph, newKey) ==
    deriving' = [deriving EXCEPT ![c] = @ \cup
        {[type |-> type, rid |-> rid, eph |-> eph, newKey |-> newKey]}]

\* _sendSystemMessage up to its await: the key in use now encrypts.
StartSend(c, type, rid, eph, enc, newKey) ==
    sending' = [sending EXCEPT ![c] = @ \cup
        {[type |-> type, rid |-> rid, eph |-> eph, enc |-> enc, newKey |-> newKey]}]

\* The server stores a message and forwards it to a peer that is there.
Forward(c, ms) ==
    /\ log' = log \o ms
    /\ inbox' = IF connected[Peer(c)]
                THEN [inbox EXCEPT ![Peer(c)] = @ \o ms]
                ELSE inbox

\* _sendSystemMessage after its await.  The key in use by now is the label.  An
\* open socket carries the message, or loses it if the connection is already
\* dead; a socket closed meanwhile queues it.
Sent(c, t) ==
    LET m == [type |-> t.type, from |-> c, rid |-> t.rid, eph |-> t.eph,
              enc |-> t.enc, label |-> key[c]]
    IN /\ sending' = [sending EXCEPT ![c] = @ \ {t}]
       /\ \/ /\ connected[c]
             /\ Forward(c, <<m>>)
             /\ UNCHANGED <<queue, drops>>
          \/ /\ connected[c] /\ drops < MaxDrops
             /\ drops' = drops + 1
             /\ UNCHANGED <<queue, inbox, log>>
          \/ /\ ~connected[c]
             /\ queue' = [queue EXCEPT ![c] = Append(@, m)]
             /\ UNCHANGED net

SetRot(c, r) == rot' = [rot EXCEPT ![c] = r]
\* Mutant: the private half is kept in memory only.
SaveEphPrivateKey_mut(c, rid, eph) == UNCHANGED slot
SaveEphPrivateKey(c, rid, eph) ==
    slot' = [slot EXCEPT ![c] = [rid |-> rid, eph |-> eph]]
ActivateNewKey(c, k) == key' = [key EXCEPT ![c] = k]

\* _completeRotation forgets the rotation and keeps the slot.
CompleteRotation(c) == SetRot(c, Idle) /\ UNCHANGED slot

\* _resetRotation forgets the rotation and whatever the slot holds.
ResetRotation(c) ==
    /\ SetRot(c, Idle)
    /\ slot' = [slot EXCEPT ![c] = NoSaved]

\* loadMessages(true), called last by the handlers that answer or end a rotation.
LoadMessages(c) == resolved' = [resolved EXCEPT ![c] = ResolvedIn(log')]

MakeEph(c) == used' = [used EXCEPT ![c] = @ + 1]
NextEph(c) == <<c, used[c] + 1>>

-----------------------------------------------------------------------------
(* The user's buttons *)

\* initiate(): refused while a rotation is pending; undone if the socket is closed.
Initiate(c) ==
    /\ Free(c)
    /\ c \in Initiators
    /\ used[c] < MaxEph
    /\ ~rot[c].isPending
    /\ MakeEph(c)
    /\ LET e == NextEph(c)
       IN \/ /\ connected[c]
             /\ SetRot(c, [isPending |-> TRUE, status |-> "REQUEST", cur |-> e,
                           pend |-> NoSaved, priv |-> e])
             /\ SaveEphPrivateKey(c, e, e)
             /\ StartSend(c, "REQUEST", e, e, key[c], key[c])
          \/ /\ ~connected[c]
             /\ ResetRotation(c)
             /\ UNCHANGED sending
    /\ UNCHANGED <<deriving, key, seen, resolved, queue, net, connected, expired,
                   texts, cuts, reloads>>

\* Mutant: the CONFIRM is prepared and never sent.
RequestOrConfirmSent_mut(c) ==
    \E t \in sending[c] :
        /\ t.type = "REQUEST"
        /\ Sent(c, t)
        /\ UNCHANGED <<rot, deriving, key, seen, resolved, slot, connected,
                       expired, counters>>

\* Nothing follows the sending of a REQUEST, nor that of a CONFIRM.
RequestOrConfirmSent(c) ==
    \E t \in sending[c] :
        /\ t.type \in {"REQUEST", "CONFIRM"}
        /\ Sent(c, t)
        /\ UNCHANGED <<rot, deriving, key, seen, resolved, slot, connected,
                       expired, counters>>

\* Mutant: the click is not checked against the stored request.
CanAnswer_mut(c) ==
    /\ Free(c)
    /\ rot[c].pend.rid \notin resolved[c]

\* Mutant: a click does not disable the buttons.
CanAnswerTwice_mut(c) ==
    /\ Free(c)
    /\ rot[c].pend.rid # None
    /\ rot[c].pend.rid \notin resolved[c]

\* Accept and Reject stand below a request that is stored and that the history
\* does not show as resolved; a click disables both.
CanAnswer(c) ==
    /\ Free(c)
    /\ rot[c].pend.rid # None
    /\ rot[c].pend.rid \notin resolved[c]
    /\ \A t \in deriving[c] \cup sending[c] :
           t.rid = rot[c].pend.rid => t.type \notin {"ACCEPT", "REJECT"}

\* accept() up to its first await: the key is derived from the request as it stands.
Accept(c) ==
    /\ CanAnswer(c)
    /\ rot[c].pend.rid \notin expired
    /\ used[c] < MaxEph
    /\ MakeEph(c)
    /\ LET p == rot[c].pend
           e == NextEph(c)
       IN StartDerive(c, "ACCEPT", p.rid, e, DeriveNewKey(p.rid, e, p.eph))
    /\ UNCHANGED <<rot, sending, key, seen, resolved, queue, slot, net, connected,
                   expired, texts, cuts, reloads>>

\* accept() of a request that has expired meanwhile.
AcceptExpired(c) ==
    /\ CanAnswer(c)
    /\ rot[c].pend.rid \in expired
    /\ ResetRotation(c)
    /\ UNCHANGED net
    /\ LoadMessages(c)
    /\ UNCHANGED <<deriving, sending, key, seen, queue, connected, expired, counters>>

\* accept() with the key derived.  A request that was withdrawn meanwhile makes
\* it throw and reset; a closed socket leaves the slot and the status as set.
AcceptDerived(c) ==
    \E t \in deriving[c] :
        /\ t.type = "ACCEPT"
        /\ deriving' = [deriving EXCEPT ![c] = @ \ {t}]
        /\ UNCHANGED net
        /\ \/ /\ rot[c].pend.rid = None
              /\ ResetRotation(c)
              /\ LoadMessages(c)
              /\ UNCHANGED sending
           \/ /\ rot[c].pend.rid # None
              /\ SaveEphPrivateKey(c, t.rid, t.eph)
              /\ SetRot(c, [isPending |-> TRUE, status |-> "ACCEPT", cur |-> t.rid,
                            pend |-> IF connected[c] THEN rot[c].pend ELSE NoSaved,
                            priv |-> t.eph])
              /\ IF connected[c]
                 THEN /\ StartSend(c, "ACCEPT", t.rid, t.eph, key[c], t.newKey)
                      /\ UNCHANGED resolved
                 ELSE LoadMessages(c) /\ UNCHANGED sending
        /\ UNCHANGED <<key, seen, queue, connected, expired, counters>>

\* accept() with its ACCEPT sent: the responder uses the new key from here on.
AcceptSent(c) ==
    \E t \in sending[c] :
        /\ t.type = "ACCEPT"
        /\ Sent(c, t)
        /\ ActivateNewKey(c, t.newKey)
        /\ SetRot(c, [rot[c] EXCEPT !.pend = NoSaved])
        /\ LoadMessages(c)
        /\ UNCHANGED <<deriving, seen, slot, connected, expired, counters>>

\* reject(): resets this page whether or not the REJECT could be sent.
Reject(c) ==
    /\ CanAnswer(c)
    /\ UNCHANGED net
    /\ \/ /\ connected[c]
          /\ StartSend(c, "REJECT", rot[c].pend.rid, None, key[c], key[c])
          /\ UNCHANGED <<rot, slot, resolved>>
       \/ /\ ~connected[c]
          /\ ResetRotation(c)
          /\ LoadMessages(c)
          /\ UNCHANGED sending
    /\ UNCHANGED <<deriving, key, seen, queue, connected, expired, counters>>

RejectSent(c) ==
    \E t \in sending[c] :
        /\ t.type = "REJECT"
        /\ Sent(c, t)
        /\ ResetRotation(c)
        /\ LoadMessages(c)
        /\ UNCHANGED <<deriving, key, seen, connected, expired, counters>>

\* core.sendMessage(): refused on a closed socket.
SendText(c) ==
    /\ Free(c)
    /\ texts < MaxTexts
    /\ connected[c]
    /\ texts' = texts + 1
    /\ StartSend(c, "TEXT", None, None, key[c], key[c])
    /\ UNCHANGED <<rot, deriving, key, seen, resolved, queue, slot, net, connected,
                   expired, used, cuts, reloads>>

\* Unlike a system message, a text whose socket closed meanwhile is not queued.
TextSent(c) ==
    \E t \in sending[c] :
        /\ t.type = "TEXT"
        /\ \/ connected[c] /\ Sent(c, t)
           \/ /\ ~connected[c]
              /\ sending' = [sending EXCEPT ![c] = @ \ {t}]
              /\ UNCHANGED <<queue, net>>
        /\ UNCHANGED <<rot, deriving, key, seen, resolved, slot, connected,
                       expired, counters>>

-----------------------------------------------------------------------------
(* Incoming messages: core.handleMessage decrypts; DuoNetSystemHandler.handle *)
(* filters repeats of a (rotation, subtype) pair and dispatches.              *)

Repeated(c, m) == <<m.rid, m.type>> \in seen[c]

\* The next message of c's socket, taken off and marked as processed.
Taking(c, type) ==
    /\ Free(c)
    /\ inbox[c] # <<>>
    /\ LET m == Head(inbox[c])
       IN /\ m.type = type
          /\ Readable(c, m) /\ ~Repeated(c, m)
          /\ seen' = [seen EXCEPT ![c] = @ \cup {<<m.rid, type>>}]
    /\ inbox' = [inbox EXCEPT ![c] = Tail(@)]

\* A text is shown, a repeat ignored, a message no known key opens shown as such.
ShowOrIgnore(c) ==
    /\ Free(c)
    /\ inbox[c] # <<>>
    /\ LET m == Head(inbox[c])
       IN m.type = "TEXT" \/ Repeated(c, m) \/ ~Readable(c, m)
    /\ inbox' = [inbox EXCEPT ![c] = Tail(@)]
    /\ UNCHANGED <<page, slot, log, drops, connected, expired, counters>>

\* processIncomingRequest(): takes the place of whatever this page was doing,
\* its own unanswered request included.
AdmitsRequest(c, rid) ==
    /\ rid \notin resolved[c]
    /\ rid \notin expired
    /\ slot[c].rid # rid

ProcessIncomingRequest(c) ==
    /\ Taking(c, "REQUEST")
    /\ LET m == Head(inbox[c])
       IN IF AdmitsRequest(c, m.rid)
          THEN SetRot(c, [isPending |-> TRUE, status |-> "PENDING_REQUEST",
                          cur |-> m.rid, pend |-> [rid |-> m.rid, eph |-> m.eph],
                          priv |-> rot[c].priv])
          ELSE UNCHANGED rot
    /\ UNCHANGED <<deriving, sending, key, resolved, queue, slot, log, drops,
                   connected, expired, counters>>

\* A handler that finds a saved key for another rotation than the current one
\* switches to it, at the status the message presupposes.
Adopt(c, rid, status) ==
    IF rot[c].cur = rid
    THEN rot[c]
    ELSE [rot[c] EXCEPT !.isPending = TRUE, !.status = status, !.cur = rid,
                        !.priv = slot[c].eph]

\* processAccept() up to its first await.
ProcessAccept(c) ==
    /\ Taking(c, "ACCEPT")
    /\ LET m == Head(inbox[c])
           r == Adopt(c, m.rid, "REQUEST")
       IN IF HasSavedKey(c, m.rid) /\ r.status = "REQUEST"
          THEN /\ SetRot(c, r)
               /\ StartDerive(c, "CONFIRM", m.rid, None,
                              DeriveNewKey(m.rid, r.priv, m.eph))
          ELSE UNCHANGED <<rot, deriving>>
    /\ UNCHANGED <<sending, key, resolved, queue, slot, log, drops, connected,
                   expired, counters>>

\* processAccept() with the key derived: the key is in use before the CONFIRM is
\* sent, and a CONFIRM that cannot be sent is forgotten.
ConfirmDerived(c) ==
    \E t \in deriving[c] :
        /\ t.type = "CONFIRM"
        /\ deriving' = [deriving EXCEPT ![c] = @ \ {t}]
        /\ SetRot(c, [rot[c] EXCEPT !.status = "CONFIRM"])
        /\ ActivateNewKey(c, t.newKey)
        /\ IF connected[c]
           THEN StartSend(c, "CONFIRM", t.rid, None, t.newKey, t.newKey)
           ELSE UNCHANGED sending
        /\ UNCHANGED <<seen, resolved, queue, slot, net, connected, expired, counters>>

\* processConfirm(): answers COMPLETE and is done, whether or not it can be sent.
ProcessConfirm(c) ==
    /\ Taking(c, "CONFIRM")
    /\ UNCHANGED <<log, drops>>
    /\ LET m == Head(inbox[c])
           r == Adopt(c, m.rid, "ACCEPT")
       IN \/ /\ ~(HasSavedKey(c, m.rid) /\ r.status = "ACCEPT")
             /\ UNCHANGED <<rot, sending, slot, resolved>>
          \/ /\ HasSavedKey(c, m.rid) /\ r.status = "ACCEPT"
             /\ connected[c]
             /\ SetRot(c, [r EXCEPT !.status = "COMPLETE"])
             /\ StartSend(c, "COMPLETE", m.rid, None, key[c], key[c])
             /\ UNCHANGED <<slot, resolved>>
          \/ /\ HasSavedKey(c, m.rid) /\ r.status = "ACCEPT"
             /\ ~connected[c]
             /\ CompleteRotation(c)
             /\ LoadMessages(c)
             /\ UNCHANGED sending
    /\ UNCHANGED <<deriving, key, queue, connected, expired, counters>>

\* The rotation the page has by the time its COMPLETE is out is the one it forgets.
CompleteSent(c) ==
    \E t \in sending[c] :
        /\ t.type = "COMPLETE"
        /\ Sent(c, t)
        /\ CompleteRotation(c)
        /\ LoadMessages(c)
        /\ UNCHANGED <<deriving, key, seen, connected, expired, counters>>

\* processComplete() and processReject() act on the page whatever rotation they name.
ProcessComplete(c) ==
    /\ Taking(c, "COMPLETE")
    /\ CompleteRotation(c)
    /\ UNCHANGED <<log, drops>>
    /\ LoadMessages(c)
    /\ UNCHANGED <<deriving, sending, key, queue, connected, expired, counters>>

ProcessReject(c) ==
    /\ Taking(c, "REJECT")
    /\ ResetRotation(c)
    /\ UNCHANGED <<log, drops>>
    /\ LoadMessages(c)
    /\ UNCHANGED <<deriving, sending, key, queue, connected, expired, counters>>

Handle(c) ==
    \/ ShowOrIgnore(c)
    \/ ProcessIncomingRequest(c)
    \/ ProcessAccept(c)
    \/ ProcessConfirm(c)
    \/ ProcessComplete(c)
    \/ ProcessReject(c)

\* A handler that was waiting goes on.
Resume(c) ==
    \/ RequestOrConfirmSent(c)
    \/ AcceptDerived(c)
    \/ AcceptSent(c)
    \/ RejectSent(c)
    \/ ConfirmDerived(c)
    \/ CompleteSent(c)
    \/ TextSent(c)

-----------------------------------------------------------------------------
(* Reloading the page: init(), then restoreStateFromMessages() *)

Open(r) ==
    /\ \E i \in History(log) : log[i].rid = r
    /\ ~\E i \in History(log) : log[i].rid = r /\ log[i].type \in {"COMPLETE", "REJECT"}

\* i is the place of the last message of r.
IsLastOf(i, r) ==
    /\ i \in History(log) /\ log[i].rid = r
    /\ \A j \in History(log) : j > i => log[j].rid # r

\* sorted[0].  Timestamps are whole seconds and a CONFIRM answers its ACCEPT at
\* once, so when the two share a second either may sort first.
LatestMessages(r) ==
    LET last == {i \in History(log) : IsLastOf(i, r)}
        tied == {i \in History(log) :
                    /\ log[i].rid = r /\ log[i].type = "ACCEPT"
                    /\ \E j \in last : log[j].type = "CONFIRM"
                    /\ \A j \in History(log) : j > i /\ log[j].rid = r => j \in last}
    IN {log[i] : i \in last \cup tied}

\* Mutant: the side that sent the CONFIRM completes.
Restorable_mut(c, m) ==
    \/ m.type = "REQUEST" /\ m.from # c /\ m.rid \notin expired
    \/ m.type = "REQUEST" /\ m.from = c /\ HasSavedKey(c, m.rid)
    \/ m.type = "ACCEPT" /\ m.from = c /\ HasSavedKey(c, m.rid)
    \/ m.type = "CONFIRM" /\ m.from = c /\ HasSavedKey(c, m.rid)

\* The branches of the restore loop that return: the sender of the last
\* message is taken for the initiator, whatever the message is.
Restorable(c, m) ==
    \/ m.type = "REQUEST" /\ m.from # c /\ m.rid \notin expired
    \/ m.type = "REQUEST" /\ m.from = c /\ HasSavedKey(c, m.rid)
    \/ m.type = "ACCEPT" /\ m.from = c /\ HasSavedKey(c, m.rid)
    \/ m.type = "CONFIRM" /\ m.from # c /\ HasSavedKey(c, m.rid)

\* r first appears in the history before s does.
Before(r, s) ==
    \E i \in History(log) :
        /\ log[i].rid = r
        /\ \A j \in History(log) : log[j].rid = s => i < j

\* m is the message the loop stops at: nothing earlier is restorable.
RestoreStopsAt(c, m) ==
    /\ Open(m.rid) /\ m \in LatestMessages(m.rid)
    /\ Restorable(c, m)
    /\ \A r \in Rids : Open(r) /\ Before(r, m.rid) =>
           \E n \in LatestMessages(r) : ~Restorable(c, n)

NothingToRestore(c) ==
    \A r \in Rids : Open(r) => \E n \in LatestMessages(r) : ~Restorable(c, n)

\* A new page: the old one is gone with its suspended handlers, its queue and
\* what its socket carried; the session key is the server's again, an expired
\* slot is cleaned, the history is loaded.  The new socket may or may not be
\* open when the restore runs.
LoadPage(c) ==
    /\ reloads[c] < MaxReloads
    /\ reloads' = [reloads EXCEPT ![c] = @ + 1]
    /\ connected' \in {[connected EXCEPT ![c] = up] : up \in BOOLEAN}
    /\ key' = [key EXCEPT ![c] = BaseKey]
    /\ seen' = [seen EXCEPT ![c] = {}]
    /\ queue' = [queue EXCEPT ![c] = <<>>]
    /\ inbox' = [inbox EXCEPT ![c] = <<>>]
    /\ slot' = IF slot[c].rid \in expired
               THEN [slot EXCEPT ![c] = NoSaved] ELSE slot
    /\ UNCHANGED <<log, drops, expired, used, texts, cuts>>
    /\ LoadMessages(c)

NoDeriving(c) == deriving' = [deriving EXCEPT ![c] = {}]
NoSending(c) == sending' = [sending EXCEPT ![c] = {}]

ReloadIdle(c) ==
    /\ NothingToRestore(c)
    /\ LoadPage(c)
    /\ SetRot(c, Idle)
    /\ NoDeriving(c) /\ NoSending(c)

\* REQUEST is last: the initiator waits again, the responder is asked again, or
\* is back at ACCEPT if its ACCEPT was prepared and never stored.
RestoredRequest(c, m) ==
    LET saved == HasSavedKey(c, m.rid)
        eph == IF saved THEN slot[c].eph ELSE None
    IN IF m.from = c
       THEN [isPending |-> TRUE, status |-> "REQUEST", cur |-> m.rid,
             pend |-> NoSaved, priv |-> eph]
       ELSE [isPending |-> TRUE,
             status |-> IF saved THEN "ACCEPT" ELSE "PENDING_REQUEST",
             cur |-> m.rid, pend |-> [rid |-> m.rid, eph |-> m.eph], priv |-> eph]

ReloadToRequest(c) ==
    \E m \in {log[i] : i \in History(log)} :
        /\ m.type = "REQUEST" /\ RestoreStopsAt(c, m)
        /\ LoadPage(c)
        /\ SetRot(c, RestoredRequest(c, m))
        /\ NoDeriving(c) /\ NoSending(c)

\* ACCEPT is last and this page sent it: processAccept runs on its own public key.
ReloadAfterOwnAccept(c) ==
    \E m \in {log[i] : i \in History(log)} :
        /\ m.type = "ACCEPT" /\ RestoreStopsAt(c, m)
        /\ LoadPage(c)
        /\ SetRot(c, [isPending |-> TRUE, status |-> "REQUEST", cur |-> m.rid,
                      pend |-> NoSaved, priv |-> slot[c].eph])
        /\ deriving' = [deriving EXCEPT ![c] =
               {[type |-> "CONFIRM", rid |-> m.rid, eph |-> None,
                 newKey |-> DeriveNewKey(m.rid, slot[c].eph, m.eph)]}]
        /\ NoSending(c)

\* CONFIRM of the peer is last: processConfirm completes, with the server's key in use.
ReloadAfterConfirm(c) ==
    \E m \in {log[i] : i \in History(log)} :
        /\ m.type = "CONFIRM" /\ RestoreStopsAt(c, m)
        /\ LoadPage(c)
        /\ NoDeriving(c)
        /\ \/ /\ connected'[c]
              /\ SetRot(c, [isPending |-> TRUE, status |-> "COMPLETE", cur |-> m.rid,
                            pend |-> NoSaved, priv |-> slot[c].eph])
              /\ sending' = [sending EXCEPT ![c] =
                     {[type |-> "COMPLETE", rid |-> m.rid, eph |-> None,
                       enc |-> BaseKey, newKey |-> BaseKey]}]
           \/ /\ ~connected'[c]
              /\ SetRot(c, Idle)
              /\ NoSending(c)

Reload(c) ==
    \/ ReloadIdle(c)
    \/ ReloadToRequest(c)
    \/ ReloadAfterOwnAccept(c)
    \/ ReloadAfterConfirm(c)

-----------------------------------------------------------------------------
(* The environment *)

\* The socket closes; of the messages on their way the page still handles a prefix.
Cut(c) ==
    /\ connected[c] /\ cuts < MaxCuts
    /\ cuts' = cuts + 1
    /\ connected' = [connected EXCEPT ![c] = FALSE]
    /\ \E n \in 0..Len(inbox[c]) : inbox' = [inbox EXCEPT ![c] = SubSeq(@, 1, n)]
    /\ UNCHANGED <<page, slot, log, drops, expired, used, texts, reloads>>

\* _reconnect(), three seconds later: the queue is flushed, missed messages are
\* not fetched.
Reconnect(c) ==
    /\ ~connected[c]
    /\ connected' = [connected EXCEPT ![c] = TRUE]
    /\ queue' = [queue EXCEPT ![c] = <<>>]
    /\ Forward(c, queue[c])
    /\ UNCHANGED <<rot, deriving, sending, key, seen, resolved, slot, drops,
                   expired, counters>>

\* 24 hours after its request a rotation's expires_at has passed.
Expire(r) ==
    /\ r \notin expired /\ Cardinality(expired) < MaxExpired
    /\ r[2] <= used[Owner(r)]
    /\ expired' = expired \cup {r}
    /\ UNCHANGED <<page, slot, net, connected, counters>>

-----------------------------------------------------------------------------

Init ==
    /\ rot = [c \in Clients |-> Idle]
    /\ deriving = [c \in Clients |-> {}]
    /\ sending = [c \in Clients |-> {}]
    /\ key = [c \in Clients |-> BaseKey]
    /\ seen = [c \in Clients |-> {}]
    /\ resolved = [c \in Clients |-> {}]
    /\ queue = [c \in Clients |-> <<>>]
    /\ slot = [c \in Clients |-> NoSaved]
    /\ inbox = [c \in Clients |-> <<>>]
    /\ log = <<>>
    /\ connected = [c \in Clients |-> TRUE]
    /\ expired = {}
    /\ used = [c \in Clients |-> 0]
    /\ texts = 0
    /\ drops = 0
    /\ cuts = 0
    /\ reloads = [c \in Clients |-> 0]

ClientStep(c) ==
    \/ Initiate(c)
    \/ Accept(c)
    \/ AcceptExpired(c)
    \/ Reject(c)
    \/ SendText(c)
    \/ Handle(c)
    \/ Resume(c)
    \/ Reload(c)
    \/ Cut(c)
    \/ Reconnect(c)

Next ==
    \/ \E c \in Clients : ClientStep(c)
    \/ \E r \in Rids : Expire(r)

Spec == Init /\ [][Next]_vars

\* The browser runs the handler of a message that arrived and resumes a handler
\* whose promise has settled; nothing obliges a user, or a network, to act.
FairSpec ==
    /\ Spec
    /\ \A c \in Clients : WF_vars(Handle(c)) /\ WF_vars(Resume(c))

-----------------------------------------------------------------------------

TypeOK ==
    /\ rot \in [Clients -> Rotation]
    /\ deriving \in [Clients -> SUBSET Deriving]
    /\ sending \in [Clients -> SUBSET Sending]
    /\ key \in [Clients -> SessionKey]
    /\ seen \in [Clients -> SUBSET ((Rids \cup {None}) \X Types)]
    /\ resolved \in [Clients -> SUBSET (Rids \cup {None})]
    /\ queue \in [Clients -> Seq(Message)]
    /\ slot \in [Clients -> Saved]
    /\ inbox \in [Clients -> Seq(Message)]
    /\ log \in Seq(Message)
    /\ connected \in [Clients -> BOOLEAN]
    /\ expired \subseteq Rids
    /\ used \in [Clients -> 0..MaxEph]
    /\ texts \in 0..MaxTexts
    /\ drops \in 0..MaxDrops
    /\ cuts \in 0..MaxCuts
    /\ reloads \in [Clients -> 0..MaxReloads]

EphsOf(c) == {e \in Ephs : Owner(e) = c}
\* What two sides that follow the protocol derive for a rotation.
AgreedKeys == UNION {{DeriveNewKey(r, r, e) : e \in EphsOf(Peer(Owner(r)))} : r \in Rids}
\* What a page derives from its own pairs alone.
OwnKeys(c) == [rid : Rids, ephs : SUBSET EphsOf(c)]

\* No key comes from nowhere: a page's session key is the server's, or is made of
\* the request's own ephemeral key and one of the answering side (_deriveNewKey).
\* Only a page that was reloaded can end up with a key made of pairs of its own
\* alone, which is what restoreStateFromMessages does after its own ACCEPT.
KeyOrigin ==
    \A c \in Clients :
        \/ key[c] \in AgreedKeys \cup {BaseKey}
        \/ reloads[c] > 0 /\ key[c] \in OwnKeys(c)

\* "must match Bob's": as long as no page is reloaded, two pages whose keys come
\* from the same rotation have the same key, however their handlers, requests of
\* both sides and answers interleave.
SameRotationSameKey ==
    (\A c \in Clients : reloads[c] = 0) /\ key[Alice].rid = key[Bob].rid
        => key[Alice] = key[Bob]

StoredBefore(i, type, c) ==
    \E j \in 1..i-1 : log[j].type = type /\ log[j].from = c /\ log[j].rid = log[i].rid

Answered(m) == m.type \in {"ACCEPT", "REJECT"}

\* A request is answered once, over reloads that ask the user again, lost messages
\* and sockets that flush late (isRotationResolved, _pendingRequest,
\* restoreStateFromMessages): the server stores a second ACCEPT or REJECT of one side
\* only after one that no page can read from the history.  Such an answer comes of two
\* handlers of a page that interleave: the key in use changes between encrypt() and
\* the reading of the label, and loadMessages decrypts with the label alone.
OneAnswer ==
    \A i \in DOMAIN log : \A j \in 1..i-1 :
        /\ Answered(log[i]) /\ Answered(log[j])
        /\ log[j].from = log[i].from /\ log[j].rid = log[i].rid
        => log[j].enc # log[j].label

\* The history tells the story in the order of the protocol: an answer follows the
\* request of the other side, a CONFIRM follows an ACCEPT, a COMPLETE follows a
\* CONFIRM of the other side.  restoreStateFromMessages depends on it.
StoredInOrder ==
    \A i \in DOMAIN log :
        LET other == Peer(log[i].from)
        IN /\ log[i].type \in {"ACCEPT", "REJECT"} => StoredBefore(i, "REQUEST", other)
           /\ log[i].type = "CONFIRM" =>
                  \E c \in Clients : StoredBefore(i, "ACCEPT", c)
           /\ log[i].type = "COMPLETE" => StoredBefore(i, "CONFIRM", other)

\* A page that waits for an ACCEPT or for a CONFIRM finds the private half of that
\* rotation in localStorage, so a reload can pick the wait up again
\* (_saveEphPrivateKey, _clearEphPrivateKey, _cleanupExpiredKeys).
WaitingHoldsSecret ==
    \A c \in Clients :
        rot[c].status \in {"REQUEST", "ACCEPT"} => slot[c].rid = rot[c].cur

\* Both pages are done and nothing is on its way.
Quiet ==
    \A c \in Clients :
        /\ rot[c].status = "NONE"
        /\ inbox[c] = <<>> /\ queue[c] = <<>>
        /\ deriving[c] = {} /\ sending[c] = {}

\* ARCHITECTURE.md, "Derive new_session_key (must match Bob's)": two pages that are
\* both done with rotating use the same key.
QuietAgreement == Quiet => key[Alice] = key[Bob]

\* core.js, "previous key (still valid for decrypting old messages)": the page can
\* open every message that has reached it.
ArrivalsReadable ==
    \A c \in Clients : inbox[c] # <<>> => Readable(c, Head(inbox[c]))

Faultless == drops = 0 /\ cuts = 0 /\ expired = {}

\* A rotation that was accepted (accept() is past its derivation) ends with both
\* pages idle and on its key, unless a message, a socket or the deadline is lost.
AcceptedCompletes ==
    \A r \in Rids : \A c \in Clients :
        rot[c].status = "ACCEPT" /\ rot[c].cur = r ~>
            \/ ~Faultless
            \/ \A d \in Clients : ~rot[d].isPending /\ key[d].rid = r

\* rotation.js, "REQUEST -> ACCEPT -> CONFIRM -> COMPLETE (or REJECT/TIMEOUT)": a
\* page does not wait for ever in a rotation that has expired.
ExpiredEnds ==
    \A r \in Rids : \A c \in Clients :
        r \in expired /\ rot[c].cur = r ~> rot[c].cur # r
=============================================================================
