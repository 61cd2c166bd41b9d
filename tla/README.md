# A TLA+ model of DuoNet

DuoNet is a messenger: browser pages encrypt, a FastAPI server stores and relays,
and two pages of a dialog change their session key by themselves, with ordinary
encrypted messages (README.md:100-102, docs/ARCHITECTURE.md "Key Rotation Protocol
(V4)"). This directory holds TLA+ models of its concurrent and distributed parts,
the TLC runs that check them and the TLAPS proofs of what holds for every size.

Paths below are relative to the repository root; `chat/` is
`src/web/static/js/chat/`.

## 1. Inventory

What each part keeps, what it does, what makes it hard, and what makes it correct.

| Part | State | Operations | Hard because | Correct when |
|---|---|---|---|---|
| **Key rotation V4** (`chat/rotation.js`, `system.js`, `core.js`, `messages.js`) | per page: current rotation and status, stored request, ephemeral pair; session key; processed set; one localStorage slot per dialog | initiate, accept, reject, process{IncomingRequest, Accept, Confirm, Complete, Reject}, restoreStateFromMessages | handlers interleave at every `await`; both sides may start; messages get lost; pages reload; requests expire | both sides end with the same key; recovery continues the right rotation; a request has one answer |
| **Message relay and history** (`server/api/websocket.py`, `server/api/messages/*`, `client/storage/messages.py`) | table `messages` | store, forward to a registered socket, page through the history, report as read, delete | the recipient may be offline or its socket half open; the handler awaits between its insert and its answer | history and forwarded messages tell the same story; what was read stays read |
| **WebSocket connection manager** (`server/api/websocket.py`) | `public_id -> ConnectionInfo` | add, remove, send, heartbeat, clean-up task | handlers, sends and the clean-up all name the user, not the socket | the page that is connected is the one that is served; dead entries go |
| **WebSocket client** (`duonet-websocket.js`) | socket, pending queue | connect, onclose, reconnect after 3 s, flush | races the server's clean-up of its old socket | one window left is connected in the end |
| **Encryption and padding** (`duonet-crypto.js`, `client/client_crypto.py`, `client/crypto/*`, `common/crypto/padding.py`) | session key; counter and last padding of a chat screen | encrypt, decrypt, pad, with a phrase or without | two implementations of one format; a padding that depends on what was sent before | what was encrypted with a key opens with it, and with the size of its padding |
| **Key rotation V3** (`client/messaging/rotation_manager.py`, `system_messages.py`) | pending rotations in memory, dialog states in memory and in SQLite | initiate, process, accept, confirm, complete, reject, timeout | restart between steps, keys switched before confirmation | a dialog waits only for a rotation it can finish; confirmed rotations leave one key |
| **Invites, spam protection** (`client/messaging/invite.py`, `spam_protection.py`) | invites in a second database and in the memory of every process; rejections, block level | send, accept, reject, revoke; load on start; record a rejection | the memories of several processes and the database disagree; two users invite each other; writes to two databases, each on its own; a counter with a reset and a block that outlives it | both sides of a dialog hold one key; an invite withdrawn in a process is not brought back by it; blocks are earned |
| **Contacts and phrases** (`client/storage/contacts.py`, `web/contacts/routes.py`, `web/chat/manager.py`) | one row per contact, written whole; phrases of chat pages in memory | add, rename, delete, set a phrase, list | several processes read a row and put it back | what the lists show is a contact of somebody else |
| **Proxy clients** (`server/proxy/client_crud.py`, `proxy_http.py`) | invites, clients, traffic | invite, add, update, check limit, add traffic, clean up | the limit is checked before and counted after an awaited request | limits hold up to what is under way; an invite makes one client |
| **Trust, blacklist, gossip** (`server/network/trust/*`, `gossip/*`) | one row per server, violations, blacklist; nonces | set level, quarantine, promote, violate, block; send and receive | operations replace rows other operations rely on | a blocked server stays blocked; quarantine limits; a message counts once |
| **Rendezvous server and client** (`server/network/rendezvous/*`) | registrations with a TTL; cached answers | register, heartbeat, look up, clean up | expiry races heartbeat; answers are cached for longer than registrations live; lost replies | no server that is long silent is named |
| **Network map** (`network_map.py`) | nodes in memory and in SQLite | add, heartbeat, remove, monitor, load | a restart takes the table's expiries | a beating node stays |
| **Accounts, recovery, rate limiter** (`common/identity/*`, `rate_limiter.py`) | accounts, links, windows of time stamps | register, change password, recover | two rows per registration, each written on its own, and several processes; check and count are two calls | a phrase that one process registers is registered once; limits are limits |
| **Sessions, charter** (`server/api/auth.py`, `web/auth.py`, `common/charter/*`) | cookies, private keys in memory by name, signatures | register, log in by phrase or id, log out, sign | keys outlive tokens and are shared by browsers; signing may fail unnoticed | a key signs for the user it was made for |
| **Server database, peers** (`server/storage/server_db.py`, `server/api/*`) | encrypted rows, peers, queue, master key in environment and `.env` | add, connect, disconnect, start | several processes share the database and find the key in different places | what one wrote every other reads |
| **Child processes** (`web/multi_client.py`, `rendezvous_manager.py`) | configurations, ports, processes, threads | create, stop, delete; start, stop | threads run between two lines of `start()` and `stop()` | one rendezvous server; a client that lives can be stopped |
| **File transfer** (`web/file_transfer.py`) | files and packets in memory | upload, add packet, delete | packets in any order, again, too many | a file is whole |
| Load balancer, voting, mDNS, GeoIP, application glue, UI, TUI, dead code | | | stubs, I/O, presentation | see 7 |

**Interactions.** A page calls the HTTP API for its key and history and keeps one
WebSocket to the server. The server stores a message, then forwards it to whatever
socket is registered for the recipient. The rotation of two pages is carried by such
messages, so it meets every fault of the relay and of the connections; invites set
the key rotation starts from, and add the contacts. Gossip asks the trust manager for leave
before it sends; registrations ask the rate limiter and sign the charter; the search for
contacts and the load balancer answer from the rendezvous client's cache. Everything else
meets only in the process it runs in and in the files it leaves.

**Processes.** The web clients that `multi_client.py` starts (lines 119-121) run the same
application, `src.server.api.main:app`, which opens `duonet.db` and `duonet_server.db` at fixed
paths (server/api/main.py:347, 372). So several processes share the tables, and each has what the
program keeps in memory for itself. `Invites`, `Accounts`, `Sessions`, `Registry` and `Contacts`
model several of them; the other modules are of what one process keeps.

## 2. Modules

| Module | Models | Proofs |
|---|---|---|
| `KeyRotation` | the two pages of a dialog, the relay and the history between them | `KeyRotationProofs`, `KeyRotationHistoryProofs` |
| `KeyHandover` | what a rotation promises the two ends: a key is offered, then taken; `KeyRotation` implements it | `KeyRotationHistoryProofs` |
| `Connections` | the connections of one user: windows, sockets, the manager | `ConnectionsProofs` |
| `Invites` | the invites between the users of one machine in its server processes, with their dialogs and contacts | `InvitesProofs` |
| `SpamProtection` | the statistics of a sender, as operators on its record; used by `Invites` | `InvitesProofs` |
| `Dialogs` | the messages of a dialog: table, handlers of the relay, pages, read reports | `MessagesProofs` |
| `NetworkMap` | the nodes of the local network, in memory and in their table | `NetworkProofs` |
| `Leases` | what a table of registrations with a lifetime promises; `NetworkMap` and `Directory` implement it | `NetworkProofs` |
| `Padding` | the Python client's messages: format, sizes, padding, the chat screen's counter | `MessagesProofs` |
| `RotationV3` | the two Python clients of a dialog and their rotation | `MessagesProofs` |
| `Trust` | trust rows, blacklist, violations, gossip of one server | `NetworkProofs` |
| `Directory` | the rendezvous server and the cache of one server's client | `NetworkProofs` |
| `ProxyClients` | invites and clients of the HTTP proxy, its requests, the owner | `ServerProofs` |
| `Accounts` | accounts, rate limiter, recovery, in several processes | `ServerProofs` |
| `Sessions` | cookies, keys and signatures, over `Accounts` | `ServerProofs` |
| `Processes` | extra web clients and the rendezvous process | `ServerProofs` |
| `Registry` | server database, peers and the master key | `ServerProofs` |
| `Files` | uploaded files and files put together | `MessagesProofs` |
| `Contacts` | contacts of a user, phrases, what the lists show | `ServerProofs` |
| `ServerClock` | the clock `now` of a server process, used by the modules with times | |
| `MCKeyRotation`, `MCConnections`, `MCInvites` | the small instances for TLC | |
| `MCComponents` | the components that keep to themselves, one in each behaviour | `ComponentsProofs` |

### KeyRotation

`rot[c]` is the `DuoNetRotation` object of client c's page, `key[c]` its
`sessionKeyHex`, `seen[c]` the duplicate filter, `resolved[c]` the rotations the last
loaded history shows as answered, `slot[c]` the localStorage entry. `deriving[c]` and
`sending[c]` are the handlers of the page that wait in `_deriveNewKey` or `encrypt`:
a JavaScript handler runs alone up to its `await`, so each handler is one action up to
the await and one after it (`Accept`, `AcceptDerived`, `AcceptSent`; `ProcessAccept`,
`ConfirmDerived`, `RequestOrConfirmSent`; `ProcessConfirm`, `CompleteSent`; ...), and
any other handler of the page can run between them. `log` is the server's table,
`inbox[c]` what has been forwarded to c and not handled, `queue[c]` what a page holds
back while its socket is closed.

A message carries the key it was encrypted with (`enc`, read before the await) and
the key it is labelled with (`label`, read after it). `Readable` is the order in which
`decryptMessage` tries keys; `History` keeps the messages `loadMessages` can open, which
tries the label alone. `Reload` is a new page: it forgets everything but the slot, loads
the history and follows `restoreStateFromMessages`, including that it takes the sender
of the last message for the initiator and sorts by whole seconds.

Keys are symbolic: an ephemeral pair is `<<owner, n>>`, a session key is the set of the
two pairs with the rotation id that salts the HKDF. Two derivations are equal exactly
when the code's would be.

Abstractions: opening a message and loading the history take no time and messages of a
socket are handled first come first served; the history is not limited to its newest 50
messages; the two-second wait for `wsReady` never decides anything; a page has one dialog;
`TIMEOUT` has no action because no code sends it; the duplicate filter forgets nothing
(it does after 100 entries).

### Connections

`conn` is `WebSocketManager._connections[public_id]` for one user, `pc[s]` where
`websocket_endpoint` is with socket s, `up[s]` whether it is open at the server's end,
`page[w]` the socket window w holds, `target[t]` the socket a `send_to_client` of task t
waits on. `RemoveConnection` is `remove_connection(public_id)`: it closes and forgets
what is registered *by now*. It is reached from the handler's `finally` (`Closed`,
`TimedOut`), from a failed send (`SendEnds`) and from `_cleanup_loop`.

Abstractions: the greeting is one send; pings and messages are one `Receive`; the times
(30 s ping, 55 s timeout, 300 s idle) count for what they tell apart, so a socket whose
window is gone can time out and one whose window lives does not (a browser that slows the
timers of a hidden tab below 55 s is left out); tokens are valid (the endpoint closes a
socket without a valid one before it registers anything). `Prompt = TRUE` states that the handlers
of a window's closed sockets end within the three seconds it waits to reconnect; only
`Settles` depends on it.

### Invites and SpamProtection

`invites` is the table of `duonet_server.db` in the order of sending, `pending[p]` the ids in the
`_pending_invites` of process p, `dialogs` and `contacts` are in the other database, `stats[u]` is
the record SpamProtection keeps of sender u there. Every process that runs `main:app` shares the
tables and fills a memory of its own when it starts (`Restart`, `LoadActiveInvites`), which then
only its own handlers change: a revoke or a reject takes an invite from the memory of the process
that handles it.

The handlers await nothing, so a process runs one at a time, `task[p]`. Each statement commits by
itself, and statements of other processes come between: what a handler reads before a write is one
step (`SendInvite`, `RevokeInvite`, `AcceptInvite`, `RejectInvite` with its one UPDATE), each write
is one (`InsertInvite`; `MarkRevoked`; `SaveStatus`, `SaveDialog`, `SavePeerDialog`, `AddContact`,
`AddPeerContact`; `LoadStats`, `SaveStats`). A write may fail (`WriteFails`: the code prints the
failure of the status and of the dialogs and goes on, of any other the handler ends), and a process
may end with a handler under way and start again (`Restart`). Users act on any invite at any time
and in any process, as a stale page or the API allows: `accept_invite` does not look at the status
or the expiry of an invite in memory, `reject_invite` at neither the status nor, for the memory and
the count, at who rejects. A session key is a number drawn once; `NoKey` in a row is an invite sent
before its recipient had an account here, for which every accept draws a new key.

Rows carry three histories: `seen`, how many rows its sender had looked at; `withdrawer`, the
process that withdrew it last; `revived`, whether it was accepted after that. `crossed` are the
users whose dialog two processes wrote at once, with different keys.

A time is a day and an hour of it, which is what the code distinguishes: the daily reset
compares UTC dates, blocks last whole days and are compared as instants. `blocks` is the length
of `block_history`, which is always 1..`blocks`.

Abstractions: signatures, messages and names; contacts that users add or delete through the
API; the limit of client accounts; sessions (a user with an account can log in); a failing
write leaves no trace; the accept counters and `reset_user()`, `process_invite()` and
`cleanup_expired()`, because no code calls them. Since nothing cleans up, an expired invite
that is still pending in the table keeps the sender from inviting again.

### Dialogs

`row` is the table, `handler[m]` how far `_handle_message()` is with message m, whose sends it
awaits, `arriving` what is on its way to the page, `shown` the page's list, `reports` the
`POST /read` under way. The dialog list's count of unread messages is `DialogInfo`. A report
can reach the server before the handler that forwarded the message goes on, and a message may
be deleted at any point, by either user or with the whole conversation.

### NetworkMap and Leases

`nodes` and `table` keep for every node when it expires, in memory and in `network_nodes`; 0 is
"not there". Every method holds the lock over its awaits, so a method is a step; `start_monitor`
takes no lock and reads the table over the memory; a restart does so too. `Leases` says what
such a table promises: an entry lasts its term after it was last renewed, and may be renewed or
dropped later. It ends earlier in two ways, after which its holder is in `given` until it is
renewed: by a release, of one of the `Releasable` holders, and with the process, if the table is
`Volatile`. `TableLeases` states the refinement, with `lease <- table` and `given <- removed`, the
nodes that `remove_node()` took: the memory, the monitor and the restarts must never lengthen or
cut a lease. The table is in SQLite, so no lease is lost with the process (`Volatile <- FALSE`).

### Padding

A ciphertext is the key's direction, the phrase, the text and its size; opening one gives the
text if all of key, phrase and size are right. `CalculatePaddingSize`, `EncryptWithPadding` and
`DecryptWithPadding` are those of `ClientCrypto`, the operators named `Directional` those of
`client/crypto`, which measures a text by its bytes where `ClientCrypto` counts characters. The
actions are the chat screen: it counts its messages, remembers the last padding, and after a
reload takes the counter from the ids of the history.

### RotationV3

`pending[u]` are the rotations of u's manager, `dialog[u]` the row of the dialog in
`rotation_state`, `cached[u]` whether it is in `_dialog_states` (memory and table are written
together), `seen[u]` the duplicate filter. A method with the message it makes is a step, as is
the handling of a message. `sent` only grows, so a message may come never, late, again or before
others; a restart forgets `pending`, `cached` and `seen`; a dialog may be deleted on one side.

### Trust

A server's row holds level, block, quarantine and counters together. `SetTrustLevel` and
`AddToQuarantine` replace the row, others update it, a new date resets the counters: one action
each, for a database transaction is not left in between. Gossip asks the row before it sends
(`AskLeave`, `SendToServer`, `BroadcastChange`) and applies a message by its nonce
(`HandleGossipMessage`), which a restart forgets; messages may be delivered again as long as they
are accepted by age. What a gossip message changes is nothing but a log line in the code.

### Directory

`store` is `ServerStore`, `cache` what the `RendezvousClient` of server `Self` was answered and
when, `behind` whether the reply to its last change was lost, `beat` when each server last spoke.
Requests are lost before or after the rendezvous server sees them. `Search` and `Recommended` are
the answers made from the cache. `_get_status_response()` and the load balancer read the same.
The rendezvous server's store is another implementation of `Leases` (`StoreLeases`): a heartbeat
that revives an expired entry, a registration that replaces one and a clean-up must not cut or
lengthen a lease. Nothing takes an entry off early (`Releasable <- {}`), but it is in memory, so
all leases end with the process (`Volatile <- TRUE`, `given <- lost`).

### ProxyClients

`tokens` and `clients` are the two tables. A request is a record in `requests` that is asked for
its client twice (`StartRequest`, `Forward`) and charged twice (`Forward`, `Answered`); between
those, other requests, the owner's endpoints, the clean-up and the clock run. Redeeming an invite
may be cut short between its two statements (`cut`).

### Accounts and Sessions

`accounts` and `links` are tables that several processes share; `stamps` and `attempts` are the
windows each has in memory, which its restart empties, `admitted` and `mailed` what it really
admitted. `register()` awaits nothing, but each INSERT commits by itself: `AccountRegister` is its
checks, the one of `seed_hash` among them, `InsertServer` and `InsertClient` draw an id that no row
has (`Drawn`) and write a row, `FinishRegistration` is `setup_recovery()`. Between them other
processes register, a write may raise (`RegisterFails`) and the process may end (`AccountRestart`);
what was written stays. `overlapped` are the phrases that two processes were registering at once.
The other handlers are a step each.

`Sessions` adds the cookies of browsers (`token`, `consent`), the private keys by the name each
process keeps them under (`keys`; the empty name is the `None` a server login uses), and who signed
the charter (`signed`). `page` is the browser whose registration a process runs. The page tries to
sign for what it has registered and goes on if that fails (`SignRegistered`, then `AnswerPage`,
whether anything was signed or not): `sign_charter_for_account()` swallows every exception and
`register_api()` ignores its result. So who registered may not have signed, and no property says
otherwise.

### Processes

`configs`, `ports` and `children` are the extra web clients; `runner[r]` is where thread r of
`RendezvousManager` is in `_run_server()`, `thread`, `process` and `started` the manager's fields,
`serving` the servers that live. `Start` and `Stop` are steps, since they block the event loop,
and interleave with the threads only.

### Registry

`inUse[p]` is the master key process p works with, `exported` and `dotenv` where the next finds
one. A row stands for the key it was written with. `unsaved` and `forked` are the two ways keys
come to differ that `RowsReadable` names: a key that could not be saved, and a web client that was
started in the run that made the first key and has neither environment nor file to find it in.

### Files and Contacts

`Files` has the packets that came and the files made from them. In `Contacts` a request that
changes a row reads it (`AddContact`, `UpdateName`, `SetPhraseHash`) and puts it back (`PutContact`)
in another step, during which other processes do the same; `WebContacts`, `ApiContacts` and
`ApiDialogs` are the lists, which never show the user himself.

## 3. Properties and runs

| Run | Question | Bounds | Result |
|---|---|---|---|
| `rotation_interleaved` | `TypeOK`, `SameRotationSameKey`: do keys of one rotation agree however handlers, requests of both sides and answers interleave? | both start, 2 pairs each, 2 handlers per page, 1 loss | holds |
| `rotation_faults` | `KeyOrigin`, `OneAnswer`, `StoredInOrder`, `WaitingHoldsSecret`: does recovery keep the story straight? | one starts, 2 pairs each, 2 handlers per page, 1 reload of each page, 1 cut, 1 expiry | holds |
| `rotation_one_way` | `QuietAgreement`, `AcceptedCompletes`: does an accepted rotation complete, do quiet pages agree? | one starts, 2 handlers, 1 text, 1 loss, 1 cut, 1 expiry, no reload | holds |
| `rotation_glare` | `QuietAgreement` when both start | 2 pairs each, no faults | **violated** |
| `rotation_old_key` | `ArrivalsReadable`: can a page open what reaches it? | one starts, 1 text, no faults | **violated** |
| `rotation_expiry` | `ExpiredEnds`: does a page leave a rotation that expired? | one pair, no other faults | **violated** |
| `connections` | `TypeOK`, `OpenIsRegistered`, `GhostEnds`, `Settles` | 2 windows, 2 sockets at a time, 2 openings, 1 loss, 1 failing set-up, 1 other sender | holds |
| `connections_replaced` | `ReplacementStays`: does a new connection stay registered? | 2 windows, 2 sockets, no faults | **violated** |
| `invites` | `TypeOK`, `OneLiveInvite`, `ContactsShareKey`, `WithdrawnIsFinal`, `BlocksEarned`: do memories, table, dialogs and contacts stay in step, and does every block take its own rejections? | 2 users, 2 keys, and of three stories any one: 2 processes, 2 invites, no fault, one hour; 1 process, 2 invites, 1 rejection, 1 failing write or handler cut short, 2 days; 2 processes, 1 invite, 6 rejections in 5 days of 2 hours, up to the permanent block. Any restarts | holds |
| `invites_rejections` | `RejectionsAreInvites`: is an invite's rejection counted once? | 1 process, no fault | **violated** |
| `components` | the properties of the other components, below | one component per behaviour, below | holds |
| `recovery_reset` | `ResetChangesPassword`: does a valid recovery link change the password? | one mail address | **violated** |

Every cfg says `CHECK_DEADLOCK FALSE`: users may stop acting, and the bounds stop them.

**The components that keep to themselves** read nothing of what another keeps, so a behaviour of
all of them is one of each, interleaved, and no property relates two. `components` therefore runs
one of them in each behaviour: `part`, chosen at the start, says which, and the variables of the
others do not move. Each part has its own last tick of the clock.

| Part | Properties | What they say | Bounds |
|---|---|---|---|
| trust | `AllowancePaid`, `BlockOutlivesTraffic`, `OffenderStaysOut`, `GossipOnce` | on one date a server in quarantine gets its limit, and again only for an allowance it was given back; traffic lifts no block; an offender is never trusted automatically; a gossip message is applied once by a process | 1 peer, limit 1 an action, days of 2 ticks, 3 ticks, 1 violation, 1 message |
| directory | `ToldWereAlive`, `OwnEntryCurrent` | nobody is named who has been silent for the lifetimes of a registration and of a cached answer; a server is told of itself what the rendezvous server has | 2 servers, lifetimes 1 and 2, 3 ticks |
| map | `MapStored`, `BeatingStays`, `TableLeases` | memory agrees with the table; a beating node stays; the table implements `Leases` | 3 nodes, room for 2, lifetime 2, 4 ticks |
| proxy | `OvershootBounded`, `InviteOnce` | a client exceeds its limit by no more than what is under way; an invite admits one client | 2 people, 1 invite, 2 clients, 2 requests, answers of 1 unit, 1 act of the owner, 1 tick |
| accounts | `WindowsLimited`, `PhraseRegistersOnce` | no window of the period holds more than the limit in a process; a phrase has one account of each role, unless two processes registered it at once | 3 phrases, 1 password, 1 address, limits of 1 in 1 tick, 2 mails, 3 ticks, 1 process |
| registrations | the same | the same | 2 processes, 2 draws of an id, no recovery, no tick |
| sessions | `SessionKeyOwned` | a key kept for a user is made from the user's phrase | the same accounts, 1 process, 1 browser, 1 tick |
| rotation | `WaitsForKnown`, `ConfirmedAgree` | a dialog in memory waits for a rotation in memory, but for one a restart removed; when every acceptance is confirmed, both sides use one key | a rotation in each direction, one acceptance each; of a second rotation, a tick, a restart and a deletion any two |
| processes | `OneServer`, `ClientsOwned` | no rendezvous server that `stop()` does not end; a web client that lives can be stopped and has its port alone | 3 clients, 2 ports, 2 threads |
| registry | `RowsReadable` | what a process wrote the others read, but for the two ways named | 2 processes, 3 keys, 1 server, 1 client |
| dialogs | `ReportedIsRead` | a message reported as read is never unread again | 2 messages, one in each direction |
| files | `FilesWhole` | a file put together has every packet and its name and is not too large | messages of 3 and 2 packets, one too large |
| contacts, padding | `ComponentsTypeOK` | the lists show contacts of others; paddings are in their range (their theorems say more) | 2 processes, 5 public ids; 3 texts, 3 messages |

**Why these bounds.** A rotation uses one pair of each side. Two pairs each are enough
for a rotation after a completed one, for two that cross, and for a request that replaces
another. Two handlers per page are the least that interleave; with one a page's awaits
are atomic, which `rotation_glare` assumes, as its counterexample needs no more. One loss, cut, expiry and reload per page each
put the fault at every point of the exchange. Two invites are two that cross, or a second
after the first was withdrawn; two keys let one be drawn on sending and one on accepting. Two processes are the one that withdraws
and the one that still remembers, or two handlers between each other's writes. Blocks
of one and two days with days of two hours let a day begin while a block is running, and six
rejections reach every level; one invite is enough for that, as it can be rejected again. With
two sockets there is an old and a new one, which is what the connection races are about.

In `components`, lifetimes are one or two ticks and the clock runs past the longest chain of them
(registration and cached answer; a day, a quarantine and the date after it). Two requests share a
limit, two clients share an invite, two threads share a manager, two processes a key: one more of
each would only add another pair. Ids that are alike come in one order (`InOrder`), as do the two
users of a rotation, and of the loads of servers "busy" is left out (`TwoLoads`), which counts for
the load balancer alone. `RotationWithin` bounds what may come together in the V3
rotation; the theorem about it has no bound.

**Why bounds of the passing runs are stated where they are.** Beyond them some
properties do fail, for the reasons the violation runs show. That a request
has one answer in the history fails with two handlers per page *and* a reload *and* an expiry: the
ACCEPT is labelled with another key than it was encrypted with (see `rotation_old_key`), is
unreadable in the history, and the user is asked again. `OneAnswer` therefore says that a second
answer is stored only after one that is so mislabelled, which is the one way to it.
`QuietAgreement` fails with both sides starting (`rotation_glare`) and with reloads, since
the session key of a reloaded page is the server's, which rotation never updates.
`ContactsShareKey` is claimed only while no write failed and no handler was cut short: after that
an accepted invite may be left with the key on one side or on none, and cannot be sent again.
`KeyOrigin` names a key made of a page's own pairs as the one exception after a reload, which is
what `restoreStateFromMessages` makes after an own ACCEPT (rotation.js:208).

What fails as soon as two processes serve is part of the properties of `Invites` and `Accounts`,
each time as the only way out: a revoke or reject in one process and an accept in another, which
has the invite in memory or was accepting it, turn a withdrawn invite into an accepted one
(`WithdrawnIsFinal`), beside which a later invite may live (`OneLiveInvite`); two look at the table
before either inserts, and both invite, which `OneLiveInvite` does not count; two accept crossing
invites, their pairs of writes interleave, and the sides keep different keys
(`ContactsShareKey`, `crossed`); two check a phrase before either inserts, and it has two rows
(`PhraseRegistersOnce`, `overlapped`). With one process none of them happens.
`ConfirmedAgree` excludes rotations that were accepted twice, since each acceptance makes another
key, and deleted dialogs, which start again with the session key.

**Fairness.** `FairSpec` of `KeyRotation` is weak fairness of `Handle` and `Resume`: the
browser runs the handler of a message that arrived and resumes a settled promise. Nothing
is assumed of users, of the network or of reconnecting. `FairSpec` of `Connections` is
weak fairness of the server's handlers, of sends that end, of time (`GoIdle`, `TimedOut`),
of the clean-up task, of `onclose` and of reconnecting, which the page does for ever
(`maxReconnectAttempts` defaults to Infinity). Opening and closing windows, faults and
messages may stop at any time. `MCComponents` states no fairness and claims no liveness: what its
components must do in the end (drop what has expired) they do when they are next asked.

## 4. What the runs found

* **Crossing requests end in different keys** (`rotation_glare`). Both users press
  "Update key"; each page replaces its own request by the peer's
  (`processIncomingRequest`, rotation.js:488). One user rejects, which clears the page's single
  slot and with it the private half of its own request; the other accepts that request and switches
  keys, and the ACCEPT finds no saved key (rotation.js:622). Accepting would overwrite the slot as
  well (rotation.js:557).
* **Messages under way become unreadable** (`rotation_old_key`). `_activateNewKey`
  keeps no old key, and the label is read after the encryption.
* **Nothing times out** (`rotation_expiry`). No code sends `ROTATION_TIMEOUT`.
* **A replaced socket takes its successor along** (`connections_replaced`). Two open
  chat windows of one user, also of different dialogs, take each other off for ever: each
  registration closes the other window's socket, whose handler then removes the new one.
  `Settles` is therefore only claimed once a single window is left.
* **A rejection counts as often as it is repeated** (`invites_rejections`). `reject_invite`
  looks up the sender of an invite in any status and records a rejection each time
  (invite.py:431): a second press, another tab, or an invite that was revoked.
* **A recovery link never changes a password** (`recovery_reset`). `reset_password()` gives
  `change_password()` an empty old password, for which `verify_password()` raises `ValueError`
  (common/crypto/hash.py:45) before it looks at the stored hash.

Also seen while modelling. They are stated in the modules, as the behaviour of the code, and no
run claims otherwise.

* *Documents.* The comment of `_update_block_level` (spam_protection.py:142-146) lets a second
  block after an expired one be level 1 again, the code makes it level 2; the documents activate
  the responder's key at step 10, after CONFIRM (docs/ARCHITECTURE.md:120, docs/CRYPTO.md:56), the
  code in `accept()` (rotation.js:575-579).
* *Messages.* `save_message_with_lrp` does not exist (message_sender.py:74,
  message_receiver.py:141), so sending over HTTP always fails after the dialog was cached. The page
  knows neither `new_message`, which pushes what came while the user was offline, nor
  `message_delivered`; nothing sets the flag `delivered`. Messages that a page got from the history
  are never reported as read, so they stay in the count of unread ones, and so do the messages of
  rotations. A message is shown as sent when the socket was lost while it was encrypted.
* *Padding.* An answer of the history carries no padding size, so a padded text never opens from it
  (`PaddedStaysClosed`); `client/crypto` pads by bytes and `ClientCrypto` by characters, so their
  paddings differ for other than ASCII texts, although each opens the other's. The chat screen that
  uses them cannot be mounted, as its app has no `public_id`.
* *Invites.* In a process that did not withdraw it an invite is accepted from memory whatever its
  status in the table; see section 3.
* *Accounts.* `change_password()` changes one of the two accounts of a phrase. A process that ends
  between the two rows leaves a phrase without the server's client for good. A login as a server
  keeps its key under `None`; a logout removes the key for the user's other browsers. Registration over the API does not sign the charter, on the page signing may
  fail without notice (web/auth.py:81-96), and nothing compares the version that was signed.
* *Registry.* The server list shows an empty address for rows of another key. A peer whose
  connecting was cut stays "connecting". The queue of synchronisation is never drained.
* *Directory, map, proxy.* The load balancer is instantiated by no code, nor is the proxy's clean-up
  called; the API shows a daily limit of 0 as none. An invite that never expires has `expires_at` 0 and is cleaned
  up as long expired.
* *Processes.* A web client that was stopped cannot be started again, and one that ended by itself
  is not noticed.
* *Callers.* Some of the code is called by the tests alone, and is modelled as it is written:
  `POST /system`, `POST /delivered`, `receive_message()` and the V3 handlers have no caller in the
  running program; nor have the writers of the network map (`add_node()`, `update_heartbeat()`,
  `start_monitor()` and the rest); `RendezvousManager` is instantiated by tests only
  (server/api/main.py:400 sets it to `None`), and so is `ProxyServer`, so that
  `handle_proxy_request()` serves no one.
* *Files.* A packet that comes again after its file was put together begins another entry, which
  stays. `add_packet()` does not check that a sequence number is in range; `Files` has only packets
  of the message, and with others "every packet" could be counted from wrong ones.

## 5. Proofs

A proof module extends the modules of the components it is about. An inductive invariant is a
conjunction of named parts, there is one lemma per action, and the last theorem of each chain
combines them. Every theorem is of the module's own specification and for all values of its
constants, the number of server processes included; the bounds of section 3 play no part, except
where a hypothesis below says so.
`ComponentsProofs` extends the proofs of the other components and is of their composition.

### The key rotation of the pages

**Keys and types** (`KeyRotationProofs`): `[]TypeOK`, `[]KeyOrigin`, `[]WaitingHoldsSecret`.
`KeyOrigin` is not inductive: that the key `ConfirmDerived` switches to is one both sides
derive depends on the ACCEPT it answers, on the private half found in the slot, and on the
request the ACCEPT answered. `IInv` therefore says of every message in the log, the sockets
and the queues that a request names its own pair and an ACCEPT a request of the other
side with a pair of its sender (`WellFormed`); of what waits in `sending` and `deriving` that it
carries such keys; of the slot that it holds an own pair, and for a rotation the page asked
for exactly the pair of the request (`SlotOK`); and of a page in status REQUEST that
its private half is that pair (`RotOK`). The exception
in `KeyOrigin` (a reloaded page may use a key made of pairs of its own) is what
`restoreStateFromMessages` does after an own ACCEPT, not a weakness of the proof.
`WaitingHoldsSecret` is inductive with the types alone: the slot is written in the step in which a
page begins to wait, a handler adopts a rotation only if the slot has its secret, and a reload
forgets an expired secret and the wait for it together.

**The history** (`KeyRotationHistoryProofs`), over `IInv`:

* `[]StoredInOrder`. The stored messages are in order because nothing can be about to be stored too
  early: whatever a page derives, sends or queues answers something that is stored, and so does
  what is on its way to a page or is shown to its user (`PageFollows`). Reloads keep this, as they
  read the history and begin nothing by themselves.
* `[]SameRotationSameKey`. A key of a rotation is *claimed* by a page that uses it, by a handler
  that is deriving or sending it, and by an ACCEPT, queued or on its way, from which the other side
  will derive it. `ClaimInv`: while no page was reloaded, all claims to a rotation are of one key.
  It is kept because only a request that is shown to the user can be answered, such a request has
  been seen and is claimed by no one but the handler that answers it (`PendingOnce`), and the
  duplicate filter shows it once. The property itself says "while no page was reloaded"; it is
  false after a reload, which draws another pair for the same request.
* `[]OneAnswer` (`RequestsAreAnsweredOnce`), with reloads and any number of interleaved handlers. A
  second answer needs that the request is put to the user again after the first is stored, which
  a reloaded page does only if it cannot read that one: it was encrypted with another key than the
  one on its label (`Counts`). `OnceInv`: what handlers and queues of a page hold was not told before
  in a message that counts (`Kept`), handlers under way answer different requests (`Apart`), a
  request on show was not answered or is known to be (`MayAnswer`), and one that is yet to be shown
  was answered nowhere (`Unasked`).
* `[]QuietAgreement`, when there is no reload and no user begins a rotation while the other page
  waits in one it began (`TakingTurns`, a hypothesis of `TurnsKeepPagesAgreed` on every step).
  `Course` describes the whole exchange: at most one system message is in play, in a handler, a
  queue or a socket; which one it is says how far the rotation is, what each page waits for, and
  whether the keys are the same or one step apart. Where it is lost, rejected or left to expire
  while the keys differ, the initiator is left waiting, so pages that are done have one key. Both
  users may begin rotations: the roles are those of the rotation under way (`TurnInv`), and can swap
  whenever nobody waits in one, because the keys are the same then and nothing is on its way. What
  the property cannot bear is that requests cross: `rotation_glare`, where both users press the
  button at once, violates it, and so does a reload, after which a page starts with the server's
  key. That one user alone begins rotations is a case of it (`QuietPagesAgree`).
* `[]NeverStuck` under the same hypotheses (`FaultlessNeverStuck`), and for one user who begins them
  (`OneInitiatorNeverStuck`): without a loss, a cut or an expiry, two pages without a handler or a
  message under way are both done and use the key of the last rotation that was accepted, or one of
  them asks its user. It is the safety side of `AcceptedCompletes`, which TLC checks on a small
  instance with fairness: what is under way is worked off by the handlers, and what then remains is
  no rotation half done. A message is of use only if it comes to a page that waits for it, was not
  seen before and can be opened, so the invariant says so of each one (`Track`): sockets are open and
  queues empty, what is derived, encrypted or on its way is encrypted with the key of the page
  it is for, that page waits in the rotation it names (`InitiatorHeard`, `ResponderReady`,
  `ResponderHeard`), and when nothing is under way nobody waits. That no page has seen it before needs
  that identifiers of rotations are only of those begun (`NamedInv`); `LastKey` ties the responder's
  key to the last ACCEPT of the history. Each fault breaks it, as `Faultless` must say: a lost CONFIRM
  leaves the initiator waiting for good.
* `Handover!Spec`, when one user alone begins rotations and there is no reload
  (`RotationHandsKeysOver`): the responder's key is `offered`, the initiator's `taken`. A new key is
  offered only when both use the same one, and the initiator switches to no key but the one offered.
  So the two are never more than one rotation apart, which is what one lost CONFIRM or ACCEPT can
  cost. TLC confirms the refinement on the instance of `rotation_one_way`, and refutes it there with
  one reload allowed.

### The server's connections and processes

`ConnectionsProofs` proves `[]TypeOK` and `[]OpenIsRegistered` for any number of windows, sockets
and senders; with the type invariant it is inductive: each action that changes the registration
closes the socket that leaves it.

`ServerProofs` is of what a server keeps. Of `Processes`, `[]ClientsOwned` needs that every listed
client, stopped or not, has its port for itself (`PortsHeld`), since a port is given back only with
the entry. `[]OneServer` needs where the one thread that has not ended is: it is the manager's
(`OneThread`), before its child there is no server and no claim of one (`BegunAlone`), and after it
the manager holds that child (`SpawnedOwn`).

Of `Registry`, `[]RowsReadable` needs that the key in `.env` is the only one made, processes have it
or none, and every row was written with it (`OneKey`), as long as every key could be saved and no
web client was started in the run that made it; those two ways to lose it are part of the property.

Of `ProxyClients`, `[]OvershootBounded` and `[]InviteOnce`. The bound is on traffic plus what may
still be answered to requests upstream, against the highest limit the client has had
(`MostIsHighest`), because the owner may lower a limit below what was used; that sum grows only in
`Forward`, which checks the limit. `InviteOnce` needs that what was redeemed to the end is used
(`RedeemedIsUsed`) and that ids of clients come from redemptions (`ClientsIssued`).

### The network

`NetworkProofs` proves of `NetworkMap` `[]MapStored`, `BeatingStays` and the refinement
`TableLeases`. The invariant adds to `MapStored` that a node's expiry in the
table is its last heartbeat plus its lifetime (`TableFollowsAlive`), which is what makes a step
of the map a step of `Leases`: adding a known node, saving it again and reading the table after a
restart must all leave the lease what it was.

Of `Directory`, `[]ToldWereAlive` needs that an entry lasts no longer than a lifetime from the last
beat (`StoreFollowsBeats`) and that answers were of active servers when they were given
(`AnswersWereActive`); `[]OwnEntryCurrent` that a server has one entry (`OneEntryEach`) and that the
answer about oneself names no one else (`OwnAnswerIsOwn`). The refinement `StoreLeases` follows from
`OneEntryEach`: what is put replaces the one entry of a server, and a clean-up takes those whose
time has passed. `ListingsLast` is what a reader wants of it: no step takes a server whose lifetime
is not over off the list, but the end of the process.

Of `Trust`, `[]AllowancePaid`, `BlockOutlivesTraffic`, `OffenderStaysOut` and `[]GossipOnce`. A row
that is replaced or reset grants its allowance anew; `Budget` therefore compares what was granted on
a date with the allowances given back, plus what the counters of a row in quarantine show, or one
allowance for any other row, whose counters may be of another quarantine.
`GossipOnce` needs that whatever was handled has left its nonce (`AppliedKept`).

### Invites, accounts, messages

`InvitesProofs` proves for any processes, users, bounds, limits and durations of whole days
`[]TypeOK`, `[]OneLiveInvite`, `[]ContactsShareKey`, `[]BlocksEarned` and `WithdrawnIsFinal`.
`WithdrawnIsFinal` needs that the process which withdrew an invite last neither remembers it nor is
accepting it (`WithdrawerLetsGo`): an accept trusts the memory and writes the table. With one process a withdrawn invite is withdrawn for good (`OneProcessWithdrawsForGood`).
`OneLiveInvite` needs the same of what senders under way have seen (`SendersLooked`).
`ContactsShareKey` needs that senders and accepters have accounts (`UsersHaveAccounts`), since a
contact is only added for a user who has one, that a half-written dialog holds the key of those who
write it (`HalvesAgree`), and what an accepting handler has written so far (`Written`). `BlocksEarned`
needs the stronger invariant on a record that the count of the day was spent on no block but one
that outlasts the day (`Earned`, proved first of the operators on records), also of the records that
handlers are about to save over others: blocks last whole days, so when one ends the count it was
made of has been reset.

Of `Accounts`, `ServerProofs` proves `[]WindowsLimited` and `[]PhraseRegistersOnce`. The latter needs
that a phrase which no two processes registered at once is being registered by one at most and has
only the rows which that registration has inserted (`Uncontested`). The limiter
forgets old time stamps at each use, and the property is about every window of the past: `WindowInv`
says that the list is the past wherever it still counts, and that the past keeps within the limit in
every window, those that end in the future included. The number of stamps in a window is a
cardinality, whose growth by one is proved from the theorems on finite sets. Of `Sessions` it proves
`[]SessionKeyOwned`, over the invariant of the accounts: a key can only be made of an account's
phrase, and accounts are only added. Of `Contacts` it proves
`[]ContactsTypeOK`, whose last part says that the lists never show the user: no row of the user
exists, and none is in the hands of a request that is about to put it back.

`MessagesProofs` proves `[]ReportedIsRead` for any number of messages. It needs that whatever reached
a page, a report or the table is past its INSERT (`StoreComesFirst`), for only then no later INSERT
OR REPLACE can make it unread; the mutant that forwards first breaks just that. `[]FilesWhole` needs
that packets are among those that were sent (`PacketsNumbered`), since the code only counts them.
Of `Padding` it proves what holds of the operators for every text, size and counter (`RoundTrip`,
`PaddedStaysClosed`, `FormatsAgree`, with the range of a padding as a lemma) and of the chat
screen (`PaddingTypeOK`, `LatestOpens`).

### The rotation of the Python clients

`MessagesProofs` proves `[]V3TypeOK`, `[]WaitsForKnown` and `[]ConfirmedAgree` for any number of
rotations, acceptances, restarts and deletions. The invariant of `WaitsForKnown` drops "in memory"
from the property (`Held`),
because a row is used again as it is, and adds that a manager which has not used the dialog knows
no rotation of it (`Unused3`), because only then a rotation that is dropped need not be rolled back
in a row that is not in memory. `ConfirmedAgree` speaks of histories in which every acceptance was
confirmed, and must be proved of those in which some are not yet, or never will be. `OrderInv`: a
user waits for one rotation at most (`OneLive`); what was accepted and is waited for is of one user
(`OneWay`), so two rotations cannot be confirmed across each other; an ACCEPT is used up once
(`ConfirmedOnce`); so that either an acceptance is lost for good, which the property excludes, or
the one who accepted has the new key and the other will take it (`Converging`).

### The components side by side

`ComponentsProofs` proves `[]ComponentsTypeOK` of `MCComponents` itself, the composition TLC runs.
`PartsInv` says that the part that runs keeps the inductive invariant proved of its component
(`PartsInvariance`): a step of the composition is one of that component or leaves its variables and
its clock alone (`StepOfPart`), whatever bounds `MCComponents` adds. So what a part does in an
instance is a behaviour of the specification its theorems are about.

### Assumptions and what is only model-checked

The assumptions are those of the `ASSUME`s: the two clients differ, `None` is no pair, socket
or window, bounds, durations and limits are natural numbers, other senders are not sockets, at
least one rejection blocks, blocks last at least a day, two users are of a V3 dialog, every
message of a dialog has a writer, a least padding is more than none, the servers and clients a
database can know are finitely many. The ciphers are taken as
perfect, as in the models.

Every safety invariant and action property of the passing runs is stated by a theorem, one of them
with a hypothesis that it needs and that is named above: `QuietAgreement` without reloads and
crossing requests. Beyond it the property is false, and `rotation_glare` shows where. `NeverStuck` is stated in `KeyRotationHistoryProofs` and proved, and is a property
of no run. Only model-checked are the liveness properties `AcceptedCompletes`, `GhostEnds` and
`Settles`: fairness is beyond the prover.

## 6. Abstractions that hide something

* *The history is not limited.* A page loads the newest 50 messages (messages.py:113), so in a busy
  dialog a reload does not find the REQUEST or the ACCEPT. `KeyRotation` loads all of it; a limit
  would multiply its states by the texts between the messages of a rotation.
* *A page has one dialog.* `handleMessage()` compares the sender with nothing (core.js:180), and
  the server has one connection per user, so messages of another dialog of the same user reach the
  page as if they were of its own. A second peer squares the state of `KeyRotation`.
* *The duplicate filter forgets nothing.* Of 100 entries the page forgets 50 (system.js:42), the
  Python client arbitrary ones.
* *Processes share tables only.* `Invites`, `Accounts`, `Sessions`, `Registry` and `Contacts` have
  several processes; the sockets, the rate windows, the nonces of gossip, the uploaded files and the
  V3 managers are of one, since they are in its memory, but the tables of trust, proxy and messages
  are shared as well. Of them a statement is one step, so two processes would add only what
  comes between the statements of one method.
* *One server.* Gossip and peers are seen from one server; what crosses between two is a message
  that may come, or come again, at any time.

## 7. Not modelled

Trust voting is a stub (README.md:61-64), and so are the public keys of gossip, for which the
tests' directory stands in; the metrics the load balancer reads are the host's; mDNS and GeoIP are
calls of external libraries; the charter is a signed text, of which only who signed it matters;
storage is modelled by its use, a table being a set or a function and a call a transaction;
`server/api/main.py`, pages and TUI are wiring and presentation; the ciphers and the derivation of
keys are taken as perfect, and so is what is made from them, as ids, tokens and signatures.
`web/chat/websocket.py`, `server/proxy/invite_manager.py` and `server/proxy/traffic_manager.py`
are not reached by the program, and `client/messaging/dialog_state.py` keeps a state machine that
nothing asks.
