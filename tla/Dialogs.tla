------------------------------ MODULE Dialogs ------------------------------
(***************************************************************************)
(* The messages of a dialog between its two pages and the table messages:  *)
(* relay, history, read reports and deletions.  _handle_message() stores a *)
(* message and forwards it to the page of the recipient if there is one;   *)
(* it awaits the send, and the page may report a message as read before    *)
(* the handler goes on.  Messages of the key rotation are like any other   *)
(* here.                                                                   *)
(*                                                                         *)
(* What a message says, the limit of a history page and the sockets        *)
(* themselves (module Connections) are left out.  The page knows neither   *)
(* new_message, the unread messages that the server pushes when a page     *)
(* connects, nor message_delivered, its answer to the sender, so both      *)
(* change nothing.  Nothing that runs sets the flag delivered.  A server   *)
(* that ends in a handler does what a failing save and pages that close    *)
(* do.                                                                     *)
(***************************************************************************)
EXTENDS Naturals, Sequences

CONSTANTS
    Talkers,      \* the two users of the dialog
    Mails,        \* message ids
    MailFrom      \* who writes the message of an id

ASSUME DialogsAssumption == MailFrom \in [Mails -> Talkers]

VARIABLES
    row,          \* table messages: an id is absent, or its flag read
    handler,      \* how far _handle_message() is with an id: 0 is not begun
    open,         \* users whose page is connected
    arriving,     \* on their way to the page
    shown,        \* in the list of a user's page
    reports,      \* POST /read on their way
    reported      \* history: ids the server has been told are read

dialogVars == <<row, handler, open, arriving, shown, reports, reported>>

To(m) == CHOOSE u \in Talkers : u # MailFrom[m]
Stored(m) == row[m] # "absent"

\* get_dialog() and get_unread(), and what the list of dialogs makes of them:
\* it shows how many messages are unread.
History == {m \in Mails : Stored(m)}
Unread(u) == {m \in Mails : To(m) = u /\ row[m] = "unread"}
DialogInfo(u) == [empty |-> History = {}, unread |-> Unread(u), online |-> open \ {u} # {}]

DialogsInit ==
    /\ row = [m \in Mails |-> "absent"]
    /\ handler = [m \in Mails |-> 0]
    /\ open = {} /\ arriving = {} /\ reports = {} /\ reported = {}
    /\ shown = [u \in Talkers |-> {}]

\* The steps of _handle_message(); the mutant forwards first.
Steps_mut == <<"forward", "store", "done">>
Steps == <<"store", "forward", "done">>

-----------------------------------------------------------------------------
(* Pages.                                                                   *)

\* A page that opens connects before it loads the history.
OpenPage(u) ==
    /\ u \notin open
    /\ open' = open \union {u}
    /\ UNCHANGED <<row, handler, arriving, shown, reports, reported>>

\* loadMessages() clears the list, then and when the page loads it again;
\* nothing of the history is reported as read.
LoadMessages(u) ==
    /\ u \in open
    /\ shown' = [shown EXCEPT ![u] = History]
    /\ UNCHANGED <<row, handler, open, arriving, reports, reported>>

\* What was on its way to the page is lost; a report it has sent is not.
ClosePage(u) ==
    /\ u \in open
    /\ open' = open \ {u}
    /\ shown' = [shown EXCEPT ![u] = {}]
    /\ arriving' = {m \in arriving : To(m) # u}
    /\ UNCHANGED <<row, handler, reports, reported>>

\* It is shown as sent, also when the socket was lost while the page encrypted
\* it and it never reaches the server.
SendMail(m, lost) ==
    /\ handler[m] = 0 /\ MailFrom[m] \in open
    /\ handler' = [handler EXCEPT ![m] = IF lost THEN Len(Steps) ELSE 1]
    /\ shown' = [shown EXCEPT ![MailFrom[m]] = @ \union {m}]
    /\ UNCHANGED <<row, open, arriving, reports, reported>>

\* handleMessage(): a message that is in the list already is ignored; another
\* is reported as read if the window has the focus.
Arrive(m) ==
    /\ m \in arriving
    /\ arriving' = arriving \ {m}
    /\ IF m \in shown[To(m)]
       THEN UNCHANGED <<shown, reports>>
       ELSE /\ shown' = [shown EXCEPT ![To(m)] = @ \union {m}]
            /\ reports' \in {reports, reports \union {m}}
    /\ UNCHANGED <<row, handler, open, reported>>

-----------------------------------------------------------------------------
(* _handle_message(), a step at a time.                                     *)

At(m, step) == handler[m] # 0 /\ Steps[handler[m]] = step
Proceed(m) == handler' = [handler EXCEPT ![m] = @ + 1]

\* INSERT OR REPLACE; an error is logged, and the message is forwarded.
StoreMessage(m, fails) ==
    /\ At(m, "store")
    /\ row' = IF fails THEN row ELSE [row EXCEPT ![m] = "unread"]
    /\ Proceed(m)
    /\ UNCHANGED <<open, arriving, shown, reports, reported>>

ForwardMessage(m) ==
    /\ At(m, "forward")
    /\ arriving' = IF To(m) \in open THEN arriving \union {m} ELSE arriving
    /\ Proceed(m)
    /\ UNCHANGED <<row, open, shown, reports, reported>>

-----------------------------------------------------------------------------
(* Endpoints under /api/messages.  None asks whose message it is.           *)

SetRead(S) == row' = [m \in Mails |-> IF m \in S /\ Stored(m) THEN "read" ELSE row[m]]

\* A report of a message that is not stored is answered 404, which the page
\* ignores.
MarkRead(m) ==
    /\ m \in reports
    /\ reports' = reports \ {m}
    /\ SetRead({m})
    /\ reported' = reported \union {m}
    /\ UNCHANGED <<handler, open, arriving, shown>>

LoseReport(m) ==
    /\ m \in reports
    /\ reports' = reports \ {m}
    /\ UNCHANGED <<row, handler, open, arriving, shown, reported>>

MarkAllRead(u) ==
    /\ SetRead({m \in Mails : To(m) = u})
    /\ reported' = reported \union {m \in Mails : To(m) = u /\ Stored(m)}
    /\ UNCHANGED <<handler, open, arriving, shown, reports>>

DeleteRows(S) ==
    /\ row' = [m \in Mails |-> IF m \in S THEN "absent" ELSE row[m]]
    /\ UNCHANGED <<handler, open, arriving, shown, reports, reported>>

\* POST /system: stored as read, and forwarded to no one.
SaveSystemMessage(m) ==
    /\ handler[m] = 0
    /\ handler' = [handler EXCEPT ![m] = Len(Steps)]
    /\ row' = [row EXCEPT ![m] = "read"]
    /\ UNCHANGED <<open, arriving, shown, reports, reported>>

DeleteMessage(m) == Stored(m) /\ DeleteRows({m})
DeleteConversation == DeleteRows(Mails)

DialogsNext ==
    \/ \E u \in Talkers :
          \/ OpenPage(u)
          \/ LoadMessages(u)
          \/ ClosePage(u)
          \/ MarkAllRead(u)
    \/ \E m \in Mails :
          \/ \E lost \in BOOLEAN : SendMail(m, lost)
          \/ Arrive(m)
          \/ \E fails \in BOOLEAN : StoreMessage(m, fails)
          \/ ForwardMessage(m)
          \/ MarkRead(m)
          \/ LoseReport(m)
          \/ SaveSystemMessage(m)
          \/ DeleteMessage(m)
    \/ DeleteConversation

DialogsSpec == DialogsInit /\ [][DialogsNext]_dialogVars

-----------------------------------------------------------------------------
DialogsTypeOK ==
    /\ row \in [Mails -> {"absent", "unread", "read"}]
    /\ handler \in [Mails -> 0..Len(Steps)]
    /\ open \subseteq Talkers
    /\ shown \in [Talkers -> SUBSET Mails]
    /\ \A S \in {arriving, reports, reported} : S \subseteq Mails

\* A message the server has been told is read is not unread again, nor counted
\* as such in the list of dialogs, though the report may come while the handler
\* of the message is still at work and the message may be deleted in between.
ReportedIsRead == \A u \in Talkers : DialogInfo(u).unread \intersect reported = {}
=============================================================================
