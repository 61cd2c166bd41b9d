------------------------------ MODULE Contacts ------------------------------
(***************************************************************************)
(* The contacts of one user, the dialogs they are shown by, and the        *)
(* phrases of a chat page.  A contact is a row under a key of the user,    *)
(* written whole: a request reads it, and puts it back with a field        *)
(* changed.  Every server process has the same database (main.py and the   *)
(* web clients it starts), and within a process nothing is awaited between *)
(* the two, so that only requests of different processes cross.            *)
(*                                                                         *)
(* A public id is what the program asks of it: well-formed, of a server,   *)
(* and with the counter of a collision or without.  Names are those that   *)
(* are accepted.  When a contact was added is left out.                    *)
(***************************************************************************)
EXTENDS Naturals

CONSTANTS
    PublicIds,         \* records of wellFormed, server, counted
    Me,                \* the user's own id
    Chatted,           \* bound: whose chat page is given a phrase
    Names,
    DefaultName,
    ContactProcesses,  \* server processes over the database
    NoContact          \* a model value

ASSUME ContactsAssumption ==
    /\ PublicIds \subseteq [wellFormed : BOOLEAN, server : BOOLEAN, counted : BOOLEAN]
    /\ Me \in PublicIds /\ DefaultName \in Names /\ Chatted \subseteq PublicIds

VARIABLES
    contact,      \* ContactsStorage: a row, or none
    putting,      \* of a process: the row it is about to put
    partners,     \* table dialogs: who the user has a dialog with
    chatPhrases   \* _phrases of ChatConnectionManager, in a process

contactVars == <<contact, putting, partners, chatPhrases>>

Contact == [name : Names, phrase : BOOLEAN]
NoPut == [id |-> Me, row |-> NoContact]

\* The suffix of a server is looked for at the end, where the counter is.
IsServerId(id) == id.wellFormed /\ id.server /\ ~id.counted
IsClientId(id) == id.wellFormed /\ ~IsServerId(id)

ContactsInit ==
    /\ contact = [id \in PublicIds |-> NoContact]
    /\ putting = [p \in ContactProcesses |-> NoPut]
    /\ partners = {}
    /\ chatPhrases = [p \in ContactProcesses |-> {}]

Idle(p) == putting[p] = NoPut
IsContact(id) == contact[id] # NoContact

\* What the request is going to put, from what it has read.
WillPut(p, id, row) ==
    /\ Idle(p)
    /\ putting' = [putting EXCEPT ![p] = [id |-> id, row |-> row]]
    /\ UNCHANGED <<contact, partners, chatPhrases>>

NewContact(name) == [name |-> name, phrase |-> FALSE]
Renamed(row, name) == [row EXCEPT !.name = name]
WithPhrase(row, set) == [row EXCEPT !.phrase = set]

\* POST /api/contacts.
MayAdd(id) == id # Me /\ IsClientId(id)
AddContact(p, id, name) ==
    MayAdd(id) /\ ~IsContact(id) /\ WillPut(p, id, NewContact(name))

\* PATCH /api/contacts/{id}, or /api/web/contacts/{id}/name.
UpdateName(p, id, name) == IsContact(id) /\ WillPut(p, id, Renamed(contact[id], name))

\* POST or DELETE /api/contacts/{id}/phrase.
SetPhraseHash(p, id, set) == IsContact(id) /\ WillPut(p, id, WithPhrase(contact[id], set))

\* A contact that was deleted since comes back, a change since is lost.
PutContact(p) ==
    /\ ~Idle(p)
    /\ contact' = [contact EXCEPT ![putting[p].id] = putting[p].row]
    /\ putting' = [putting EXCEPT ![p] = NoPut]
    /\ UNCHANGED <<partners, chatPhrases>>

\* The dialog with it stays.
DeleteContact(id) ==
    /\ IsContact(id)
    /\ contact' = [contact EXCEPT ![id] = NoContact]
    /\ UNCHANGED <<putting, partners, chatPhrases>>

\* An accepted invite of the two (module Invites) makes the dialog, then the
\* contact if it is not there, named after its id.
GainDialog(id) ==
    /\ id # Me /\ IsClientId(id)
    /\ partners' = partners \union {id}
    /\ contact' = [contact EXCEPT ![id] =
                     IF IsContact(id) THEN @ ELSE NewContact(DefaultName)]
    /\ UNCHANGED <<putting, chatPhrases>>

\* The phrase of a chat page, which the contact knows nothing of.
SaveChatPhrase(p, id) ==
    /\ chatPhrases' = [chatPhrases EXCEPT ![p] = @ \union {id}]
    /\ UNCHANGED <<contact, putting, partners>>

ClearChatPhrase(p, id) ==
    /\ chatPhrases' = [chatPhrases EXCEPT ![p] = @ \ {id}]
    /\ UNCHANGED <<contact, putting, partners>>

ContactsRestart(p) ==
    /\ putting' = [putting EXCEPT ![p] = NoPut]
    /\ chatPhrases' = [chatPhrases EXCEPT ![p] = {}]
    /\ UNCHANGED <<contact, partners>>

-----------------------------------------------------------------------------
(* What is shown: on the web page the partners of dialogs, with what their  *)
(* contact says; in the API the contacts, and the partners by id alone.     *)

Shown(id, phrase) == [id |-> id, phraseKnown |-> phrase]

Partners == partners \ {Me}
WebContacts == {Shown(id, IsContact(id) /\ contact[id].phrase) : id \in Partners}
ApiContacts == {Shown(id, contact[id].phrase) : id \in {i \in PublicIds : IsContact(i)}}
ApiDialogs == {Shown(id, FALSE) : id \in Partners}

ContactsNext ==
    \/ \E p \in ContactProcesses, id \in PublicIds :
          \/ \E name \in Names : AddContact(p, id, name) \/ UpdateName(p, id, name)
          \/ \E set \in BOOLEAN : SetPhraseHash(p, id, set)
    \/ \E id \in PublicIds : DeleteContact(id) \/ GainDialog(id)
    \/ \E p \in ContactProcesses :
          \/ PutContact(p)
          \/ ContactsRestart(p)
          \/ \E id \in Chatted : SaveChatPhrase(p, id) \/ ClearChatPhrase(p, id)

ContactsSpec == ContactsInit /\ [][ContactsNext]_contactVars

-----------------------------------------------------------------------------
ContactsTypeOK ==
    /\ contact \in [PublicIds -> Contact \union {NoContact}]
    /\ putting \in [ContactProcesses ->
          [id : PublicIds, row : Contact] \union {NoPut}]
    /\ partners \subseteq PublicIds
    /\ chatPhrases \in [ContactProcesses -> SUBSET PublicIds]
    /\ \A shown \in WebContacts \union ApiContacts \union ApiDialogs : shown.id # Me
=============================================================================
