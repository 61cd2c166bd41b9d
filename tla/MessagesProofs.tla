-------------------------- MODULE MessagesProofs ----------------------------
(*****************************************************************************)
(* What holds of the messages of a dialog, its files and its paddings, and   *)
(* of the rotation of its keys between Python clients, for any users,        *)
(* messages and bounds.                                                      *)
(*****************************************************************************)
EXTENDS Dialogs, Files, Padding, RotationV3, FiniteSetTheorems, TLAPS

-----------------------------------------------------------------------------
(* Dialogs. *)

(* The handler of m is past the INSERT, or never came to it. *)
PastStore(m) == handler[m] \in 2..3

(* What a page has got, has reported or is told of in the table was first
   stored, or its INSERT has failed: it cannot become unread once more. *)
StoreComesFirst ==
    /\ \A m \in arriving \union reports \union reported : PastStore(m)
    /\ \A m \in Mails : Stored(m) => PastStore(m)

(* What the server was told is read has no unread row. *)
ReportedNotUnread == \A m \in reported : row[m] # "unread"

(* The inductive invariant of the messages of a dialog. *)
DialogsInv == DialogsTypeOK /\ StoreComesFirst /\ ReportedNotUnread

(* The steps of the handler by their numbers. *)
LEMMA StepNumbers ==
  ASSUME DialogsTypeOK, NEW m \in Mails
  PROVE  /\ Len(Steps) = 3
         /\ At(m, "store") <=> handler[m] = 1
         /\ At(m, "forward") <=> handler[m] = 2
  <1>1. Steps = <<"store", "forward", "done">>
    BY DEF Steps
  <1>2. Len(Steps) = 3 /\ Steps[1] = "store" /\ Steps[2] = "forward" /\ Steps[3] = "done"
    BY <1>1
  <1>3. handler[m] \in {0, 1, 2, 3}
    BY <1>2 DEF DialogsTypeOK
  <1> QED
    BY <1>2, <1>3 DEF At

LEMMA ThreeSteps == Len(Steps) = 3
  BY DEF Steps

LEMMA DialogsInvInit == DialogsInit => DialogsInv
  <1> SUFFICES ASSUME DialogsInit
               PROVE  DialogsInv
    OBVIOUS
  <1>1. DialogsTypeOK
    BY ThreeSteps DEF DialogsInit, DialogsTypeOK
  <1>2. StoreComesFirst /\ ReportedNotUnread
    BY DEF DialogsInit, StoreComesFirst, ReportedNotUnread, Stored
  <1> QED
    BY <1>1, <1>2 DEF DialogsInv

LEMMA DialogsInvStep == DialogsInv /\ [DialogsNext]_dialogVars => DialogsInv'
  <1> SUFFICES ASSUME DialogsInv, [DialogsNext]_dialogVars
               PROVE  DialogsInv'
    OBVIOUS
  <1> USE DEF DialogsInv
  <1>1. ASSUME NEW u \in Talkers, OpenPage(u)
        PROVE  DialogsInv'
    BY <1>1, ThreeSteps DEF OpenPage, DialogsTypeOK, StoreComesFirst, PastStore, Stored,
         ReportedNotUnread
  <1>2. ASSUME NEW u \in Talkers, LoadMessages(u)
        PROVE  DialogsInv'
    BY <1>2, ThreeSteps DEF LoadMessages, DialogsTypeOK, StoreComesFirst, PastStore, Stored,
         ReportedNotUnread, History
  <1>3. ASSUME NEW u \in Talkers, ClosePage(u)
        PROVE  DialogsInv'
    BY <1>3, ThreeSteps DEF ClosePage, DialogsTypeOK, StoreComesFirst, PastStore, Stored,
         ReportedNotUnread
  <1>4. ASSUME NEW u \in Talkers, MarkAllRead(u)
        PROVE  DialogsInv'
    <2>1. DialogsTypeOK'
      BY <1>4, ThreeSteps DEF MarkAllRead, SetRead, DialogsTypeOK
    <2>2. StoreComesFirst'
      BY <1>4 DEF MarkAllRead, SetRead, DialogsTypeOK, StoreComesFirst, PastStore, Stored
    <2>3. ReportedNotUnread'
      BY <1>4 DEF MarkAllRead, SetRead, DialogsTypeOK, ReportedNotUnread, Stored
    <2> QED
      BY <2>1, <2>2, <2>3
  <1>5. ASSUME NEW m \in Mails, NEW lost \in BOOLEAN, SendMail(m, lost)
        PROVE  DialogsInv'
    <2>1. handler' = [handler EXCEPT ![m] = IF lost THEN 3 ELSE 1] /\ handler[m] = 0
      BY <1>5, ThreeSteps DEF SendMail
    <2>2. DialogsTypeOK'
      BY <1>5, <2>1, ThreeSteps DEF SendMail, DialogsTypeOK
    <2>3. StoreComesFirst'
      BY <1>5, <2>1 DEF SendMail, DialogsTypeOK, StoreComesFirst, PastStore, Stored
    <2>4. ReportedNotUnread'
      BY <1>5 DEF SendMail, ReportedNotUnread
    <2> QED
      BY <2>2, <2>3, <2>4
  <1>6. ASSUME NEW m \in Mails, Arrive(m)
        PROVE  DialogsInv'
    <2>1. DialogsTypeOK'
      BY <1>6, ThreeSteps DEF Arrive, DialogsTypeOK
    <2>2. StoreComesFirst'
      BY <1>6 DEF Arrive, StoreComesFirst, PastStore, Stored
    <2>3. ReportedNotUnread'
      BY <1>6 DEF Arrive, ReportedNotUnread
    <2> QED
      BY <2>1, <2>2, <2>3
  <1>7. ASSUME NEW m \in Mails, NEW fails \in BOOLEAN, StoreMessage(m, fails)
        PROVE  DialogsInv'
    <2>1. handler[m] = 1 /\ handler' = [handler EXCEPT ![m] = 2]
      <3>1. At(m, "store") /\ handler' = [handler EXCEPT ![m] = handler[m] + 1]
        BY <1>7 DEF StoreMessage, Proceed
      <3>2. handler[m] = 1
        BY <3>1, StepNumbers
      <3> QED
        BY <3>1, <3>2
    <2>2. DialogsTypeOK'
      BY <1>7, <2>1, ThreeSteps DEF StoreMessage, DialogsTypeOK
    <2>3. StoreComesFirst'
      BY <1>7, <2>1 DEF StoreMessage, DialogsTypeOK, StoreComesFirst, PastStore, Stored
    <2>4. m \notin reported
      BY <2>1 DEF StoreComesFirst, PastStore
    <2>5. ReportedNotUnread'
      BY <1>7, <2>4 DEF StoreMessage, DialogsTypeOK, ReportedNotUnread
    <2> QED
      BY <2>2, <2>3, <2>5
  <1>8. ASSUME NEW m \in Mails, ForwardMessage(m)
        PROVE  DialogsInv'
    <2>1. handler[m] = 2 /\ handler' = [handler EXCEPT ![m] = 3]
      <3>1. At(m, "forward") /\ handler' = [handler EXCEPT ![m] = handler[m] + 1]
        BY <1>8 DEF ForwardMessage, Proceed
      <3>2. handler[m] = 2
        BY <3>1, StepNumbers
      <3> QED
        BY <3>1, <3>2
    <2>2. DialogsTypeOK'
      BY <1>8, <2>1, ThreeSteps DEF ForwardMessage, DialogsTypeOK
    <2>3. StoreComesFirst'
      BY <1>8, <2>1 DEF ForwardMessage, DialogsTypeOK, StoreComesFirst, PastStore, Stored
    <2>4. ReportedNotUnread'
      BY <1>8 DEF ForwardMessage, ReportedNotUnread
    <2> QED
      BY <2>2, <2>3, <2>4
  <1>9. ASSUME NEW m \in Mails, MarkRead(m)
        PROVE  DialogsInv'
    <2>1. DialogsTypeOK'
      BY <1>9, ThreeSteps DEF MarkRead, SetRead, DialogsTypeOK
    <2>2. StoreComesFirst'
      BY <1>9 DEF MarkRead, SetRead, DialogsTypeOK, StoreComesFirst, PastStore, Stored
    <2>3. ReportedNotUnread'
      BY <1>9 DEF MarkRead, SetRead, DialogsTypeOK, ReportedNotUnread, Stored
    <2> QED
      BY <2>1, <2>2, <2>3
  <1>10. ASSUME NEW m \in Mails, LoseReport(m)
         PROVE  DialogsInv'
    BY <1>10, ThreeSteps DEF LoseReport, DialogsTypeOK, StoreComesFirst, PastStore, Stored,
         ReportedNotUnread
  <1>11. ASSUME NEW m \in Mails, SaveSystemMessage(m)
         PROVE  DialogsInv'
    <2>1. handler' = [handler EXCEPT ![m] = 3]
      BY <1>11, ThreeSteps DEF SaveSystemMessage
    <2>2. DialogsTypeOK'
      BY <1>11, <2>1, ThreeSteps DEF SaveSystemMessage, DialogsTypeOK
    <2>3. StoreComesFirst'
      BY <1>11, <2>1 DEF SaveSystemMessage, DialogsTypeOK, StoreComesFirst, PastStore, Stored
    <2>4. ReportedNotUnread'
      BY <1>11 DEF SaveSystemMessage, DialogsTypeOK, ReportedNotUnread
    <2> QED
      BY <2>2, <2>3, <2>4
  <1>12. ASSUME NEW S \in SUBSET Mails, DeleteRows(S)
         PROVE  DialogsInv'
    <2>1. DialogsTypeOK'
      BY <1>12, ThreeSteps DEF DeleteRows, DialogsTypeOK
    <2>2. StoreComesFirst'
      BY <1>12 DEF DeleteRows, StoreComesFirst, PastStore, Stored
    <2>3. ReportedNotUnread'
      BY <1>12 DEF DeleteRows, DialogsTypeOK, ReportedNotUnread
    <2> QED
      BY <2>1, <2>2, <2>3
  <1>13. ASSUME NEW m \in Mails, DeleteMessage(m)
         PROVE  DialogsInv'
    <2>1. {m} \in SUBSET Mails
      OBVIOUS
    <2> QED
      BY <1>12, <1>13, <2>1 DEF DeleteMessage
  <1>14. CASE DeleteConversation
    <2>1. Mails \in SUBSET Mails
      OBVIOUS
    <2> QED
      BY <1>12, <1>14, <2>1 DEF DeleteConversation
  <1>15. CASE UNCHANGED dialogVars
    BY <1>15, ThreeSteps DEF dialogVars, DialogsTypeOK, StoreComesFirst, PastStore, Stored,
         ReportedNotUnread
  <1> QED
    BY <1>1, <1>2, <1>3, <1>4, <1>5, <1>6, <1>7, <1>8, <1>9, <1>10, <1>11, <1>13, <1>14,
       <1>15 DEF DialogsNext

(* The inductive invariant: what reached a page, a report or the table is past
   its INSERT, and what was reported is not unread. *)
THEOREM DialogsInvariance == DialogsSpec => []DialogsInv
  BY DialogsInvInit, DialogsInvStep, PTL DEF DialogsSpec

(* A message the server has been told is read is never unread again nor counted
   as such, for any number of messages, whatever the handlers, the pages and the
   deletions do in between. *)
THEOREM ReadStaysRead == DialogsSpec => []ReportedIsRead
  <1>1. DialogsInv => ReportedIsRead
    BY DEF DialogsInv, ReportedNotUnread, ReportedIsRead, DialogInfo, Unread
  <1> QED
    BY <1>1, DialogsInvariance, PTL

-----------------------------------------------------------------------------
(* Files. *)

(* The packets that came for a message are some of those it was sent in. *)
PacketsNumbered == packets \in [FileMessages -> SUBSET Nat] /\
                   \A m \in FileMessages : packets[m] \subseteq 1..Packets[m]

(* The inductive invariant of the files. *)
FilesInv == FilesTypeOK /\ PacketsNumbered /\ FilesWhole

(* As many different packets as were sent are all of them. *)
LEMMA CompleteIsAll ==
  ASSUME NEW m \in FileMessages, NEW came \in SUBSET (1..Packets[m]), Complete(m, came)
  PROVE  came = 1..Packets[m] /\ 1 \in came
  <1>1. Packets[m] \in Nat \ {0}
    BY FilesAssumption
  <1>2. IsFiniteSet(1..Packets[m]) /\ Cardinality(1..Packets[m]) = Packets[m]
    <2>1. 1 \in Int /\ Packets[m] \in Int /\ ~(1 > Packets[m])
      BY <1>1
    <2> QED
      BY <1>1, <2>1, FS_Interval
  <1>3. came = 1..Packets[m]
    BY <1>2, FS_Subset DEF Complete
  <1> QED
    BY <1>1, <1>3

LEMMA FilesInvInit == FilesInit => FilesInv
  BY DEF FilesInit, FilesInv, FilesTypeOK, PacketsNumbered, FilesWhole

LEMMA FilesInvStep == FilesInv /\ [FilesNext]_fileVars => FilesInv'
  <1> SUFFICES ASSUME FilesInv, [FilesNext]_fileVars
               PROVE  FilesInv'
    OBVIOUS
  <1> USE DEF FilesInv, FilesTypeOK, PacketsNumbered, FilesWhole
  <1>1. ASSUME NEW id \in FileIds, Upload(id)
        PROVE  FilesInv'
    BY <1>1 DEF Upload, NoMessage
  <1>2. ASSUME NEW id \in FileIds, NEW m \in FileMessages, NEW seq \in 1..Packets[m],
               AddPacket(m, seq, id)
        PROVE  FilesInv'
    <2> DEFINE came == packets[m] \union {seq}
    <2>1. came \in SUBSET (1..Packets[m]) /\ came \in SUBSET Nat
      OBVIOUS
    <2>2. CASE Complete(m, came)
      <3>1. packets' = [packets EXCEPT ![m] = {}]
        BY <1>2, <2>2 DEF AddPacket
      <3>2. came = 1..Packets[m] /\ 1 \in came
        BY <2>1, <2>2, CompleteIsAll
      <3> DEFINE f == [id |-> id, of |-> {m}, parts |-> came, named |-> 1 \in came]
      <3>3. files' = files \/ (m \notin Oversized /\ files' = files \union {f})
        BY <1>2, <2>2 DEF AddPacket
      <3>4. f.id = id /\ f.of = {m} /\ f.parts = 1..Packets[m] /\ f.named
        BY <3>2
      <3> HIDE DEF f
      <3>5. \A g \in files' : g.id \in FileIds /\ g.of \subseteq FileMessages
        BY <3>3, <3>4
      <3>6. FilesWhole'
        BY <3>3, <3>4
      <3> QED
        BY <3>1, <3>5, <3>6
    <2>3. CASE ~Complete(m, came)
      <3>1. packets' = [packets EXCEPT ![m] = came] /\ files' = files
        BY <1>2, <2>3 DEF AddPacket
      <3> QED
        BY <2>1, <3>1
    <2> QED
      BY <2>2, <2>3
  <1>3. ASSUME NEW f \in files, DeleteFile(f)
        PROVE  FilesInv'
    BY <1>3 DEF DeleteFile
  <1>4. CASE FilesRestart
    BY <1>4 DEF FilesRestart
  <1>5. CASE UNCHANGED fileVars
    BY <1>5 DEF fileVars
  <1> QED
    BY <1>1, <1>2, <1>3, <1>4, <1>5 DEF FilesNext

(* For any number of messages and packets: a file that is put together has each
   packet of its message, although the receiver only counts them, and its name,
   which the first packet brings. *)
THEOREM FilesAreWhole == FilesSpec => []FilesWhole
  <1>1. FilesInv => FilesWhole
    BY DEF FilesInv
  <1> QED
    BY <1>1, FilesInvInit, FilesInvStep, PTL DEF FilesSpec

-----------------------------------------------------------------------------
(* Padding. *)

(* A remainder is one of the residues. *)
LEMMA Residue == \A m \in Nat, n \in Nat \ {0} : m % n \in 0..(n - 1)
  OBVIOUS

(* The byte of a key that a counter chooses exists, whatever the counter. *)
LEMMA ByteExists ==
  ASSUME NEW d \in Directions, NEW count \in Nat
  PROVE  KeyByte[d][count % KeyLength] \in Nat
  <1>1. count % KeyLength \in 0..(KeyLength - 1)
    BY Residue, PaddingAssumption
  <1>2. KeyByte[d] \in [0..(KeyLength - 1) -> Nat]
    BY PaddingAssumption
  <1> QED
    BY <1>1, <1>2

(* calculate_padding_size(): nothing for a long text, and for any other at
   least PAD_MIN and at most PAD_MAX_LONG. *)
LEMMA PaddingRange ==
  ASSUME NEW d \in Directions, NEW count \in Nat, NEW chars \in Nat, NEW before \in Nat
  PROVE  LET padding == CalculatePaddingSize(d, count, chars, before)
         IN  /\ padding \in {0} \union PadMin..PadMax
             /\ chars <= LongText => padding \in PadMin..PadMax
  <1> DEFINE byte == KeyByte[d][count % KeyLength]
             limited == Limited(PadMin + Mixed(d, count, before) + Boost(chars))
  <1>1. byte \in Nat
    BY ByteExists
  <1>2. Mixed(d, count, before) \in Nat
    <2>1. before + byte \in Nat
      BY <1>1
    <2>2. Mixed(d, count, before) \in 0..(PadRange - 1)
      BY <2>1, Residue, PaddingAssumption DEF Mixed
    <2> QED
      BY <2>2, PaddingAssumption
  <1>3. Boost(chars) \in Nat
    BY PaddingAssumption DEF Boost
  <1>4. limited \in PadMin..PadMax
    BY <1>2, <1>3, PaddingAssumption DEF Limited, Less
  <1>5. CalculatePaddingSize(d, count, chars, before)
          = IF chars > LongText THEN 0 ELSE limited
    BY DEF CalculatePaddingSize
  <1>6. chars <= LongText => ~(chars > LongText)
    BY PaddingAssumption
  <1> HIDE DEF limited
  <1>7. CalculatePaddingSize(d, count, chars, before) \in {0} \union PadMin..PadMax
    BY <1>4, <1>5
  <1>8. chars <= LongText =>
          CalculatePaddingSize(d, count, chars, before) \in PadMin..PadMax
    BY <1>4, <1>5, <1>6
  <1> QED
    BY <1>7, <1>8

LEMMA SizeIsNat ==
  ASSUME NEW text \in Texts, NEW phrase
  PROVE  SealedSize(text, phrase) \in Nat
  BY PaddingAssumption DEF SealedSize, Salt, Nonce, Tag

(* What encrypt_message_with_padding() returns, a ciphertext that is longer by
   its padding. *)
LEMMA PaddedSize ==
  ASSUME NEW d, NEW text \in Texts, NEW phrase, NEW padding \in Nat
  PROVE  EncryptWithPadding(d, text, phrase, padding)
           = [key |-> d, phrase |-> phrase, text |-> text,
              size |-> SealedSize(text, phrase) + padding]
  BY SizeIsNat DEF EncryptWithPadding, EncryptMessage, AddPadding, Most

(* decrypt_message_with_padding() gives the text back, for every text, phrase
   and padding, to the one who has the padding's size. *)
THEOREM RoundTrip ==
  ASSUME NEW d \in Directions, NEW text \in Texts,
         NEW phrase \in Passphrases \union {NoPassphrase}, NEW padding \in Nat
  PROVE  LET c == EncryptWithPadding(d, text, phrase, padding)
         IN  DecryptWithPadding(c, d, phrase, c.size - padding) = text
  BY PaddedSize, SizeIsNat DEF DecryptWithPadding, RemovePadding, DecryptMessage, Less

(* A text that is padded at all, which every text of up to LONG_MESSAGE_THRESHOLD
   characters is, does not open without its padding's size: from the history,
   which does not keep it, the chat screen shows no such text. *)
THEOREM PaddedStaysClosed ==
  ASSUME NEW d \in Directions, NEW text \in Texts,
         NEW phrase \in Passphrases \union {NoPassphrase},
         NEW count \in Nat, NEW before \in Nat, text.chars <= LongText
  PROVE  LET padding == CalculatePaddingSize(d, count, text.chars, before)
         IN  DecryptMessage(EncryptWithPadding(d, text, phrase, padding), d, phrase) = NoText
  <1> DEFINE padding == CalculatePaddingSize(d, count, text.chars, before)
  <1>1. text.chars \in Nat
    BY PaddingAssumption
  <1>2. padding \in PadMin..PadMax
    BY <1>1, PaddingRange
  <1>3. padding \in Nat /\ padding > 0
    <2> HIDE DEF padding
    <2> QED
      BY <1>2, PaddingAssumption
  <1> HIDE DEF padding
  <1>4. DecryptMessage(EncryptWithPadding(d, text, phrase, padding), d, phrase) = NoText
    BY <1>3, PaddedSize, SizeIsNat DEF DecryptMessage
  <1> QED
    BY <1>4 DEF padding

(* The two implementations of the format agree: what one makes is what the other
   makes, and what receive() opens is what ClientCrypto opens, padded or not. *)
THEOREM FormatsAgree ==
  ASSUME NEW d \in Directions, NEW phrase \in Passphrases \union {NoPassphrase}
  PROVE  /\ \A text \in Texts :
               EncryptDirectional(d, text, phrase) = EncryptMessage(d, text, phrase)
         /\ \A c \in Ciphertext, original \in Nat :
               DecryptDirectionalWithPadding(c, d, phrase, original)
                 = DecryptWithPadding(c, d, phrase, original)
  <1>1. ASSUME NEW text \in Texts
        PROVE  EncryptDirectional(d, text, phrase) = EncryptMessage(d, text, phrase)
    BY PaddingAssumption DEF EncryptDirectional, AesEncrypt, EncryptWithPhrase,
         EncryptMessage, SealedSize, Salt, Nonce, Tag
  <1>2. ASSUME NEW c, c.text \in Texts
        PROVE  DecryptDirectional(c, d, phrase) = DecryptMessage(c, d, phrase)
    BY <1>2, PaddingAssumption DEF DecryptDirectional, AesDecrypt, DecryptWithPhrase,
         DecryptMessage, SealedSize, Salt, Nonce, Tag
  <1>3. ASSUME NEW c \in Ciphertext, NEW original \in Nat
        PROVE  DecryptDirectionalWithPadding(c, d, phrase, original)
                 = DecryptWithPadding(c, d, phrase, original)
    <2>1. RemovePadding(c, original).text \in Texts
      BY DEF Ciphertext, RemovePadding
    <2> QED
      BY <2>1, <1>2 DEF DecryptDirectionalWithPadding, DecryptWithPadding
  <1> QED
    BY <1>1, <1>3

LEMMA PaddingTypeInit == PaddingInit => PaddingTypeOK
  BY PaddingAssumption DEF PaddingInit, PaddingTypeOK, Messages, Nothing, Counters

(* What a sending remembers is a padding, and a counter stays one. *)
LEMMA PaddingTypeStep == PaddingTypeOK /\ [PaddingNext]_paddingVars => PaddingTypeOK'
  <1> USE PaddingAssumption
  <1> SUFFICES ASSUME PaddingTypeOK, [PaddingNext]_paddingVars
               PROVE  PaddingTypeOK'
    OBVIOUS
  <1>1. ASSUME NEW d \in Directions, NEW text \in Texts,
               NEW phrase \in Passphrases \union {NoPassphrase},
               EncryptAndSend(d, text, phrase)
        PROVE  PaddingTypeOK'
    <2> DEFINE padding == CalculatePaddingSize(d, counter[d], text.chars, lastPadding[d])
               c == EncryptWithPadding(d, text, phrase, padding)
    <2>1. text.chars \in Nat /\ counter[d] \in Nat /\ lastPadding[d] \in Nat
      BY DEF PaddingTypeOK, Counters
    <2>2. padding \in {0} \union PadMin..PadMax
      BY <2>1, PaddingRange
    <2>3. padding \in Nat
      <3> HIDE DEF padding
      <3> QED
        BY <2>2
    <2>4. /\ counter[d] < MaxCounter
          /\ counter' = [counter EXCEPT ![d] = @ + 1]
          /\ lastPadding' = [lastPadding EXCEPT ![d] = padding]
          /\ latest' = [latest EXCEPT ![d] = [sent |-> TRUE, padding |-> padding, cipher |-> c]]
      BY <1>1 DEF EncryptAndSend
    <2> HIDE DEF padding
    <2>5. c \in Ciphertext
      BY <2>3, PaddedSize, SizeIsNat DEF Ciphertext
    <2> HIDE DEF c
    <2>6. [sent |-> TRUE, padding |-> padding, cipher |-> c] \in Messages
      BY <2>3, <2>5 DEF Messages
    <2> QED
      BY <2>2, <2>4, <2>6 DEF PaddingTypeOK, Counters
  <1>2. ASSUME NEW d \in Directions, NEW opened \in Counters, ReloadChat(d, opened)
        PROVE  PaddingTypeOK'
    BY <1>2 DEF ReloadChat, PaddingTypeOK
  <1>3. CASE UNCHANGED paddingVars
    BY <1>3 DEF paddingVars, PaddingTypeOK
  <1> QED
    BY <1>1, <1>2, <1>3 DEF PaddingNext

(* Every reachable state is well typed: the padding a screen remembers is none
   or between PAD_MIN and PAD_MAX_LONG, over any sendings and reloads. *)
THEOREM PaddingTypeCorrect == PaddingSpec => []PaddingTypeOK
  BY PaddingTypeInit, PaddingTypeStep, PTL DEF PaddingSpec

(* Whatever the screens send and reload: what was sent last opens with the size
   of its padding, and does not from the history if it has one. *)
THEOREM LatestAlwaysOpens == PaddingSpec => []LatestOpens
  <1> USE PaddingAssumption
  <1>1. PaddingInit => LatestOpens
    BY DEF PaddingInit, LatestOpens, Nothing
  <1>2. PaddingTypeOK /\ LatestOpens /\ [PaddingNext]_paddingVars => LatestOpens'
    <2> SUFFICES ASSUME PaddingTypeOK, LatestOpens, [PaddingNext]_paddingVars
                 PROVE  LatestOpens'
      OBVIOUS
    <2>1. ASSUME NEW d \in Directions, NEW text \in Texts,
                 NEW phrase \in Passphrases \union {NoPassphrase},
                 EncryptAndSend(d, text, phrase)
          PROVE  LatestOpens'
      <3> DEFINE padding == CalculatePaddingSize(d, counter[d], text.chars, lastPadding[d])
                 c == EncryptWithPadding(d, text, phrase, padding)
                 m == [sent |-> TRUE, padding |-> padding, cipher |-> c]
      <3>1. text.chars \in Nat /\ counter[d] \in Nat /\ lastPadding[d] \in Nat
        BY DEF PaddingTypeOK, Counters
      <3>2. padding \in Nat
        <4>1. padding \in {0} \union PadMin..PadMax
          BY <3>1, PaddingRange
        <4> HIDE DEF padding
        <4> QED
          BY <4>1
      <3>3. latest' = [latest EXCEPT ![d] = m]
        BY <2>1 DEF EncryptAndSend
      <3> HIDE DEF padding
      <3>4. c = [key |-> d, phrase |-> phrase, text |-> text,
                 size |-> SealedSize(text, phrase) + padding]
        BY <3>2, PaddedSize
      <3>5. Opened(m, d, m.cipher.phrase) = m.cipher.text
        BY <3>2, <3>4, SizeIsNat DEF Opened, DecryptWithPadding, RemovePadding,
             DecryptMessage, Less
      <3>6. m.padding > 0 => OpenedFromHistory(m, d, m.cipher.phrase) = NoText
        BY <3>2, <3>4, SizeIsNat DEF OpenedFromHistory, DecryptMessage
      <3> HIDE DEF m
      <3>7. \A x \in Directions : latest'[x] = IF x = d THEN m ELSE latest[x]
        BY <3>3 DEF PaddingTypeOK
      <3> QED
        BY <3>5, <3>6, <3>7 DEF LatestOpens, Opened, OpenedFromHistory
    <2>2. ASSUME NEW d \in Directions, NEW opened \in Counters, ReloadChat(d, opened)
          PROVE  LatestOpens'
      BY <2>2 DEF ReloadChat, LatestOpens, Opened, OpenedFromHistory
    <2>3. CASE UNCHANGED paddingVars
      BY <2>3 DEF paddingVars, LatestOpens, Opened, OpenedFromHistory
    <2> QED
      BY <2>1, <2>2, <2>3 DEF PaddingNext
  <1> QED
    BY <1>1, <1>2, PaddingTypeCorrect, PTL DEF PaddingSpec

-----------------------------------------------------------------------------
(* The rotation of the Python clients. *)

(* The types of message. *)
Kinds3 == {"REQUEST", "ACCEPT", "CONFIRM", "COMPLETE", "REJECT", "TIMEOUT"}

(* Messages whose acceptance has a number that can be given. *)
Numbered == {m \in Message : m.type = "ACCEPT" => m.arg \in 1..MaxAccepts}

(* What a manager remembers: rotations with their expiry. *)
Table == UNION {[R -> Nat] : R \in SUBSET Rotations}

(* The types of what counts. *)
Counts3 ==
    /\ now \in Nat
    /\ accepts \in [Rotations -> 0..MaxAccepts]
    /\ confirmed \subseteq NewKeys
    /\ orphans \in [Users -> SUBSET Rotations]
    /\ restarts \in 0..MaxFaults /\ deleted \subseteq Users

(* The types of what was sent and seen; what was seen was sent. *)
Mail3 ==
    /\ sent \in [Users -> SUBSET Numbered]
    /\ seen \in [Users -> SUBSET (Rotations \X Kinds3)]
    /\ \A u \in Users : seen[u] \subseteq Rotations \X {m.type : m \in sent[Other(u)]}

(* The types of what the managers and their dialogs keep. *)
States3 ==
    /\ pending \in [Users -> Table]
    /\ dialog \in [Users -> Dialog]
    /\ cached \in [Users -> BOOLEAN]

\* What a dialog waits for, in memory or in its row, is in memory unless a
\* restart took it.
Held ==
    \A u \in Users :
        dialog[u].rotation # NoRotation /\ dialog[u].rotation \notin orphans[u]
            => dialog[u].rotation \in DOMAIN pending[u]

\* A manager that has not used the dialog knows no rotation of it.
Unused3 == \A u \in Users : ~cached[u] => DOMAIN pending[u] = {}

(* The inductive invariant of the first part. *)
V3Inv == Counts3 /\ Mail3 /\ States3 /\ Held /\ Unused3

-----------------------------------------------------------------------------
(* The two users, and tables of rotations.                                  *)

(* Of two users each has another. *)
LEMMA OtherIsUser == \A u \in Users : Other(u) \in Users
  <1>1. SUFFICES ASSUME NEW u \in Users PROVE \E p \in Users : p # u
    BY DEF Other
  <1>2. SUFFICES ASSUME \A p \in Users : p = u PROVE FALSE
    OBVIOUS
  <1>3. Users = {u}
    BY <1>2
  <1>4. Cardinality({u}) = 1
    BY FS_Singleton
  <1> QED
    BY <1>3, <1>4, RotationV3Assumption

(* What a manager remembers is one. *)
LEMMA TableRemember ==
  ASSUME NEW p \in Table, NEW r \in Rotations, NEW e \in Nat
  PROVE  [s \in DOMAIN p \union {r} |-> IF s = r THEN e ELSE p[s]] \in Table
  <1>1. PICK R \in SUBSET Rotations : p \in [R -> Nat]
    BY DEF Table
  <1>2. [s \in DOMAIN p \union {r} |-> IF s = r THEN e ELSE p[s]] \in [R \union {r} -> Nat]
    BY <1>1
  <1>3. R \union {r} \in SUBSET Rotations
    OBVIOUS
  <1> QED
    BY <1>2, <1>3 DEF Table

(* So is what is left of it. *)
LEMMA TableDrop ==
  ASSUME NEW p \in Table, NEW S
  PROVE  [s \in DOMAIN p \ S |-> p[s]] \in Table
  <1>1. PICK R \in SUBSET Rotations : p \in [R -> Nat]
    BY DEF Table
  <1>2. [s \in DOMAIN p \ S |-> p[s]] \in [R \ S -> Nat]
    BY <1>1
  <1>3. R \ S \in SUBSET Rotations
    OBVIOUS
  <1> QED
    BY <1>2, <1>3 DEF Table

(* And nothing at all. *)
LEMMA TableEmpty == [r \in {} |-> 0] \in Table
  <1>1. [r \in {} |-> 0] \in [{} -> Nat]
    OBVIOUS
  <1> QED
    BY <1>1 DEF Table

(* The rotations of a table, and when they expire. *)
LEMMA TableRows ==
  ASSUME NEW p \in Table
  PROVE  /\ DOMAIN p \subseteq Rotations
         /\ \A r \in DOMAIN p : p[r] \in Nat
  BY DEF Table

(* The invariant has the types of V3TypeOK, with the shapes of its functions. *)
LEMMA TypedIsOK == V3Inv => V3TypeOK
  <1> SUFFICES ASSUME V3Inv PROVE V3TypeOK
    OBVIOUS
  <1>1. ASSUME NEW u \in Users
        PROVE  /\ DOMAIN pending[u] \subseteq Rotations
               /\ \A r \in DOMAIN pending[u] : pending[u][r] \in Nat
    BY TableRows DEF V3Inv, States3
  <1>2. ASSUME NEW u \in Users PROVE \A m \in sent[u] : m \in Message
    BY DEF V3Inv, Mail3, Numbered
  <1> QED
    BY <1>1, <1>2 DEF V3Inv, Counts3, Mail3, States3, V3TypeOK

-----------------------------------------------------------------------------
(* Parts of steps.                                                          *)

(* The states of a dialog are what a row can be. *)
LEMMA DialogStates ==
  ASSUME NEW d \in Dialog
  PROVE  /\ [d EXCEPT !.exists = TRUE] \in Dialog
         /\ Rollback(d) \in Dialog
         /\ \A r : RollbackIf(d, r) \in Dialog
         /\ \A r \in Rotations : now \in Nat => StartTransition(d, r) \in Dialog
         /\ \A k \in NewKeys : [d EXCEPT !.key = k] \in Dialog
  <1>1. /\ [d EXCEPT !.exists = TRUE] \in Dialog
        /\ Rollback(d) \in Dialog
        /\ \A k \in NewKeys : [d EXCEPT !.key = k] \in Dialog
    BY DEF Dialog, Rollback
  <1>2. ASSUME NEW r \in Rotations, now \in Nat PROVE StartTransition(d, r) \in Dialog
    <2>1. now + RotationTimeout \in Nat
      BY <1>2, RotationV3Assumption
    <2> QED
      BY <2>1 DEF Dialog, StartTransition
  <1> QED
    BY <1>1, <1>2 DEF RollbackIf

(* Messages that are sent are kept with those before. *)
LEMMA MailSent ==
  ASSUME Mail3, NEW u \in Users, NEW S \in SUBSET Numbered,
         sent' = [sent EXCEPT ![u] = @ \union S], UNCHANGED seen
  PROVE  Mail3'
  BY OtherIsUser DEF Mail3

(* So is a single message. *)
LEMMA MessageSent ==
  ASSUME Mail3, NEW u \in Users, NEW m \in Numbered, Send(u, m), UNCHANGED seen
  PROVE  Mail3'
  <1>1. {m} \in SUBSET Numbered
    OBVIOUS
  <1> QED
    BY <1>1, MailSent DEF Send

(* A message that is handled has been sent by the other. *)
LEMMA MailHandled ==
  ASSUME Mail3, NEW u \in Users, NEW m \in sent[Other(u)],
         NEW S \in SUBSET Numbered,
         sent' = [sent EXCEPT ![u] = @ \union S] \/ sent' = sent,
         seen' = [seen EXCEPT ![u] = @ \union {<<m.rotation, m.type>>}]
  PROVE  Mail3'
  <1>1. m \in Numbered /\ m.rotation \in Rotations /\ m.type \in Kinds3
    BY OtherIsUser DEF Mail3, Numbered, Message, Kinds3
  <1>2. sent' \in [Users -> SUBSET Numbered] /\ \A p \in Users : sent[p] \subseteq sent'[p]
    BY DEF Mail3
  <1>3. seen' \in [Users -> SUBSET (Rotations \X Kinds3)]
    BY <1>1 DEF Mail3
  <1>4. ASSUME NEW p \in Users, NEW x \in seen'[p]
        PROVE  x \in Rotations \X {n.type : n \in sent'[Other(p)]}
    <2>1. CASE x \in seen[p]
      BY <2>1, <1>2, OtherIsUser DEF Mail3
    <2>2. CASE p = u /\ x = <<m.rotation, m.type>>
      BY <2>2, <1>1, <1>2, OtherIsUser
    <2> QED
      BY <2>1, <2>2 DEF Mail3
  <1> QED
    BY <1>2, <1>3, <1>4 DEF Mail3

(* A state that is saved waits for a rotation that is remembered. *)
LEMMA SavedState ==
  ASSUME States3, Held, Unused3, NEW u \in Users, NEW d \in Dialog, NEW p \in Table,
         SaveState(u, d), pending' = [pending EXCEPT ![u] = p], UNCHANGED orphans,
         d.rotation # NoRotation /\ d.rotation \notin orphans[u] => d.rotation \in DOMAIN p
  PROVE  States3' /\ Held' /\ Unused3'
  BY DEF States3, Held, Unused3, SaveState

(* A rotation that is dropped is not waited for any more. *)
LEMMA DroppedRotations ==
  ASSUME States3, Held, Unused3, NEW u \in Users, NEW R, Drop(u, R),
         dialog' = [dialog EXCEPT ![u] =
                       IF cached[u] /\ @.rotation \in R THEN Rollback(@) ELSE @],
         UNCHANGED <<cached, orphans>>
  PROVE  States3' /\ Held' /\ Unused3'
  <1> DEFINE p == [s \in DOMAIN pending[u] \ R |-> pending[u][s]]
             d == IF cached[u] /\ dialog[u].rotation \in R
                  THEN Rollback(dialog[u]) ELSE dialog[u]
  <1>1. pending' = [pending EXCEPT ![u] = p] /\ dialog' = [dialog EXCEPT ![u] = d]
    BY DEF Drop, States3
  <1>2. p \in Table /\ DOMAIN p = DOMAIN pending[u] \ R
    BY TableDrop DEF States3
  <1>3. d \in Dialog
    BY DialogStates DEF States3
  <1>4. d.rotation # NoRotation /\ d.rotation \notin orphans[u] => d.rotation \in DOMAIN p
    <2>1. CASE cached[u] /\ dialog[u].rotation \in R
      BY <2>1 DEF Rollback, States3, Dialog
    <2>2. CASE ~cached[u]
      BY <2>2 DEF Held, Unused3
    <2>3. CASE cached[u] /\ dialog[u].rotation \notin R
      BY <2>3, <1>2 DEF Held
    <2> QED
      BY <2>1, <2>2, <2>3 DEF States3
  <1> HIDE DEF p, d
  <1>5. States3'
    BY <1>1, <1>2, <1>3 DEF States3
  <1>6. Held'
    BY <1>1, <1>4 DEF States3, Held
  <1>7. Unused3'
    BY <1>1, <1>2 DEF States3, Unused3
  <1> QED
    BY <1>5, <1>6, <1>7

-----------------------------------------------------------------------------
(* One lemma per action.                                                    *)

(* At first there is nothing. *)
LEMMA V3InvInit == V3Init /\ now = 0 => V3Inv
  <1> SUFFICES ASSUME V3Init, now = 0 PROVE V3Inv
    OBVIOUS
  <1>1. Counts3
    BY RotationV3Assumption DEF V3Init, Counts3
  <1>2. Mail3
    BY DEF V3Init, Mail3
  <1>3. States3
    BY TableEmpty DEF V3Init, States3, NoDialog, Dialog
  <1>4. Held /\ Unused3
    BY DEF V3Init, Held, Unused3, NoDialog
  <1> QED
    BY <1>1, <1>2, <1>3, <1>4 DEF V3Inv

(* The dialog waits for the rotation that is remembered with it. *)
LEMMA InitiateStep ==
  ASSUME V3Inv, NEW u \in Users, NEW r \in Rotations, Initiate(u, r)
  PROVE  V3Inv'
  <1> DEFINE t == now + RotationTimeout
             d == StartTransition(State(u), r)
             p == [s \in DOMAIN pending[u] \union {r} |-> IF s = r THEN t ELSE pending[u][s]]
  <1>1. Counts3 /\ Mail3 /\ States3 /\ Held /\ Unused3
    BY DEF V3Inv
  <1>2. t \in Nat
    BY <1>1, RotationV3Assumption DEF Counts3
  <1>3. p \in Table /\ r \in DOMAIN p
    BY <1>1, <1>2, TableRemember DEF States3
  <1>4. d \in Dialog /\ d.rotation = r
    <2>1. State(u) \in Dialog
      BY <1>1, DialogStates DEF State, States3
    <2> QED
      BY <2>1, <1>1, DialogStates DEF Counts3, StartTransition, Dialog
  <1>5. pending' = [pending EXCEPT ![u] = p] /\ SaveState(u, d) /\ UNCHANGED orphans
    BY <1>1 DEF Initiate, Remember, States3, histories
  <1> HIDE DEF p, d
  <1>6. States3' /\ Held' /\ Unused3'
    BY <1>1, <1>3, <1>4, <1>5, SavedState
  <1>7. Request(r, t) \in Numbered
    BY <1>2 DEF Request, Numbered, Message
  <1>8. Mail3'
    BY <1>1, <1>7, MessageSent DEF Initiate
  <1>9. Counts3'
    BY <1>1 DEF Initiate, Counts3, histories
  <1> QED
    BY <1>6, <1>8, <1>9 DEF V3Inv

(* The new key does not change what is waited for. *)
LEMMA AcceptStep ==
  ASSUME V3Inv, NEW u \in Users, NEW r \in Rotations, Accept(u, r)
  PROVE  V3Inv'
  <1> DEFINE k == [rotation |-> r, nth |-> accepts[r] + 1]
             d == [State(u) EXCEPT !.key = k]
  <1>1. Counts3 /\ Mail3 /\ States3 /\ Held /\ Unused3
    BY DEF V3Inv
  <1>2. accepts[r] + 1 \in 1..MaxAccepts
    BY <1>1, RotationV3Assumption DEF Accept, Counts3
  <1>3. k \in NewKeys
    BY <1>2 DEF NewKeys
  <1>4. d \in Dialog /\ d.rotation = dialog[u].rotation
    <2>1. State(u) \in Dialog /\ State(u).rotation = dialog[u].rotation
      BY <1>1, DialogStates DEF State, States3, Dialog
    <2> QED
      BY <2>1, <1>3, DialogStates DEF Dialog
  <1>5. /\ pending' = [pending EXCEPT ![u] = pending[u]] /\ pending[u] \in Table
        /\ SaveState(u, d) /\ UNCHANGED orphans
    BY <1>1 DEF Accept, States3
  <1> HIDE DEF d
  <1>6. d.rotation # NoRotation /\ d.rotation \notin orphans[u]
          => d.rotation \in DOMAIN pending[u]
    BY <1>1, <1>4 DEF Held
  <1>7. States3' /\ Held' /\ Unused3'
    BY <1>1, <1>4, <1>5, <1>6, SavedState
  <1>8. Accepted(r, accepts[r] + 1) \in Numbered
    BY <1>2 DEF Accepted, Numbered, Message
  <1>9. Mail3'
    BY <1>1, <1>8, MessageSent DEF Accept
  <1>10. Counts3'
    BY <1>1, <1>2 DEF Accept, Counts3
  <1> QED
    BY <1>7, <1>9, <1>10 DEF V3Inv

(* A rejected rotation is dropped and rolled back. *)
LEMMA RejectStep ==
  ASSUME V3Inv, NEW u \in Users, NEW r \in Rotations, Reject(u, r)
  PROVE  V3Inv'
  <1>1. Counts3 /\ Mail3 /\ States3 /\ Held /\ Unused3
    BY DEF V3Inv
  <1>2. States3' /\ Held' /\ Unused3'
    <2>1. dialog' = [dialog EXCEPT ![u] =
                        IF cached[u] /\ @.rotation \in {r} THEN Rollback(@) ELSE @]
      BY <1>1 DEF Reject, RollbackCached, RollbackIf, States3
    <2> QED
      BY <1>1, <2>1, DroppedRotations DEF Reject, RollbackCached, histories
  <1>3. Plain("REJECT", r) \in Numbered
    BY DEF Plain, Numbered, Message
  <1>4. Mail3'
    BY <1>1, <1>3, MessageSent DEF Reject, histories
  <1>5. Counts3'
    BY <1>1 DEF Reject, Counts3, histories
  <1> QED
    BY <1>2, <1>4, <1>5 DEF V3Inv

(* So are those that have expired. *)
LEMMA CheckExpiredStep ==
  ASSUME V3Inv, NEW u \in Users, NEW told \in BOOLEAN, CheckExpired(u, told)
  PROVE  V3Inv'
  <1> DEFINE old == {r \in DOMAIN pending[u] : Expired3(pending[u][r])}
             S == {Plain("TIMEOUT", r) : r \in IF told THEN old ELSE {}}
  <1>1. Counts3 /\ Mail3 /\ States3 /\ Held /\ Unused3
    BY DEF V3Inv
  <1>2. States3' /\ Held' /\ Unused3'
    BY <1>1, DroppedRotations DEF CheckExpired, histories
  <1>3. S \in SUBSET Numbered
    <2>1. old \subseteq Rotations
      BY <1>1, TableRows DEF States3
    <2>2. \A r \in Rotations : Plain("TIMEOUT", r) \in Numbered
      BY DEF Plain, Numbered, Message
    <2> QED
      BY <2>1, <2>2
  <1>4. Mail3'
    <2>1. sent' = [sent EXCEPT ![u] = @ \union S] /\ UNCHANGED seen
      BY DEF CheckExpired
    <2> HIDE DEF S
    <2> QED
      BY <2>1, <1>1, <1>3, MailSent
  <1>5. Counts3'
    BY <1>1 DEF CheckExpired, Counts3, histories
  <1> QED
    BY <1>2, <1>4, <1>5 DEF V3Inv

(* What has been forgotten is not read from the table again. *)
LEMMA UseDialogStep ==
  ASSUME V3Inv, NEW u \in Users, UseDialog(u)
  PROVE  V3Inv'
  <1>1. Counts3 /\ Mail3 /\ States3 /\ Held /\ Unused3
    BY DEF V3Inv
  <1>2. State(u) \in Dialog /\ State(u).rotation = dialog[u].rotation
    BY <1>1, DialogStates DEF State, States3, Dialog
  <1>3. /\ pending' = [pending EXCEPT ![u] = pending[u]] /\ pending[u] \in Table
        /\ SaveState(u, State(u)) /\ UNCHANGED orphans
    BY <1>1 DEF UseDialog, States3, histories
  <1>4. State(u).rotation # NoRotation /\ State(u).rotation \notin orphans[u]
          => State(u).rotation \in DOMAIN pending[u]
    BY <1>1, <1>2 DEF Held
  <1>5. States3' /\ Held' /\ Unused3'
    BY <1>1, <1>2, <1>3, <1>4, SavedState
  <1>6. Mail3' /\ Counts3'
    BY <1>1 DEF UseDialog, Mail3, Counts3, histories
  <1> QED
    BY <1>5, <1>6 DEF V3Inv

(* A restart takes what was remembered along, and says so in the history. *)
LEMMA RestartStep ==
  ASSUME V3Inv, NEW u \in Users, V3Restart(u)
  PROVE  V3Inv'
  <1>1. Counts3 /\ Mail3 /\ States3 /\ Held /\ Unused3
    BY DEF V3Inv
  <1>2. DOMAIN pending[u] \subseteq Rotations
    BY <1>1, TableRows DEF States3
  <1>3. Counts3'
    <2>1. IsFiniteSet(deleted)
      BY <1>1, FS_Subset, RotationV3Assumption DEF Counts3
    <2>2. Cardinality(deleted) \in Nat
      BY <2>1, FS_CardinalityType
    <2>3. restarts' \in 0..MaxFaults
      BY <1>1, <2>2, RotationV3Assumption DEF Counts3, V3Restart, Faulty
    <2> QED
      BY <1>1, <1>2, <2>3 DEF Counts3, V3Restart
  <1>4. Mail3'
    BY <1>1 DEF Mail3, V3Restart
  <1>5. States3' /\ Unused3'
    BY <1>1, TableEmpty DEF States3, Unused3, V3Restart
  <1>6. Held'
    BY <1>1 DEF Held, V3Restart, States3, Counts3
  <1> QED
    BY <1>3, <1>4, <1>5, <1>6 DEF V3Inv

(* A deleted dialog waits for nothing. *)
LEMMA DeleteStep ==
  ASSUME V3Inv, NEW u \in Users, DeleteDialogState(u)
  PROVE  V3Inv'
  <1>1. Counts3 /\ Mail3 /\ States3 /\ Held /\ Unused3
    BY DEF V3Inv
  <1>2. Counts3' /\ Mail3'
    BY <1>1 DEF Counts3, Mail3, DeleteDialogState
  <1>3. NoDialog \in Dialog /\ NoDialog.rotation = NoRotation
    BY DEF NoDialog, Dialog
  <1>4. States3' /\ Unused3'
    BY <1>1, <1>3, TableEmpty DEF States3, Unused3, DeleteDialogState
  <1>5. Held'
    BY <1>1, <1>3 DEF Held, DeleteDialogState, States3
  <1> QED
    BY <1>2, <1>4, <1>5 DEF V3Inv

(* What a message that arrives is. *)
LEMMA Arrives ==
  ASSUME Mail3, NEW u \in Users, NEW m \in sent[Other(u)]
  PROVE  /\ m \in Message /\ m.rotation \in Rotations
         /\ m.type = "ACCEPT" => [rotation |-> m.rotation, nth |-> m.arg] \in NewKeys
  BY OtherIsUser DEF Mail3, Numbered, Message, NewKeys

(* What handling a message leaves in order: it was sent, and the counts. *)
LEMMA HandledMail ==
  ASSUME V3Inv, NEW u \in Users, NEW m \in sent[Other(u)], Handle(u, m),
         NEW n \in Numbered, Send(u, n) \/ sent' = sent,
         UNCHANGED accepts, confirmed' \subseteq NewKeys
  PROVE  Counts3' /\ Mail3'
  <1>1. Counts3 /\ Mail3
    BY DEF V3Inv
  <1>2. Counts3'
    BY <1>1 DEF Counts3, Handle
  <1>3. /\ sent' = [sent EXCEPT ![u] = @ \union {n}] \/ sent' = sent
        /\ seen' = [seen EXCEPT ![u] = @ \union {<<m.rotation, m.type>>}]
        /\ {n} \in SUBSET Numbered
    BY DEF Send, Handle
  <1>4. Mail3'
    BY <1>1, <1>3, MailHandled
  <1> QED
    BY <1>2, <1>4

(* A state in the table is one with the session key at least. *)
LEMMA StateIsDialog ==
  ASSUME States3, NEW u \in Users
  PROVE  State(u) \in Dialog /\ State(u).rotation = dialog[u].rotation
  BY DialogStates DEF State, States3, Dialog

(* A request that is taken is remembered with the dialog's transition. *)
LEMMA RequestStep ==
  ASSUME V3Inv, NEW u \in Users, NEW m \in sent[Other(u)], Handle(u, m),
         ProcessRequest(u, m)
  PROVE  V3Inv'
  <1> DEFINE r == m.rotation
             d == StartTransition(State(u), r)
             p == [s \in DOMAIN pending[u] \union {r} |->
                      IF s = r THEN m.arg ELSE pending[u][s]]
  <1>1. Counts3 /\ Mail3 /\ States3 /\ Held /\ Unused3
    BY DEF V3Inv
  <1>2. r \in Rotations /\ m.arg \in Nat
    BY <1>1, Arrives DEF Message
  <1>3. Counts3' /\ Mail3'
    <2>1. Plain("CONFIRM", r) \in Numbered
      BY <1>2 DEF Plain, Numbered, Message
    <2> QED
      BY <1>1, <2>1, HandledMail DEF ProcessRequest, Counts3
  <1>4. State(u) \in Dialog /\ State(u).rotation = dialog[u].rotation
    BY <1>1, StateIsDialog
  <1>5. States3' /\ Held' /\ Unused3'
    <2>1. CASE ~Expired3(m.arg) /\ Takes(State(u))
      <3>1. p \in Table /\ r \in DOMAIN p
        <4>1. pending[u] \in Table
          BY <1>1 DEF States3
        <4> HIDE DEF r
        <4> QED
          BY <1>2, <4>1, TableRemember
      <3>2. d \in Dialog /\ d.rotation = r
        BY <1>1, <1>2, <1>4, DialogStates DEF Counts3, StartTransition, Dialog
      <3>3. pending' = [pending EXCEPT ![u] = p] /\ SaveState(u, d) /\ UNCHANGED orphans
        BY <1>1, <2>1 DEF ProcessRequest, Remember, States3, Handle
      <3> HIDE DEF p, d
      <3> QED
        BY <1>1, <3>1, <3>2, <3>3, SavedState
    <2>2. CASE ~(~Expired3(m.arg) /\ Takes(State(u)))
      <3>1. /\ pending' = [pending EXCEPT ![u] = pending[u]] /\ pending[u] \in Table
            /\ SaveState(u, State(u)) /\ UNCHANGED orphans
        BY <1>1, <2>2 DEF ProcessRequest, States3, Handle
      <3>2. State(u).rotation # NoRotation /\ State(u).rotation \notin orphans[u]
              => State(u).rotation \in DOMAIN pending[u]
        BY <1>1, <1>4 DEF Held
      <3> QED
        BY <1>1, <1>4, <3>1, <3>2, SavedState
    <2> QED
      BY <2>1, <2>2
  <1> QED
    BY <1>3, <1>5 DEF V3Inv

(* An answer changes the key alone. *)
LEMMA AnswerStep ==
  ASSUME V3Inv, NEW u \in Users, NEW m \in sent[Other(u)], Handle(u, m),
         ProcessAccept(u, m)
  PROVE  V3Inv'
  <1> DEFINE k == [rotation |-> m.rotation, nth |-> m.arg]
             d == [State(u) EXCEPT !.key = k]
  <1>1. Counts3 /\ Mail3 /\ States3 /\ Held /\ Unused3
    BY DEF V3Inv
  <1>2. m.rotation \in Rotations /\ k \in NewKeys
    BY <1>1, Arrives DEF ProcessAccept
  <1>3. Counts3' /\ Mail3'
    <2>1. Plain("CONFIRM", m.rotation) \in Numbered
      BY <1>2 DEF Plain, Numbered, Message
    <2>2. confirmed' \subseteq NewKeys
      BY <1>1, <1>2 DEF ProcessAccept, Counts3
    <2> QED
      BY <1>1, <2>1, <2>2, HandledMail DEF ProcessAccept
  <1>4. State(u) \in Dialog /\ State(u).rotation = dialog[u].rotation
    BY <1>1, StateIsDialog
  <1>5. States3' /\ Held' /\ Unused3'
    <2>1. CASE Live(u, m.rotation)
      <3>1. d \in Dialog /\ d.rotation = dialog[u].rotation
        BY <1>2, <1>4, DialogStates DEF Dialog
      <3>2. /\ pending' = [pending EXCEPT ![u] = pending[u]] /\ pending[u] \in Table
            /\ SaveState(u, d) /\ UNCHANGED orphans
        BY <1>1, <2>1 DEF ProcessAccept, States3, Handle
      <3> HIDE DEF d
      <3>3. d.rotation # NoRotation /\ d.rotation \notin orphans[u]
              => d.rotation \in DOMAIN pending[u]
        BY <1>1, <3>1 DEF Held
      <3> QED
        BY <1>1, <3>1, <3>2, <3>3, SavedState
    <2>2. CASE ~Live(u, m.rotation)
      BY <1>1, <2>2 DEF ProcessAccept, States3, Held, Unused3, Handle
    <2> QED
      BY <2>1, <2>2
  <1> QED
    BY <1>3, <1>5 DEF V3Inv

(* A rotation that completes is rolled back and dropped together. *)
LEMMA CompleteStep ==
  ASSUME V3Inv, NEW u \in Users, NEW m \in sent[Other(u)], Handle(u, m),
         ProcessComplete(u, m)
  PROVE  V3Inv'
  <1> DEFINE r == m.rotation
             d == RollbackIf(State(u), r)
             p == [s \in DOMAIN pending[u] \ {r} |-> pending[u][s]]
  <1>1. Counts3 /\ Mail3 /\ States3 /\ Held /\ Unused3
    BY DEF V3Inv
  <1>2. r \in Rotations
    BY <1>1, Arrives
  <1>3. Counts3' /\ Mail3'
    <2>1. Plain("COMPLETE", r) \in Numbered
      BY <1>2 DEF Plain, Numbered, Message
    <2>2. confirmed' \subseteq NewKeys
      BY <1>1 DEF ProcessComplete, Counts3
    <2> QED
      BY <1>1, <2>1, <2>2, HandledMail DEF ProcessComplete
  <1>4. State(u) \in Dialog /\ State(u).rotation = dialog[u].rotation
    BY <1>1, StateIsDialog
  <1>5. States3' /\ Held' /\ Unused3'
    <2>1. CASE r \in DOMAIN pending[u]
      <3>1. d \in Dialog
        BY <1>4, DialogStates
      <3>2. p \in Table /\ DOMAIN p = DOMAIN pending[u] \ {r}
        BY <1>1, TableDrop DEF States3
      <3>3. pending' = [pending EXCEPT ![u] = p] /\ SaveState(u, d) /\ UNCHANGED orphans
        BY <1>1, <2>1 DEF ProcessComplete, Drop, States3, Handle
      <3>4. d.rotation # NoRotation /\ d.rotation \notin orphans[u] => d.rotation \in DOMAIN p
        <4>1. CASE State(u).rotation = r
          BY <4>1, <1>4 DEF RollbackIf, Rollback, Dialog
        <4>2. CASE State(u).rotation # r
          BY <4>2, <1>1, <1>4, <3>2 DEF RollbackIf, Held
        <4> QED
          BY <4>1, <4>2
      <3> HIDE DEF p, d
      <3> QED
        BY <1>1, <3>1, <3>2, <3>3, <3>4, SavedState
    <2>2. CASE r \notin DOMAIN pending[u]
      BY <1>1, <2>2 DEF ProcessComplete, States3, Held, Unused3, Handle
    <2> QED
      BY <2>1, <2>2
  <1> QED
    BY <1>3, <1>5 DEF V3Inv

(* So is one that the other side rejects or lets expire. *)
LEMMA EndStep ==
  ASSUME V3Inv, NEW u \in Users, NEW m \in sent[Other(u)], Handle(u, m),
         ProcessEnd(u, m)
  PROVE  V3Inv'
  <1> DEFINE r == m.rotation
  <1>1. Counts3 /\ Mail3 /\ States3 /\ Held /\ Unused3
    BY DEF V3Inv
  <1>2. Counts3' /\ Mail3'
    <2>1. r \in Rotations
      BY <1>1, Arrives
    <2>2. Plain("CONFIRM", r) \in Numbered
      BY <2>1 DEF Plain, Numbered, Message
    <2> QED
      BY <1>1, <2>2, HandledMail DEF ProcessEnd, Counts3
  <1>3. States3' /\ Held' /\ Unused3'
    <2>1. CASE m.type = "REJECT" /\ r \notin DOMAIN pending[u]
      BY <1>1, <2>1 DEF ProcessEnd, States3, Held, Unused3, Handle
    <2>2. CASE ~(m.type = "REJECT" /\ r \notin DOMAIN pending[u])
      <3>1. dialog' = [dialog EXCEPT ![u] =
                          IF cached[u] /\ @.rotation \in {r} THEN Rollback(@) ELSE @]
        BY <1>1, <2>2 DEF ProcessEnd, RollbackCached, RollbackIf, States3
      <3> QED
        BY <1>1, <2>2, <3>1, DroppedRotations DEF ProcessEnd, RollbackCached, Handle
    <2> QED
      BY <2>1, <2>2
  <1> QED
    BY <1>2, <1>3 DEF V3Inv

-----------------------------------------------------------------------------
(* All together. *)
LEMMA V3InvStep == V3Inv /\ [V3Next]_<<v3Vars, now>> => V3Inv'
  <1> SUFFICES ASSUME V3Inv, [V3Next]_<<v3Vars, now>> PROVE V3Inv'
    OBVIOUS
  <1>1. ASSUME NEW u \in Users, NEW r \in Rotations, Initiate(u, r) PROVE V3Inv'
    BY <1>1, InitiateStep
  <1>2. ASSUME NEW u \in Users, NEW r \in Rotations, Accept(u, r) PROVE V3Inv'
    BY <1>2, AcceptStep
  <1>3. ASSUME NEW u \in Users, NEW r \in Rotations, Reject(u, r) PROVE V3Inv'
    BY <1>3, RejectStep
  <1>4. ASSUME NEW u \in Users, NEW told \in BOOLEAN, CheckExpired(u, told) PROVE V3Inv'
    BY <1>4, CheckExpiredStep
  <1>5. ASSUME NEW u \in Users, SendText(u) \/ ReceiveText(u) PROVE V3Inv'
    BY <1>5, UseDialogStep DEF SendText, ReceiveText
  <1>6. ASSUME NEW u \in Users, V3Restart(u) PROVE V3Inv'
    BY <1>6, RestartStep
  <1>7. ASSUME NEW u \in Users, DeleteDialogState(u) PROVE V3Inv'
    BY <1>7, DeleteStep
  <1>8. ASSUME NEW u \in Users, ReceiveSystem(u) PROVE V3Inv'
    <2>1. PICK m \in sent[Other(u)] : Handle(u, m)
      BY <1>8 DEF ReceiveSystem
    <2>2. \/ ProcessRequest(u, m) \/ ProcessAccept(u, m)
          \/ ProcessComplete(u, m) \/ ProcessEnd(u, m)
      BY <2>1 DEF Handle
    <2> QED
      BY <2>1, <2>2, RequestStep, AnswerStep, CompleteStep, EndStep
  <1>9. CASE V3Tick
    BY <1>9 DEF V3Tick, Tick, v3Vars, V3Inv, Counts3, Mail3, States3, Held, Unused3
  <1>10. CASE UNCHANGED <<v3Vars, now>>
    BY <1>10 DEF v3Vars, V3Inv, Counts3, Mail3, States3, Held, Unused3
  <1> QED
    BY <1>1, <1>2, <1>3, <1>4, <1>5, <1>6, <1>7, <1>8, <1>9, <1>10 DEF V3Next

(* The inductive invariant: what a dialog waits for is remembered or was taken by
   a restart, and a manager that has not used a dialog remembers nothing of it. *)
THEOREM V3Invariance == V3Spec => []V3Inv
  BY V3InvInit, V3InvStep, PTL DEF V3Spec

(* Every reachable state of the two managers is well typed. *)
THEOREM V3TypeCorrect == V3Spec => []V3TypeOK
  BY V3Invariance, TypedIsOK, PTL

(* A dialog in memory waits only for a rotation that its manager can answer, or
   for one a restart removed, for any number of rotations, restarts, deletions,
   acceptances and messages that are lost, late or repeated. *)
THEOREM NothingWaitsInVain == V3Spec => []WaitsForKnown
  <1>1. V3Inv => WaitsForKnown
    BY DEF V3Inv, Held, WaitsForKnown, InTransition
  <1> QED
    BY <1>1, V3Invariance, PTL

-----------------------------------------------------------------------------
(* A rotation that has not expired is the one its dialog is in, so that a user
   has one such at most. *)
OneLive ==
    \A u \in Users : \A r \in DOMAIN pending[u] :
        now < pending[u][r] => dialog[u].rotation = r /\ pending[u][r] <= dialog[u].expires

(* A REQUEST is of its sender's own rotation and promises no longer life than it
   has; an ACCEPT is of the other's and names an acceptance that happened. *)
Letters ==
    \A u \in Users : \A m \in sent[u] :
        /\ m.type = "REQUEST" => m.rotation[1] = u /\ m.arg <= now + RotationTimeout
        /\ m.type = "ACCEPT" => m.rotation[1] # u /\ m.arg \in 1..accepts[m.rotation]

(* The one who began r has sent of it. *)
Named(r) == \E m \in sent[r[1]] : m.rotation = r

(* What is remembered or was accepted has been asked for. *)
Begun ==
    /\ \A u \in Users : \A r \in DOMAIN pending[u] : Named(r)
    /\ \A r \in Rotations : accepts[r] > 0 => Named(r)

(* What was confirmed was accepted, and its ACCEPT has been used up while the
   rotation is remembered. *)
ConfirmedOnce ==
    \A k \in confirmed :
        /\ k.nth <= accepts[k.rotation]
        /\ k.rotation \in DOMAIN pending[k.rotation[1]]
               => <<k.rotation, "ACCEPT">> \in seen[k.rotation[1]]

(* The one who began r still waits for its answer. *)
Standing(r) == Live(r[1], r)

(* Of the rotations that were accepted and are waited for, all are of one user. *)
OneWay ==
    \A r, s \in Rotations :
        accepts[r] > 0 /\ accepts[s] > 0 /\ Standing(r) /\ Standing(s) => r[1] = s[1]

(* The rotations whose first acceptance is yet to be confirmed. *)
Unconfirmed == {r \in Rotations : accepts[r] = 1 /\ [rotation |-> r, nth |-> 1] \notin confirmed}

(* No second acceptance, no deletion: what ConfirmedAgree asks for. *)
Regular == (\A r \in Rotations : accepts[r] <= 1) /\ deleted = {}

(* An acceptance that will never be confirmed: nobody waits for it any more. *)
Lost == \E r \in Unconfirmed : ~Standing(r)

(* Who accepted an open rotation has its key already; with none open the keys of
   the two sides are one. *)
Agreed ==
    /\ \A r \in Unconfirmed : dialog[Other(r[1])].key = [rotation |-> r, nth |-> 1]
    /\ Unconfirmed = {} => \A u, p \in Users : dialog[u].key = dialog[p].key

(* A regular history is lost, or agreed. *)
Converging == Regular => Lost \/ Agreed

(* The inductive invariant of the keys: WaitsForKnown says what a dialog waits
   for, OrderInv what each message that comes for it can do. *)
OrderInv == OneLive /\ Letters /\ Begun /\ ConfirmedOnce /\ OneWay /\ Converging

-----------------------------------------------------------------------------
USE RotationV3Assumption

LEMMA TwoUsers == \A u \in Users : Other(u) # u /\ \A p \in Users : p # u => p = Other(u)
  <1> SUFFICES ASSUME NEW u \in Users
               PROVE  Other(u) # u /\ \A p \in Users : p # u => p = Other(u)
    OBVIOUS
  <1>1. IsFiniteSet(Users \ {u}) /\ Cardinality(Users \ {u}) = 1
    BY FS_RemoveElement
  <1>2. PICK q : Users \ {u} = {q}
    BY <1>1, FS_Singleton
  <1> QED
    BY <1>2 DEF Other

LEMMA OwnersAre ==
  ASSUME NEW r \in Rotations
  PROVE  r[1] \in Users /\ Other(r[1]) \in Users /\ Other(r[1]) # r[1]
  BY TwoUsers, OtherIsUser DEF Rotations

(* Rotations that are only dropped, keys that stay. *)
LEMMA Fading ==
  ASSUME V3Inv, V3Inv', OrderInv, now' \in Nat, now <= now',
         accepts' = accepts, confirmed' = confirmed,
         deleted' = {} => deleted = {} /\ \A u \in Users : dialog'[u].key = dialog[u].key,
         \A u \in Users :
             /\ \A r \in DOMAIN pending'[u] :
                   r \in DOMAIN pending[u] /\ pending'[u][r] = pending[u][r]
             /\ \/ /\ dialog'[u].rotation = dialog[u].rotation
                   /\ dialog'[u].expires = dialog[u].expires
                \/ dialog[u].rotation \notin DOMAIN pending'[u]
             /\ sent[u] \subseteq sent'[u]
             /\ \A m \in sent'[u] \ sent[u] : m.type \notin {"REQUEST", "ACCEPT"}
             /\ seen[u] \subseteq seen'[u] \/ DOMAIN pending'[u] = {}
  PROVE  OrderInv'
  <1>0. now \in Nat /\ RotationTimeout \in Nat
        /\ \A u \in Users : \A r \in DOMAIN pending[u] : r \in Rotations /\ pending[u][r] \in Nat
    BY TableRows DEF V3Inv, Counts3, States3
  <1>1. OneLive'
    <2> SUFFICES ASSUME NEW u \in Users, NEW r \in DOMAIN pending'[u], now' < pending'[u][r]
                 PROVE  dialog'[u].rotation = r /\ pending'[u][r] <= dialog'[u].expires
      BY DEF OneLive
    <2>1. r \in DOMAIN pending[u] /\ pending'[u][r] = pending[u][r] /\ now < pending[u][r]
      BY <1>0
    <2>2. dialog[u].rotation = r /\ pending[u][r] <= dialog[u].expires
      BY <2>1 DEF OrderInv, OneLive
    <2> QED
      BY <2>1, <2>2
  <1>2. Letters'
    <2> SUFFICES ASSUME NEW u \in Users, NEW m \in sent'[u]
                 PROVE  /\ m.type = "REQUEST" => m.rotation[1] = u /\ m.arg <= now' + RotationTimeout
                        /\ m.type = "ACCEPT" => m.rotation[1] # u /\ m.arg \in 1..accepts[m.rotation]
      BY DEF Letters
    <2>1. CASE m \notin sent[u]
      BY <2>1
    <2>2. CASE m \in sent[u]
      <3>1. m.arg \in Nat
        BY DEF V3Inv, Mail3, Numbered, Message
      <3> QED
        BY <1>0, <2>2, <3>1 DEF OrderInv, Letters
    <2> QED
      BY <2>1, <2>2
  <1>3. \A r \in Rotations : Named(r) => Named(r)'
    BY OwnersAre DEF Named
  <1>4. Begun'
    BY <1>0, <1>3 DEF OrderInv, Begun
  <1>5. ConfirmedOnce'
    <2> SUFFICES ASSUME NEW k \in confirmed
                 PROVE  /\ k.nth <= accepts[k.rotation]
                        /\ k.rotation \in DOMAIN pending'[k.rotation[1]]
                             => <<k.rotation, "ACCEPT">> \in seen'[k.rotation[1]]
      BY DEF ConfirmedOnce
    <2>1. k.rotation[1] \in Users
      BY OwnersAre DEF V3Inv, Counts3, NewKeys
    <2> QED
      BY <2>1 DEF OrderInv, ConfirmedOnce
  <1>6. \A r \in Rotations : Standing(r)' => Standing(r)
    BY <1>0, OwnersAre DEF Standing, Live, Expired3
  <1>7. OneWay'
    BY <1>6 DEF OrderInv, OneWay
  <1>8. Unconfirmed' = Unconfirmed
    BY DEF Unconfirmed
  <1>9. Converging'
    <2>1. CASE deleted' # {}
      BY <2>1 DEF Converging, Regular
    <2>2. CASE deleted' = {}
      <3>1. Regular' => Regular
        BY <2>2 DEF Regular
      <3>2. Lost => Lost'
        BY <1>6, <1>8 DEF Lost, Unconfirmed
      <3>3. Agreed => Agreed'
        BY <1>8, <2>2, OwnersAre DEF Agreed, Unconfirmed
      <3> QED
        BY <3>1, <3>2, <3>3 DEF OrderInv, Converging
    <2> QED
      BY <2>1, <2>2
  <1> QED
    BY <1>1, <1>2, <1>4, <1>5, <1>7, <1>9 DEF OrderInv

LEMMA OrderInit ==
  ASSUME V3Init, now = 0
  PROVE  OrderInv
  <1>1. /\ pending = [u \in Users |-> [r \in {} |-> 0]]
        /\ dialog = [u \in Users |-> NoDialog]
        /\ sent = [u \in Users |-> {}]
        /\ accepts = [r \in Rotations |-> 0] /\ confirmed = {}
    BY DEF V3Init
  <1>2. \A u \in Users : DOMAIN pending[u] = {}
    BY <1>1
  <1>3. Unconfirmed = {}
    BY <1>1 DEF Unconfirmed
  <1> QED
    BY <1>1, <1>2, <1>3 DEF OrderInv, OneLive, Letters, Begun, ConfirmedOnce, OneWay,
                             Converging, Agreed

(* The state of a user changes by itself. *)
LEMMA OfOne ==
  ASSUME V3Inv, NEW u \in Users, NEW p, NEW d, NEW S,
         pending' = [pending EXCEPT ![u] = p], dialog' = [dialog EXCEPT ![u] = d],
         sent' = [sent EXCEPT ![u] = @ \union S]
  PROVE  /\ pending'[u] = p /\ dialog'[u] = d /\ sent'[u] = sent[u] \union S
         /\ \A v \in Users \ {u} :
                pending'[v] = pending[v] /\ dialog'[v] = dialog[v] /\ sent'[v] = sent[v]
  BY DEF V3Inv, States3, Mail3

(* A rotation that is dropped: the dialog does not wait for it afterwards. *)
LEMMA FadingOfOne ==
  ASSUME V3Inv, V3Inv', OrderInv, NEW u \in Users, NEW R, NEW d, NEW S,
         pending' = [pending EXCEPT ![u] = [s \in DOMAIN @ \ R |-> @[s]]],
         dialog' = [dialog EXCEPT ![u] = d],
         d.key = dialog[u].key,
         \/ d.rotation = dialog[u].rotation /\ d.expires = dialog[u].expires
         \/ dialog[u].rotation \notin DOMAIN pending[u] \ R,
         sent' = [sent EXCEPT ![u] = @ \union S],
         \A m \in S : m.type \notin {"REQUEST", "ACCEPT"},
         \A v \in Users : seen[v] \subseteq seen'[v],
         UNCHANGED <<accepts, confirmed, deleted, now>>
  PROVE  OrderInv'
  <1> DEFINE p == [s \in DOMAIN pending[u] \ R |-> pending[u][s]]
  <1>1. pending' = [pending EXCEPT ![u] = p]
    OBVIOUS
  <1>2. DOMAIN p = DOMAIN pending[u] \ R /\ \A r \in DOMAIN p : p[r] = pending[u][r]
    OBVIOUS
  <1> HIDE DEF p
  <1>3. /\ pending'[u] = p /\ dialog'[u] = d /\ sent'[u] = sent[u] \union S
        /\ \A v \in Users \ {u} :
                pending'[v] = pending[v] /\ dialog'[v] = dialog[v] /\ sent'[v] = sent[v]
    BY <1>1, OfOne
  <1>4. now \in Nat /\ now' = now /\ now <= now'
    BY DEF V3Inv, Counts3
  <1>5. ASSUME NEW v \in Users
        PROVE  /\ dialog'[v].key = dialog[v].key
               /\ \A r \in DOMAIN pending'[v] :
                     r \in DOMAIN pending[v] /\ pending'[v][r] = pending[v][r]
               /\ \/ /\ dialog'[v].rotation = dialog[v].rotation
                     /\ dialog'[v].expires = dialog[v].expires
                  \/ dialog[v].rotation \notin DOMAIN pending'[v]
               /\ sent[v] \subseteq sent'[v]
               /\ \A m \in sent'[v] \ sent[v] : m.type \notin {"REQUEST", "ACCEPT"}
    <2>1. CASE v = u
      BY <1>2, <1>3, <2>1
    <2>2. CASE v # u
      BY <1>3, <2>2
    <2> QED
      BY <2>1, <2>2
  <1> QED
    BY <1>4, <1>5, Fading

LEMMA RejectOrder ==
  ASSUME V3Inv, V3Inv', OrderInv, NEW u \in Users, NEW r \in Rotations, Reject(u, r)
  PROVE  OrderInv'
  <1> DEFINE d == IF cached[u] THEN RollbackIf(dialog[u], r) ELSE dialog[u]
             S == {Plain("REJECT", r)}
  <1>1. d.key = dialog[u].key /\ (d = dialog[u] \/ dialog[u].rotation \notin DOMAIN pending[u] \ {r})
    BY DEF V3Inv, States3, Dialog, RollbackIf, Rollback
  <1>2. \A m \in S : m.type \notin {"REQUEST", "ACCEPT"}
    BY DEF Plain
  <1>3. /\ pending' = [pending EXCEPT ![u] = [s \in DOMAIN @ \ {r} |-> @[s]]]
        /\ dialog' = [dialog EXCEPT ![u] = d]
        /\ sent' = [sent EXCEPT ![u] = @ \union S]
        /\ UNCHANGED <<accepts, confirmed, deleted, now, seen>>
    BY DEF Reject, RollbackCached, Drop, Send, histories
  <1> HIDE DEF d, S
  <1> QED
    BY <1>1, <1>2, <1>3, FadingOfOne

LEMMA ExpiredOrder ==
  ASSUME V3Inv, V3Inv', OrderInv, NEW u \in Users, NEW told \in BOOLEAN, CheckExpired(u, told)
  PROVE  OrderInv'
  <1> DEFINE old == {r \in DOMAIN pending[u] : Expired3(pending[u][r])}
             S == {Plain("TIMEOUT", r) : r \in IF told THEN old ELSE {}}
             d == IF cached[u] /\ dialog[u].rotation \in old THEN Rollback(dialog[u]) ELSE dialog[u]
  <1>1. d.key = dialog[u].key /\ (d = dialog[u] \/ dialog[u].rotation \notin DOMAIN pending[u] \ old)
    BY DEF V3Inv, States3, Dialog, Rollback
  <1>2. \A m \in S : m.type \notin {"REQUEST", "ACCEPT"}
    BY DEF Plain
  <1>3. /\ pending' = [pending EXCEPT ![u] = [s \in DOMAIN @ \ old |-> @[s]]]
        /\ dialog' = [dialog EXCEPT ![u] = d]
        /\ sent' = [sent EXCEPT ![u] = @ \union S]
        /\ UNCHANGED <<accepts, confirmed, deleted, now, seen>>
    BY DEF CheckExpired, Drop, histories
  <1> HIDE DEF d, S, old
  <1> QED
    BY <1>1, <1>2, <1>3, FadingOfOne

LEMMA UseOrder ==
  ASSUME V3Inv, V3Inv', OrderInv, NEW u \in Users, UseDialog(u)
  PROVE  OrderInv'
  <1>1. /\ dialog' = [dialog EXCEPT ![u] = State(u)]
        /\ UNCHANGED <<pending, seen, sent, accepts, confirmed, deleted, now>>
    BY DEF UseDialog, SaveState, histories
  <1>2. /\ State(u).key = dialog[u].key /\ State(u).rotation = dialog[u].rotation
        /\ State(u).expires = dialog[u].expires
    BY DEF State, V3Inv, States3, Dialog
  <1>3. \A v \in Users : /\ dialog'[v].key = dialog[v].key
                         /\ dialog'[v].rotation = dialog[v].rotation
                         /\ dialog'[v].expires = dialog[v].expires
    BY <1>1, <1>2 DEF V3Inv, States3
  <1>4. now \in Nat /\ now' = now /\ now <= now'
    BY <1>1 DEF V3Inv, Counts3
  <1> QED
    BY <1>1, <1>3, <1>4, Fading

LEMMA RestartOrder ==
  ASSUME V3Inv, V3Inv', OrderInv, NEW u \in Users, V3Restart(u)
  PROVE  OrderInv'
  <1>1. /\ pending' = [pending EXCEPT ![u] = [r \in {} |-> 0]]
        /\ seen' = [seen EXCEPT ![u] = {}]
        /\ UNCHANGED <<dialog, sent, accepts, confirmed, deleted, now>>
    BY DEF V3Restart
  <1>2. \A v \in Users : \/ DOMAIN pending'[v] = {}
                         \/ pending'[v] = pending[v] /\ seen'[v] = seen[v]
    BY <1>1 DEF V3Inv, States3, Mail3
  <1>3. now \in Nat /\ now' = now /\ now <= now'
    BY <1>1 DEF V3Inv, Counts3
  <1> QED
    BY <1>1, <1>2, <1>3, Fading

LEMMA DeleteOrder ==
  ASSUME V3Inv, V3Inv', OrderInv, NEW u \in Users, DeleteDialogState(u)
  PROVE  OrderInv'
  <1>1. /\ pending' = [pending EXCEPT ![u] = [r \in {} |-> 0]]
        /\ dialog' = [dialog EXCEPT ![u] = NoDialog]
        /\ deleted' = deleted \union {u}
        /\ UNCHANGED <<seen, sent, accepts, confirmed, now>>
    BY DEF DeleteDialogState
  <1>2. \A v \in Users : \/ DOMAIN pending'[v] = {}
                         \/ pending'[v] = pending[v] /\ dialog'[v] = dialog[v]
    BY <1>1 DEF V3Inv, States3
  <1>3. now \in Nat /\ now' = now /\ now <= now' /\ deleted' # {}
    BY <1>1 DEF V3Inv, Counts3
  <1> QED
    BY <1>1, <1>2, <1>3, Fading

LEMMA CompleteOrder ==
  ASSUME V3Inv, V3Inv', OrderInv, NEW u \in Users, NEW m, Handle(u, m), ProcessComplete(u, m)
  PROVE  OrderInv'
  <1> DEFINE r == m.rotation
             d == RollbackIf(State(u), r)
             S == IF m.type = "CONFIRM" THEN {Plain("COMPLETE", r)} ELSE {}
  <1>1. /\ \A v \in Users : seen[v] \subseteq seen'[v]
        /\ UNCHANGED <<accepts, confirmed, deleted, now>>
    BY DEF Handle, ProcessComplete, V3Inv, Mail3
  <1>2. CASE r \in DOMAIN pending[u]
    <2>1. /\ d.key = dialog[u].key
          /\ \/ d.rotation = dialog[u].rotation /\ d.expires = dialog[u].expires
             \/ dialog[u].rotation \notin DOMAIN pending[u] \ {r}
      BY DEF V3Inv, States3, Dialog, RollbackIf, Rollback, State
    <2>2. \A n \in S : n.type \notin {"REQUEST", "ACCEPT"}
      BY DEF Plain
    <2>3. /\ pending' = [pending EXCEPT ![u] = [s \in DOMAIN @ \ {r} |-> @[s]]]
          /\ dialog' = [dialog EXCEPT ![u] = d]
          /\ sent' = [sent EXCEPT ![u] = @ \union S]
      BY <1>2 DEF ProcessComplete, SaveState, Drop, Send, V3Inv, Mail3
    <2> HIDE DEF d, S, r
    <2> QED
      BY <1>1, <2>1, <2>2, <2>3, FadingOfOne
  <1>3. CASE r \notin DOMAIN pending[u]
    <2>1. UNCHANGED <<dialog, pending, sent>>
      BY <1>3 DEF ProcessComplete
    <2>2. now \in Nat /\ now' = now /\ now <= now'
      BY <1>1 DEF V3Inv, Counts3
    <2> QED
      BY <1>1, <2>1, <2>2, Fading
  <1> QED
    BY <1>2, <1>3

LEMMA EndOrder ==
  ASSUME V3Inv, V3Inv', OrderInv, NEW u \in Users, NEW m, Handle(u, m), ProcessEnd(u, m)
  PROVE  OrderInv'
  <1> DEFINE r == m.rotation
             d == IF cached[u] THEN RollbackIf(dialog[u], r) ELSE dialog[u]
             S == {}
  <1>1. /\ \A v \in Users : seen[v] \subseteq seen'[v]
        /\ UNCHANGED <<accepts, confirmed, deleted, now, sent>>
    BY DEF Handle, ProcessEnd, V3Inv, Mail3
  <1>2. CASE ~(m.type = "REJECT" /\ r \notin DOMAIN pending[u])
    <2>1. d.key = dialog[u].key /\ (d = dialog[u] \/ dialog[u].rotation \notin DOMAIN pending[u] \ {r})
      BY DEF V3Inv, States3, Dialog, RollbackIf, Rollback
    <2>2. /\ pending' = [pending EXCEPT ![u] = [s \in DOMAIN @ \ {r} |-> @[s]]]
          /\ dialog' = [dialog EXCEPT ![u] = d]
          /\ sent' = [sent EXCEPT ![u] = @ \union S]
      BY <1>1, <1>2 DEF ProcessEnd, RollbackCached, Drop, V3Inv, Mail3
    <2>3. \A n \in S : n.type \notin {"REQUEST", "ACCEPT"}
      OBVIOUS
    <2> HIDE DEF d, S, r
    <2> QED
      BY <1>1, <2>1, <2>2, <2>3, FadingOfOne
  <1>3. CASE m.type = "REJECT" /\ r \notin DOMAIN pending[u]
    <2>1. UNCHANGED <<dialog, pending>>
      BY <1>3 DEF ProcessEnd
    <2>2. now \in Nat /\ now' = now /\ now <= now'
      BY <1>1 DEF V3Inv, Counts3
    <2> QED
      BY <1>1, <2>1, <2>2, Fading
  <1> QED
    BY <1>2, <1>3

LEMMA RotationIsOne ==
  ASSUME NEW r \in Rotations
  PROVE  r # NoRotation
  <1>1. PICK u \in Users, n \in 1..MaxRotations : r = <<u, n>>
    BY DEF Rotations
  <1> QED
    BY <1>1 DEF NoRotation

(* A rotation that is remembered with the transition of its dialog, when no
   other one is live there. *)
LEMMA Beginning ==
  ASSUME V3Inv, V3Inv', OrderInv, NEW u \in Users, NEW r \in Rotations, NEW e \in Nat,
         e <= now + RotationTimeout,
         Remember(u, r, e), SaveState(u, StartTransition(State(u), r)),
         \A s \in DOMAIN pending[u] : ~(now < pending[u][s]),
         r[1] = u => ~Named(r),
         NEW S, sent' = [sent EXCEPT ![u] = @ \union S],
         S = {} \/ (S = {Request(r, e)} /\ r[1] = u),
         Named(r)',
         \A v \in Users : seen[v] \subseteq seen'[v],
         UNCHANGED <<accepts, confirmed, deleted, now>>
  PROVE  OrderInv'
  <1> DEFINE p == [s \in DOMAIN pending[u] \union {r} |-> IF s = r THEN e ELSE pending[u][s]]
             d == StartTransition(State(u), r)
  <1>1. pending' = [pending EXCEPT ![u] = p] /\ dialog' = [dialog EXCEPT ![u] = d]
    BY DEF Remember, SaveState
  <1>2. d.rotation = r /\ d.expires = now + RotationTimeout /\ d.key = dialog[u].key
    BY DEF StartTransition, State, V3Inv, States3, Dialog
  <1>3. /\ DOMAIN p = DOMAIN pending[u] \union {r} /\ p[r] = e
        /\ \A s \in DOMAIN pending[u] : s # r => p[s] = pending[u][s]
    OBVIOUS
  <1> HIDE DEF p, d
  <1>4. /\ pending'[u] = p /\ dialog'[u] = d /\ sent'[u] = sent[u] \union S
        /\ \A v \in Users \ {u} :
                pending'[v] = pending[v] /\ dialog'[v] = dialog[v] /\ sent'[v] = sent[v]
    BY <1>1, OfOne
  <1>5. OneLive'
    <2> SUFFICES ASSUME NEW v \in Users, NEW s \in DOMAIN pending'[v], now < pending'[v][s]
                 PROVE  dialog'[v].rotation = s /\ pending'[v][s] <= dialog'[v].expires
      BY DEF OneLive
    <2>1. CASE v = u
      <3>1. s = r
        BY <1>3, <1>4, <2>1
      <3> QED
        BY <1>2, <1>3, <1>4, <2>1, <3>1
    <2>2. CASE v # u
      BY <1>4, <2>2 DEF OrderInv, OneLive
    <2> QED
      BY <2>1, <2>2
  <1>6. Letters'
    <2> SUFFICES ASSUME NEW v \in Users, NEW m \in sent'[v]
                 PROVE  /\ m.type = "REQUEST" => m.rotation[1] = v /\ m.arg <= now + RotationTimeout
                        /\ m.type = "ACCEPT" => m.rotation[1] # v /\ m.arg \in 1..accepts[m.rotation]
      BY DEF Letters
    <2>1. CASE m \in sent[v]
      BY <2>1 DEF OrderInv, Letters
    <2>2. CASE v = u /\ m \in S
      BY <2>2 DEF Request
    <2> QED
      BY <1>4, <2>1, <2>2
  <1>7. \A s \in Rotations : Named(s) => Named(s)'
    <2>1. \A v \in Users : sent[v] \subseteq sent'[v]
      BY <1>4
    <2> QED
      BY <2>1, OwnersAre DEF Named
  <1>8. Begun'
    <2>1. ASSUME NEW v \in Users, NEW s \in DOMAIN pending'[v]
          PROVE  Named(s)'
      <3>1. s = r \/ s \in DOMAIN pending[v]
        BY <1>3, <1>4
      <3>2. CASE s \in DOMAIN pending[v]
        <4>1. s \in Rotations /\ Named(s)
          BY <3>2, TableRows DEF V3Inv, States3, OrderInv, Begun
        <4> QED
          BY <1>7, <4>1
      <3> QED
        BY <3>1, <3>2
    <2>2. ASSUME NEW s \in Rotations, accepts[s] > 0
          PROVE  Named(s)'
      BY <1>7, <2>2 DEF OrderInv, Begun
    <2> QED
      BY <2>1, <2>2 DEF Begun
  <1>9. ASSUME NEW s \in Rotations, accepts[s] > 0, s \in DOMAIN pending'[s[1]]
        PROVE  s \in DOMAIN pending[s[1]] /\ pending'[s[1]][s] = pending[s[1]][s]
    <2>1. s[1] \in Users /\ Named(s)
      BY <1>9, OwnersAre DEF OrderInv, Begun
    <2>2. CASE s[1] = u
      <3>1. s # r
        BY <2>1, <2>2
      <3> QED
        BY <1>3, <1>4, <1>9, <2>2, <3>1
    <2>3. CASE s[1] # u
      BY <1>4, <1>9, <2>1, <2>3
    <2> QED
      BY <2>2, <2>3
  <1>10. ConfirmedOnce'
    <2> SUFFICES ASSUME NEW k \in confirmed
                 PROVE  /\ k.nth <= accepts[k.rotation]
                        /\ k.rotation \in DOMAIN pending'[k.rotation[1]]
                             => <<k.rotation, "ACCEPT">> \in seen'[k.rotation[1]]
      BY DEF ConfirmedOnce
    <2>1. /\ k.rotation \in Rotations /\ k.nth \in Nat /\ k.nth >= 1 /\ k.nth <= accepts[k.rotation]
          /\ accepts[k.rotation] \in Nat
      <3>1. k \in NewKeys /\ accepts \in [Rotations -> 0..MaxAccepts]
        BY DEF V3Inv, Counts3
      <3>2. k.nth <= accepts[k.rotation]
        BY DEF OrderInv, ConfirmedOnce
      <3>3. k.rotation \in Rotations /\ k.nth \in 1..MaxAccepts
        BY <3>1 DEF NewKeys
      <3>4. accepts[k.rotation] \in 0..MaxAccepts /\ MaxAccepts \in Nat
        BY <3>1, <3>3
      <3> QED
        BY <3>2, <3>3, <3>4
    <2>2. k.rotation[1] \in Users /\ accepts[k.rotation] > 0
      BY <2>1, OwnersAre
    <2> QED
      BY <1>9, <2>1, <2>2 DEF OrderInv, ConfirmedOnce
  <1>11. \A s \in Rotations : accepts[s] > 0 /\ Standing(s)' => Standing(s)
    BY <1>9 DEF Standing, Live, Expired3
  <1>12. OneWay'
    BY <1>11 DEF OrderInv, OneWay
  <1>13. Unconfirmed' = Unconfirmed /\ \A s \in Unconfirmed : s \in Rotations /\ accepts[s] > 0
    BY DEF Unconfirmed
  <1>14. \A v \in Users : dialog'[v].key = dialog[v].key
    BY <1>2, <1>4
  <1>15. Converging'
    <2>1. Regular' => Regular
      BY DEF Regular
    <2>2. Lost => Lost'
      BY <1>11, <1>13 DEF Lost
    <2>3. Agreed => Agreed'
      BY <1>13, <1>14, OwnersAre DEF Agreed
    <2> QED
      BY <2>1, <2>2, <2>3 DEF OrderInv, Converging
  <1> QED
    BY <1>5, <1>6, <1>8, <1>10, <1>12, <1>15 DEF OrderInv

LEMMA InitiateOrder ==
  ASSUME V3Inv, V3Inv', OrderInv, NEW u \in Users, NEW r \in Rotations, Initiate(u, r)
  PROVE  OrderInv'
  <1> DEFINE e == now + RotationTimeout
             S == {Request(r, e)}
  <1>1. /\ r[1] = u /\ ~Named(r)
        /\ CanRotate(u)
        /\ Remember(u, r, e) /\ SaveState(u, StartTransition(State(u), r))
        /\ sent' = [sent EXCEPT ![u] = @ \union S]
        /\ UNCHANGED <<seen, accepts, confirmed, deleted, now>>
    BY DEF Initiate, Named, Send, histories
  <1>2. e \in Nat /\ now \in Nat /\ e <= now + RotationTimeout
    BY DEF V3Inv, Counts3
  <1>3. \A s \in DOMAIN pending[u] : ~(now < pending[u][s])
    <2> SUFFICES ASSUME NEW s \in DOMAIN pending[u], now < pending[u][s]
                 PROVE  FALSE
      OBVIOUS
    <2>1. s \in Rotations /\ pending[u][s] \in Nat /\ cached[u] /\ dialog[u].expires \in Nat
      BY TableRows DEF V3Inv, States3, Unused3, Dialog
    <2>2. dialog[u].rotation = s /\ pending[u][s] <= dialog[u].expires
      BY DEF OrderInv, OneLive
    <2>3. InTransition(dialog[u])
      BY <2>1, <2>2, RotationIsOne DEF InTransition
    <2>4. now >= dialog[u].expires
      BY <1>1, <2>1, <2>3 DEF CanRotate, Expired3
    <2> QED
      BY <1>2, <2>1, <2>2, <2>4
  <1>4. Named(r)'
    <2>1. Request(r, e) \in sent'[u]
      BY <1>1 DEF V3Inv, Mail3
    <2> QED
      BY <1>1, <2>1 DEF Named, Request
  <1> HIDE DEF e
  <1>5. S = {Request(r, e)}
    OBVIOUS
  <1> HIDE DEF S
  <1> QED
    BY <1>1, <1>2, <1>3, <1>4, <1>5, Beginning

LEMMA RequestOrder ==
  ASSUME V3Inv, V3Inv', OrderInv, NEW u \in Users, NEW m \in sent[Other(u)],
         Handle(u, m), ProcessRequest(u, m)
  PROVE  OrderInv'
  <1> DEFINE r == m.rotation
             e == m.arg
             S == {}
  <1>1. /\ \A v \in Users : seen[v] \subseteq seen'[v]
        /\ UNCHANGED <<accepts, confirmed, deleted, now, sent>>
    BY DEF Handle, ProcessRequest, V3Inv, Mail3
  <1>2. now \in Nat /\ now' = now /\ now <= now'
    BY <1>1 DEF V3Inv, Counts3
  <1>3. r \in Rotations /\ e \in Nat /\ Other(u) \in Users /\ Other(u) # u
    BY OtherIsUser, TwoUsers DEF V3Inv, Mail3, Numbered, Message
  <1>4. r[1] = Other(u) /\ e <= now + RotationTimeout
    BY <1>3 DEF OrderInv, Letters, ProcessRequest
  <1>5. /\ State(u).key = dialog[u].key /\ State(u).rotation = dialog[u].rotation
        /\ State(u).expires = dialog[u].expires
    BY DEF State, V3Inv, States3, Dialog
  <1>6. CASE ~Expired3(m.arg) /\ Takes(State(u))
    <2>1. Remember(u, r, e) /\ SaveState(u, StartTransition(State(u), r))
      BY <1>6 DEF ProcessRequest
    <2>2. \A s \in DOMAIN pending[u] : ~(now < pending[u][s])
      <3> SUFFICES ASSUME NEW s \in DOMAIN pending[u], now < pending[u][s]
                   PROVE  FALSE
        OBVIOUS
      <3>1. s \in Rotations
        BY TableRows DEF V3Inv, States3
      <3>2. dialog[u].rotation = s
        BY DEF OrderInv, OneLive
      <3> QED
        BY <1>5, <1>6, <3>1, <3>2, RotationIsOne DEF Takes, InTransition
    <2>3. sent' = [sent EXCEPT ![u] = @ \union S]
      BY <1>1 DEF V3Inv, Mail3
    <2>4. Named(r)'
      BY <1>1, <1>4 DEF Named
    <2>5. r[1] # u
      BY <1>3, <1>4
    <2>6. S = {}
      OBVIOUS
    <2> HIDE DEF r, e, S
    <2> QED
      BY <1>1, <1>3, <1>4, <2>1, <2>2, <2>3, <2>4, <2>5, <2>6, Beginning
  <1>7. CASE ~(~Expired3(m.arg) /\ Takes(State(u)))
    <2>1. dialog' = [dialog EXCEPT ![u] = State(u)] /\ pending' = pending
      BY <1>7 DEF ProcessRequest, SaveState
    <2>2. \A v \in Users : /\ dialog'[v].key = dialog[v].key
                           /\ dialog'[v].rotation = dialog[v].rotation
                           /\ dialog'[v].expires = dialog[v].expires
      BY <1>5, <2>1 DEF V3Inv, States3
    <2> QED
      BY <1>1, <1>2, <2>1, <2>2, Fading
  <1> QED
    BY <1>6, <1>7

(* What stays of the tables when a user only gets a key and sends. *)
LEMMA TablesStay ==
  ASSUME V3Inv, OrderInv, NEW u \in Users, NEW d, NEW m, NEW S \in SUBSET {m},
         UNCHANGED <<pending, now>>, dialog' = [dialog EXCEPT ![u] = d],
         d.rotation = dialog[u].rotation, d.expires = dialog[u].expires,
         sent' = [sent EXCEPT ![u] = @ \union S],
         m.type # "REQUEST",
         m.type = "ACCEPT" => m.rotation[1] # u /\ m.arg \in 1..accepts'[m.rotation],
         \A r \in Rotations : accepts'[r] \in Nat /\ accepts[r] <= accepts'[r],
         \A r \in Rotations : accepts'[r] > accepts[r] => Named(r)
  PROVE  /\ OneLive' /\ Letters' /\ Begun'
         /\ \A r \in Rotations : Standing(r)' <=> Standing(r)
         /\ dialog'[u] = d /\ \A v \in Users \ {u} : dialog'[v] = dialog[v]
  <1>1. /\ dialog'[u] = d /\ sent'[u] = sent[u] \union S
        /\ \A v \in Users \ {u} : dialog'[v] = dialog[v] /\ sent'[v] = sent[v]
    BY DEF V3Inv, States3, Mail3
  <1>2. OneLive'
    <2>1. \A v \in Users : /\ dialog'[v].rotation = dialog[v].rotation
                           /\ dialog'[v].expires = dialog[v].expires
      BY <1>1
    <2> QED
      BY <2>1 DEF OrderInv, OneLive
  <1>3. Letters'
    <2> SUFFICES ASSUME NEW v \in Users, NEW n \in sent'[v]
                 PROVE  /\ n.type = "REQUEST" => n.rotation[1] = v /\ n.arg <= now + RotationTimeout
                        /\ n.type = "ACCEPT" => n.rotation[1] # v /\ n.arg \in 1..accepts'[n.rotation]
      BY DEF Letters
    <2>1. CASE n \in sent[v]
      <3>1. /\ n.type = "REQUEST" => n.rotation[1] = v /\ n.arg <= now + RotationTimeout
            /\ n.type = "ACCEPT" => n.rotation[1] # v /\ n.arg \in 1..accepts[n.rotation]
        BY <2>1 DEF OrderInv, Letters
      <3>2. n.rotation \in Rotations
        BY <2>1 DEF V3Inv, Mail3, Numbered, Message
      <3>3. accepts'[n.rotation] \in Nat /\ accepts[n.rotation] <= accepts'[n.rotation]
            /\ accepts[n.rotation] \in Nat
        BY <3>2 DEF V3Inv, Counts3
      <3> QED
        BY <3>1, <3>3
    <2>2. CASE v = u /\ n = m
      BY <2>2
    <2> QED
      BY <1>1, <2>1, <2>2
  <1>4. \A r \in Rotations : Named(r) => Named(r)'
    <2>1. \A v \in Users : sent[v] \subseteq sent'[v]
      BY <1>1
    <2> QED
      BY <2>1, OwnersAre DEF Named
  <1>5. Begun'
    <2>1. ASSUME NEW v \in Users, NEW r \in DOMAIN pending[v]
          PROVE  Named(r)'
      <3>1. r \in Rotations /\ Named(r)
        BY TableRows DEF V3Inv, States3, OrderInv, Begun
      <3> QED
        BY <1>4, <3>1
    <2>2. ASSUME NEW r \in Rotations, accepts'[r] > 0
          PROVE  Named(r)'
      <3>1. accepts[r] > 0 \/ accepts'[r] > accepts[r]
        BY <2>2 DEF V3Inv, Counts3
      <3> QED
        BY <1>4, <3>1 DEF OrderInv, Begun
    <2> QED
      BY <2>1, <2>2 DEF Begun
  <1>6. \A r \in Rotations : Standing(r)' <=> Standing(r)
    BY DEF Standing, Live, Expired3
  <1> QED
    BY <1>1, <1>2, <1>3, <1>5, <1>6

(* Who accepts waits for that rotation and for no other: none of its own that
   was accepted can still be confirmed. *)
LEMMA AcceptOrder ==
  ASSUME V3Inv, V3Inv', OrderInv, NEW u \in Users, NEW r \in Rotations, Accept(u, r)
  PROVE  OrderInv'
  <1> DEFINE k == [rotation |-> r, nth |-> accepts[r] + 1]
             d == [State(u) EXCEPT !.key = k]
             m == Accepted(r, accepts[r] + 1)
             S == {m}
  <1>1. /\ r[1] # u /\ Live(u, r)
        /\ dialog' = [dialog EXCEPT ![u] = d]
        /\ sent' = [sent EXCEPT ![u] = @ \union S]
        /\ accepts' = [accepts EXCEPT ![r] = @ + 1]
        /\ UNCHANGED <<pending, seen, confirmed, deleted, now>>
    BY DEF Accept, SaveState, Send
  <1>2. d.key = k /\ d.rotation = dialog[u].rotation /\ d.expires = dialog[u].expires
    BY DEF State, V3Inv, States3, Dialog
  <1>3. /\ accepts[r] \in Nat /\ accepts'[r] = accepts[r] + 1
        /\ \A s \in Rotations : accepts[s] \in Nat
        /\ \A s \in Rotations : s # r => accepts'[s] = accepts[s]
    BY <1>1 DEF V3Inv, Counts3
  <1>4. /\ m.type # "REQUEST"
        /\ m.type = "ACCEPT" => m.rotation[1] # u /\ m.arg \in 1..accepts'[m.rotation]
    BY <1>1, <1>3 DEF Accepted
  <1>5. r \in DOMAIN pending[u] /\ now < pending[u][r] /\ Named(r)
    <2>1. r \in DOMAIN pending[u] /\ pending[u][r] \in Nat /\ now \in Nat
      BY <1>1, TableRows DEF Live, V3Inv, States3, Counts3
    <2> QED
      BY <1>1, <2>1 DEF Live, Expired3, OrderInv, Begun
  <1>6. /\ \A s \in Rotations : accepts'[s] \in Nat /\ accepts[s] <= accepts'[s]
        /\ \A s \in Rotations : accepts'[s] > accepts[s] => Named(s)
    BY <1>3, <1>5
  <1>7. S \in SUBSET {m}
    OBVIOUS
  <1>8. k = [rotation |-> r, nth |-> accepts[r] + 1]
    OBVIOUS
  <1> HIDE DEF d, m, S, k
  <1>9. /\ OneLive' /\ Letters' /\ Begun'
        /\ \A s \in Rotations : Standing(s)' <=> Standing(s)
        /\ dialog'[u] = d /\ \A v \in Users \ {u} : dialog'[v] = dialog[v]
    BY <1>1, <1>2, <1>4, <1>6, <1>7, TablesStay
  <1>10. ASSUME NEW s \in Rotations, Standing(s), s[1] = u
         PROVE  FALSE
    <2>1. s \in DOMAIN pending[u] /\ pending[u][s] \in Nat /\ now \in Nat
      BY <1>10, TableRows DEF Standing, Live, V3Inv, States3, Counts3
    <2>2. now < pending[u][s]
      BY <1>10, <2>1 DEF Standing, Live, Expired3
    <2>3. dialog[u].rotation = s /\ dialog[u].rotation = r
      BY <1>5, <2>1, <2>2 DEF OrderInv, OneLive
    <2> QED
      BY <1>1, <1>10, <2>3
  <1>11. \A s \in Rotations : Standing(s) => s[1] = Other(u)
    BY <1>10, OwnersAre, TwoUsers
  <1>12. OneWay'
    BY <1>9, <1>11 DEF OneWay
  <1>13. ConfirmedOnce'
    <2> SUFFICES ASSUME NEW c \in confirmed
                 PROVE  /\ c.nth <= accepts'[c.rotation]
                        /\ c.rotation \in DOMAIN pending[c.rotation[1]]
                             => <<c.rotation, "ACCEPT">> \in seen[c.rotation[1]]
      BY <1>1 DEF ConfirmedOnce
    <2>1. c.rotation \in Rotations /\ c.nth \in Nat
      BY DEF V3Inv, Counts3, NewKeys
    <2>2. /\ c.nth <= accepts[c.rotation]
          /\ c.rotation \in DOMAIN pending[c.rotation[1]]
                => <<c.rotation, "ACCEPT">> \in seen[c.rotation[1]]
      BY DEF OrderInv, ConfirmedOnce
    <2>3. accepts[c.rotation] <= accepts'[c.rotation] /\ accepts[c.rotation] \in Nat
          /\ accepts'[c.rotation] \in Nat
      BY <1>3, <1>6, <2>1
    <2> QED
      BY <2>1, <2>2, <2>3
  <1>14. ASSUME Regular'
         PROVE  Lost' \/ Agreed'
    <2>1. accepts[r] = 0 /\ Regular
      <3>1. \A s \in Rotations : accepts'[s] <= 1
        BY <1>14 DEF Regular
      <3>2. accepts[r] = 0
        BY <1>3, <3>1
      <3>3. \A s \in Rotations : accepts[s] <= 1
        BY <1>3, <3>1, <3>2
      <3> QED
        BY <1>1, <1>14, <3>2, <3>3 DEF Regular
    <2>2. k = [rotation |-> r, nth |-> 1] /\ k \notin confirmed
      <3>1. k = [rotation |-> r, nth |-> 1]
        BY <1>8, <2>1
      <3>2. k \notin confirmed
        <4>1. k.nth = 1 /\ k.rotation = r
          BY <3>1
        <4>2. ~(k.nth <= accepts[k.rotation])
          BY <2>1, <4>1
        <4> QED
          BY <4>2 DEF OrderInv, ConfirmedOnce
      <3> QED
        BY <3>1, <3>2
    <2>3. Unconfirmed' = Unconfirmed \union {r} /\ r \notin Unconfirmed
      BY <1>1, <1>3, <2>1, <2>2 DEF Unconfirmed
    <2>4. CASE Lost
      <3>1. PICK s \in Unconfirmed : ~Standing(s)
        BY <2>4 DEF Lost
      <3>2. s \in Rotations
        BY DEF Unconfirmed
      <3> QED
        BY <1>9, <2>3, <3>1, <3>2 DEF Lost
    <2>5. CASE ~Standing(r)
      BY <1>9, <2>3, <2>5 DEF Lost
    <2>6. CASE ~Lost /\ Standing(r)
      <3>1. ASSUME NEW s \in Unconfirmed
            PROVE  FALSE
        <4>1. s \in Rotations /\ Standing(s) /\ s # r
          BY <2>3, <2>6 DEF Lost, Unconfirmed
        <4>2. s[1] = Other(u) /\ r[1] = Other(u) /\ Other(u) \in Users
          BY <1>11, <2>6, <4>1, OtherIsUser
        <4> DEFINE o == Other(u)
        <4>3. /\ s \in DOMAIN pending[o] /\ ~Expired3(pending[o][s])
              /\ r \in DOMAIN pending[o] /\ ~Expired3(pending[o][r])
          BY <2>6, <4>1, <4>2 DEF Standing, Live
        <4>4. o \in Users
          BY <4>2
        <4> HIDE DEF o
        <4>5. pending[o][s] \in Nat /\ pending[o][r] \in Nat /\ now \in Nat
          BY <4>3, <4>4, TableRows DEF V3Inv, States3, Counts3
        <4>6. now < pending[o][s] /\ now < pending[o][r]
          BY <4>3, <4>5 DEF Expired3
        <4>7. dialog[o].rotation = s /\ dialog[o].rotation = r
          BY <4>3, <4>4, <4>6 DEF OrderInv, OneLive
        <4> QED
          BY <4>1, <4>7
      <3>2. Unconfirmed' = {r}
        BY <2>3, <3>1
      <3>3. Other(r[1]) = u
        BY <1>1, OwnersAre, TwoUsers
      <3> QED
        BY <1>2, <1>9, <2>2, <3>2, <3>3 DEF Agreed
    <2> QED
      BY <2>4, <2>5, <2>6
  <1> QED
    BY <1>9, <1>12, <1>13, <1>14 DEF OrderInv, Converging

(* The answer an initiator confirms is the one acceptance of its rotation, and
   who accepted it has had that key since. *)
LEMMA AnswerOrder ==
  ASSUME V3Inv, V3Inv', OrderInv, NEW u \in Users, NEW m \in sent[Other(u)],
         Handle(u, m), ProcessAccept(u, m)
  PROVE  OrderInv'
  <1> DEFINE r == m.rotation
             k == [rotation |-> r, nth |-> m.arg]
             d == [State(u) EXCEPT !.key = k]
             n == Plain("CONFIRM", r)
             S == {n}
  <1>1. /\ <<r, "ACCEPT">> \notin seen[u]
        /\ seen' = [seen EXCEPT ![u] = @ \union {<<r, "ACCEPT">>}]
        /\ m.type = "ACCEPT"
        /\ UNCHANGED <<accepts, pending, deleted, now>>
    BY DEF Handle, ProcessAccept
  <1>2. \A v \in Users : seen[v] \subseteq seen'[v]
    BY <1>1 DEF V3Inv, Mail3
  <1>3. /\ r \in Rotations /\ Other(u) \in Users
        /\ r[1] = u /\ m.arg \in 1..accepts[r] /\ accepts[r] \in Nat
    <2>1. r \in Rotations /\ Other(u) \in Users
      BY OtherIsUser DEF V3Inv, Mail3, Numbered, Message
    <2>2. r[1] # Other(u) /\ m.arg \in 1..accepts[r]
      BY <1>1, <2>1 DEF OrderInv, Letters
    <2>3. r[1] = u
      BY <2>1, <2>2, OwnersAre, TwoUsers
    <2> QED
      BY <2>1, <2>2, <2>3 DEF V3Inv, Counts3
  <1>4. CASE ~Live(u, r)
    <2>1. UNCHANGED <<dialog, sent, confirmed>>
      BY <1>4 DEF ProcessAccept
    <2>2. now \in Nat /\ now' = now /\ now <= now'
      BY <1>1 DEF V3Inv, Counts3
    <2> QED
      BY <1>1, <1>2, <2>1, <2>2, Fading
  <1>5. CASE Live(u, r)
    <2>1. /\ dialog' = [dialog EXCEPT ![u] = d]
          /\ sent' = [sent EXCEPT ![u] = @ \union S]
          /\ confirmed' = confirmed \union {k}
      BY <1>5 DEF ProcessAccept, SaveState, Send
    <2>2. d.key = k /\ d.rotation = dialog[u].rotation /\ d.expires = dialog[u].expires
      BY DEF State, V3Inv, States3, Dialog
    <2>3. n.type # "REQUEST" /\ n.type # "ACCEPT" /\ S \in SUBSET {n}
      BY DEF Plain
    <2>4. k = [rotation |-> r, nth |-> m.arg] /\ k.rotation = r /\ k.nth = m.arg
      OBVIOUS
    <2>5. \A s \in Rotations : accepts'[s] \in Nat /\ accepts[s] <= accepts'[s]
                               /\ ~(accepts'[s] > accepts[s])
      BY <1>1 DEF V3Inv, Counts3
    <2>6. Standing(r)
      BY <1>3, <1>5 DEF Standing
    <2> HIDE DEF d, n, S, k, r
    <2>7. /\ OneLive' /\ Letters' /\ Begun'
          /\ \A s \in Rotations : Standing(s)' <=> Standing(s)
          /\ dialog'[u] = d /\ \A v \in Users \ {u} : dialog'[v] = dialog[v]
      BY <1>1, <2>1, <2>2, <2>3, <2>5, TablesStay
    <2>8. OneWay'
      BY <1>1, <2>7 DEF OrderInv, OneWay
    <2>9. ConfirmedOnce'
      <3> SUFFICES ASSUME NEW c \in confirmed \union {k}
                   PROVE  /\ c.nth <= accepts[c.rotation]
                          /\ c.rotation \in DOMAIN pending[c.rotation[1]]
                               => <<c.rotation, "ACCEPT">> \in seen'[c.rotation[1]]
        BY <1>1, <2>1 DEF ConfirmedOnce
      <3>1. CASE c = k
        <4>1. <<r, "ACCEPT">> \in seen'[u]
          BY <1>1 DEF V3Inv, Mail3
        <4> QED
          BY <1>3, <2>4, <3>1, <4>1
      <3>2. CASE c \in confirmed
        <4>1. c.rotation \in Rotations /\ c.rotation[1] \in Users
          BY <3>2, OwnersAre DEF V3Inv, Counts3, NewKeys
        <4> QED
          BY <1>2, <3>2, <4>1 DEF OrderInv, ConfirmedOnce
      <3> QED
        BY <3>1, <3>2
    <2>10. ASSUME Regular'
           PROVE  Lost' \/ Agreed'
      <3>1. Regular /\ accepts[r] = 1 /\ m.arg = 1
        <4>1. Regular /\ accepts[r] <= 1
          BY <1>1, <1>3, <2>10 DEF Regular
        <4> QED
          BY <1>3, <4>1
      <3>2. k = [rotation |-> r, nth |-> 1] /\ k \notin confirmed
        <4>1. k \notin confirmed
          <5>1. r \in DOMAIN pending[u]
            BY <1>5 DEF Live
          <5> QED
            BY <1>1, <1>3, <2>4, <5>1 DEF OrderInv, ConfirmedOnce
        <4> QED
          BY <2>4, <3>1, <4>1
      <3>3. r \in Unconfirmed /\ Unconfirmed' = Unconfirmed \ {r}
        BY <1>1, <1>3, <2>1, <3>1, <3>2 DEF Unconfirmed
      <3>4. CASE Lost
        <4>1. PICK s \in Unconfirmed : ~Standing(s)
          BY <3>4 DEF Lost
        <4>2. s \in Rotations /\ s # r
          BY <2>6, <4>1 DEF Unconfirmed
        <4> QED
          BY <2>7, <3>3, <4>1, <4>2 DEF Lost
      <3>5. CASE ~Lost
        <4>1. ASSUME NEW s \in Unconfirmed
              PROVE  s = r
          <5>1. s \in Rotations /\ Standing(s) /\ accepts[s] > 0
            BY <3>5 DEF Lost, Unconfirmed
          <5>2. s[1] = u
            BY <1>3, <2>6, <3>1, <5>1 DEF OrderInv, OneWay
          <5>3. /\ s \in DOMAIN pending[u] /\ ~Expired3(pending[u][s])
                /\ r \in DOMAIN pending[u] /\ ~Expired3(pending[u][r])
            BY <1>5, <5>1, <5>2 DEF Standing, Live
          <5>4. pending[u][s] \in Nat /\ pending[u][r] \in Nat /\ now \in Nat
            BY <5>3, TableRows DEF V3Inv, States3, Counts3
          <5>5. now < pending[u][s] /\ now < pending[u][r]
            BY <5>3, <5>4 DEF Expired3
          <5> QED
            BY <5>3, <5>5 DEF OrderInv, OneLive
        <4>2. Unconfirmed' = {}
          BY <3>3, <4>1
        <4>3. Agreed
          BY <3>1, <3>5 DEF OrderInv, Converging
        <4>4. dialog[Other(u)].key = k
          BY <1>3, <3>2, <3>3, <4>3 DEF Agreed
        <4>5. \A v \in Users : dialog'[v].key = k
          <5>1. dialog'[u].key = k
            BY <2>2, <2>7
          <5>2. Other(u) # u /\ \A v \in Users : v # u => v = Other(u)
            BY TwoUsers
          <5> QED
            BY <1>3, <2>7, <4>4, <5>1, <5>2
        <4> QED
          BY <4>2, <4>5 DEF Agreed
      <3> QED
        BY <3>4, <3>5
    <2> QED
      BY <2>7, <2>8, <2>9, <2>10 DEF OrderInv, Converging
  <1> QED
    BY <1>4, <1>5

LEMMA OrderStep == V3Inv /\ V3Inv' /\ OrderInv /\ [V3Next]_<<v3Vars, now>> => OrderInv'
  <1> SUFFICES ASSUME V3Inv, V3Inv', OrderInv, [V3Next]_<<v3Vars, now>> PROVE OrderInv'
    OBVIOUS
  <1>1. ASSUME NEW u \in Users, ReceiveSystem(u) PROVE OrderInv'
    <2>1. PICK m \in sent[Other(u)] : Handle(u, m)
      BY <1>1 DEF ReceiveSystem
    <2>2. \/ ProcessRequest(u, m) \/ ProcessAccept(u, m)
          \/ ProcessComplete(u, m) \/ ProcessEnd(u, m)
      BY <2>1 DEF Handle
    <2> QED
      BY <2>1, <2>2, RequestOrder, AnswerOrder, CompleteOrder, EndOrder
  <1>2. ASSUME NEW u \in Users,
               \/ \E r \in Rotations : Initiate(u, r) \/ Accept(u, r) \/ Reject(u, r)
               \/ \E told \in BOOLEAN : CheckExpired(u, told)
               \/ SendText(u) \/ ReceiveText(u) \/ V3Restart(u) \/ DeleteDialogState(u)
        PROVE  OrderInv'
    BY <1>2, InitiateOrder, AcceptOrder, RejectOrder, ExpiredOrder, UseOrder,
       RestartOrder, DeleteOrder DEF SendText, ReceiveText
  <1>3. CASE V3Tick
    <2>1. now \in Nat /\ now' \in Nat /\ now <= now'
      BY <1>3 DEF V3Tick, Tick, V3Inv, Counts3
    <2>2. UNCHANGED v3Vars
      BY <1>3 DEF V3Tick
    <2> QED
      BY <2>1, <2>2, Fading DEF v3Vars
  <1>4. CASE UNCHANGED <<v3Vars, now>>
    <2>1. now \in Nat /\ now' \in Nat /\ now <= now'
      BY <1>4 DEF V3Inv, Counts3
    <2> QED
      BY <1>4, <2>1, Fading DEF v3Vars
  <1> QED
    BY <1>1, <1>2, <1>3, <1>4 DEF V3Next

(* Which rotations are live, who waits for which, what their messages promise and
   whose keys agree, in every reachable state. *)
THEOREM OrderInvariance == V3Spec => [](V3Inv /\ OrderInv)
  <1>1. V3Init /\ now = 0 => V3Inv /\ OrderInv
    BY V3InvInit, OrderInit
  <1>2. (V3Inv /\ OrderInv) /\ [V3Next]_<<v3Vars, now>> => (V3Inv /\ OrderInv)'
    BY V3InvStep, OrderStep
  <1> QED
    BY <1>1, <1>2, PTL DEF V3Spec

LEMMA ConvergingAgrees == V3Inv /\ OrderInv => ConfirmedAgree
  <1> SUFFICES ASSUME V3Inv, OrderInv,
                      \A r \in Rotations : accepts[r] <= 1,
                      \A r \in Rotations : accepts[r] = 1 => [rotation |-> r, nth |-> 1] \in confirmed,
                      deleted = {}
               PROVE  \A u, p \in Users : dialog[u].key = dialog[p].key
    BY DEF ConfirmedAgree
  <1>1. Unconfirmed = {} /\ Regular
    BY DEF Unconfirmed, Regular
  <1> QED
    BY <1>1 DEF OrderInv, Converging, Lost, Agreed

(* For any lifetimes and any number of rotations, restarts and messages that
   cross, are lost, late or repeated: when every acceptance has been confirmed, no
   rotation was accepted twice and no dialog was deleted, both users have one key. *)
THEOREM ConfirmedKeysAgree == V3Spec => []ConfirmedAgree
  BY OrderInvariance, ConvergingAgrees, PTL
=============================================================================
