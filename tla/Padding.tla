------------------------------ MODULE Padding ------------------------------
(***************************************************************************)
(* The messages of the Python client as ClientCrypto makes them: encrypted *)
(* with the key of their direction and the phrase, if there is one, and    *)
(* padded, so that the size of a short text does not show.  The size of a  *)
(* padding depends on a byte of the key, which a counter chooses, and on   *)
(* the padding before.  The chat screen keeps counter and padding of what  *)
(* it sends, and learns the counter again from the history.                *)
(*                                                                         *)
(* Keys are named by their direction.  Of a text only its numbers of       *)
(* characters and of bytes are kept, and ciphertexts are opened whole or   *)
(* not at all.  Texts that are too long to be sent are left out.           *)
(***************************************************************************)
EXTENDS Naturals

CONSTANTS
    Directions,        \* (session key, from, to), as a name
    KeyLength,         \* 32
    KeyByte,           \* the bytes of the key of a direction
    Texts,             \* records of chars and bytes
    Passphrases, NoPassphrase, NoText,
    PadMin, PadRange, PadBoost, PadMax, LongText,   \* config.py
    MaxCounter         \* bound: messages of a direction

ShortText == 20
Salt == 16
Nonce == 12
Tag == 16

ASSUME PaddingAssumption ==
    /\ KeyLength \in Nat \ {0} /\ PadRange \in Nat \ {0}
    /\ KeyByte \in [Directions -> [0..(KeyLength - 1) -> Nat]]
    /\ Texts \subseteq [chars : Nat, bytes : Nat]
    /\ NoText \notin Texts
    /\ {PadMin, PadBoost, PadMax, LongText, MaxCounter} \subseteq Nat
    /\ 0 < PadMin /\ PadMin <= PadMax

VARIABLES
    counter,       \* _message_counter of the chat screen of the sender
    lastPadding,   \* its _last_padding_size
    latest         \* the message it sent last, and its padding

paddingVars == <<counter, lastPadding, latest>>

Ciphertext == [key : Directions, phrase : Passphrases \union {NoPassphrase},
               text : Texts, size : Nat]

Nothing == [sent |-> FALSE]
Messages == [sent : {TRUE}, cipher : Ciphertext, padding : Nat] \union {Nothing}

-----------------------------------------------------------------------------
(* Sizes.                                                                   *)

\* The counters that ids of messages carry; an id of another form carries 0.
Counters == 0..MaxCounter

Less(m, n) == IF m < n THEN m ELSE n
Most(m, n) == IF m < n THEN n ELSE m

Boost(chars) == IF chars < ShortText THEN PadBoost ELSE 0

\* The result is not limited.
Limited_mut(n) == n + 1
Limited(n) == Less(n, PadMax)

\* Without a padding before, it counts as 0.
Mixed(d, count, before) == (before + KeyByte[d][count % KeyLength]) % PadRange

CalculatePaddingSize(d, count, chars, before) ==
    IF chars > LongText THEN 0
    ELSE Limited(PadMin + Mixed(d, count, before) + Boost(chars))

SealedSize(text, phrase) ==
    (IF phrase = NoPassphrase THEN 0 ELSE Salt) + Nonce + Tag + text.bytes

EncryptMessage(d, text, phrase) ==
    [key |-> d, phrase |-> phrase, text |-> text, size |-> SealedSize(text, phrase)]

AddPadding(c, target) == [c EXCEPT !.size = Most(@, target)]
RemovePadding(c, original) == [c EXCEPT !.size = Less(@, original)]

EncryptWithPadding(d, text, phrase, padding) ==
    LET bare == EncryptMessage(d, text, phrase)
    IN  AddPadding(bare, bare.size + padding)

\* Another key or phrase, or bytes too many or too few, and it does not open.
DecryptMessage(c, d, phrase) ==
    IF c.key = d /\ c.phrase = phrase /\ c.size = SealedSize(c.text, phrase)
    THEN c.text ELSE NoText

DecryptWithPadding(c, d, phrase, original) ==
    DecryptMessage(RemovePadding(c, original), d, phrase)

-----------------------------------------------------------------------------
(* The same format made by client/crypto, which receive() opens texts with. *)

AesEncrypt(d, text) ==
    [key |-> d, phrase |-> NoPassphrase, text |-> text, size |-> Nonce + Tag + text.bytes]
EncryptWithPhrase(d, text, phrase) ==
    [key |-> d, phrase |-> phrase, text |-> text,
     size |-> Salt + Nonce + Tag + text.bytes]
EncryptDirectional(d, text, phrase) ==
    IF phrase = NoPassphrase THEN AesEncrypt(d, text)
                             ELSE EncryptWithPhrase(d, text, phrase)

\* The size is that of the bytes.
EncryptDirectionalWithPadding(d, text, phrase, count, before) ==
    LET bare == EncryptDirectional(d, text, phrase)
    IN  AddPadding(bare, bare.size + CalculatePaddingSize(d, count, text.bytes, before))

AesDecrypt(c, d) ==
    IF c.key = d /\ c.phrase = NoPassphrase /\ c.size = Nonce + Tag + c.text.bytes
    THEN c.text ELSE NoText
DecryptWithPhrase(c, d, phrase) ==
    IF c.key = d /\ c.phrase = phrase /\ c.size = Salt + Nonce + Tag + c.text.bytes
    THEN c.text ELSE NoText
DecryptDirectional(c, d, phrase) ==
    IF phrase = NoPassphrase THEN AesDecrypt(c, d) ELSE DecryptWithPhrase(c, d, phrase)

DecryptDirectionalWithPadding(c, d, phrase, original) ==
    DecryptDirectional(RemovePadding(c, original), d, phrase)

-----------------------------------------------------------------------------
(* The chat screen.                                                         *)

PaddingInit ==
    /\ counter = [d \in Directions |-> 0]
    /\ lastPadding = [d \in Directions |-> 0]
    /\ latest = [d \in Directions |-> Nothing]

\* Nothing changes when it cannot be sent.
EncryptAndSend(d, text, phrase) ==
    LET padding == CalculatePaddingSize(d, counter[d], text.chars, lastPadding[d])
    IN  /\ counter[d] < MaxCounter
        /\ counter' = [counter EXCEPT ![d] = @ + 1]
        /\ lastPadding' = [lastPadding EXCEPT ![d] = padding]
        /\ latest' = [latest EXCEPT ![d] =
                         [sent |-> TRUE, padding |-> padding,
                          cipher |-> EncryptWithPadding(d, text, phrase, padding)]]

\* The counter follows the largest that an id of the history shows, the other
\* side's included; paddings are not in the history.
ReloadChat(d, shown) ==
    /\ counter' = [counter EXCEPT ![d] = shown]
    /\ lastPadding' = [lastPadding EXCEPT ![d] = 0]
    /\ UNCHANGED latest

\* _decrypt_message() of a message with its padding size, and without.
Opened(m, d, phrase) == DecryptWithPadding(m.cipher, d, phrase, m.cipher.size - m.padding)
OpenedFromHistory(m, d, phrase) == DecryptMessage(m.cipher, d, phrase)

PaddingNext ==
    \E d \in Directions :
        \/ \E text \in Texts, phrase \in Passphrases \union {NoPassphrase} :
              EncryptAndSend(d, text, phrase)
        \/ \E shown \in Counters : ReloadChat(d, shown)

PaddingSpec == PaddingInit /\ [][PaddingNext]_paddingVars

-----------------------------------------------------------------------------
PaddingTypeOK ==
    /\ counter \in [Directions -> Counters]
    /\ lastPadding \in [Directions -> {0} \union PadMin..PadMax]
    /\ latest \in [Directions -> Messages]

\* The latest message of a direction opens with its padding's size, and from the
\* history, which does not keep the size, only if it has no padding.
LatestOpens ==
    \A d \in Directions : LET m == latest[d]
                          IN  m.sent =>
        /\ Opened(m, d, m.cipher.phrase) = m.cipher.text
        /\ m.padding > 0 => OpenedFromHistory(m, d, m.cipher.phrase) = NoText
=============================================================================
