------------------------------- MODULE Files -------------------------------
(***************************************************************************)
(* FileStorage: files that are uploaded whole and files that are put       *)
(* together from numbered packets, all in memory.  Nothing is awaited      *)
(* under its lock.  add_packet() has no caller outside its class yet.      *)
(* A packet stands for its bytes, the first one for the name too; the      *)
(* number of packets is part of a message.                                 *)
(***************************************************************************)
EXTENDS Naturals, FiniteSets

CONSTANTS
    FileIds,          \* bound: ids of files
    FileMessages,     \* messages that carry a file in packets
    Packets,          \* how many packets a message has
    Oversized         \* messages whose packets make more than MAX_FILE_SIZE_BYTES

ASSUME FilesAssumption ==
    Packets \in [FileMessages -> Nat \ {0}] /\ Oversized \subseteq FileMessages

VARIABLES
    files,      \* _files and _metadata
    packets     \* _pending_packets of a message: the numbers that came

fileVars == <<files, packets>>

NoMessage == {}

FilesInit == files = {} /\ packets = [m \in FileMessages |-> {}]

FreshFile(id) == \A f \in files : f.id # id

\* A file of MAX_FILE_SIZE_BYTES or less.
Upload(id) ==
    /\ FreshFile(id)
    /\ files' = files \union {[id |-> id, of |-> NoMessage, parts |-> {}, named |-> TRUE]}
    /\ UNCHANGED packets

DeleteFile(f) == files' = files \ {f} /\ UNCHANGED packets

\* A packet too early.
Complete_mut(m, came) == Cardinality(came) + 1 >= Packets[m]
Complete(m, came) == Cardinality(came) = Packets[m]

\* After the last packet nothing is kept of the message, so a packet that is
\* repeated later begins it anew and may stay for ever.
AddPacket(m, seq, id) ==
    LET came == packets[m] \union {seq}
    IN  /\ FreshFile(id)
        /\ IF Complete(m, came)
           THEN /\ packets' = [packets EXCEPT ![m] = {}]
                /\ files' = IF m \in Oversized THEN files
                            ELSE files \union {[id |-> id, of |-> {m}, parts |-> came,
                                                named |-> 1 \in came]}
           ELSE packets' = [packets EXCEPT ![m] = came] /\ UNCHANGED files

FilesRestart == files' = {} /\ packets' = [m \in FileMessages |-> {}]

FilesNext ==
    \/ \E id \in FileIds :
          \/ Upload(id)
          \/ \E m \in FileMessages : \E seq \in 1..Packets[m] : AddPacket(m, seq, id)
    \/ \E f \in files : DeleteFile(f)
    \/ FilesRestart

FilesSpec == FilesInit /\ [][FilesNext]_fileVars

-----------------------------------------------------------------------------
FilesTypeOK ==
    /\ \A f \in files : f.id \in FileIds /\ f.of \subseteq FileMessages
    /\ packets \in [FileMessages -> SUBSET Nat]

\* A file that was put together has every packet of its message and its name,
\* in whatever order and how often the packets came, and none is too large.
FilesWhole ==
    \A f \in files : \A m \in f.of :
        f.parts = 1..Packets[m] /\ f.named /\ m \notin Oversized
=============================================================================
