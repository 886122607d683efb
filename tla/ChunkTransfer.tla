--------------------------- MODULE ChunkTransfer ---------------------------
(***************************************************************************)
(* What the transfer phase of an update promises, without reports, queues, *)
(* sequence numbers or retries.  The sender counts the chunks it believes  *)
(* delivered; the receiver has a stream.  A chunk may be received more     *)
(* than once, which ruins the stream for good, and the sender counts a     *)
(* chunk only when the receiver has it.  The receiver accepts nothing but  *)
(* the whole image.                                                        *)
(***************************************************************************)
EXTENDS Integers

CONSTANT ChunkCount
VARIABLES acked, stream, accepted
vars == <<acked, stream, accepted>>

Garbled == -1
CrcUpdate(crc, c) == IF c = crc + 1 THEN c ELSE Garbled

Init == acked = 0 /\ stream = 0 /\ accepted = FALSE

\* The chunk under way arrives, or the one before it arrives again.
Receive == /\ ~accepted
           /\ \E c \in {acked, acked + 1} \cap 1..ChunkCount :
                 stream' = CrcUpdate(stream, c)
           /\ UNCHANGED <<acked, accepted>>

Acknowledge == /\ acked < ChunkCount /\ stream \in {acked + 1, Garbled}
               /\ acked' = acked + 1
               /\ UNCHANGED <<stream, accepted>>

Accept == /\ ~accepted /\ acked = ChunkCount /\ stream = ChunkCount
          /\ accepted' = TRUE
          /\ UNCHANGED <<acked, stream>>

\* The transfer ends, used or not, and the next one starts from nothing.
Finish == acked' = 0 /\ stream' = 0 /\ accepted' = FALSE

Next == Receive \/ Acknowledge \/ Accept \/ Finish

Spec == Init /\ [][Next]_vars
=============================================================================
