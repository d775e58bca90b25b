---------------------------- MODULE BoundedFifo -----------------------------
(***************************************************************************)
(* What a dual-clock FIFO promises to its two users: a queue of at most    *)
(* Depth words, delivered once and in order, with a full flag and an empty *)
(* flag that may be late but never err on the dangerous side, and a sticky *)
(* alarm for every word that was refused.                                  *)
(*                                                                         *)
(* AsyncFifo implements this specification; ReadoutAxi is built on it.     *)
(***************************************************************************)
EXTENDS Naturals, Sequences

CONSTANTS Depth,    \* how many words fit, at least one
          Data      \* the words

VARIABLES queue,    \* the words accepted and not yet popped, oldest first
          full,     \* the write side's flag
          empty,    \* the read side's flag
          overflow  \* sticky: a word was refused

fifoVars == <<queue, full, empty, overflow>>

FifoInit ==
  /\ queue = <<>>
  /\ full = FALSE
  /\ empty = TRUE
  /\ overflow = FALSE

\* A flag may stay up longer than it must, and rises only on an access.
Flag(was, access, must) == {f \in BOOLEAN : (must => f) /\ (f => was \/ access)}

\* A write clock edge, with wr_en = en and wr_data = word. The flag is down
\* only when there is room.
WriteEdge(en, word) ==
  /\ queue' = IF en /\ ~full THEN Append(queue, word) ELSE queue
  /\ overflow' = (overflow \/ (en /\ full))
  /\ full' \in Flag(full, en, Len(queue') = Depth)
  /\ UNCHANGED empty

\* A read clock edge, with rd_en = en. The flag is down only when there is a
\* word.
ReadEdge(en) ==
  /\ queue' = IF en /\ ~empty THEN Tail(queue) ELSE queue
  /\ empty' \in Flag(empty, en, queue' = <<>>)
  /\ UNCHANGED <<full, overflow>>

FifoNext ==
  \/ \E en \in BOOLEAN, word \in Data : WriteEdge(en, word)
  \/ \E en \in BOOLEAN : ReadEdge(en)

FifoSpec == FifoInit /\ [][FifoNext]_fifoVars

-----------------------------------------------------------------------------
\* The promise is kept by the abstract queue itself: the flags are safe.
FlagsSafe ==
  /\ Len(queue) <= Depth
  /\ ~full => Len(queue) < Depth
  /\ ~empty => queue # <<>>
=============================================================================
