------------------------------ MODULE DelayLine ------------------------------
(***************************************************************************)
(* The delay lines of the anti-howl chain (include/mutap/afc_chain.h,      *)
(* advance(), ring_read() and ring_write()): a ring of `size' samples,     *)
(* size at least the block, indexed from 0, and a position in it.  Blocks  *)
(* are sequences.                                                          *)
(***************************************************************************)
EXTENDS Integers, Sequences

(* Where the i-th sample from pos lies, i counted from 0 and below size. *)
Slot(pos, i, size) == IF i < size - pos THEN pos + i ELSE i - (size - pos)

(* Mutant: the position never wraps. *)
AdvanceUnwrapped(pos, b, size) == pos + b

Advance(pos, b, size) == IF pos + b >= size THEN pos + b - size ELSE pos + b

RingRead(ring, pos, b, size) == [i \in 1..b |-> ring[Slot(pos, i - 1, size)]]

(* Mutant: what does not fit before the end of the ring is dropped. *)
RingWriteCut(ring, pos, src, size) ==
  [k \in 0..size-1 |-> IF k >= pos /\ k - pos < Len(src) THEN src[k - pos + 1]
                       ELSE ring[k]]

(* The first part up to the end of the ring, the rest from its start. *)
RingWrite(ring, pos, src, size) ==
  LET first == IF size - pos < Len(src) THEN size - pos ELSE Len(src)
  IN [k \in 0..size-1 |->
        IF k >= pos /\ k - pos < first THEN src[k - pos + 1]
        ELSE IF k < Len(src) - first THEN src[first + k + 1]
        ELSE ring[k]]

(* All of a ring, in the order it is read from pos on. *)
Line(ring, pos, size) == RingRead(ring, pos, size, size)

===============================================================================
