----------------------------- MODULE ByteQueue -----------------------------
(***************************************************************************)
(* What include/circular-buffer.hpp promises: a bounded first-in first-out *)
(* queue of bytes, which can also be truncated from an offset on.          *)
(***************************************************************************)
EXTENDS Naturals, Sequences

CONSTANTS
  Bytes,
  Capacity

VARIABLES
  content,   (* the bytes written and not yet read                         *)
  ret        (* the bytes the last call took from or gave to its caller    *)

vars == <<content, ret>>

TypeOK ==
  /\ content \in Seq(Bytes)
  /\ Len(content) <= Capacity
  /\ ret \in Seq(Bytes)

(* A buffer may be created with data.                                      *)
Init ==
  /\ TypeOK
  /\ content = ret

(* A write takes what its caller brings, or the part that fits.            *)
Write ==
  /\ ret' \in Seq(Bytes)
  /\ content' = content \o ret'
  /\ Len(content') <= Capacity

Read ==
  \E n \in 0 .. Len(content) :
    /\ ret' = SubSeq(content, 1, n)
    /\ content' = SubSeq(content, n + 1, Len(content))

(* Takes everything from an offset on.                                     *)
Truncate ==
  \E n \in 0 .. Len(content) :
    /\ ret' = SubSeq(content, n + 1, Len(content))
    /\ content' = SubSeq(content, 1, n)

Clear ==
  /\ content' = <<>>
  /\ ret' = <<>>

Next == Write \/ Read \/ Truncate \/ Clear

Spec == Init /\ [][Next]_vars

=============================================================================
