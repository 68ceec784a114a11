---------------------------- MODULE CircularBuf ----------------------------
(***************************************************************************)
(* CircularBuf of include/circular-buffer.hpp and src/circular-buffer.cpp: *)
(* an array addressed through two counters that only their masking brings  *)
(* back into the array.  Calls are atomic here; the locks around them are  *)
(* those of Socket.                                                        *)
(***************************************************************************)
EXTENDS Integers, Sequences, SequencesExt

CONSTANTS
  Requested,       (* the `capacity` argument of the constructor           *)
  DefaultCapacity, (* 1024 in the code                                     *)
  W32,             (* 2^32 in the code: the width of a uint32_t            *)
  Bytes,
  Zero,            (* the byte that clear() stores                         *)
  Junk,            (* a cell that nothing was written to                   *)
  Initial,         (* data that the buffer may be constructed with         *)
  Inputs,          (* data passed to write(std::vector<char>&)             *)
  MultiDelims,     (* delimiters passed to read_to(const std::string&)     *)
  SteadySource,    (* a source that had too little to fill the first piece *)
                   (* of a split write has nothing for the second either   *)
  MaxIndex         (* bound of the two counters, for TLC                   *)

(* get_capacity: the test c & (c - 1) accepts the powers of two.           *)
Capacity ==
  IF \E k \in 0 .. Requested : 2^k = Requested THEN Requested
                                               ELSE DefaultCapacity

ASSUME BufferAssumption ==
  /\ Requested \in Nat \ {0}
  /\ DefaultCapacity \in Nat \ {0}
  /\ W32 \in Nat \ {0}
  /\ W32 % Capacity = 0
  /\ Zero \in Bytes
  /\ Junk \notin Bytes
  /\ Initial \subseteq Seq(Bytes)
  /\ Inputs \subseteq Seq(Bytes)

VARIABLES
  buf,     (* the array, as if it had `Capacity` cells                     *)
  r, w,    (* the bytes read and written so far                            *)
  ret      (* the bytes that the last call handed out or took in           *)

vars == <<buf, r, w, ret>>

Mask(i) == i % Capacity
Size    == w - r
Space   == Capacity - Size
Full    == Size = Capacity
Content == [i \in 1 .. Size |-> buf[Mask(r + i - 1)]]

TypeOK ==
  /\ buf \in [0 .. Capacity - 1 -> Bytes \cup {Junk}]
  /\ r \in Nat /\ w \in Nat
  /\ Size \in 0 .. Capacity
  /\ ret \in Seq(Bytes \cup {Junk})

(* The data constructors copy into the array and leave the counters alone. *)
Init ==
  \E d \in Initial :
    /\ buf = [i \in 0 .. Capacity - 1 |-> IF i < Len(d) THEN d[i + 1] ELSE Junk]
    /\ r = 0
    /\ w = 0
    /\ ret = d

-----------------------------------------------------------------------------
(* n calls of shift().                                                     *)
Shift(n) ==
  /\ ret' = SubSeq(Content, 1, n)
  /\ r' = r + n
  /\ UNCHANGED <<buf, w>>

(* A limit beyond the size stands for the size.                            *)
Read(lim) == Shift(IF lim > Size THEN Size ELSE lim)

(* Up to the delimiter, included, or everything when it does not occur.    *)
ReadTo(delim) ==
  LET hits == {i \in 1 .. Size : Content[i] = delim}
  IN  Shift(IF hits = {} THEN Size
            ELSE CHOOSE i \in hits : \A j \in hits : i <= j)

(* The comparison at position i looks at bytes i, i + 1, ... of a vector   *)
(* in which only the first i have been shifted and the others are zero.    *)
ReadToString(delim) ==
  LET seen(i, k) == IF k <= i THEN Content[k] ELSE Zero
      hits == {i \in 1 .. Size :
                 /\ i - 1 + Len(delim) <= Size
                 /\ \A k \in 1 .. Len(delim) : delim[k] = seen(i, i - 1 + k)}
  IN  Shift(IF hits = {} THEN Size
            ELSE CHOOSE i \in hits : \A j \in hits : i <= j)

(* Mutant: the write index is not taken back.                              *)
ReadFromOnly(offset) ==
  IF offset >= Size
    THEN ret' = <<>> /\ UNCHANGED <<buf, r, w>>
    ELSE /\ ret' = SubSeq(Content, offset + 1, Size)
         /\ r' = r % W32
         /\ UNCHANGED <<buf, w>>

(* The read index passes through a uint32_t.                               *)
ReadFrom(offset) ==
  IF offset >= Size
    THEN ret' = <<>> /\ UNCHANGED <<buf, r, w>>
    ELSE /\ ret' = SubSeq(Content, offset + 1, Size)
         /\ r' = r % W32
         /\ w' = r' + offset
         /\ UNCHANGED buf

-----------------------------------------------------------------------------
Store(b, from, d) ==
  [i \in DOMAIN b |->
     IF i - from + 1 \in DOMAIN d THEN d[i - from + 1] ELSE b[i]]

(* Mutant: push() does not look whether the buffer is full.                *)
WriteUnbounded(data) ==
  /\ w + Len(data) <= MaxIndex
  /\ buf' = Store(buf, Mask(w), data)
  /\ w' = w + Len(data)
  /\ ret' = data
  /\ UNCHANGED r

(* push() of one byte after the other until the buffer is full.            *)
Write(data) ==
  LET n == IF Len(data) <= Space THEN Len(data) ELSE Space
  IN  /\ w + n <= MaxIndex
      /\ buf' = [i \in DOMAIN buf |->
                   IF \E k \in 0 .. n - 1 : Mask(w + k) = i
                     THEN data[1 + CHOOSE k \in 0 .. n - 1 : Mask(w + k) = i]
                     ELSE buf[i]]
      /\ w' = w + n
      /\ ret' = SubSeq(data, 1, n)
      /\ UNCHANGED r

(* What a callback asked for at most n bytes may deliver.                  *)
Delivery(n) == UNION {[1 .. k -> Bytes] : k \in 0 .. n}

(* write(cb, n): the callback writes to the array itself.  The free space  *)
(* is one piece, or two that it is called for in turn, the second time at  *)
(* the start of the array however much it delivered the first time.        *)
WriteCallback(lim) ==
  LET n     == IF lim < Space THEN lim ELSE Space
      end   == Capacity - Mask(w)
      piece == IF n < end THEN n ELSE end
      one   == Mask(w) < Mask(r) \/ Mask(r) = 0
  IN  /\ ~Full
      /\ \E d1 \in Delivery(IF one THEN n ELSE piece) :
         \E d2 \in IF one \/ Len(d1) >= n THEN {<<>>}
                   ELSE Delivery(IF n - Len(d1) < Mask(r) THEN n - Len(d1)
                                                         ELSE Mask(r)) :
           /\ SteadySource /\ Len(d1) < piece => d2 = <<>>
           /\ w + Len(d1) + Len(d2) <= MaxIndex
           /\ buf' = Store(Store(buf, Mask(w), d1), 0, d2)
           /\ w' = w + Len(d1) + Len(d2)
           /\ ret' = d1 \o d2
           /\ UNCHANGED r

(* Socket::read_buffer when the delimiter is not there: read_to has taken  *)
(* everything, which is written back where the reading ended.              *)
ReadBuffer(delim) ==
  /\ Size > 0
  /\ w + Size <= MaxIndex
  /\ \A i \in 1 .. Size : Content[i] # delim
  /\ buf' = [i \in DOMAIN buf |->
               IF \E k \in 1 .. Size : Mask(w + k - 1) = i
                 THEN Content[CHOOSE k \in 1 .. Size : Mask(w + k - 1) = i]
                 ELSE buf[i]]
  /\ r' = w
  /\ w' = w + Size
  /\ ret' = <<>>

Clear ==
  /\ buf' = [i \in DOMAIN buf |-> Zero]
  /\ r' = 0
  /\ w' = 0
  /\ ret' = <<>>

Next ==
  \/ \E n \in 0 .. Capacity + 1 : Read(n) \/ ReadFrom(n) \/ WriteCallback(n)
  \/ \E b \in Bytes : ReadTo(b) \/ ReadBuffer(b)
  \/ \E d \in MultiDelims : ReadToString(d)
  \/ \E d \in Inputs : Write(d)
  \/ Clear

Spec == Init /\ [][Next]_vars

-----------------------------------------------------------------------------
(* The buffer is a first-in first-out queue of bytes: whatever the mix of  *)
(* wrapped and split writes, delimited reads, truncations and a truncated  *)
(* read index, a reader gets the bytes that were written, in order, once.  *)
Abstract == INSTANCE ByteQueue WITH content <- Content

ImplementsByteQueue == Abstract!Spec

(* A write, by whatever source, changes no byte that is not yet read.      *)
UnreadIsKept ==
  [][(w' > w /\ r' = r) => \A i \in 1 .. Size : Content'[i] = Content[i]]_vars

(* The callback's first argument is the first available byte: what a write *)
(* delivered is found behind what the buffer held.                         *)
SplitWriteIsContiguous ==
  [][(w' > w /\ r' = r) => Content' = Content \o ret']_vars

=============================================================================
