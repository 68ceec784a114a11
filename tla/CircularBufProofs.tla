------------------------- MODULE CircularBufProofs -------------------------
(***************************************************************************)
(* Proofs about CircularBuf for any capacity, bytes and data: the array    *)
(* and its two counters implement ByteQueue, if the counters' width is a   *)
(* multiple of the capacity.                                               *)
(***************************************************************************)
EXTENDS CircularBuf, SequenceTheorems, WellFoundedInduction, TLAPS

LEMMA CapacityType == Capacity \in Nat \ {0}
  BY BufferAssumption DEF Capacity

LEMMA Least ==
  ASSUME NEW T, T \subseteq Nat, T # {}
  PROVE  \E i \in T : \A j \in T : i <= j
<1>1. PICK i \in T : \A j \in T : ~ (<<j, i>> \in OpToRel(<, Nat))
  BY NatLessThanWellFounded, WFMin
<1>2. i \in Nat /\ \A j \in T : j \in Nat
  OBVIOUS
<1>3. ASSUME NEW j \in T, j < i
      PROVE  FALSE
  <2>1. <<j, i>> \in Nat \X Nat
    BY <1>2
  <2> QED
    BY <1>1, <1>3, <2>1 DEF OpToRel
<1> QED
  BY <1>2, <1>3

(* What remains of a sum after division.                                   *)
LEMMA ModUnique ==
  ASSUME NEW c \in Nat \ {0}, NEW q \in Nat, NEW s \in 0 .. c - 1
  PROVE  (c * q + s) % c = s
  OBVIOUS

LEMMA ModDef ==
  ASSUME NEW c \in Nat \ {0}, NEW a \in Nat
  PROVE  /\ a % c \in 0 .. c - 1
         /\ a \div c \in Nat
         /\ a = c * (a \div c) + (a % c)
  OBVIOUS

(* Masking is the way round an array.                                      *)
LEMMA MaskRange ==
  \A i \in Nat : Mask(i) \in 0 .. Capacity - 1
  BY CapacityType, ModDef DEF Mask

LEMMA MaskStep ==
  ASSUME NEW i \in Nat, NEW k \in Nat
  PROVE  /\ Mask(i) + k < Capacity => Mask(i + k) = Mask(i) + k
         /\ Capacity <= Mask(i) + k /\ Mask(i) + k < 2 * Capacity
              => Mask(i + k) = Mask(i) + k - Capacity
<1> DEFINE c == Capacity
           q == i \div c
<1>1. c \in Nat \ {0}
  BY CapacityType
<1> HIDE DEF c
<1>2. Mask(i) = i % c /\ Mask(i + k) = (i + k) % c
  BY DEF Mask, c
<1>3. i % c \in 0 .. c - 1 /\ q \in Nat /\ i = c * q + (i % c)
  BY <1>1, ModDef
<1>4. c * q \in Nat
  BY <1>1, <1>3
<1>5. ASSUME (i % c) + k < c
      PROVE  (i + k) % c = (i % c) + k
  <2>1. i + k = c * q + ((i % c) + k) /\ (i % c) + k \in 0 .. c - 1
    BY <1>1, <1>3, <1>4, <1>5
  <2> QED
    BY <1>1, <1>3, <2>1, ModUnique
<1>6. ASSUME c <= (i % c) + k, (i % c) + k < 2 * c
      PROVE  (i + k) % c = (i % c) + k - c
  <2> DEFINE u == q + 1
             s == (i % c) + k - c
  <2>1. u \in Nat /\ c * u = c * q + c
    BY <1>1, <1>3
  <2>2. s \in 0 .. c - 1
    BY <1>1, <1>3, <1>6
  <2>3. i + k = (c * q + c) + s
    BY <1>1, <1>3, <1>4
  <2>4. i + k = c * u + s
    BY <2>1, <2>3
  <2> HIDE DEF u, s
  <2>5. (c * u + s) % c = s
    BY <1>1, <2>1, <2>2, ModUnique
  <2> QED
    BY <2>4, <2>5 DEF s
<1> QED
  BY <1>2, <1>5, <1>6 DEF c

(* Less than one round apart, two indices have different cells.            *)
LEMMA MaskInjective ==
  ASSUME NEW i \in Nat, NEW j \in Nat, i < j, j < i + Capacity
  PROVE  Mask(i) # Mask(j)
<1> DEFINE k == j - i
<1>1. k \in Nat /\ k > 0 /\ k < Capacity /\ j = i + k
  BY CapacityType
<1>2. Mask(i) \in 0 .. Capacity - 1
  BY MaskRange
<1> HIDE DEF k
<1>3. \/ Mask(i + k) = Mask(i) + k
      \/ Mask(i + k) = Mask(i) + k - Capacity
  <2>1. Mask(i) + k < Capacity \/
        (Capacity <= Mask(i) + k /\ Mask(i) + k < 2 * Capacity)
    BY CapacityType, <1>1, <1>2
  <2> QED
    BY <1>1, <2>1, MaskStep
<1> QED
  BY CapacityType, <1>1, <1>2, <1>3

(* A read index that has passed through a uint32_t has the same cell.      *)
LEMMA MaskTruncated ==
  ASSUME NEW i \in Nat, NEW k \in Nat
  PROVE  i % W32 \in Nat /\ Mask((i % W32) + k) = Mask(i + k)
<1> DEFINE c == Capacity
           p == W32 \div c
           t == i % W32
           q == i \div W32
           d == t + k
           m == d \div c
<1>1. c \in Nat \ {0} /\ W32 \in Nat \ {0} /\ W32 % c = 0
  BY CapacityType, BufferAssumption
<1>2. Mask(t + k) = d % c /\ Mask(i + k) = (i + k) % c
  BY DEF Mask
<1> HIDE DEF c
<1>3. p \in Nat /\ W32 = c * p + (W32 % c)
  BY <1>1, ModDef
<1>4. W32 = c * p
  <2>1. c * p \in Nat
    BY <1>1, <1>3
  <2> QED
    BY <1>1, <1>3, <2>1
<1>5. t \in Nat /\ q \in Nat /\ i = W32 * q + t
  <2>1. t \in 0 .. W32 - 1 /\ q \in Nat /\ i = W32 * q + t
    BY <1>1, ModDef
  <2> QED
    BY <1>1, <2>1
<1> HIDE DEF p, t, q
<1>6. d \in Nat /\ m \in Nat /\ d % c \in 0 .. c - 1 /\ d = c * m + (d % c)
  <2>1. d \in Nat
    BY <1>5
  <2> HIDE DEF d
  <2> QED
    BY <1>1, <2>1, ModDef
<1>7. i + k = W32 * q + d
  <2>1. W32 * q \in Nat
    BY <1>1, <1>5
  <2> QED
    BY <1>5, <2>1
<1> HIDE DEF d, m
<1>8. W32 * q = c * (p * q)
  BY <1>1, <1>3, <1>4, <1>5
<1>9. p * q \in Nat
  BY <1>3, <1>5
<1> DEFINE n == p * q
<1>10. n \in Nat /\ W32 * q = c * n
  BY <1>8, <1>9
<1> HIDE DEF n
<1> DEFINE x == n + m
           e == d % c
<1>11. x \in Nat /\ c * x = c * n + c * m /\ c * n \in Nat /\ c * m \in Nat
  BY <1>1, <1>6, <1>10
<1>12. i + k = c * x + e
  <2>1. d = c * m + e /\ e \in Nat /\ d \in Nat
    BY <1>1, <1>6
  <2> HIDE DEF x, e
  <2> QED
    BY <1>7, <1>10, <1>11, <2>1
<1>13. e \in 0 .. c - 1
  BY <1>6
<1> HIDE DEF x, e
<1>14. (c * x + e) % c = e
  BY <1>1, <1>11, <1>13, ModUnique
<1>15. (i + k) % c = e
  BY <1>12, <1>14
<1> QED
  BY <1>2, <1>5, <1>15 DEF t, d, e

-----------------------------------------------------------------------------
(* The n cells of array b from index i on.                                 *)
Cells(b, i, n) == [k \in 1 .. n |-> b[Mask(i + k - 1)]]

Array(S) == [0 .. Capacity - 1 -> S]

LEMMA ContentIsCells == Content = Cells(buf, r, Size)
  BY DEF Content, Cells

LEMMA CellsType ==
  ASSUME NEW S, NEW b \in Array(S), NEW i \in Nat, NEW n \in Nat
  PROVE  /\ Cells(b, i, n) \in Seq(S)
         /\ Len(Cells(b, i, n)) = n
         /\ \A k \in 1 .. n : Cells(b, i, n)[k] = b[Mask(i + k - 1)]
<1>1. ASSUME NEW k \in 1 .. n
      PROVE  b[Mask(i + k - 1)] \in S
  <2>1. i + k - 1 \in Nat
    OBVIOUS
  <2>2. Mask(i + k - 1) \in 0 .. Capacity - 1
    BY <2>1, MaskRange
  <2> QED
    BY <2>2 DEF Array
<1> QED
  BY <1>1 DEF Cells

(* What is behind the first n cells.                                       *)
LEMMA CellsRest ==
  ASSUME NEW S, NEW b \in Array(S), NEW i \in Nat, NEW m \in Nat,
         NEW n \in 0 .. m
  PROVE  Cells(b, i + n, m - n) = SubSeq(Cells(b, i, m), n + 1, m)
<1> DEFINE s == Cells(b, i, m)
           t == Cells(b, i + n, m - n)
<1>1. s \in Seq(S) /\ Len(s) = m
      /\ \A k \in 1 .. m : s[k] = b[Mask(i + k - 1)]
  BY CellsType
<1>2. t \in Seq(S) /\ Len(t) = m - n
      /\ \A k \in 1 .. m - n : t[k] = b[Mask((i + n) + k - 1)]
  <2>1. i + n \in Nat /\ m - n \in Nat
    OBVIOUS
  <2> QED
    BY <2>1, CellsType, ZenonT(40)
<1>3. \A k \in 1 .. m - n : t[k] = s[n + k]
  <2> TAKE k \in 1 .. m - n
  <2>1. n + k \in 1 .. m /\ (i + n) + k - 1 = i + (n + k) - 1
    OBVIOUS
  <2> QED
    BY <1>1, <1>2, <2>1
<1> HIDE DEF s, t
<1> DEFINE u == SubSeq(s, n + 1, m)
<1>4. u \in Seq(S) /\ Len(u) = m - n /\ \A k \in 1 .. m - n : u[k] = s[n + k]
  BY <1>1
<1> HIDE DEF u
<1>5. t = u
  BY <1>2, <1>3, <1>4, SeqEqual
<1> QED
  BY <1>5 DEF s, t, u

(* The first n cells, read at an index with the same masks.                *)
SameCells(i, j) == \A k \in Nat : Mask(j + k) = Mask(i + k)

LEMMA CellsFront ==
  ASSUME NEW S, NEW b \in Array(S), NEW i \in Nat, NEW j \in Nat, NEW m \in Nat,
         NEW n \in 0 .. m, SameCells(i, j)
  PROVE  Cells(b, j, n) = SubSeq(Cells(b, i, m), 1, n)
<1> DEFINE s == Cells(b, i, m)
           t == Cells(b, j, n)
<1>1. s \in Seq(S) /\ Len(s) = m
      /\ \A k \in 1 .. m : s[k] = b[Mask(i + k - 1)]
  BY CellsType
<1>2. t \in Seq(S) /\ Len(t) = n
      /\ \A k \in 1 .. n : t[k] = b[Mask(j + k - 1)]
  BY CellsType
<1>3. \A k \in 1 .. n : t[k] = s[k]
  <2> TAKE k \in 1 .. n
  <2>1. k \in 1 .. m /\ k - 1 \in Nat /\ i + k - 1 = i + (k - 1)
        /\ j + k - 1 = j + (k - 1)
    OBVIOUS
  <2>2. Mask(j + k - 1) = Mask(i + k - 1)
    BY <2>1 DEF SameCells
  <2> QED
    BY <1>1, <1>2, <2>1, <2>2
<1> HIDE DEF s, t
<1> DEFINE u == SubSeq(s, 1, n)
<1>4. u \in Seq(S) /\ Len(u) = n /\ \A k \in 1 .. n : u[k] = s[k]
  BY <1>1
<1> HIDE DEF u
<1>5. t = u
  BY <1>2, <1>3, <1>4, SeqEqual
<1> QED
  BY <1>5 DEF s, t, u

(* Writing d at index i + m, and nothing else, appends it, if it fits.     *)
Writes(b, c, i, d) ==
  /\ \A k \in 1 .. Len(d) : c[Mask(i + k - 1)] = d[k]
  /\ \A a \in 0 .. Capacity - 1 :
       (\A k \in 1 .. Len(d) : Mask(i + k - 1) # a) => c[a] = b[a]

LEMMA CellsAppend ==
  ASSUME NEW S, NEW b \in Array(S), NEW c \in Array(S), NEW i \in Nat,
         NEW m \in Nat, NEW d \in Seq(S), m + Len(d) <= Capacity,
         Writes(b, c, i + m, d)
  PROVE  Cells(c, i, m + Len(d)) = Cells(b, i, m) \o d
<1> DEFINE s == Cells(b, i, m)
           n == m + Len(d)
           t == Cells(c, i, n)
<1>0. n \in Nat /\ Len(d) \in Nat
  OBVIOUS
<1>1. s \in Seq(S) /\ Len(s) = m
      /\ \A k \in 1 .. m : s[k] = b[Mask(i + k - 1)]
  BY CellsType
<1>2. t \in Seq(S) /\ Len(t) = n
      /\ \A k \in 1 .. n : t[k] = c[Mask(i + k - 1)]
  <2> HIDE DEF n
  <2> QED
    BY <1>0, CellsType, ZenonT(40)
<1>3. ASSUME NEW k \in 1 .. m
      PROVE  t[k] = s[k]
  <2>1. i + k - 1 \in Nat /\ Mask(i + k - 1) \in 0 .. Capacity - 1
    <3>1. i + k - 1 \in Nat
      OBVIOUS
    <3> QED
      BY <3>1, MaskRange
  <2>2. ASSUME NEW l \in 1 .. Len(d)
        PROVE  Mask((i + m) + l - 1) # Mask(i + k - 1)
    <3> DEFINE x == i + k - 1
               y == (i + m) + l - 1
    <3>1. x \in Nat /\ y \in Nat /\ x < y /\ y < x + Capacity
      BY <1>0, CapacityType
    <3> HIDE DEF x, y
    <3>2. Mask(x) # Mask(y)
      BY <3>1, MaskInjective
    <3> QED
      BY <3>2 DEF x, y
  <2>3. c[Mask(i + k - 1)] = b[Mask(i + k - 1)]
    BY <2>1, <2>2 DEF Writes
  <2>4. k \in 1 .. n
    BY <1>0
  <2> QED
    BY <1>1, <1>2, <2>3, <2>4
<1>4. ASSUME NEW k \in 1 .. Len(d)
      PROVE  t[m + k] = d[k]
  <2>1. m + k \in 1 .. n /\ i + (m + k) - 1 = (i + m) + k - 1
    BY <1>0
  <2>2. t[m + k] = c[Mask((i + m) + k - 1)]
    BY <1>2, <2>1
  <2> QED
    BY <2>2 DEF Writes
<1> HIDE DEF s, t
<1> DEFINE u == s \o d
<1>5. u \in Seq(S) /\ Len(u) = n
      /\ \A k \in 1 .. n : u[k] = IF k <= m THEN s[k] ELSE d[k - m]
  BY <1>1, ConcatProperties, Zenon
<1> HIDE DEF u, n
<1>6. \A k \in 1 .. n : t[k] = u[k]
  <2> TAKE k \in 1 .. n
  <2>1. CASE k <= m
    <3>1. k \in 1 .. m
      BY <1>0, <2>1
    <3> QED
      BY <1>3, <1>5, <2>1, <3>1
  <2>2. CASE ~ (k <= m)
    <3>1. k - m \in 1 .. Len(d) /\ k = m + (k - m)
      BY <1>0, <2>2 DEF n
    <3>2. t[m + (k - m)] = d[k - m]
      BY <1>4, <3>1
    <3> QED
      BY <1>5, <2>2, <3>1, <3>2
  <2> QED
    BY <2>1, <2>2
<1>7. t = u
  BY <1>2, <1>5, <1>6, SeqEqual
<1> QED
  BY <1>7 DEF s, t, u, n

-----------------------------------------------------------------------------
(* The operations.                                                         *)
Cell == Bytes \cup {Junk}

LEMMA TypeFacts ==
  ASSUME TypeOK
  PROVE  /\ r \in Nat /\ w \in Nat /\ Size \in 0 .. Capacity /\ Size \in Nat
         /\ w = r + Size
         /\ buf \in Array(Cell)
         /\ Content \in Seq(Cell) /\ Len(Content) = Size
         /\ \A k \in 1 .. Size : Content[k] = buf[Mask(r + k - 1)]
<1>1. r \in Nat /\ w \in Nat /\ Size \in 0 .. Capacity /\ buf \in Array(Cell)
  BY DEF TypeOK, Array, Cell
<1>2. Size \in Nat /\ w = r + Size
  BY <1>1, CapacityType DEF Size
<1>3. /\ Cells(buf, r, Size) \in Seq(Cell) /\ Len(Cells(buf, r, Size)) = Size
      /\ \A k \in 1 .. Size : Cells(buf, r, Size)[k] = buf[Mask(r + k - 1)]
  BY <1>1, <1>2, CellsType
<1> QED
  BY <1>1, <1>2, <1>3, ContentIsCells

(* What a new array and new counters make of the content.                  *)
LEMMA NewContent ==
  ASSUME r' \in Nat, w' \in Nat
  PROVE  Content' = Cells(buf', r', w' - r')
  BY DEF Content, Size, Cells

LEMMA TypeGiven ==
  ASSUME buf' \in Array(Cell), r' \in Nat, w' \in Nat,
         w' - r' \in 0 .. Capacity, ret' \in Seq(Cell)
  PROVE  TypeOK'
  BY DEF TypeOK, Array, Cell, Size

LEMMA ShiftStep ==
  ASSUME TypeOK, NEW n \in 0 .. Size, Shift(n)
  PROVE  /\ TypeOK'
         /\ ret' = SubSeq(Content, 1, n)
         /\ Content' = SubSeq(Content, n + 1, Len(Content))
<1>1. r' = r + n /\ w' = w /\ buf' = buf /\ ret' = SubSeq(Content, 1, n)
  BY DEF Shift
<1>2. r' \in Nat /\ w' \in Nat /\ w' - r' = Size - n
      /\ Size - n \in 0 .. Capacity
      /\ n \in Nat
  BY <1>1, TypeFacts, CapacityType
<1>3. ret' \in Seq(Cell)
  BY <1>1, <1>2, TypeFacts, SMTT(30)
<1>4. TypeOK'
  BY <1>1, <1>2, <1>3, TypeFacts, TypeGiven
<1>5. Content' = Cells(buf, r + n, Size - n)
  BY <1>1, <1>2, NewContent
<1>6. Cells(buf, r + n, Size - n) = SubSeq(Cells(buf, r, Size), n + 1, Size)
  BY TypeFacts, CellsRest
<1> QED
  BY <1>1, <1>4, <1>5, <1>6, TypeFacts, ContentIsCells

LEMMA ReadFromStep ==
  ASSUME TypeOK, NEW offset \in Nat, ReadFrom(offset)
  PROVE  /\ TypeOK'
         /\ \E n \in 0 .. Len(Content) :
              /\ ret' = SubSeq(Content, n + 1, Len(Content))
              /\ Content' = SubSeq(Content, 1, n)
<1>1. CASE offset >= Size
  <2>1. ret' = <<>> /\ UNCHANGED <<buf, r, w>>
    BY <1>1 DEF ReadFrom
  <2>2. TypeOK'
    BY <2>1 DEF TypeOK, Size
  <2>3. Content' = Content
    BY <2>1 DEF Content, Size
  <2>4. /\ SubSeq(Content, Len(Content) + 1, Len(Content)) = <<>>
        /\ SubSeq(Content, 1, Len(Content)) = Content
        /\ Len(Content) \in 0 .. Len(Content)
    BY TypeFacts
  <2> QED
    BY <2>1, <2>2, <2>3, <2>4
<1>2. CASE ~ (offset >= Size)
  <2>1. /\ ret' = SubSeq(Content, offset + 1, Size) /\ buf' = buf
        /\ r' = r % W32 /\ w' = r' + offset
    BY <1>2 DEF ReadFrom
  <2>2. r' \in Nat /\ \A k \in Nat : Mask(r' + k) = Mask(r + k)
    BY <2>1, TypeFacts, MaskTruncated
  <2>3. offset \in 0 .. Size /\ offset \in 0 .. Capacity
    BY <1>2, TypeFacts, CapacityType
  <2>8. w' \in Nat /\ w' - r' = offset
    <3>1. PICK j \in Nat : j = r'
      BY <2>2
    <3>2. w' = j + offset
      BY <2>1, <3>1
    <3>3. j + offset \in Nat /\ (j + offset) - j = offset
      OBVIOUS
    <3> QED
      BY <3>1, <3>2, <3>3
  <2>4. ret' \in Seq(Cell)
    BY <2>1, <2>3, TypeFacts
  <2>5. TypeOK'
    BY <2>1, <2>2, <2>3, <2>4, <2>8, TypeFacts, TypeGiven
  <2>6. Content' = Cells(buf, r', offset)
    BY <2>1, <2>2, <2>8, NewContent
  <2>7. Cells(buf, r', offset) = SubSeq(Cells(buf, r, Size), 1, offset)
    <3>1. r \in Nat /\ Size \in Nat /\ buf \in Array(Cell)
      BY TypeFacts
    <3>2. PICK j \in Nat : j = r'
      BY <2>2
    <3>3. SameCells(r, j)
      BY <2>2, <3>2 DEF SameCells
    <3>4. Cells(buf, j, offset) = SubSeq(Cells(buf, r, Size), 1, offset)
      BY <2>3, <3>1, <3>3, CellsFront
    <3> QED
      BY <3>2, <3>4
  <2> QED
    BY <2>1, <2>3, <2>5, <2>6, <2>7, TypeFacts, ContentIsCells
<1> QED
  BY <1>1, <1>2

(* Whatever writes d where the writing ended appends it.                   *)
LEMMA AppendStep ==
  ASSUME TypeOK, NEW d \in Seq(Bytes), Size + Len(d) <= Capacity,
         buf' \in Array(Cell), Writes(buf, buf', w, d),
         w' = w + Len(d), r' = r
  PROVE  Content' = Content \o d
<1>1. d \in Seq(Cell) /\ Len(d) \in Nat
  BY DEF Cell
<1>2. r' \in Nat /\ w' \in Nat /\ w' - r' = Size + Len(d)
  BY <1>1, TypeFacts
<1>3. Content' = Cells(buf', r, Size + Len(d))
  BY <1>2, NewContent
<1>4. Writes(buf, buf', r + Size, d)
  BY TypeFacts
<1>5. Cells(buf', r, Size + Len(d)) = Cells(buf, r, Size) \o d
  <2>1. r \in Nat /\ Size \in Nat /\ buf \in Array(Cell)
    BY TypeFacts
  <2>2. PICK c \in Array(Cell) : c = buf'
    OBVIOUS
  <2>3. Writes(buf, c, r + Size, d)
    BY <1>4, <2>2
  <2>4. Cells(c, r, Size + Len(d)) = Cells(buf, r, Size) \o d
    BY <1>1, <2>1, <2>3, CellsAppend
  <2> QED
    BY <2>2, <2>4
<1> QED
  BY <1>3, <1>5, ContentIsCells

(* A cell of one round is written by one index only.                       *)
LEMMA OneIndex ==
  ASSUME NEW n \in Nat, n <= Capacity, NEW i \in Nat,
         NEW k \in 1 .. n, NEW l \in 1 .. n,
         Mask(i + k - 1) = Mask(i + l - 1)
  PROVE  k = l
<1> DEFINE x == i + k - 1
           y == i + l - 1
<1>1. x \in Nat /\ y \in Nat /\ x < y + Capacity /\ y < x + Capacity
  BY CapacityType
<1>2. Mask(x) = Mask(y)
  OBVIOUS
<1>3. k # l => x < y \/ y < x
  OBVIOUS
<1> HIDE DEF x, y
<1> QED
  BY <1>1, <1>2, <1>3, MaskInjective

LEMMA WriteStep ==
  ASSUME TypeOK, NEW data \in Seq(Bytes), Write(data)
  PROVE  /\ TypeOK'
         /\ ret' \in Seq(Bytes)
         /\ Content' = Content \o ret'
         /\ Len(Content) + Len(ret') <= Capacity
<1> DEFINE n == IF Len(data) <= Space THEN Len(data) ELSE Space
           hit(k, i) == Mask(w + k) = i
<1>1. /\ buf' = [i \in DOMAIN buf |->
                   IF \E k \in 0 .. n - 1 : hit(k, i)
                     THEN data[1 + CHOOSE k \in 0 .. n - 1 : hit(k, i)]
                     ELSE buf[i]]
      /\ w' = w + n /\ r' = r /\ ret' = SubSeq(data, 1, n)
  BY DEF Write
<1>2. /\ n \in Nat /\ n <= Len(data) /\ Size + n <= Capacity
      /\ n <= Capacity /\ Len(data) \in Nat
  BY TypeFacts, CapacityType DEF Space
<1> HIDE DEF n
<1>3. /\ ret' \in Seq(Bytes) /\ Len(ret') = n
      /\ \A k \in 1 .. n : ret'[k] = data[k]
  BY <1>1, <1>2
<1>4. DOMAIN buf = 0 .. Capacity - 1
      /\ \A a \in 0 .. Capacity - 1 : buf[a] \in Cell
  BY TypeFacts DEF Array
<1>5. ASSUME NEW k \in 1 .. n
      PROVE  buf'[Mask(w + k - 1)] = data[k]
  <2> DEFINE a == Mask(w + k - 1)
  <2>1. /\ k - 1 \in 0 .. n - 1 /\ w + (k - 1) = w + k - 1
        /\ w + k - 1 \in Nat
    BY <1>2, TypeFacts
  <2>2. a \in DOMAIN buf /\ hit(k - 1, a)
    BY <1>4, <2>1, MaskRange
  <2> HIDE DEF a
  <2> DEFINE l == CHOOSE l \in 0 .. n - 1 : hit(l, a)
  <2>3. l \in 0 .. n - 1 /\ hit(l, a)
    BY <2>1, <2>2
  <2>4. buf'[a] = data[1 + l]
    BY <1>1, <2>1, <2>2
  <2> HIDE DEF l
  <2>5. /\ l + 1 \in 1 .. n /\ w + (l + 1) - 1 = w + l /\ 1 + l = l + 1
        /\ w \in Nat
    BY <1>2, <2>3, TypeFacts
  <2>6. Mask(w + k - 1) = Mask(w + (l + 1) - 1)
    BY <2>3, <2>5 DEF a
  <2>7. k = l + 1
    BY <1>2, <2>5, <2>6, OneIndex
  <2> QED
    BY <2>4, <2>5, <2>7 DEF a
<1>6. ASSUME NEW a \in 0 .. Capacity - 1,
             \A k \in 1 .. n : Mask(w + k - 1) # a
      PROVE  buf'[a] = buf[a]
  <2>1. ASSUME NEW k \in 0 .. n - 1, hit(k, a)
        PROVE  FALSE
    <3>1. k + 1 \in 1 .. n /\ w + (k + 1) - 1 = w + k
      BY <1>2, TypeFacts
    <3> QED
      BY <1>6, <2>1, <3>1
  <2> QED
    BY <1>1, <1>4, <2>1
<1>7. buf' \in Array(Cell)
  <2>1. ASSUME NEW a \in 0 .. Capacity - 1
        PROVE  buf'[a] \in Cell
    <3>1. CASE \A k \in 1 .. n : Mask(w + k - 1) # a
      BY <1>4, <1>6, <3>1
    <3>2. CASE \E k \in 1 .. n : Mask(w + k - 1) = a
      <4>1. PICK k \in 1 .. n : Mask(w + k - 1) = a
        BY <3>2
      <4>2. data[k] \in Bytes
        BY <1>2, <4>1
      <4> QED
        BY <1>5, <4>1, <4>2 DEF Cell
    <3> QED
      BY <3>1, <3>2
  <2>2. buf' = [a \in 0 .. Capacity - 1 |-> buf'[a]]
    BY <1>1, <1>4
  <2> QED
    BY <2>1, <2>2 DEF Array
<1>8. Writes(buf, buf', w, ret')
  BY <1>3, <1>5, <1>6 DEF Writes
<1>9. Content' = Content \o ret'
  BY <1>1, <1>2, <1>3, <1>7, <1>8, AppendStep
<1>10. TypeOK'
  <2>1. r' \in Nat /\ w' \in Nat /\ w' - r' \in 0 .. Capacity
    BY <1>1, <1>2, TypeFacts, CapacityType
  <2>2. ret' \in Seq(Cell)
    BY <1>3 DEF Cell
  <2> QED
    BY <1>7, <2>1, <2>2, TypeGiven
<1> QED
  BY <1>2, <1>3, <1>9, <1>10, TypeFacts

LEMMA DeliveryType ==
  ASSUME NEW n \in Nat, NEW d \in Delivery(n)
  PROVE  d \in Seq(Bytes) /\ Len(d) \in Nat /\ Len(d) <= n
<1>1. PICK k \in 0 .. n : d \in [1 .. k -> Bytes]
  BY DEF Delivery
<1>2. k \in Nat /\ d \in Seq(Bytes) /\ Len(d) = k
  BY <1>1
<1> QED
  BY <1>2

LEMMA StoreType ==
  ASSUME NEW b \in Array(Cell), NEW from \in Nat, NEW d \in Seq(Bytes)
  PROVE  /\ Store(b, from, d) \in Array(Cell)
         /\ \A a \in 0 .. Capacity - 1 :
              Store(b, from, d)[a] = IF a - from + 1 \in 1 .. Len(d)
                                       THEN d[a - from + 1] ELSE b[a]
<1>1. /\ DOMAIN b = 0 .. Capacity - 1 /\ DOMAIN d = 1 .. Len(d)
      /\ \A a \in 0 .. Capacity - 1 : b[a] \in Cell
  BY DEF Array
<1>2. \A k \in 1 .. Len(d) : d[k] \in Cell
  BY DEF Cell
<1> QED
  BY <1>1, <1>2 DEF Store, Array

(* Two pieces that follow each other in the array, or around its end.      *)
LEMMA SplitWrites ==
  ASSUME NEW b \in Array(Cell), NEW c, NEW i \in Nat,
         NEW d1 \in Seq(Bytes), NEW d2 \in Seq(Bytes),
         Mask(i) + Len(d1) <= Capacity,
         \/ d2 = <<>>
         \/ Mask(i) + Len(d1) = Capacity /\ Len(d2) <= Mask(i),
         c = Store(Store(b, Mask(i), d1), 0, d2)
  PROVE  Writes(b, c, i, d1 \o d2)
<1> DEFINE x == Mask(i)
           m1 == Len(d1)
           m2 == Len(d2)
           d == d1 \o d2
           b1 == Store(b, x, d1)
<1>1. x \in 0 .. Capacity - 1 /\ x \in Nat /\ m1 \in Nat /\ m2 \in Nat
      /\ Capacity \in Nat \ {0}
  <2>1. x \in 0 .. Capacity - 1
    BY MaskRange
  <2> HIDE DEF x
  <2> QED
    BY <2>1, CapacityType
<1>2. /\ d \in Seq(Bytes) /\ Len(d) = m1 + m2
      /\ \A k \in 1 .. m1 + m2 : d[k] = IF k <= m1 THEN d1[k] ELSE d2[k - m1]
  BY ConcatProperties, Zenon
<1>3. /\ b1 \in Array(Cell)
      /\ \A a \in 0 .. Capacity - 1 :
           b1[a] = IF a - x + 1 \in 1 .. m1 THEN d1[a - x + 1] ELSE b[a]
  BY <1>1, StoreType, ZenonT(40)
<1>4. \A a \in 0 .. Capacity - 1 :
        c[a] = IF a - 0 + 1 \in 1 .. m2 THEN d2[a - 0 + 1] ELSE b1[a]
  <2> HIDE DEF b1
  <2>1. c = Store(b1, 0, d2)
    BY DEF b1
  <2>2. \A a \in 0 .. Capacity - 1 :
          Store(b1, 0, d2)[a] = IF a - 0 + 1 \in 1 .. Len(d2)
                                  THEN d2[a - 0 + 1] ELSE b1[a]
    BY <1>3, 0 \in Nat, StoreType
  <2> QED
    BY <2>1, <2>2
<1>5. x + m1 <= Capacity
      /\ (m2 = 0 \/ (x + m1 = Capacity /\ m2 <= x))
  OBVIOUS
<1> HIDE DEF d, b1, m1, m2
<1>6. ASSUME NEW k \in 1 .. m1
      PROVE  Mask(i + k - 1) = x + k - 1
  <2>1. k - 1 \in Nat /\ x + (k - 1) < Capacity /\ i + k - 1 = i + (k - 1)
    BY <1>1, <1>5
  <2> QED
    BY <1>1, <2>1, MaskStep
<1>7. ASSUME NEW k \in 1 .. m2
      PROVE  x + m1 = Capacity /\ Mask(i + (m1 + k) - 1) = k - 1
  <2> DEFINE l == m1 + k - 1
  <2>1. /\ x + m1 = Capacity /\ m2 <= x
        /\ l \in Nat /\ Capacity <= x + l /\ x + l < 2 * Capacity
        /\ i + (m1 + k) - 1 = i + l /\ x + l - Capacity = k - 1
    BY <1>1, <1>5
  <2> HIDE DEF l
  <2>2. Mask(i + l) = x + l - Capacity
    BY <1>1, <2>1, MaskStep
  <2> QED
    BY <2>1, <2>2
<1> HIDE DEF x
<1>8. ASSUME NEW k \in 1 .. m1 + m2
      PROVE  c[Mask(i + k - 1)] = d[k]
  <2>1. CASE k <= m1
    <3>1. k \in 1 .. m1
      BY <1>1, <2>1
    <3> DEFINE a == x + k - 1
    <3>2. /\ a \in 0 .. Capacity - 1 /\ a - x + 1 = k
          /\ ~ (a - 0 + 1 \in 1 .. m2)
      BY <1>1, <1>5, <3>1
    <3>3. Mask(i + k - 1) = a
      BY <1>6, <3>1
    <3> HIDE DEF a
    <3>4. c[a] = b1[a] /\ b1[a] = d1[k]
      BY <1>3, <1>4, <3>1, <3>2
    <3> QED
      BY <1>2, <2>1, <3>3, <3>4
  <2>2. CASE ~ (k <= m1)
    <3> DEFINE l == k - m1
    <3>1. l \in 1 .. m2 /\ k = m1 + l
      BY <1>1, <2>2
    <3>2. x + m1 = Capacity /\ Mask(i + k - 1) = l - 1
      BY <1>7, <3>1
    <3>3. d[k] = d2[l]
      BY <1>2, <2>2
    <3> HIDE DEF l
    <3>4. l - 1 \in 0 .. Capacity - 1 /\ (l - 1) - 0 + 1 = l
      BY <1>1, <1>5, <3>1
    <3>5. c[l - 1] = d2[l]
      BY <1>4, <3>1, <3>4
    <3> QED
      BY <3>2, <3>3, <3>5
  <2> QED
    BY <2>1, <2>2
<1>9. ASSUME NEW a \in 0 .. Capacity - 1,
             \A k \in 1 .. m1 + m2 : Mask(i + k - 1) # a
      PROVE  c[a] = b[a]
  <2>1. ~ (a - 0 + 1 \in 1 .. m2)
    <3> SUFFICES ASSUME a + 1 \in 1 .. m2
                 PROVE  FALSE
      BY <1>1
    <3>1. Mask(i + (m1 + (a + 1)) - 1) = (a + 1) - 1
      BY <1>7
    <3>2. m1 + (a + 1) \in 1 .. m1 + m2 /\ (a + 1) - 1 = a
      BY <1>1
    <3> QED
      BY <1>9, <3>1, <3>2
  <2>2. ~ (a - x + 1 \in 1 .. m1)
    <3> SUFFICES ASSUME a - x + 1 \in 1 .. m1
                 PROVE  FALSE
      OBVIOUS
    <3> DEFINE k == a - x + 1
    <3>1. k \in 1 .. m1 + m2 /\ x + k - 1 = a
      BY <1>1
    <3>2. Mask(i + k - 1) = x + k - 1
      BY <1>6
    <3> HIDE DEF k
    <3> QED
      BY <1>9, <3>1, <3>2
  <2> QED
    BY <1>3, <1>4, <2>1, <2>2
<1> QED
  BY <1>2, <1>8, <1>9 DEF Writes, d, m1, m2

(* Where the free space lies: behind the content, or also before it.       *)
LEMMA FreeSpace ==
  ASSUME TypeOK, ~Full
  PROVE  /\ Mask(w) < Mask(r) => Mask(w) + Space = Mask(r)
         /\ Mask(r) = 0 => Mask(w) + Space = Capacity
         /\ Mask(w) >= Mask(r) => Space = Capacity - Mask(w) + Mask(r)
         /\ Mask(r) \in 0 .. Capacity - 1 /\ Mask(w) \in 0 .. Capacity - 1
         /\ Space \in Nat
<1> DEFINE x == Mask(w)
           y == Mask(r)
<1>1. y \in 0 .. Capacity - 1 /\ x \in 0 .. Capacity - 1
  BY TypeFacts, MaskRange
<1>2. /\ Size \in Nat /\ Size < Capacity /\ w = r + Size /\ r \in Nat
      /\ Capacity \in Nat \ {0}
  BY TypeFacts, CapacityType DEF Full
<1>3. /\ y + Size < Capacity => x = y + Size
      /\ Capacity <= y + Size /\ y + Size < 2 * Capacity
           => x = y + Size - Capacity
  BY <1>2, MaskStep
<1>4. Space = Capacity - Size
  BY DEF Space
<1> HIDE DEF x, y
<1>5. /\ x < y => x + Space = y
      /\ y = 0 => x + Space = Capacity
      /\ x >= y => Space = Capacity - x + y
      /\ Space \in Nat
  BY <1>1, <1>2, <1>3, <1>4
<1> QED
  BY <1>1, <1>5 DEF x, y

(* Where the content lies: from the read index on, up to the write index.  *)
LEMMA UnreadCell ==
  ASSUME TypeOK, ~Full, NEW k \in 1 .. Size
  PROVE  /\ Mask(r + k - 1) \in 0 .. Capacity - 1
         /\ Mask(w) < Mask(r) =>
              Mask(r + k - 1) < Mask(w) \/ Mask(r) <= Mask(r + k - 1)
         /\ Mask(r) <= Mask(w) =>
              Mask(r) <= Mask(r + k - 1) /\ Mask(r + k - 1) < Mask(w)
<1> DEFINE x == Mask(w)
           y == Mask(r)
           a == Mask(r + k - 1)
           j == k - 1
<1>1. /\ r \in Nat /\ r + k - 1 \in Nat /\ j \in Nat /\ j < Size
      /\ r + k - 1 = r + j /\ Size \in Nat /\ Size < Capacity
      /\ Capacity \in Nat \ {0}
  BY TypeFacts, CapacityType DEF Full
<1> HIDE DEF j
<1>2. /\ y + j < Capacity => a = y + j
      /\ Capacity <= y + j /\ y + j < 2 * Capacity => a = y + j - Capacity
  BY <1>1, MaskStep
<1>3. a \in 0 .. Capacity - 1
  BY <1>1, MaskRange
<1>4. /\ x < y => x + (Capacity - Size) = y
      /\ x >= y => Capacity - Size = Capacity - x + y
      /\ x \in 0 .. Capacity - 1 /\ y \in 0 .. Capacity - 1
  BY FreeSpace DEF Space
<1> HIDE DEF x, y, a
<1>5. /\ x < y => a < x \/ y <= a
      /\ y <= x => y <= a /\ a < x
  BY <1>1, <1>2, <1>3, <1>4
<1> QED
  BY <1>3, <1>5 DEF x, y, a

Kept == \A k \in 1 .. Size : Content'[k] = Content[k]

LEMMA KeptCells ==
  ASSUME TypeOK, TypeOK', r' = r, w' >= w,
         \A k \in 1 .. Size : buf'[Mask(r + k - 1)] = buf[Mask(r + k - 1)]
  PROVE  Kept
<1>1. r' \in Nat /\ w' \in Nat
  BY DEF TypeOK
<1>2. PICK v \in Nat : v = w'
  BY <1>1
<1>3. w = r + Size /\ r \in Nat /\ w \in Nat /\ Size \in Nat /\ v >= w
  BY <1>2, TypeFacts
<1>4. v - r \in Nat /\ Size <= v - r
  BY <1>3
<1>5. Content' = Cells(buf', r, v - r)
  BY <1>1, <1>2, NewContent
<1>6. ASSUME NEW k \in 1 .. Size
      PROVE  Content'[k] = buf'[Mask(r + k - 1)]
  <2>1. k \in 1 .. v - r
    BY <1>3, <1>4
  <2> QED
    BY <1>5, <2>1 DEF Cells
<1>7. \A k \in 1 .. Size : Content[k] = buf[Mask(r + k - 1)]
  BY TypeFacts
<1> QED
  BY <1>6, <1>7 DEF Kept

LEMMA WriteCallbackStep ==
  ASSUME TypeOK, NEW lim \in Nat, WriteCallback(lim)
  PROVE  /\ TypeOK'
         /\ ret' \in Seq(Bytes)
         /\ Len(Content) + Len(ret') <= Capacity
         /\ Kept
         /\ SteadySource = TRUE => Content' = Content \o ret'
<1> DEFINE x == Mask(w)
           y == Mask(r)
           n == IF lim < Space THEN lim ELSE Space
           end == Capacity - x
           piece == IF n < end THEN n ELSE end
           one == x < y \/ y = 0
           more(d1) == IF n - Len(d1) < y THEN n - Len(d1) ELSE y
<1>1. ~Full
  BY DEF WriteCallback
<1>2. PICK d1 \in Delivery(IF one THEN n ELSE piece) :
        \E d2 \in IF one \/ Len(d1) >= n THEN {<<>>} ELSE Delivery(more(d1)) :
          /\ SteadySource /\ Len(d1) < piece => d2 = <<>>
          /\ buf' = Store(Store(buf, x, d1), 0, d2)
          /\ w' = w + Len(d1) + Len(d2)
          /\ ret' = d1 \o d2
          /\ r' = r
  BY Zenon DEF WriteCallback
<1>3. PICK d2 \in IF one \/ Len(d1) >= n THEN {<<>>} ELSE Delivery(more(d1)) :
          /\ SteadySource /\ Len(d1) < piece => d2 = <<>>
          /\ buf' = Store(Store(buf, x, d1), 0, d2)
          /\ w' = w + Len(d1) + Len(d2)
          /\ ret' = d1 \o d2
          /\ r' = r
  BY <1>2, Zenon
<1>4. /\ x < y => x + Space = y
      /\ y = 0 => x + Space = Capacity
      /\ x >= y => Space = Capacity - x + y
      /\ x \in 0 .. Capacity - 1 /\ y \in 0 .. Capacity - 1
      /\ Space \in Nat
  BY <1>1, FreeSpace
<1>5. Capacity \in Nat \ {0} /\ x \in Nat /\ y \in Nat
  BY <1>4, CapacityType
<1> HIDE DEF x, y
<1>6. /\ n \in Nat /\ n <= Space /\ end \in Nat /\ piece \in Nat
      /\ piece <= n /\ piece <= end /\ (piece < n => piece = end)
  BY <1>4, <1>5
<1> HIDE DEF n, end, piece
<1>7. /\ d1 \in Seq(Bytes) /\ Len(d1) \in Nat
      /\ Len(d1) <= IF one THEN n ELSE piece
  <2>1. (IF one THEN n ELSE piece) \in Nat
    BY <1>6
  <2> HIDE DEF one
  <2> QED
    BY <1>2, <2>1, DeliveryType
<1>8. ASSUME d2 = <<>>
      PROVE  /\ d2 \in Seq(Bytes) /\ Len(d2) \in Nat
             /\ Len(d1) + Len(d2) <= Space /\ x + Len(d1) <= Capacity
  <2>1. Len(d2) = 0 /\ d2 \in Seq(Bytes)
    BY <1>8
  <2>2. Len(d1) + Len(d2) <= Space /\ x + Len(d1) <= Capacity
    <3>1. CASE one
      BY <1>4, <1>5, <1>6, <1>7, <2>1, <3>1
    <3>2. CASE ~one
      BY <1>4, <1>5, <1>6, <1>7, <2>1, <3>2 DEF end
    <3> QED
      BY <3>1, <3>2
  <2> QED
    BY <2>1, <2>2
<1>9. ASSUME d2 # <<>>
      PROVE  /\ d2 \in Seq(Bytes) /\ Len(d2) \in Nat
             /\ Len(d1) + Len(d2) <= Space /\ x + Len(d1) <= Capacity
             /\ Len(d2) <= y /\ y <= x
             /\ Len(d1) <= piece /\ Len(d1) < n
  <2>1. ~one /\ ~ (Len(d1) >= n) /\ d2 \in Delivery(more(d1))
    BY <1>3, <1>9, Zenon
  <2>2. more(d1) \in Nat /\ more(d1) <= y /\ more(d1) <= n - Len(d1)
    BY <1>5, <1>6, <1>7, <2>1
  <2> HIDE DEF more
  <2>3. d2 \in Seq(Bytes) /\ Len(d2) \in Nat /\ Len(d2) <= more(d1)
    BY <2>1, <2>2, DeliveryType
  <2>4. ~ (x < y) /\ y # 0 /\ Len(d1) <= piece
    BY <1>7, <2>1
  <2>5. Len(d1) < n /\ Len(d1) + Len(d2) <= Space
    BY <1>4, <1>6, <1>7, <2>1, <2>2, <2>3
  <2>6. y <= x /\ x + Len(d1) <= Capacity
    BY <1>5, <1>6, <1>7, <2>4 DEF end
  <2> QED
    BY <1>5, <2>2, <2>3, <2>4, <2>5, <2>6
<1>10. d2 \in Seq(Bytes) /\ Len(d2) \in Nat /\ Len(d1) + Len(d2) <= Space
  BY <1>8, <1>9
<1>11. ret' \in Seq(Bytes) /\ Len(ret') = Len(d1) + Len(d2)
  BY <1>3, <1>7, <1>10, ConcatProperties, Zenon
<1>12. buf' \in Array(Cell)
  <2>1. Store(buf, x, d1) \in Array(Cell)
    BY <1>5, <1>7, TypeFacts, StoreType
  <2>2. Store(Store(buf, x, d1), 0, d2) \in Array(Cell)
    BY <1>10, <2>1, 0 \in Nat, StoreType
  <2> QED
    BY <1>3, <2>2
<1>13. /\ w' = w + Len(ret') /\ r' = r
       /\ Size + Len(ret') <= Capacity /\ Size + Len(ret') \in Nat
  <2>1. w' = w + Len(d1) + Len(d2) /\ r' = r
    BY <1>3
  <2>2. Space = Capacity - Size
    BY DEF Space
  <2>3. /\ (w + Len(d1)) + Len(d2) = w + (Len(d1) + Len(d2))
        /\ Size + (Len(d1) + Len(d2)) <= Capacity
        /\ Size + (Len(d1) + Len(d2)) \in Nat
    BY <1>5, <1>7, <1>10, <2>2, TypeFacts, SMTT(30)
  <2> QED
    BY <1>11, <2>1, <2>3
<1>14. TypeOK'
  <2>1. ret' \in Seq(Cell)
    BY <1>11 DEF Cell
  <2>2. w + Len(ret') \in Nat /\ (w + Len(ret')) - r \in 0 .. Capacity
    BY <1>5, <1>7, <1>10, <1>11, <1>13, TypeFacts, SMTT(30)
  <2>3. r' \in Nat /\ w' \in Nat /\ w' - r' \in 0 .. Capacity
    BY <1>13, <2>2, TypeFacts
  <2> QED
    BY <1>12, <2>1, <2>3, TypeGiven
<1>15. ASSUME SteadySource = TRUE
       PROVE  Content' = Content \o ret'
  <2>1. \/ d2 = <<>>
        \/ x + Len(d1) = Capacity /\ Len(d2) <= x
    <3> SUFFICES ASSUME d2 # <<>>
                 PROVE  x + Len(d1) = Capacity /\ Len(d2) <= x
      OBVIOUS
    <3>1. ~ (Len(d1) < piece)
      BY <1>3, <1>15
    <3> QED
      BY <1>5, <1>6, <1>7, <1>9, <3>1 DEF end
  <2>2. x + Len(d1) <= Capacity
    BY <1>8, <1>9
  <2>3. Writes(buf, buf', w, ret')
    <3>1. PICK c : c = buf'
      OBVIOUS
    <3>2. c = Store(Store(buf, Mask(w), d1), 0, d2)
      BY <1>3, <3>1 DEF x
    <3>3. Writes(buf, c, w, d1 \o d2)
      BY <1>7, <1>10, <2>1, <2>2, <3>2, TypeFacts, SplitWrites DEF x
    <3> QED
      BY <1>3, <3>1, <3>3
  <2> QED
    BY <1>11, <1>12, <1>13, <2>3, AppendStep
<1>16. Len(Content) + Len(ret') <= Capacity
  BY <1>13, TypeFacts
<1>17. Kept
  <2>1. ASSUME NEW k \in 1 .. Size
        PROVE  buf'[Mask(r + k - 1)] = buf[Mask(r + k - 1)]
    <3> DEFINE a == Mask(r + k - 1)
    <3>1. /\ a \in 0 .. Capacity - 1
          /\ x < y => a < x \/ y <= a
          /\ y <= x => y <= a /\ a < x
      BY <1>1, UnreadCell DEF x, y
    <3> HIDE DEF a
    <3>2. /\ ~ (a - x + 1 \in 1 .. Len(d1))
          /\ ~ (a - 0 + 1 \in 1 .. Len(d2))
      <4>1. CASE d2 = <<>>
        BY <1>4, <1>5, <1>8, <3>1, <4>1
      <4>2. CASE d2 # <<>>
        BY <1>4, <1>5, <1>7, <1>9, <3>1, <4>2
      <4> QED
        BY <4>1, <4>2
    <3>3. /\ Store(buf, x, d1) \in Array(Cell)
          /\ \A i \in 0 .. Capacity - 1 :
               Store(buf, x, d1)[i] = IF i - x + 1 \in 1 .. Len(d1)
                                        THEN d1[i - x + 1] ELSE buf[i]
      <4>1. buf \in Array(Cell) /\ x \in Nat /\ d1 \in Seq(Bytes)
        BY <1>5, <1>7, TypeFacts
      <4> QED
        BY <4>1, StoreType
    <3>4. PICK b1 \in Array(Cell) : b1 = Store(buf, x, d1) /\ b1[a] = buf[a]
      BY <3>1, <3>2, <3>3
    <3>5. \A i \in 0 .. Capacity - 1 :
            Store(b1, 0, d2)[i] = IF i - 0 + 1 \in 1 .. Len(d2)
                                    THEN d2[i - 0 + 1] ELSE b1[i]
      BY <1>10, 0 \in Nat, StoreType
    <3>6. Store(Store(buf, x, d1), 0, d2)[a] = buf[a]
      BY <3>1, <3>2, <3>4, <3>5
    <3>7. buf'[a] = buf[a]
      BY <1>3, <3>6
    <3> QED
      BY <3>7 DEF a
  <2>2. r' = r /\ w' >= w
    BY <1>11, <1>13, TypeFacts
  <2> QED
    BY <1>14, <2>1, <2>2, KeptCells
<1> QED
  BY <1>11, <1>14, <1>15, <1>16, <1>17

LEMMA ReadBufferStep ==
  ASSUME TypeOK, NEW delim, ReadBuffer(delim)
  PROVE  TypeOK' /\ ret' = <<>> /\ Content' = Content
<1> DEFINE n == Size
           hit(k, i) == Mask(w + k - 1) = i
<1>1. /\ buf' = [i \in DOMAIN buf |->
                   IF \E k \in 1 .. n : hit(k, i)
                     THEN Content[CHOOSE k \in 1 .. n : hit(k, i)]
                     ELSE buf[i]]
      /\ r' = w /\ w' = w + n /\ ret' = <<>>
  BY DEF ReadBuffer
<1>2. /\ n \in Nat /\ n <= Capacity /\ w \in Nat /\ w + n \in Nat
      /\ (w + n) - w = n /\ n \in 0 .. Capacity
  <2>1. n \in 0 .. Capacity /\ w \in Nat /\ Capacity \in Nat
    BY TypeFacts, CapacityType
  <2> HIDE DEF n
  <2> QED
    BY <2>1
<1>3. Content \in Seq(Cell) /\ Len(Content) = n
  BY TypeFacts
<1>4. DOMAIN buf = 0 .. Capacity - 1
      /\ \A a \in 0 .. Capacity - 1 : buf[a] \in Cell
  BY TypeFacts DEF Array
<1> HIDE DEF n
<1>5. ASSUME NEW k \in 1 .. n
      PROVE  buf'[Mask(w + k - 1)] = Content[k]
  <2> DEFINE a == Mask(w + k - 1)
  <2>1. w + k - 1 \in Nat
    BY <1>2
  <2>2. a \in DOMAIN buf /\ hit(k, a)
    BY <1>4, <2>1, MaskRange
  <2> HIDE DEF a
  <2> DEFINE l == CHOOSE l \in 1 .. n : hit(l, a)
  <2>3. l \in 1 .. n /\ hit(l, a)
    BY <2>2
  <2>4. buf'[a] = Content[l]
    BY <1>1, <2>2
  <2> HIDE DEF l
  <2>5. Mask(w + k - 1) = Mask(w + l - 1)
    BY <2>3 DEF a
  <2>6. k = l
    BY <1>2, <2>3, <2>5, OneIndex
  <2> QED
    BY <2>4, <2>6 DEF a
<1>6. buf' \in Array(Cell)
  <2>1. ASSUME NEW a \in 0 .. Capacity - 1
        PROVE  buf'[a] \in Cell
    <3>1. CASE ~ \E k \in 1 .. n : hit(k, a)
      BY <1>1, <1>4, <3>1
    <3>2. CASE \E k \in 1 .. n : hit(k, a)
      <4>1. PICK k \in 1 .. n : hit(k, a)
        BY <3>2
      <4>2. Content[k] \in Cell
        BY <1>3
      <4> QED
        BY <1>5, <4>1, <4>2
    <3> QED
      BY <3>1, <3>2
  <2>2. buf' = [a \in 0 .. Capacity - 1 |-> buf'[a]]
    BY <1>1, <1>4
  <2> QED
    BY <2>1, <2>2 DEF Array
<1>7. TypeOK'
  <2>1. /\ r' \in Nat /\ w' \in Nat /\ w' - r' \in 0 .. Capacity
        /\ ret' \in Seq(Cell)
    BY <1>1, <1>2
  <2> QED
    BY <1>6, <2>1, TypeGiven
<1>8. Content' = Content
  <2>1. PICK c \in Array(Cell) : c = buf'
    BY <1>6
  <2> DEFINE t == Cells(c, w, n)
  <2>2. Content' = t
    <3>1. r' \in Nat /\ w' \in Nat /\ w' - r' = n /\ r' = w
      BY <1>1, <1>2
    <3> QED
      BY <2>1, <3>1, NewContent
  <2>3. t \in Seq(Cell) /\ Len(t) = n
        /\ \A k \in 1 .. n : t[k] = c[Mask(w + k - 1)]
    BY <1>2, CellsType
  <2> HIDE DEF t
  <2>4. \A k \in 1 .. n : t[k] = Content[k]
    BY <1>5, <2>1, <2>3
  <2>5. t = Content
    BY <1>3, <2>3, <2>4, SeqEqual
  <2> QED
    BY <2>2, <2>5
<1> QED
  BY <1>1, <1>7, <1>8

LEMMA ClearStep ==
  ASSUME TypeOK, Clear
  PROVE  TypeOK' /\ ret' = <<>> /\ Content' = <<>>
<1> USE BufferAssumption
<1>1. /\ buf' = [i \in DOMAIN buf |-> Zero]
      /\ r' = 0 /\ w' = 0 /\ ret' = <<>>
  BY DEF Clear
<1>2. buf' \in Array(Cell)
  BY <1>1, TypeFacts DEF Array, Cell
<1>3. r' \in Nat /\ w' \in Nat /\ w' - r' = 0 /\ 0 \in 0 .. Capacity
      /\ ret' \in Seq(Cell)
  BY <1>1, CapacityType
<1>4. TypeOK'
  BY <1>2, <1>3, TypeGiven
<1>5. Content' = Cells(buf', r', 0)
  BY <1>3, NewContent
<1>6. Cells(buf', r', 0) = <<>>
  BY DEF Cells
<1> QED
  BY <1>1, <1>4, <1>5, <1>6

(* How far the delimited reads go.                                         *)
LEMMA UpToHit ==
  ASSUME NEW n \in Nat, NEW hits, hits \subseteq 1 .. n
  PROVE  (IF hits = {} THEN n ELSE CHOOSE i \in hits : \A j \in hits : i <= j)
           \in 0 .. n
<1>1. CASE hits = {}
  BY <1>1
<1>2. CASE hits # {}
  <2>1. hits \subseteq Nat
    OBVIOUS
  <2>2. \E i \in hits : \A j \in hits : i <= j
    BY <1>2, <2>1, Least
  <2> DEFINE least == CHOOSE i \in hits : \A j \in hits : i <= j
  <2>3. least \in hits
    BY <2>2
  <2> HIDE DEF least
  <2>4. least \in 0 .. n
    BY <2>3
  <2> QED
    BY <1>2, <2>4 DEF least
<1> QED
  BY <1>1, <1>2

LEMMA ReadStep ==
  ASSUME TypeOK,
         \/ \E n \in Nat : Read(n)
         \/ \E b \in Bytes : ReadTo(b)
         \/ \E d \in MultiDelims : ReadToString(d)
  PROVE  \E n \in 0 .. Size : Shift(n)
<1>1. Size \in Nat
  BY TypeFacts
<1>2. ASSUME NEW n \in Nat, Read(n)
      PROVE  \E m \in 0 .. Size : Shift(m)
  <2>1. (IF n > Size THEN Size ELSE n) \in 0 .. Size
    BY <1>1
  <2> QED
    BY <1>2, <2>1 DEF Read
<1>3. ASSUME NEW b \in Bytes, ReadTo(b)
      PROVE  \E m \in 0 .. Size : Shift(m)
  <2> DEFINE hits == {i \in 1 .. Size : Content[i] = b}
             m == IF hits = {} THEN Size
                  ELSE CHOOSE i \in hits : \A j \in hits : i <= j
  <2>1. Shift(m)
    BY <1>3 DEF ReadTo
  <2>2. hits \subseteq 1 .. Size
    OBVIOUS
  <2> HIDE DEF hits
  <2>3. m \in 0 .. Size
    BY <1>1, <2>2, UpToHit
  <2> HIDE DEF m
  <2> QED
    BY <2>1, <2>3
<1>4. ASSUME NEW d \in MultiDelims, ReadToString(d)
      PROVE  \E m \in 0 .. Size : Shift(m)
  <2> DEFINE seen(i, k) == IF k <= i THEN Content[k] ELSE Zero
             hits == {i \in 1 .. Size :
                        /\ i - 1 + Len(d) <= Size
                        /\ \A k \in 1 .. Len(d) : d[k] = seen(i, i - 1 + k)}
             m == IF hits = {} THEN Size
                  ELSE CHOOSE i \in hits : \A j \in hits : i <= j
  <2>1. Shift(m)
    BY <1>4 DEF ReadToString
  <2>2. hits \subseteq 1 .. Size
    OBVIOUS
  <2> HIDE DEF hits
  <2>3. m \in 0 .. Size
    BY <1>1, <2>2, UpToHit
  <2> HIDE DEF m
  <2> QED
    BY <2>1, <2>3
<1> QED
  BY <1>2, <1>3, <1>4

-----------------------------------------------------------------------------
(* Every call is one of the queue's.                                       *)
Queued == TypeOK /\ Content \in Seq(Bytes) /\ ret \in Seq(Bytes)

LEMMA NextStep ==
  ASSUME TypeOK, Next
  PROVE  /\ TypeOK'
         /\ \/ \E n \in 0 .. Len(Content) :
                 /\ ret' = SubSeq(Content, 1, n)
                 /\ Content' = SubSeq(Content, n + 1, Len(Content))
            \/ \E n \in 0 .. Len(Content) :
                 /\ ret' = SubSeq(Content, n + 1, Len(Content))
                 /\ Content' = SubSeq(Content, 1, n)
            \/ /\ ret' \in Seq(Bytes)
               /\ Len(Content) + Len(ret') <= Capacity
               /\ SteadySource = TRUE => Content' = Content \o ret'
            \/ ret' = <<>> /\ (Content' = Content \/ Content' = <<>>)
<1>1. \A n \in 0 .. Capacity + 1 : n \in Nat
  BY CapacityType
<1>2. CASE \E n \in 0 .. Size : Shift(n)
  <2>1. PICK n \in 0 .. Size : Shift(n)
    BY <1>2
  <2>2. n \in 0 .. Len(Content)
    BY TypeFacts
  <2> QED
    BY <2>1, <2>2, ShiftStep
<1>3. ASSUME NEW n \in 0 .. Capacity + 1, ReadFrom(n)
      PROVE  /\ TypeOK'
             /\ \E m \in 0 .. Len(Content) :
                  /\ ret' = SubSeq(Content, m + 1, Len(Content))
                  /\ Content' = SubSeq(Content, 1, m)
  BY <1>1, <1>3, ReadFromStep
<1>4. ASSUME NEW n \in 0 .. Capacity + 1, WriteCallback(n)
      PROVE  /\ TypeOK'
             /\ ret' \in Seq(Bytes)
             /\ Len(Content) + Len(ret') <= Capacity
             /\ SteadySource = TRUE => Content' = Content \o ret'
  BY <1>1, <1>4, WriteCallbackStep
<1>5. ASSUME NEW d \in Inputs, Write(d)
      PROVE  /\ TypeOK'
             /\ ret' \in Seq(Bytes)
             /\ Len(Content) + Len(ret') <= Capacity
             /\ SteadySource = TRUE => Content' = Content \o ret'
  <2>1. d \in Seq(Bytes)
    BY BufferAssumption
  <2> QED
    BY <1>5, <2>1, WriteStep
<1>6. ASSUME NEW b \in Bytes, ReadBuffer(b)
      PROVE  TypeOK' /\ ret' = <<>> /\ Content' = Content
  BY <1>6, ReadBufferStep
<1>7. CASE Clear
  BY <1>7, ClearStep
<1>8. CASE \/ \E n \in 0 .. Capacity + 1 : Read(n)
           \/ \E b \in Bytes : ReadTo(b)
           \/ \E d \in MultiDelims : ReadToString(d)
  <2>1. \E n \in 0 .. Size : Shift(n)
    BY <1>1, <1>8, ReadStep
  <2> QED
    BY <1>2, <2>1
<1> QED
  BY <1>3, <1>4, <1>5, <1>6, <1>7, <1>8 DEF Next

(* The counters stay less than a capacity apart and the array whole,       *)
(* whatever the source of a callback does.                                 *)
THEOREM TypeCorrect == Spec => []TypeOK
<1>1. Init => TypeOK
  <2> SUFFICES ASSUME NEW d \in Initial,
                      buf = [i \in 0 .. Capacity - 1 |->
                               IF i < Len(d) THEN d[i + 1] ELSE Junk],
                      r = 0, w = 0, ret = d
               PROVE  TypeOK
    BY DEF Init
  <2>1. d \in Seq(Bytes) /\ Len(d) \in Nat
    BY BufferAssumption
  <2>2. \A i \in 0 .. Capacity - 1 : i < Len(d) => d[i + 1] \in Bytes
    BY <2>1, CapacityType
  <2>3. buf \in [0 .. Capacity - 1 -> Bytes \cup {Junk}]
    BY <2>2
  <2>4. Size \in 0 .. Capacity
    BY CapacityType DEF Size
  <2> QED
    BY <2>1, <2>3, <2>4 DEF TypeOK
<1>2. TypeOK /\ [Next]_vars => TypeOK'
  <2>1. CASE Next
    BY <2>1, NextStep
  <2>2. CASE UNCHANGED vars
    BY <2>2 DEF vars, TypeOK, Size
  <2> QED
    BY <2>1, <2>2
<1> QED
  BY <1>1, <1>2, PTL DEF Spec

(* A write never harms what is not yet read.  With a source that delivers  *)
(* in fits the new bytes can be misplaced, for which the next theorem has  *)
(* its assumption SteadySource, but none of the old ones is touched.       *)
THEOREM UnreadIsKeptHolds == Spec => UnreadIsKept
<1>1. TypeOK /\ [Next]_vars => [w' > w /\ r' = r => Kept]_vars
  <2> SUFFICES ASSUME TypeOK, Next, w' > w, r' = r
               PROVE  Kept
    BY DEF vars
  <2>0. TypeOK' /\ \A n \in 0 .. Capacity + 1 : n \in Nat
    BY NextStep, CapacityType
  <2>1. ASSUME NEW n \in 0 .. Capacity + 1, WriteCallback(n)
        PROVE  Kept
    BY <2>0, <2>1, WriteCallbackStep
  <2>2. ASSUME NEW d \in Inputs, Write(d)
        PROVE  Kept
    <3>1. /\ d \in Seq(Bytes)
          /\ Content \in Seq(Cell) /\ Len(Content) = Size
      BY BufferAssumption, TypeFacts
    <3>2. ret' \in Seq(Bytes) /\ Content' = Content \o ret'
      BY <2>2, <3>1, WriteStep
    <3>3. PICK e \in Seq(Bytes) : e = ret'
      BY <3>2
    <3>4. e \in Seq(Cell)
      BY DEF Cell
    <3>5. \A k \in 1 .. Len(Content) : (Content \o e)[k] = Content[k]
      BY <3>1, <3>4
    <3> QED
      BY <3>1, <3>2, <3>3, <3>5 DEF Kept
  <2>3. ASSUME NEW n \in 0 .. Capacity + 1, ReadFrom(n)
        PROVE  FALSE
    <3>1. w = r + Size /\ w \in Nat /\ r \in Nat /\ Size \in Nat
      BY TypeFacts
    <3>2. CASE n >= Size
      BY <2>3, <3>1, <3>2 DEF ReadFrom
    <3>3. CASE ~ (n >= Size)
      <4>1. w' = r + n
        BY <2>3, <3>3 DEF ReadFrom
      <4> QED
        BY <2>0, <3>1, <3>3, <4>1
    <3> QED
      BY <3>2, <3>3
  <2>4. CASE \/ \E n \in 0 .. Capacity + 1 : Read(n)
             \/ \E b \in Bytes : ReadTo(b)
             \/ \E d \in MultiDelims : ReadToString(d)
    <3>1. \E n \in 0 .. Size : Shift(n)
      BY <2>0, <2>4, ReadStep
    <3> QED
      BY <3>1, TypeFacts DEF Shift
  <2>5. ASSUME NEW b \in Bytes, ReadBuffer(b)
        PROVE  FALSE
    BY <2>5, TypeFacts DEF ReadBuffer
  <2>6. CASE Clear
    BY <2>6, TypeFacts DEF Clear
  <2> QED
    BY <2>1, <2>2, <2>3, <2>4, <2>5, <2>6 DEF Next
<1>2. TypeOK /\ [Next]_vars =>
        [w' > w /\ r' = r => \A i \in 1 .. Size : Content'[i] = Content[i]]_vars
  BY <1>1 DEF Kept
<1> QED
  BY <1>2, TypeCorrect, PTL DEF Spec, UnreadIsKept

LEMMA QueueStep ==
  ASSUME SteadySource = TRUE, Queued, [Next]_vars
  PROVE  Queued' /\ [Abstract!Next]_<<Content, ret>>
<1>0. /\ TypeOK /\ Content \in Seq(Bytes) /\ ret \in Seq(Bytes)
      /\ Len(Content) \in Nat /\ Len(Content) <= Capacity
  BY TypeFacts DEF Queued
<1>1. CASE UNCHANGED vars
  <2>1. Content' = Content /\ ret' = ret
    BY <1>1 DEF vars, Content, Size
  <2>2. TypeOK'
    BY <1>0, <1>1 DEF vars, TypeOK, Size
  <2> QED
    BY <1>0, <2>1, <2>2 DEF Queued
<1>2. CASE Next
  <2>1. TypeOK'
    BY <1>0, <1>2, NextStep
  <2>2. CASE \E n \in 0 .. Len(Content) :
               /\ ret' = SubSeq(Content, 1, n)
               /\ Content' = SubSeq(Content, n + 1, Len(Content))
    <3>1. Abstract!Read
      BY <2>2 DEF Abstract!Read
    <3>2. Content' \in Seq(Bytes) /\ ret' \in Seq(Bytes)
      BY <1>0, <2>2
    <3> QED
      BY <2>1, <3>1, <3>2 DEF Queued, Abstract!Next
  <2>3. CASE \E n \in 0 .. Len(Content) :
               /\ ret' = SubSeq(Content, n + 1, Len(Content))
               /\ Content' = SubSeq(Content, 1, n)
    <3>1. Abstract!Truncate
      BY <2>3 DEF Abstract!Truncate
    <3>2. Content' \in Seq(Bytes) /\ ret' \in Seq(Bytes)
      BY <1>0, <2>3
    <3> QED
      BY <2>1, <3>1, <3>2 DEF Queued, Abstract!Next
  <2>4. CASE /\ ret' \in Seq(Bytes)
             /\ Len(Content) + Len(ret') <= Capacity
             /\ Content' = Content \o ret'
    <3>1. PICK d \in Seq(Bytes) : d = ret'
      BY <2>4
    <3>2. Content \o d \in Seq(Bytes)
          /\ Len(Content \o d) = Len(Content) + Len(d)
      BY <1>0, <3>1, ConcatProperties, Zenon
    <3>3. Content' \in Seq(Bytes) /\ Len(Content') <= Capacity
      BY <2>4, <3>1, <3>2
    <3>4. Abstract!Write
      BY <2>4, <3>3 DEF Abstract!Write
    <3> QED
      BY <2>1, <2>4, <3>3, <3>4 DEF Queued, Abstract!Next
  <2>5. CASE ret' = <<>> /\ Content' = Content
    <3>1. /\ 0 \in 0 .. Len(Content) /\ SubSeq(Content, 1, 0) = <<>>
          /\ SubSeq(Content, 0 + 1, Len(Content)) = Content
          /\ <<>> \in Seq(Bytes)
      BY <1>0
    <3>2. Abstract!Read
      BY <2>5, <3>1 DEF Abstract!Read
    <3> QED
      BY <1>0, <2>1, <2>5, <3>1, <3>2 DEF Queued, Abstract!Next
  <2>6. CASE ret' = <<>> /\ Content' = <<>>
    <3>1. Abstract!Clear /\ <<>> \in Seq(Bytes)
      BY <2>6 DEF Abstract!Clear
    <3> QED
      BY <2>1, <2>6, <3>1 DEF Queued, Abstract!Next
  <2> QED
    BY <1>0, <1>2, <2>2, <2>3, <2>4, <2>5, <2>6, NextStep
<1> QED
  BY <1>1, <1>2

(* The array and its counters are a first-in first-out queue, for every    *)
(* capacity that divides the counters' width: nothing is lost, repeated or *)
(* reordered by wrapping, split writes, truncation or putting back.        *)
THEOREM BufferIsByteQueue ==
  ASSUME SteadySource = TRUE, Initial = {<<>>}
  PROVE  Spec => ImplementsByteQueue
<1>1. Init => Queued /\ Abstract!Init
  <2> SUFFICES ASSUME Init
               PROVE  Queued /\ Abstract!Init
    OBVIOUS
  <2>1. ret = <<>> /\ r = 0 /\ w = 0
    BY DEF Init
  <2>2. Size = 0
    BY <2>1 DEF Size
  <2>3. Content = <<>>
    BY <2>2 DEF Content
  <2>4. <<>> \in Seq(Bytes) /\ Len(<<>>) = 0 /\ 0 <= Capacity
    BY CapacityType
  <2>5. Abstract!Init
    BY <2>1, <2>3, <2>4 DEF Abstract!Init, Abstract!TypeOK
  <2>6. buf \in [0 .. Capacity - 1 -> Bytes \cup {Junk}]
    <3>1. PICK d \in Initial :
            buf = [i \in 0 .. Capacity - 1 |->
                     IF i < Len(d) THEN d[i + 1] ELSE Junk]
      BY DEF Init
    <3>2. Len(d) = 0 /\ \A i \in 0 .. Capacity - 1 : ~ (i < 0)
      BY <3>1, CapacityType
    <3> QED
      BY <3>1, <3>2
  <2>7. TypeOK
    BY <2>1, <2>2, <2>6, CapacityType DEF TypeOK
  <2> QED
    BY <2>1, <2>3, <2>4, <2>5, <2>7 DEF Queued
<1>2. Queued /\ [Next]_vars => Queued' /\ [Abstract!Next]_(Abstract!vars)
  BY QueueStep DEF Abstract!vars
<1> QED
  BY <1>1, <1>2, PTL DEF Spec, ImplementsByteQueue, Abstract!Spec

=============================================================================
