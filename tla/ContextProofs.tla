--------------------------- MODULE ContextProofs ---------------------------
(***************************************************************************)
(* What each step of Context preserves, for any requests and any ways of   *)
(* using read_sock.  ConnectionProofs draws the theorems from it.          *)
(***************************************************************************)
EXTENDS Context, SequenceTheorems, TLAPS

Block == [msg : Messages, first : BOOLEAN, last : BOOLEAN]

LEMMA Kinds ==
  /\ Work = Bare \cup Full /\ Work \subseteq Requests
  /\ None \notin Requests
  /\ \A w \in Ways : w.capacity \in Nat \ {0} /\ w.served \in BOOLEAN
  /\ \A q \in Requests : HeadOf(q) \in Messages /\ BodyOf(q) \in Messages
  /\ Junk \in Messages
  /\ \A m \in Messages : m.part = "head" => m.of \in Requests
<1>1. /\ Work = Bare \cup Full /\ Work \subseteq Requests
      /\ None \notin Requests
      /\ \A w \in Ways : w.capacity \in Nat \ {0} /\ w.served \in BOOLEAN
  BY ContextAssumption DEF Work, Requests
<1>2. /\ \A q \in Requests : HeadOf(q) \in Messages /\ BodyOf(q) \in Messages
      /\ Junk \in Messages
      /\ \A m \in Messages : m.part = "head" => m.of \in Requests
  BY DEF Messages, HeadOf, BodyOf, Junk
<1> QED
  BY <1>1, <1>2

-----------------------------------------------------------------------------
(* Sequences.                                                              *)

LEMMA JoinSeq ==
  ASSUME NEW S, NEW s \in Seq(S), NEW t \in Seq(S)
  PROVE  /\ s \o t \in Seq(S)
         /\ Len(s \o t) = Len(s) + Len(t)
         /\ \A i \in 1 .. Len(s) + Len(t) :
              (s \o t)[i] = IF i <= Len(s) THEN s[i] ELSE t[i - Len(s)]
  BY ConcatProperties, Zenon

LEMMA RecordType ==
  ASSUME NEW msgs \in Seq(Messages)
  PROVE  /\ Record(msgs) \in Seq(Block) /\ Len(Record(msgs)) = Len(msgs)
         /\ \A i \in 1 .. Len(msgs) :
              /\ Record(msgs)[i].msg = msgs[i]
              /\ Record(msgs)[i].first <=> i = 1
              /\ Record(msgs)[i].last <=> i = Len(msgs)
<1>1. ASSUME NEW i \in 1 .. Len(msgs)
      PROVE  [msg |-> msgs[i], first |-> i = 1, last |-> i = Len(msgs)]
               \in Block
  <2>1. msgs[i] \in Messages
    OBVIOUS
  <2>2. (i = 1) \in BOOLEAN /\ (i = Len(msgs)) \in BOOLEAN
    BY Zenon
  <2> QED
    BY <2>1, <2>2, Zenon DEF Block
<1>2. Record(msgs) \in Seq(Block) /\ Len(Record(msgs)) = Len(msgs)
  BY <1>1 DEF Record
<1>3. ASSUME NEW i \in 1 .. Len(msgs)
      PROVE  /\ Record(msgs)[i].msg = msgs[i]
             /\ Record(msgs)[i].first <=> i = 1
             /\ Record(msgs)[i].last <=> i = Len(msgs)
  <2> DEFINE f == (i = 1)
             l == (i = Len(msgs))
  <2>1. Record(msgs)[i] = [msg |-> msgs[i], first |-> f, last |-> l]
    BY Zenon DEF Record
  <2> HIDE DEF f, l
  <2>2. /\ Record(msgs)[i].msg = msgs[i]
        /\ Record(msgs)[i].first = f
        /\ Record(msgs)[i].last = l
    BY <2>1
  <2> QED
    BY <2>2, Zenon DEF f, l
<1> QED
  BY <1>2, <1>3, Zenon

LEMMA DecryptType ==
  ASSUME NEW chunk \in Seq(Block)
  PROVE  /\ Decrypt(chunk) \in Seq(Messages)
         /\ Len(Decrypt(chunk)) = Len(chunk)
         /\ \A i \in 1 .. Len(chunk) :
              Decrypt(chunk)[i] \in {chunk[i].msg, Junk}
<1>1. DOMAIN chunk = 1 .. Len(chunk) /\ Len(chunk) \in Nat
  OBVIOUS
<1>2. ASSUME NEW i \in 1 .. Len(chunk)
      PROVE  chunk[i].msg \in Messages
  <2>1. chunk[i] \in Block
    OBVIOUS
  <2> QED
    BY <2>1, Zenon DEF Block
<1>3. Decrypt(chunk) = [i \in 1 .. Len(chunk) |->
        IF chunk[i].first = (i = 1) THEN chunk[i].msg ELSE Junk]
  BY <1>1 DEF Decrypt
<1>4. ASSUME NEW i \in 1 .. Len(chunk)
      PROVE  /\ Decrypt(chunk)[i] \in {chunk[i].msg, Junk}
             /\ Decrypt(chunk)[i] \in Messages
  BY <1>2, <1>3, Kinds, Zenon
<1>5. Decrypt(chunk) \in Seq(Messages) /\ Len(Decrypt(chunk)) = Len(chunk)
  <2> DEFINE d == Decrypt(chunk)
  <2>1. DOMAIN d = 1 .. Len(chunk) /\ d = [i \in 1 .. Len(chunk) |-> d[i]]
    BY <1>3, Zenon
  <2> HIDE DEF d
  <2> QED
    BY <1>1, <1>4, <2>1 DEF d
<1> QED
  BY <1>4, <1>5

(* A chunk is the first part of what has arrived, as far as it fits.       *)
LEMMA ChunkProperties ==
  ASSUME TypeOK, NEW chunk \in Chunks
  PROVE  \E n \in 1 .. Len(stream) :
           /\ chunk = SubSeq(stream, 1, n)
           /\ chunk \in Seq(Block) /\ Len(chunk) = n
           /\ \A i \in 1 .. n : chunk[i] = stream[i]
           /\ Len(buf) + n <= way.capacity
           /\ ~ way.cut => n = Len(stream) \/ Len(buf) + n = way.capacity
<1>1. /\ stream \in Seq(Block) /\ Len(stream) \in Nat
      /\ Len(buf) \in Nat /\ way.capacity \in Nat /\ Len(buf) <= way.capacity
  BY Kinds DEF TypeOK, Block
<1> DEFINE space == way.capacity - Len(buf)
           most == IF Len(stream) < space THEN Len(stream) ELSE space
<1>2. /\ most \in Nat /\ most <= Len(stream) /\ Len(buf) + most <= way.capacity
      /\ most = Len(stream) \/ Len(buf) + most = way.capacity
  BY <1>1
<1>3. PICK n \in (IF way.cut THEN 1 ELSE most) .. most :
        chunk = SubSeq(stream, 1, n) /\ chunk # <<>>
  BY DEF Chunks
<1> HIDE DEF most
<1>4. n \in Int /\ n <= most /\ (~ way.cut => n = most)
  BY <1>2, <1>3
<1>5. n >= 1
  BY <1>1, <1>3, <1>4
<1>6. n \in 1 .. Len(stream) /\ Len(buf) + n <= way.capacity
  BY <1>1, <1>2, <1>4, <1>5
<1>7. /\ SubSeq(stream, 1, n) \in Seq(Block) /\ Len(SubSeq(stream, 1, n)) = n
      /\ \A i \in 1 .. n : SubSeq(stream, 1, n)[i] = stream[i]
  BY <1>1, <1>6
<1> QED
  BY <1>2, <1>3, <1>4, <1>6, <1>7

-----------------------------------------------------------------------------
(* What a read comes to: of the plaintext the first k messages are used or *)
(* thrown away; q is the request that was waiting for its message or whose *)
(* header is the first message, if there is one; it is handled, or it      *)
(* waits, or it is forgotten.                                              *)
Outcome(plain, k, q) ==
  /\ k \in 0 .. Len(plain) /\ k >= 1
  /\ buf' = SubSeq(plain, k + 1, Len(plain))
  /\ \/ header # None /\ q = header
     \/ /\ header = None
        /\ q = None \/ (k >= 1 /\ q \in Requests /\ plain[1] = HeadOf(q))
  /\ header' \in {q, None} /\ header' \in Full \cup {None}
  /\ way.served => header' = header
  /\ \/ handled' = handled
     \/ /\ q \in Work
        /\ header' = None \/ way.served
        /\ \E b \in Messages \cup {None} :
             handled' = Append(handled, [head |-> q, body |-> b])
  /\ replies' \in Seq({"answer", "ping", "error"})

LEMMA AlsoType ==
  \A also \in {<<>>, <<"error">>} : also \in Seq({"answer", "ping", "error"})
<1> DEFINE R == {"answer", "ping", "error"}
<1>1. "error" \in R /\ <<>> \in Seq(R)
  OBVIOUS
<1> HIDE DEF R
<1>2. <<"error">> \in Seq(R)
  BY <1>1
<1>3. \A also \in {<<>>, <<"error">>} : also \in Seq(R)
  BY <1>1, <1>2
<1> QED
  BY <1>3 DEF R

LEMMA HandleStep ==
  ASSUME TypeOK, NEW q \in Work, NEW b \in Messages \cup {None},
         NEW also \in {<<>>, <<"error">>}, HandleRequest(q, b, also)
  PROVE  /\ handled' = Append(handled, [head |-> q, body |-> b])
         /\ replies' \in Seq({"answer", "ping", "error"})
<1> DEFINE R == {"answer", "ping", "error"}
<1>1. replies \in Seq(R) /\ also \in Seq(R)
  BY AlsoType, Zenon DEF TypeOK
<1>2. /\ Append(replies, "answer") \in Seq(R)
      /\ Append(replies, "error") \in Seq(R)
  BY <1>1
<1> HIDE DEF R
<1>3. /\ Append(replies, "answer") \o also \in Seq(R)
      /\ Append(replies, "error") \o also \in Seq(R)
      /\ replies \o also \in Seq(R)
  BY <1>1, <1>2, JoinSeq
<1> QED
  BY <1>3 DEF HandleRequest, R

LEMMA ReadBodyStep ==
  ASSUME TypeOK, NEW q \in Full, NEW rest \in Seq(Messages),
         NEW canWrite \in BOOLEAN, ReadBody(q, rest, canWrite)
  PROVE  /\ buf' = IF canWrite /\ rest # <<>> THEN Tail(rest) ELSE <<>>
         /\ header' \in {q, None} \/ way.served
         /\ way.served => header' = header
         /\ rest # <<>> => header' = None \/ way.served
         /\ \/ handled' = handled
            \/ /\ rest # <<>> /\ q \in Work
               /\ header' = None \/ way.served
               /\ handled' = Append(handled, [head |-> q, body |-> rest[1]])
         /\ replies' \in Seq({"answer", "ping", "error"})
<1> DEFINE full == IF canWrite THEN <<>> ELSE <<"error">>
<1>1. /\ header' = IF way.served THEN header
                   ELSE IF canWrite /\ rest = <<>> THEN q ELSE None
      /\ buf' = IF canWrite /\ rest # <<>> THEN Tail(rest) ELSE <<>>
      /\ IF rest = <<>>
           THEN replies' = replies \o full /\ UNCHANGED handled
           ELSE HandleRequest(q, rest[1], full)
  BY DEF ReadBody, SetHeader
<1>2. full \in {<<>>, <<"error">>} /\ q \in Requests /\ q \in Work
  BY DEF Requests, Work
<1> HIDE DEF full
<1>3. CASE rest = <<>>
  <2>1. replies' \in Seq({"answer", "ping", "error"})
    <3> DEFINE R == {"answer", "ping", "error"}
    <3>1. replies \in Seq(R) /\ full \in Seq(R)
      BY <1>2, AlsoType, Zenon DEF TypeOK
    <3>2. replies' = replies \o full
      BY <1>1, <1>3
    <3> HIDE DEF R
    <3>3. replies \o full \in Seq(R)
      BY <3>1, JoinSeq
    <3> QED
      BY <3>2, <3>3 DEF R
  <2> QED
    BY <1>1, <1>3, <2>1
<1>4. CASE rest # <<>>
  <2>1. rest[1] \in Messages \cup {None} /\ HandleRequest(q, rest[1], full)
    BY <1>1, <1>4
  <2>2. /\ handled' = Append(handled, [head |-> q, body |-> rest[1]])
        /\ replies' \in Seq({"answer", "ping", "error"})
    BY <1>2, <2>1, HandleStep
  <2> QED
    BY <1>1, <1>2, <1>4, <2>2
<1> QED
  BY <1>3, <1>4

LEMMA ReadOutcome ==
  ASSUME TypeOK, NEW plain \in Seq(Messages), plain # <<>>,
         NEW canWrite \in BOOLEAN,
         IF header = None THEN ReadHeader(plain[1], Tail(plain), canWrite)
                          ELSE ReadBody(header, plain, canWrite)
  PROVE  \E k \in 0 .. Len(plain), q \in Requests \cup {None} :
           Outcome(plain, k, q)
<1> DEFINE rest == Tail(plain)
<1>1. /\ plain[1] \in Messages /\ rest \in Seq(Messages)
      /\ Len(plain) \in Nat /\ Len(plain) >= 1
      /\ rest = SubSeq(plain, 2, Len(plain))
      /\ rest # <<>> => Len(plain) >= 2
                        /\ Tail(rest) = SubSeq(plain, 3, Len(plain))
      /\ <<>> = SubSeq(plain, Len(plain) + 1, Len(plain))
      /\ \A b \in 1 .. Len(plain) : plain[b] \in Messages
  OBVIOUS
<1>2. Full \subseteq Requests /\ Bare \subseteq Requests /\ None \notin Requests
  BY Kinds DEF Requests
<1> HIDE DEF rest
<1>3. CASE header # None
  <2>1. header \in Full /\ ReadBody(header, plain, canWrite)
    BY <1>3 DEF TypeOK
  <2>2. /\ buf' = IF canWrite THEN Tail(plain) ELSE <<>>
        /\ header' \in {header, None}
        /\ way.served => header' = header
        /\ \/ handled' = handled
           \/ /\ header \in Work
              /\ header' = None \/ way.served
              /\ handled' =
                   Append(handled, [head |-> header, body |-> plain[1]])
        /\ replies' \in Seq({"answer", "ping", "error"})
    BY <2>1, ReadBodyStep
  <2> DEFINE k == IF canWrite THEN 1 ELSE Len(plain)
  <2>3. k \in 0 .. Len(plain) /\ buf' = SubSeq(plain, k + 1, Len(plain))
    <3>1. CASE canWrite
      BY <1>1, <2>2, <3>1 DEF rest
    <3>2. CASE ~ canWrite
      BY <1>1, <2>2, <3>2
    <3> QED
      BY <3>1, <3>2
  <2> HIDE DEF k
  <2>4. Outcome(plain, k, header)
    BY <1>1, <1>3, <2>1, <2>2, <2>3, SMTT(20) DEF Outcome
  <2> QED
    BY <1>2, <2>1, <2>3, <2>4
<1>4. CASE header = None /\ plain[1].part = "head" /\ plain[1].of \in Full
  <2> DEFINE q == plain[1].of
  <2>1. q \in Full /\ plain[1] = HeadOf(q) /\ ReadBody(q, rest, canWrite)
    BY <1>1, <1>4 DEF ReadHeader, HeadOf, Messages, Junk, rest
  <2>2. /\ buf' = IF canWrite /\ rest # <<>> THEN Tail(rest) ELSE <<>>
        /\ header' \in {q, None} \/ way.served
        /\ way.served => header' = header
        /\ \/ handled' = handled
           \/ /\ rest # <<>> /\ q \in Work
              /\ header' = None \/ way.served
              /\ handled' = Append(handled, [head |-> q, body |-> rest[1]])
        /\ replies' \in Seq({"answer", "ping", "error"})
    BY <1>1, <2>1, ReadBodyStep
  <2> HIDE DEF q
  <2> DEFINE k == IF canWrite /\ rest # <<>> THEN 2 ELSE Len(plain)
  <2>3. /\ k \in 0 .. Len(plain) /\ k >= 1
        /\ buf' = SubSeq(plain, k + 1, Len(plain))
    <3>1. CASE canWrite /\ rest # <<>>
      BY <1>1, <2>2, <3>1
    <3>2. CASE ~ (canWrite /\ rest # <<>>)
      <4>1. k = Len(plain) /\ buf' = <<>>
        BY <2>2, <3>2, Zenon
      <4> HIDE DEF k
      <4> QED
        BY <1>1, <4>1
    <3> QED
      BY <3>1, <3>2
  <2>4. rest # <<>> => rest[1] \in Messages
    BY <1>1
  <2> HIDE DEF k
  <2>5. header' \in {q, None}
    BY <1>4, <2>2
  <2>6. Outcome(plain, k, q)
    BY <1>2, <1>4, <2>1, <2>2, <2>3, <2>4, <2>5 DEF Outcome
  <2> QED
    BY <1>2, <2>1, <2>3, <2>6
<1>5. CASE header = None /\ plain[1].part = "head" /\ plain[1].of \in Bare
           /\ plain[1].of \notin Full
  <2> DEFINE q == plain[1].of
  <2>1. q \in Requests /\ q \in Work /\ plain[1] = HeadOf(q)
    BY <1>1, <1>2, <1>5, Kinds DEF HeadOf, Messages, Junk
  <2>2. buf' = rest /\ header' = None /\ HandleRequest(q, None, <<>>)
    BY <1>5 DEF ReadHeader, rest
  <2>3. /\ handled' = Append(handled, [head |-> q, body |-> None])
        /\ replies' \in Seq({"answer", "ping", "error"})
    BY <2>1, <2>2, HandleStep
  <2> HIDE DEF q
  <2>4. buf' = SubSeq(plain, 1 + 1, Len(plain))
    BY <1>1, <2>2
  <2>5. header' = None /\ header = None
    BY <1>5, <2>2
  <2>6. \/ handled' = handled
        \/ /\ q \in Work
           /\ header' = None \/ way.served
           /\ \E b \in Messages \cup {None} :
                handled' = Append(handled, [head |-> q, body |-> b])
    BY <2>1, <2>3, <2>5, Zenon
  <2>7. Outcome(plain, 1, q)
    <3>1. /\ 1 \in 0 .. Len(plain) /\ 1 >= 1
          /\ header' \in {q, None} /\ header' \in Full \cup {None}
      BY <1>1, <2>5
    <3> QED
      BY <2>1, <2>3, <2>4, <2>5, <2>6, <3>1, Zenon DEF Outcome
  <2> QED
    BY <1>1, <2>1, <2>7
<1>6. CASE header = None /\ ~ (plain[1].part = "head"
                               /\ plain[1].of \in Full \cup Bare)
  <2>1. /\ buf' = rest /\ header' = None /\ handled' = handled
        /\ \E r \in {"ping", "error"} : replies' = Append(replies, r)
    BY <1>6 DEF ReadHeader, rest
  <2>2. replies' \in Seq({"answer", "ping", "error"})
    BY <2>1 DEF TypeOK
  <2>3. buf' = SubSeq(plain, 1 + 1, Len(plain))
    BY <1>1, <2>1
  <2>4. Outcome(plain, 1, None)
    BY <1>1, <1>6, <2>1, <2>2, <2>3 DEF Outcome
  <2> QED
    BY <1>1, <2>4
<1> QED
  BY <1>3, <1>4, <1>5, <1>6

(* The event: what has come is thrown away, or decrypted and read.         *)
LEMMA ReadSockStep ==
  ASSUME TypeOK, ReadSock
  PROVE  \E n \in 1 .. Len(stream) :
           /\ stream' = SubSeq(stream, n + 1, Len(stream))
           /\ UNCHANGED <<way, sent, due>>
           /\ \/ /\ UNCHANGED <<buf, header, handled>>
                 /\ replies' \in Seq({"answer", "ping", "error"})
              \/ \E plain \in Seq(Messages) :
                   /\ Len(plain) = Len(buf) + n /\ Len(plain) <= way.capacity
                   /\ \A i \in 1 .. Len(buf) : plain[i] = buf[i]
                   /\ \A i \in 1 .. n :
                        plain[Len(buf) + i] \in {stream[i].msg, Junk}
                   /\ \E k \in 0 .. Len(plain), q \in Requests \cup {None} :
                        Outcome(plain, k, q)
<1>1. PICK chunk \in Chunks :
        /\ stream' = SubSeq(stream, Len(chunk) + 1, Len(stream))
        /\ IF Decrypts(chunk)
             THEN LET plain    == buf \o Decrypt(chunk)
                      canWrite == Len(buf) + Len(chunk) < way.capacity
                  IN  IF header = None
                        THEN ReadHeader(plain[1], Tail(plain), canWrite)
                        ELSE ReadBody(header, plain, canWrite)
             ELSE replies' = Append(replies, "error")
                  /\ UNCHANGED <<buf, header, handled>>
        /\ UNCHANGED <<way, sent, due>>
  BY DEF ReadSock
<1>2. PICK n \in 1 .. Len(stream) :
        /\ chunk \in Seq(Block) /\ Len(chunk) = n
        /\ \A i \in 1 .. n : chunk[i] = stream[i]
        /\ Len(buf) + n <= way.capacity
  BY ChunkProperties
<1>3. CASE ~ Decrypts(chunk)
  <2>1. replies' \in Seq({"answer", "ping", "error"})
    <3>1. replies' = Append(replies, "error")
      BY <1>1, <1>3
    <3> QED
      BY <3>1 DEF TypeOK
  <2> QED
    BY <1>1, <1>2, <1>3, <2>1
<1>4. CASE Decrypts(chunk)
  <2> DEFINE d        == Decrypt(chunk)
             plain    == buf \o d
             canWrite == Len(buf) + Len(chunk) < way.capacity
  <2>1. /\ d \in Seq(Messages) /\ Len(d) = n
        /\ \A i \in 1 .. n : d[i] \in {stream[i].msg, Junk}
    BY <1>2, DecryptType
  <2>2. buf \in Seq(Messages) /\ Len(buf) \in Nat
    BY DEF TypeOK
  <2> HIDE DEF d
  <2>3. /\ plain \in Seq(Messages) /\ Len(plain) = Len(buf) + Len(d)
        /\ \A i \in 1 .. Len(buf) + Len(d) :
             plain[i] = IF i <= Len(buf) THEN buf[i] ELSE d[i - Len(buf)]
    BY <2>1, <2>2, JoinSeq
  <2>4. IF header = None THEN ReadHeader(plain[1], Tail(plain), canWrite)
                         ELSE ReadBody(header, plain, canWrite)
    BY <1>1, <1>4 DEF d
  <2>5. canWrite \in BOOLEAN
    <3>1. Len(buf) + Len(chunk) \in Int /\ way.capacity \in Int
      BY <1>2, <2>2, Kinds DEF TypeOK
    <3> QED
      BY <3>1
  <2> HIDE DEF plain, canWrite
  <2>6. plain # <<>>
    BY <2>1, <2>2, <2>3
  <2>7. \E k \in 0 .. Len(plain), q \in Requests \cup {None} :
          Outcome(plain, k, q)
    BY <2>3, <2>4, <2>5, <2>6, ReadOutcome
  <2>8. /\ \A i \in 1 .. Len(buf) : plain[i] = buf[i]
        /\ \A i \in 1 .. n : plain[Len(buf) + i] \in {stream[i].msg, Junk}
    <3>1. ASSUME NEW i \in 1 .. n
          PROVE  plain[Len(buf) + i] = d[i]
      <4>1. /\ Len(buf) + i \in 1 .. Len(buf) + Len(d)
            /\ ~ (Len(buf) + i <= Len(buf)) /\ Len(buf) + i - Len(buf) = i
        BY <2>1, <2>2
      <4> QED
        BY <2>3, <4>1
    <3>2. ASSUME NEW i \in 1 .. Len(buf)
          PROVE  plain[i] = buf[i]
      <4>1. i \in 1 .. Len(buf) + Len(d) /\ i <= Len(buf)
        BY <2>1, <2>2
      <4> QED
        BY <2>3, <4>1
    <3> QED
      BY <2>1, <3>1, <3>2
  <2>9. /\ stream' = SubSeq(stream, n + 1, Len(stream))
        /\ UNCHANGED <<way, sent, due>>
    BY <1>1, <1>2
  <2>10. Len(plain) = Len(buf) + n /\ Len(plain) <= way.capacity
    BY <1>2, <2>1, <2>3
  <2> QED
    BY <2>3, <2>7, <2>8, <2>9, <2>10, Zenon
<1> QED
  BY <1>3, <1>4

(* The peer appends the blocks of one record.                              *)
LEMMA SendRequestStep ==
  ASSUME TypeOK, NEW q \in Requests, NEW apart \in BOOLEAN,
         SendRequest(q, apart)
  PROVE  \E msgs \in {<<HeadOf(q)>>, <<HeadOf(q), BodyOf(q)>>} :
           /\ msgs \in Seq(Messages)
           /\ stream' = stream \o Record(msgs)
           /\ q \in Full \/ msgs = <<HeadOf(q)>>
           /\ due' = IF q \in Full /\ msgs = <<HeadOf(q)>> THEN q ELSE None
<1>1. HeadOf(q) \in Messages /\ BodyOf(q) \in Messages
  BY Kinds
<1>2. <<HeadOf(q)>> # <<HeadOf(q), BodyOf(q)>>
  <2>1. Len(<<HeadOf(q)>>) = 1 /\ Len(<<HeadOf(q), BodyOf(q)>>) = 2
    OBVIOUS
  <2> QED
    BY <2>1
<1>3. <<HeadOf(q)>> \in Seq(Messages)
      /\ <<HeadOf(q), BodyOf(q)>> \in Seq(Messages)
  BY <1>1
<1> DEFINE one == <<HeadOf(q)>>
           two == <<HeadOf(q), BodyOf(q)>>
<1>4. /\ stream' = stream \o Record(IF q \in Full /\ ~ apart THEN two ELSE one)
      /\ due' = IF q \in Full /\ apart THEN q ELSE None
  BY DEF SendRequest
<1> HIDE DEF one, two
<1>5. CASE q \in Full /\ ~ apart
  <2>1. stream' = stream \o Record(two) /\ due' = None
    BY <1>4, <1>5, Zenon
  <2> QED
    BY <1>2, <1>3, <1>5, <2>1, Zenon DEF one, two
<1>6. CASE ~ (q \in Full /\ ~ apart)
  <2>1. /\ stream' = stream \o Record(one)
        /\ due' = IF q \in Full THEN q ELSE None
    BY <1>4, <1>6, Zenon
  <2> QED
    BY <1>3, <2>1, Zenon DEF one
<1> QED
  BY <1>5, <1>6

LEMMA TypeStep == TypeOK /\ [Next]_vars => TypeOK'
<1> SUFFICES ASSUME TypeOK, [Next]_vars
             PROVE  TypeOK'
  OBVIOUS
<1>0. stream \in Seq(Block)
  BY DEF TypeOK, Block
<1>1. ASSUME NEW q \in Requests, NEW apart \in BOOLEAN, SendRequest(q, apart)
      PROVE  TypeOK'
  <2>1. PICK msgs \in {<<HeadOf(q)>>, <<HeadOf(q), BodyOf(q)>>} :
          /\ msgs \in Seq(Messages)
          /\ stream' = stream \o Record(msgs)
          /\ due' = IF q \in Full /\ msgs = <<HeadOf(q)>> THEN q ELSE None
    BY <1>1, SendRequestStep
  <2>2. stream \o Record(msgs) \in Seq(Block)
    BY <1>0, <2>1, RecordType, JoinSeq
  <2>3. /\ sent' = Append(sent, q)
        /\ UNCHANGED <<way, buf, header, handled, replies>>
    BY <1>1 DEF SendRequest
  <2>4. sent' \in Seq(Requests) /\ due' \in Requests \cup {None}
    BY <2>1, <2>3 DEF TypeOK
  <2>5. stream' \in Seq([msg : Messages, first : BOOLEAN, last : BOOLEAN])
    BY <2>1, <2>2, Zenon DEF Block
  <2> QED
    BY <2>3, <2>4, <2>5 DEF TypeOK
<1>2. CASE SendBody
  <2>1. /\ due \in Requests /\ stream' = stream \o Record(<<BodyOf(due)>>)
        /\ due' = None /\ UNCHANGED <<way, sent, buf, header, handled, replies>>
    BY <1>2 DEF SendBody, TypeOK
  <2>2. <<BodyOf(due)>> \in Seq(Messages)
    BY <2>1, Kinds
  <2>3. stream \o Record(<<BodyOf(due)>>) \in Seq(Block)
    BY <1>0, <2>2, RecordType, JoinSeq
  <2>4. stream' \in Seq([msg : Messages, first : BOOLEAN, last : BOOLEAN])
    BY <2>1, <2>3, Zenon DEF Block
  <2> QED
    BY <2>1, <2>4 DEF TypeOK
<1>3. CASE ReadSock
  <2>1. PICK n \in 1 .. Len(stream) :
          /\ stream' = SubSeq(stream, n + 1, Len(stream))
          /\ UNCHANGED <<way, sent, due>>
          /\ \/ /\ UNCHANGED <<buf, header, handled>>
                /\ replies' \in Seq({"answer", "ping", "error"})
             \/ \E plain \in Seq(Messages) :
                  /\ Len(plain) <= way.capacity
                  /\ \E k \in 0 .. Len(plain), q \in Requests \cup {None} :
                       Outcome(plain, k, q)
    BY <1>3, ReadSockStep
  <2>2. SubSeq(stream, n + 1, Len(stream)) \in Seq(Block)
    BY <1>0
  <2>3. stream' \in Seq([msg : Messages, first : BOOLEAN, last : BOOLEAN])
    BY <2>1, <2>2, Zenon DEF Block
  <2>4. CASE /\ UNCHANGED <<buf, header, handled>>
             /\ replies' \in Seq({"answer", "ping", "error"})
    BY <2>1, <2>3, <2>4 DEF TypeOK
  <2>5. ASSUME NEW plain \in Seq(Messages), Len(plain) <= way.capacity,
               NEW k \in 0 .. Len(plain), NEW q \in Requests \cup {None},
               Outcome(plain, k, q)
        PROVE  TypeOK'
    <3>1. buf' \in Seq(Messages) /\ Len(buf') <= way.capacity
      <4>1. /\ buf' = SubSeq(plain, k + 1, Len(plain))
            /\ way.capacity \in Nat
        BY <2>5, Kinds DEF Outcome, TypeOK
      <4> QED
        BY <2>5, <4>1
    <3>2. handled' \in Seq([head : Work, body : Messages \cup {None}])
      <4>1. handled \in Seq([head : Work, body : Messages \cup {None}])
        BY DEF TypeOK
      <4>2. \/ handled' = handled
            \/ /\ q \in Work
               /\ \E b \in Messages \cup {None} :
                    handled' = Append(handled, [head |-> q, body |-> b])
        BY <2>5 DEF Outcome
      <4>3. ASSUME NEW b \in Messages \cup {None}, q \in Work
            PROVE  [head |-> q, body |-> b]
                     \in [head : Work, body : Messages \cup {None}]
        BY <4>3, Zenon
      <4> DEFINE H == [head : Work, body : Messages \cup {None}]
      <4>4. ASSUME NEW h \in H
            PROVE  Append(handled, h) \in Seq(H)
        <5> HIDE DEF H
        <5> QED
          BY <4>1 DEF H
      <4> QED
        BY <4>1, <4>2, <4>3, <4>4, Zenon
    <3>3. /\ header' \in Full \cup {None}
          /\ replies' \in Seq({"answer", "ping", "error"})
      BY <2>5 DEF Outcome
    <3> QED
      BY <2>1, <2>3, <3>1, <3>2, <3>3 DEF TypeOK
  <2> QED
    BY <2>1, <2>4, <2>5
<1>4. CASE UNCHANGED vars
  BY <1>4 DEF vars, TypeOK
<1>5. \A apart \in way.apart : apart \in BOOLEAN
  BY ContextAssumption DEF TypeOK
<1> QED
  BY <1>1, <1>2, <1>3, <1>4, <1>5 DEF Next

-----------------------------------------------------------------------------
(* The room in the buffer: an event that decrypts takes a message from it. *)

LEMMA RoomStep == TypeOK /\ RoomIsLeft /\ [Next]_vars => RoomIsLeft'
<1> SUFFICES ASSUME TypeOK, RoomIsLeft, [Next]_vars
             PROVE  RoomIsLeft'
  OBVIOUS
<1>1. CASE UNCHANGED <<way, buf>>
  BY <1>1 DEF RoomIsLeft
<1>2. CASE ReadSock
  <2>1. \/ UNCHANGED <<way, buf>>
        \/ /\ UNCHANGED way
           /\ \E plain \in Seq(Messages) :
                /\ Len(plain) <= way.capacity
                /\ \E k \in 0 .. Len(plain), q \in Requests \cup {None} :
                     Outcome(plain, k, q)
    BY <1>2, ReadSockStep
  <2>2. ASSUME NEW plain \in Seq(Messages), Len(plain) <= way.capacity,
               UNCHANGED way,
               NEW k \in 0 .. Len(plain), NEW q \in Requests \cup {None},
               Outcome(plain, k, q)
        PROVE  RoomIsLeft'
    <3>1. /\ buf' = SubSeq(plain, k + 1, Len(plain)) /\ k >= 1
          /\ way.capacity \in Nat
      BY <2>2, Kinds DEF Outcome, TypeOK
    <3>2. Len(buf') = Len(plain) - k
      BY <3>1
    <3> QED
      BY <2>2, <3>1, <3>2 DEF RoomIsLeft
  <2> QED
    BY <1>1, <2>1, <2>2
<1> QED
  BY <1>1, <1>2 DEF Next, SendRequest, SendBody, vars

-----------------------------------------------------------------------------
(* The order of requests.  The flow of a state are the messages that are   *)
(* still to be read: those in the buffer and those under way.              *)

Pos(s, q) == CHOOSE n \in DOMAIN s : s[n] = q

Distinct(s) == \A i, j \in DOMAIN s : s[i] = s[j] => i = j

Flow(b, st) ==
  [i \in 1 .. Len(b) + Len(st) |->
     IF i <= Len(b) THEN b[i] ELSE st[i - Len(b)].msg]

(* The headers of the flow are in the order in which they were sent.       *)
FlowInv(s, f) ==
  \A i \in DOMAIN f : f[i].part = "head" =>
    /\ f[i].of \in Range(s)
    /\ \A j \in DOMAIN f :
         i < j /\ f[j].part = "head" => Pos(s, f[i].of) < Pos(s, f[j].of)

(* The requests that were taken from it came before those that are left.   *)
TakenInv(s, T, f) ==
  \A q \in T :
    /\ q \in Range(s)
    /\ \A i \in DOMAIN f : f[i].part = "head" => Pos(s, q) < Pos(s, f[i].of)

Taken(h, d) == {d[i].head : i \in DOMAIN d} \cup ({h} \ {None})

(* They were handled in order, before the one whose message is awaited.    *)
DoneInv(s, h, d) ==
  /\ \A i, j \in DOMAIN d : i < j => Pos(s, d[i].head) < Pos(s, d[j].head)
  /\ h # None => \A i \in DOMAIN d : Pos(s, d[i].head) < Pos(s, h)

OrderInv ==
  /\ Distinct(sent)
  /\ way.served => header = None
  /\ FlowInv(sent, Flow(buf, stream))
  /\ TakenInv(sent, Taken(header, handled), Flow(buf, stream))
  /\ DoneInv(sent, header, handled)

LEMMA PosIn ==
  ASSUME NEW s \in Seq(Requests), NEW q \in Range(s)
  PROVE  Pos(s, q) \in 1 .. Len(s) /\ s[Pos(s, q)] = q
<1>1. DOMAIN s = 1 .. Len(s)
  OBVIOUS
<1>2. \E n \in DOMAIN s : s[n] = q
  BY Zenon DEF Range
<1>3. Pos(s, q) \in DOMAIN s /\ s[Pos(s, q)] = q
  BY <1>2, Zenon DEF Pos
<1> QED
  BY <1>1, <1>3, Zenon

LEMMA PosAppend ==
  ASSUME NEW s \in Seq(Requests), NEW q \in Requests, Distinct(s),
         q \notin Range(s)
  PROVE  /\ Distinct(Append(s, q))
         /\ Range(Append(s, q)) = Range(s) \cup {q}
         /\ Pos(Append(s, q), q) = Len(s) + 1
         /\ \A p \in Range(s) : /\ Pos(Append(s, q), p) = Pos(s, p)
                                /\ Pos(s, p) \in 1 .. Len(s)
<1> DEFINE t == Append(s, q)
<1>1. /\ t \in Seq(Requests) /\ Len(t) = Len(s) + 1 /\ Len(s) \in Nat
      /\ DOMAIN t = 1 .. Len(s) + 1 /\ DOMAIN s = 1 .. Len(s)
      /\ t[Len(s) + 1] = q
      /\ \A i \in 1 .. Len(s) : t[i] = s[i]
  OBVIOUS
<1>2. \A i \in 1 .. Len(s) : s[i] # q /\ s[i] \in Range(s)
  BY <1>1, Zenon DEF Range
<1> HIDE DEF t
<1>3. Range(t) = Range(s) \cup {q}
  <2>1. ASSUME NEW p \in Range(t)
        PROVE  p \in Range(s) \cup {q}
    <3>1. PICK n \in 1 .. Len(s) + 1 : p = t[n]
      BY <1>1, Zenon DEF Range
    <3>2. n = Len(s) + 1 \/ n \in 1 .. Len(s)
      BY <1>1
    <3> QED
      BY <1>1, <1>2, <3>1, <3>2
  <2>2. ASSUME NEW p \in Range(s)
        PROVE  p \in Range(t)
    <3>1. PICK n \in 1 .. Len(s) : p = s[n]
      BY <1>1, Zenon DEF Range
    <3>2. n \in DOMAIN t /\ p = t[n]
      BY <1>1, <3>1
    <3> QED
      BY <3>2, Zenon DEF Range
  <2>3. q \in Range(t)
    <3>1. Len(s) + 1 \in DOMAIN t
      BY <1>1
    <3> QED
      BY <1>1, <3>1, Zenon DEF Range
  <2> QED
    BY <2>1, <2>2, <2>3
<1>4. ASSUME NEW i \in DOMAIN t, NEW j \in DOMAIN t, t[i] = t[j]
      PROVE  i = j
  <2>1. /\ i = Len(s) + 1 \/ i \in 1 .. Len(s)
        /\ j = Len(s) + 1 \/ j \in 1 .. Len(s)
    BY <1>1
  <2> QED
    BY <1>1, <1>2, <1>4, <2>1 DEF Distinct
<1>5. Pos(t, q) = Len(s) + 1
  <2>1. Pos(t, q) \in DOMAIN t /\ t[Pos(t, q)] = q
    BY <1>1, <1>3, PosIn
  <2>2. Len(s) + 1 \in DOMAIN t
    BY <1>1
  <2> QED
    BY <1>1, <1>4, <2>1, <2>2
<1>6. ASSUME NEW p \in Range(s)
      PROVE  Pos(t, p) = Pos(s, p) /\ Pos(s, p) \in 1 .. Len(s)
  <2>1. Pos(s, p) \in 1 .. Len(s) /\ s[Pos(s, p)] = p
    BY PosIn
  <2>2. Pos(t, p) \in DOMAIN t /\ t[Pos(t, p)] = p
    BY <1>1, <1>3, PosIn
  <2>3. Pos(s, p) \in DOMAIN t /\ t[Pos(s, p)] = p
    BY <1>1, <2>1
  <2> QED
    BY <1>4, <2>1, <2>2, <2>3
<1> QED
  BY <1>3, <1>4, <1>5, <1>6 DEF t, Distinct

LEMMA FlowType ==
  ASSUME NEW b \in Seq(Messages), NEW st \in Seq(Block)
  PROVE  /\ Flow(b, st) \in Seq(Messages)
         /\ DOMAIN Flow(b, st) = 1 .. Len(b) + Len(st)
         /\ \A i \in 1 .. Len(b) : Flow(b, st)[i] = b[i]
         /\ \A i \in 1 .. Len(st) : Flow(b, st)[Len(b) + i] = st[i].msg
<1> DEFINE N == Len(b) + Len(st)
<1>1. Len(b) \in Nat /\ Len(st) \in Nat /\ N \in Nat
  OBVIOUS
<1>2. ASSUME NEW i \in 1 .. Len(st)
      PROVE  st[i].msg \in Messages
  <2>1. st[i] \in Block
    OBVIOUS
  <2> QED
    BY <2>1, Zenon DEF Block
<1>3. ASSUME NEW i \in 1 .. N
      PROVE  (IF i <= Len(b) THEN b[i] ELSE st[i - Len(b)].msg) \in Messages
  <2>1. CASE i <= Len(b)
    BY <1>1, <2>1
  <2>2. CASE ~ (i <= Len(b))
    <3>1. i - Len(b) \in 1 .. Len(st)
      BY <1>1, <2>2
    <3> QED
      BY <1>2, <2>2, <3>1
  <2> QED
    BY <2>1, <2>2
<1>4. /\ DOMAIN Flow(b, st) = 1 .. N
      /\ \A i \in 1 .. N : Flow(b, st)[i] =
           IF i <= Len(b) THEN b[i] ELSE st[i - Len(b)].msg
      /\ Flow(b, st) = [i \in 1 .. N |-> Flow(b, st)[i]]
  BY Zenon DEF Flow
<1>5. \A i \in 1 .. Len(b) : Flow(b, st)[i] = b[i]
  <2>1. \A i \in 1 .. Len(b) : i \in 1 .. N /\ i <= Len(b)
    BY <1>1
  <2> QED
    BY <1>4, <2>1, Zenon
<1>6. \A i \in 1 .. Len(st) : Flow(b, st)[Len(b) + i] = st[i].msg
  <2>1. \A i \in 1 .. Len(st) : /\ Len(b) + i \in 1 .. N
                                /\ ~ (Len(b) + i <= Len(b))
                                /\ Len(b) + i - Len(b) = i
    BY <1>1
  <2> HIDE DEF N
  <2> QED
    BY <1>4, <2>1
<1>7. Flow(b, st) \in Seq(Messages)
  <2> DEFINE F == Flow(b, st)
  <2>1. \A i \in 1 .. N : F[i] \in Messages
    BY <1>3, <1>4, Zenon
  <2>2. F = [i \in 1 .. N |-> F[i]]
    BY <1>4, Zenon
  <2> HIDE DEF F, N
  <2>3. F \in Seq(Messages)
    BY <1>1, <2>1, <2>2 DEF N
  <2> QED
    BY <2>3 DEF F
<1> QED
  BY <1>4, <1>5, <1>6, <1>7

(* Some of the flow f is read or lost, and g is left of it; of what is     *)
(* left, some may have been garbled.                                       *)
Shift(c, k, n, i) == IF i <= c THEN i + k ELSE i + n

LeftOf(f, g, c, k, n) ==
  \A i \in DOMAIN g :
    Shift(c, k, n, i) \in DOMAIN f /\ g[i] \in {f[Shift(c, k, n, i)], Junk}

LEMMA LeftKeeps ==
  ASSUME NEW f \in Seq(Messages), NEW g \in Seq(Messages),
         NEW c \in Nat, NEW k \in Nat, NEW n \in Nat, k <= n,
         LeftOf(f, g, c, k, n), NEW s
  PROVE  /\ FlowInv(s, f) => FlowInv(s, g)
         /\ \A T : TakenInv(s, T, f) => TakenInv(s, T, g)
<1> DEFINE e(i) == Shift(c, k, n, i)
<1>1. Junk.part # "head"
  BY DEF Junk
<1>2. ASSUME NEW i \in DOMAIN g, g[i].part = "head"
      PROVE  e(i) \in DOMAIN f /\ g[i] = f[e(i)]
  BY <1>1, <1>2 DEF LeftOf
<1>3. ASSUME NEW i \in DOMAIN g, NEW j \in DOMAIN g, i < j
      PROVE  e(i) < e(j)
  <2>1. i \in Int /\ j \in Int
    OBVIOUS
  <2> QED
    BY <1>3, <2>1 DEF Shift
<1> HIDE DEF e
<1>4. ASSUME FlowInv(s, f)
      PROVE  FlowInv(s, g)
  BY <1>2, <1>3, <1>4 DEF FlowInv
<1>5. ASSUME NEW T, TakenInv(s, T, f)
      PROVE  TakenInv(s, T, g)
  BY <1>2, <1>5 DEF TakenInv
<1> QED
  BY <1>4, <1>5

(* The first message that is left of the flow came after what was read.    *)
LEMMA LeftAfterFirst ==
  ASSUME NEW f \in Seq(Messages), NEW g \in Seq(Messages),
         NEW c \in Nat, NEW k \in Nat, NEW n \in Nat, 1 <= k, k <= n,
         LeftOf(f, g, c, k, n), NEW s, FlowInv(s, f),
         f # <<>>, f[1].part = "head"
  PROVE  TakenInv(s, {f[1].of}, g)
<1>1. 1 \in DOMAIN f /\ Junk.part # "head"
  BY DEF Junk
<1>2. ASSUME NEW i \in DOMAIN g, g[i].part = "head"
      PROVE  Pos(s, f[1].of) < Pos(s, g[i].of)
  <2> DEFINE e == Shift(c, k, n, i)
  <2>1. e \in DOMAIN f /\ g[i] = f[e]
    BY <1>1, <1>2 DEF LeftOf
  <2>2. 1 < e
    BY DEF Shift
  <2> HIDE DEF e
  <2> QED
    BY <1>1, <1>2, <2>1, <2>2 DEF FlowInv
<1> QED
  BY <1>1, <1>2 DEF TakenInv, FlowInv

LEMMA RestSeq ==
  ASSUME NEW S, NEW s \in Seq(S), NEW k \in 0 .. Len(s)
  PROVE  /\ SubSeq(s, k + 1, Len(s)) \in Seq(S)
         /\ Len(SubSeq(s, k + 1, Len(s))) = Len(s) - k
         /\ \A i \in 1 .. Len(s) - k :
              SubSeq(s, k + 1, Len(s))[i] = s[i + k]
<1>1. Len(s) \in Nat /\ k \in Nat /\ k <= Len(s)
  OBVIOUS
<1>2. ASSUME NEW i \in (k + 1) .. Len(s)
      PROVE  i \in 1 .. Len(s) /\ s[i] \in S
  BY <1>1
<1>3. /\ SubSeq(s, k + 1, Len(s)) \in Seq(S)
      /\ Len(SubSeq(s, k + 1, Len(s))) = Len(s) - k
  BY <1>1, <1>2
<1>4. ASSUME NEW i \in 1 .. Len(s) - k
      PROVE  SubSeq(s, k + 1, Len(s))[i] = s[i + k]
  BY <1>1
<1> QED
  BY <1>3, <1>4

LEMMA FlowAfterRead ==
  ASSUME NEW b \in Seq(Messages), NEW st \in Seq(Block),
         NEW n \in 1 .. Len(st),
         NEW plain \in Seq(Messages), Len(plain) = Len(b) + n,
         \A i \in 1 .. Len(b) : plain[i] = b[i],
         \A i \in 1 .. n : plain[Len(b) + i] \in {st[i].msg, Junk},
         NEW k \in 0 .. Len(plain)
  PROVE  LeftOf(Flow(b, st),
                Flow(SubSeq(plain, k + 1, Len(plain)),
                     SubSeq(st, n + 1, Len(st))), 0, k, k)
<1> DEFINE c == SubSeq(plain, k + 1, Len(plain))
           u == SubSeq(st, n + 1, Len(st))
           f == Flow(b, st)
           g == Flow(c, u)
<1>1. /\ Len(b) \in Nat /\ Len(st) \in Nat /\ Len(plain) \in Nat
      /\ k \in Nat /\ k <= Len(plain) /\ n \in Nat /\ n <= Len(st)
  OBVIOUS
<1>2. /\ DOMAIN f = 1 .. Len(b) + Len(st)
      /\ \A i \in 1 .. Len(b) : f[i] = b[i]
      /\ \A i \in 1 .. Len(st) : f[Len(b) + i] = st[i].msg
  BY FlowType
<1>3. /\ c \in Seq(Messages) /\ Len(c) = Len(plain) - k
      /\ \A i \in 1 .. Len(plain) - k : c[i] = plain[i + k]
  BY <1>1, RestSeq
<1>4. /\ u \in Seq(Block) /\ Len(u) = Len(st) - n
      /\ \A i \in 1 .. Len(st) - n : u[i] = st[i + n]
  BY <1>1, RestSeq
<1> HIDE DEF c, u
<1>5. /\ DOMAIN g = 1 .. Len(c) + Len(u)
      /\ \A i \in 1 .. Len(c) : g[i] = c[i]
      /\ \A i \in 1 .. Len(u) : g[Len(c) + i] = u[i].msg
  BY <1>3, <1>4, FlowType
<1> HIDE DEF f, g
<1>6. ASSUME NEW i \in 1 .. Len(plain)
      PROVE  i \in DOMAIN f /\ plain[i] \in {f[i], Junk}
  <2>1. i \in DOMAIN f
    BY <1>1, <1>2
  <2>2. CASE i \in 1 .. Len(b)
    BY <1>2, <2>1, <2>2
  <2>3. CASE i \notin 1 .. Len(b)
    <3>1. PICK j \in 1 .. n : i = Len(b) + j
      <4>1. i - Len(b) \in 1 .. n /\ i = Len(b) + (i - Len(b))
        BY <1>1, <2>3
      <4> QED
        BY <4>1
    <3>2. j \in 1 .. Len(st)
      BY <1>1
    <3> QED
      BY <1>2, <2>1, <3>1, <3>2
  <2> QED
    BY <2>2, <2>3
<1>7. ASSUME NEW i \in DOMAIN g
      PROVE  i + k \in DOMAIN f /\ g[i] \in {f[i + k], Junk}
  <2>0. i \in 1 .. Len(c) + Len(u)
    BY <1>5
  <2>1. CASE i \in 1 .. Len(c)
    <3>1. i + k \in 1 .. Len(plain) /\ i \in 1 .. Len(plain) - k
      BY <1>1, <1>3, <2>1
    <3>2. g[i] = plain[i + k]
      BY <1>3, <1>5, <2>1, <3>1, Zenon
    <3> QED
      BY <1>6, <3>1, <3>2, Zenon
  <2>2. CASE i \notin 1 .. Len(c)
    <3> DEFINE j == i - Len(c)
    <3>1. j \in 1 .. Len(u) /\ i = Len(c) + j
      BY <1>1, <1>3, <1>4, <2>0, <2>2, SMTT(20)
    <3>2. j + n \in 1 .. Len(st) /\ i + k = Len(b) + (j + n)
      BY <1>1, <1>3, <1>4, <3>1, SMTT(20)
    <3> HIDE DEF j
    <3>3. g[i] = st[j + n].msg /\ f[i + k] = st[j + n].msg
      BY <1>2, <1>4, <1>5, <3>1, <3>2
    <3>4. i + k \in DOMAIN f
      BY <1>1, <1>2, <3>2
    <3> QED
      BY <3>3, <3>4
  <2> QED
    BY <2>1, <2>2
<1>8. \A i \in DOMAIN g : Shift(0, k, k, i) = i + k
  BY <1>1, <1>3, <1>4, <1>5 DEF Shift
<1> QED
  BY <1>7, <1>8, Zenon DEF LeftOf, f, g, c, u

LEMMA FlowAfterLoss ==
  ASSUME TypeOK, NEW n \in 1 .. Len(stream),
         stream' = SubSeq(stream, n + 1, Len(stream)), buf' = buf
  PROVE  LeftOf(Flow(buf, stream), Flow(buf', stream'), Len(buf), 0, n)
<1>1. /\ buf \in Seq(Messages) /\ stream \in Seq(Block)
      /\ Len(buf) \in Nat /\ Len(stream) \in Nat
  BY DEF TypeOK, Block
<1> DEFINE f == Flow(buf, stream)
           g == Flow(buf, stream')
<1>2. /\ DOMAIN f = 1 .. Len(buf) + Len(stream)
      /\ \A i \in 1 .. Len(buf) : f[i] = buf[i]
      /\ \A i \in 1 .. Len(stream) : f[Len(buf) + i] = stream[i].msg
  BY <1>1, FlowType
<1>3. /\ stream' \in Seq(Block) /\ Len(stream') = Len(stream) - n
      /\ \A i \in 1 .. Len(stream') : stream'[i] = stream[i + n]
  BY <1>1
<1>4. /\ DOMAIN g = 1 .. Len(buf) + Len(stream')
      /\ \A i \in 1 .. Len(buf) : g[i] = buf[i]
      /\ \A i \in 1 .. Len(stream') : g[Len(buf) + i] = stream'[i].msg
  BY <1>1, <1>3, FlowType
<1> HIDE DEF f, g
<1>5. ASSUME NEW i \in DOMAIN g
      PROVE  /\ Shift(Len(buf), 0, n, i) \in DOMAIN f
             /\ g[i] = f[Shift(Len(buf), 0, n, i)]
  <2>1. CASE i <= Len(buf)
    <3>1. Shift(Len(buf), 0, n, i) = i /\ i \in 1 .. Len(buf)
      BY <1>1, <1>3, <1>4, <2>1 DEF Shift
    <3>2. i \in DOMAIN f
      BY <1>1, <1>2, <3>1
    <3> QED
      BY <1>2, <1>4, <3>1, <3>2
  <2>2. CASE ~ (i <= Len(buf))
    <3> DEFINE j == i - Len(buf)
    <3>1. j \in 1 .. Len(stream') /\ i = Len(buf) + j
      BY <1>1, <1>3, <1>4, <2>2
    <3>2. /\ j + n \in 1 .. Len(stream)
          /\ Shift(Len(buf), 0, n, i) = Len(buf) + (j + n)
      BY <1>1, <1>3, <2>2, <3>1 DEF Shift
    <3> HIDE DEF j
    <3>3. g[i] = stream[j + n].msg /\ f[Len(buf) + (j + n)] = stream[j + n].msg
      BY <1>2, <1>3, <1>4, <3>1, <3>2
    <3>4. Len(buf) + (j + n) \in DOMAIN f
      BY <1>1, <1>2, <3>2
    <3> QED
      BY <3>2, <3>3, <3>4
  <2> QED
    BY <2>1, <2>2
<1> QED
  BY <1>5, Zenon DEF LeftOf, f, g

LEMMA FlowAfterSend ==
  ASSUME NEW b \in Seq(Messages), NEW st \in Seq(Block),
         NEW msgs \in Seq(Messages)
  PROVE  LET f == Flow(b, st)
             g == Flow(b, st \o Record(msgs))
         IN  /\ DOMAIN g = 1 .. Len(f) + Len(msgs)
             /\ \A i \in 1 .. Len(f) : g[i] = f[i]
             /\ \A i \in 1 .. Len(msgs) : g[Len(f) + i] = msgs[i]
<1> DEFINE f == Flow(b, st)
           r == Record(msgs)
           u == st \o r
           g == Flow(b, u)
<1>1. /\ Len(b) \in Nat /\ Len(st) \in Nat /\ Len(msgs) \in Nat
  OBVIOUS
<1>2. /\ f \in Seq(Messages) /\ DOMAIN f = 1 .. Len(b) + Len(st)
      /\ \A i \in 1 .. Len(b) : f[i] = b[i]
      /\ \A i \in 1 .. Len(st) : f[Len(b) + i] = st[i].msg
  BY FlowType
<1>3. /\ r \in Seq(Block) /\ Len(r) = Len(msgs)
      /\ \A i \in 1 .. Len(msgs) : r[i].msg = msgs[i]
  BY RecordType
<1> HIDE DEF f, r
<1>4. /\ u \in Seq(Block) /\ Len(u) = Len(st) + Len(r)
      /\ \A i \in 1 .. Len(st) + Len(r) :
           u[i] = IF i <= Len(st) THEN st[i] ELSE r[i - Len(st)]
  BY <1>3, JoinSeq, ZenonT(40)
<1> HIDE DEF u
<1>5. /\ DOMAIN g = 1 .. Len(b) + Len(u)
      /\ \A i \in 1 .. Len(b) : g[i] = b[i]
      /\ \A i \in 1 .. Len(u) : g[Len(b) + i] = u[i].msg
  BY <1>4, FlowType
<1> HIDE DEF g
<1>6. Len(f) = Len(b) + Len(st)
  BY <1>1, <1>2
<1>7. DOMAIN g = 1 .. Len(f) + Len(msgs)
  <2>1. Len(b) + Len(u) = Len(f) + Len(msgs)
    BY <1>1, <1>3, <1>4, <1>6
  <2> QED
    BY <1>5, <2>1
<1>8. ASSUME NEW i \in 1 .. Len(f)
      PROVE  g[i] = f[i]
  <2>1. CASE i \in 1 .. Len(b)
    BY <1>2, <1>5, <2>1, Zenon
  <2>2. CASE i \notin 1 .. Len(b)
    <3>1. PICK j \in 1 .. Len(st) : i = Len(b) + j
      <4>1. i - Len(b) \in 1 .. Len(st) /\ i = Len(b) + (i - Len(b))
        BY <1>1, <1>6, <2>2
      <4> QED
        BY <4>1
    <3>2. j \in 1 .. Len(u) /\ j \in 1 .. Len(st) + Len(r) /\ j <= Len(st)
      BY <1>1, <1>3, <1>4
    <3>3. u[j] = st[j]
      BY <1>4, <3>2, Zenon
    <3> QED
      BY <1>2, <1>5, <3>1, <3>2, <3>3, Zenon
  <2> QED
    BY <2>1, <2>2
<1>9. ASSUME NEW i \in 1 .. Len(msgs)
      PROVE  g[Len(f) + i] = msgs[i]
  <2> DEFINE j == Len(st) + i
  <2>1. /\ j \in 1 .. Len(u) /\ j \in 1 .. Len(st) + Len(r)
        /\ ~ (j <= Len(st)) /\ j - Len(st) = i
        /\ Len(f) + i = Len(b) + j
    BY <1>1, <1>3, <1>4, <1>6
  <2> HIDE DEF j
  <2>2. u[j] = r[i]
    BY <1>4, <2>1, Zenon
  <2>3. g[Len(f) + i] = u[j].msg
    BY <1>5, <2>1, Zenon
  <2> QED
    BY <1>3, <2>2, <2>3, Zenon
<1> QED
  BY <1>7, <1>8, <1>9, Zenon DEF f, g, u, r

(* The peer's new request comes after all others; a message that follows   *)
(* its header changes nothing.                                             *)
LEMMA SentLast ==
  ASSUME NEW s \in Seq(Requests), Distinct(s),
         NEW q \in Requests, q \notin Range(s),
         NEW f \in Seq(Messages), NEW g, DOMAIN f \subseteq DOMAIN g,
         DOMAIN g \subseteq Nat,
         \A i \in DOMAIN g :
           \/ i \in DOMAIN f /\ g[i] = f[i]
           \/ i = Len(f) + 1 /\ g[i] = HeadOf(q)
           \/ g[i].part # "head"
  PROVE  /\ FlowInv(s, f) => FlowInv(Append(s, q), g)
         /\ \A T : FlowInv(s, f) /\ TakenInv(s, T, f)
                     => TakenInv(Append(s, q), T, g)
<1> DEFINE t == Append(s, q)
<1>1. /\ Range(t) = Range(s) \cup {q}
      /\ Pos(t, q) = Len(s) + 1
      /\ \A p \in Range(s) : /\ Pos(t, p) = Pos(s, p)
                             /\ Pos(s, p) \in 1 .. Len(s)
  BY PosAppend
<1>2. Len(s) \in Nat /\ Len(f) \in Nat /\ DOMAIN f = 1 .. Len(f)
  OBVIOUS
<1> HIDE DEF t
<1>3. \A p \in Range(s) : Pos(t, p) < Pos(t, q)
  BY <1>1, <1>2
<1>4. \A i \in DOMAIN g : g[i].part = "head" =>
        \/ i \in DOMAIN f /\ g[i] = f[i]
        \/ i = Len(f) + 1 /\ g[i].of = q
  BY DEF HeadOf
<1>5. ASSUME FlowInv(s, f)
      PROVE  FlowInv(t, g)
  <2>1. ASSUME NEW i \in DOMAIN g, g[i].part = "head"
        PROVE  g[i].of \in Range(t)
    BY <1>1, <1>4, <1>5, <2>1 DEF FlowInv
  <2>2. ASSUME NEW i \in DOMAIN g, g[i].part = "head",
               NEW j \in DOMAIN g, i < j, g[j].part = "head"
        PROVE  Pos(t, g[i].of) < Pos(t, g[j].of)
    <3>1. i \in DOMAIN f /\ g[i] = f[i]
      BY <1>2, <1>4, <2>2
    <3>2. f[i].of \in Range(s)
      BY <1>5, <2>2, <3>1 DEF FlowInv
    <3>3. CASE j \in DOMAIN f /\ g[j] = f[j]
      <4>1. /\ f[j].of \in Range(s)
            /\ Pos(s, f[i].of) < Pos(s, f[j].of)
        BY <1>5, <2>2, <3>1, <3>3 DEF FlowInv
      <4> QED
        BY <1>1, <3>1, <3>2, <3>3, <4>1
    <3>4. CASE g[j].of = q
      BY <1>3, <3>1, <3>2, <3>4
    <3> QED
      BY <1>4, <2>2, <3>3, <3>4
  <2> QED
    BY <2>1, <2>2 DEF FlowInv
<1>6. ASSUME NEW T, FlowInv(s, f), TakenInv(s, T, f)
      PROVE  TakenInv(t, T, g)
  <2>1. ASSUME NEW p \in T
        PROVE  p \in Range(s) /\ p \in Range(t)
    BY <1>1, <1>6, <2>1 DEF TakenInv
  <2>2. ASSUME NEW p \in T, NEW i \in DOMAIN g, g[i].part = "head"
        PROVE  Pos(t, p) < Pos(t, g[i].of)
    <3>1. CASE i \in DOMAIN f /\ g[i] = f[i]
      <4>1. /\ f[i].of \in Range(s)
            /\ Pos(s, p) < Pos(s, f[i].of)
        BY <1>6, <2>2, <3>1 DEF FlowInv, TakenInv
      <4> QED
        BY <1>1, <2>1, <3>1, <4>1
    <3>2. CASE g[i].of = q
      BY <1>3, <2>1, <3>2
    <3> QED
      BY <1>4, <2>2, <3>1, <3>2
  <2> QED
    BY <2>1, <2>2 DEF TakenInv
<1> QED
  BY <1>5, <1>6 DEF t

LEMMA OrderInit == Init => OrderInv
<1> SUFFICES ASSUME Init
             PROVE  OrderInv
  OBVIOUS
<1>1. /\ sent = <<>> /\ header = None
      /\ buf = <<>> /\ stream = <<>> /\ handled = <<>>
  BY DEF Init
<1>2. DOMAIN Flow(buf, stream) = 1 .. Len(buf) + Len(stream)
  BY Zenon DEF Flow
<1>3. /\ DOMAIN Flow(buf, stream) = {} /\ DOMAIN handled = {}
      /\ DOMAIN sent = {} /\ Taken(header, handled) = {}
  BY <1>1, <1>2 DEF Taken
<1> QED
  BY <1>1, <1>3 DEF OrderInv, Distinct, FlowInv, TakenInv, DoneInv

LEMMA Tuples ==
  ASSUME NEW a, NEW b
  PROVE  /\ Len(<<a>>) = 1 /\ <<a>>[1] = a
         /\ Len(<<a, b>>) = 2 /\ <<a, b>>[1] = a /\ <<a, b>>[2] = b
  OBVIOUS

LEMMA OrderSendRequest ==
  ASSUME TypeOK, OrderInv, NEW q \in Requests, NEW apart \in BOOLEAN,
         SendRequest(q, apart)
  PROVE  OrderInv'
<1> DEFINE f == Flow(buf, stream)
           g == Flow(buf', stream')
           t == Append(sent, q)
<1>1. /\ sent \in Seq(Requests) /\ buf \in Seq(Messages)
      /\ stream \in Seq(Block)
      /\ handled \in Seq([head : Work, body : Messages \cup {None}])
  BY DEF TypeOK, Block
<1>2. /\ Distinct(sent) /\ q \notin Range(sent)
      /\ sent' = t /\ UNCHANGED <<way, buf, header, handled>>
  BY DEF SendRequest, OrderInv
<1>3. PICK msgs \in Seq(Messages) :
        /\ stream' = stream \o Record(msgs)
        /\ msgs[1] = HeadOf(q)
        /\ Len(msgs) = 1 \/ (Len(msgs) = 2 /\ msgs[2] = BodyOf(q))
  <2>1. PICK m \in {<<HeadOf(q)>>, <<HeadOf(q), BodyOf(q)>>} :
          m \in Seq(Messages) /\ stream' = stream \o Record(m)
    BY SendRequestStep
  <2>2. /\ m[1] = HeadOf(q)
        /\ Len(m) = 1 \/ (Len(m) = 2 /\ m[2] = BodyOf(q))
    <3>1. CASE m = <<HeadOf(q)>>
      <4>1. Len(m) = 1 /\ m[1] = HeadOf(q)
        BY <3>1, Tuples, Zenon
      <4> QED
        BY <4>1, Zenon
    <3>2. CASE m = <<HeadOf(q), BodyOf(q)>>
      <4>1. Len(m) = 2 /\ m[1] = HeadOf(q) /\ m[2] = BodyOf(q)
        BY <3>2, Tuples, Zenon
      <4> QED
        BY <4>1, Zenon
    <3> QED
      BY <2>1, <3>1, <3>2, Zenon
  <2>3. m \in Seq(Messages) /\ stream' = stream \o Record(m)
    BY <2>1
  <2> HIDE DEF t, f, g
  <2> QED
    BY <2>2, <2>3, Zenon
<1>4. /\ DOMAIN g = 1 .. Len(f) + Len(msgs)
      /\ \A i \in 1 .. Len(f) : g[i] = f[i]
      /\ \A i \in 1 .. Len(msgs) : g[Len(f) + i] = msgs[i]
  <2>1. g = Flow(buf, stream \o Record(msgs))
    BY <1>2, <1>3, Zenon
  <2> DEFINE h == Flow(buf, stream \o Record(msgs))
  <2>2. /\ DOMAIN h = 1 .. Len(f) + Len(msgs)
        /\ \A i \in 1 .. Len(f) : h[i] = f[i]
        /\ \A i \in 1 .. Len(msgs) : h[Len(f) + i] = msgs[i]
    BY <1>1, FlowAfterSend
  <2>3. g = h
    BY <2>1
  <2> HIDE DEF f, g, h
  <2> QED
    BY <2>2, <2>3
<1>5. f \in Seq(Messages) /\ Len(f) \in Nat /\ DOMAIN f = 1 .. Len(f)
  BY <1>1, FlowType
<1>6. /\ FlowInv(sent, f)
      /\ TakenInv(sent, Taken(header, handled), f)
  BY DEF OrderInv
<1> HIDE DEF f, g, t
<1>8. /\ DOMAIN f \subseteq DOMAIN g /\ DOMAIN g \subseteq Nat
      /\ \A i \in DOMAIN g :
           \/ i \in DOMAIN f /\ g[i] = f[i]
           \/ i = Len(f) + 1 /\ g[i] = HeadOf(q)
           \/ g[i].part # "head"
  <2>1. Len(msgs) \in Nat
    BY <1>3
  <2>2. DOMAIN f \subseteq DOMAIN g /\ DOMAIN g \subseteq Nat
    BY <1>4, <1>5, <2>1
  <2>3. ASSUME NEW i \in DOMAIN g
        PROVE  \/ i \in DOMAIN f /\ g[i] = f[i]
               \/ i = Len(f) + 1 /\ g[i] = HeadOf(q)
               \/ g[i].part # "head"
    <3>1. \/ i \in 1 .. Len(f) \/ i = Len(f) + 1
          \/ i = Len(f) + 2 /\ Len(msgs) = 2
      <4>1. i \in 1 .. Len(f) + Len(msgs) /\ (Len(msgs) = 1 \/ Len(msgs) = 2)
        BY <1>3, <1>4
      <4>2. CASE Len(msgs) = 1
        <5>1. i \in 1 .. Len(f) + 1
          BY <4>1, <4>2
        <5> QED
          BY <1>5, <5>1
      <4>3. CASE Len(msgs) = 2
        <5>1. i \in 1 .. Len(f) + 2
          BY <4>1, <4>3
        <5> QED
          BY <1>5, <4>3, <5>1
      <4> QED
        BY <4>1, <4>2, <4>3
    <3>2. CASE i = Len(f) + 2 /\ Len(msgs) = 2
      <4>1. g[i] = BodyOf(q)
        BY <1>4, <1>3, <3>2
      <4> QED
        BY <4>1 DEF BodyOf
    <3>3. CASE i = Len(f) + 1
      BY <1>4, <1>3, <3>3
    <3> QED
      BY <1>4, <1>5, <3>1, <3>2, <3>3
  <2> QED
    BY <2>2, <2>3
<1>9. /\ FlowInv(t, g)
      /\ TakenInv(t, Taken(header, handled), g)
  BY <1>1, <1>2, <1>5, <1>6, <1>8, SentLast DEF t
<1>10. Distinct(t) /\ \A p \in Range(sent) : Pos(t, p) = Pos(sent, p)
  BY <1>1, <1>2, PosAppend DEF t
<1>11. DoneInv(t, header, handled)
  <2>1. DoneInv(sent, header, handled)
    BY DEF OrderInv
  <2>2. \A i \in DOMAIN handled : handled[i].head \in Range(sent)
    BY <1>6 DEF TakenInv, Taken
  <2>3. header # None => header \in Range(sent)
    BY <1>6 DEF TakenInv, Taken
  <2> QED
    BY <1>10, <2>1, <2>2, <2>3 DEF DoneInv
<1> QED
  BY <1>2, <1>9, <1>10, <1>11 DEF OrderInv, g

LEMMA OrderSendBody ==
  ASSUME TypeOK, OrderInv, SendBody
  PROVE  OrderInv'
<1> DEFINE f == Flow(buf, stream)
           g == Flow(buf', stream')
           msgs == <<BodyOf(due)>>
<1>1. /\ buf \in Seq(Messages) /\ stream \in Seq(Block) /\ due \in Requests
  BY DEF TypeOK, Block, SendBody
<1>2. /\ stream' = stream \o Record(msgs)
      /\ UNCHANGED <<way, sent, buf, header, handled>>
  BY DEF SendBody
<1>3. msgs \in Seq(Messages) /\ Len(msgs) = 1 /\ msgs[1] = BodyOf(due)
  BY <1>1, Kinds
<1> HIDE DEF msgs
<1>4. /\ DOMAIN g = 1 .. Len(f) + Len(msgs)
      /\ \A i \in 1 .. Len(f) : g[i] = f[i]
      /\ \A i \in 1 .. Len(msgs) : g[Len(f) + i] = msgs[i]
  BY <1>1, <1>2, <1>3, FlowAfterSend, ZenonT(40)
<1>5. f \in Seq(Messages) /\ Len(f) \in Nat /\ DOMAIN f = 1 .. Len(f)
  BY <1>1, FlowType
<1> HIDE DEF f, g
<1>6. ASSUME NEW i \in DOMAIN g, g[i].part = "head"
      PROVE  i \in DOMAIN f /\ g[i] = f[i]
  <2>1. i \in 1 .. Len(f) \/ i = Len(f) + 1
    BY <1>3, <1>4, <1>5
  <2>2. g[Len(f) + 1].part # "head"
    BY <1>3, <1>4 DEF BodyOf
  <2> QED
    BY <1>4, <1>5, <1>6, <2>1, <2>2
<1>7. FlowInv(sent, f) => FlowInv(sent, g)
  BY <1>6 DEF FlowInv
<1>8. \A T : TakenInv(sent, T, f) => TakenInv(sent, T, g)
  BY <1>6 DEF TakenInv
<1> QED
  BY <1>2, <1>7, <1>8 DEF OrderInv, f, g

(* What is handled next came after what was handled before.                *)
LEMMA DoneAppend ==
  ASSUME NEW s, NEW H, NEW d \in Seq(H), NEW e \in H, NEW h,
         DoneInv(s, h, d),
         \A i \in DOMAIN d : Pos(s, d[i].head) < Pos(s, e.head)
  PROVE  /\ DoneInv(s, None, Append(d, e))
         /\ Taken(None, Append(d, e)) \subseteq Taken(None, d) \cup {e.head}
<1> DEFINE u == Append(d, e)
<1>1. /\ DOMAIN u = 1 .. Len(d) + 1 /\ DOMAIN d = 1 .. Len(d) /\ Len(d) \in Nat
      /\ u[Len(d) + 1] = e
      /\ \A i \in 1 .. Len(d) : u[i] = d[i]
  OBVIOUS
<1> HIDE DEF u
<1>2. \A i \in DOMAIN u : (i \in DOMAIN d /\ u[i] = d[i]) \/ i = Len(d) + 1
  BY <1>1
<1>3. ASSUME NEW i \in DOMAIN u, NEW j \in DOMAIN u, i < j
      PROVE  Pos(s, u[i].head) < Pos(s, u[j].head)
  <2>1. i \in DOMAIN d /\ u[i] = d[i]
    BY <1>1, <1>2, <1>3
  <2> QED
    BY <1>1, <1>2, <1>3, <2>1 DEF DoneInv
<1>4. Taken(None, u) \subseteq Taken(None, d) \cup {e.head}
  BY <1>1, <1>2 DEF Taken
<1> QED
  BY <1>3, <1>4 DEF DoneInv, u

LEMMA OrderReadSock ==
  ASSUME TypeOK, OrderInv, ReadSock
  PROVE  OrderInv'
<1> DEFINE f == Flow(buf, stream)
           g == Flow(buf', stream')
           H == [head : Work, body : Messages \cup {None}]
<1>1. PICK n \in 1 .. Len(stream) :
        /\ stream' = SubSeq(stream, n + 1, Len(stream))
        /\ UNCHANGED <<way, sent, due>>
        /\ \/ UNCHANGED <<buf, header, handled>>
           \/ \E plain \in Seq(Messages) :
                /\ Len(plain) = Len(buf) + n /\ Len(plain) <= way.capacity
                /\ \A i \in 1 .. Len(buf) : plain[i] = buf[i]
                /\ \A i \in 1 .. n :
                     plain[Len(buf) + i] \in {stream[i].msg, Junk}
                /\ \E k \in 0 .. Len(plain), q \in Requests \cup {None} :
                     Outcome(plain, k, q)
  BY ReadSockStep
<1>2. /\ buf \in Seq(Messages) /\ stream \in Seq(Block)
      /\ handled \in Seq(H) /\ header \in Full \cup {None}
      /\ Len(buf) \in Nat /\ Len(stream) \in Nat
  BY DEF TypeOK, Block
<1>3. stream' \in Seq(Block)
  BY <1>1, <1>2, RestSeq
<1>4. /\ f \in Seq(Messages) /\ DOMAIN f = 1 .. Len(buf) + Len(stream)
      /\ \A i \in 1 .. Len(buf) : f[i] = buf[i]
      /\ \A i \in 1 .. Len(stream) : f[Len(buf) + i] = stream[i].msg
  BY <1>2, FlowType
<1>5. /\ Distinct(sent) /\ FlowInv(sent, f)
      /\ way.served => header = None
      /\ TakenInv(sent, Taken(header, handled), f)
      /\ DoneInv(sent, header, handled)
  BY DEF OrderInv
<1>6. CASE UNCHANGED <<buf, header, handled>>
  <2>1. g \in Seq(Messages)
    BY <1>2, <1>3, <1>6, FlowType
  <2>2. LeftOf(f, g, Len(buf), 0, n)
    BY <1>1, <1>6, FlowAfterLoss
  <2> HIDE DEF f, g
  <2>3. FlowInv(sent, g) /\ TakenInv(sent, Taken(header, handled), g)
    BY <1>2, <1>4, <1>5, <2>1, <2>2, LeftKeeps
  <2> QED
    BY <1>1, <1>5, <1>6, <2>3 DEF OrderInv, g
<1>7. ASSUME NEW plain \in Seq(Messages), Len(plain) = Len(buf) + n,
             \A i \in 1 .. Len(buf) : plain[i] = buf[i],
             \A i \in 1 .. n : plain[Len(buf) + i] \in {stream[i].msg, Junk},
             NEW k \in 0 .. Len(plain), NEW q \in Requests \cup {None},
             Outcome(plain, k, q)
      PROVE  OrderInv'
  <2>1. buf' = SubSeq(plain, k + 1, Len(plain)) /\ buf' \in Seq(Messages)
    <3>1. buf' = SubSeq(plain, k + 1, Len(plain))
      BY <1>7 DEF Outcome
    <3> QED
      BY <3>1, RestSeq
  <2>2. g \in Seq(Messages)
    BY <1>3, <2>1, FlowType
  <2>3. LeftOf(f, g, 0, k, k)
    BY <1>1, <1>2, <1>7, <2>1, FlowAfterRead
  <2>4. /\ \/ header # None /\ q = header
           \/ /\ header = None
              /\ q = None \/ (k >= 1 /\ q \in Requests /\ plain[1] = HeadOf(q))
        /\ header' \in {q, None}
        /\ way.served => header' = header
        /\ \/ handled' = handled
           \/ /\ q \in Work
              /\ header' = None \/ way.served
              /\ \E b \in Messages \cup {None} :
                   handled' = Append(handled, [head |-> q, body |-> b])
    BY <1>7, Zenon DEF Outcome
  <2>5. FlowInv(sent, g) /\ TakenInv(sent, Taken(header, handled), g)
    <3> HIDE DEF f, g
    <3>1. /\ f \in Seq(Messages) /\ FlowInv(sent, f)
          /\ TakenInv(sent, Taken(header, handled), f)
      BY <1>4, <1>5
    <3>2. k \in Nat /\ k <= k
      BY <1>7
    <3> QED
      BY <2>2, <2>3, <3>1, <3>2, LeftKeeps
  <2>6. CASE header = None /\ q # None
    <3>1. /\ k >= 1 /\ k \in Nat /\ q \in Requests /\ plain[1] = HeadOf(q)
          /\ Len(plain) >= 1
      BY <1>2, <1>7, <2>4, <2>6
    <3>2. (f # <<>> /\ f[1] = plain[1]) \/ plain[1] = Junk
      <4>1. CASE Len(buf) >= 1
        <5>1. 1 \in 1 .. Len(buf) /\ 1 \in 1 .. Len(buf) + Len(stream)
          BY <1>2, <4>1
        <5> QED
          BY <1>4, <1>7, <5>1
      <4>2. CASE Len(buf) = 0
        <5>1. 1 \in 1 .. n /\ 1 \in 1 .. Len(stream) /\ Len(buf) + 1 = 1
              /\ 1 \in 1 .. Len(buf) + Len(stream)
          BY <1>2, <4>2
        <5>2. plain[1] \in {stream[1].msg, Junk} /\ f[1] = stream[1].msg
          BY <1>4, <1>7, <5>1
        <5> QED
          BY <1>4, <5>1, <5>2
      <4> QED
        BY <1>2, <4>1, <4>2
    <3>3. f # <<>> /\ f[1].part = "head" /\ f[1].of = q
      BY <3>1, <3>2 DEF HeadOf, Junk
    <3> HIDE DEF f, g
    <3>4. TakenInv(sent, {q}, g)
      <4>1. TakenInv(sent, {f[1].of}, g)
        BY <1>4, <1>5, <2>2, <2>3, <3>1, <3>3, LeftAfterFirst
      <4> QED
        BY <3>3, <4>1
    <3>5. \A i \in DOMAIN handled : Pos(sent, handled[i].head) < Pos(sent, q)
      <4>1. 1 \in DOMAIN f
        BY <1>4, <3>3
      <4> QED
        BY <1>5, <3>3, <4>1 DEF TakenInv, Taken
    <3>6. CASE handled' = handled
      <4>1. Taken(header', handled) \subseteq Taken(header, handled) \cup {q}
        BY <2>4 DEF Taken
      <4>2. TakenInv(sent, Taken(header', handled), g)
        BY <2>5, <3>4, <4>1 DEF TakenInv
      <4>3. DoneInv(sent, header', handled)
        BY <1>5, <2>4, <3>5 DEF DoneInv
      <4> QED
        BY <1>1, <1>5, <2>4, <2>5, <2>6, <3>6, <4>2, <4>3 DEF OrderInv, g
    <3>7. CASE handled' # handled
      <4>1. PICK b \in Messages \cup {None} :
              /\ q \in Work
              /\ handled' = Append(handled, [head |-> q, body |-> b])
        BY <2>4, <3>7
      <4>2. header' = None
        BY <2>4, <2>6, <3>7
      <4>3. /\ [head |-> q, body |-> b] \in H
            /\ [head |-> q, body |-> b].head = q
        BY <4>1
      <4> DEFINE e == [head |-> q, body |-> b]
      <4> HIDE DEF H, e
      <4>4. /\ DoneInv(sent, None, handled')
            /\ Taken(None, handled') \subseteq Taken(None, handled) \cup {q}
        <5>1. e \in H /\ e.head = q /\ handled' = Append(handled, e)
          BY <4>1, <4>3, Zenon DEF e
        <5> QED
          BY <1>2, <1>5, <3>5, <5>1, DoneAppend
      <4>5. TakenInv(sent, Taken(header', handled'), g)
        BY <2>5, <2>6, <3>4, <4>2, <4>4 DEF TakenInv
      <4> QED
        BY <1>1, <1>5, <2>5, <4>2, <4>4, <4>5 DEF OrderInv, g
    <3> QED
      BY <3>6, <3>7
  <2>7. CASE header = None /\ q = None
    <3>1. header' = None /\ handled' = handled
      BY <2>4, <2>7, Kinds DEF Requests
    <3> HIDE DEF f, g
    <3> QED
      BY <1>1, <1>5, <2>5, <2>7, <3>1 DEF OrderInv, g
  <2>8. CASE header # None
    <3>1. q = header /\ header' \in {header, None} /\ ~ way.served
      BY <1>5, <2>4, <2>8
    <3> HIDE DEF f, g
    <3>2. CASE handled' = handled
      <4>1. Taken(header', handled) \subseteq Taken(header, handled)
        BY <3>1 DEF Taken
      <4>2. TakenInv(sent, Taken(header', handled), g)
        BY <2>5, <4>1 DEF TakenInv
      <4>3. DoneInv(sent, header', handled)
        BY <1>5, <3>1 DEF DoneInv
      <4> QED
        BY <1>1, <1>5, <2>5, <3>1, <3>2, <4>2, <4>3 DEF OrderInv, g
    <3>3. CASE handled' # handled
      <4>1. PICK b \in Messages \cup {None} :
              /\ header \in Work /\ header' = None
              /\ handled' = Append(handled, [head |-> header, body |-> b])
        BY <2>4, <3>1, <3>3
      <4>2. /\ [head |-> header, body |-> b] \in H
            /\ [head |-> header, body |-> b].head = header
        BY <4>1
      <4>3. \A i \in DOMAIN handled :
              Pos(sent, handled[i].head) < Pos(sent, header)
        BY <1>5, <2>8 DEF DoneInv
      <4> DEFINE e == [head |-> header, body |-> b]
      <4> HIDE DEF H, e
      <4>4. /\ DoneInv(sent, None, handled')
            /\ Taken(None, handled')
                 \subseteq Taken(None, handled) \cup {header}
        <5>1. e \in H /\ e.head = header /\ handled' = Append(handled, e)
          BY <4>1, <4>2, Zenon DEF e
        <5> QED
          BY <1>2, <1>5, <4>3, <5>1, DoneAppend
      <4>5. Taken(None, handled') \subseteq Taken(header, handled)
        BY <2>8, <4>4 DEF Taken
      <4>6. TakenInv(sent, Taken(header', handled'), g)
        BY <2>5, <4>1, <4>5 DEF TakenInv
      <4> QED
        BY <1>1, <1>5, <2>5, <4>1, <4>4, <4>6 DEF OrderInv, g
    <3> QED
      BY <3>2, <3>3
  <2> QED
    BY <2>6, <2>7, <2>8
<1> QED
  BY <1>1, <1>6, <1>7

LEMMA OrderStep == TypeOK /\ OrderInv /\ [Next]_vars => OrderInv'
<1> SUFFICES ASSUME TypeOK, OrderInv, [Next]_vars
             PROVE  OrderInv'
  OBVIOUS
<1>1. \A apart \in way.apart : apart \in BOOLEAN
  BY ContextAssumption DEF TypeOK
<1>2. CASE UNCHANGED vars
  BY <1>2 DEF vars, OrderInv
<1> QED
  BY <1>1, <1>2, OrderSendRequest, OrderSendBody, OrderReadSock DEF Next

(* The invariant says of what was handled what the property asks.          *)
LEMMA OrderGivesHandledInOrder == OrderInv => HandledInOrder
<1> SUFFICES ASSUME OrderInv
             PROVE  HandledInOrder
  OBVIOUS
<1>1. \A i \in DOMAIN handled : handled[i].head \in Range(sent)
  BY DEF OrderInv, TakenInv, Taken
<1>2. \A q : Position(q) = Pos(sent, q)
  BY Zenon DEF Position, Pos
<1> QED
  BY <1>1, <1>2 DEF OrderInv, DoneInv, HandledInOrder

-----------------------------------------------------------------------------
(* The peer that waits: at most one record is under way, and it is known   *)
(* which.                                                                  *)

AsSent(d) ==
  \A i \in DOMAIN d :
    d[i].body = IF d[i].head \in Full THEN BodyOf(d[i].head) ELSE None

HeadAlone(q) ==
  /\ Len(stream) = 1 /\ stream[1].msg = HeadOf(q)
  /\ header = None
  /\ q \in Full => due = q

(* A message, or the second half of a record that was cut.                 *)
BodyAlone(q) ==
  /\ Len(stream) = 1 /\ stream[1].msg = BodyOf(q)
  /\ header # None => header = q /\ stream[1].first /\ stream[1].last

Both(q) ==
  /\ q \in Full /\ header = None /\ Len(stream) = 2
  /\ stream[1].msg = HeadOf(q) /\ stream[1].first /\ ~ stream[1].last
  /\ stream[2].msg = BodyOf(q) /\ ~ stream[2].first

WaitInv ==
  /\ buf = <<>>
  /\ AsSent(handled)
  /\ header # None /\ stream = <<>> => due = header
  /\ stream # <<>> =>
       \E q \in Requests : HeadAlone(q) \/ BodyAlone(q) \/ Both(q)

AsSentInv == way.waits => WaitInv

LEMMA AsSentInit == Init => AsSentInv
  BY DEF Init, AsSentInv, WaitInv, AsSent

LEMMA RecordOfOne ==
  ASSUME NEW m \in Messages
  PROVE  LET r == <<>> \o Record(<<m>>)
         IN  /\ Len(r) = 1 /\ r[1].msg = m /\ r[1].first /\ r[1].last
             /\ r # <<>>
<1> DEFINE r == Record(<<m>>)
<1>1. <<m>> \in Seq(Messages) /\ Len(<<m>>) = 1 /\ <<m>>[1] = m /\ 1 \in 1 .. 1
  OBVIOUS
<1>2. /\ r \in Seq(Block) /\ Len(r) = 1
      /\ r[1].msg = m /\ r[1].first /\ r[1].last
  BY <1>1, RecordType, ZenonT(40)
<1> HIDE DEF r
<1>3. <<>> \o r = r
  BY <1>2, ConcatEmptySeq, Zenon
<1>4. r # <<>>
  <2>1. Len(r) = 1
    BY <1>2, Zenon
  <2> QED
    BY <2>1
<1> QED
  BY <1>2, <1>3, <1>4, Zenon DEF r

LEMMA RecordOfTwo ==
  ASSUME NEW m \in Messages, NEW w \in Messages
  PROVE  LET r == <<>> \o Record(<<m, w>>)
         IN  /\ Len(r) = 2 /\ r # <<>>
             /\ r[1].msg = m /\ r[1].first /\ ~ r[1].last
             /\ r[2].msg = w /\ ~ r[2].first /\ r[2].last
<1> DEFINE r == Record(<<m, w>>)
<1>1. /\ <<m, w>> \in Seq(Messages) /\ Len(<<m, w>>) = 2
      /\ <<m, w>>[1] = m /\ <<m, w>>[2] = w
      /\ 1 \in 1 .. 2 /\ 2 \in 1 .. 2 /\ 1 # 2
  OBVIOUS
<1>2. /\ r \in Seq(Block) /\ Len(r) = 2
      /\ r[1].msg = m /\ r[1].first /\ ~ r[1].last
      /\ r[2].msg = w /\ ~ r[2].first /\ r[2].last
  <2> DEFINE t == <<m, w>>
  <2>1. /\ r \in Seq(Block) /\ Len(r) = Len(t)
        /\ \A i \in 1 .. Len(t) : /\ r[i].msg = t[i]
                                  /\ r[i].first <=> i = 1
                                  /\ r[i].last <=> i = Len(t)
    BY <1>1, RecordType, Zenon
  <2>2. t[1] = m /\ t[2] = w /\ Len(t) = 2
    BY <1>1
  <2> HIDE DEF t, r
  <2> QED
    BY <2>1, <2>2
<1> HIDE DEF r
<1>3. <<>> \o r = r
  BY <1>2, ConcatEmptySeq, Zenon
<1>4. r # <<>>
  <2>1. Len(r) = 2
    BY <1>2, Zenon
  <2> QED
    BY <2>1
<1> QED
  BY <1>2, <1>3, <1>4, Zenon DEF r

LEMMA AsSentSendRequest ==
  ASSUME TypeOK, WaitInv, way.waits, NEW q \in Requests, NEW apart \in BOOLEAN,
         SendRequest(q, apart)
  PROVE  WaitInv'
<1>1. PICK msgs \in {<<HeadOf(q)>>, <<HeadOf(q), BodyOf(q)>>} :
        /\ stream' = stream \o Record(msgs)
        /\ q \in Full \/ msgs = <<HeadOf(q)>>
        /\ due' = IF q \in Full /\ msgs = <<HeadOf(q)>> THEN q ELSE None
  BY SendRequestStep
<1>2. /\ stream = <<>> /\ due = None /\ UNCHANGED <<way, buf, header, handled>>
  BY DEF SendRequest
<1>3. /\ header = None /\ header' = None /\ buf' = <<>> /\ AsSent(handled')
  BY <1>2 DEF WaitInv
<1>4. HeadOf(q) \in Messages /\ BodyOf(q) \in Messages
  BY Kinds
<1>5. stream' # <<>> /\ (HeadAlone(q)' \/ Both(q)')
  <2>1. CASE msgs = <<HeadOf(q)>>
    <3>1. stream' = <<>> \o Record(<<HeadOf(q)>>)
      BY <1>1, <1>2, <2>1
    <3>2. Len(stream') = 1 /\ stream'[1].msg = HeadOf(q) /\ stream' # <<>>
      BY <1>4, <3>1, RecordOfOne
    <3>3. q \in Full => due' = q
      BY <1>1, <2>1
    <3> QED
      BY <1>3, <3>2, <3>3 DEF HeadAlone
  <2>2. CASE msgs = <<HeadOf(q), BodyOf(q)>> /\ msgs # <<HeadOf(q)>>
    <3>1. stream' = <<>> \o Record(<<HeadOf(q), BodyOf(q)>>) /\ q \in Full
      BY <1>1, <1>2, <2>2
    <3>2. /\ Len(stream') = 2 /\ stream' # <<>>
          /\ stream'[1].msg = HeadOf(q) /\ stream'[1].first
          /\ ~ stream'[1].last
          /\ stream'[2].msg = BodyOf(q) /\ ~ stream'[2].first
      BY <1>4, <3>1, RecordOfTwo
    <3> QED
      BY <1>3, <3>1, <3>2 DEF Both
  <2> QED
    BY <2>1, <2>2
<1> QED
  BY <1>3, <1>5 DEF WaitInv

LEMMA AsSentSendBody ==
  ASSUME TypeOK, WaitInv, way.waits, SendBody
  PROVE  WaitInv'
<1>1. PICK q \in Requests :
        /\ due = q /\ stream = <<>>
        /\ stream' = stream \o Record(<<BodyOf(q)>>)
        /\ UNCHANGED <<way, buf, header, handled>>
  BY DEF SendBody, TypeOK
<1>2. header' # None => header' = q
  BY <1>1 DEF WaitInv
<1>3. BodyOf(q) \in Messages
  BY <1>1, Kinds
<1>4. /\ Len(stream') = 1 /\ stream' # <<>>
      /\ stream'[1].msg = BodyOf(q) /\ stream'[1].first /\ stream'[1].last
  BY <1>1, <1>3, RecordOfOne
<1>5. BodyAlone(q)'
  BY <1>2, <1>4 DEF BodyAlone
<1>6. buf' = <<>> /\ AsSent(handled')
  BY <1>1 DEF WaitInv
<1> QED
  BY <1>4, <1>5, <1>6 DEF WaitInv

LEMMA TailOfOne ==
  ASSUME NEW S, NEW s \in Seq(S), Len(s) = 1
  PROVE  s # <<>> /\ Tail(s) = <<>>
<1>1. s # <<>>
  OBVIOUS
<1>2. Tail(s) \in Seq(S) /\ Len(Tail(s)) = 0
  OBVIOUS
<1>3. ASSUME NEW u \in Seq(S), Len(u) = 0
      PROVE  u = <<>>
  BY <1>3
<1> QED
  BY <1>1, <1>2, <1>3, Zenon

LEMMA TailOfTwo ==
  ASSUME NEW S, NEW s \in Seq(S), Len(s) = 2
  PROVE  /\ Tail(s) # <<>> /\ Tail(s) \in Seq(S)
         /\ Tail(s)[1] = s[2] /\ Tail(Tail(s)) = <<>>
<1>1. Tail(s) \in Seq(S) /\ Len(Tail(s)) = 1
  OBVIOUS
<1>2. s # <<>>
  OBVIOUS
<1>5. Tail(s)[1] = s[2]
  <2> DEFINE t == Tail(s)
  <2>1. \A i \in 1 .. Len(t) : t[i] = s[i + 1]
    BY <1>2, HeadTailProperties, Zenon
  <2>2. Len(t) = 1
    BY <1>1, Zenon
  <2> HIDE DEF t
  <2>3. 1 \in 1 .. Len(t)
    BY <2>2
  <2>4. t[1] = s[2]
    BY <2>1, <2>3
  <2> QED
    BY <2>4 DEF t
<1> QED
  BY <1>1, <1>5, TailOfOne, Zenon

LEMMA Tails ==
  ASSUME NEW S, NEW s \in Seq(S)
  PROVE  /\ <<>> \in Seq(S)
         /\ Len(s) = 1 => s # <<>> /\ Tail(s) = <<>>
         /\ Len(s) = 2 => /\ Tail(s) # <<>> /\ Tail(s) \in Seq(S)
                          /\ Tail(s)[1] = s[2] /\ Tail(Tail(s)) = <<>>
<1>1. <<>> \in Seq(S)
  OBVIOUS
<1> QED
  BY <1>1, TailOfOne, TailOfTwo, Zenon

LEMMA AsSentAppend ==
  ASSUME NEW H, NEW d \in Seq(H), NEW q, NEW b,
         [head |-> q, body |-> b] \in H, AsSent(d),
         b = IF q \in Full THEN BodyOf(q) ELSE None
  PROVE  AsSent(Append(d, [head |-> q, body |-> b]))
<1> DEFINE e == [head |-> q, body |-> b]
           u == Append(d, e)
<1>1. e.head = q /\ e.body = b /\ e \in H
  OBVIOUS
<1> HIDE DEF e
<1>2. /\ DOMAIN u = 1 .. Len(d) + 1 /\ DOMAIN d = 1 .. Len(d) /\ Len(d) \in Nat
      /\ u[Len(d) + 1] = e
      /\ \A i \in 1 .. Len(d) : u[i] = d[i]
  BY <1>1
<1> HIDE DEF u
<1>3. \A i \in DOMAIN u : i \in DOMAIN d \/ i = Len(d) + 1
  BY <1>2
<1> QED
  BY <1>1, <1>2, <1>3 DEF AsSent, u, e

LEMMA AsSentReadSock ==
  ASSUME TypeOK, WaitInv, way.served => header = None, ReadSock
  PROVE  WaitInv'
<1>1. PICK chunk \in Chunks :
        /\ stream' = SubSeq(stream, Len(chunk) + 1, Len(stream))
        /\ IF Decrypts(chunk)
             THEN LET plain    == buf \o Decrypt(chunk)
                      canWrite == Len(buf) + Len(chunk) < way.capacity
                  IN  IF header = None
                        THEN ReadHeader(plain[1], Tail(plain), canWrite)
                        ELSE ReadBody(header, plain, canWrite)
             ELSE replies' = Append(replies, "error")
                  /\ UNCHANGED <<buf, header, handled>>
        /\ UNCHANGED <<way, sent, due>>
  BY DEF ReadSock
<1>2. PICK n \in 1 .. Len(stream) :
        /\ chunk \in Seq(Block) /\ Len(chunk) = n
        /\ \A i \in 1 .. n : chunk[i] = stream[i]
  BY ChunkProperties
<1> DEFINE d  == Decrypt(chunk)
           cw == Len(buf) + Len(chunk) < way.capacity
           H  == [head : Work, body : Messages \cup {None}]
<1>3. /\ buf = <<>> /\ AsSent(handled) /\ stream \in Seq(Block)
      /\ Len(stream) \in Nat /\ handled \in Seq(H) /\ stream # <<>>
  BY DEF WaitInv, TypeOK, Block
<1>4. cw \in BOOLEAN
  <2>1. Len(buf) + Len(chunk) \in Int /\ way.capacity \in Int
    BY <1>2, <1>3, Kinds DEF TypeOK
  <2> QED
    BY <2>1
<1>5. /\ d \in Seq(Messages) /\ Len(d) = n
      /\ \A i \in 1 .. n : d[i] \in {stream[i].msg, Junk}
  BY <1>2, DecryptType
<1>6. Decrypts(chunk) <=> (stream[n].last /\ d[n] # Junk)
  <2>1. n \in 1 .. n
    OBVIOUS
  <2> QED
    BY <1>2, <2>1, Zenon DEF Decrypts
<1>7. Decrypts(chunk) =>
        IF header = None THEN ReadHeader(d[1], Tail(d), cw)
                         ELSE ReadBody(header, d, cw)
  <2>1. <<>> \o d = d
    BY <1>5, ConcatEmptySeq, Zenon
  <2> HIDE DEF d, cw
  <2> QED
    BY <1>1, <1>3, <2>1 DEF d, cw
<1>8. ~ Decrypts(chunk) => UNCHANGED <<buf, header, handled>>
  BY <1>1
<1>9. stream' = SubSeq(stream, n + 1, Len(stream)) /\ UNCHANGED <<way, due>>
  BY <1>1, <1>2
<1>10. n = Len(stream) => stream' = <<>>
  BY <1>3, <1>9
<1>11. PICK q \in Requests : HeadAlone(q) \/ BodyAlone(q) \/ Both(q)
  BY <1>3 DEF WaitInv
<1>12. /\ HeadOf(q) # Junk /\ BodyOf(q) # Junk
       /\ HeadOf(q).part = "head" /\ HeadOf(q).of = q /\ BodyOf(q).part # "head"
       /\ HeadOf(q) \in Messages /\ BodyOf(q) \in Messages
  <2>1. /\ HeadOf(q).part = "head" /\ HeadOf(q).of = q
        /\ BodyOf(q).part = "body" /\ Junk.part = "junk"
    BY DEF HeadOf, BodyOf, Junk
  <2> QED
    BY <2>1, Kinds
<1>13. ASSUME NEW b, handled' = Append(handled, [head |-> q, body |-> b]),
              q \in Work, b \in Messages \cup {None},
              b = IF q \in Full THEN BodyOf(q) ELSE None
       PROVE  AsSent(handled')
  <2>1. [head |-> q, body |-> b] \in H
    BY <1>13
  <2> HIDE DEF H
  <2> QED
    BY <1>3, <1>13, <2>1, AsSentAppend
<1> HIDE DEF d, cw, H
<1>14. ASSUME stream' = <<>>, buf' = <<>>, AsSent(handled'),
              header' # None => due' = header'
       PROVE  WaitInv'
  BY <1>14 DEF WaitInv
(* The header alone.                                                       *)
<1>15. CASE HeadAlone(q)
  <2>1. /\ n = 1 /\ Len(stream) = 1 /\ header = None
        /\ stream[1].msg = HeadOf(q)
        /\ q \in Full => due = q
    BY <1>2, <1>15 DEF HeadAlone
  <2>2. CASE ~ Decrypts(chunk)
    BY <1>3, <1>8, <1>10, <1>14, <2>1, <2>2
  <2>3. CASE Decrypts(chunk)
    <3>1. d[1] = HeadOf(q) /\ Tail(d) = <<>>
      <4>1. d[1] \in {HeadOf(q), Junk} /\ d[1] # Junk
        BY <1>5, <1>6, <2>1, <2>3
      <4>2. Tail(d) = <<>>
        BY <1>5, <2>1, Tails, Zenon
      <4> QED
        BY <4>1, <4>2
    <3>2. ReadHeader(HeadOf(q), <<>>, cw)
      BY <1>7, <2>1, <2>3, <3>1
    <3>3. CASE q \in Full
      <4>1. ReadBody(q, <<>>, cw)
        BY <1>12, <3>2, <3>3 DEF ReadHeader
      <4>2. /\ buf' = <<>> /\ handled' = handled
            /\ header' \in {q, None} \/ way.served
            /\ way.served => header' = header
        <5>1. <<>> \in Seq(Messages)
          BY <1>5, Tails, Zenon
        <5> QED
          BY <1>4, <3>3, <4>1, <5>1, ReadBodyStep, Zenon
      <4> QED
        BY <1>3, <1>9, <1>10, <1>14, <2>1, <3>3, <4>2
    <3>4. CASE q \in Bare /\ q \notin Full
      <4>1. buf' = <<>> /\ header' = None /\ HandleRequest(q, None, <<>>)
        BY <1>12, <2>1, <3>2, <3>4 DEF ReadHeader
      <4>2. /\ q \in Work
            /\ handled' = Append(handled, [head |-> q, body |-> None])
        BY <3>4, <4>1, HandleStep, Kinds
      <4> QED
        BY <1>3, <1>10, <1>13, <1>14, <2>1, <3>4, <4>1, <4>2
    <3>5. CASE q \notin Bare /\ q \notin Full
      <4>1. buf' = <<>> /\ header' = None /\ handled' = handled
        BY <1>12, <2>1, <3>2, <3>5 DEF ReadHeader
      <4> QED
        BY <1>3, <1>10, <1>14, <2>1, <4>1
    <3> QED
      BY <3>3, <3>4, <3>5
  <2> QED
    BY <2>2, <2>3
(* The message alone.                                                      *)
<1>16. CASE BodyAlone(q)
  <2>1. /\ n = 1 /\ Len(stream) = 1 /\ stream[1].msg = BodyOf(q)
        /\ header # None => header = q
    BY <1>2, <1>16 DEF BodyAlone
  <2>2. CASE ~ Decrypts(chunk)
    <3>1. header = None
      <4>1. SUFFICES ASSUME header # None
                     PROVE  FALSE
        OBVIOUS
      <4>2. stream[1].first /\ stream[1].last
        BY <1>16, <4>1, Zenon DEF BodyAlone
      <4>3. chunk[1] = stream[1] /\ 1 \in DOMAIN chunk
        BY <1>2, <2>1
      <4>4. stream[1].first = TRUE
        <5>1. stream[1] \in Block
          BY <1>3, <2>1
        <5>2. stream[1].first \in BOOLEAN
          BY <5>1, Zenon DEF Block
        <5> QED
          BY <4>2, <5>2, Zenon
      <4>5. d[1] = stream[1].msg
        <5>1. chunk[1].first = (1 = 1)
          BY <4>3, <4>4, Zenon
        <5> QED
          BY <4>3, <5>1, Zenon DEF d, Decrypt
      <4> QED
        BY <1>6, <1>12, <2>1, <2>2, <4>2, <4>5, Zenon
    <3> QED
      BY <1>3, <1>8, <1>10, <1>14, <2>1, <2>2, <3>1
  <2>3. CASE Decrypts(chunk)
    <3>1. d[1] = BodyOf(q) /\ Tail(d) = <<>> /\ d # <<>>
      <4>1. d[1] \in {BodyOf(q), Junk} /\ d[1] # Junk
        BY <1>5, <1>6, <2>1, <2>3
      <4>2. Tail(d) = <<>> /\ d # <<>>
        BY <1>5, <2>1, Tails, Zenon
      <4> QED
        BY <4>1, <4>2
    <3>2. CASE header = None
      <4>1. ReadHeader(BodyOf(q), <<>>, cw)
        BY <1>7, <2>3, <3>1, <3>2
      <4>2. buf' = <<>> /\ header' = None /\ handled' = handled
        BY <1>12, <3>2, <4>1 DEF ReadHeader
      <4> QED
        BY <1>3, <1>10, <1>14, <2>1, <4>2
    <3>3. CASE header # None
      <4>1. header = q /\ q \in Full /\ ReadBody(q, d, cw)
        BY <1>7, <2>1, <2>3, <3>3 DEF TypeOK
      <4>2. /\ buf' = <<>>
            /\ header' = None \/ way.served
            /\ \/ handled' = handled
               \/ /\ q \in Work
                  /\ handled' =
                       Append(handled, [head |-> q, body |-> BodyOf(q)])
        <5>1. buf' = IF cw /\ d # <<>> THEN Tail(d) ELSE <<>>
          BY <1>4, <1>5, <4>1, ReadBodyStep, Zenon
        <5>2. /\ header' = None \/ way.served
              /\ \/ handled' = handled
                 \/ /\ q \in Work
                    /\ handled' = Append(handled, [head |-> q, body |-> d[1]])
          BY <1>4, <1>5, <3>1, <4>1, ReadBodyStep, Zenon
        <5> QED
          BY <3>1, <5>1, <5>2, Zenon
      <4>3. buf' = <<>> /\ header' = None
        BY <3>3, <4>2
      <4>4. AsSent(handled')
        BY <1>3, <1>12, <1>13, <4>1, <4>2
      <4> QED
        BY <1>10, <1>14, <2>1, <4>3, <4>4
    <3> QED
      BY <3>2, <3>3
  <2> QED
    BY <2>2, <2>3
(* Both in one record.                                                     *)
<1>17. CASE Both(q)
  <2>1. /\ Len(stream) = 2 /\ header = None /\ q \in Full
        /\ stream[1].msg = HeadOf(q) /\ stream[2].msg = BodyOf(q)
    BY <1>17 DEF Both
  <2>2. n = 1 \/ n = 2
    BY <2>1
  <2>3. CASE n = 1
    <3>1. ~ Decrypts(chunk)
      BY <1>6, <1>17, <2>3, Zenon DEF Both
    <3>2. buf' = <<>> /\ header' = None /\ handled' = handled
      BY <1>3, <1>8, <2>1, <3>1
    <3>3. Len(stream') = 1 /\ stream'[1] = stream[2]
      BY <1>3, <1>9, <2>1, <2>3
    <3>4. BodyAlone(q)'
      BY <2>1, <3>2, <3>3 DEF BodyAlone
    <3> QED
      BY <1>3, <3>2, <3>4 DEF WaitInv
  <2>4. CASE n = 2
    <3>1. CASE ~ Decrypts(chunk)
      BY <1>3, <1>8, <1>10, <1>14, <2>1, <2>4, <3>1
    <3>2. CASE Decrypts(chunk)
      <4>1. d[1] = HeadOf(q)
        <5>1. chunk[1] = stream[1] /\ 1 \in DOMAIN chunk /\ stream[1] \in Block
          BY <1>2, <1>3, <2>1, <2>4
        <5>2. stream[1].first = TRUE
          BY <1>17, <5>1, Zenon DEF Both, Block
        <5>3. chunk[1].first = (1 = 1)
          BY <5>1, <5>2, Zenon
        <5> QED
          BY <2>1, <5>1, <5>3, Zenon DEF d, Decrypt
      <4>2. d[2] = BodyOf(q)
        BY <1>5, <1>6, <2>1, <2>4, <3>2
      <4>3. Tail(d) # <<>> /\ Tail(d)[1] = BodyOf(q) /\ Tail(Tail(d)) = <<>>
            /\ Tail(d) \in Seq(Messages)
        BY <1>5, <2>4, <4>2, Tails, Zenon
      <4>4. ReadHeader(HeadOf(q), Tail(d), cw)
        BY <1>7, <2>1, <3>2, <4>1
      <4> DEFINE rest == Tail(d)
      <4> HIDE DEF rest
      <4>5. ReadBody(q, rest, cw)
        BY <1>12, <2>1, <4>4 DEF ReadHeader, rest
      <4>6. /\ buf' = <<>>
            /\ header' = None \/ way.served
            /\ way.served => header' = header
            /\ \/ handled' = handled
               \/ /\ q \in Work
                  /\ handled' =
                       Append(handled, [head |-> q, body |-> BodyOf(q)])
        <5>1. rest # <<>> /\ rest[1] = BodyOf(q) /\ Tail(rest) = <<>>
              /\ rest \in Seq(Messages)
          BY <4>3 DEF rest
        <5> QED
          <6>1. buf' = IF cw /\ rest # <<>> THEN Tail(rest) ELSE <<>>
            BY <1>4, <2>1, <4>5, <5>1, ReadBodyStep, Zenon
          <6>2. /\ header' = None \/ way.served
                /\ way.served => header' = header
                /\ \/ handled' = handled
                   \/ /\ q \in Work
                      /\ handled' =
                           Append(handled, [head |-> q, body |-> rest[1]])
            BY <1>4, <2>1, <4>5, <5>1, ReadBodyStep, Zenon
          <6> QED
            BY <5>1, <6>1, <6>2, Zenon
      <4>7. AsSent(handled')
        BY <1>3, <1>12, <1>13, <2>1, <4>6
      <4> QED
        BY <1>10, <1>14, <2>1, <2>4, <4>6, <4>7
    <3> QED
      BY <3>1, <3>2
  <2> QED
    BY <2>2, <2>3, <2>4
<1> QED
  BY <1>11, <1>15, <1>16, <1>17

LEMMA AsSentStep ==
  TypeOK /\ OrderInv /\ AsSentInv /\ [Next]_vars => AsSentInv'
<1> SUFFICES ASSUME TypeOK, OrderInv, AsSentInv, [Next]_vars
             PROVE  AsSentInv'
  OBVIOUS
<1>1. \A apart \in way.apart : apart \in BOOLEAN
  BY ContextAssumption DEF TypeOK
<1>2. way.served => header = None
  BY DEF OrderInv
<1>3. CASE UNCHANGED vars
  BY <1>3 DEF vars, AsSentInv, WaitInv, HeadAlone, BodyAlone, Both
<1>4. ASSUME NEW q \in Requests, NEW apart \in way.apart, SendRequest(q, apart)
      PROVE  AsSentInv'
  BY <1>1, <1>4, AsSentSendRequest DEF AsSentInv, SendRequest
<1>5. CASE SendBody
  BY <1>5, AsSentSendBody DEF AsSentInv, SendBody
<1>6. CASE ReadSock
  <2>1. way' = way
    BY <1>6 DEF ReadSock
  <2> QED
    BY <1>2, <1>6, <2>1, AsSentReadSock DEF AsSentInv
<1> QED
  BY <1>3, <1>4, <1>5, <1>6 DEF Next

LEMMA AsSentGivesHandledAsSent == AsSentInv => HandledAsSent
  BY DEF AsSentInv, WaitInv, AsSent, HandledAsSent

-----------------------------------------------------------------------------
(* The peer that waits gets its replies.                                   *)

HandledBy(d, q) == \E i \in DOMAIN d : d[i].head = q

LEMMA JoinLonger ==
  ASSUME NEW S, NEW s \in Seq(S), NEW x \in S, NEW u \in Seq(S)
  PROVE  /\ Len(s \o u) = Len(s) + Len(u)
         /\ Len(Append(s, x) \o u) = Len(s) + 1 + Len(u)
         /\ Len(s) \in Nat /\ Len(u) \in Nat
<1>1. Append(s, x) \in Seq(S) /\ Len(Append(s, x)) = Len(s) + 1
  OBVIOUS
<1>2. \A t \in Seq(S) : Len(t \o u) = Len(t) + Len(u)
  BY ConcatProperties
<1> QED
  BY <1>1, <1>2

LEMMA TailEmpty ==
  ASSUME NEW S, NEW s \in Seq(S), s # <<>>, Tail(s) = <<>>
  PROVE  Len(s) = 1
<1>1. Len(Tail(s)) = Len(s) - 1 /\ Len(s) \in Nat
  OBVIOUS
<1>2. \A t : t = <<>> => Len(t) = 0
  OBVIOUS
<1>3. Len(Tail(s)) = 0
  BY <1>2, Zenon
<1> QED
  BY <1>1, <1>3

(* A request that a server's Context handles is answered, if only by an    *)
(* error.                                                                  *)
LEMMA HandleReplies ==
  ASSUME TypeOK, NEW q \in Requests, NEW b \in Messages \cup {None},
         NEW also \in {<<>>, <<"error">>}, HandleRequest(q, b, also)
  PROVE  /\ Len(replies') >= Len(replies)
         /\ way.served => Len(replies') > Len(replies)
         /\ handled' = Append(handled, [head |-> q, body |-> b])
<1> DEFINE R == {"answer", "ping", "error"}
<1>1. /\ replies \in Seq(R) /\ also \in Seq(R)
      /\ "answer" \in R /\ "error" \in R
  BY AlsoType, Zenon DEF TypeOK
<1> HIDE DEF R
<1>2. /\ Len(replies) \in Nat /\ Len(also) \in Nat
      /\ Len(Append(replies, "answer") \o also) = Len(replies) + 1 + Len(also)
      /\ Len(Append(replies, "error") \o also) = Len(replies) + 1 + Len(also)
      /\ Len(replies \o also) = Len(replies) + Len(also)
  BY <1>1, JoinLonger
<1>3. /\ \/ replies' = Append(replies, "answer") \o also
         \/ replies' = Append(replies, "error") \o also
         \/ ~ way.served /\ replies' = replies \o also
      /\ handled' = Append(handled, [head |-> q, body |-> b])
  BY DEF HandleRequest
<1> QED
  BY <1>2, <1>3

LEMMA ReadBodyReplies ==
  ASSUME TypeOK, NEW q \in Full, NEW rest \in Seq(Messages),
         NEW canWrite \in BOOLEAN, ReadBody(q, rest, canWrite)
  PROVE  /\ Len(replies') >= Len(replies)
         /\ rest # <<>> => /\ way.served => Len(replies') > Len(replies)
                           /\ handled' = Append(handled,
                                [head |-> q, body |-> rest[1]])
         /\ rest = <<>> =>
              /\ handled' = handled
              /\ canWrite /\ ~ way.served => header' = q
<1> DEFINE full == IF canWrite THEN <<>> ELSE <<"error">>
<1>1. /\ header' = IF way.served THEN header
                   ELSE IF canWrite /\ rest = <<>> THEN q ELSE None
      /\ IF rest = <<>>
           THEN replies' = replies \o full /\ UNCHANGED handled
           ELSE HandleRequest(q, rest[1], full)
  BY DEF ReadBody, SetHeader
<1>2. full \in {<<>>, <<"error">>} /\ q \in Requests /\ q \in Work
  BY DEF Requests, Work
<1> HIDE DEF full
<1>3. CASE rest = <<>>
  <2> DEFINE R == {"answer", "ping", "error"}
  <2>1. replies \in Seq(R) /\ full \in Seq(R) /\ "error" \in R
    BY <1>2, AlsoType, Zenon DEF TypeOK
  <2> HIDE DEF R
  <2>2. Len(replies \o full) = Len(replies) + Len(full)
        /\ Len(replies) \in Nat /\ Len(full) \in Nat
    BY <2>1, JoinLonger
  <2> QED
    BY <1>1, <1>3, <2>2
<1>4. CASE rest # <<>>
  <2>1. rest[1] \in Messages \cup {None} /\ HandleRequest(q, rest[1], full)
    BY <1>1, <1>4
  <2>2. /\ Len(replies') >= Len(replies)
        /\ way.served => Len(replies') > Len(replies)
        /\ handled' = Append(handled, [head |-> q, body |-> rest[1]])
    BY <1>2, <2>1, HandleReplies, Zenon
  <2>3. replies \in Seq({"answer", "ping", "error"})
    BY DEF TypeOK
  <2>4. replies' \in Seq({"answer", "ping", "error"})
    BY ReadBodyStep
  <2>5. Len(replies) \in Nat /\ Len(replies') \in Nat
    BY <2>3, <2>4
  <2> QED
    BY <1>4, <2>2, <2>5
<1> QED
  BY <1>3, <1>4

(* What is no header that announces a message is answered at once, unless  *)
(* it is a request and there is no server.                                 *)
LEMMA ReadHeaderReplies ==
  ASSUME TypeOK, NEW m \in Messages, NEW rest \in Seq(Messages),
         NEW canWrite \in BOOLEAN, ReadHeader(m, rest, canWrite),
         ~ (m.part = "head" /\ m.of \in Full)
  PROVE  /\ way.served => Len(replies') > Len(replies)
         /\ m.part = "head" /\ m.of \in Work =>
              handled' = Append(handled, [head |-> m.of, body |-> None])
<1>1. CASE m.part = "head" /\ m.of \in Bare
  <2>1. m.of \in Requests /\ HandleRequest(m.of, None, <<>>)
    BY <1>1 DEF ReadHeader, Requests
  <2> QED
    BY <2>1, HandleReplies
<1>2. CASE ~ (m.part = "head" /\ m.of \in Bare)
  <2>1. \E r \in {"ping", "error"} : replies' = Append(replies, r)
    BY <1>2 DEF ReadHeader
  <2>2. ~ (m.part = "head" /\ m.of \in Work)
    BY <1>2, Kinds
  <2>3. replies \in Seq({"answer", "ping", "error"})
    BY DEF TypeOK
  <2>4. Len(replies') = Len(replies) + 1 /\ Len(replies) \in Nat
    BY <2>1, <2>3
  <2> QED
    BY <2>2, <2>4
<1> QED
  BY <1>1, <1>2


(* The event of a peer that waits: n blocks are read as the messages d.    *)
ReadPlain(n, d, cw) ==
  /\ d \in Seq(Messages) /\ Len(d) = n /\ cw \in BOOLEAN
  /\ cw <=> n < way.capacity
  /\ stream' = SubSeq(stream, n + 1, Len(stream))
  /\ UNCHANGED <<way, sent, due>>
  /\ ~ way.cut => n = Len(stream) \/ n = way.capacity
  /\ \A i \in 1 .. n :
       d[i] = IF stream[i].first = (i = 1) THEN stream[i].msg ELSE Junk
  /\ IF stream[n].last /\ d[n] # Junk
       THEN IF header = None THEN ReadHeader(d[1], Tail(d), cw)
                             ELSE ReadBody(header, d, cw)
       ELSE replies' = Append(replies, "error")
            /\ UNCHANGED <<buf, header, handled>>

LEMMA ReadWaiting ==
  ASSUME TypeOK, buf = <<>>, ReadSock
  PROVE  \E n \in 1 .. Len(stream), d \in Seq(Messages), cw \in BOOLEAN :
           ReadPlain(n, d, cw)
<1>1. PICK chunk \in Chunks :
        /\ stream' = SubSeq(stream, Len(chunk) + 1, Len(stream))
        /\ IF Decrypts(chunk)
             THEN LET plain    == buf \o Decrypt(chunk)
                      canWrite == Len(buf) + Len(chunk) < way.capacity
                  IN  IF header = None
                        THEN ReadHeader(plain[1], Tail(plain), canWrite)
                        ELSE ReadBody(header, plain, canWrite)
             ELSE replies' = Append(replies, "error")
                  /\ UNCHANGED <<buf, header, handled>>
        /\ UNCHANGED <<way, sent, due>>
  BY DEF ReadSock
<1>2. PICK n \in 1 .. Len(stream) :
        /\ chunk \in Seq(Block) /\ Len(chunk) = n
        /\ \A i \in 1 .. n : chunk[i] = stream[i]
        /\ ~ way.cut => n = Len(stream) \/ Len(buf) + n = way.capacity
  BY ChunkProperties
<1> DEFINE d  == Decrypt(chunk)
           cw == Len(buf) + Len(chunk) < way.capacity
<1>3. Len(buf) = 0 /\ n \in Nat /\ way.capacity \in Nat
  BY Kinds DEF TypeOK
<1>4. cw \in BOOLEAN /\ (cw <=> n < way.capacity)
      /\ (~ way.cut => n = Len(stream) \/ n = way.capacity)
  BY <1>2, <1>3
<1>5. d \in Seq(Messages) /\ Len(d) = n
  BY <1>2, DecryptType
<1>6. \A i \in 1 .. n :
        d[i] = IF stream[i].first = (i = 1) THEN stream[i].msg ELSE Junk
  <2>1. DOMAIN chunk = 1 .. n
    BY <1>2
  <2>2. \A i \in 1 .. n :
          d[i] = IF chunk[i].first = (i = 1) THEN chunk[i].msg ELSE Junk
    BY <2>1, Zenon DEF Decrypt
  <2> HIDE DEF d
  <2>3. ASSUME NEW i \in 1 .. n
        PROVE  d[i] = IF stream[i].first = (i = 1) THEN stream[i].msg ELSE Junk
    <3>1. chunk[i] = stream[i]
      BY <1>2
    <3> QED
      BY <2>2, <3>1, Zenon
  <2> QED
    BY <2>3
<1>7. Decrypts(chunk) <=> (stream[n].last /\ d[n] # Junk)
  <2>1. n \in 1 .. n
    BY <1>3
  <2> QED
    BY <1>2, <2>1, Zenon DEF Decrypts
<1>8. <<>> \o d = d
  BY <1>5, ConcatEmptySeq, Zenon
<1> HIDE DEF d, cw
<1>9. IF stream[n].last /\ d[n] # Junk
        THEN IF header = None THEN ReadHeader(d[1], Tail(d), cw)
                              ELSE ReadBody(header, d, cw)
        ELSE replies' = Append(replies, "error")
             /\ UNCHANGED <<buf, header, handled>>
  BY <1>1, <1>7, <1>8, Zenon DEF d, cw
<1>10. stream' = SubSeq(stream, n + 1, Len(stream))
       /\ UNCHANGED <<way, sent, due>>
  BY <1>1, <1>2
<1>11. ReadPlain(n, d, cw)
  BY <1>4, <1>5, <1>6, <1>9, <1>10, Zenon DEF ReadPlain
<1> QED
  BY <1>4, <1>5, <1>11, Zenon

(* All that a server was sent has been answered, but for what is still to  *)
(* be sent or read.                                                        *)
Answered == Len(replies) >= Len(sent)
NearlyAnswered == Len(replies) + 1 >= Len(sent)

AnswerInv ==
  way.served /\ way.waits =>
    /\ NearlyAnswered
    /\ stream = <<>> /\ due = None => Answered

LEMMA AnswerReadSock ==
  ASSUME TypeOK, TypeOK', WaitInv, way.served, way.waits, AnswerInv, ReadSock
  PROVE  AnswerInv'
<1>1. buf = <<>>
  BY DEF WaitInv
<1>2. PICK n \in 1 .. Len(stream), d \in Seq(Messages), cw \in BOOLEAN :
        ReadPlain(n, d, cw)
  BY <1>1, ReadWaiting
<1>3. /\ d \in Seq(Messages) /\ Len(d) = n /\ cw \in BOOLEAN
      /\ UNCHANGED <<way, sent, due>>
      /\ \A i \in 1 .. n : d[i] \in {stream[i].msg, Junk}
      /\ IF stream[n].last /\ d[n] # Junk
           THEN IF header = None THEN ReadHeader(d[1], Tail(d), cw)
                                 ELSE ReadBody(header, d, cw)
           ELSE replies' = Append(replies, "error")
  BY <1>2 DEF ReadPlain
<1>4. /\ Len(replies) \in Nat /\ Len(sent) \in Nat /\ n >= 1 /\ 1 \in 1 .. n
      /\ Len(replies') \in Nat /\ d # <<>> /\ stream # <<>>
      /\ d[1] \in Messages /\ Tail(d) \in Seq(Messages)
      /\ Len(Append(replies, "error")) = Len(replies) + 1
  BY <1>3 DEF TypeOK
<1>5. NearlyAnswered /\ sent' = sent /\ due' = due
  BY <1>3 DEF AnswerInv
<1>6. \/ Len(replies') > Len(replies)
      \/ Len(replies') >= Len(replies) /\ due # None
  <2>1. CASE ~ (stream[n].last /\ d[n] # Junk)
    BY <1>3, <1>4, <2>1
  <2>2. CASE stream[n].last /\ d[n] # Junk /\ header # None
    <3>1. header \in Full /\ ReadBody(header, d, cw)
      BY <1>3, <2>2 DEF TypeOK
    <3> QED
      BY <1>3, <1>4, <3>1, ReadBodyReplies
  <2>3. CASE stream[n].last /\ d[n] # Junk /\ header = None
    <3>1. ReadHeader(d[1], Tail(d), cw)
      BY <1>3, <2>3
    <3>2. CASE ~ (d[1].part = "head" /\ d[1].of \in Full)
      BY <1>3, <1>4, <3>1, <3>2, ReadHeaderReplies
    <3>3. CASE d[1].part = "head" /\ d[1].of \in Full
      <4>1. ReadBody(d[1].of, Tail(d), cw)
        BY <3>1, <3>3 DEF ReadHeader
      <4>2. /\ Len(replies') >= Len(replies)
            /\ Tail(d) # <<>> => Len(replies') > Len(replies)
        BY <1>3, <1>4, <3>3, <4>1, ReadBodyReplies
      <4>3. Tail(d) = <<>> => n = 1
        BY <1>3, <1>4, TailEmpty
      <4>4. n = 1 => due # None
        <5>1. SUFFICES ASSUME n = 1
                       PROVE  due # None
          OBVIOUS
        <5>2. PICK q \in Requests : HeadAlone(q) \/ BodyAlone(q) \/ Both(q)
          BY <1>4 DEF WaitInv
        <5>3. /\ HeadOf(q).of = q /\ BodyOf(q).part # "head"
              /\ Junk.part # "head" /\ q # None
          BY Kinds DEF HeadOf, BodyOf, Junk
        <5>4. d[1] = stream[1].msg
          BY <1>3, <1>4, <3>3, <5>3
        <5>5. HeadAlone(q)
          BY <2>3, <3>3, <5>1, <5>2, <5>3, <5>4 DEF BodyAlone, Both
        <5>6. q \in Full
          BY <3>3, <5>3, <5>4, <5>5 DEF HeadAlone
        <5> QED
          BY <5>3, <5>5, <5>6 DEF HeadAlone
      <4> QED
        BY <4>2, <4>3, <4>4
    <3> QED
      BY <3>2, <3>3
  <2> QED
    BY <2>1, <2>2, <2>3
<1> QED
  BY <1>4, <1>5, <1>6 DEF AnswerInv, NearlyAnswered, Answered

LEMMA AnswerStep ==
  TypeOK /\ OrderInv /\ AsSentInv /\ AnswerInv /\ [Next]_vars => AnswerInv'
<1> SUFFICES ASSUME TypeOK, AsSentInv, AnswerInv, [Next]_vars
             PROVE  AnswerInv'
  OBVIOUS
<1>1. CASE UNCHANGED vars
  BY <1>1 DEF vars, AnswerInv, NearlyAnswered, Answered
<1>2. ASSUME NEW q \in Requests, NEW apart \in way.apart, SendRequest(q, apart)
      PROVE  AnswerInv'
  <2>1. /\ way.waits /\ way.served => Len(replies) >= Len(sent)
        /\ sent' = Append(sent, q) /\ replies' = replies /\ way' = way
    BY <1>2 DEF SendRequest
  <2>2. way.waits => stream' # <<>>
    <3>1. HeadOf(q) \in Messages /\ BodyOf(q) \in Messages
      BY Kinds
    <3>2. SUFFICES ASSUME way.waits
                   PROVE  stream' # <<>>
      OBVIOUS
    <3>3. \/ stream' = <<>> \o Record(<<HeadOf(q), BodyOf(q)>>)
          \/ stream' = <<>> \o Record(<<HeadOf(q)>>)
      BY <1>2, <3>2 DEF SendRequest
    <3> QED
      BY <3>1, <3>3, RecordOfOne, RecordOfTwo
  <2>3. /\ Len(replies) \in Nat /\ Len(sent) \in Nat
        /\ Len(Append(sent, q)) = Len(sent) + 1
    BY DEF TypeOK
  <2> QED
    BY <2>1, <2>2, <2>3 DEF AnswerInv, NearlyAnswered, Answered
<1>3. CASE SendBody
  <2>1. due # None /\ due \in Requests /\ UNCHANGED <<way, sent, replies>>
        /\ stream' = stream \o Record(<<BodyOf(due)>>)
    BY <1>3 DEF SendBody, TypeOK
  <2>2. way.waits => stream = <<>>
    BY <1>3 DEF SendBody
  <2>3. way.waits => stream' # <<>>
    <3>1. BodyOf(due) \in Messages
      BY <2>1, Kinds
    <3> QED
      BY <2>1, <2>2, <3>1, RecordOfOne
  <2> QED
    BY <2>1, <2>3 DEF AnswerInv, NearlyAnswered, Answered
<1>4. CASE ReadSock
  <2>1. way' = way /\ TypeOK'
    BY <1>4, TypeStep DEF ReadSock, Next
  <2> QED
    BY <1>4, <2>1, AnswerReadSock DEF AsSentInv, AnswerInv
<1> QED
  BY <1>1, <1>2, <1>3, <1>4 DEF Next

LEMMA AnswerGivesAnsweredWhenRead == AnswerInv => AnsweredWhenRead
  BY DEF AnswerInv, Answered, AnsweredWhenRead

-----------------------------------------------------------------------------
(* The peer that waits, where nothing is to be lost: handle_request is     *)
(* called for its requests.                                                *)

Reached(q) ==
  \/ HandledBy(handled, q)
  \/ due = q
  \/ stream # <<>> /\ stream[1].msg.of = q

(* A header that was sent apart is kept until its message has come, and    *)
(* what is under way is whole.                                             *)
WholeRecord ==
  /\ due # None =>
       /\ due \in Full /\ ~ way.served
       /\ IF stream = <<>> THEN header = due
                           ELSE Len(stream) = 1 /\ stream[1].msg = HeadOf(due)
  /\ stream # <<>> =>
       /\ stream[1].first /\ stream[Len(stream)].last
       /\ stream[1].msg.part = "body" => header = stream[1].msg.of

ReachedInv ==
  Lossless => WholeRecord /\ \A q \in Work \cap Range(sent) : Reached(q)

LEMMA HandledAppend ==
  ASSUME NEW H, NEW d \in Seq(H), NEW x \in H
  PROVE  /\ HandledBy(Append(d, x), x.head)
         /\ \A q : HandledBy(d, q) => HandledBy(Append(d, x), q)
<1>1. /\ DOMAIN Append(d, x) = 1 .. Len(d) + 1 /\ DOMAIN d = 1 .. Len(d)
      /\ Len(d) \in Nat
      /\ Append(d, x)[Len(d) + 1] = x
      /\ \A i \in 1 .. Len(d) : Append(d, x)[i] = d[i]
  OBVIOUS
<1> DEFINE u == Append(d, x)
<1>2. /\ DOMAIN u = 1 .. Len(d) + 1 /\ u[Len(d) + 1] = x
      /\ \A i \in 1 .. Len(d) : u[i] = d[i]
  BY <1>1
<1> HIDE DEF u
<1>3. Len(d) + 1 \in DOMAIN u
  BY <1>1, <1>2
<1>4. ASSUME NEW q, NEW i \in DOMAIN d, d[i].head = q
      PROVE  i \in DOMAIN u /\ u[i].head = q
  BY <1>1, <1>2, <1>4
<1> QED
  BY <1>2, <1>3, <1>4, Zenon DEF HandledBy, u

(* What is under way is read at once, and all of it.                       *)
LEMMA ReadLossless ==
  ASSUME TypeOK, WaitInv, Lossless, WholeRecord, ReadSock
  PROVE  \E q \in Requests :
           /\ stream' = <<>> /\ UNCHANGED <<way, sent, due>>
           /\ stream[1].msg.of = q
           /\ \/ due = q /\ header' = q /\ handled' = handled
              \/ /\ due = None
                 /\ q \in Work => \E b \in Messages \cup {None} :
                      handled' = Append(handled, [head |-> q, body |-> b])
<1>1. buf = <<>>
  BY DEF WaitInv
<1>2. PICK n \in 1 .. Len(stream), d \in Seq(Messages), cw \in BOOLEAN :
        ReadPlain(n, d, cw)
  BY <1>1, ReadWaiting
<1>3. /\ stream \in Seq(Block) /\ Len(stream) \in Nat /\ stream # <<>>
      /\ way.capacity \in Nat /\ way.capacity > 1 /\ ~ way.cut
  BY Kinds DEF TypeOK, Block, Lossless, Orderly
<1>4. PICK q \in Requests : HeadAlone(q) \/ BodyAlone(q) \/ Both(q)
  BY <1>3 DEF WaitInv
<1>5. Len(stream) \in 1 .. 2
  BY <1>4 DEF HeadAlone, BodyAlone, Both
<1>6. /\ n = Len(stream) /\ Len(d) = n /\ stream' = <<>>
      /\ UNCHANGED <<way, sent, due>>
      /\ n = 1 => cw
  BY <1>2, <1>3, <1>5 DEF ReadPlain
<1>7. /\ stream[1].first = TRUE /\ stream[n].last
      /\ stream[1].msg.part = "body" => header = stream[1].msg.of
      /\ due # None => /\ due \in Full /\ ~ way.served
                       /\ n = 1 /\ stream[1].msg = HeadOf(due)
  <2>1. stream[1].first \in BOOLEAN
    <3>1. stream[1] \in Block
      BY <1>3, <1>5
    <3> QED
      BY <3>1, Zenon DEF Block
  <2> QED
    BY <1>3, <1>6, <2>1 DEF WholeRecord
<1>8. /\ HeadOf(q) # Junk /\ BodyOf(q) # Junk
      /\ HeadOf(q).part = "head" /\ HeadOf(q).of = q
      /\ BodyOf(q).part = "body" /\ BodyOf(q).of = q
      /\ HeadOf(q) \in Messages /\ BodyOf(q) \in Messages
      /\ \A p : HeadOf(q) = HeadOf(p) => q = p
      /\ \A p : BodyOf(q) # HeadOf(p)
  <2>1. /\ HeadOf(q).part = "head" /\ HeadOf(q).of = q
        /\ BodyOf(q).part = "body" /\ BodyOf(q).of = q
        /\ Junk.part = "junk"
        /\ \A p : HeadOf(p).of = p /\ HeadOf(p).part = "head"
    BY DEF HeadOf, BodyOf, Junk
  <2> QED
    BY <2>1, Kinds
<1>9. d[1] = stream[1].msg
  <2>1. 1 \in 1 .. n
    BY <1>5, <1>6
  <2>2. d[1] = IF stream[1].first = (1 = 1) THEN stream[1].msg ELSE Junk
    BY <1>2, <2>1 DEF ReadPlain
  <2> QED
    BY <1>7, <2>2, Zenon
<1>10. stream[n].last /\ d[n] # Junk =>
         IF header = None THEN ReadHeader(d[1], Tail(d), cw)
                          ELSE ReadBody(header, d, cw)
  BY <1>2 DEF ReadPlain
<1>11. header # None => header \in Full
  BY DEF TypeOK
<1>12. CASE HeadAlone(q)
  <2>1. /\ n = 1 /\ header = None /\ d[1] = HeadOf(q) /\ Tail(d) = <<>>
        /\ stream[1].msg.of = q /\ cw
        /\ q \in Full => due = q
    BY <1>6, <1>8, <1>9, <1>12, Tails DEF HeadAlone
  <2>2. ReadHeader(HeadOf(q), <<>>, cw)
    BY <1>7, <1>8, <1>10, <2>1
  <2>3. <<>> \in Seq(Messages)
    BY Tails
  <2>4. CASE q \in Full
    <3>1. ReadBody(q, <<>>, cw)
      BY <1>8, <2>2, <2>4 DEF ReadHeader
    <3>2. q # None
      BY Kinds
    <3>3. handled' = handled /\ header' = q
      BY <1>7, <2>1, <2>3, <2>4, <3>1, <3>2, ReadBodyReplies
    <3> QED
      BY <1>6, <2>1, <2>4, <3>3
  <2>5. CASE q \notin Full
    <3>1. due = None
      BY <1>7, <1>8, <1>9, <2>1, <2>5
    <3>2. q \in Work =>
            handled' = Append(handled, [head |-> q, body |-> None])
      BY <1>8, <2>2, <2>3, <2>5, ReadHeaderReplies
    <3> QED
      BY <1>6, <2>1, <3>1, <3>2
  <2> QED
    BY <2>4, <2>5
<1>13. CASE BodyAlone(q)
  <2>1. n = 1 /\ d[1] = BodyOf(q) /\ stream[1].msg.of = q /\ header = q
        /\ d # <<>>
    BY <1>6, <1>7, <1>8, <1>9, <1>13, Tails DEF BodyAlone
  <2>2. due = None /\ q # None /\ q \in Full
    BY <1>7, <1>8, <1>9, <1>11, <2>1, Kinds
  <2>3. ReadBody(q, d, cw)
    BY <1>7, <1>8, <1>10, <2>1, <2>2
  <2>4. q \in Work =>
          handled' = Append(handled, [head |-> q, body |-> BodyOf(q)])
    BY <2>1, <2>2, <2>3, ReadBodyReplies
  <2> QED
    BY <1>6, <1>8, <2>1, <2>2, <2>4
<1>14. CASE Both(q)
  <2>1. /\ n = 2 /\ header = None /\ q \in Full
        /\ d[1] = HeadOf(q) /\ stream[1].msg.of = q
        /\ stream[2].msg = BodyOf(q) /\ ~ stream[2].first
    BY <1>6, <1>8, <1>9, <1>14 DEF Both
  <2>2. d[2] = BodyOf(q)
    <3>1. stream[2].first = FALSE
      <4>1. stream[2] \in Block
        <5>1. 2 \in 1 .. Len(stream)
          BY <1>6, <2>1
        <5> QED
          BY <1>3, <5>1
      <4>2. stream[2].first \in BOOLEAN
        BY <4>1, Zenon DEF Block
      <4> QED
        BY <2>1, <4>2
    <3>2. d[2] = IF stream[2].first = (2 = 1) THEN stream[2].msg ELSE Junk
      BY <1>2, <2>1 DEF ReadPlain
    <3>3. (2 = 1) = FALSE
      OBVIOUS
    <3> QED
      BY <2>1, <3>1, <3>2, <3>3, Zenon
  <2>3. /\ Tail(d) \in Seq(Messages) /\ Tail(d) # <<>>
        /\ Tail(d)[1] = BodyOf(q)
    BY <1>6, <2>1, <2>2, Tails
  <2> DEFINE rest == Tail(d)
  <2>4. rest \in Seq(Messages) /\ rest # <<>> /\ rest[1] = BodyOf(q)
    BY <2>3
  <2>5. ReadHeader(HeadOf(q), rest, cw)
    BY <1>7, <1>8, <1>10, <2>1, <2>2
  <2> HIDE DEF rest
  <2>6. ReadBody(q, rest, cw)
    BY <1>8, <2>1, <2>5 DEF ReadHeader
  <2>7. q \in Work =>
          handled' = Append(handled, [head |-> q, body |-> BodyOf(q)])
    BY <2>1, <2>4, <2>6, ReadBodyReplies
  <2>8. due = None
    BY <1>7, <2>1
  <2> QED
    BY <1>6, <1>8, <2>1, <2>7, <2>8
<1> QED
  BY <1>4, <1>12, <1>13, <1>14

(* What has been handled stays handled.                                    *)
LEMMA HandledGrows ==
  ASSUME TypeOK, ReadSock, NEW q, HandledBy(handled, q)
  PROVE  HandledBy(handled', q)
<1> DEFINE D == [head : Work, body : Messages \cup {None}]
<1>1. handled \in Seq(D)
  BY DEF TypeOK
<1>2. \/ handled' = handled
      \/ \E h \in Work, b \in Messages \cup {None} :
           handled' = Append(handled, [head |-> h, body |-> b])
  BY ReadSockStep DEF Outcome
<1>3. ASSUME NEW h \in Work, NEW b \in Messages \cup {None},
             handled' = Append(handled, [head |-> h, body |-> b])
      PROVE  HandledBy(handled', q)
  <2>1. [head |-> h, body |-> b] \in D
    OBVIOUS
  <2> HIDE DEF D
  <2> QED
    BY <1>1, <1>3, <2>1, HandledAppend
<1> QED
  BY <1>2, <1>3

LEMMA ReachedReadSock ==
  ASSUME TypeOK, WaitInv, Lossless, ReachedInv, ReadSock
  PROVE  ReachedInv'
<1>1. PICK q \in Requests :
        /\ stream' = <<>> /\ UNCHANGED <<way, sent, due>>
        /\ stream[1].msg.of = q
        /\ \/ due = q /\ header' = q /\ handled' = handled
           \/ /\ due = None
              /\ q \in Work => \E b \in Messages \cup {None} :
                   handled' = Append(handled, [head |-> q, body |-> b])
  BY ReadLossless DEF ReachedInv
<1>2. WholeRecord'
  BY <1>1 DEF WholeRecord, ReachedInv
<1> DEFINE D == [head : Work, body : Messages \cup {None}]
<1>3. handled \in Seq(D)
  BY DEF TypeOK
<1>4. ASSUME NEW b \in Messages \cup {None}, q \in Work,
             handled' = Append(handled, [head |-> q, body |-> b])
      PROVE  HandledBy(handled', q)
  <2>1. [head |-> q, body |-> b] \in D /\ [head |-> q, body |-> b].head = q
    BY <1>4
  <2> HIDE DEF D
  <2> QED
    BY <1>3, <1>4, <2>1, HandledAppend
<1>5. ASSUME NEW p \in Work \cap Range(sent)
      PROVE  HandledBy(handled', p) \/ due' = p
  <2>1. HandledBy(handled, p) \/ due = p \/ stream[1].msg.of = p
    BY DEF ReachedInv, Reached
  <2>2. CASE HandledBy(handled, p)
    BY <2>2, HandledGrows
  <2>3. CASE due = p
    BY <1>1, <2>3
  <2>4. CASE stream[1].msg.of = p
    BY <1>1, <1>4, <2>4
  <2> QED
    BY <2>1, <2>2, <2>3, <2>4
<1>6. sent' = sent
  BY <1>1
<1> QED
  BY <1>2, <1>5, <1>6 DEF ReachedInv, Reached

LEMMA ReachedSendRequest ==
  ASSUME TypeOK, Lossless, ReachedInv,
         NEW q \in Requests, NEW apart \in way.apart, SendRequest(q, apart)
  PROVE  ReachedInv'
<1>1. apart \in BOOLEAN /\ (apart => ~ way.served)
  <2>1. apart \in BOOLEAN /\ way.served \in BOOLEAN
    BY ContextAssumption DEF TypeOK
  <2> QED
    BY <2>1 DEF Lossless
<1>2. PICK msgs \in {<<HeadOf(q)>>, <<HeadOf(q), BodyOf(q)>>} :
        /\ stream' = stream \o Record(msgs)
        /\ q \in Full \/ msgs = <<HeadOf(q)>>
  BY <1>1, SendRequestStep
<1>3. /\ stream = <<>> /\ due = None
      /\ sent' = Append(sent, q)
      /\ due' = IF q \in Full /\ apart THEN q ELSE None
      /\ stream' = stream \o Record(IF q \in Full /\ ~apart
                                      THEN <<HeadOf(q), BodyOf(q)>>
                                      ELSE <<HeadOf(q)>>)
      /\ UNCHANGED <<way, buf, header, handled, replies>>
  BY DEF SendRequest, Lossless, Orderly
<1>4. HeadOf(q) \in Messages /\ BodyOf(q) \in Messages /\ q # None
  BY Kinds
<1>5. /\ stream' # <<>> /\ stream'[1].msg = HeadOf(q)
      /\ stream'[1].first /\ stream'[Len(stream')].last
      /\ q \notin Full \/ apart => Len(stream') = 1
  <2>1. CASE q \in Full /\ ~ apart
    <3>1. stream' = <<>> \o Record(<<HeadOf(q), BodyOf(q)>>)
      BY <1>3, <2>1
    <3>2. /\ Len(stream') = 2 /\ stream' # <<>>
          /\ stream'[1].msg = HeadOf(q) /\ stream'[1].first
          /\ stream'[2].last
      BY <1>4, <3>1, RecordOfTwo
    <3> QED
      BY <2>1, <3>2
  <2>2. CASE ~ (q \in Full /\ ~ apart)
    <3>1. stream' = <<>> \o Record(<<HeadOf(q)>>)
      BY <1>3, <2>2
    <3>2. /\ Len(stream') = 1 /\ stream' # <<>>
          /\ stream'[1].msg = HeadOf(q) /\ stream'[1].first
          /\ stream'[1].last
      BY <1>4, <3>1, RecordOfOne
    <3> QED
      BY <2>2, <3>2
  <2> QED
    BY <2>1, <2>2
<1>6. HeadOf(q).part # "body" /\ HeadOf(q).of = q
  BY DEF HeadOf
<1>7. WholeRecord'
  BY <1>1, <1>3, <1>4, <1>5, <1>6 DEF WholeRecord
<1>8. \A p \in Range(sent') : p \in Range(sent) \/ p = q
  <2>1. sent \in Seq(Requests)
    BY DEF TypeOK
  <2>2. ASSUME NEW p \in Range(sent')
        PROVE  p \in Range(sent) \/ p = q
    <3>1. PICK i \in DOMAIN sent' : sent'[i] = p
      BY DEF Range
    <3>2. (i \in 1 .. Len(sent) /\ sent'[i] = sent[i]) \/ sent'[i] = q
      BY <1>3, <2>1, <3>1
    <3> QED
      BY <2>1, <3>1, <3>2 DEF Range
  <2> QED
    BY <2>2
<1>9. ASSUME NEW p \in Work \cap Range(sent')
      PROVE  Reached(p)'
  <2>1. CASE p = q
    BY <1>5, <1>6, <2>1 DEF Reached
  <2>2. CASE p # q
    <3>1. p \in Work \cap Range(sent) /\ p # None
      BY <1>8, <2>2, Kinds DEF Requests
    <3>2. HandledBy(handled, p)
      BY <1>3, <3>1 DEF ReachedInv, Reached
    <3> QED
      BY <1>3, <3>2 DEF Reached
  <2> QED
    BY <2>1, <2>2
<1> QED
  BY <1>7, <1>9 DEF ReachedInv

LEMMA ReachedSendBody ==
  ASSUME TypeOK, Lossless, ReachedInv, SendBody
  PROVE  ReachedInv'
<1>1. /\ due \in Requests /\ due # None /\ due' = None /\ stream = <<>>
      /\ header = due
      /\ stream' = <<>> \o Record(<<BodyOf(due)>>)
      /\ UNCHANGED <<way, sent, buf, header, handled, replies>>
  BY DEF SendBody, TypeOK, ReachedInv, WholeRecord, Lossless, Orderly
<1>2. BodyOf(due) \in Messages /\ BodyOf(due).of = due
  BY <1>1, Kinds DEF BodyOf
<1>3. /\ Len(stream') = 1 /\ stream' # <<>>
      /\ stream'[1].msg = BodyOf(due) /\ stream'[1].first /\ stream'[1].last
  BY <1>1, <1>2, RecordOfOne
<1>4. WholeRecord'
  BY <1>1, <1>2, <1>3 DEF WholeRecord
<1>5. ASSUME NEW p \in Work \cap Range(sent)
      PROVE  Reached(p)'
  BY <1>1, <1>2, <1>3 DEF ReachedInv, Reached
<1> QED
  BY <1>1, <1>4, <1>5 DEF ReachedInv

LEMMA ReachedInit == Init => AnswerInv /\ ReachedInv
<1> SUFFICES ASSUME Init
             PROVE  AnswerInv /\ ReachedInv
  OBVIOUS
<1>1. /\ sent = <<>> /\ replies = <<>> /\ stream = <<>> /\ due = None
  BY DEF Init
<1>2. Len(sent) = 0 /\ Len(replies) = 0 /\ Range(sent) = {}
  BY <1>1 DEF Range
<1>3. AnswerInv
  BY <1>2 DEF AnswerInv, NearlyAnswered, Answered
<1>4. ReachedInv
  BY <1>1, <1>2 DEF ReachedInv, WholeRecord
<1> QED
  BY <1>3, <1>4

LEMMA ReachedStep ==
  TypeOK /\ AsSentInv /\ ReachedInv /\ [Next]_vars => ReachedInv'
<1> SUFFICES ASSUME TypeOK, AsSentInv, ReachedInv, [Next]_vars
             PROVE  ReachedInv'
  OBVIOUS
<1>1. way' = way /\ (Lossless => WaitInv) /\ (Lossless' <=> Lossless)
  BY DEF Next, vars, SendRequest, SendBody, ReadSock, Lossless, Orderly,
         AsSentInv
<1>2. CASE ~ Lossless
  BY <1>1, <1>2 DEF ReachedInv
<1>3. CASE Lossless /\ UNCHANGED vars
  BY <1>3 DEF vars, ReachedInv, Reached, WholeRecord, Lossless, Orderly
<1>4. CASE Lossless /\ Next
  BY <1>1, <1>4, ReachedSendRequest, ReachedSendBody, ReachedReadSock DEF Next
<1> QED
  BY <1>2, <1>3, <1>4

LEMMA ReachedGivesHandledWhenRead == TypeOK /\ ReachedInv => HandledWhenRead
<1> SUFFICES ASSUME TypeOK, ReachedInv, Lossless, stream = <<>>,
                    NEW q \in Work \cap Complete
             PROVE  HandledBy(handled, q)
  BY DEF HandledWhenRead, HandledBy
<1>1. q \in Work \cap Range(sent) /\ q # due
  BY Kinds DEF Complete, Requests
<1> QED
  BY <1>1 DEF ReachedInv, Reached

=============================================================================
