---------------------------- MODULE SocketProofs ----------------------------
(***************************************************************************)
(* Proofs about Socket for any threads, messages and lengths: messages of  *)
(* different threads are not mixed, and one that try_send reports as sent  *)
(* is on the wire as a whole.                                              *)
(***************************************************************************)
EXTENDS Socket, SequenceTheorems, TLAPS

(* A thread is in the loop exactly while it holds send_mux.                *)
MutexInv == \A t \in Threads : pc[t] = "send" <=> send_mux = t

(* What the holder has sent so far is the end of the stream.               *)
Ends(s, m, k) ==
  /\ k <= Len(s)
  /\ \A i \in 1 .. k : s[Len(s) - k + i] = [of |-> m, n |-> i]

TailInv ==
  \A t \in Threads :
    /\ pc[t] = "lock" => total[t] = 0
    /\ pc[t] = "send" => Ends(stream, data[t], total[t])

(* The reported messages, byte by byte.                                    *)
WholeAt(s, m, p) ==
  \A i \in 1 .. Length[m] : s[p + i] = [of |-> m, n |-> i]

WholeInv ==
  \A m \in Messages : outcome[m] = "true" =>
    \E p \in 0 .. Len(stream) - Length[m] : WholeAt(stream, m, p)

IndInv == TypeOK /\ MutexInv /\ TailInv /\ NotInterleaved /\ WholeInv

LEMMA BytesProperties ==
  ASSUME NEW m \in Messages, NEW k \in Nat, NEW n \in Nat
  PROVE  /\ Bytes(m, k, n) \in Seq(Byte)
         /\ Len(Bytes(m, k, n)) = n
         /\ \A i \in 1 .. n : Bytes(m, k, n)[i] = [of |-> m, n |-> k + i]
<1>1. \A i \in 1 .. n : [of |-> m, n |-> k + i] \in Byte
  BY DEF Byte
<1> QED
  BY <1>1 DEF Bytes

LEMMA IndInvInit == Init => IndInv
<1> SUFFICES ASSUME Init PROVE IndInv
  OBVIOUS
<1> USE SocketAssumption DEF Init
<1>1. TypeOK
  <2>1. <<>> \in Seq(Byte) /\ 0 \in 0 .. Room
    OBVIOUS
  <2> QED
    BY <2>1 DEF TypeOK
<1>2. MutexInv /\ TailInv /\ WholeInv
  BY DEF MutexInv, TailInv, WholeInv
<1>3. NotInterleaved
  BY DEF NotInterleaved
<1> QED
  BY <1>1, <1>2, <1>3 DEF IndInv

(* A round of the loop: the stream grows at its end, by the next bytes of  *)
(* the holder's message.                                                   *)
LEMMA SendSomeStep ==
  ASSUME IndInv, NEW t \in Threads, SendSome(t)
  PROVE  IndInv'
<1> DEFINE m == data[t]
<1> DEFINE k == total[t]
<1>0. TypeOK /\ MutexInv /\ TailInv /\ NotInterleaved /\ WholeInv
  BY DEF IndInv
<1> USE SocketAssumption
<1>1. PICK n \in 1 .. Length[m] - k :
        /\ unread + n <= Room
        /\ unread' = unread + n
        /\ stream' = stream \o Bytes(m, k, n)
        /\ total' = [total EXCEPT ![t] = @ + n]
        /\ IF k + n = Length[m]
             THEN Return(t, "true")
             ELSE UNCHANGED <<pc, data, send_mux, outcome>>
  BY DEF SendSome, Take
<1>2. /\ pc[t] = "send" /\ m \in Messages /\ k \in Nat /\ k < Length[m]
      /\ Length[m] \in Nat /\ n \in Nat /\ n >= 1 /\ k + n <= Length[m]
      /\ stream \in Seq(Byte) /\ Len(stream) \in Nat
      /\ UNCHANGED <<fd, closed, killed>>
  BY <1>0, <1>1 DEF TypeOK, SendSome, Take
<1>3. /\ stream' \in Seq(Byte)
      /\ Len(stream') = Len(stream) + n
      /\ \A i \in 1 .. Len(stream) : stream'[i] = stream[i]
      /\ \A i \in 1 .. n :
           stream'[Len(stream) + i] = [of |-> m, n |-> k + i]
  <2> DEFINE b == Bytes(m, k, n)
  <2>1. /\ b \in Seq(Byte) /\ Len(b) = n
        /\ \A i \in 1 .. n : b[i] = [of |-> m, n |-> k + i]
    BY <1>2, BytesProperties, ZenonT(40)
  <2>2. stream' = stream \o b
    BY <1>1
  <2> HIDE DEF b
  <2>3. /\ stream \o b \in Seq(Byte)
        /\ Len(stream \o b) = Len(stream) + Len(b)
        /\ \A i \in 1 .. Len(stream) + Len(b) :
             (stream \o b)[i] = IF i <= Len(stream) THEN stream[i]
                                                    ELSE b[i - Len(stream)]
    <3>1. stream \in Seq(Byte) /\ b \in Seq(Byte)
      BY <1>2, <2>1
    <3> QED
      BY <3>1, ConcatProperties, Zenon
  <2>4. ASSUME NEW i \in 1 .. n
        PROVE  stream'[Len(stream) + i] = [of |-> m, n |-> k + i]
    <3>1. /\ Len(stream) + i \in 1 .. Len(stream) + Len(b)
          /\ ~(Len(stream) + i <= Len(stream))
          /\ Len(stream) + i - Len(stream) = i
      BY <1>2, <2>1
    <3> QED
      BY <3>1, <2>1, <2>2, <2>3
  <2> QED
    BY <1>2, <2>1, <2>2, <2>3, <2>4
<1>4. Ends(stream, m, k)
  BY <1>0, <1>2 DEF TailInv
<1>5. Ends(stream', m, k + n)
  <2>1. ASSUME NEW i \in 1 .. k + n
        PROVE  stream'[Len(stream') - (k + n) + i] = [of |-> m, n |-> i]
    <3>1. CASE i <= k
      <4>1. Len(stream') - (k + n) + i = Len(stream) - k + i
        BY <1>2, <1>3
      <4>2. Len(stream) - k + i \in 1 .. Len(stream)
        BY <1>2, <1>4, <3>1 DEF Ends
      <4>3. stream[Len(stream) - k + i] = [of |-> m, n |-> i]
        BY <1>2, <1>4, <3>1 DEF Ends
      <4> QED
        BY <1>3, <4>1, <4>2, <4>3
    <3>2. CASE i > k
      <4>1. /\ Len(stream') - (k + n) + i = Len(stream) + (i - k)
            /\ i - k \in 1 .. n
            /\ k + (i - k) = i
        BY <1>2, <1>3, <3>2
      <4> QED
        BY <1>3, <4>1
    <3> QED
      BY <1>2, <3>1, <3>2
  <2>2. k + n <= Len(stream')
    BY <1>2, <1>3, <1>4 DEF Ends
  <2> QED
    BY <2>1, <2>2 DEF Ends
<1>6. NotInterleaved'
  <2> SUFFICES ASSUME NEW i \in 1 .. Len(stream') - 1
               PROVE  \/ stream'[i + 1].n = 1
                      \/ /\ stream'[i + 1].n = stream'[i].n + 1
                         /\ stream'[i + 1].of = stream'[i].of
    BY DEF NotInterleaved
  <2>1. CASE i + 1 <= Len(stream)
    <3>1. /\ i \in 1 .. Len(stream) - 1
          /\ i \in 1 .. Len(stream) /\ i + 1 \in 1 .. Len(stream)
      BY <1>2, <1>3, <2>1
    <3>2. stream'[i] = stream[i] /\ stream'[i + 1] = stream[i + 1]
      BY <1>3, <3>1
    <3>3. \/ stream[i + 1].n = 1
          \/ /\ stream[i + 1].n = stream[i].n + 1
             /\ stream[i + 1].of = stream[i].of
      BY <1>0, <3>1 DEF NotInterleaved
    <3> QED
      BY <3>2, <3>3
  <2>2. CASE i = Len(stream)
    <3>1. stream'[i + 1] = [of |-> m, n |-> k + 1]
      BY <1>2, <1>3, <2>2
    <3>2. CASE k = 0
      BY <1>2, <3>1, <3>2
    <3>3. CASE k > 0
      <4>1. stream[Len(stream)] = [of |-> m, n |-> k]
        <5>1. k \in 1 .. k /\ Len(stream) - k + k = Len(stream)
          BY <1>2, <3>3
        <5> QED
          BY <1>4, <5>1 DEF Ends
      <4>2. stream'[i] = [of |-> m, n |-> k]
        BY <1>2, <1>3, <2>2, <4>1
      <4> QED
        BY <3>1, <4>2
    <3> QED
      BY <1>2, <3>2, <3>3
  <2>3. CASE i > Len(stream)
    <3>1. /\ i - Len(stream) \in 1 .. n
          /\ i - Len(stream) + 1 \in 1 .. n
          /\ Len(stream) + (i - Len(stream)) = i
          /\ Len(stream) + (i - Len(stream) + 1) = i + 1
          /\ k + (i - Len(stream) + 1) = k + (i - Len(stream)) + 1
      <4> DEFINE l == Len(stream)
      <4>1. /\ l \in Nat /\ k \in Nat /\ n \in Nat
            /\ i \in 1 .. l + n - 1 /\ i > l
        BY <1>2, <1>3, <2>3
      <4> HIDE DEF l, k
      <4>2. /\ i - l \in 1 .. n
            /\ i - l + 1 \in 1 .. n
            /\ l + (i - l) = i
            /\ l + (i - l + 1) = i + 1
            /\ k + (i - l + 1) = k + (i - l) + 1
        BY <4>1
      <4> QED
        BY <4>2 DEF l
    <3>2. /\ stream'[i] = [of |-> m, n |-> k + (i - Len(stream))]
          /\ stream'[i + 1] = [of |-> m, n |-> k + (i - Len(stream) + 1)]
      BY <1>3, <3>1
    <3> QED
      BY <3>1, <3>2
  <2> QED
    BY <1>2, <1>3, <2>1, <2>2, <2>3
<1>7. TypeOK'
  <2>1. \A u \in Threads : pc'[u] # "idle" =>
          data'[u] \in Messages /\ total'[u] < Length[data'[u]]
    <3> SUFFICES ASSUME NEW u \in Threads, pc'[u] # "idle"
                 PROVE  data'[u] \in Messages /\ total'[u] < Length[data'[u]]
      OBVIOUS
    <3>1. data' = data /\ pc[u] # "idle"
      BY <1>0, <1>1, <1>2 DEF TypeOK, Return
    <3>2. CASE u = t
      <4>1. total'[u] = k + n /\ k + n # Length[m]
        BY <1>0, <1>1, <1>2, <3>2 DEF TypeOK, Return
      <4> QED
        BY <1>2, <3>1, <3>2, <4>1, SMTT(20)
    <3>3. CASE u # t
      BY <1>0, <1>1, <3>1, <3>3 DEF TypeOK
    <3> QED
      BY <3>2, <3>3
  <2>2. total' \in [Threads -> Nat] /\ unread' \in 0 .. Room
    BY <1>0, <1>1, <1>2 DEF TypeOK
  <2>3. /\ pc' \in [Threads -> {"idle", "lock", "send"}]
        /\ send_mux' \in Threads \cup {Nobody}
        /\ outcome' \in [Messages -> {"none", "some", "true", "false"}]
        /\ data' \in [Threads -> Messages \cup {Nobody}]
    BY <1>0, <1>1, <1>2 DEF TypeOK, Return
  <2> QED
    BY <1>0, <1>2, <1>3, <2>1, <2>2, <2>3 DEF TypeOK
<1>8. MutexInv'
  BY <1>0, <1>1, <1>2, ZenonT(40) DEF MutexInv, TypeOK, Return
<1>9. TailInv'
  <2> SUFFICES ASSUME NEW u \in Threads
               PROVE  /\ pc'[u] = "lock" => total'[u] = 0
                      /\ pc'[u] = "send" => Ends(stream', data'[u], total'[u])
    BY DEF TailInv
  <2>1. CASE u = t
    <3>1. total'[u] = k + n /\ pc'[u] # "lock"
      BY <1>0, <1>1, <1>2, <2>1 DEF TypeOK, Return
    <3>2. data'[u] = m
      BY <1>1, <2>1 DEF Return
    <3> QED
      BY <1>5, <3>1, <3>2, <2>1 DEF Ends
  <2>2. CASE u # t
    <3>1. total'[u] = total[u] /\ pc'[u] = pc[u] /\ pc[u] # "send"
      BY <1>0, <1>1, <1>2, <2>2 DEF TypeOK, MutexInv, Return
    <3> QED
      BY <1>0, <3>1 DEF TailInv
  <2> QED
    BY <2>1, <2>2
<1>10. WholeInv'
  <2> SUFFICES ASSUME NEW d \in Messages, outcome'[d] = "true"
               PROVE  \E p \in 0 .. Len(stream') - Length[d] :
                        WholeAt(stream', d, p)
    BY DEF WholeInv
  <2>0. Length[d] \in Nat
    OBVIOUS
  <2>1. CASE outcome[d] = "true"
    <3>1. PICK p \in 0 .. Len(stream) - Length[d] : WholeAt(stream, d, p)
      BY <1>0, <2>1 DEF WholeInv
    <3>2. p \in 0 .. Len(stream') - Length[d]
      BY <1>2, <1>3, <2>0
    <3>3. \A i \in 1 .. Length[d] : p + i \in 1 .. Len(stream)
      BY <1>2, <2>0
    <3>4. WholeAt(stream', d, p)
      BY <1>3, <3>1, <3>3 DEF WholeAt
    <3> QED
      BY <3>2, <3>4
  <2>2. CASE outcome[d] # "true"
    <3>1. d = m /\ k + n = Length[m]
      BY <1>0, <1>1, <1>2, <2>2 DEF TypeOK, Return
    <3>2. Len(stream') - Length[d] \in 0 .. Len(stream') - Length[d]
      BY <1>2, <1>3, <1>5, <2>0, <3>1 DEF Ends
    <3>3. WholeAt(stream', d, Len(stream') - Length[d])
      BY <1>5, <3>1 DEF Ends, WholeAt
    <3> QED
      BY <3>2, <3>3
  <2> QED
    BY <2>1, <2>2
<1> QED
  BY <1>6, <1>7, <1>8, <1>9, <1>10 DEF IndInv

(* Steps that leave the threads and the stream alone.                      *)
LEMMA QuietStep ==
  ASSUME IndInv, TypeOK', UNCHANGED <<threadVars, stream>>
  PROVE  IndInv'
<1> USE DEF threadVars
<1>1. MutexInv' /\ NotInterleaved'
  BY DEF IndInv, MutexInv, NotInterleaved
<1>2. TailInv'
  BY DEF IndInv, TailInv, Ends
<1>3. WholeInv'
  BY DEF IndInv, WholeInv, WholeAt
<1> QED
  BY <1>1, <1>2, <1>3 DEF IndInv

LEMMA IndInvStep == IndInv /\ [Next]_vars => IndInv'
<1> SUFFICES ASSUME IndInv, [Next]_vars
             PROVE  IndInv'
  OBVIOUS
<1>0. TypeOK /\ MutexInv /\ TailInv /\ NotInterleaved /\ WholeInv
  BY DEF IndInv
<1> USE SocketAssumption
<1>1. CASE PeerReads
  BY <1>0, <1>1, QuietStep DEF TypeOK, PeerReads, threadVars
<1>2. CASE PeerCloses \/ CloseFd
  BY <1>0, <1>2, QuietStep DEF TypeOK, PeerCloses, CloseFd, threadVars
<1>3. ASSUME NEW t \in Threads, NEW m \in Messages, CallSend(t, m)
      PROVE  IndInv'
  <2>1. TypeOK'
    <3>1. CASE fd = "none"
      BY <1>0, <1>3, <3>1 DEF TypeOK, CallSend
    <3>2. CASE fd # "none"
      <4>1. 0 < Length[m]
        OBVIOUS
      <4>2. /\ pc' = [pc EXCEPT ![t] = "lock"]
            /\ data' = [data EXCEPT ![t] = m]
            /\ total' = [total EXCEPT ![t] = 0]
            /\ outcome' = [outcome EXCEPT ![m] = "some"]
            /\ UNCHANGED <<fd, closed, killed, send_mux, stream, unread>>
        BY <1>3, <3>2 DEF CallSend
      <4>3. \A u \in Threads : pc'[u] # "idle" =>
              data'[u] \in Messages /\ total'[u] < Length[data'[u]]
        BY <1>0, <4>1, <4>2 DEF TypeOK
      <4> QED
        BY <1>0, <4>2, <4>3 DEF TypeOK
    <3> QED
      BY <3>1, <3>2
  <2>2. MutexInv' /\ NotInterleaved'
    BY <1>0, <1>3 DEF TypeOK, MutexInv, NotInterleaved, CallSend
  <2>3. TailInv'
    BY <1>0, <1>3 DEF TypeOK, TailInv, Ends, CallSend
  <2>4. \A d \in Messages : outcome'[d] = "true" => outcome[d] = "true"
    BY <1>0, <1>3 DEF TypeOK, CallSend
  <2>5. stream' = stream
    BY <1>3 DEF CallSend
  <2>6. WholeInv'
    BY <1>0, <2>4, <2>5 DEF WholeInv, WholeAt
  <2> QED
    BY <2>1, <2>2, <2>3, <2>6 DEF IndInv
<1>4. ASSUME NEW t \in Threads, Lock(t)
      PROVE  IndInv'
  <2>1. TypeOK'
    BY <1>0, <1>4 DEF TypeOK, Lock
  <2>2. MutexInv' /\ NotInterleaved'
    BY <1>0, <1>4 DEF TypeOK, MutexInv, NotInterleaved, Lock
  <2>3. TailInv'
    BY <1>0, <1>4 DEF TypeOK, TailInv, Ends, Lock
  <2>4. WholeInv'
    BY <1>0, <1>4 DEF WholeInv, WholeAt, Lock
  <2> QED
    BY <2>1, <2>2, <2>3, <2>4 DEF IndInv
<1>5. ASSUME NEW t \in Threads, SendFails(t)
      PROVE  IndInv'
  <2>1. TypeOK'
    BY <1>0, <1>5 DEF TypeOK, SendFails, Return
  <2>2. MutexInv' /\ NotInterleaved'
    BY <1>0, <1>5 DEF TypeOK, MutexInv, NotInterleaved, SendFails, Return
  <2>3. TailInv'
    BY <1>0, <1>5 DEF TypeOK, TailInv, Ends, SendFails, Return
  <2>4. \A d \in Messages : outcome'[d] = "true" => outcome[d] = "true"
    BY <1>0, <1>5 DEF TypeOK, SendFails, Return
  <2>5. stream' = stream
    BY <1>5 DEF SendFails
  <2>6. WholeInv'
    BY <1>0, <2>4, <2>5 DEF WholeInv, WholeAt
  <2> QED
    BY <2>1, <2>2, <2>3, <2>6 DEF IndInv
<1>6. ASSUME NEW t \in Threads, BrokenPipe(t)
      PROVE  IndInv'
  BY <1>0, <1>6, QuietStep DEF TypeOK, BrokenPipe, threadVars
<1>7. CASE UNCHANGED vars
  BY <1>0, <1>7, QuietStep DEF TypeOK, vars, threadVars
<1> QED
  BY <1>1, <1>2, <1>3, <1>4, <1>5, <1>6, <1>7, SendSomeStep DEF Next

LEMMA IndInvHolds == Spec => []IndInv
BY IndInvInit, IndInvStep, PTL DEF Spec

LEMMA WholeIsSubSeq == TypeOK /\ WholeInv => SentIsWhole
<1> SUFFICES ASSUME TypeOK, WholeInv, NEW m \in Messages, outcome[m] = "true"
             PROVE  \E p \in 0 .. Len(stream) - Length[m] :
                      SubSeq(stream, p + 1, p + Length[m])
                        = Bytes(m, 0, Length[m])
  BY DEF SentIsWhole
<1>1. PICK p \in 0 .. Len(stream) - Length[m] : WholeAt(stream, m, p)
  BY DEF WholeInv
<1> DEFINE s == SubSeq(stream, p + 1, p + Length[m])
<1>2. stream \in Seq(Byte) /\ Length[m] \in Nat
  BY SocketAssumption DEF TypeOK
<1>3. \A i \in p + 1 .. p + Length[m] : stream[i] \in Byte
  BY <1>2
<1>4. /\ s \in Seq(Byte)
      /\ Len(s) = Length[m]
      /\ \A i \in 1 .. Length[m] : s[i] = [of |-> m, n |-> i]
  <2> DEFINE first == p + 1
  <2> DEFINE last == p + Length[m]
  <2>1. /\ first \in Int /\ last \in Int /\ first <= last
        /\ last - first + 1 = Length[m]
        /\ \A i \in 1 .. Length[m] : first + i - 1 = p + i
        /\ \A i \in first .. last : stream[i] \in Byte
    BY <1>2, <1>3, SocketAssumption
  <2>2. s = SubSeq(stream, first, last)
    OBVIOUS
  <2> HIDE DEF first, last, s
  <2>3. /\ s \in Seq(Byte)
        /\ Len(s) = last - first + 1
        /\ \A i \in 1 .. last - first + 1 : s[i] = stream[first + i - 1]
    BY <2>1, <2>2, SubSeqProperties
  <2> QED
    BY <1>1, <2>1, <2>3 DEF WholeAt
<1>5. /\ Bytes(m, 0, Length[m]) \in Seq(Byte)
      /\ Len(Bytes(m, 0, Length[m])) = Length[m]
      /\ \A i \in 1 .. Length[m] :
           Bytes(m, 0, Length[m])[i] = [of |-> m, n |-> i]
  <2>1. \A i \in 1 .. Length[m] : 0 + i = i
    BY <1>2
  <2>2. /\ Bytes(m, 0, Length[m]) \in Seq(Byte)
        /\ Len(Bytes(m, 0, Length[m])) = Length[m]
        /\ \A i \in 1 .. Length[m] :
             Bytes(m, 0, Length[m])[i] = [of |-> m, n |-> 0 + i]
    BY <1>2, BytesProperties, Zenon
  <2> QED
    BY <2>1, <2>2
<1>6. s = Bytes(m, 0, Length[m])
  <2> DEFINE b == Bytes(m, 0, Length[m])
  <2>1. /\ b \in Seq(Byte) /\ Len(b) = Len(s)
        /\ \A i \in 1 .. Len(s) : s[i] = b[i]
    BY <1>4, <1>5
  <2>2. s \in Seq(Byte)
    BY <1>4
  <2> HIDE DEF s, b
  <2>3. s = b
    BY <2>1, <2>2, SeqEqual
  <2> QED
    BY <2>3 DEF b
<1> QED
  BY <1>6

(* The variables of try_send keep their types, and the loop never asks     *)
(* send() for more bytes than the message has left.                        *)
THEOREM TypeCorrect == Spec => []TypeOK
BY IndInvHolds, PTL DEF IndInv

(* However many threads call try_send, and however little send() takes at  *)
(* a time, the bytes of their messages are not mixed.                      *)
THEOREM NotInterleavedHolds == Spec => []NotInterleaved
BY IndInvHolds, PTL DEF IndInv

(* Whatever the peer does, the threads in try_send do not all wait: the    *)
(* one that has the mutex is in the loop, and each round of it ends.       *)
THEOREM NoSendIsStuckHolds == Spec => []NoSendIsStuck
<1>1. TypeOK /\ MutexInv => NoSendIsStuck
  <2> SUFFICES ASSUME TypeOK, MutexInv, NEW t \in Threads, pc[t] # "idle"
               PROVE  \E u \in Threads : CanGoOn(u)
    BY DEF NoSendIsStuck
  <2>1. CASE send_mux = Nobody
    <3>1. pc[t] = "lock"
      BY <2>1, SocketAssumption DEF TypeOK, MutexInv
    <3> QED
      BY <2>1, <3>1 DEF CanGoOn
  <2>2. CASE send_mux # Nobody
    <3>1. send_mux \in Threads /\ pc[send_mux] = "send"
      BY <2>2 DEF TypeOK, MutexInv
    <3>2. total[send_mux] < Length[data[send_mux]]
      BY <3>1 DEF TypeOK
    <3>3. unread = Room \/ unread < Room
      BY SocketAssumption DEF TypeOK
    <3> QED
      BY <3>1, <3>2, <3>3 DEF CanGoOn
  <2> QED
    BY <2>1, <2>2
<1> QED
  BY <1>1, IndInvHolds, PTL DEF IndInv

(* When try_send returns true the message is on the wire as a whole.       *)
THEOREM SentIsWholeHolds == Spec => []SentIsWhole
<1>1. IndInv => SentIsWhole
  BY WholeIsSubSeq DEF IndInv
<1> QED
  BY <1>1, IndInvHolds, PTL


-----------------------------------------------------------------------------
(***************************************************************************)
(* The refinement of MessageWire.                                          *)
(***************************************************************************)

LEMMA BeginningProperties ==
  ASSUME NEW m \in Messages, NEW n \in Nat
  PROVE  /\ Abstract!Beginning(m, n) \in Seq(Byte)
         /\ Len(Abstract!Beginning(m, n)) = n
         /\ \A i \in 1 .. n :
              Abstract!Beginning(m, n)[i] = [of |-> m, n |-> i]
<1>1. \A i \in 1 .. n : [of |-> m, n |-> i] \in Byte
  BY DEF Byte
<1> QED
  BY <1>1 DEF Abstract!Beginning

LEMMA FrontProperties ==
  ASSUME NEW s \in Seq(Byte), NEW k \in 0 .. Len(s)
  PROVE  LET p == SubSeq(s, 1, k)
         IN  /\ p \in Seq(Byte) /\ Len(p) = k
             /\ \A i \in 1 .. k : p[i] = s[i]
<1>1. \A i \in 1 .. k : s[i] \in Byte
  OBVIOUS
<1>2. CASE k = 0
  BY <1>2
<1>3. CASE k # 0
  <2>1. 1 <= k /\ k - 1 + 1 = k /\ \A i \in 1 .. k : 1 + i - 1 = i
    BY <1>3
  <2>2. /\ SubSeq(s, 1, k) \in Seq(Byte)
        /\ Len(SubSeq(s, 1, k)) = k - 1 + 1
        /\ \A i \in 1 .. k - 1 + 1 : SubSeq(s, 1, k)[i] = s[1 + i - 1]
    BY <1>1, <2>1, SubSeqProperties
  <2> QED
    BY <2>1, <2>2
<1> QED
  BY <1>2, <1>3

(* A stream that ends with a beginning of m is cut in front of it.         *)
LEMMA SplitEnd ==
  ASSUME NEW s \in Seq(Byte), NEW m \in Messages, NEW k \in Nat, Ends(s, m, k)
  PROVE  s = SubSeq(s, 1, Len(s) - k) \o Abstract!Beginning(m, k)
<1> DEFINE l == Len(s) - k
           p == SubSeq(s, 1, l)
           b == Abstract!Beginning(m, k)
<1>1. l \in 0 .. Len(s) /\ l + k = Len(s) /\ l \in Nat
  BY DEF Ends
<1>2. \A i \in 1 .. k : s[l + i] = [of |-> m, n |-> i]
  BY DEF Ends
<1> HIDE DEF l
<1>3. p \in Seq(Byte) /\ Len(p) = l /\ \A i \in 1 .. l : p[i] = s[i]
  BY <1>1, FrontProperties
<1>4. /\ b \in Seq(Byte) /\ Len(b) = k
      /\ \A i \in 1 .. k : b[i] = [of |-> m, n |-> i]
  BY BeginningProperties
<1> HIDE DEF p, b
<1>5. /\ p \o b \in Seq(Byte)
      /\ Len(p \o b) = l + k
      /\ \A i \in 1 .. l + k :
           (p \o b)[i] = IF i <= l THEN p[i] ELSE b[i - l]
  <2>1. p \in Seq(Byte) /\ b \in Seq(Byte) /\ Len(p) = l /\ Len(b) = k
    BY <1>3, <1>4
  <2>2. /\ p \o b \in Seq(Byte)
        /\ Len(p \o b) = Len(p) + Len(b)
        /\ \A i \in 1 .. Len(p) + Len(b) :
             (p \o b)[i] = IF i <= Len(p) THEN p[i] ELSE b[i - Len(p)]
    BY <2>1, ConcatProperties, Zenon
  <2> QED
    BY <2>1, <2>2, Zenon
<1>6. ASSUME NEW i \in 1 .. l + k
      PROVE  s[i] = (p \o b)[i]
  <2>1. CASE i <= l
    BY <1>1, <1>3, <1>5, <2>1
  <2>2. CASE ~(i <= l)
    <3>1. i - l \in 1 .. k /\ l + (i - l) = i
      BY <1>1, <2>2
    <3> QED
      BY <1>2, <1>4, <1>5, <2>2, <3>1
  <2> QED
    BY <2>1, <2>2
<1>7. s = p \o b
  BY <1>1, <1>5, <1>6, SeqEqual
<1> QED
  BY <1>7 DEF p, b, l

(* The stream after a round of the loop: cut at the same place.            *)
LEMMA SameFront ==
  ASSUME NEW s \in Seq(Byte), NEW z \in Seq(Byte), NEW k \in Nat, NEW n \in Nat,
         k <= Len(s), Len(z) = Len(s) + n,
         \A i \in 1 .. Len(s) : z[i] = s[i]
  PROVE  SubSeq(z, 1, Len(z) - (k + n)) = SubSeq(s, 1, Len(s) - k)
<1> DEFINE l == Len(s) - k
           p == SubSeq(s, 1, l)
           q == SubSeq(z, 1, l)
<1>1. /\ l \in 0 .. Len(s) /\ l \in 0 .. Len(z) /\ Len(z) - (k + n) = l
      /\ l \in Nat
  OBVIOUS
<1>2. \A i \in 1 .. l : z[i] = s[i]
  BY <1>1
<1> HIDE DEF l
<1>3. p \in Seq(Byte) /\ Len(p) = l /\ \A i \in 1 .. l : p[i] = s[i]
  BY <1>1, FrontProperties
<1>4. q \in Seq(Byte) /\ Len(q) = l /\ \A i \in 1 .. l : q[i] = z[i]
  BY <1>1, FrontProperties
<1> HIDE DEF p, q
<1>5. q = p
  BY <1>1, <1>2, <1>3, <1>4, SeqEqual
<1> QED
  BY <1>1, <1>5 DEF p, q, l

(* The message of each call that runs is marked so, and is its own.        *)
CallInv ==
  /\ \A t \in Threads : pc[t] # "idle" => outcome[data[t]] = "some"
  /\ \A t, u \in Threads :
       pc[t] # "idle" /\ pc[u] # "idle" /\ data[t] = data[u] => t = u

LEMMA CallInvStep == IndInv /\ CallInv /\ [Next]_vars => CallInv'
<1> SUFFICES ASSUME TypeOK, CallInv, [Next]_vars
             PROVE  CallInv'
  BY DEF IndInv
<1>1. ASSUME UNCHANGED <<pc, data, outcome>>
      PROVE  CallInv'
  BY <1>1 DEF CallInv
<1>2. ASSUME NEW t \in Threads, NEW answer \in {"true", "false"},
             pc[t] = "send", Return(t, answer)
      PROVE  CallInv'
  <2>1. /\ pc' = [pc EXCEPT ![t] = "idle"] /\ data' = data
        /\ outcome' = [outcome EXCEPT ![data[t]] = answer]
    BY <1>2 DEF Return
  <2>2. \A u \in Threads : pc'[u] # "idle" =>
          pc[u] # "idle" /\ u # t /\ data[u] \in Messages
    BY <2>1 DEF TypeOK
  <2>3. \A u \in Threads : pc'[u] # "idle" => data[u] # data[t]
    BY <1>2, <2>2 DEF CallInv
  <2> QED
    BY <2>1, <2>2, <2>3 DEF CallInv, TypeOK
<1>3. CASE PeerReads \/ PeerCloses \/ CloseFd \/ UNCHANGED vars
  BY <1>1, <1>3 DEF PeerReads, PeerCloses, CloseFd, vars, threadVars
<1>4. ASSUME NEW t \in Threads, NEW m \in Messages, CallSend(t, m)
      PROVE  CallInv'
  <2>1. pc[t] = "idle" /\ outcome[m] = "none"
    BY <1>4 DEF CallSend
  <2>2. \A u \in Threads : pc[u] # "idle" => data[u] # m
    BY <2>1 DEF CallInv
  <2>3. CASE fd = "none"
    <3>1. /\ UNCHANGED <<pc, data>>
          /\ outcome' = [outcome EXCEPT ![m] = "false"]
      BY <1>4, <2>3 DEF CallSend
    <3> QED
      BY <2>2, <3>1 DEF CallInv, TypeOK
  <2>4. CASE fd # "none"
    <3>1. /\ pc' = [pc EXCEPT ![t] = "lock"]
          /\ data' = [data EXCEPT ![t] = m]
          /\ outcome' = [outcome EXCEPT ![m] = "some"]
      BY <1>4, <2>4 DEF CallSend
    <3>2. /\ pc'[t] = "lock" /\ data'[t] = m /\ outcome'[m] = "some"
          /\ \A u \in Threads : u # t => pc'[u] = pc[u] /\ data'[u] = data[u]
          /\ \A d \in Messages : d # m => outcome'[d] = outcome[d]
      BY <3>1 DEF TypeOK
    <3>3. \A u \in Threads : u # t /\ pc'[u] # "idle" =>
            data'[u] \in Messages /\ data'[u] # m
      BY <2>2, <3>2 DEF TypeOK
    <3> QED
      BY <3>2, <3>3 DEF CallInv
  <2> QED
    BY <2>3, <2>4
<1>5. ASSUME NEW t \in Threads, Lock(t)
      PROVE  CallInv'
  <2>1. /\ pc[t] = "lock" /\ pc' = [pc EXCEPT ![t] = "send"]
        /\ UNCHANGED <<data, outcome>>
    BY <1>5 DEF Lock
  <2>2. \A u \in Threads : pc'[u] # "idle" => pc[u] # "idle"
    BY <2>1 DEF TypeOK
  <2> QED
    BY <2>1, <2>2 DEF CallInv
<1>6. ASSUME NEW t \in Threads, SendSome(t)
      PROVE  CallInv'
  <2>1. \/ Return(t, "true") \/ UNCHANGED <<pc, data, outcome>>
    BY <1>6 DEF SendSome, Take
  <2> QED
    BY <1>1, <1>2, <1>6, <2>1 DEF SendSome, Take
<1>7. ASSUME NEW t \in Threads, SendFails(t) \/ BrokenPipe(t)
      PROVE  CallInv'
  BY <1>1, <1>2, <1>7 DEF SendFails, BrokenPipe, threadVars
<1> QED
  BY <1>3, <1>4, <1>5, <1>6, <1>7 DEF Next

(* What the thread in the loop has sent is the end of the stream.          *)
LEMMA HolderSent ==
  ASSUME IndInv, NEW t \in Threads, pc[t] = "send"
  PROVE  /\ Settled = SubSeq(stream, 1, Len(stream) - total[t])
         /\ stream = Settled \o Abstract!Beginning(data[t], total[t])
         /\ total[t] \in Nat /\ total[t] <= Len(stream)
<1>1. send_mux = t /\ t # Nobody
  BY SocketAssumption DEF IndInv, MutexInv
<1>2. /\ Ends(stream, data[t], total[t])
      /\ stream \in Seq(Byte) /\ data[t] \in Messages /\ total[t] \in Nat
  BY DEF IndInv, TailInv, TypeOK
<1>3. Settled = SubSeq(stream, 1, Len(stream) - total[t])
  BY <1>1 DEF Settled
<1> QED
  BY <1>2, <1>3, SplitEnd DEF Ends

(* A round of the loop changes nothing that is settled, unless it is the   *)
(* last one.                                                               *)
LEMMA SendSomeRefines ==
  ASSUME IndInv, CallInv, IndInv', NEW t \in Threads, SendSome(t)
  PROVE  Abstract!Return(data[t]) \/ UNCHANGED Abstract!vars
<1> DEFINE m == data[t]
           k == total[t]
<1>1. PICK n \in 1 .. Length[m] - k :
        /\ stream' = stream \o Bytes(m, k, n)
        /\ total' = [total EXCEPT ![t] = @ + n]
        /\ IF k + n = Length[m]
             THEN Return(t, "true")
             ELSE UNCHANGED <<pc, data, send_mux, outcome>>
  BY DEF SendSome, Take
<1>2. /\ pc[t] = "send" /\ m \in Messages /\ k \in Nat /\ Length[m] \in Nat
      /\ n \in Nat /\ stream \in Seq(Byte) /\ stream' \in Seq(Byte)
      /\ outcome[m] = "some" /\ t # Nobody /\ total'[t] = k + n
  BY <1>1, SocketAssumption DEF IndInv, TypeOK, CallInv, SendSome, Take
<1>3. /\ Settled = SubSeq(stream, 1, Len(stream) - k)
      /\ k <= Len(stream)
      /\ Ends(stream, m, k)
  BY <1>2, HolderSent DEF IndInv, TailInv
<1>4. /\ Len(stream') = Len(stream) + n
      /\ \A i \in 1 .. Len(stream) : stream'[i] = stream[i]
      /\ \A i \in 1 .. n :
           stream'[Len(stream) + i] = [of |-> m, n |-> k + i]
  <2> DEFINE b == Bytes(m, k, n)
  <2>1. /\ b \in Seq(Byte) /\ Len(b) = n
        /\ \A i \in 1 .. n : b[i] = [of |-> m, n |-> k + i]
    BY <1>2, BytesProperties, ZenonT(40)
  <2> HIDE DEF b
  <2>2. /\ Len(stream \o b) = Len(stream) + n
        /\ \A i \in 1 .. Len(stream) + n :
             (stream \o b)[i] = IF i <= Len(stream) THEN stream[i]
                                                    ELSE b[i - Len(stream)]
    BY <1>2, <2>1, ConcatProperties
  <2>3. stream' = stream \o b /\ Len(stream) \in Nat
    BY <1>1, <1>2 DEF b
  <2>4. ASSUME NEW i \in 1 .. n
        PROVE  stream'[Len(stream) + i] = [of |-> m, n |-> k + i]
    <3>1. /\ Len(stream) + i \in 1 .. Len(stream) + n
          /\ ~(Len(stream) + i <= Len(stream))
          /\ Len(stream) + i - Len(stream) = i
      BY <1>2, <2>3
    <3> QED
      BY <2>1, <2>2, <2>3, <3>1
  <2> QED
    BY <1>2, <2>2, <2>3, <2>4
<1>5. SubSeq(stream', 1, Len(stream') - (k + n)) = Settled
  <2>1. PICK s \in Seq(Byte), z \in Seq(Byte) : s = stream /\ z = stream'
    BY <1>2
  <2> QED
    BY <1>2, <1>3, <1>4, <2>1, SameFront
<1>6. CASE k + n # Length[m]
  <2>1. UNCHANGED <<pc, data, send_mux, outcome>> /\ send_mux' = t
    BY <1>1, <1>2, <1>6 DEF IndInv, MutexInv
  <2>2. Settled' = SubSeq(stream', 1, Len(stream') - (k + n))
    BY <1>2, <2>1 DEF Settled
  <2> QED
    BY <1>5, <2>1, <2>2 DEF Abstract!vars
<1>7. CASE k + n = Length[m]
  <2>1. /\ send_mux' = Nobody
        /\ outcome' = [outcome EXCEPT ![m] = "true"]
    BY <1>1, <1>7 DEF Return
  <2>2. Ends(stream', m, k + n)
    <3>1. ASSUME NEW i \in 1 .. k + n
          PROVE  stream'[Len(stream') - (k + n) + i] = [of |-> m, n |-> i]
      <4>1. CASE i <= k
        <5>1. /\ i \in 1 .. k
              /\ Len(stream') - (k + n) + i = Len(stream) - k + i
              /\ Len(stream) - k + i \in 1 .. Len(stream)
          BY <1>2, <1>3, <1>4, <4>1
        <5>2. stream[Len(stream) - k + i] = [of |-> m, n |-> i]
          BY <1>3, <5>1 DEF Ends
        <5> QED
          BY <1>4, <5>1, <5>2
      <4>2. CASE i > k
        <5>1. /\ Len(stream') - (k + n) + i = Len(stream) + (i - k)
              /\ i - k \in 1 .. n
              /\ k + (i - k) = i
          BY <1>2, <1>4, <4>2
        <5> QED
          BY <1>4, <5>1
      <4> QED
        BY <1>2, <4>1, <4>2
    <3>2. k + n <= Len(stream')
      BY <1>2, <1>3, <1>4
    <3> QED
      BY <3>1, <3>2 DEF Ends
  <2>3. stream' = Settled \o Abstract!Beginning(m, Length[m])
    <3>1. PICK z \in Seq(Byte), j \in Nat : z = stream' /\ j = k + n
      BY <1>2
    <3>2. z = SubSeq(z, 1, Len(z) - j) \o Abstract!Beginning(m, j)
      BY <1>2, <2>2, <3>1, SplitEnd
    <3> QED
      BY <1>5, <1>7, <3>1, <3>2
  <2>4. Settled' = stream'
    BY <2>1 DEF Settled
  <2>5. Length[m] \in 0 .. Length[m]
    BY <1>2
  <2> QED
    BY <1>2, <2>1, <2>3, <2>4, <2>5 DEF Abstract!Return
<1> QED
  BY <1>6, <1>7

LEMMA StepRefines ==
  IndInv /\ CallInv /\ IndInv' /\ [Next]_vars
    => [Abstract!Next]_(Abstract!vars)
<1> SUFFICES ASSUME IndInv, CallInv, IndInv', [Next]_vars
             PROVE  Abstract!Next \/ UNCHANGED Abstract!vars
  BY DEF Abstract!vars
<1>0. TypeOK /\ MutexInv /\ TailInv
  BY DEF IndInv
<1>1. CASE PeerReads \/ PeerCloses \/ CloseFd \/ UNCHANGED vars
  BY <1>1 DEF PeerReads, PeerCloses, CloseFd, vars, threadVars, Settled,
              Abstract!vars
<1>2. ASSUME NEW t \in Threads, NEW m \in Messages, CallSend(t, m)
      PROVE  Abstract!Refuse(m) \/ Abstract!Call(m)
  <2>1. /\ outcome[m] = "none" /\ UNCHANGED <<stream, send_mux>>
        /\ \A u \in Threads : u # t => total'[u] = total[u]
        /\ send_mux # t
    BY <1>0, <1>2 DEF CallSend, MutexInv, TypeOK
  <2>2. Settled' = Settled
    BY <1>0, <2>1 DEF Settled, TypeOK
  <2>3. \/ outcome' = [outcome EXCEPT ![m] = "false"]
        \/ outcome' = [outcome EXCEPT ![m] = "some"]
    BY <1>2 DEF CallSend
  <2> QED
    BY <2>1, <2>2, <2>3 DEF Abstract!Refuse, Abstract!Call
<1>3. ASSUME NEW t \in Threads, Lock(t)
      PROVE  UNCHANGED Abstract!vars
  <2>1. /\ total[t] = 0 /\ total' = total /\ send_mux = Nobody /\ send_mux' = t
        /\ UNCHANGED <<stream, outcome>> /\ t # Nobody
        /\ stream \in Seq(Byte)
    BY <1>0, <1>3, SocketAssumption DEF Lock, TailInv, TypeOK
  <2>2. Settled = stream
    BY <2>1 DEF Settled
  <2>3. Settled' = SubSeq(stream, 1, Len(stream))
    <3>1. Len(stream) - 0 = Len(stream)
      BY <2>1
    <3> QED
      BY <2>1, <3>1 DEF Settled
  <2>4. SubSeq(stream, 1, Len(stream)) = stream
    <3> DEFINE p == SubSeq(stream, 1, Len(stream))
    <3>1. /\ p \in Seq(Byte) /\ Len(p) = Len(stream)
          /\ \A i \in 1 .. Len(stream) : p[i] = stream[i]
      <4>1. Len(stream) \in 0 .. Len(stream)
        BY <2>1
      <4> QED
        BY <2>1, <4>1, FrontProperties
    <3> HIDE DEF p
    <3>2. p = stream
      BY <2>1, <3>1, SeqEqual
    <3> QED
      BY <3>2 DEF p
  <2> QED
    BY <2>1, <2>2, <2>3, <2>4 DEF Abstract!vars
<1>4. ASSUME NEW t \in Threads, SendFails(t)
      PROVE  Abstract!Return(data[t])
  <2> DEFINE m == data[t]
             k == total[t]
  <2>1. /\ pc[t] = "send" /\ stream' = stream /\ send_mux' = Nobody
        /\ outcome' = [outcome EXCEPT ![m] = "false"]
        /\ m \in Messages /\ k \in Nat /\ k < Length[m] /\ outcome[m] = "some"
        /\ Length[m] \in Nat
    BY <1>0, <1>4, SocketAssumption DEF SendFails, Return, TypeOK, CallInv
  <2>2. stream = Settled \o Abstract!Beginning(m, k)
    BY <2>1, HolderSent
  <2>3. Settled' = stream /\ k \in 0 .. Length[m] /\ k # Length[m]
    BY <2>1 DEF Settled
  <2> QED
    BY <2>1, <2>2, <2>3 DEF Abstract!Return
<1>5. ASSUME NEW t \in Threads, SendSome(t)
      PROVE  Abstract!Next \/ UNCHANGED Abstract!vars
  <2>1. data[t] \in Messages
    BY <1>0, <1>5 DEF SendSome, Take, TypeOK
  <2> QED
    BY <1>5, <2>1, SendSomeRefines DEF Abstract!Next
<1>6. ASSUME NEW t \in Threads, BrokenPipe(t)
      PROVE  UNCHANGED Abstract!vars
  BY <1>6 DEF BrokenPipe, threadVars, Settled, Abstract!vars
<1>7. ASSUME NEW t \in Threads, SendFails(t)
      PROVE  Abstract!Next
  <2>1. data[t] \in Messages
    BY <1>0, <1>7 DEF SendFails, TypeOK
  <2> QED
    BY <1>4, <1>7, <2>1 DEF Abstract!Next
<1> QED
  BY <1>1, <1>2, <1>3, <1>5, <1>6, <1>7 DEF Next, Abstract!Next

(* Concurrent calls of try_send are as good as atomic: the lock, the loop  *)
(* and the room in the kernel, however little it is, implement a wire on   *)
(* which each call puts one beginning of its message, and all of it when   *)
(* it returns true.                                                        *)
THEOREM SocketImplementsMessageWire == Spec => ImplementsMessageWire
<1>1. Init => Abstract!Init /\ CallInv
  BY DEF Init, Abstract!Init, Settled, CallInv
<1>2. IndInv /\ CallInv /\ IndInv' /\ [Next]_vars
        => [Abstract!Next]_(Abstract!vars)
  BY StepRefines
<1>3. IndInv /\ CallInv /\ [Next]_vars => CallInv'
  BY CallInvStep
<1> QED
  BY <1>1, <1>2, <1>3, IndInvHolds, PTL
     DEF Spec, ImplementsMessageWire, Abstract!Spec

=============================================================================
