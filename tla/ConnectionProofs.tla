-------------------------- MODULE ConnectionProofs --------------------------
(***************************************************************************)
(* Proofs about Connection for any number of pieces and attempts, any      *)
(* requests and any ways: what the handshake leaves both sides with, that  *)
(* requests meet a host that has their key, and what becomes of them.      *)
(***************************************************************************)
EXTENDS Connection, ContextProofs

LEMMA Sizes == Pieces \in Nat /\ Pieces > 1 /\ MaxInits \in Nat /\ MaxInits > 0
  BY ConnectionAssumption DEF H!HandshakeAssumption

-----------------------------------------------------------------------------
(* Sequences of pieces.                                                    *)

LEMMA CutProperties ==
  ASSUME NEW message \in {"hello", "ok", "answer"}, NEW iv \in 0 .. MaxInits,
         NEW n \in 0 .. Pieces
  PROVE  /\ H!Cut(message, iv, n) \in Seq(H!Piece)
         /\ Len(H!Cut(message, iv, n)) = n
         /\ \A i \in 1 .. n : H!Cut(message, iv, n)[i].of = message
         /\ \A i \in 1 .. n : H!Cut(message, iv, n)[i].iv = iv
<1>1. n \in Nat /\ \A i \in 1 .. n : i \in 0 .. Pieces
  BY Sizes
<1>2. \A i \in 1 .. n : [of |-> message, iv |-> iv, n |-> i] \in H!Piece
  BY <1>1 DEF H!Piece
<1> QED
  BY <1>1, <1>2 DEF H!Cut

LEMMA JoinProperties ==
  ASSUME NEW s \in Seq(H!Piece), NEW t \in Seq(H!Piece)
  PROVE  /\ s \o t \in Seq(H!Piece)
         /\ Len(s \o t) = Len(s) + Len(t)
         /\ \A i \in 1 .. Len(s \o t) :
              \/ i \in 1 .. Len(s) /\ (s \o t)[i] = s[i]
              \/ i - Len(s) \in 1 .. Len(t) /\ (s \o t)[i] = t[i - Len(s)]
<1>1. /\ s \o t \in Seq(H!Piece)
      /\ Len(s \o t) = Len(s) + Len(t)
      /\ \A i \in 1 .. Len(s) + Len(t) :
           (s \o t)[i] = IF i <= Len(s) THEN s[i] ELSE t[i - Len(s)]
  BY ConcatProperties, Zenon
<1> QED
  BY <1>1

LEMMA RestProperties ==
  ASSUME NEW s \in Seq(H!Piece), NEW k \in 0 .. Len(s)
  PROVE  /\ SubSeq(s, k + 1, Len(s)) \in Seq(H!Piece)
         /\ Len(SubSeq(s, k + 1, Len(s))) = Len(s) - k
         /\ \A i \in 1 .. Len(s) - k :
              /\ k + i \in 1 .. Len(s)
              /\ SubSeq(s, k + 1, Len(s))[i] = s[k + i]
  OBVIOUS

LEMMA CutWhole ==
  ASSUME NEW message \in {"hello", "ok", "answer"}, NEW iv \in 0 .. MaxInits
  PROVE  /\ Len(H!Cut(message, iv, Pieces)) = Pieces
         /\ H!Cut(message, iv, Pieces)[1].of = message
<1>1. Pieces \in 0 .. Pieces
  BY Sizes
<1>2. 1 \in 1 .. Pieces
  BY Sizes
<1>3. Len(H!Cut(message, iv, Pieces)) = Pieces
  BY <1>1, CutProperties
<1>4. \A i \in 1 .. Pieces : H!Cut(message, iv, Pieces)[i].of = message
  BY DEF H!Cut
<1> QED
  BY <1>2, <1>3, <1>4

(* What has been parsed began with the message and is as long as it.       *)
LEMMA ParsesProperties ==
  ASSUME NEW s \in Seq(H!Piece), NEW k \in 1 .. Len(s),
         NEW message \in {"hello", "ok", "answer"},
         H!Parses(SubSeq(s, 1, k), message)
  PROVE  k = Pieces /\ s[1].of = message
<1> DEFINE b == SubSeq(s, 1, k)
<1>1. b \in Seq(H!Piece) /\ Len(b) = k /\ b[1] = s[1] /\ s[1] \in H!Piece
  OBVIOUS
<1> HIDE DEF b
<1>2. b = H!Cut(message, b[1].iv, Pieces)
  BY DEF H!Parses, b
<1>3. PICK iv \in 0 .. MaxInits : iv = b[1].iv
  BY <1>1 DEF H!Piece
<1>4. /\ Len(H!Cut(message, iv, Pieces)) = Pieces
      /\ H!Cut(message, iv, Pieces)[1].of = message
  BY CutWhole, Zenon
<1> QED
  BY <1>1, <1>2, <1>3, <1>4

-----------------------------------------------------------------------------
(* The pieces on their way to the peer.                                    *)

(* A hello carries the vector of an attempt that was made.                 *)
HelloFrom(s, iv) ==
  \A i \in 1 .. Len(s) : s[i].of = "hello" => s[i].iv \in 1 .. iv

HasOk(s) == \E i \in 1 .. Len(s) : s[i].of = "ok"

OnlyOk(s) == \A i \in 1 .. Len(s) : s[i].of = "ok"

OfPeer(s) == \A i \in 1 .. Len(s) : s[i].of \in {"hello", "ok"}

LEMMA JoinHello ==
  ASSUME NEW s \in Seq(H!Piece), NEW iv \in Nat, iv < MaxInits,
         HelloFrom(s, iv), OfPeer(s), ~ HasOk(s)
  PROVE  LET r == s \o H!Cut("hello", iv + 1, Pieces)
         IN  /\ r \in Seq(H!Piece) /\ Len(r) = Len(s) + Pieces
             /\ HelloFrom(r, iv + 1) /\ OfPeer(r) /\ ~ HasOk(r)
<1> DEFINE t == H!Cut("hello", iv + 1, Pieces)
<1>1. iv + 1 \in 0 .. MaxInits /\ Pieces \in 0 .. Pieces
  BY Sizes
<1>2. t \in Seq(H!Piece) /\ Len(t) = Pieces
  BY <1>1, CutProperties
<1>3. \A i \in 1 .. Len(t) : t[i].of = "hello" /\ t[i].iv = iv + 1
  BY <1>2 DEF H!Cut
<1> HIDE DEF t
<1> DEFINE r == s \o t
<1>4. /\ r \in Seq(H!Piece) /\ Len(r) = Len(s) + Len(t)
      /\ \A i \in 1 .. Len(r) :
           \/ i \in 1 .. Len(s) /\ r[i] = s[i]
           \/ i - Len(s) \in 1 .. Len(t) /\ r[i] = t[i - Len(s)]
  BY <1>2, JoinProperties
<1> HIDE DEF r
<1>5. \A i \in 1 .. Len(r) :
        r[i].of = "hello" /\ r[i].iv \in 1 .. iv + 1
  <2> TAKE i \in 1 .. Len(r)
  <2>1. CASE i \in 1 .. Len(s) /\ r[i] = s[i]
    <3>1. s[i].of = "hello"
      BY <2>1 DEF OfPeer, HasOk
    <3>2. s[i].iv \in 1 .. iv
      BY <2>1, <3>1 DEF HelloFrom
    <3> QED
      BY <2>1, <3>1, <3>2
  <2>2. CASE i - Len(s) \in 1 .. Len(t) /\ r[i] = t[i - Len(s)]
    BY <1>3, <2>2
  <2> QED
    BY <1>4, <2>1, <2>2
<1>6. HelloFrom(r, iv + 1) /\ OfPeer(r) /\ ~ HasOk(r)
  BY <1>5 DEF HelloFrom, OfPeer, HasOk
<1> QED
  BY <1>2, <1>4, <1>6 DEF r, t

LEMMA JoinOk ==
  ASSUME NEW s \in Seq(H!Piece), NEW iv \in Nat, HelloFrom(s, iv), OfPeer(s)
  PROVE  LET r == s \o H!Cut("ok", 0, 2)
         IN  /\ r \in Seq(H!Piece) /\ HelloFrom(r, iv) /\ OfPeer(r)
             /\ OnlyOk(s) => OnlyOk(r)
<1> DEFINE t == H!Cut("ok", 0, 2)
<1>1. 0 \in 0 .. MaxInits /\ 2 \in 0 .. Pieces
  BY Sizes
<1>2. t \in Seq(H!Piece) /\ Len(t) = 2
  <2>1. t \in Seq(H!Piece)
    BY <1>1, CutProperties, ZenonT(40)
  <2> QED
    BY <2>1 DEF H!Cut
<1>3. \A i \in 1 .. Len(t) : t[i].of = "ok"
  BY <1>2 DEF H!Cut
<1> HIDE DEF t
<1> DEFINE r == s \o t
<1>4. /\ r \in Seq(H!Piece)
      /\ \A i \in 1 .. Len(r) :
           \/ i \in 1 .. Len(s) /\ r[i] = s[i]
           \/ i - Len(s) \in 1 .. Len(t) /\ r[i] = t[i - Len(s)]
  BY <1>2, JoinProperties
<1> HIDE DEF r
<1>5. \A i \in 1 .. Len(r) :
        r[i].of = "ok" \/ (i \in 1 .. Len(s) /\ r[i] = s[i])
  BY <1>3, <1>4
<1>6. HelloFrom(r, iv) /\ OfPeer(r) /\ (OnlyOk(s) => OnlyOk(r))
  BY <1>5 DEF HelloFrom, OfPeer, OnlyOk
<1> QED
  BY <1>4, <1>6 DEF r, t

LEMMA RestKeeps ==
  ASSUME NEW s \in Seq(H!Piece), NEW k \in 0 .. Len(s), NEW iv \in Nat,
         HelloFrom(s, iv), OfPeer(s)
  PROVE  LET r == SubSeq(s, k + 1, Len(s))
         IN  /\ r \in Seq(H!Piece) /\ Len(r) = Len(s) - k
             /\ HelloFrom(r, iv) /\ OfPeer(r)
             /\ HasOk(r) => HasOk(s)
             /\ OnlyOk(s) => OnlyOk(r)
<1> DEFINE r == SubSeq(s, k + 1, Len(s))
<1>1. /\ r \in Seq(H!Piece) /\ Len(r) = Len(s) - k
      /\ \A i \in 1 .. Len(r) : k + i \in 1 .. Len(s) /\ r[i] = s[k + i]
  BY RestProperties
<1> HIDE DEF r
<1>2. HelloFrom(r, iv) /\ OfPeer(r)
  BY <1>1 DEF HelloFrom, OfPeer
<1>3. (HasOk(r) => HasOk(s)) /\ (OnlyOk(s) => OnlyOk(r))
  BY <1>1 DEF HasOk, OnlyOk
<1> QED
  BY <1>1, <1>2, <1>3 DEF r

(* A piece of which a part was read.                                       *)
LEMMA PartKeeps ==
  ASSUME NEW s \in Seq(H!Piece), s # <<>>, NEW iv \in Nat,
         HelloFrom(s, iv), OfPeer(s)
  PROVE  LET r == <<[s[1] EXCEPT !.n = 0]>> \o Tail(s)
         IN  /\ r \in Seq(H!Piece) /\ Len(r) = Len(s)
             /\ HelloFrom(r, iv) /\ OfPeer(r)
             /\ HasOk(r) => HasOk(s)
             /\ OnlyOk(s) => OnlyOk(r)
<1> DEFINE h == [s[1] EXCEPT !.n = 0]
           r == <<h>> \o Tail(s)
<1>1. s[1] \in H!Piece
  OBVIOUS
<1>2. h \in H!Piece /\ h.of = s[1].of /\ h.iv = s[1].iv
  <2>1. PICK x \in {"hello", "ok", "answer"}, iw \in 0 .. MaxInits,
             n \in 0 .. Pieces : s[1] = [of |-> x, iv |-> iw, n |-> n]
    BY <1>1 DEF H!Piece
  <2>2. h = [of |-> x, iv |-> iw, n |-> 0]
    BY <2>1
  <2>3. 0 \in 0 .. Pieces
    BY Sizes
  <2> QED
    BY <2>1, <2>2, <2>3 DEF H!Piece
<1> HIDE DEF h
<1>3. /\ r \in Seq(H!Piece) /\ Len(r) = Len(s)
      /\ r[1] = h /\ \A i \in 2 .. Len(r) : r[i] = s[i]
  BY <1>2
<1> HIDE DEF r
<1>4. \A i \in 1 .. Len(r) :
        i \in 1 .. Len(s) /\ r[i].of = s[i].of /\ r[i].iv = s[i].iv
  BY <1>2, <1>3
<1>5. HelloFrom(r, iv) /\ OfPeer(r)
  BY <1>4 DEF HelloFrom, OfPeer
<1>6. (HasOk(r) => HasOk(s)) /\ (OnlyOk(s) => OnlyOk(r))
  BY <1>3, <1>4 DEF HasOk, OnlyOk
<1> QED
  BY <1>3, <1>5, <1>6 DEF r, h

(* Two bytes that confirm are on their way, or have come, only when the    *)
(* host is secure with the vector that the peer has; the host takes an     *)
(* answer for one to its first attempt, which is the only one then.        *)
HandshakeInv ==
  /\ H!TypeOK
  /\ OfPeer(toPeer) /\ HelloFrom(toPeer, hostIv) /\ peerIv <= hostIv
  /\ event = "new" => hostIv = 0 /\ toPeer = <<>>
  /\ event = "armed" => hostIv = 1
  /\ hostSecure => event = "off"
  /\ toHost # <<>> => step # "accept" /\ peerIv # 0
  /\ HasOk(toPeer) \/ step = "secure" =>
       hostSecure /\ hostIv = peerIv /\ step # "accept"

(* Until the host begins anew, a peer that has the vector has read the     *)
(* whole hello.                                                            *)
WholeInv ==
  /\ hostIv <= 1 /\ step = "accept" => Len(toPeer) <= Pieces
  /\ hostIv <= 1 /\ peerIv # 0 => OnlyOk(toPeer)
  /\ undefined => step = "failed" /\ (hostIv > 1 \/ peerIv = 0)

StreamInv == stream # <<>> => step = "secure"

LEMMA HandshakeInvInit ==
  ConnectionInit => HandshakeInv /\ WholeInv /\ StreamInv
<1>1. <<>> \in Seq(H!Piece) /\ Len(<<>>) = 0
  OBVIOUS
<1>2. ASSUME H!Init
      PROVE  HandshakeInv /\ WholeInv
  <2>1. H!TypeOK
    <3>1. hostSecure \in BOOLEAN /\ undefined \in BOOLEAN
      BY <1>2, Zenon DEF H!Init
    <3> QED
      BY <1>1, <1>2, <3>1, Sizes DEF H!Init, H!TypeOK
  <2>2. 1 .. Len(toPeer) = {}
    BY <1>1, <1>2 DEF H!Init
  <2> QED
    BY <1>1, <1>2, <2>1, <2>2, Sizes
       DEF H!Init, HandshakeInv, WholeInv, OfPeer, HelloFrom, HasOk, OnlyOk
<1>3. ASSUME SessionGiven
      PROVE  HandshakeInv /\ WholeInv
  <2>1. H!TypeOK
    <3>1. hostSecure \in BOOLEAN /\ undefined \in BOOLEAN
      BY <1>3, Zenon DEF SessionGiven
    <3> QED
      BY <1>1, <1>3, <3>1, Sizes DEF SessionGiven, H!TypeOK
  <2>2. 1 .. Len(toPeer) = {}
    BY <1>1, <1>3 DEF SessionGiven
  <2> QED
    BY <1>1, <1>3, <2>1, <2>2, Sizes
       DEF SessionGiven, HandshakeInv, WholeInv, OfPeer, HelloFrom, HasOk,
           OnlyOk
<1> QED
  BY <1>2, <1>3 DEF ConnectionInit, Init, StreamInv

-----------------------------------------------------------------------------
(* handshake_init appends a hello with the next vector.                    *)
LEMMA InitStep ==
  ASSUME HandshakeInv, event \in {"new", "armed"}, H!HandshakeInit
  PROVE  /\ hostIv' = hostIv + 1 /\ hostIv' \in 0 .. MaxInits
         /\ hostSecure' = FALSE
         /\ toPeer' \in Seq(H!Piece) /\ Len(toPeer') = Len(toPeer) + Pieces
         /\ HelloFrom(toPeer', hostIv') /\ OfPeer(toPeer') /\ ~ HasOk(toPeer')
         /\ step # "secure"
<1>1. /\ hostIv \in 0 .. MaxInits /\ hostIv < MaxInits
      /\ hostIv' = hostIv + 1 /\ hostSecure' = FALSE
      /\ toPeer' = toPeer \o H!Cut("hello", hostIv + 1, Pieces)
  BY DEF H!HandshakeInit, HandshakeInv, H!TypeOK
<1>2. toPeer \in Seq(H!Piece) /\ HelloFrom(toPeer, hostIv) /\ OfPeer(toPeer)
  BY DEF HandshakeInv, H!TypeOK
<1>3. ~ HasOk(toPeer) /\ step # "secure"
  BY DEF HandshakeInv
<1>4. hostIv \in Nat
  BY <1>1, Sizes
<1> HIDE DEF HasOk, HelloFrom, OfPeer
<1>5. LET r == toPeer \o H!Cut("hello", hostIv + 1, Pieces)
      IN  /\ r \in Seq(H!Piece) /\ Len(r) = Len(toPeer) + Pieces
          /\ HelloFrom(r, hostIv + 1) /\ OfPeer(r) /\ ~ HasOk(r)
  BY <1>1, <1>2, <1>3, <1>4, JoinHello
<1> QED
  BY <1>1, <1>3, <1>4, <1>5, Sizes

LEMMA AcceptedStep ==
  ASSUME HandshakeInv, WholeInv, H!Accepted
  PROVE  HandshakeInv' /\ WholeInv'
<1>1. /\ event = "new" /\ event' = "armed" /\ H!HandshakeInit
      /\ UNCHANGED <<step, peerIv, toHost, atPeer, atHost, undefined>>
  BY DEF H!Accepted
<1>2. /\ hostIv' = hostIv + 1 /\ hostIv' \in 0 .. MaxInits
      /\ hostSecure' = FALSE
      /\ toPeer' \in Seq(H!Piece) /\ Len(toPeer') = Len(toPeer) + Pieces
      /\ HelloFrom(toPeer', hostIv') /\ OfPeer(toPeer') /\ ~ HasOk(toPeer')
      /\ step # "secure"
  BY <1>1, InitStep
<1>3. hostIv = 0 /\ toPeer = <<>> /\ Len(toPeer) = 0 /\ peerIv = 0
  BY <1>1, Sizes DEF HandshakeInv, H!TypeOK
<1>4. H!TypeOK'
  <2>1. hostSecure' \in BOOLEAN
    BY <1>2, Zenon
  <2> QED
    BY <1>1, <1>2, <1>3, <2>1, Sizes DEF HandshakeInv, H!TypeOK
<1>5. HandshakeInv'
  BY <1>1, <1>2, <1>3, <1>4 DEF HandshakeInv
<1>6. WholeInv'
  BY <1>1, <1>2, <1>3, Sizes DEF WholeInv
<1> QED
  BY <1>5, <1>6

(* The answer parses, or the host begins anew.                             *)
LEMMA FinalStep ==
  ASSUME HandshakeInv, WholeInv, H!HandshakeFinal
  PROVE  HandshakeInv' /\ WholeInv'
<1>1. /\ event = "armed" /\ atHost > 0 /\ event' = "off" /\ atHost' = 0
      /\ toHost' = SubSeq(toHost, atHost + 1, Len(toHost))
      /\ UNCHANGED <<step, peerIv, atPeer, undefined>>
  BY DEF H!HandshakeFinal
<1>2. /\ atHost \in 0 .. Len(toHost) /\ toHost \in Seq(H!Piece)
      /\ toPeer \in Seq(H!Piece) /\ peerIv \in 0 .. MaxInits
      /\ atPeer \in 0 .. Len(toPeer)
  BY DEF HandshakeInv, H!TypeOK
<1>3. toHost # <<>> /\ toHost' \in Seq(H!Piece)
  BY <1>1, <1>2, RestProperties
<1>4. hostIv = 1 /\ peerIv = 1 /\ step # "accept" /\ step # "secure"
  BY <1>1, <1>2, <1>3 DEF HandshakeInv
<1>5. OnlyOk(toPeer)
  BY <1>4 DEF WholeInv
<1>6. CASE /\ hostSecure' = TRUE /\ hostIv' = hostIv
           /\ toPeer' = toPeer \o H!Cut("ok", 0, 2)
  <2>1. LET r == toPeer \o H!Cut("ok", 0, 2)
        IN  /\ r \in Seq(H!Piece) /\ HelloFrom(r, hostIv) /\ OfPeer(r)
            /\ OnlyOk(toPeer) => OnlyOk(r)
    BY <1>2, <1>4, JoinOk DEF HandshakeInv
  <2>2. Len(toPeer') = Len(toPeer) + 2
    BY <1>2, <1>6 DEF H!Cut
  <2>3. H!TypeOK'
    <3>1. hostSecure' \in BOOLEAN
      BY <1>6, Zenon
    <3> QED
      BY <1>1, <1>2, <1>3, <1>6, <2>1, <2>2, <3>1 DEF HandshakeInv, H!TypeOK
  <2>4. HandshakeInv'
    BY <1>1, <1>4, <1>6, <2>1, <2>3 DEF HandshakeInv
  <2>5. WholeInv'
    BY <1>1, <1>4, <1>5, <1>6, <2>1 DEF WholeInv
  <2> QED
    BY <2>4, <2>5
<1>7. CASE H!HandshakeInit
  <2>1. /\ hostIv' = hostIv + 1 /\ hostIv' \in 0 .. MaxInits
        /\ hostSecure' = FALSE
        /\ toPeer' \in Seq(H!Piece) /\ Len(toPeer') = Len(toPeer) + Pieces
        /\ HelloFrom(toPeer', hostIv') /\ OfPeer(toPeer') /\ ~ HasOk(toPeer')
    BY <1>1, <1>7, InitStep
  <2>2. H!TypeOK'
    <3>1. hostSecure' \in BOOLEAN
      BY <2>1, Zenon
    <3> QED
      BY <1>1, <1>2, <1>3, <2>1, <3>1, Sizes DEF HandshakeInv, H!TypeOK
  <2>3. HandshakeInv'
    BY <1>1, <1>4, <2>1, <2>2 DEF HandshakeInv
  <2>4. WholeInv'
    BY <1>1, <1>4, <2>1 DEF WholeInv
  <2> QED
    BY <2>3, <2>4
<1> QED
  BY <1>6, <1>7 DEF H!HandshakeFinal

(* The peer takes the vector of a whole hello, or fails.                   *)
LEMMA AcceptStep ==
  ASSUME HandshakeInv, WholeInv, H!HandshakeAccept
  PROVE  HandshakeInv' /\ WholeInv'
<1>1. /\ step = "accept" /\ atPeer > 0 /\ atPeer' = 0
      /\ toPeer' = SubSeq(toPeer, atPeer + 1, Len(toPeer))
      /\ UNCHANGED <<event, hostIv, hostSecure, atHost, undefined>>
  BY DEF H!HandshakeAccept
<1>2. /\ toPeer \in Seq(H!Piece) /\ toHost \in Seq(H!Piece)
      /\ atPeer \in 1 .. Len(toPeer) /\ atPeer \in 0 .. Len(toPeer)
      /\ hostIv \in Nat /\ hostIv \in 0 .. MaxInits
      /\ HelloFrom(toPeer, hostIv) /\ OfPeer(toPeer)
  BY <1>1, Sizes DEF HandshakeInv, H!TypeOK
<1>3. /\ toPeer' \in Seq(H!Piece) /\ Len(toPeer') = Len(toPeer) - atPeer
      /\ HelloFrom(toPeer', hostIv) /\ OfPeer(toPeer')
      /\ HasOk(toPeer') => HasOk(toPeer)
  BY <1>1, <1>2, RestKeeps
<1>4. ~ HasOk(toPeer') /\ toHost = <<>> /\ ~ undefined
  BY <1>1, <1>3 DEF HandshakeInv, WholeInv
<1>5. CASE H!Parses(SubSeq(toPeer, 1, atPeer), "hello")
  <2>1. /\ peerIv' = toPeer[1].iv /\ step' = "confirm"
        /\ toHost' = toHost \o H!Cut("answer", 0, Pieces)
    BY <1>5 DEF H!HandshakeAccept
  <2>2. atPeer = Pieces /\ toPeer[1].of = "hello"
    BY <1>2, <1>5, ParsesProperties
  <2>3. peerIv' \in 1 .. hostIv
    BY <1>2, <2>1, <2>2 DEF HelloFrom
  <2>4. toHost' \in Seq(H!Piece) /\ Len(toHost') = Pieces
    <3>1. 0 \in 0 .. MaxInits /\ Pieces \in 0 .. Pieces
      BY Sizes
    <3>2. H!Cut("answer", 0, Pieces) \in Seq(H!Piece)
      BY <3>1, CutProperties, Zenon
    <3>3. Len(H!Cut("answer", 0, Pieces)) = Pieces
      BY <3>1, CutWhole, Zenon
    <3> QED
      BY <1>4, <2>1, <3>2, <3>3
  <2>5. H!TypeOK'
    BY <1>1, <1>2, <1>3, <1>4, <2>1, <2>3, <2>4, Sizes
       DEF HandshakeInv, H!TypeOK
  <2>6. HandshakeInv'
    <3>1. event # "new"
      BY <1>2, <2>3 DEF HandshakeInv
    <3> QED
      BY <1>1, <1>2, <1>3, <1>4, <2>1, <2>3, <2>5, <3>1 DEF HandshakeInv
  <2>7. hostIv <= 1 => Len(toPeer') = 0
    BY <1>1, <1>2, <1>3, <2>2 DEF WholeInv
  <2>8. WholeInv'
    BY <1>1, <1>2, <1>3, <1>4, <2>1, <2>7 DEF WholeInv, OnlyOk
  <2> QED
    BY <2>6, <2>8
<1>6. CASE step' \in {"accept", "confirm"} /\ UNCHANGED <<peerIv, toHost>>
  <2>1. H!TypeOK'
    BY <1>1, <1>2, <1>3, <1>6 DEF HandshakeInv, H!TypeOK
  <2>2. HandshakeInv'
    <3>1. event = "new" => toPeer = <<>>
      BY DEF HandshakeInv
    <3>2. event # "new"
      BY <1>2, <3>1
    <3> QED
      BY <1>1, <1>2, <1>3, <1>4, <1>6, <2>1, <3>2 DEF HandshakeInv
  <2>3. WholeInv'
    <3>1. hostIv <= 1 => Len(toPeer') <= Pieces
      BY <1>1, <1>2, <1>3, Sizes DEF WholeInv
    <3>2. OnlyOk(toPeer) => OnlyOk(toPeer')
      BY <1>1, <1>2, RestKeeps
    <3> QED
      BY <1>1, <1>4, <1>6, <3>1, <3>2 DEF WholeInv
  <2> QED
    BY <2>2, <2>3
<1> QED
  BY <1>5, <1>6 DEF H!HandshakeAccept

(* Two bytes are read: of the confirmation, or of a hello.                 *)
LEMMA ConfirmStep ==
  ASSUME HandshakeInv, WholeInv, H!HandshakeConfirm
  PROVE  HandshakeInv' /\ WholeInv'
<1>1. /\ step = "confirm" /\ atPeer > 0
      /\ UNCHANGED <<event, hostIv, hostSecure, peerIv, toHost, atHost>>
  BY DEF H!HandshakeConfirm
<1>2. /\ toPeer \in Seq(H!Piece) /\ Len(toPeer) \in Nat
      /\ atPeer \in 1 .. Len(toPeer)
      /\ hostIv \in Nat /\ HelloFrom(toPeer, hostIv) /\ OfPeer(toPeer)
      /\ event # "new"
  <2>1. event = "new" => Len(toPeer) = 0
    BY DEF HandshakeInv
  <2> QED
    BY <1>1, <2>1, Sizes DEF HandshakeInv, H!TypeOK
<1>3. CASE toPeer[1].of = "ok"
  <2> DEFINE n == IF atPeer < 2 THEN atPeer ELSE 2
  <2>1. /\ toPeer' = SubSeq(toPeer, n + 1, Len(toPeer))
        /\ atPeer' = atPeer - n /\ undefined' = undefined
        /\ step' = IF n = 2 THEN "secure" ELSE "failed"
    BY <1>3 DEF H!HandshakeConfirm
  <2>2. n \in 0 .. Len(toPeer) /\ n <= atPeer /\ n \in Nat
    BY <1>2
  <2> HIDE DEF n
  <2>3. /\ toPeer' \in Seq(H!Piece) /\ Len(toPeer') = Len(toPeer) - n
        /\ HelloFrom(toPeer', hostIv) /\ OfPeer(toPeer')
        /\ OnlyOk(toPeer) => OnlyOk(toPeer')
    BY <1>2, <2>1, <2>2, RestKeeps
  <2>4. HasOk(toPeer)
    BY <1>2, <1>3 DEF HasOk
  <2>5. hostSecure /\ hostIv = peerIv
    BY <2>4 DEF HandshakeInv
  <2>6. step' \in {"secure", "failed"}
    BY <2>1
  <2>7. atPeer' \in 0 .. Len(toPeer')
    BY <1>2, <2>1, <2>2, <2>3
  <2>8. H!TypeOK'
    BY <1>1, <2>1, <2>3, <2>6, <2>7 DEF HandshakeInv, H!TypeOK
  <2>9. HandshakeInv'
    BY <1>1, <1>2, <2>3, <2>5, <2>6, <2>8 DEF HandshakeInv
  <2>10. WholeInv'
    BY <1>1, <2>1, <2>3, <2>6 DEF WholeInv
  <2> QED
    BY <2>9, <2>10
<1>4. CASE toPeer[1].of # "ok"
  <2>1. /\ toPeer' = <<[toPeer[1] EXCEPT !.n = 0]>> \o Tail(toPeer)
        /\ step' = "failed" /\ undefined' = TRUE /\ atPeer' = atPeer
    BY <1>4 DEF H!HandshakeConfirm
  <2>2. /\ toPeer' \in Seq(H!Piece) /\ Len(toPeer') = Len(toPeer)
        /\ HelloFrom(toPeer', hostIv) /\ OfPeer(toPeer')
        /\ HasOk(toPeer') => HasOk(toPeer)
        /\ OnlyOk(toPeer) => OnlyOk(toPeer')
    <3>1. toPeer # <<>>
      BY <1>2
    <3> QED
      BY <1>2, <2>1, <3>1, PartKeeps
  <2>3. H!TypeOK'
    <3>1. undefined' \in BOOLEAN
      BY <2>1, Zenon
    <3> QED
      BY <1>1, <1>2, <2>1, <2>2, <3>1 DEF HandshakeInv, H!TypeOK
  <2>4. HandshakeInv'
    BY <1>1, <1>2, <2>1, <2>2, <2>3 DEF HandshakeInv
  <2>5. hostIv > 1 \/ peerIv = 0
    <3>1. ~ OnlyOk(toPeer)
      BY <1>2, <1>4 DEF OnlyOk
    <3> QED
      BY <1>2, <3>1 DEF WholeInv
  <2>6. WholeInv'
    BY <1>1, <2>1, <2>2, <2>5 DEF WholeInv
  <2> QED
    BY <2>4, <2>6
<1> QED
  BY <1>3, <1>4

LEMMA HandshakeStep ==
  ASSUME HandshakeInv, WholeInv, H!Next
  PROVE  /\ HandshakeInv' /\ WholeInv'
         /\ step = "secure" => step' = "secure"
<1>1. CASE H!DeliverToPeer \/ H!DeliverToHost
  <2>1. /\ UNCHANGED <<event, hostIv, hostSecure, step, peerIv, toPeer,
                       toHost, undefined>>
        /\ \/ atPeer' = atPeer + 1 /\ atPeer < Len(toPeer) /\ atHost' = atHost
           \/ atHost' = atHost + 1 /\ atHost < Len(toHost) /\ atPeer' = atPeer
    BY <1>1 DEF H!DeliverToPeer, H!DeliverToHost
  <2>2. H!TypeOK'
    <3>1. Len(toPeer) \in Nat /\ Len(toHost) \in Nat
      BY DEF HandshakeInv, H!TypeOK
    <3> QED
      BY <2>1, <3>1 DEF HandshakeInv, H!TypeOK
  <2> QED
    BY <2>1, <2>2 DEF HandshakeInv, WholeInv
<1>2. CASE H!Accepted
  BY <1>2, AcceptedStep DEF H!Accepted
<1>3. CASE H!HandshakeFinal
  BY <1>3, FinalStep DEF H!HandshakeFinal
<1>4. CASE H!HandshakeAccept
  BY <1>4, AcceptStep DEF H!HandshakeAccept
<1>5. CASE H!HandshakeConfirm
  BY <1>5, ConfirmStep DEF H!HandshakeConfirm
<1> QED
  BY <1>1, <1>2, <1>3, <1>4, <1>5 DEF H!Next

-----------------------------------------------------------------------------
(* The connection.                                                         *)

LEMMA StreamRest ==
  ASSUME TypeOK, StreamInv, ReadSock
  PROVE  step = "secure"
<1>1. \E n \in 1 .. Len(stream) : TRUE
  BY ReadSockStep
<1>2. stream # <<>>
  <2>1. stream = <<>> => Len(stream) = 0
    OBVIOUS
  <2> QED
    BY <1>1, <2>1
<1> QED
  BY <1>2 DEF StreamInv

LEMMA ConnectionStep ==
  ASSUME TypeOK, HandshakeInv, WholeInv, StreamInv, [ConnectionNext]_allVars
  PROVE  HandshakeInv' /\ WholeInv' /\ StreamInv' /\ [Next]_vars
<1>1. UNCHANGED hsVars => HandshakeInv' /\ WholeInv'
  BY DEF hsVars, HandshakeInv, WholeInv, H!TypeOK
<1>2. CASE UNCHANGED allVars
  <2>1. UNCHANGED hsVars /\ UNCHANGED vars
    BY <1>2 DEF allVars
  <2>2. StreamInv'
    BY <2>1 DEF hsVars, vars, StreamInv
  <2> QED
    BY <1>1, <2>1, <2>2
<1>3. CASE H!Next /\ UNCHANGED vars
  <2>1. StreamInv'
    BY <1>3, HandshakeStep DEF vars, StreamInv
  <2> QED
    BY <1>3, <2>1, HandshakeStep
<1>4. CASE PeerSends
  <2>1. /\ UNCHANGED hsVars /\ step = "secure" /\ Next
    BY <1>4 DEF PeerSends, Next
  <2>2. StreamInv'
    BY <2>1 DEF StreamInv, hsVars
  <2> QED
    BY <1>1, <2>1, <2>2
<1>5. CASE HostReads
  <2>1. /\ UNCHANGED hsVars /\ ReadSock /\ Next
    BY <1>5 DEF HostReads, Next
  <2>2. StreamInv'
    BY <2>1, StreamRest DEF StreamInv, hsVars
  <2> QED
    BY <1>1, <2>1, <2>2
<1> QED
  BY <1>2, <1>3, <1>4, <1>5 DEF ConnectionNext

LEMMA ContextInit ==
  ConnectionInit => TypeOK /\ RoomIsLeft /\ OrderInv /\ AsSentInv
<1>1. Init => TypeOK /\ RoomIsLeft
  <2>1. \A S : <<>> \in Seq(S)
    OBVIOUS
  <2> SUFFICES ASSUME Init
               PROVE  TypeOK /\ RoomIsLeft
    OBVIOUS
  <2>2. /\ stream \in Seq([msg : Messages, first : BOOLEAN, last : BOOLEAN])
        /\ handled \in Seq([head : Work, body : Messages \cup {None}])
        /\ replies \in Seq({"answer", "ping", "error"})
        /\ sent \in Seq(Requests) /\ buf \in Seq(Messages)
    BY <2>1, Zenon DEF Init
  <2>3. Len(buf) <= way.capacity /\ Len(buf) < way.capacity
    BY Kinds DEF Init
  <2> QED
    BY <2>2, <2>3 DEF Init, TypeOK, RoomIsLeft
<1> QED
  BY <1>1, OrderInit, AsSentInit DEF ConnectionInit

(* Everything together is inductive.                                       *)
ConnectionInv ==
  /\ TypeOK /\ RoomIsLeft /\ OrderInv /\ AsSentInv
  /\ AnswerInv /\ ReachedInv
  /\ HandshakeInv /\ WholeInv /\ StreamInv

LEMMA ConnectionInvariant == ConnectionSpec => []ConnectionInv
<1>1. ConnectionInit => ConnectionInv
  BY HandshakeInvInit, ContextInit, ReachedInit
     DEF ConnectionInv, ConnectionInit
<1>2. ConnectionInv /\ [ConnectionNext]_allVars => ConnectionInv'
  BY ConnectionStep, TypeStep, RoomStep, OrderStep, AsSentStep, AnswerStep,
     ReachedStep DEF ConnectionInv
<1> QED
  BY <1>1, <1>2, PTL DEF ConnectionSpec

(* The variables of the Context and of the handshake keep their types.     *)
THEOREM TypeCorrect == ConnectionSpec => []ConnectionTypeOK
<1>1. ConnectionInv => ConnectionTypeOK
  BY DEF ConnectionInv, HandshakeInv, ConnectionTypeOK
<1> QED
  BY <1>1, ConnectionInvariant, PTL

(* A Context whose requests come from a peer that has shaken hands does    *)
(* nothing that it could not do with any peer.                             *)
LEMMA ConnectionImplementsContext == ConnectionSpec => ImplementsContext
<1>1. ConnectionInit => Init
  BY DEF ConnectionInit
<1>2. [ConnectionNext]_allVars => [Next]_vars
  BY DEF ConnectionNext, PeerSends, HostReads, Next, allVars
<1> QED
  BY <1>1, <1>2, PTL DEF ConnectionSpec, ImplementsContext, Spec

(* Where the Context is a server's, with nothing set up beforehand, a      *)
(* connection goes through the handshake alone: requests and replies do  *)
(* not interfere with it.                                                  *)
LEMMA ConnectionImplementsHandshake ==
  ASSUME \A given \in Ways : given.served = TRUE
  PROVE  ConnectionSpec => ImplementsHandshake
<1>1. ConnectionInit => H!Init
  BY DEF ConnectionInit, Init
<1>2. [ConnectionNext]_allVars => [H!Next]_(H!vars)
  BY DEF ConnectionNext, PeerSends, HostReads, allVars, hsVars, H!vars
<1> QED
  BY <1>1, <1>2, PTL DEF ConnectionSpec, ImplementsHandshake, H!Spec

(* An event takes at least one message from a buffer that it found with    *)
(* room, and leaves room: the connection does not get stuck.               *)
THEOREM RoomIsLeftHolds == ConnectionSpec => []RoomIsLeft
  BY ConnectionInvariant, PTL DEF ConnectionInv

(* No request is handled that was not sent, none twice, none after a later *)
(* one, whatever read_sock merges, garbles or throws away.                 *)
THEOREM HandledInOrderHolds == ConnectionSpec => []HandledInOrder
  BY ConnectionInvariant, OrderGivesHandledInOrder, PTL DEF ConnectionInv

(* With a peer that waits, a handler gets the message that was sent.       *)
THEOREM HandledAsSentHolds == ConnectionSpec => []HandledAsSent
  BY ConnectionInvariant, AsSentGivesHandledAsSent, PTL DEF ConnectionInv

(* A peer that takes itself for secure shares the vector with a host that  *)
(* does so too, however often the handshake was begun anew.                *)
THEOREM KeysAgreeHolds == ConnectionSpec => []KeysAgree
<1>1. ConnectionInv => KeysAgree
  BY DEF ConnectionInv, HandshakeInv, KeysAgree, H!KeysAgree
<1> QED
  BY <1>1, ConnectionInvariant, PTL

(* handshake_confirm reads an empty vector only after an earlier failure.  *)
THEOREM UndefinedOnlyAfterFailureHolds ==
  ConnectionSpec => []UndefinedOnlyAfterFailure
<1>1. ConnectionInv => UndefinedOnlyAfterFailure
  BY DEF ConnectionInv, WholeInv, UndefinedOnlyAfterFailure,
         H!UndefinedOnlyAfterFailure
<1> QED
  BY <1>1, ConnectionInvariant, PTL

(* A request that is on its way meets a host that reads with its key.      *)
THEOREM RequestsMeetTheKeyHolds == ConnectionSpec => []RequestsMeetTheKey
<1>1. ConnectionInv => RequestsMeetTheKey
  BY DEF ConnectionInv, HandshakeInv, StreamInv, RequestsMeetTheKey
<1> QED
  BY <1>1, ConnectionInvariant, PTL

-----------------------------------------------------------------------------
(* Nobody waits in vain.                                                   *)

(* What is on its way can be read: the event is the reader's and recvfrom  *)
(* is given room.  The loop has something to do as long as anything has    *)
(* been sent and not read.                                                 *)
THEOREM ReaderIsReadyHolds == ConnectionSpec => []ReaderIsReady
<1>1. ASSUME TypeOK, RoomIsLeft, stream # <<>>
      PROVE  Chunks # {}
  <2> DEFINE space == way.capacity - Len(buf)
             most  == IF Len(stream) < space THEN Len(stream) ELSE space
  <2>1. /\ Len(stream) \in Nat /\ Len(stream) >= 1 /\ Len(buf) \in Nat
        /\ way.capacity \in Nat /\ Len(buf) < way.capacity
    BY <1>1, Kinds DEF TypeOK, RoomIsLeft
  <2>2. most \in Nat /\ most >= 1 /\ most <= Len(stream)
    BY <2>1
  <2>3. Len(SubSeq(stream, 1, most)) = most
    <3>1. stream \in Seq(Block)
      BY <1>1 DEF TypeOK, Block
    <3> HIDE DEF most
    <3> QED
      BY <2>2, <3>1
  <2> HIDE DEF most
  <2>4. SubSeq(stream, 1, most) # <<>>
    <3>1. \A t : t = <<>> => Len(t) = 0
      OBVIOUS
    <3>2. most # 0
      BY <2>2
    <3> QED
      BY <2>3, <3>1, <3>2, Zenon
  <2>5. most \in (IF way.cut THEN 1 ELSE most) .. most
    BY <2>2
  <2>6. SubSeq(stream, 1, most) \in Chunks
    BY <2>4, <2>5, Zenon DEF Chunks, most
  <2> QED
    BY <2>6
<1>2. ConnectionInv => ReaderIsReady
  BY <1>1 DEF ConnectionInv, HandshakeInv, StreamInv, ReaderIsReady
<1> QED
  BY <1>2, ConnectionInvariant, PTL

(* A peer that waits has a server's reply to every request once all it has *)
(* sent is read: it may always go on.                                      *)
THEOREM AnsweredWhenReadHolds == ConnectionSpec => []AnsweredWhenRead
  BY ConnectionInvariant, AnswerGivesAnsweredWhenRead, PTL DEF ConnectionInv

(* Where records are read one at a time, fit into the buffer, and a header *)
(* sent apart is kept, read_sock calls handle_request for every request    *)
(* that is no ping.                                                        *)
THEOREM HandledWhenReadHolds == ConnectionSpec => []HandledWhenRead
<1>1. ConnectionInv => HandledWhenRead
  BY ReachedGivesHandledWhenRead DEF ConnectionInv
<1> QED
  BY <1>1, ConnectionInvariant, PTL

(* While the host is secure the peer has its confirmation, has failed, or  *)
(* has something to read in its last step: the answer that made the host   *)
(* secure was sent after handshake_accept, and the two bytes follow.       *)
LEMMA ConfirmStays ==
  ASSUME HandshakeInv, WholeInv, H!Next, ConfirmationIsComing
  PROVE  ConfirmationIsComing'
<1>1. toPeer \in Seq(H!Piece) /\ atHost \in 0 .. Len(toHost)
      /\ toHost \in Seq(H!Piece)
      /\ step \in {"accept", "confirm", "secure", "failed"}
  BY DEF HandshakeInv, H!TypeOK
<1>2. CASE H!DeliverToPeer \/ H!DeliverToHost
  BY <1>2 DEF H!DeliverToPeer, H!DeliverToHost, ConfirmationIsComing,
              H!ConfirmationIsComing
<1>3. CASE H!Accepted
  BY <1>3 DEF H!Accepted, H!HandshakeInit, ConfirmationIsComing,
              H!ConfirmationIsComing
<1>4. CASE H!HandshakeFinal
  <2>1. step # "accept" /\ step' = step
    <3>1. atHost > 0 /\ step' = step
      BY <1>4 DEF H!HandshakeFinal
    <3>2. toHost # <<>>
      BY <1>1, <3>1
    <3> QED
      BY <3>1, <3>2 DEF HandshakeInv
  <2>2. CASE hostSecure' = FALSE
    BY <2>2 DEF ConfirmationIsComing, H!ConfirmationIsComing
  <2>3. CASE toPeer' = toPeer \o H!Cut("ok", 0, 2)
    <3>1. Len(toPeer') = Len(toPeer) + 2 /\ Len(toPeer) \in Nat
      BY <1>1, <2>3 DEF H!Cut
    <3>2. toPeer' # <<>>
      <4>1. \A t : t = <<>> => Len(t) = 0
        OBVIOUS
      <4>2. Len(toPeer') # 0
        BY <3>1
      <4> QED
        BY <4>1, <4>2, Zenon
    <3>3. step' \in {"confirm", "secure", "failed"}
      BY <1>1, <2>1
    <3> QED
      BY <3>2, <3>3 DEF ConfirmationIsComing, H!ConfirmationIsComing
  <2> QED
    BY <1>4, <2>2, <2>3 DEF H!HandshakeFinal, H!HandshakeInit
<1>5. CASE H!HandshakeAccept
  BY <1>5 DEF H!HandshakeAccept, ConfirmationIsComing, H!ConfirmationIsComing
<1>6. CASE H!HandshakeConfirm
  BY <1>6 DEF H!HandshakeConfirm, ConfirmationIsComing, H!ConfirmationIsComing
<1> QED
  BY <1>2, <1>3, <1>4, <1>5, <1>6 DEF H!Next

THEOREM ConfirmationIsComingHolds == ConnectionSpec => []ConfirmationIsComing
<1>1. ConnectionInit => ConfirmationIsComing
  BY DEF ConnectionInit, H!Init, SessionGiven, ConfirmationIsComing,
         H!ConfirmationIsComing
<1>2. ConfirmationIsComing /\ ConnectionInv /\ [ConnectionNext]_allVars
        => ConfirmationIsComing'
  <2>1. ASSUME ConfirmationIsComing, UNCHANGED hsVars
        PROVE  ConfirmationIsComing'
    BY <2>1 DEF hsVars, ConfirmationIsComing, H!ConfirmationIsComing
  <2>2. [ConnectionNext]_allVars => H!Next \/ UNCHANGED hsVars
    BY DEF ConnectionNext, PeerSends, HostReads, allVars
  <2>3. ConnectionInv => HandshakeInv /\ WholeInv
    BY DEF ConnectionInv
  <2> QED
    BY <2>1, <2>2, <2>3, ConfirmStays
<1> QED
  BY <1>1, <1>2, ConnectionInvariant, PTL DEF ConnectionSpec

=============================================================================
