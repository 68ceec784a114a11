----------------------------- MODULE Handshake -----------------------------
(***************************************************************************)
(* The four steps of the key exchange of src/secure-socket.cpp, with the   *)
(* host driven by Context (constructor and handshake_callback) and a peer  *)
(* that uses the same class, in blocking mode, as the tests' client does.  *)
(*                                                                         *)
(* TCP delivers a message in pieces and keeps no limits between messages:  *)
(* each step takes what has arrived for a whole message.  The              *)
(* Diffie-Hellman secret is the same for every attempt of one pair of      *)
(* sockets; the initialisation vector is new for every attempt.            *)
(***************************************************************************)
EXTENDS Naturals, Sequences

CONSTANTS
  Pieces,      (* pieces that a message with a public key may be cut into  *)
  MaxInits     (* bound of the host's attempts, for TLC                    *)

(* What Connection, which instantiates this module, assumes.               *)
HandshakeAssumption ==
  Pieces \in Nat \ {0, 1} /\ MaxInits \in Nat \ {0}

VARIABLES
  event,       (* host: "new", "armed" or "off", the handshake event       *)
  hostIv,      (* host: the vector of its last attempt                     *)
  hostSecure,  (* host: is_secure                                          *)
  step,        (* peer: "accept", "confirm", "secure" or "failed"          *)
  peerIv,      (* peer: the vector it has received, 0 for none             *)
  toPeer,      (* pieces of "hello" (HostHandshake) and of the two bytes   *)
               (* {1, 0} ("ok") that are sent and not read                 *)
  toHost,      (* pieces of "answer" (PeerHandshake), likewise             *)
  atPeer,      (* how many pieces of toPeer have arrived                   *)
  atHost,      (* how many of toHost                                       *)
  undefined    (* peer: front() was called on an empty vector              *)

vars == <<event, hostIv, hostSecure, step, peerIv, toPeer, toHost, atPeer,
          atHost, undefined>>

Piece == [of : {"hello", "ok", "answer"}, iv : 0 .. MaxInits,
          n : 0 .. Pieces]

TypeOK ==
  /\ event \in {"new", "armed", "off"}
  /\ hostIv \in 0 .. MaxInits
  /\ hostSecure \in BOOLEAN
  /\ step \in {"accept", "confirm", "secure", "failed"}
  /\ peerIv \in 0 .. MaxInits
  /\ toPeer \in Seq(Piece)
  /\ toHost \in Seq(Piece)
  /\ atPeer \in 0 .. Len(toPeer)
  /\ atHost \in 0 .. Len(toHost)
  /\ undefined \in BOOLEAN

Init ==
  /\ event = "new"
  /\ hostIv = 0
  /\ hostSecure = FALSE
  /\ step = "accept"
  /\ peerIv = 0
  /\ toPeer = <<>>
  /\ toHost = <<>>
  /\ atPeer = 0
  /\ atHost = 0
  /\ undefined = FALSE

Cut(message, iv, pieces) ==
  [n \in 1 .. pieces |-> [of |-> message, iv |-> iv, n |-> n]]

(* ParseFromString succeeds on exactly one message, less its null byte.    *)
Parses(bytes, message) ==
  /\ bytes # <<>>
  /\ bytes = Cut(message, bytes[1].iv, Pieces)

-----------------------------------------------------------------------------
DeliverToPeer ==
  /\ atPeer < Len(toPeer)
  /\ atPeer' = atPeer + 1
  /\ UNCHANGED <<event, hostIv, hostSecure, step, peerIv, toPeer, toHost,
                 atHost, undefined>>

DeliverToHost ==
  /\ atHost < Len(toHost)
  /\ atHost' = atHost + 1
  /\ UNCHANGED <<event, hostIv, hostSecure, step, peerIv, toPeer, toHost,
                 atPeer, undefined>>

-----------------------------------------------------------------------------
(* handshake_init: is_secure is reset, then a new vector is sent.          *)
HandshakeInit ==
  /\ hostIv < MaxInits
  /\ hostIv' = hostIv + 1
  /\ hostSecure' = FALSE
  /\ toPeer' = toPeer \o Cut("hello", hostIv + 1, Pieces)

(* Context::Context: the event is registered after the first attempt.      *)
Accepted ==
  /\ event = "new"
  /\ HandshakeInit
  /\ event' = "armed"
  /\ UNCHANGED <<step, peerIv, toHost, atPeer, atHost, undefined>>

(* Mutant: the host does not confirm.                                      *)
HandshakeFinalSilent ==
  /\ event = "armed"
  /\ atHost > 0
  /\ event' = "off"
  /\ IF Parses(SubSeq(toHost, 1, atHost), "answer")
       THEN hostSecure' = TRUE /\ UNCHANGED <<hostIv, toPeer>>
       ELSE HandshakeInit
  /\ toHost' = SubSeq(toHost, atHost + 1, Len(toHost))
  /\ atHost' = 0
  /\ UNCHANGED <<step, peerIv, atPeer, undefined>>

(* handshake_callback and handshake_final: is_secure is set before the two *)
(* bytes are sent.  After a failure the handshake is begun again, but the  *)
(* event, which fires once, is not registered again.                       *)
HandshakeFinal ==
  /\ event = "armed"
  /\ atHost > 0
  /\ event' = "off"
  /\ IF Parses(SubSeq(toHost, 1, atHost), "answer")
       THEN /\ hostSecure' = TRUE
            /\ toPeer' = toPeer \o Cut("ok", 0, 2)
            /\ UNCHANGED hostIv
       ELSE HandshakeInit
  /\ toHost' = SubSeq(toHost, atHost + 1, Len(toHost))
  /\ atHost' = 0
  /\ UNCHANGED <<step, peerIv, atPeer, undefined>>

-----------------------------------------------------------------------------
(* Mutant: the receive buffer keeps what was read.                         *)
HandshakeAcceptKeeps ==
  /\ step = "accept"
  /\ atPeer > 0
  /\ step' = "confirm"
  /\ toPeer' = SubSeq(toPeer, atPeer + 1, Len(toPeer))
  /\ UNCHANGED <<event, hostIv, hostSecure, peerIv, toHost, atPeer, atHost,
                 undefined>>

(* Mutant: the null byte of the hello is left to the next read.            *)
HandshakeAcceptPart ==
  /\ step = "accept"
  /\ atPeer > 0
  /\ IF Parses(SubSeq(toPeer, 1, atPeer), "hello")
       THEN /\ peerIv' = toPeer[1].iv
            /\ toHost' = toHost \o Cut("answer", 0, Pieces)
            /\ step' = "confirm"
       ELSE step' \in {"accept", "confirm"} /\ UNCHANGED <<peerIv, toHost>>
  /\ toPeer' = SubSeq(toPeer, atPeer, Len(toPeer))
  /\ atPeer' = 1
  /\ UNCHANGED <<event, hostIv, hostSecure, atHost, undefined>>

(* handshake_accept: is_secure is reset, and one recvfrom must bring the   *)
(* whole hello.  The client may try again or go on regardless.             *)
HandshakeAccept ==
  /\ step = "accept"
  /\ atPeer > 0
  /\ IF Parses(SubSeq(toPeer, 1, atPeer), "hello")
       THEN /\ peerIv' = toPeer[1].iv
            /\ toHost' = toHost \o Cut("answer", 0, Pieces)
            /\ step' = "confirm"
       ELSE step' \in {"accept", "confirm"} /\ UNCHANGED <<peerIv, toHost>>
  /\ toPeer' = SubSeq(toPeer, atPeer + 1, Len(toPeer))
  /\ atPeer' = 0
  /\ UNCHANGED <<event, hostIv, hostSecure, atHost, undefined>>

(* Mutant: any two bytes confirm the handshake.                            *)
HandshakeConfirmAny ==
  /\ step = "confirm"
  /\ atPeer > 0
  /\ toPeer' = SubSeq(toPeer, atPeer + 1, Len(toPeer))
  /\ atPeer' = 0
  /\ step' = "secure"
  /\ UNCHANGED <<event, hostIv, hostSecure, peerIv, toHost, atHost, undefined>>

(* handshake_confirm: try_recv(2), which returns what is there, up to two  *)
(* bytes.  Two bytes of a piece of hello, which is a key in binary, are    *)
(* taken to contain no null byte: read_buffer(0) then returns nothing, and *)
(* front() is undefined.  That they happen to be {1, 0} is left out.       *)
HandshakeConfirm ==
  /\ step = "confirm"
  /\ atPeer > 0
  /\ IF toPeer[1].of = "ok"
       THEN LET n == IF atPeer < 2 THEN atPeer ELSE 2
            IN  /\ toPeer' = SubSeq(toPeer, n + 1, Len(toPeer))
                /\ atPeer' = atPeer - n
                /\ step' = IF n = 2 THEN "secure" ELSE "failed"
                /\ UNCHANGED undefined
       ELSE /\ toPeer' = <<[toPeer[1] EXCEPT !.n = 0]>> \o Tail(toPeer)
            /\ step' = "failed"
            /\ undefined' = TRUE
            /\ UNCHANGED atPeer
  /\ UNCHANGED <<event, hostIv, hostSecure, peerIv, toHost, atHost>>

Next ==
  \/ DeliverToPeer \/ DeliverToHost
  \/ Accepted \/ HandshakeFinal
  \/ HandshakeAccept \/ HandshakeConfirm

Spec == Init /\ [][Next]_vars

(* The network delivers, the event loop runs the callback, and the peer's  *)
(* calls return when data has come.                                        *)
FairSpec == Spec /\ WF_vars(Next)

-----------------------------------------------------------------------------
(* A peer that takes its side for secure talks to a host that does too,    *)
(* with the same initialisation vector: the two bytes that confirm the     *)
(* handshake carry neither, and the host may have begun anew.              *)
KeysAgree == step = "secure" => hostSecure /\ hostIv = peerIv

(* handshake_confirm calls front() on an empty vector only when the host   *)
(* has begun anew or the client goes on after a failed handshake_accept.   *)
UndefinedOnlyAfterFailure == undefined => hostIv > 1 \/ peerIv = 0

(* A host that is secure has ended its peer's handshake, well or not, or   *)
(* the peer stands before its last step with something to read, sent or    *)
(* arrived.                                                                *)
ConfirmationIsComing ==
  hostSecure => \/ step \in {"secure", "failed"}
                \/ step = "confirm" /\ toPeer # <<>>

(* Once the host is secure, the peer's next call ends the handshake, well  *)
(* or not: the two bytes are sent after every success and nothing but them *)
(* is in their way.                                                        *)
SecureHostIsConfirmed == hostSecure ~> step \in {"secure", "failed"}

=============================================================================
