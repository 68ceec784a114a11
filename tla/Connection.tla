----------------------------- MODULE Connection -----------------------------
(***************************************************************************)
(* A connection from accept() to its last request: the handshake of        *)
(* Handshake, and what Context makes of the session that it agrees on.     *)
(* The host is a Context with its SecureSocket, the peer the tests'        *)
(* Client.  In the ways of Ways that work on the Context itself the        *)
(* session is set up beforehand, as the fixture of test/context.cpp does.  *)
(***************************************************************************)
EXTENDS Context

CONSTANTS Pieces, MaxInits

VARIABLES event, hostIv, hostSecure, step, peerIv, toPeer, toHost, atPeer,
          atHost, undefined

H == INSTANCE Handshake

ASSUME ConnectionAssumption == H!HandshakeAssumption

hsVars == <<event, hostIv, hostSecure, step, peerIv, toPeer, toHost, atPeer,
            atHost, undefined>>

allVars == <<vars, hsVars>>

(* Both sides have the key and the first vector.                           *)
SessionGiven ==
  /\ event = "off" /\ hostIv = 1 /\ hostSecure = TRUE
  /\ step = "secure" /\ peerIv = 1
  /\ toPeer = <<>> /\ toHost = <<>> /\ atPeer = 0 /\ atHost = 0
  /\ undefined = FALSE

ConnectionInit ==
  /\ Init
  /\ IF way.served THEN H!Init ELSE SessionGiven

-----------------------------------------------------------------------------
(* Mutant: the client sends without waiting for the confirmation.          *)
PeerSendsEarly ==
  /\ step \in {"confirm", "secure"}
  /\ SendBody \/ \E q \in Requests, apart \in way.apart : SendRequest(q, apart)
  /\ UNCHANGED hsVars

(* Client::try_send once handshake_final has set `secure`.                 *)
PeerSends ==
  /\ step = "secure"
  /\ SendBody \/ \E q \in Requests, apart \in way.apart : SendRequest(q, apart)
  /\ UNCHANGED hsVars

(* handshake_callback has registered the read event in place of its own.   *)
HostReads ==
  /\ event = "off" /\ hostSecure
  /\ ReadSock
  /\ UNCHANGED hsVars

ConnectionNext ==
  \/ H!Next /\ UNCHANGED vars
  \/ PeerSends
  \/ HostReads

ConnectionSpec == ConnectionInit /\ [][ConnectionNext]_allVars

(* The network delivers, calls that wait for data return when it has come, *)
(* and the loop runs the callback of an event that is pending.  The peer   *)
(* need not send anything.                                                 *)
FairConnection ==
  /\ ConnectionSpec
  /\ WF_allVars(H!Next /\ UNCHANGED vars)
  /\ WF_allVars(HostReads)

-----------------------------------------------------------------------------
ConnectionTypeOK == TypeOK /\ H!TypeOK

(* Putting the two together adds nothing to either: what the Context goes  *)
(* through it can go through alone, and so can the two sides of the        *)
(* handshake, which a session set up beforehand leaves at rest.            *)
ImplementsContext == Spec
ImplementsHandshake == H!Spec

(* A peer that takes itself for secure shares the vector with a host that  *)
(* does so too.                                                            *)
KeysAgree == H!KeysAgree

(* The confirmation step reads an empty vector only after a failure of one *)
(* of the steps before.                                                    *)
UndefinedOnlyAfterFailure == H!UndefinedOnlyAfterFailure

(* A host that is secure does not leave its peer waiting.                  *)
SecureHostIsConfirmed == H!SecureHostIsConfirmed

(* When a request is on its way the host has registered the read event and *)
(* decrypts with the vector it was encrypted with: read_sock never finds   *)
(* its socket unsecured, which would begin a handshake the peer has no     *)
(* part in (context.cpp:104).                                              *)
RequestsMeetTheKey ==
  stream # <<>> => event = "off" /\ hostSecure /\ hostIv = peerIv

(* What is on its way can be read: the host is in read_sock's event and    *)
(* recvfrom has room for at least one block.                               *)
ReaderIsReady ==
  stream # <<>> => event = "off" /\ hostSecure /\ Chunks # {}

(* A host that is secure does not owe its peer anything.                   *)
ConfirmationIsComing == H!ConfirmationIsComing

=============================================================================
