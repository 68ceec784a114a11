------------------------------- MODULE Server -------------------------------
(***************************************************************************)
(* The connections of a Server (src/server.cpp, and the life of a Context  *)
(* in src/context.cpp): accepting, the handshake event, the read event     *)
(* when the peer closes, ctx_pool and close_connection.                    *)
(*                                                                         *)
(* Callbacks of the event loop are atomic: they run one after the other on *)
(* the loop's thread, receive_callback joining the thread it starts.       *)
(* close_connection only enqueues; its tasks run on the pool's threads,    *)
(* between any two callbacks.  (ServerStop has both overlap.)              *)
(***************************************************************************)
EXTENDS Naturals, Sequences, SequencesExt

CONSTANTS
  Conns,       (* connections that peers open                              *)
  Fds,         (* descriptors the process may use for connections          *)
  KeyIsFd,     (* emplace(sock.get_fd(), ...std::move(sock)...): whether   *)
               (* the compiler evaluates get_fd() before the move          *)
  PeersClose,  (* peers may close their connection                         *)
  Faults,      (* handshake_final may find a part of the answer, or        *)
               (* something else, and a send to a peer that has closed may *)
               (* fail                                                     *)
  MaxCloses,   (* calls of close_connection for one connection             *)
  Workers,     (* threads of the pool                                      *)
  None

ASSUME ServerAssumption ==
  /\ Fds \subseteq Nat \ 0 .. 2
  /\ None \notin Conns
  /\ KeyIsFd \in BOOLEAN /\ PeersClose \in BOOLEAN /\ Faults \in BOOLEAN
  /\ MaxCloses \in Nat
  /\ Workers \in Nat \ {0}

VARIABLES
  peer,     (* what each peer has done: "away", "connect", "answer" the    *)
            (* handshake or send "part" of an answer                       *)
  closed,   (* the peers that have closed their connection                 *)
  kernel,   (* the connection behind each descriptor, or None              *)
  ctx,      (* the Context of each connection: "none", "handshake" or      *)
            (* "read" by the event it is registered for, "idle" without    *)
            (* event, "gone" after its destruction                         *)
  sock,     (* the descriptor in its socket, 0 after close_fd              *)
  ctx_pool, (* the Context under each key, or None                         *)
  tasks,    (* keys of the close_connection tasks that have not ended, in  *)
            (* the order of the calls                                      *)
  closes    (* calls of close_connection so far                            *)

vars == <<peer, closed, kernel, ctx, sock, ctx_pool, tasks, closes>>

Keys == Fds \cup {0}

TypeOK ==
  /\ peer \in [Conns -> {"away", "connect", "answer", "part"}]
  /\ closed \in SUBSET Conns
  /\ kernel \in [Fds -> Conns \cup {None}]
  /\ ctx \in [Conns -> {"none", "handshake", "read", "idle", "gone"}]
  /\ sock \in [Conns -> Keys]
  /\ ctx_pool \in [Keys -> Conns \cup {None}]
  /\ tasks \in Seq(Keys)
  /\ closes \in [Conns -> 0 .. MaxCloses]

Init ==
  /\ peer = [c \in Conns |-> "away"]
  /\ closed = {}
  /\ kernel = [f \in Fds |-> None]
  /\ ctx = [c \in Conns |-> "none"]
  /\ sock = [c \in Conns |-> 0]
  /\ ctx_pool = [k \in Keys |-> None]
  /\ tasks = <<>>
  /\ closes = [c \in Conns |-> 0]

-----------------------------------------------------------------------------
(* The peers.                                                              *)

Connect(c) ==
  /\ peer[c] = "away"
  /\ peer' = [peer EXCEPT ![c] = "connect"]
  /\ UNCHANGED <<closed, kernel, ctx, sock, ctx_pool, tasks, closes>>

(* The answer to handshake_init, or the part of it that arrives first.     *)
Answer(c) ==
  /\ peer[c] = "connect"
  /\ ctx[c] = "handshake"
  /\ c \notin closed
  /\ \E say \in IF Faults THEN {"answer", "part"} ELSE {"answer"} :
       peer' = [peer EXCEPT ![c] = say]
  /\ UNCHANGED <<closed, kernel, ctx, sock, ctx_pool, tasks, closes>>

Close(c) ==
  /\ PeersClose
  /\ peer[c] # "away"
  /\ c \notin closed
  /\ closed' = closed \cup {c}
  /\ UNCHANGED <<peer, kernel, ctx, sock, ctx_pool, tasks, closes>>

(* Whether what is sent to the peer of c may be refused.                   *)
SendMayFail(c) == Faults /\ c \in closed

-----------------------------------------------------------------------------
(* The event loop.                                                         *)

(* Mutants of accept_connection, both about a key that is taken: the       *)
(* descriptor is not closed; the new Context takes the place of the other  *)
(* (insert_or_assign for emplace).                                         *)
AcceptAndLeak(c) ==
  /\ peer[c] # "away"
  /\ ctx[c] = "none"
  /\ \E f \in Fds :
       /\ kernel[f] = None
       /\ kernel' = [kernel EXCEPT ![f] = c]
       /\ IF ctx_pool[f] = None
            THEN /\ sock' = [sock EXCEPT ![c] = f]
                 /\ ctx' = [ctx EXCEPT ![c] = "handshake"]
                 /\ ctx_pool' = [ctx_pool EXCEPT ![f] = c]
            ELSE /\ ctx' = [ctx EXCEPT ![c] = "gone"]
                 /\ UNCHANGED <<sock, ctx_pool>>
  /\ UNCHANGED <<peer, closed, tasks, closes>>

AcceptAndReplace(c) ==
  /\ peer[c] # "away"
  /\ ctx[c] = "none"
  /\ \E f \in Fds :
       /\ kernel[f] = None
       /\ kernel' = [kernel EXCEPT ![f] = c]
       /\ sock' = [sock EXCEPT ![c] = f]
       /\ ctx' = [d \in Conns |-> IF d = c THEN "handshake"
                                  ELSE IF d = ctx_pool[f] THEN "gone"
                                  ELSE ctx[d]]
       /\ ctx_pool' = [ctx_pool EXCEPT ![f] = c]
  /\ UNCHANGED <<peer, closed, tasks, closes>>

(* accept() takes the lowest free descriptor and fails without one.  The   *)
(* Context, with the socket moved into it, sends its part of the handshake *)
(* and, if that succeeds, registers the event for the answer.  emplace     *)
(* then does nothing when the key is taken, and the Context is destroyed,  *)
(* which closes the descriptor.                                            *)
AcceptConnection(c) ==
  /\ peer[c] # "away"
  /\ ctx[c] = "none"
  /\ \E f \in Fds, init \in {"handshake"} \cup
                            (IF SendMayFail(c) THEN {"idle"} ELSE {}) :
       /\ kernel[f] = None
       /\ \A g \in Fds : kernel[g] = None => f <= g
       /\ LET key == IF KeyIsFd THEN f ELSE 0
          IN  IF ctx_pool[key] = None
                THEN /\ kernel' = [kernel EXCEPT ![f] = c]
                     /\ sock' = [sock EXCEPT ![c] = f]
                     /\ ctx' = [ctx EXCEPT ![c] = init]
                     /\ ctx_pool' = [ctx_pool EXCEPT ![key] = c]
                ELSE /\ ctx' = [ctx EXCEPT ![c] = "gone"]
                     /\ UNCHANGED <<kernel, sock, ctx_pool>>
  /\ UNCHANGED <<peer, closed, tasks, closes>>

(* Mutants of close_fd: the socket keeps its descriptor; it gets -1.       *)
CloseKeepsFd(c) ==
  /\ kernel' = [kernel EXCEPT ![sock[c]] = None]
  /\ ctx' = [ctx EXCEPT ![c] = "idle"]
  /\ UNCHANGED sock

CloseSetsError(c) ==
  /\ kernel' = [kernel EXCEPT ![sock[c]] = None]
  /\ sock' = [sock EXCEPT ![c] = 0 - 1]
  /\ ctx' = [ctx EXCEPT ![c] = "idle"]

(* recvfrom returned 0: Socket::close_fd.  The event stays registered for  *)
(* a descriptor that is no longer open and never fires again.              *)
PeerClosed(c) ==
  /\ kernel' = [kernel EXCEPT ![sock[c]] = None]
  /\ sock' = [sock EXCEPT ![c] = 0]
  /\ ctx' = [ctx EXCEPT ![c] = "idle"]

(* handshake_callback, for an event that is not persistent: a handshake    *)
(* that fails is begun again, but nothing waits for the answer.            *)
HandshakeEvent(c) ==
  /\ ctx[c] = "handshake"
  /\ \/ /\ peer[c] = "answer"
        /\ ctx' = [ctx EXCEPT ![c] = "read"]
        /\ UNCHANGED <<kernel, sock>>
     \/ /\ peer[c] = "part" \/ (peer[c] = "answer" /\ SendMayFail(c))
        /\ ctx' = [ctx EXCEPT ![c] = "idle"]
        /\ UNCHANGED <<kernel, sock>>
     \/ /\ peer[c] = "connect"
        /\ c \in closed
        /\ PeerClosed(c)
  /\ UNCHANGED <<peer, closed, ctx_pool, tasks, closes>>

(* Mutant: read_sock has the Context removed itself, as its @todo says.    *)
ReadEventAndClose(c) ==
  /\ ctx[c] = "read"
  /\ c \in closed
  /\ PeerClosed(c)
  /\ tasks' = Append(tasks, sock[c])
  /\ UNCHANGED <<peer, closed, ctx_pool, closes>>

(* receive_callback when the peer has closed (what it does with data is    *)
(* the subject of Context): read_sock leaves the Context where it is.      *)
ReadEvent(c) ==
  /\ ctx[c] = "read"
  /\ c \in closed
  /\ PeerClosed(c)
  /\ UNCHANGED <<peer, closed, ctx_pool, tasks, closes>>

-----------------------------------------------------------------------------
(* close_connection: nothing in src/ calls it; the application may, for a  *)
(* connection whose peer has closed.  The descriptor is captured.          *)
CloseConnection(f) ==
  /\ ctx_pool[f] # None
  /\ LET c == ctx_pool[f]
     IN  /\ sock[c] = 0
         /\ closes[c] < MaxCloses
         /\ closes' = [closes EXCEPT ![c] = @ + 1]
  /\ tasks' = Append(tasks, f)
  /\ UNCHANGED <<peer, closed, kernel, ctx, sock, ctx_pool>>

(* The tasks that a thread may have taken from the queue.                  *)
UnderWay == {i \in DOMAIN tasks : i <= Workers}

(* Mutant: the comparison with end() is the wrong way round.               *)
EraseNothing(i) ==
  /\ tasks' = RemoveAt(tasks, i)
  /\ UNCHANGED <<peer, closed, kernel, ctx, sock, ctx_pool, closes>>

(* A task: it erases whatever Context it finds under the descriptor, and   *)
(* ~Socket closes what that has open.                                      *)
EraseContext(i) ==
  /\ tasks' = RemoveAt(tasks, i)
  /\ LET k == tasks[i]
         c == ctx_pool[k]
     IN  IF c = None
           THEN UNCHANGED <<kernel, ctx, sock, ctx_pool>>
           ELSE /\ ctx_pool' = [ctx_pool EXCEPT ![k] = None]
                /\ ctx' = [ctx EXCEPT ![c] = "gone"]
                /\ sock' = [sock EXCEPT ![c] = 0]
                /\ kernel' = [f \in Fds |-> IF f = sock[c] THEN None
                                                           ELSE kernel[f]]
  /\ UNCHANGED <<peer, closed, closes>>

Next ==
  \/ \E c \in Conns :
       \/ Connect(c) \/ Answer(c) \/ Close(c)
       \/ AcceptConnection(c) \/ HandshakeEvent(c) \/ ReadEvent(c)
  \/ \E f \in Fds : CloseConnection(f)
  \/ \E i \in UnderWay : EraseContext(i)

Spec == Init /\ [][Next]_vars

(* The loop runs every callback whose event is pending.  A peer that has   *)
(* connected answers the handshake.                                        *)
FairSpec ==
  /\ Spec
  /\ \A c \in Conns :
       /\ WF_vars(AcceptConnection(c))
       /\ WF_vars(HandshakeEvent(c))
       /\ WF_vars(ReadEvent(c))
       /\ WF_vars(Answer(c))

-----------------------------------------------------------------------------
(* A socket that is not closed holds the descriptor of its own connection: *)
(* none is closed twice, read or written after the number was given to     *)
(* another connection, although numbers are reused at once.                *)
OwnsItsDescriptor ==
  \A c \in Conns : sock[c] # 0 => kernel[sock[c]] = c

(* Every open descriptor belongs to a Context in ctx_pool: no connection   *)
(* stays open without an owner that could ever close it.                   *)
NoDescriptorLeak ==
  \A f \in Fds : kernel[f] # None => \E k \in Keys : ctx_pool[k] = kernel[f]

(* close_connection removes a Context whose peer has closed, and no other. *)
OnlyClosedAreRemoved ==
  [][\A k \in Keys : (ctx_pool[k] # None /\ ctx_pool'[k] # ctx_pool[k])
        => ctx_pool[k] \in closed]_vars

(* accept_connection turns a peer away only because of a Context that has  *)
(* seen its own peer close and was not removed.                            *)
TurnedAwayByClosed ==
  [][\A c \in Conns : (ctx[c] = "none" /\ ctx'[c] = "gone") =>
       \E k \in Keys : /\ ctx_pool[k] \in closed
                       /\ sock[ctx_pool[k]] = 0]_vars

(* What becomes of it where get_fd() is evaluated after the move.          *)
OneContextAtATime ==
  \A j, k \in Keys : ctx_pool[j] # None /\ ctx_pool[k] # None => j = k

(* Every peer that connects is served, unless it closes or the server sees *)
(* only a part of its answer.                                              *)
EveryPeerServed ==
  \A c \in Conns :
    (peer[c] = "connect")
      ~> (ctx[c] = "read" \/ peer[c] = "part" \/ c \in closed)

=============================================================================
