------------------------------- MODULE Socket -------------------------------
(***************************************************************************)
(* Sending on a connected Socket (src/socket.cpp): try_send, called by     *)
(* several threads (handlers, and work that handlers hand to the pool),    *)
(* while the thread of the read event may find the connection closed.      *)
(* A socket that was accepted never blocks.                                *)
(*                                                                         *)
(* A message is the argument of one try_send; SecureSocket::try_send makes *)
(* one record of it, which the peer can only decrypt as a whole.           *)
(***************************************************************************)
EXTENDS Naturals, Sequences

CONSTANTS
  Threads,
  Messages,
  Length,      (* of each message, in bytes                                *)
  Room,        (* bytes that the kernel takes and the peer has not read    *)
  Nobody

ASSUME SocketAssumption ==
  /\ Length \in [Messages -> Nat \ {0}]
  /\ Room \in Nat
  /\ Nobody \notin Threads

VARIABLES
  fd,         (* "open", or "none" after close_fd                          *)
  closed,     (* the peer has closed                                       *)
  killed,     (* SIGPIPE, which nothing in src/ handles, ended the process *)
  pc,         (* where each thread is in try_send: "idle", "lock", "send"  *)
  data,       (* its argument, for a thread that is not idle               *)
  total,      (* its local variable: the bytes that send() has taken       *)
  send_mux,
  outcome,    (* what try_send said of each message: "none", "true" or     *)
              (* "false"; "some" while it is being sent                    *)
  stream,     (* every byte that the kernel has taken                      *)
  unread      (* how many of them still take up room                       *)

threadVars == <<pc, data, total, send_mux, outcome>>
vars == <<fd, closed, killed, threadVars, stream, unread>>

(* n bytes of message m behind the first k.                                *)
Bytes(m, k, n) == [i \in 1 .. n |-> [of |-> m, n |-> k + i]]

Byte == [of : Messages, n : Nat \ {0}]

TypeOK ==
  /\ fd \in {"open", "none"}
  /\ closed \in BOOLEAN
  /\ killed \in BOOLEAN
  /\ pc \in [Threads -> {"idle", "lock", "send"}]
  /\ data \in [Threads -> Messages \cup {Nobody}]
  /\ \A t \in Threads : pc[t] # "idle" => data[t] \in Messages
  /\ total \in [Threads -> Nat]
  /\ \A t \in Threads : pc[t] # "idle" => total[t] < Length[data[t]]
  /\ send_mux \in Threads \cup {Nobody}
  /\ outcome \in [Messages -> {"none", "some", "true", "false"}]
  /\ stream \in Seq(Byte)
  /\ unread \in 0 .. Room

Init ==
  /\ fd = "open"
  /\ closed = FALSE
  /\ killed = FALSE
  /\ pc = [t \in Threads |-> "idle"]
  /\ data = [t \in Threads |-> Nobody]
  /\ total = [t \in Threads |-> 0]
  /\ send_mux = Nobody
  /\ outcome = [m \in Messages |-> "none"]
  /\ stream = <<>>
  /\ unread = 0

-----------------------------------------------------------------------------
(* The peer, and the thread that receives.                                 *)

PeerReads ==
  /\ ~closed
  /\ \E n \in 0 .. unread - 1 : unread' = n
  /\ UNCHANGED <<fd, closed, killed, threadVars, stream>>

PeerCloses ==
  /\ closed' = TRUE
  /\ UNCHANGED <<fd, killed, threadVars, stream, unread>>

(* try_recv when recvfrom returns 0: close_fd, without send_mux.  One step *)
(* closes the descriptor and resets fd, as one loads fd and calls send():  *)
(* that another connection gets the number in between is left out.         *)
CloseFd ==
  /\ ~killed
  /\ closed
  /\ fd = "open"
  /\ fd' = "none"
  /\ UNCHANGED <<closed, killed, threadVars, stream, unread>>

-----------------------------------------------------------------------------
(* try_send: the test of fd, before the lock is taken.                     *)
CallSend(t, m) ==
  /\ ~killed
  /\ pc[t] = "idle"
  /\ outcome[m] = "none"
  /\ IF fd = "none"
       THEN /\ outcome' = [outcome EXCEPT ![m] = "false"]
            /\ UNCHANGED <<pc, data, total>>
       ELSE /\ outcome' = [outcome EXCEPT ![m] = "some"]
            /\ pc' = [pc EXCEPT ![t] = "lock"]
            /\ data' = [data EXCEPT ![t] = m]
            /\ total' = [total EXCEPT ![t] = 0]
  /\ UNCHANGED <<fd, closed, killed, send_mux, stream, unread>>

(* Mutant: the loop is not guarded.                                        *)
LockUnguarded(t) ==
  /\ ~killed
  /\ pc[t] = "lock"
  /\ pc' = [pc EXCEPT ![t] = "send"]
  /\ UNCHANGED <<fd, closed, killed, data, total, send_mux, outcome, stream,
                 unread>>

Lock(t) ==
  /\ ~killed
  /\ pc[t] = "lock"
  /\ send_mux = Nobody
  /\ send_mux' = t
  /\ pc' = [pc EXCEPT ![t] = "send"]
  /\ UNCHANGED <<fd, closed, killed, data, total, outcome, stream, unread>>

(* Leaving the block: the lock is released and the caller gets its answer. *)
Return(t, answer) ==
  /\ pc' = [pc EXCEPT ![t] = "idle"]
  /\ send_mux' = Nobody
  /\ outcome' = [outcome EXCEPT ![data[t]] = answer]
  /\ UNCHANGED data

(* send() takes up to `most` bytes of the message, from that at `from`.    *)
Take(t, from, most) ==
  /\ ~killed
  /\ pc[t] = "send"
  /\ fd = "open"
  /\ \E n \in 1 .. most :
       /\ unread + n <= Room
       /\ unread' = unread + n
       /\ stream' = stream \o Bytes(data[t], from, n)
       /\ total' = [total EXCEPT ![t] = @ + n]
       /\ IF total[t] + n = Length[data[t]]
            THEN Return(t, "true")
            ELSE UNCHANGED <<pc, data, send_mux, outcome>>
  /\ UNCHANGED <<fd, closed, killed>>

(* Mutants: the length, or the pointer, is that of the first round.        *)
SendSomeMore(t) == Take(t, total[t], Length[data[t]])
SendSomeFromStart(t) == Take(t, 0, Length[data[t]] - total[t])

(* One round of the loop, in which send() takes something.                 *)
SendSome(t) == Take(t, total[t], Length[data[t]] - total[t])

(* Mutant: EAGAIN is no error, and the loop tries again.                   *)
SendFailsUnlessFull(t) ==
  /\ ~killed
  /\ pc[t] = "send"
  /\ fd = "none" \/ closed
  /\ Return(t, "false")
  /\ UNCHANGED <<fd, closed, killed, total, stream, unread>>

(* One in which it returns -1: there is no room (EAGAIN), the connection   *)
(* was reset, or fd is 0, which is no socket.  What was taken stays sent.  *)
SendFails(t) ==
  /\ ~killed
  /\ pc[t] = "send"
  /\ unread = Room \/ fd = "none" \/ closed
  /\ Return(t, "false")
  /\ UNCHANGED <<fd, closed, killed, total, stream, unread>>

(* A peer that has closed answers what it is sent with a reset; to send    *)
(* again raises SIGPIPE.                                                   *)
BrokenPipe(t) ==
  /\ ~killed
  /\ pc[t] = "send"
  /\ fd = "open" /\ closed
  /\ killed' = TRUE
  /\ UNCHANGED <<fd, closed, threadVars, stream, unread>>

Next ==
  \/ PeerReads \/ PeerCloses \/ CloseFd
  \/ \E t \in Threads :
       \/ \E m \in Messages : CallSend(t, m)
       \/ Lock(t) \/ SendSome(t) \/ SendFails(t) \/ BrokenPipe(t)

Spec == Init /\ [][Next]_vars

(* Every thread runs on, and a mutex that is released again and again is   *)
(* granted to each that waits.  Nothing is assumed of the peer.            *)
FairSpec ==
  /\ Spec
  /\ \A t \in Threads :
       /\ SF_vars(Lock(t))
       /\ WF_vars(SendSome(t) \/ SendFails(t))

-----------------------------------------------------------------------------
(* The bytes of a message follow each other on the wire, whatever threads  *)
(* send at the same time and however little send() takes at a time: a byte *)
(* is the next one of the message before it, or the first of another.      *)
NotInterleaved ==
  \A i \in 1 .. Len(stream) - 1 :
    \/ stream[i + 1].n = 1
    \/ /\ stream[i + 1].n = stream[i].n + 1
       /\ stream[i + 1].of = stream[i].of

(* The stream without what the thread in the loop has sent so far.         *)
Settled ==
  IF send_mux = Nobody
    THEN stream
    ELSE SubSeq(stream, 1, Len(stream) - total[send_mux])

Abstract == INSTANCE MessageWire WITH wire <- Settled, answer <- outcome

(* Concurrent calls of try_send are as good as atomic: each adds nothing   *)
(* but a beginning of its message to the wire, in one piece and at the     *)
(* moment it returns, and returns true exactly if that is all of it.       *)
ImplementsMessageWire == Abstract!Spec

(* What try_send returns is true: of a message it reports as sent, the     *)
(* kernel has taken every byte, in order and in one piece.                 *)
SentIsWhole ==
  \A m \in Messages : outcome[m] = "true" =>
    \E p \in 0 .. Len(stream) - Length[m] :
      SubSeq(stream, p + 1, p + Length[m]) = Bytes(m, 0, Length[m])

(* Whether the thread has a step to take: the mutex is free, or its round  *)
(* of the loop sends something or fails.                                   *)
CanGoOn(t) ==
  \/ pc[t] = "lock" /\ send_mux = Nobody
  \/ /\ pc[t] = "send"
     /\ \/ fd = "none" \/ closed \/ unread = Room
        \/ unread < Room /\ total[t] < Length[data[t]]

(* The senders are never all stuck: while a call of try_send is under way  *)
(* one of the threads has a step to take, and no loop turns in vain.       *)
NoSendIsStuck ==
  (\E t \in Threads : pc[t] # "idle") => \E t \in Threads : CanGoOn(t)

(* A peer that does not read, or has gone, keeps no thread of the server   *)
(* in try_send or waiting for its mutex.                                   *)
EverySendReturns ==
  \A t \in Threads : (pc[t] # "idle") ~> (pc[t] = "idle" \/ killed)

=============================================================================
