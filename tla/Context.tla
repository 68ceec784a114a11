------------------------------ MODULE Context ------------------------------
(***************************************************************************)
(* One accepted and secured connection as its Context reads it: the peer's *)
(* encrypted messages, SecureSocket::try_recv, Socket's receive buffer,    *)
(* Context::read_sock and the event callback that runs it.                 *)
(*                                                                         *)
(* The unit of length is a cipher block.  The peer encrypts a record (the  *)
(* argument of one SecureSocket::try_send) with the session's fixed key    *)
(* and initialisation vector; a record is one or more messages, each ended *)
(* by a null byte, here of one block each.  TCP keeps no record limits:    *)
(* what one recvfrom returns is decrypted as if it were one record.        *)
(***************************************************************************)
EXTENDS Naturals, Sequences, FiniteSets, SequencesExt

CONSTANTS
  Pings,          (* requests of type PING                                 *)
  Bare,           (* requests whose header says size = 0                   *)
  Full,           (* requests of a header and a message that follows it    *)
  Known,          (* requests whose path has an endpoint (set_endpoint)    *)
  Ways,           (* how read_sock may be called and what the peer does:   *)
                  (*   served    the Context has a server, and            *)
                  (*             receive_callback calls it on a copy; or   *)
                  (*             it has none, and the caller on itself     *)
                  (*   apart     {FALSE}: header and message are sent as   *)
                  (*             one record; {TRUE}: as two; or as the     *)
                  (*             peer likes                                *)
                  (*   waits     the peer waits until a record has been    *)
                  (*             read, and a request answered, before it   *)
                  (*             sends the next                            *)
                  (*   cut       recvfrom may return less than was sent    *)
                  (*   capacity  of the receive buffer                     *)
  None            (* no request, or no message                             *)

Requests == Pings \cup Bare \cup Full

(* The requests that read_sock calls handle_request for.                   *)
Work == Bare \cup Full

HeadOf(q) == [part |-> "head", of |-> q]
BodyOf(q) == [part |-> "body", of |-> q]
Junk == [part |-> "junk", of |-> None]   (* a garbled plaintext         *)
Messages == [part : {"head", "body"}, of : Requests] \cup {Junk}

ASSUME ContextAssumption ==
  /\ Cardinality(Pings) + Cardinality(Bare) + Cardinality(Full)
       = Cardinality(Requests)
  /\ Known \subseteq Work
  /\ None \notin Requests
  /\ Ways \subseteq [served : BOOLEAN, apart : SUBSET BOOLEAN,
                     waits : BOOLEAN, cut : BOOLEAN,
                     capacity : Nat \ {0}]

VARIABLES
  way,            (* one of Ways                                           *)
  sent,           (* peer: the requests it has sent, at least the header   *)
  due,            (* peer: the request whose message is still to be sent   *)
  stream,         (* blocks on their way or in the kernel's buffer         *)
  buf,            (* Socket::buf: plaintext messages                       *)
  header,         (* Context::header, None unless header_parsed            *)
  handled,        (* calls of handle_request, with header and request_data *)
  replies         (* what was sent back: answers, pings and errors         *)

vars == <<way, sent, due, stream, buf, header, handled, replies>>

TypeOK ==
  /\ way \in Ways
  /\ sent \in Seq(Requests)
  /\ due \in Requests \cup {None}
  /\ stream \in Seq([msg : Messages, first : BOOLEAN, last : BOOLEAN])
  /\ buf \in Seq(Messages)
  /\ Len(buf) <= way.capacity
  /\ header \in Full \cup {None}
  /\ handled \in Seq([head : Work, body : Messages \cup {None}])
  /\ replies \in Seq({"answer", "ping", "error"})

Init ==
  /\ way \in Ways
  /\ sent = <<>>
  /\ due = None
  /\ stream = <<>>
  /\ buf = <<>>
  /\ header = None
  /\ handled = <<>>
  /\ replies = <<>>

-----------------------------------------------------------------------------
(* The peer.                                                               *)

Record(msgs) ==
  [i \in 1 .. Len(msgs) |->
     [msg |-> msgs[i], first |-> i = 1, last |-> i = Len(msgs)]]

SendRequest(q, apart) ==
  /\ q \notin Range(sent)
  /\ due = None
  /\ way.waits => /\ stream = <<>>
                  /\ way.served => Len(replies) >= Len(sent)
  /\ sent' = Append(sent, q)
  /\ stream' = stream \o Record(IF q \in Full /\ ~apart
                                  THEN <<HeadOf(q), BodyOf(q)>>
                                  ELSE <<HeadOf(q)>>)
  /\ due' = IF q \in Full /\ apart THEN q ELSE None
  /\ UNCHANGED <<way, buf, header, handled, replies>>

SendBody ==
  /\ due # None
  /\ way.waits => stream = <<>>
  /\ stream' = stream \o Record(<<BodyOf(due)>>)
  /\ due' = None
  /\ UNCHANGED <<way, sent, buf, header, handled, replies>>

-----------------------------------------------------------------------------
(* SecureSocket::try_recv.                                                 *)

(* Cipher block chaining: a block comes out right if it is the first of    *)
(* its record and of what is decrypted, or the first of neither.           *)
Decrypt(chunk) ==
  [i \in DOMAIN chunk |->
     IF chunk[i].first = (i = 1) THEN chunk[i].msg ELSE Junk]

(* The padding at the end is that of a record.                             *)
Decrypts(chunk) ==
  /\ chunk[Len(chunk)].last
  /\ Decrypt(chunk)[Len(chunk)] # Junk

(* What recvfrom may return: what has arrived, or the part that fits.      *)
Chunks ==
  LET space == way.capacity - Len(buf)
      most  == IF Len(stream) < space THEN Len(stream) ELSE space
  IN  {SubSeq(stream, 1, n) : n \in (IF way.cut THEN 1 ELSE most) .. most}
        \ {<<>>}

(* Mutants of handle_request: an unknown path is not answered; the message *)
(* is gone before the handler asks for it.                                 *)
HandleSilently(q, body, also) ==
  /\ handled' = Append(handled, [head |-> q, body |-> body])
  /\ replies' = (IF way.served /\ q \in Known
                   THEN Append(replies, "answer") ELSE replies) \o also

HandleBare(q, body, also) ==
  /\ handled' = Append(handled, [head |-> q, body |-> None])
  /\ replies' = (IF way.served
                   THEN Append(replies, IF q \in Known THEN "answer"
                                                       ELSE "error")
                   ELSE replies) \o also

(* handle_request: exec_endpoint, or an error when the path is unknown.  A *)
(* handler answers once; `also` is what read_sock sends after it.  Without *)
(* a server it returns at once, and header and request_data are all that   *)
(* there is to see of it.                                                  *)
HandleRequest(q, body, also) ==
  /\ handled' = Append(handled, [head |-> q, body |-> body])
  /\ replies' = (IF way.served
                   THEN Append(replies, IF q \in Known THEN "answer"
                                                       ELSE "error")
                   ELSE replies) \o also

(* Assigning to header and header_parsed.                                  *)
SetHeader(q) == header' = IF way.served THEN header ELSE q

(* Mutants of the second half of read_sock: it returns once it has the     *)
(* header; it does not reset header_parsed.                                *)
ReadBodyLater(q, rest, canWrite) ==
  /\ SetHeader(q)
  /\ buf' = rest
  /\ UNCHANGED <<handled, replies>>

ReadBodyAgain(q, rest, canWrite) ==
  /\ SetHeader(q)
  /\ buf' = IF rest # <<>> THEN Tail(rest) ELSE <<>>
  /\ IF rest = <<>>
       THEN UNCHANGED <<handled, replies>>
       ELSE HandleRequest(q, rest[1], <<>>)

(* The message that belongs to header q, if it has come, from the rest of  *)
(* the buffer; then, if the ciphertext had filled the buffer, an error and *)
(* a fresh start.                                                          *)
ReadBody(q, rest, canWrite) ==
  LET full == IF canWrite THEN <<>> ELSE <<"error">>
  IN  /\ SetHeader(IF canWrite /\ rest = <<>> THEN q ELSE None)
      /\ buf' = IF canWrite /\ rest # <<>> THEN Tail(rest) ELSE <<>>
      /\ IF rest = <<>>
           THEN replies' = replies \o full /\ UNCHANGED handled
           ELSE HandleRequest(q, rest[1], full)

(* Mutant: what was no header of two parts is left in the buffer.          *)
ReadHeaderPeeks(m, rest, canWrite) ==
  IF m.part = "head" /\ m.of \in Full
    THEN ReadBody(m.of, rest, canWrite)
    ELSE /\ buf' = <<m>> \o rest
         /\ replies' = Append(replies, "error")
         /\ UNCHANGED <<header, handled>>

(* Mutant: header_parsed is set before the size is looked at.              *)
ReadHeaderHasty(m, rest, canWrite) ==
  IF m.part = "head" /\ m.of \in Full
    THEN ReadBody(m.of, rest, canWrite)
    ELSE /\ buf' = rest
         /\ IF m.part = "head" /\ m.of \in Bare
              THEN SetHeader(m.of) /\ HandleRequest(m.of, None, <<>>)
              ELSE /\ replies' = Append(replies, IF m.part = "head" THEN "ping"
                                                                   ELSE "error")
                   /\ UNCHANGED <<header, handled>>

(* A message read as a header.  A message that is none parses as a header  *)
(* without a path or does not parse: an error either way.  There always is *)
(* one: the last block that was decrypted is whole and ends in a null      *)
(* byte.  The peer is there, so that the answer to a ping can be sent.     *)
ReadHeader(m, rest, canWrite) ==
  IF m.part = "head" /\ m.of \in Full
    THEN ReadBody(m.of, rest, canWrite)
    ELSE /\ buf' = rest
         /\ UNCHANGED header
         /\ IF m.part = "head" /\ m.of \in Bare
              THEN HandleRequest(m.of, None, <<>>)
              ELSE /\ replies' = Append(replies, IF m.part = "head" THEN "ping"
                                                                   ELSE "error")
                   /\ UNCHANGED handled

(* The read event of the connection: receive_callback and read_sock, which *)
(* it runs to the end.  Without space recvfrom is not called at all and    *)
(* nothing happens.                                                        *)
ReadSock ==
  \E chunk \in Chunks :
    /\ stream' = SubSeq(stream, Len(chunk) + 1, Len(stream))
    /\ IF Decrypts(chunk)
         THEN LET plain    == buf \o Decrypt(chunk)
                  canWrite == Len(buf) + Len(chunk) < way.capacity
              IN  IF header = None
                    THEN ReadHeader(plain[1], Tail(plain), canWrite)
                    ELSE ReadBody(header, plain, canWrite)
         ELSE replies' = Append(replies, "error")
              /\ UNCHANGED <<buf, header, handled>>
    /\ UNCHANGED <<way, sent, due>>

Next ==
  \/ \E q \in Requests, apart \in way.apart : SendRequest(q, apart)
  \/ SendBody
  \/ ReadSock

Spec == Init /\ [][Next]_vars

(* The event is level triggered and persistent: the event loop runs the    *)
(* callback as long as there is something to read.  The peer may stop at   *)
(* any time.                                                               *)
FairSpec == Spec /\ WF_vars(ReadSock)

-----------------------------------------------------------------------------
Position(q) == CHOOSE n \in DOMAIN sent : sent[n] = q

(* Whatever is merged, cut, garbled or thrown away, handle_request (and so *)
(* a handler) is called for no request that the peer has not sent, for     *)
(* none twice, and for none after a later one.                             *)
HandledInOrder ==
  /\ \A i \in DOMAIN handled : handled[i].head \in Range(sent)
  /\ \A i, j \in DOMAIN handled :
       i < j => Position(handled[i].head) < Position(handled[j].head)

(* No event leaves the receive buffer full, whatever comes merged or is    *)
(* left behind: a full one would make every later try_recv return 0, and   *)
(* the read event fire for ever, before anything could empty it.           *)
RoomIsLeft == Len(buf) < way.capacity

(* Records are read one at a time and whole.                               *)
Orderly == way.waits /\ ~way.cut

(* handle_request finds the message that came with the header, if records  *)
(* are not merged: a garbled one is not told from the real.                *)
HandledAsSent ==
  way.waits =>
    \A i \in DOMAIN handled :
      handled[i].body = IF handled[i].head \in Full
                          THEN BodyOf(handled[i].head) ELSE None

Complete == IF due = None THEN Range(sent) ELSE Range(sent) \ {due}

(* A peer that waits for a server's answer does not wait in vain: whatever *)
(* it has sent, once all of it is read there is a reply, be it an error,   *)
(* to every request.                                                       *)
AnsweredWhenRead ==
  way.served /\ way.waits /\ stream = <<>> /\ due = None
    => Len(replies) >= Len(sent)

(* Nothing is to be lost: records are read one at a time, a record fits    *)
(* into the buffer, and read_sock keeps a header that is sent apart.       *)
Lossless ==
  Orderly /\ way.capacity > 1 /\ (way.served => TRUE \notin way.apart)

(* Then handle_request has been called for every request that has been     *)
(* sent and read and is no ping.                                           *)
HandledWhenRead ==
  Lossless /\ stream = <<>> =>
    \A q \in Work \cap Complete : \E i \in DOMAIN handled :
      handled[i].head = q

(* For a request that was sent completely, and is no ping, handle_request  *)
(* is called in the end, which calls the handler where there is one.       *)
EveryRequestHandled ==
  \A q \in Work :
    (Orderly /\ q \in Complete)
      ~> (\E i \in DOMAIN handled : handled[i].head = q)

(* Every complete request to a server is answered in the end, at least by  *)
(* an error: a peer that waits for the answer does not wait for ever.      *)
EveryRequestAnswered ==
  \A n \in 1 .. Cardinality(Requests) :
    (way.served /\ Orderly /\ Len(sent) >= n /\ due = None)
      ~> (Len(replies) >= n)

=============================================================================
