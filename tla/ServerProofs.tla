---------------------------- MODULE ServerProofs ----------------------------
(***************************************************************************)
(* Proofs about Server and ServerStop for any connections, descriptors and *)
(* tasks: sockets own their descriptors, no descriptor leaks, and          *)
(* close_connection, called at most once for a connection whose peer       *)
(* closed, removes no other.  What is shown of the steps of Server carries *)
(* over to ServerStop, because a step of ServerStop is one of Server, the  *)
(* end of ctx_pool, or none.                                               *)
(***************************************************************************)
EXTENDS ServerStop, SequenceTheorems, TLAPS

(* The other tasks stay, in their order.                                   *)
LEMMA RemoveAtStays ==
  ASSUME NEW S, NEW s \in Seq(S), NEW i \in DOMAIN s
  PROVE  /\ RemoveAt(s, i) \in Seq(S)
         /\ Len(RemoveAt(s, i)) = Len(s) - 1
         /\ \A j \in 1 .. Len(s) - 1 :
              RemoveAt(s, i)[j] = s[IF j < i THEN j ELSE j + 1]
<1> DEFINE a == SubSeq(s, 1, i - 1)
           b == SubSeq(s, i + 1, Len(s))
<1>1. Len(s) \in Nat /\ i \in 1 .. Len(s)
  OBVIOUS
<1>2. a \in Seq(S) /\ Len(a) = i - 1 /\ \A j \in 1 .. i - 1 : a[j] = s[j]
  BY <1>1, SubSeqProperties
<1>3. /\ b \in Seq(S) /\ Len(b) = Len(s) - i
      /\ \A j \in 1 .. Len(s) - i : b[j] = s[i + j]
  BY <1>1, SubSeqProperties
<1>4. RemoveAt(s, i) = a \o b
  BY DEF RemoveAt
<1> HIDE DEF a, b
<1>5. /\ a \o b \in Seq(S) /\ Len(a \o b) = Len(a) + Len(b)
      /\ \A j \in 1 .. Len(a) + Len(b) :
           (a \o b)[j] = IF j <= Len(a) THEN a[j] ELSE b[j - Len(a)]
  BY <1>2, <1>3, ConcatProperties, Zenon
<1> DEFINE l == Len(s)
           la == Len(a)
           lb == Len(b)
<1>6. l \in Nat /\ i \in 1 .. l /\ la = i - 1 /\ lb = l - i
  BY <1>1, <1>2, <1>3
<1> HIDE DEF l, la, lb
<1>7. la + lb = l - 1 /\ la \in Nat /\ lb \in Nat
  BY <1>6
<1>8. ASSUME NEW j \in 1 .. l - 1
      PROVE  (a \o b)[j] = s[IF j < i THEN j ELSE j + 1]
  <2>1. (a \o b)[j] = IF j <= la THEN a[j] ELSE b[j - la]
    BY <1>5, <1>7 DEF la, lb
  <2>2. CASE j < i
    <3>1. j <= la /\ j \in 1 .. i - 1
      BY <1>6, <2>2
    <3> QED
      BY <1>2, <2>1, <2>2, <3>1
  <2>3. CASE ~ (j < i)
    <3>1. ~ (j <= la) /\ j - la \in 1 .. l - i /\ i + (j - la) = j + 1
      BY <1>6, <2>3
    <3> QED
      BY <1>3, <2>1, <2>3, <3>1 DEF l
  <2> QED
    BY <2>2, <2>3
<1> QED
  BY <1>4, <1>5, <1>7, <1>8 DEF l, la, lb

(* Descriptors and sockets correspond one to one.                          *)
SocketInv ==
  /\ OwnsItsDescriptor
  /\ \A f \in Fds : kernel[f] # None => sock[kernel[f]] = f

(* A Context is in ctx_pool, once, from its construction to its            *)
(* destruction, and only a Context in between has a descriptor.            *)
PoolInv ==
  /\ \A c \in Conns :
       ctx[c] \in {"none", "gone"} =>
         sock[c] = 0 /\ \A k \in Keys : ctx_pool[k] # c
  /\ \A c \in Conns :
       ctx[c] \notin {"none", "gone"} => \E k \in Keys : ctx_pool[k] = c
  /\ \A j, k \in Keys : ctx_pool[j] # None /\ ctx_pool[j] = ctx_pool[k] => j = k
  /\ \A c \in Conns : ctx[c] \in {"handshake", "read"} => sock[c] # 0

IndInv == TypeOK /\ SocketInv /\ PoolInv

LEMMA IndInvInit == Init => IndInv
<1> USE ServerAssumption DEF Init, Keys
<1>1. Init => TypeOK
  <2>1. <<>> \in Seq(Keys)
    OBVIOUS
  <2> QED
    BY <2>1 DEF TypeOK
<1>2. Init => SocketInv /\ PoolInv
  BY DEF SocketInv, PoolInv, OwnsItsDescriptor
<1> QED
  BY <1>1, <1>2 DEF IndInv

(* What recvfrom returning 0 does, in either callback.                     *)
LEMMA PeerClosedStep ==
  ASSUME IndInv, NEW c \in Conns, PeerClosed(c),
         ctx[c] \in {"handshake", "read"},
         UNCHANGED <<peer, closed, ctx_pool, tasks, closes>>
  PROVE  IndInv'
<1> USE ServerAssumption DEF Keys
<1>1. TypeOK'
  BY DEF IndInv, TypeOK, PeerClosed
<1>2. SocketInv'
  BY DEF IndInv, TypeOK, PeerClosed, SocketInv, PoolInv, OwnsItsDescriptor
<1>3. PoolInv'
  BY DEF IndInv, TypeOK, PeerClosed, PoolInv
<1> QED
  BY <1>1, <1>2, <1>3 DEF IndInv

LEMMA IndInvStep == IndInv /\ [Next]_vars => IndInv'
<1> SUFFICES ASSUME IndInv, [Next]_vars
             PROVE  IndInv'
  OBVIOUS
<1> USE ServerAssumption DEF Keys
<1>0. TypeOK /\ SocketInv /\ PoolInv
  BY DEF IndInv
<1>1. ASSUME NEW c \in Conns, Connect(c) \/ Answer(c) \/ Close(c)
      PROVE  IndInv'
  <2>1. TypeOK'
    BY <1>1, <1>0 DEF Connect, Answer, Close, TypeOK
  <2>2. SocketInv' /\ PoolInv'
    BY <1>1, <1>0
       DEF Connect, Answer, Close, SocketInv, PoolInv, OwnsItsDescriptor
  <2> QED
    BY <2>1, <2>2 DEF IndInv
<1>2. ASSUME NEW c \in Conns, AcceptConnection(c)
      PROVE  IndInv'
  <2>1. PICK f \in Fds, init \in {"handshake", "idle"} :
          /\ kernel[f] = None
          /\ LET key == IF KeyIsFd THEN f ELSE 0
             IN  IF ctx_pool[key] = None
                   THEN /\ kernel' = [kernel EXCEPT ![f] = c]
                        /\ sock' = [sock EXCEPT ![c] = f]
                        /\ ctx' = [ctx EXCEPT ![c] = init]
                        /\ ctx_pool' = [ctx_pool EXCEPT ![key] = c]
                   ELSE /\ ctx' = [ctx EXCEPT ![c] = "gone"]
                        /\ UNCHANGED <<kernel, sock, ctx_pool>>
    BY <1>2 DEF AcceptConnection
  <2>2. ctx[c] = "none" /\ UNCHANGED <<peer, closed, tasks, closes>>
    BY <1>2 DEF AcceptConnection
  <2> DEFINE key == IF KeyIsFd THEN f ELSE 0
  <2>3. CASE ctx_pool[key] = None
    <3>1. key \in Keys /\ f # 0
      OBVIOUS
    <3>2. /\ kernel' = [kernel EXCEPT ![f] = c]
          /\ sock' = [sock EXCEPT ![c] = f]
          /\ ctx' = [ctx EXCEPT ![c] = init]
          /\ ctx_pool' = [ctx_pool EXCEPT ![key] = c]
      BY <2>1, <2>3
    <3> HIDE DEF key
    <3>3. TypeOK'
      BY <3>1, <3>2, <2>2, <1>0 DEF TypeOK
    <3>4. SocketInv'
      BY <3>1, <3>2, <2>1, <2>2, <1>0
         DEF TypeOK, SocketInv, PoolInv, OwnsItsDescriptor
    <3>5. PoolInv'
      BY <3>1, <3>2, <2>2, <2>3, <1>0 DEF TypeOK, PoolInv
    <3> QED
      BY <3>3, <3>4, <3>5 DEF IndInv
  <2>4. CASE ctx_pool[key] # None
    <3>1. /\ ctx' = [ctx EXCEPT ![c] = "gone"]
          /\ UNCHANGED <<kernel, sock, ctx_pool>>
      BY <2>1, <2>4
    <3>2. TypeOK'
      BY <3>1, <2>2, <1>0 DEF TypeOK
    <3>3. SocketInv' /\ PoolInv'
      BY <3>1, <2>2, <1>0 DEF TypeOK, SocketInv, PoolInv, OwnsItsDescriptor
    <3> QED
      BY <3>2, <3>3 DEF IndInv
  <2> QED
    BY <2>3, <2>4
<1>3. ASSUME NEW c \in Conns, HandshakeEvent(c)
      PROVE  IndInv'
  <2>1. CASE PeerClosed(c)
    BY <1>3, <2>1, PeerClosedStep DEF HandshakeEvent
  <2>2. CASE ~PeerClosed(c)
    <3>1. /\ ctx[c] = "handshake"
          /\ \/ ctx' = [ctx EXCEPT ![c] = "read"]
             \/ ctx' = [ctx EXCEPT ![c] = "idle"]
          /\ UNCHANGED <<peer, closed, kernel, sock, ctx_pool, tasks, closes>>
      BY <1>3, <2>2 DEF HandshakeEvent
    <3>2. TypeOK'
      BY <3>1, <1>0 DEF TypeOK
    <3>3. SocketInv' /\ PoolInv'
      BY <3>1, <1>0 DEF TypeOK, SocketInv, PoolInv, OwnsItsDescriptor
    <3> QED
      BY <3>2, <3>3 DEF IndInv
  <2> QED
    BY <2>1, <2>2
<1>4. ASSUME NEW c \in Conns, ReadEvent(c)
      PROVE  IndInv'
  BY <1>4, PeerClosedStep DEF ReadEvent
<1>5. ASSUME NEW f \in Fds, CloseConnection(f)
      PROVE  IndInv'
  <2>1. TypeOK'
    BY <1>5, <1>0 DEF CloseConnection, TypeOK
  <2>2. SocketInv' /\ PoolInv'
    BY <1>5, <1>0 DEF CloseConnection, SocketInv, PoolInv, OwnsItsDescriptor
  <2> QED
    BY <2>1, <2>2 DEF IndInv
<1>6. ASSUME NEW i \in UnderWay, EraseContext(i)
      PROVE  IndInv'
  <2>0. i \in DOMAIN tasks /\ tasks \in Seq(Keys)
    BY <1>0 DEF UnderWay, TypeOK
  <2>1. /\ tasks[i] \in Keys /\ tasks' = RemoveAt(tasks, i)
        /\ tasks' \in Seq(Keys) /\ UNCHANGED <<peer, closed, closes>>
    BY <1>6, <2>0, RemoveAtStays DEF EraseContext
  <2> DEFINE k == tasks[i]
             c == ctx_pool[k]
  <2>2. CASE c = None
    <3>1. UNCHANGED <<kernel, ctx, sock, ctx_pool>>
      BY <1>6, <2>2 DEF EraseContext
    <3> QED
      BY <2>1, <3>1, <1>0
         DEF IndInv, TypeOK, SocketInv, PoolInv, OwnsItsDescriptor
  <2>3. CASE c # None
    <3>1. /\ ctx_pool' = [ctx_pool EXCEPT ![k] = None]
          /\ ctx' = [ctx EXCEPT ![c] = "gone"]
          /\ sock' = [sock EXCEPT ![c] = 0]
          /\ kernel' = [f \in Fds |-> IF f = sock[c] THEN None ELSE kernel[f]]
      BY <1>6, <2>3 DEF EraseContext
    <3>2. k \in Keys /\ c \in Conns /\ ctx_pool[k] = c
      BY <2>1, <2>3, <1>0 DEF TypeOK
    <3> HIDE DEF k, c
    <3>3. TypeOK'
      BY <2>1, <3>1, <3>2, <1>0 DEF TypeOK
    <3>4. SocketInv'
      BY <3>1, <3>2, <1>0 DEF TypeOK, SocketInv, OwnsItsDescriptor
    <3>5. PoolInv'
      BY <3>1, <3>2, <1>0 DEF TypeOK, PoolInv
    <3> QED
      BY <3>3, <3>4, <3>5 DEF IndInv
  <2> QED
    BY <2>2, <2>3
<1>7. CASE UNCHANGED vars
  BY <1>7, <1>0 DEF vars, IndInv, TypeOK, SocketInv, PoolInv, OwnsItsDescriptor
<1> QED
  BY <1>1, <1>2, <1>3, <1>4, <1>5, <1>6, <1>7 DEF Next

LEMMA IndInvInvariant == Spec => []IndInv
  BY IndInvInit, IndInvStep, PTL DEF Spec

-----------------------------------------------------------------------------
(* The variables keep their types: descriptors stay among those that the   *)
(* process may use, and no queued task names any other key.                *)
THEOREM TypeCorrect == Spec => []TypeOK
<1>1. IndInv => TypeOK
  BY DEF IndInv
<1> QED
  BY <1>1, IndInvInvariant, PTL

(* Every socket that is not closed holds the number of its own connection, *)
(* however often the kernel reuses numbers.                                *)
THEOREM OwnsItsDescriptorHolds == Spec => []OwnsItsDescriptor
<1>1. IndInv => OwnsItsDescriptor
  BY DEF IndInv, SocketInv
<1> QED
  BY <1>1, IndInvInvariant, PTL

LEMMA LeakFromIndInv == IndInv => NoDescriptorLeak
<1> SUFFICES ASSUME IndInv, NEW f \in Fds, kernel[f] # None
             PROVE  \E k \in Keys : ctx_pool[k] = kernel[f]
  BY DEF NoDescriptorLeak
<1>1. kernel[f] \in Conns /\ sock[kernel[f]] = f /\ f # 0
  BY ServerAssumption DEF IndInv, TypeOK, SocketInv
<1>2. ctx[kernel[f]] \notin {"none", "gone"}
  BY <1>1 DEF IndInv, PoolInv
<1> QED
  BY <1>1, <1>2 DEF IndInv, PoolInv

(* Whatever is open is owned by a Context in ctx_pool.                     *)
THEOREM NoDescriptorLeakHolds == Spec => []NoDescriptorLeak
  BY LeakFromIndInv, IndInvInvariant, PTL

-----------------------------------------------------------------------------
(* When close_connection is called at most once for a connection, each     *)
(* waiting task still finds the Context it was enqueued for.               *)
TaskInv ==
  /\ \A i \in DOMAIN tasks :
       /\ ctx_pool[tasks[i]] # None
       /\ closes[ctx_pool[tasks[i]]] = 1
  /\ \A i, j \in DOMAIN tasks : tasks[i] = tasks[j] => i = j
  /\ \A c \in Conns : closes[c] # 0 => c \in closed
  /\ \A c \in Conns : ctx[c] = "idle" /\ sock[c] = 0 => c \in closed

LEMMA TaskInvInit == Init => TaskInv
  BY DEF Init, TaskInv

LEMMA TaskInvStep ==
  ASSUME MaxCloses <= 1, IndInv, TaskInv, [Next]_vars
  PROVE  TaskInv' /\ \A k \in Keys :
           (ctx_pool[k] # None /\ ctx_pool'[k] # ctx_pool[k])
             => ctx_pool[k] \in closed
<1> DEFINE Removed == \A k \in Keys :
             (ctx_pool[k] # None /\ ctx_pool'[k] # ctx_pool[k])
               => ctx_pool[k] \in closed
<1> USE ServerAssumption DEF Keys
<1>0. TypeOK /\ SocketInv /\ PoolInv /\ TaskInv
  BY DEF IndInv
<1>1. ASSUME NEW c \in Conns, Connect(c) \/ Answer(c) \/ Close(c)
      PROVE  TaskInv' /\ Removed
  BY <1>1, <1>0 DEF Connect, Answer, Close, TypeOK, TaskInv
<1>2. ASSUME NEW c \in Conns, AcceptConnection(c)
      PROVE  TaskInv' /\ Removed
  <2>1. /\ UNCHANGED <<peer, closed, tasks, closes>>
        /\ \A k \in Keys : ctx_pool[k] # None => ctx_pool'[k] = ctx_pool[k]
        /\ \A d \in Conns : ctx'[d] = "idle" /\ sock'[d] = 0 =>
             ctx[d] = "idle" /\ sock[d] = 0
    BY <1>2, <1>0 DEF AcceptConnection, TypeOK, PoolInv
  <2>2. \A i \in DOMAIN tasks : tasks[i] \in Keys
    BY <1>0 DEF TypeOK
  <2> QED
    BY <2>1, <2>2, <1>0 DEF TaskInv
<1>3. ASSUME NEW c \in Conns, HandshakeEvent(c) \/ ReadEvent(c)
      PROVE  TaskInv' /\ Removed
  <2>1. /\ UNCHANGED <<peer, closed, ctx_pool, tasks, closes>>
        /\ \A d \in Conns : ctx'[d] = "idle" /\ sock'[d] = 0 =>
             d \in closed
    BY <1>3, <1>0
       DEF HandshakeEvent, ReadEvent, PeerClosed, TypeOK, PoolInv, TaskInv
  <2> QED
    BY <2>1, <1>0 DEF TaskInv
<1>4. ASSUME NEW f \in Fds, CloseConnection(f)
      PROVE  TaskInv' /\ Removed
  <2> DEFINE c == ctx_pool[f]
  <2>1. /\ c # None /\ sock[c] = 0 /\ closes[c] < MaxCloses
        /\ closes' = [closes EXCEPT ![c] = @ + 1]
        /\ tasks' = Append(tasks, f)
        /\ UNCHANGED <<peer, closed, kernel, ctx, sock, ctx_pool>>
    BY <1>4 DEF CloseConnection
  <2>2. c \in Conns /\ closes[c] = 0
    BY <2>1, <1>0 DEF TypeOK
  <2>3. c \in closed
    BY <2>1, <2>2, <1>0 DEF TypeOK, PoolInv, TaskInv
  <2>4. \A i \in DOMAIN tasks : tasks[i] # f
    BY <2>2, <1>0 DEF TaskInv
  <2> HIDE DEF c
  <2>5. /\ tasks \in Seq(Keys)
        /\ \A i \in DOMAIN tasks' :
             \/ i \in DOMAIN tasks /\ tasks'[i] = tasks[i]
             \/ i = Len(tasks) + 1 /\ tasks'[i] = f
    BY <2>1, <1>0 DEF TypeOK
  <2>6. \A i \in DOMAIN tasks' : /\ ctx_pool'[tasks'[i]] # None
                                 /\ closes'[ctx_pool'[tasks'[i]]] = 1
    BY <2>1, <2>2, <2>5, <1>0 DEF TypeOK, TaskInv, c
  <2>7. \A i, j \in DOMAIN tasks' : tasks'[i] = tasks'[j] => i = j
    BY <2>4, <2>5, <1>0 DEF TaskInv
  <2>8. \A d \in Conns : closes'[d] # 0 => d \in closed'
    BY <2>1, <2>2, <2>3, <1>0 DEF TypeOK, TaskInv
  <2> QED
    BY <2>1, <2>6, <2>7, <2>8, <1>0 DEF TaskInv
<1>5. ASSUME NEW n \in UnderWay, EraseContext(n)
      PROVE  TaskInv' /\ Removed
  <2>0. n \in DOMAIN tasks /\ tasks \in Seq(Keys)
    BY <1>0 DEF UnderWay, TypeOK
  <2>1. tasks' = RemoveAt(tasks, n) /\ UNCHANGED <<peer, closed, closes>>
    BY <1>5 DEF EraseContext
  <2> DEFINE k == tasks[n]
             c == ctx_pool[k]
             old(i) == IF i < n THEN i ELSE i + 1
  <2>2. /\ k \in Keys
        /\ \A i \in DOMAIN tasks' : /\ old(i) \in DOMAIN tasks /\ old(i) # n
                                    /\ tasks'[i] = tasks[old(i)]
        /\ \A i, j \in DOMAIN tasks' : old(i) = old(j) => i = j
    <3>1. /\ tasks' \in Seq(Keys) /\ Len(tasks') = Len(tasks) - 1
          /\ \A j \in 1 .. Len(tasks) - 1 : tasks'[j] = tasks[old(j)]
      BY <2>0, <2>1, RemoveAtStays
    <3> QED
      BY <2>0, <3>1
  <2> HIDE DEF old
  <2>3. c \in Conns /\ c # None /\ closes[c] = 1
    <3>1. ctx_pool[tasks[n]] # None /\ closes[ctx_pool[tasks[n]]] = 1
      BY <2>0, <1>0 DEF TaskInv
    <3>2. ctx_pool[k] \in Conns \cup {None}
      BY <2>2, <1>0 DEF TypeOK
    <3> QED
      BY <3>1, <3>2
  <2>4. c \in closed
    BY <2>3, <1>0 DEF TaskInv
  <2>5. /\ ctx_pool' = [ctx_pool EXCEPT ![k] = None]
        /\ ctx' = [ctx EXCEPT ![c] = "gone"]
        /\ sock' = [sock EXCEPT ![c] = 0]
    BY <1>5, <2>3 DEF EraseContext
  <2>6. Removed
    BY <2>2, <2>4, <2>5, <1>0 DEF TypeOK
  <2>7. \A i \in DOMAIN tasks' : tasks'[i] # k /\ tasks'[i] \in Keys
    <3>1. ASSUME NEW i \in DOMAIN tasks'
          PROVE  tasks[old(i)] # tasks[n] /\ tasks[old(i)] \in Keys
      BY <2>0, <2>2, <1>0 DEF TaskInv
    <3> QED
      BY <3>1, <2>2
  <2> HIDE DEF k, c
  <2>8. \A i \in DOMAIN tasks' : /\ ctx_pool'[tasks'[i]] # None
                                 /\ closes'[ctx_pool'[tasks'[i]]] = 1
    BY <2>1, <2>2, <2>5, <2>7, <1>0 DEF TypeOK, TaskInv
  <2>9. \A i, j \in DOMAIN tasks' : tasks'[i] = tasks'[j] => i = j
    <3>1. ASSUME NEW i \in DOMAIN tasks', NEW j \in DOMAIN tasks',
                 tasks'[i] = tasks'[j]
          PROVE  i = j
      <4>1. old(i) = old(j)
        BY <3>1, <2>2, <1>0 DEF TaskInv
      <4> QED
        BY <4>1, <2>2
    <3> QED
      BY <3>1
  <2>10. \A d \in Conns : ctx'[d] = "idle" /\ sock'[d] = 0 => d \in closed'
    BY <2>1, <2>3, <2>5, <1>0 DEF TypeOK, TaskInv
  <2> QED
    BY <2>1, <2>6, <2>8, <2>9, <2>10, <1>0 DEF TaskInv
<1>6. CASE UNCHANGED vars
  BY <1>6, <1>0 DEF vars, TaskInv
<1> QED
  BY <1>1, <1>2, <1>3, <1>4, <1>5, <1>6 DEF Next

(* close_connection removes only Contexts whose peer has closed, provided  *)
(* it is called once for each: with two calls the second task may find the *)
(* descriptor's next user.                                                 *)
THEOREM OnlyClosedAreRemovedHolds ==
  ASSUME MaxCloses <= 1
  PROVE  Spec => OnlyClosedAreRemoved
<1>1. Spec => [](IndInv /\ TaskInv)
  BY TaskInvInit, IndInvInit, IndInvStep, TaskInvStep, PTL DEF Spec
<1>2. IndInv /\ TaskInv /\ [Next]_vars =>
        [\A k \in Keys : (ctx_pool[k] # None /\ ctx_pool'[k] # ctx_pool[k])
           => ctx_pool[k] \in closed]_vars
  BY TaskInvStep
<1> QED
  BY <1>1, <1>2, PTL DEF Spec, OnlyClosedAreRemoved

-----------------------------------------------------------------------------
(* Which key a Context has: that of its descriptor, also after the socket  *)
(* was closed, or always 0.                                                *)
KeyInv ==
  /\ \A k \in Keys : ctx_pool[k] # None =>
       IF KeyIsFd THEN sock[ctx_pool[k]] \in {0, k} ELSE k = 0
  /\ \A c \in Conns : ctx[c] = "idle" /\ sock[c] = 0 => c \in closed

LEMMA KeyInvInit == Init => KeyInv
  BY DEF Init, KeyInv

LEMMA KeyInvStep == IndInv /\ KeyInv /\ [Next]_vars => KeyInv'
<1> SUFFICES ASSUME IndInv, KeyInv, [Next]_vars
             PROVE  KeyInv'
  OBVIOUS
<1> USE ServerAssumption DEF Keys
<1>0. TypeOK /\ PoolInv /\ KeyInv
  BY DEF IndInv
<1>1. ASSUME NEW c \in Conns, Connect(c) \/ Answer(c) \/ Close(c)
      PROVE  KeyInv'
  BY <1>1, <1>0 DEF Connect, Answer, Close, KeyInv
<1>2. ASSUME NEW c \in Conns, AcceptConnection(c)
      PROVE  KeyInv'
  <2>1. PICK f \in Fds, init \in {"handshake", "idle"} :
          /\ UNCHANGED closed
          /\ LET key == IF KeyIsFd THEN f ELSE 0
             IN  IF ctx_pool[key] = None
                   THEN /\ sock' = [sock EXCEPT ![c] = f]
                        /\ ctx' = [ctx EXCEPT ![c] = init]
                        /\ ctx_pool' = [ctx_pool EXCEPT ![key] = c]
                   ELSE /\ ctx' = [ctx EXCEPT ![c] = "gone"]
                        /\ UNCHANGED <<sock, ctx_pool>>
    BY <1>2 DEF AcceptConnection
  <2> DEFINE key == IF KeyIsFd THEN f ELSE 0
  <2>2. CASE ctx_pool[key] = None
    <3>1. key \in Keys /\ f # 0 /\ (IF KeyIsFd THEN f = key ELSE key = 0)
      OBVIOUS
    <3>2. /\ sock' = [sock EXCEPT ![c] = f]
          /\ ctx' = [ctx EXCEPT ![c] = init]
          /\ ctx_pool' = [ctx_pool EXCEPT ![key] = c]
          /\ UNCHANGED closed
      BY <2>1, <2>2
    <3>3. ctx[c] = "none"
      BY <1>2 DEF AcceptConnection
    <3> HIDE DEF key
    <3>4. \A k \in Keys : ctx_pool[k] # c
      BY <3>3, <1>0 DEF PoolInv
    <3> QED
      BY <3>1, <3>2, <3>4, <1>0 DEF TypeOK, KeyInv
  <2>3. CASE ctx_pool[key] # None
    <3>1. /\ ctx' = [ctx EXCEPT ![c] = "gone"]
          /\ UNCHANGED <<sock, ctx_pool, closed>>
      BY <2>1, <2>3
    <3> QED
      BY <3>1, <1>0 DEF TypeOK, KeyInv
  <2> QED
    BY <2>2, <2>3
<1>3. ASSUME NEW c \in Conns, HandshakeEvent(c) \/ ReadEvent(c)
      PROVE  KeyInv'
  <2>1. CASE PeerClosed(c) /\ c \in closed
    BY <1>3, <2>1, <1>0
       DEF HandshakeEvent, ReadEvent, PeerClosed, TypeOK, KeyInv
  <2>2. CASE ~(PeerClosed(c) /\ c \in closed)
    <3>1. /\ ctx[c] = "handshake"
          /\ \/ ctx' = [ctx EXCEPT ![c] = "read"]
             \/ ctx' = [ctx EXCEPT ![c] = "idle"]
          /\ UNCHANGED <<closed, sock, ctx_pool>>
      BY <1>3, <2>2 DEF HandshakeEvent, ReadEvent
    <3>2. sock[c] # 0
      BY <3>1, <1>0 DEF PoolInv
    <3> QED
      BY <3>1, <3>2, <1>0 DEF TypeOK, KeyInv
  <2> QED
    BY <2>1, <2>2
<1>4. ASSUME NEW f \in Fds, CloseConnection(f)
      PROVE  KeyInv'
  BY <1>4, <1>0 DEF CloseConnection, KeyInv
<1>5. ASSUME NEW i \in UnderWay, EraseContext(i)
      PROVE  KeyInv'
  <2>1. tasks[i] \in Keys /\ UNCHANGED closed
    BY <1>5, <1>0 DEF EraseContext, UnderWay, TypeOK
  <2> DEFINE k == tasks[i]
             c == ctx_pool[k]
  <2>2. CASE c = None
    BY <1>5, <2>1, <2>2, <1>0 DEF EraseContext, KeyInv
  <2>3. CASE c # None
    <3>1. /\ ctx_pool' = [ctx_pool EXCEPT ![k] = None]
          /\ ctx' = [ctx EXCEPT ![c] = "gone"]
          /\ sock' = [sock EXCEPT ![c] = 0]
      BY <1>5, <2>3 DEF EraseContext
    <3>2. k \in Keys /\ c \in Conns
      BY <2>1, <2>3, <1>0 DEF TypeOK
    <3> HIDE DEF k, c
    <3> QED
      BY <2>1, <3>1, <3>2, <1>0 DEF TypeOK, KeyInv
  <2> QED
    BY <2>2, <2>3
<1>6. CASE UNCHANGED vars
  BY <1>6, <1>0 DEF vars, KeyInv
<1> QED
  BY <1>1, <1>2, <1>3, <1>4, <1>5, <1>6 DEF Next

LEMMA KeyInvariant == Spec => []KeyInv
  BY KeyInvInit, KeyInvStep, IndInvInvariant, PTL DEF Spec

(* Where get_fd() is evaluated before the move: only a Context whose peer  *)
(* has closed stands in the way of a new connection.                       *)
THEOREM TurnedAwayByClosedHolds ==
  ASSUME KeyIsFd
  PROVE  Spec => TurnedAwayByClosed
<1>1. IndInv /\ KeyInv /\ [Next]_vars =>
        [\A c \in Conns : (ctx[c] = "none" /\ ctx'[c] = "gone") =>
           \E k \in Keys : /\ ctx_pool[k] \in closed
                           /\ sock[ctx_pool[k]] = 0]_vars
  <2> SUFFICES ASSUME IndInv, KeyInv, [Next]_vars, NEW c \in Conns,
                      ctx[c] = "none", ctx'[c] = "gone"
               PROVE  \E k \in Keys : /\ ctx_pool[k] \in closed
                                      /\ sock[ctx_pool[k]] = 0
    OBVIOUS
  <2> USE ServerAssumption DEF Keys
  <2>0. TypeOK /\ SocketInv /\ PoolInv /\ KeyInv
    BY DEF IndInv
  <2>1. AcceptConnection(c)
    <3>1. ASSUME NEW i \in UnderWay, EraseContext(i)
          PROVE  FALSE
      <4>0. tasks[i] \in Fds \cup {0}
        BY <2>0 DEF UnderWay, TypeOK
      <4>1. ctx_pool[tasks[i]] # c
        BY <4>0, <2>0 DEF PoolInv
      <4> QED
        BY <3>1, <4>1, <2>0 DEF EraseContext, TypeOK
    <3>2. ASSUME NEW d \in Conns, AcceptConnection(d), d # c
          PROVE  FALSE
      BY <3>2, <2>0 DEF AcceptConnection, TypeOK
    <3>3. ASSUME NEW d \in Conns,
                 \/ Connect(d) \/ Answer(d) \/ Close(d)
                 \/ HandshakeEvent(d) \/ ReadEvent(d)
          PROVE  FALSE
      BY <3>3, <2>0 DEF Connect, Answer, Close, HandshakeEvent, ReadEvent,
                        PeerClosed, TypeOK
    <3>4. CASE UNCHANGED vars \/ \E f \in Fds : CloseConnection(f)
      BY <3>4 DEF vars, CloseConnection
    <3> QED
      BY <3>1, <3>2, <3>3, <3>4 DEF Next
  <2>2. PICK f \in Fds : kernel[f] = None /\ ctx_pool[f] # None
    BY <2>0, <2>1 DEF AcceptConnection, TypeOK
  <2>3. ctx_pool[f] \in Conns /\ f # 0 /\ sock[ctx_pool[f]] \in {0, f}
    <3>1. f \in Keys /\ f # 0
      OBVIOUS
    <3>2. ctx_pool[f] \in Conns
      BY <2>0, <2>2, <3>1 DEF TypeOK
    <3> QED
      BY <2>0, <2>2, <3>1, <3>2 DEF KeyInv
  <2>4. sock[ctx_pool[f]] = 0
    BY <2>0, <2>2, <2>3 DEF SocketInv, OwnsItsDescriptor
  <2>5. ctx[ctx_pool[f]] = "idle"
    BY <2>0, <2>3, <2>4 DEF PoolInv, TypeOK
  <2> QED
    BY <2>0, <2>3, <2>4, <2>5 DEF KeyInv
<1> QED
  BY <1>1, KeyInvariant, IndInvInvariant, PTL DEF Spec, TurnedAwayByClosed

(* Where it is evaluated after the move ctx_pool never holds more than one *)
(* Context: every other connection is turned away as long as that one is   *)
(* there.                                                                  *)
THEOREM OneContextAtATimeHolds ==
  ASSUME ~ KeyIsFd
  PROVE  Spec => []OneContextAtATime
<1>1. KeyInv => OneContextAtATime
  BY DEF KeyInv, OneContextAtATime
<1> QED
  BY <1>1, KeyInvariant, PTL

-----------------------------------------------------------------------------
(***************************************************************************)
(* ServerStop.                                                             *)
(***************************************************************************)

(* A task that has begun is one of those under way.                        *)
EraseInv == erase # 0 => erase \in UnderWay

LEMMA StopStepIsServerStep ==
  ASSUME EraseInv, StopNext
  PROVE  \/ Next \/ UNCHANGED vars
         \/ ReleaseContexts /\ DestroyMember
<1>1. CASE Peers \/ \E f \in Fds : Tidy(f)
  BY <1>1 DEF Peers, Tidy, Next
<1>2. CASE \E c \in Conns : Begin(c) \/ End(c)
  BY <1>2 DEF Begin, End, Next, Goes
<1>3. CASE EndErase
  BY <1>3 DEF EndErase, EraseInv, Next, Goes
<1>4. CASE \/ Run \/ StopInside \/ Leave \/ AllocateWork \/ RunWork \/ WakeUp
           \/ StopOutside \/ Destruct \/ LoopExit \/ HaltPool
           \/ \E i \in UnderWay : BeginErase(i)
  BY <1>4
     DEF Run, StopInside, Leave, AllocateWork, RunWork, WakeUp, StopOutside,
         Destruct, LoopExit, HaltPool, BeginErase, Goes
<1>5. CASE DestroyMember
  BY <1>5 DEF DestroyMember
<1> QED
  BY <1>1, <1>2, <1>3, <1>4, <1>5 DEF StopNext

(* Tasks that have not ended keep their places while one is under way.     *)
LEMMA EraseStep ==
  ASSUME TypeOK, EraseInv, [StopNext]_allVars
  PROVE  EraseInv'
<1> USE DEF EraseInv, UnderWay
<1>0. tasks \in Seq(Keys)
  BY DEF TypeOK
<1>1. ASSUME UNCHANGED <<tasks, erase>>
      PROVE  EraseInv'
  BY <1>1
<1>2. CASE Peers
  BY <1>1, <1>2 DEF Peers, Connect, Answer, Close, stopVars, poolVars
<1>3. ASSUME NEW f \in Fds, Tidy(f)
      PROVE  EraseInv'
  <2>1. tasks' = Append(tasks, f) /\ erase' = erase
    BY <1>3 DEF Tidy, CloseConnection, stopVars, poolVars
  <2>2. Len(tasks') = Len(tasks) + 1 /\ DOMAIN tasks \subseteq DOMAIN tasks'
    BY <1>0, <2>1
  <2> QED
    BY <2>1, <2>2
<1>4. ASSUME NEW c \in Conns, Begin(c) \/ End(c)
      PROVE  EraseInv'
  BY <1>1, <1>4
     DEF Begin, End, AcceptConnection, HandshakeEvent, ReadEvent, Goes, vars,
         poolVars
<1>5. ASSUME NEW i \in UnderWay, BeginErase(i)
      PROVE  EraseInv'
  <2>1. tasks' = tasks /\ erase' \in {erase, i}
    BY <1>5 DEF BeginErase, Goes, vars, poolVars
  <2> QED
    BY <2>1
<1>6. CASE EndErase
  BY <1>1, <1>6 DEF EndErase, Goes, vars, poolVars
<1>7. CASE \/ Run \/ StopInside \/ Leave \/ AllocateWork \/ RunWork \/ WakeUp
           \/ StopOutside \/ Destruct \/ LoopExit \/ HaltPool
  BY <1>1, <1>7
     DEF Run, StopInside, Leave, AllocateWork, RunWork, WakeUp, StopOutside,
         Destruct, LoopExit, HaltPool, Goes, vars, poolVars
<1>8. CASE DestroyMember
  BY <1>1, <1>8 DEF DestroyMember, ReleaseContexts, vars, poolVars
<1>9. CASE UNCHANGED allVars
  BY <1>1, <1>9 DEF allVars, vars, stopVars, poolVars
<1> QED
  BY <1>2, <1>3, <1>4, <1>5, <1>6, <1>7, <1>8, <1>9 DEF StopNext

(* The destruction of ctx_pool.                                            *)
LEMMA ReleaseStep == IndInv /\ ReleaseContexts => IndInv'
<1> SUFFICES ASSUME IndInv, ReleaseContexts
             PROVE  IndInv'
  OBVIOUS
<1> USE ServerAssumption DEF Keys
<1>0. TypeOK /\ SocketInv /\ PoolInv
  BY DEF IndInv
<1> DEFINE pooled == {ctx_pool[k] : k \in Keys}
<1>1. /\ ctx_pool' = [k \in Keys |-> None]
      /\ ctx' = [c \in Conns |-> IF c \in pooled THEN "gone" ELSE ctx[c]]
      /\ sock' = [c \in Conns |-> IF c \in pooled THEN 0 ELSE sock[c]]
      /\ kernel' = [f \in Fds |-> IF \E c \in Conns \cap pooled : sock[c] = f
                                    THEN None ELSE kernel[f]]
      /\ UNCHANGED <<peer, closed, tasks, closes>>
  BY DEF ReleaseContexts
<1>2. \A c \in Conns : c \in pooled <=> ctx[c] \notin {"none", "gone"}
  <2> TAKE c \in Conns
  <2>1. c \in pooled <=> \E k \in Keys : ctx_pool[k] = c
    OBVIOUS
  <2> HIDE DEF pooled
  <2> QED
    BY <1>0, <2>1 DEF PoolInv
<1> HIDE DEF pooled
<1>3. TypeOK'
  BY <1>0, <1>1 DEF TypeOK
<1>4. \A c \in Conns : ctx'[c] \in {"none", "gone"} /\ sock'[c] = 0
  BY <1>0, <1>1, <1>2 DEF TypeOK, PoolInv
<1>5. \A f \in Fds : kernel'[f] = None
  <2> SUFFICES ASSUME NEW f \in Fds, kernel[f] # None
               PROVE  kernel[f] \in Conns \cap pooled /\ sock[kernel[f]] = f
    BY <1>1
  <2>1. kernel[f] \in Conns /\ sock[kernel[f]] = f /\ f # 0
    BY <1>0 DEF TypeOK, SocketInv
  <2> QED
    BY <1>0, <1>2, <2>1 DEF PoolInv
<1>6. SocketInv'
  BY <1>4, <1>5 DEF SocketInv, OwnsItsDescriptor
<1>7. PoolInv'
  BY <1>1, <1>4 DEF PoolInv
<1> QED
  BY <1>3, <1>6, <1>7 DEF IndInv

LEMMA StopIndInv == StopSpec => [](IndInv /\ EraseInv)
<1>1. StopInit => IndInv /\ EraseInv
  BY IndInvInit DEF StopInit, EraseInv
<1>2. IndInv /\ EraseInv /\ [StopNext]_allVars => IndInv' /\ EraseInv'
  <2>0. IndInv /\ EraseInv /\ [StopNext]_allVars => EraseInv'
    BY EraseStep DEF IndInv
  <2>1. IndInv /\ EraseInv /\ StopNext => IndInv'
    BY StopStepIsServerStep, ReleaseStep, IndInvStep
  <2>2. IndInv /\ UNCHANGED allVars => IndInv'
    BY IndInvStep DEF allVars
  <2> QED
    BY <2>0, <2>1, <2>2
<1> QED
  BY <1>1, <1>2, PTL DEF StopSpec

-----------------------------------------------------------------------------
(* Whatever the application does, sockets hold their own descriptors,      *)
(* through stops, tasks and the destruction of the server.                 *)
THEOREM StopOwnsItsDescriptor == StopSpec => []OwnsItsDescriptor
<1>1. IndInv => OwnsItsDescriptor
  BY DEF IndInv, SocketInv
<1> QED
  BY <1>1, StopIndInv, PTL

(* Whatever is open has an owner in ctx_pool, and with ctx_pool every      *)
(* connection is closed.                                                   *)
THEOREM StopNoDescriptorLeak == StopSpec => []NoDescriptorLeak
  BY LeakFromIndInv, StopIndInv, PTL

-----------------------------------------------------------------------------
LEMMA StopTypeStep ==
  ASSUME StopTypeOK, TypeOK', EraseInv', [StopNext]_allVars
  PROVE  StopTypeOK'
<1> USE DEF StopTypeOK, Goes, stopVars, loopVars, poolVars, ownerVars
<1> DEFINE Others == /\ care' \in Cares
                     /\ loop' \in {"new", "running", "left"}
                     /\ exit' \in BOOLEAN
                     /\ callback' \in Conns \cup {None}
                     /\ work' \in 0 .. MaxWork
                     /\ pool' \in {"up", "halted", "asleep"}
                     /\ owner' \in {"using", "stop", "last", "destroying"}
                     /\ destroyed' \in 0 .. Len(Members)
                     /\ misuse' \in {"none", "race", "dead"}
<1>0. Len(Members) = 5 /\ MaxWork \in Nat
  BY StopAssumption DEF Members
<1>1. CASE Peers \/ EndErase \/ \E f \in Fds : Tidy(f)
  <2>1. Others
    BY <1>1 DEF Peers, EndErase, Tidy
  <2> QED
    BY <2>1 DEF EraseInv, UnderWay, TypeOK
<1>2. CASE (\E c \in Conns : Begin(c) \/ End(c))
           \/ \E i \in UnderWay : BeginErase(i)
  <2>1. Others
    BY <1>2 DEF Begin, End, BeginErase
  <2> QED
    BY <2>1 DEF EraseInv, UnderWay, TypeOK
<1>3. CASE Run \/ StopInside \/ Leave \/ StopOutside \/ Destruct \/ LoopExit
  <2>1. Others
    BY <1>3 DEF Run, StopInside, Leave, StopOutside, Destruct, LoopExit
  <2> QED
    BY <2>1 DEF EraseInv, UnderWay, TypeOK
<1>4. CASE AllocateWork \/ RunWork \/ HaltPool \/ WakeUp
  <2>1. Others
    BY <1>0, <1>4 DEF AllocateWork, RunWork, HaltPool, WakeUp
  <2> QED
    BY <2>1 DEF EraseInv, UnderWay, TypeOK
<1>5. CASE DestroyMember
  <2>1. /\ destroyed < 5 /\ destroyed' = destroyed + 1
        /\ UNCHANGED <<care, loopVars, poolVars, owner, misuse>>
    BY <1>0, <1>5 DEF DestroyMember
  <2>2. Others
    BY <1>0, <2>1
  <2> QED
    BY <2>2 DEF EraseInv, UnderWay, TypeOK
<1>6. CASE UNCHANGED allVars
  BY <1>6 DEF allVars, EraseInv, UnderWay, TypeOK
<1> QED
  BY <1>1, <1>2, <1>3, <1>4, <1>5, <1>6 DEF StopNext

(* All variables keep their types, whatever care the application takes.    *)
THEOREM StopTypeCorrect == StopSpec => []StopTypeOK
<1>1. StopInit => StopTypeOK
  <2>1. StopInit => TypeOK
    BY IndInvInit DEF StopInit, IndInv
  <2>2. Len(Members) = 5
    BY DEF Members
  <2>3. 0 \in 0 .. Len(Members) /\ 0 \in 0 .. MaxWork
    BY <2>2, StopAssumption
  <2>4. StopInit => 0 \in 0 .. Len(tasks)
    BY DEF StopInit, Init
  <2> QED
    BY <2>1, <2>3, <2>4 DEF StopInit, StopTypeOK
<1>2. IndInv => TypeOK
  BY DEF IndInv
<1>3. StopTypeOK /\ TypeOK' /\ EraseInv' /\ [StopNext]_allVars => StopTypeOK'
  BY StopTypeStep
<1> QED
  BY <1>1, <1>2, <1>3, StopIndInv, PTL DEF StopSpec

-----------------------------------------------------------------------------
(* What the application's care gives, each part of it its own.  An owner   *)
(* that waits for run() to return has no callback under way when the       *)
(* members go, and ~ThreadPool leaves nothing to execute.                  *)
AfterInv ==
  /\ "wait" \in care /\ owner \in {"last", "destroying"} => loop = "left"
  /\ loop # "running" => callback = None
  /\ loop = "new" => \A k \in Keys : ctx_pool[k] = None
  /\ destroyed > 0 => /\ owner = "destroying"
                      /\ \A k \in Keys : ctx_pool[k] = None
  /\ destroyed > 1 => tasks = <<>> /\ work = 0

(* One that also lets close_connection's tasks run first leaves none for   *)
(* the pool to execute after ctx_pool has gone.                            *)
DeadInv ==
  {"wait", "idle"} \subseteq care =>
    /\ misuse # "dead"
    /\ owner \in {"last", "destroying"} => tasks = <<>>

(* With all four there is never a second thread at ctx_pool: the loop has  *)
(* it as long as it runs, then a task, then the owner.                     *)
RaceInv ==
  AllCare =>
    /\ misuse # "race"
    /\ loop # "left" => tasks = <<>>
    /\ loop = "running" => owner = "using"
    /\ owner # "using" => tasks = <<>>
    /\ Len(tasks) <= 1

LEMMA Destroyed ==
  ASSUME StopTypeOK
  PROVE  /\ destroyed \in 0 .. 5 /\ work \in 0 .. MaxWork /\ Len(Members) = 5
         /\ Members[1] = "ctx_pool" /\ Members[2] = "thread_pool"
         /\ \A i \in 3 .. 5 : Members[i] \notin {"ctx_pool", "thread_pool"}
         /\ Dead("ctx_pool") <=> destroyed > 0
         /\ Dead("api") \/ Dead("base") => destroyed > 2
<1>1. /\ destroyed \in 0 .. 5 /\ work \in 0 .. MaxWork /\ Len(Members) = 5
      /\ Members[1] = "ctx_pool" /\ Members[2] = "thread_pool"
      /\ \A i \in 3 .. 5 : Members[i] \notin {"ctx_pool", "thread_pool"}
      /\ \A i \in 1 .. 2 : Members[i] \notin {"api", "base"}
  BY DEF StopTypeOK, Members
<1> QED
  BY <1>1 DEF Dead

LEMMA AfterInit == StopInit => AfterInv /\ DeadInv /\ RaceInv
  BY DEF StopInit, Init, AfterInv, DeadInv, RaceInv

(* A task that has begun is there.                                         *)
LEMMA SomeTask ==
  ASSUME TypeOK, EraseInv
  PROVE  /\ erase # 0 => tasks # <<>>
         /\ \A i \in UnderWay : tasks # <<>> /\ i \in 1 .. Len(tasks)
         /\ Len(tasks) \in Nat
  BY DEF TypeOK, EraseInv, UnderWay

(* The next member goes only when all its predecessors have.               *)
LEMMA MemberStep ==
  ASSUME StopTypeOK, AfterInv, DestroyMember
  PROVE  /\ owner = "destroying" /\ destroyed' = destroyed + 1
         /\ UNCHANGED <<care, tasks, loop, exit, callback, owner, work, misuse>>
         /\ destroyed = 1 => tasks = <<>> /\ work = 0
         /\ \A k \in Keys : ctx_pool'[k] = None
<1> USE DEF loopVars, poolVars, NextMember
<1>0. destroyed \in 0 .. 5 /\ Len(Members) = 5 /\ Members[1] = "ctx_pool"
      /\ Members[2] = "thread_pool"
      /\ \A i \in 3 .. 5 : Members[i] \notin {"ctx_pool", "thread_pool"}
  BY Destroyed
<1>1. /\ owner = "destroying" /\ destroyed' = destroyed + 1
      /\ UNCHANGED <<care, loop, exit, callback, owner, work, misuse>>
  BY DEF DestroyMember
<1>2. CASE destroyed = 0
  <2>1. ReleaseContexts
    BY <1>0, <1>2 DEF DestroyMember
  <2> QED
    BY <1>1, <1>2, <2>1 DEF ReleaseContexts
<1>3. CASE destroyed = 1
  <2>1. UNCHANGED vars /\ tasks = <<>> /\ work = 0
    BY <1>0, <1>3 DEF DestroyMember
  <2> QED
    BY <1>1, <1>3, <2>1 DEF AfterInv, vars
<1>4. CASE destroyed > 1
  <2>1. UNCHANGED vars
    BY <1>0, <1>4 DEF DestroyMember
  <2> QED
    BY <1>0, <1>1, <1>4, <2>1 DEF AfterInv, vars
<1> QED
  BY <1>0, <1>2, <1>3, <1>4

LEMMA AfterStep ==
  ASSUME StopTypeOK, EraseInv, AfterInv, [StopNext]_allVars
  PROVE  AfterInv'
<1> USE DEF AfterInv, Sees, Walking, stopVars, loopVars, poolVars, ownerVars
<1>0. /\ destroyed \in 0 .. 5 /\ work \in 0 .. MaxWork /\ MaxWork \in Nat
      /\ TypeOK
  BY Destroyed, StopAssumption DEF StopTypeOK
<1>1. CASE Peers
  BY <1>1 DEF Peers, Connect, Answer, Close
<1>2. ASSUME NEW f \in Fds, Tidy(f)
      PROVE  AfterInv'
  <2>1. owner = "using" /\ UNCHANGED stopVars /\ ctx_pool' = ctx_pool
    BY <1>2 DEF Tidy, CloseConnection
  <2>2. destroyed = 0
    BY <1>0, <2>1
  <2> QED
    BY <2>1, <2>2
<1>3. CASE EndErase
  <2>1. CASE Dead("ctx_pool")
    BY <1>3, <2>1 DEF EndErase, Goes, vars
  <2>2. CASE ~ Dead("ctx_pool")
    <3>1. destroyed = 0
      BY <1>0, <2>2, Destroyed
    <3>2. CASE UNCHANGED vars
      BY <1>3, <2>2, <3>1, <3>2 DEF EndErase, Goes, vars
    <3>3. CASE EraseContext(erase)
      <4>1. tasks[erase] \in Keys
        BY <1>0, <1>3 DEF EndErase, EraseInv, UnderWay, TypeOK
      <4>2. (\A k \in Keys : ctx_pool[k] = None) => ctx_pool' = ctx_pool
        BY <3>3, <4>1 DEF EraseContext
      <4>3. UNCHANGED <<care, loop, callback, owner, destroyed>>
        BY <1>3, <2>2 DEF EndErase, Goes
      <4> QED
        BY <3>1, <4>2, <4>3
    <3> QED
      BY <1>3, <2>2, <3>2, <3>3 DEF EndErase, Goes
  <2> QED
    BY <2>1, <2>2
<1>4. ASSUME NEW c \in Conns, Begin(c)
      PROVE  AfterInv'
  BY <1>4 DEF Begin, Goes, vars
<1>5. ASSUME NEW c \in Conns, End(c)
      PROVE  AfterInv'
  <2>0. c # None
    BY ServerAssumption
  <2>1. loop = "running"
    BY <1>5, <2>0 DEF End
  <2>2. CASE destroyed > 0
    BY <1>5, <2>2 DEF End, Goes, vars
  <2>3. CASE ~ (destroyed > 0)
    <3>1. UNCHANGED <<care, loop, owner, destroyed>>
      BY <1>5, <2>3 DEF End, Goes
    <3> QED
      BY <1>0, <2>1, <2>3, <3>1
  <2> QED
    BY <2>2, <2>3
<1>6. CASE Run \/ StopInside \/ StopOutside \/ Destruct \/ LoopExit \/ Leave
  BY <1>0, <1>6
     DEF Run, StopInside, StopOutside, Destruct, LoopExit, Leave, Goes, vars
<1>7. CASE AllocateWork
  <2>1. destroyed = 0
    BY <1>0, <1>7 DEF AllocateWork
  <2> QED
    BY <1>7, <2>1 DEF AllocateWork, vars
<1>8. CASE RunWork \/ HaltPool \/ WakeUp \/ \E i \in UnderWay : BeginErase(i)
  BY <1>0, <1>8 DEF RunWork, HaltPool, WakeUp, BeginErase, Goes, vars
<1>9. CASE DestroyMember
  BY <1>0, <1>9, MemberStep
<1>10. CASE UNCHANGED allVars
  BY <1>10 DEF allVars, vars
<1> QED
  BY <1>1, <1>2, <1>3, <1>4, <1>5, <1>6, <1>7, <1>8, <1>9, <1>10
     DEF StopNext

LEMMA DeadStep ==
  ASSUME StopTypeOK, EraseInv, AfterInv, DeadInv, [StopNext]_allVars
  PROVE  DeadInv'
<1> USE DEF DeadInv, Sees, stopVars, loopVars, poolVars, ownerVars
<1>0. /\ destroyed \in 0 .. 5 /\ work \in 0 .. MaxWork /\ MaxWork \in Nat
      /\ TypeOK
  BY Destroyed, StopAssumption DEF StopTypeOK
<1>1. CASE Peers
  BY <1>1 DEF Peers, Connect, Answer, Close
<1>2. ASSUME NEW f \in Fds, Tidy(f)
      PROVE  DeadInv'
  BY <1>2 DEF Tidy
<1>3. CASE EndErase \/ \E i \in UnderWay : BeginErase(i)
  <2>1. tasks # <<>>
    BY <1>0, <1>3, SomeTask DEF EndErase
  <2>2. CASE ~ ({"wait", "idle"} \subseteq care)
    BY <1>3, <2>2 DEF EndErase, BeginErase, Goes
  <2>3. CASE {"wait", "idle"} \subseteq care
    <3>1. owner \notin {"last", "destroying"} /\ destroyed = 0
      BY <1>0, <2>1, <2>3 DEF AfterInv
    <3>2. ~ Dead("ctx_pool")
      BY <3>1, Destroyed
    <3> QED
      BY <1>3, <2>3, <3>1, <3>2 DEF EndErase, BeginErase, Goes
  <2> QED
    BY <2>2, <2>3
<1>4. ASSUME NEW c \in Conns, Begin(c)
      PROVE  DeadInv'
  BY <1>4 DEF Begin, Goes, vars
<1>5. ASSUME NEW c \in Conns, End(c)
      PROVE  DeadInv'
  <2>0. c # None
    BY ServerAssumption
  <2>1. loop = "running"
    BY <1>5, <2>0 DEF End, AfterInv
  <2>2. CASE ~ ({"wait", "idle"} \subseteq care)
    BY <1>5, <2>2 DEF End, Goes
  <2>3. CASE {"wait", "idle"} \subseteq care
    <3>1. owner \notin {"last", "destroying"} /\ destroyed = 0
      BY <1>0, <2>1, <2>3 DEF AfterInv
    <3> QED
      BY <1>5, <3>1 DEF End, Goes
  <2> QED
    BY <2>2, <2>3
<1>6. CASE \/ Run \/ StopInside \/ StopOutside \/ Destruct \/ LoopExit
           \/ AllocateWork \/ HaltPool \/ WakeUp
  BY <1>6 DEF Run, StopInside, StopOutside, Destruct, LoopExit, AllocateWork,
              HaltPool, WakeUp, Goes, Walking, vars
<1>7. CASE Leave
  <2>1. {"wait", "idle"} \subseteq care => destroyed = 0
    BY <1>0, <1>7 DEF Leave, AfterInv
  <2>2. CASE destroyed = 0
    BY <1>7, <2>2 DEF Leave, vars
  <2>3. CASE ~ ({"wait", "idle"} \subseteq care)
    <3>1. care' = care
      BY <1>7 DEF Leave, Goes
    <3> QED
      BY <2>3, <3>1
  <2> QED
    BY <2>1, <2>2, <2>3
<1>8. CASE RunWork
  <2>1. ~ (Dead("api") \/ Dead("base"))
    BY <1>0, <1>8, Destroyed DEF RunWork, AfterInv
  <2> QED
    BY <1>8, <2>1 DEF RunWork, vars
<1>9. CASE DestroyMember
  BY <1>9, MemberStep
<1>10. CASE UNCHANGED allVars
  BY <1>10 DEF allVars, vars
<1> QED
  BY <1>1, <1>2, <1>3, <1>4, <1>5, <1>6, <1>7, <1>8, <1>9, <1>10
     DEF StopNext

LEMMA RaceStep ==
  ASSUME StopTypeOK, EraseInv, AfterInv, RaceInv, [StopNext]_allVars
  PROVE  RaceInv'
<1> USE DEF RaceInv, Sees, Walking, stopVars, loopVars, poolVars, ownerVars
<1>a. CASE ~ AllCare
  <2>1. care' = care
    BY DEF StopNext, Peers, Run, StopInside, Leave, Begin, End, Tidy,
           BeginErase, EndErase, AllocateWork, RunWork, WakeUp, StopOutside,
           Destruct, LoopExit, HaltPool, DestroyMember, Goes, allVars
  <2> QED
    BY <1>a, <2>1 DEF AllCare
<1>b. CASE AllCare
  <2> USE <1>b DEF AllCare
  <2>0. TypeOK /\ tasks \in Seq(Keys) /\ Len(tasks) \in Nat
    BY DEF StopTypeOK, TypeOK
  <2>1. CASE Peers
    BY <2>1 DEF Peers, Connect, Answer, Close
  <2>2. ASSUME NEW f \in Fds, Tidy(f)
        PROVE  RaceInv'
    <3>1. /\ loop # "running" /\ tasks = <<>> /\ owner = "using"
          /\ ctx_pool[f] # None /\ f \in Keys
          /\ tasks' = Append(tasks, f) /\ UNCHANGED stopVars
      BY <2>2 DEF Tidy, CloseConnection, Keys
    <3>2. loop = "left"
      BY <3>1 DEF AfterInv, StopTypeOK
    <3>3. Len(tasks') = 1
      BY <3>1
    <3> QED
      BY <3>1, <3>2, <3>3
  <2>3. ASSUME NEW i \in UnderWay, BeginErase(i)
        PROVE  RaceInv'
    <3>1. tasks # <<>> /\ i = 1
      BY <2>0, <2>3, SomeTask
    <3>2. erase = 0
      BY <2>0, <2>3, <3>1 DEF BeginErase, EraseInv, UnderWay
    <3>3. loop = "left" /\ owner = "using" /\ callback = None
      BY <3>1 DEF AfterInv
    <3> QED
      BY <2>3, <3>2, <3>3 DEF BeginErase, Adding, Goes, vars
  <2>4. CASE EndErase
    <3>1. tasks # <<>> /\ erase \in DOMAIN tasks
      BY <2>0, <2>4, SomeTask DEF EndErase, EraseInv, UnderWay
    <3>2. loop = "left" /\ owner = "using"
      BY <3>1
    <3>3. CASE UNCHANGED vars
      BY <2>4, <3>2, <3>3 DEF EndErase, Goes, vars
    <3>4. CASE EraseContext(erase)
      <4>1. Len(tasks') = Len(tasks) - 1
        BY <2>0, <3>1, <3>4, RemoveAtStays DEF EraseContext
      <4> QED
        BY <2>0, <2>4, <3>2, <4>1 DEF EndErase, Goes
    <3> QED
      BY <2>4, <3>3, <3>4 DEF EndErase, Goes
  <2>5. ASSUME NEW c \in Conns, Begin(c)
        PROVE  RaceInv'
    <3>1. erase = 0
      BY <2>0, <2>5, SomeTask DEF Begin
    <3> QED
      BY <2>5, <3>1 DEF Begin, vars
  <2>6. ASSUME NEW c \in Conns, End(c)
        PROVE  RaceInv'
    <3>0. c # None
      BY ServerAssumption
    <3>1. loop = "running" /\ owner = "using"
      BY <2>6, <3>0 DEF End, AfterInv
    <3>2. tasks' = tasks
      BY <2>6 DEF End, Goes, vars, AcceptConnection, HandshakeEvent, ReadEvent
    <3> QED
      BY <2>6, <3>1, <3>2 DEF End, Goes
  <2>7. CASE StopInside
    <3>1. erase = 0
      BY <2>0, <2>7, SomeTask DEF StopInside
    <3> QED
      BY <2>7, <3>1 DEF StopInside, Removing, vars
  <2>8. CASE LoopExit
    <3>1. erase = 0 /\ callback = None
      BY <2>0, <2>8, SomeTask DEF LoopExit, AfterInv
    <3> QED
      BY <2>8, <3>1 DEF LoopExit, Removing, Adding, vars
  <2>9. CASE \/ Run \/ StopOutside \/ Destruct \/ AllocateWork \/ HaltPool
             \/ WakeUp \/ Leave \/ RunWork
    BY <2>9 DEF Run, StopOutside, Destruct, AllocateWork, HaltPool, WakeUp,
                Leave, RunWork, Goes, AfterInv, vars
  <2>10. CASE DestroyMember
    BY <2>10, MemberStep
  <2>11. CASE UNCHANGED allVars
    BY <2>11 DEF allVars, vars
  <2> QED
    BY <2>1, <2>2, <2>3, <2>4, <2>5, <2>6, <2>7, <2>8, <2>9, <2>10, <2>11
       DEF StopNext
<1> QED
  BY <1>a, <1>b

LEMMA AfterInvariant == StopSpec => []AfterInv
<1>1. StopTypeOK /\ EraseInv /\ AfterInv /\ [StopNext]_allVars => AfterInv'
  BY AfterStep
<1> QED
  BY <1>1, AfterInit, StopTypeCorrect, StopIndInv, PTL DEF StopSpec

(* If the owner waits for run() to return, and whatever else it does:      *)
(* when the destructor has returned no connection is open, no task is left *)
(* and no loop runs.                                                       *)
THEOREM NothingOutlivesHolds == StopSpec => []NothingOutlives
<1>1. AfterInv /\ NoDescriptorLeak /\ StopTypeOK => NothingOutlives
  <2> SUFFICES ASSUME AfterInv, NoDescriptorLeak, StopTypeOK,
                      "wait" \in care, destroyed = Len(Members)
               PROVE  /\ \A f \in Fds : kernel[f] = None
                      /\ tasks = <<>> /\ work = 0
                      /\ loop # "running"
    BY DEF NothingOutlives
  <2>1. destroyed = 5
    BY DEF Members
  <2>2. ASSUME NEW f \in Fds
        PROVE  kernel[f] = None
    BY <2>1 DEF AfterInv, NoDescriptorLeak
  <2> QED
    BY <2>1, <2>2 DEF AfterInv
<1> QED
  BY <1>1, AfterInvariant, StopNoDescriptorLeak, StopTypeCorrect, PTL

(* If it also stops and destroys the server only when no task of           *)
(* close_connection is left, no thread uses a member after its             *)
(* destruction, for any number of threads in the pool.  That run() and     *)
(* stop() overlap, or tasks among each other, does not matter for this.    *)
THEOREM NothingDeadIsUsedHolds == StopSpec => []NothingDeadIsUsed
<1>1. StopTypeOK /\ EraseInv /\ AfterInv /\ DeadInv /\ [StopNext]_allVars
        => DeadInv'
  BY DeadStep
<1>2. DeadInv => NothingDeadIsUsed
  BY DEF DeadInv, NothingDeadIsUsed
<1> QED
  BY <1>1, <1>2, AfterInit, AfterInvariant, StopTypeCorrect, StopIndInv, PTL
     DEF StopSpec

(* An application that sees to all four has no two threads at ctx_pool,    *)
(* however many there are and whatever the peers do.                       *)
THEOREM NoMisuseWithCareHolds == StopSpec => []NoMisuseWithCare
<1>1. StopTypeOK /\ EraseInv /\ AfterInv /\ RaceInv /\ [StopNext]_allVars
        => RaceInv'
  BY RaceStep
<1>2. StopTypeOK /\ RaceInv /\ NothingDeadIsUsed => NoMisuseWithCare
  BY DEF StopTypeOK, RaceInv, NothingDeadIsUsed, NoMisuseWithCare, AllCare
<1> QED
  BY <1>1, <1>2, AfterInit, AfterInvariant, NothingDeadIsUsedHolds,
     StopTypeCorrect, StopIndInv, PTL DEF StopSpec

-----------------------------------------------------------------------------
(* Until the server is destroyed its steps are those of Server, whatever   *)
(* care is taken.                                                          *)
UpTaskInv == owner # "destroying" => TaskInv

LEMMA UpTaskStep ==
  ASSUME MaxCloses <= 1, IndInv, EraseInv, UpTaskInv, [StopNext]_allVars
  PROVE  /\ UpTaskInv'
         /\ owner # "destroying" =>
              \A k \in Keys : (ctx_pool[k] # None /\ ctx_pool'[k] # ctx_pool[k])
                => ctx_pool[k] \in closed
<1>1. CASE owner = "destroying"
  <2>1. owner' = "destroying"
    BY <1>1 DEF StopNext, Peers, Run, StopInside, Leave, Begin, End, Tidy,
                AllocateWork, RunWork, BeginErase, EndErase, WakeUp,
                StopOutside, Destruct, LoopExit, HaltPool, DestroyMember, Goes,
                Walking, allVars, stopVars, ownerVars
  <2> QED
    BY <1>1, <2>1 DEF UpTaskInv
<1>2. CASE owner # "destroying"
  <2>1. TaskInv
    BY <1>2 DEF UpTaskInv
  <2>2. Next \/ UNCHANGED vars
    BY <1>2, StopStepIsServerStep DEF DestroyMember, allVars
  <2> QED
    BY <2>1, <2>2, TaskInvStep DEF UpTaskInv
<1> QED
  BY <1>1, <1>2

(* As long as the server is up, only Contexts whose peer has closed are    *)
(* removed, when close_connection is called at most once for each.  No     *)
(* care is needed for it, up to the first misuse, where runs end.          *)
THEOREM OnlyClosedAreRemovedWhileUpHolds ==
  ASSUME MaxCloses <= 1
  PROVE  StopSpec => OnlyClosedAreRemovedWhileUp
<1>1. StopInit => UpTaskInv
  BY TaskInvInit DEF StopInit, UpTaskInv
<1>2. IndInv /\ EraseInv /\ UpTaskInv /\ [StopNext]_allVars => UpTaskInv'
  BY UpTaskStep
<1>3. IndInv /\ EraseInv /\ UpTaskInv /\ [StopNext]_allVars =>
        [owner # "destroying" =>
           \A k \in Keys : (ctx_pool[k] # None /\ ctx_pool'[k] # ctx_pool[k])
             => ctx_pool[k] \in closed]_allVars
  BY UpTaskStep
<1> QED
  BY <1>1, <1>2, <1>3, StopIndInv, PTL
     DEF StopSpec, OnlyClosedAreRemovedWhileUp

=============================================================================
