-------------------------- MODULE DescriptorProofs --------------------------
(***************************************************************************)
(* Proofs about Descriptors for any sockets and descriptors.  Each theorem *)
(* assumes only those rules for the callers that its property needs.       *)
(***************************************************************************)
EXTENDS Descriptors, TLAPS

(* Zero is no descriptor of a connection, and no object is one of the      *)
(* values that kernel has besides the objects.                             *)
LEMMA Distinct ==
  /\ Fds \subseteq Nat \ 0 .. 2
  /\ \A o \in Objects : o # Nobody /\ o # "std" /\ o # "lost"
  /\ Nobody # "std" /\ Nobody # "lost"
  BY DescriptorAssumption

LEMMA FdType ==
  ASSUME TypeOK
  PROVE  \A o \in Objects : fd[o] \in Int /\ (fd[o] > 0 => fd[o] \in Fds)
<1>1. \A n \in Numbers \cup {-1} : n \in Int /\ (n > 0 => n \in Fds)
  BY Distinct DEF Numbers
<1>2. \A o \in Objects : fd[o] \in Numbers \cup {-1}
  BY DEF TypeOK
<1> QED
  BY <1>1, <1>2

-----------------------------------------------------------------------------
LEMMA TypeInit == Init => TypeOK
  BY DEF Init, TypeOK, Numbers

LEMMA TypeStep == TypeOK /\ [Next]_vars => TypeOK'
<1> SUFFICES ASSUME TypeOK, [Next]_vars
             PROVE  TypeOK'
  OBVIOUS
<1> USE Distinct DEF TypeOK, Numbers, Close
<1>1. ASSUME NEW o \in Objects,
             Construct(o) \/ Destroy(o) \/ Receive(o) \/ ClearBuffer(o)
      PROVE  TypeOK'
  BY <1>1 DEF Construct, Destroy, Receive, ClearBuffer
<1>2. ASSUME NEW o \in Objects, TryListen(o)
      PROVE  TypeOK'
  BY <1>2 DEF TryListen
<1>3. ASSUME NEW o \in Objects, TryConnect(o)
      PROVE  TypeOK'
  <2>1. PICK before \in {kernel} \cup
                        {[kernel EXCEPT ![n] = "lost"] :
                           n \in {n \in Numbers : Lowest(n, kernel)}} :
          \/ /\ kernel' = before
             /\ fd' = [fd EXCEPT ![o] = -1]
             /\ UNCHANGED linked
          \/ \E n \in Numbers :
               /\ Lowest(n, before)
               /\ kernel' = [before EXCEPT ![n] = o]
               /\ fd' = [fd EXCEPT ![o] = n]
               /\ linked' \in {linked, linked \cup {n}}
    BY <1>3 DEF TryConnect
  <2>2. before \in [Numbers -> Objects \cup {"std", "lost", Nobody}]
    OBVIOUS
  <2> QED
    BY <1>3, <2>1, <2>2 DEF TryConnect
<1>4. ASSUME NEW o \in Objects, CloseFd(o)
      PROVE  TypeOK'
  BY <1>4 DEF CloseFd
<1>5. ASSUME NEW o \in Objects, NEW p \in Objects, TryAccept(o, p)
      PROVE  TypeOK'
  BY <1>5 DEF TryAccept
<1>6. ASSUME NEW o \in Objects, NEW p \in Objects, Copy(o, p)
      PROVE  TypeOK'
  BY <1>6 DEF Copy, Passed
<1>7. ASSUME NEW o \in Objects, NEW p \in Objects, Move(o, p)
      PROVE  TypeOK'
  BY <1>7 DEF Move, Passed
<1>8. CASE UNCHANGED vars
  BY <1>8 DEF vars
<1> QED
  BY <1>1, <1>2, <1>3, <1>4, <1>5, <1>6, <1>7, <1>8 DEF Next

(* The variables keep their types, whatever the callers do: the number in  *)
(* a socket is one of a descriptor, 0 or the -1 of a failed socket().      *)
THEOREM TypeCorrect == Spec => []TypeOK
  BY TypeInit, TypeStep, PTL DEF Spec

-----------------------------------------------------------------------------
(* The steps that open a descriptor, said once for what follows: what was  *)
(* open stays as it is, what opens was free and is the object's or lost.   *)
LEMMA TryConnectStep ==
  ASSUME TypeOK, NEW o \in Objects, TryConnect(o)
  PROVE  /\ \A m \in Numbers :
              \/ kernel'[m] = kernel[m]
              \/ kernel[m] = Nobody /\ kernel'[m] = "lost"
              \/ kernel[m] = Nobody /\ kernel'[m] = o /\ fd'[o] = m
         /\ fd'[o] # -1 => fd'[o] \in Numbers /\ kernel'[fd'[o]] = o
         /\ fd'[o] \in Numbers \cup {-1}
         /\ \A p \in Objects : p # o => fd'[p] = fd[p]
<1> USE Distinct DEF TypeOK, Numbers
<1>1. PICK before \in {kernel} \cup
                      {[kernel EXCEPT ![n] = "lost"] :
                         n \in {n \in Numbers : Lowest(n, kernel)}} :
        \/ kernel' = before /\ fd' = [fd EXCEPT ![o] = -1]
        \/ \E n \in Numbers :
             /\ Lowest(n, before)
             /\ kernel' = [before EXCEPT ![n] = o]
             /\ fd' = [fd EXCEPT ![o] = n]
  BY DEF TryConnect
<1>2. /\ before \in [Numbers -> Objects \cup {"std", "lost", Nobody}]
      /\ \A m \in Numbers : \/ before[m] = kernel[m]
                            \/ kernel[m] = Nobody /\ before[m] = "lost"
  BY DEF Lowest
<1>3. CASE kernel' = before /\ fd' = [fd EXCEPT ![o] = -1]
  BY <1>2, <1>3
<1>4. CASE \E n \in Numbers :
             /\ Lowest(n, before)
             /\ kernel' = [before EXCEPT ![n] = o]
             /\ fd' = [fd EXCEPT ![o] = n]
  <2>1. PICK n \in Numbers :
          /\ before[n] = Nobody
          /\ kernel' = [before EXCEPT ![n] = o]
          /\ fd' = [fd EXCEPT ![o] = n]
    BY <1>4 DEF Lowest
  <2>2. kernel[n] = Nobody
    BY <1>2, <2>1
  <2> QED
    BY <1>2, <2>1, <2>2
<1> QED
  BY <1>1, <1>3, <1>4

-----------------------------------------------------------------------------
(* Where close_fd is called on sockets with a descriptor only, the number  *)
(* 0 stays that of standard input, so that no socket with the number 0 has *)
(* a descriptor: what the proof of OwnsItsDescriptor needs to know of 0.   *)
ZeroIsTaken == kernel[0] = "std"

LEMMA ZeroStep ==
  ASSUME "unopened" \notin Breaches, TypeOK, ZeroIsTaken, [Next]_vars
  PROVE  ZeroIsTaken'
<1> USE Distinct DEF TypeOK, Numbers, ZeroIsTaken
<1>1. ASSUME NEW o \in Objects,
             Construct(o) \/ Receive(o) \/ ClearBuffer(o)
      PROVE  ZeroIsTaken'
  BY <1>1 DEF Construct, Receive, ClearBuffer
<1>2. ASSUME NEW o \in Objects, Destroy(o) \/ CloseFd(o)
      PROVE  ZeroIsTaken'
  BY <1>2 DEF Destroy, CloseFd, Close, Keeps
<1>3. ASSUME NEW o \in Objects, TryListen(o)
      PROVE  ZeroIsTaken'
  BY <1>3 DEF TryListen, Lowest
<1>4. ASSUME NEW o \in Objects, TryConnect(o)
      PROVE  ZeroIsTaken'
  BY <1>4, TryConnectStep
<1>5. ASSUME NEW o \in Objects, NEW p \in Objects, TryAccept(o, p)
      PROVE  ZeroIsTaken'
  BY <1>5 DEF TryAccept, Lowest
<1>6. ASSUME NEW o \in Objects, NEW p \in Objects, Copy(o, p) \/ Move(o, p)
      PROVE  ZeroIsTaken'
  BY <1>6 DEF Copy, Move
<1>7. CASE UNCHANGED vars
  BY <1>7 DEF vars
<1> QED
  BY <1>1, <1>2, <1>3, <1>4, <1>5, <1>6, <1>7 DEF Next

LEMMA ZeroStaysTaken ==
  ASSUME "unopened" \notin Breaches
  PROVE  Spec => []ZeroIsTaken
<1>1. Init => ZeroIsTaken
  BY DEF Init, ZeroIsTaken, Numbers
<1>2. TypeOK /\ ZeroIsTaken /\ [Next]_vars => ZeroIsTaken'
  BY ZeroStep
<1> QED
  BY <1>1, <1>2, TypeCorrect, PTL DEF Spec

-----------------------------------------------------------------------------
LEMMA LeakStep ==
  ASSUME "overwrite" \notin Breaches, TypeOK, NoDescriptorLeak, [Next]_vars
  PROVE  NoDescriptorLeak'
<1> USE Distinct DEF TypeOK, Numbers, NoDescriptorLeak
<1>1. ASSUME NEW o \in Objects,
             Construct(o) \/ Receive(o) \/ ClearBuffer(o)
      PROVE  NoDescriptorLeak'
  BY <1>1 DEF Construct, Receive, ClearBuffer
<1>2. ASSUME NEW o \in Objects, Destroy(o) \/ CloseFd(o)
      PROVE  NoDescriptorLeak'
  BY <1>2 DEF Destroy, CloseFd, Close
<1>3. ASSUME NEW o \in Objects, TryListen(o)
      PROVE  NoDescriptorLeak'
  BY <1>3 DEF TryListen, Lowest, MayOpen
<1>4. ASSUME NEW o \in Objects, TryConnect(o)
      PROVE  NoDescriptorLeak'
  <2>1. fd[o] <= 0 /\ o \in alive /\ alive' = alive
    BY <1>4 DEF TryConnect, MayOpen, Keeps
  <2> QED
    BY <1>4, <2>1, TryConnectStep
<1>5. ASSUME NEW o \in Objects, NEW p \in Objects, TryAccept(o, p)
      PROVE  NoDescriptorLeak'
  <2>1. PICK n \in Numbers :
          /\ kernel[n] = Nobody
          /\ \/ kernel' = [kernel EXCEPT ![n] = p] /\ fd' = [fd EXCEPT ![p] = n]
             \/ kernel' = [kernel EXCEPT ![n] = "lost"] /\ UNCHANGED fd
    BY <1>5 DEF TryAccept, Lowest
  <2>2. p \in alive /\ fd[p] <= 0 /\ UNCHANGED alive
    BY <1>5 DEF TryAccept, MayOpen
  <2> QED
    BY <2>1, <2>2
<1>6. ASSUME NEW o \in Objects, NEW p \in Objects, Copy(o, p)
      PROVE  NoDescriptorLeak'
  BY <1>6 DEF Copy, Target, Keeps
<1>7. ASSUME NEW o \in Objects, NEW p \in Objects, Move(o, p)
      PROVE  NoDescriptorLeak'
  BY <1>7 DEF Move, Target, Keeps
<1>8. CASE UNCHANGED vars
  BY <1>8 DEF vars
<1> QED
  BY <1>1, <1>2, <1>3, <1>4, <1>5, <1>6, <1>7, <1>8 DEF Next

(* A descriptor that is opened for a socket stays with it, or with the one *)
(* it is moved to, until it is closed, as long as nothing is assigned to a *)
(* socket that has one.                                                    *)
THEOREM NoDescriptorLeakHolds ==
  ASSUME "overwrite" \notin Breaches
  PROVE  Spec => []NoDescriptorLeak
<1>1. Init => NoDescriptorLeak
  BY Distinct DEF Init, NoDescriptorLeak, Numbers
<1>2. TypeOK /\ NoDescriptorLeak /\ [Next]_vars => NoDescriptorLeak'
  BY LeakStep
<1> QED
  BY <1>1, <1>2, TypeCorrect, PTL DEF Spec

-----------------------------------------------------------------------------
(* What is over was closed, and what was closed has no descriptor.         *)
SpentInv ==
  \A o \in Objects : /\ kept[o] = "over" => o \in spent
                     /\ o \in spent => fd[o] <= 0

LEMMA SpentStep ==
  ASSUME "reuse" \notin Breaches, TypeOK, SpentInv, [Next]_vars
  PROVE  SpentInv'
<1> USE Distinct DEF TypeOK, Numbers, SpentInv
<1>1. ASSUME NEW o \in Objects,
             Construct(o) \/ Destroy(o) \/ Receive(o) \/ ClearBuffer(o)
      PROVE  SpentInv'
  BY <1>1 DEF Construct, Destroy, Receive, ClearBuffer
<1>2. ASSUME NEW o \in Objects, CloseFd(o)
      PROVE  SpentInv'
  BY <1>2 DEF CloseFd
<1>3. ASSUME NEW o \in Objects, TryListen(o)
      PROVE  SpentInv'
  BY <1>3 DEF TryListen, MayOpen, Keeps
<1>4. ASSUME NEW o \in Objects, TryConnect(o)
      PROVE  SpentInv'
  <2>1. o \notin spent /\ UNCHANGED <<kept, spent>>
    BY <1>4 DEF TryConnect, MayOpen, Keeps
  <2> QED
    BY <1>4, <2>1, TryConnectStep
<1>5. ASSUME NEW o \in Objects, NEW p \in Objects, TryAccept(o, p)
      PROVE  SpentInv'
  BY <1>5 DEF TryAccept, MayOpen, Keeps
<1>6. ASSUME NEW o \in Objects, NEW p \in Objects, Copy(o, p) \/ Move(o, p)
      PROVE  SpentInv'
  BY <1>6 DEF Copy, Move, Passed
<1>7. CASE UNCHANGED vars
  BY <1>7 DEF vars
<1> QED
  BY <1>1, <1>2, <1>3, <1>4, <1>5, <1>6, <1>7 DEF Next

(* Data and keys of a connection that is over are never found in a socket  *)
(* that is open, if sockets are not opened again.                          *)
THEOREM FreshBufferHolds ==
  ASSUME "reuse" \notin Breaches
  PROVE  Spec => []FreshBuffer
<1>1. Init => SpentInv
  BY DEF Init, SpentInv
<1>2. TypeOK /\ SpentInv /\ [Next]_vars => SpentInv'
  BY SpentStep
<1>3. TypeOK /\ SpentInv => FreshBuffer
  <2>1. TypeOK => alive \subseteq Objects /\ \A o \in Objects : fd[o] \in Int
    BY FdType DEF TypeOK
  <2> QED
    BY <2>1 DEF SpentInv, FreshBuffer
<1> QED
  BY <1>1, <1>2, <1>3, TypeCorrect, PTL DEF Spec

-----------------------------------------------------------------------------
(* Two sockets with the same number: neither is listening, and at most one *)
(* has the descriptor.                                                     *)
LEMMA OwnsStep ==
  ASSUME {"stale", "unopened", "overwrite", "copy"} \cap Breaches = {},
         TypeOK, ZeroIsTaken, OwnsItsDescriptor, [Next]_vars
  PROVE  OwnsItsDescriptor'
<1>0. /\ alive \subseteq Objects
      /\ \A o \in Objects : fd[o] \in Int /\ (fd[o] > 0 => fd[o] \in Fds)
      /\ \A o \in alive : fd[o] <= 0 => o \notin listening
  <2>1. \A o \in Objects : fd[o] \in Int /\ (fd[o] > 0 => fd[o] \in Fds)
    BY FdType
  <2>2. alive \subseteq Objects
    BY DEF TypeOK
  <2> QED
    BY <2>1, <2>2 DEF OwnsItsDescriptor
<1> USE Distinct DEF TypeOK, Numbers, ZeroIsTaken, OwnsItsDescriptor
<1>1. ASSUME NEW o \in Objects,
             Construct(o) \/ Receive(o) \/ ClearBuffer(o)
      PROVE  OwnsItsDescriptor'
  BY <1>1 DEF Construct, Receive, ClearBuffer
<1>2. ASSUME NEW o \in Objects, Destroy(o)
      PROVE  OwnsItsDescriptor'
  <2>1. /\ alive' = alive \ {o} /\ UNCHANGED <<fd, listening>>
        /\ \A n \in Numbers : kernel'[n] # kernel[n] =>
             n = fd[o] /\ kernel'[n] = Nobody
    BY <1>2 DEF Destroy, Close
  <2>2. ASSUME NEW q \in alive', q \in listening, fd[o] = fd[q], fd[o] > 0
        PROVE  FALSE
    BY <1>2, <2>1, <2>2 DEF Destroy
  <2>3. ASSUME NEW q \in alive', fd[q] > 0
        PROVE  kernel'[fd[q]] \in {q, Nobody}
    BY <1>0, <2>1, <2>3
  <2>4. ASSUME NEW q \in alive', q \in listening
        PROVE  fd[q] > 0 /\ kernel'[fd[q]] = q
    BY <1>0, <2>1, <2>2, <2>4
  <2> QED
    BY <2>1, <2>3, <2>4
<1>3. ASSUME NEW o \in Objects, CloseFd(o)
      PROVE  OwnsItsDescriptor'
  <2>1. /\ o \in alive /\ fd[o] # 0 /\ UNCHANGED alive
        /\ fd' = [fd EXCEPT ![o] = 0] /\ listening' = listening \ {o}
        /\ \A n \in Numbers : kernel'[n] # kernel[n] =>
             n = fd[o] /\ kernel'[n] = Nobody
    BY <1>3 DEF CloseFd, Close, Keeps
  <2>2. ASSUME NEW q \in alive, q # o, fd[q] > 0
        PROVE  kernel'[fd[q]] \in {q, Nobody}
    BY <1>0, <2>1, <2>2
  <2>3. ASSUME NEW q \in alive, q # o, q \in listening
        PROVE  fd[q] > 0 /\ kernel'[fd[q]] = q
    <3>1. fd[q] > 0 /\ fd[q] \in Fds /\ kernel[fd[q]] = q
      BY <1>0, <2>3
    <3>2. fd[q] # fd[o]
      BY <2>1, <2>3, <3>1
    <3> QED
      BY <2>1, <3>1, <3>2
  <2>4. fd'[o] = 0 /\ \A q \in alive : q # o => fd'[q] = fd[q]
    BY <1>0, <2>1
  <2> QED
    BY <2>1, <2>2, <2>3, <2>4
<1>4. ASSUME NEW o \in Objects, TryListen(o)
      PROVE  OwnsItsDescriptor'
  <2>1. /\ o \in alive /\ fd[o] = 0 /\ UNCHANGED alive /\ o \notin listening
        /\ \A q \in alive : fd[q] > 0 => kernel[fd[q]] # Nobody
    BY <1>0, <1>4 DEF TryListen, MayOpen, Keeps
  <2>2. CASE fd' = [fd EXCEPT ![o] = -1] /\ UNCHANGED <<listening, kernel>>
    <3>1. fd'[o] = -1 /\ \A q \in alive : q # o => fd'[q] = fd[q]
      BY <2>2
    <3> QED
      BY <2>1, <2>2, <3>1
  <2>3. ASSUME NEW n \in Numbers, kernel[n] = Nobody,
               fd' = [fd EXCEPT ![o] = n],
               \/ UNCHANGED <<listening, kernel>>
               \/ /\ kernel' = [kernel EXCEPT ![n] = o]
                  /\ listening' \in {listening, listening \cup {o}}
        PROVE  OwnsItsDescriptor'
    <3>1. n > 0
      BY <2>3
    <3>2. fd'[o] = n /\ \A q \in alive : q # o => fd'[q] = fd[q]
      BY <2>1, <2>3
    <3>3. kernel'[n] \in {o, Nobody} /\ (o \in listening' => kernel'[n] = o)
      BY <2>1, <2>3
    <3>4. ASSUME NEW q \in alive, fd[q] > 0
          PROVE  kernel[fd[q]] = q /\ kernel'[fd[q]] = q
      BY <1>0, <2>1, <2>3, <3>4
    <3> QED
      BY <2>1, <2>3, <3>1, <3>2, <3>3, <3>4
  <2> QED
    BY <1>4, <2>2, <2>3 DEF TryListen, Lowest
<1>5. ASSUME NEW o \in Objects, TryConnect(o)
      PROVE  OwnsItsDescriptor'
  <2>1. /\ o \in alive /\ o \notin listening /\ UNCHANGED <<alive, listening>>
        /\ \A q \in alive : fd[q] > 0 => kernel[fd[q]] # Nobody
    BY <1>0, <1>5 DEF TryConnect, MayOpen, Keeps
  <2>2. \A q \in alive : q # o => fd'[q] = fd[q]
    BY <1>0, <1>5, TryConnectStep
  <2>3. \A q \in alive : fd[q] > 0 => kernel'[fd[q]] = q
    <3>1. \A m \in Numbers : kernel[m] = Nobody \/ kernel'[m] = kernel[m]
      BY <1>5, TryConnectStep
    <3> QED
      BY <1>0, <2>1, <3>1
  <2>4. fd'[o] > 0 => kernel'[fd'[o]] = o
    BY <1>5, TryConnectStep
  <2> QED
    BY <2>1, <2>2, <2>3, <2>4
<1>6. ASSUME NEW o \in Objects, NEW p \in Objects, TryAccept(o, p)
      PROVE  OwnsItsDescriptor'
  <2>1. PICK n \in Numbers :
          /\ kernel[n] = Nobody
          /\ \/ kernel' = [kernel EXCEPT ![n] = p] /\ fd' = [fd EXCEPT ![p] = n]
             \/ kernel' = [kernel EXCEPT ![n] = "lost"] /\ UNCHANGED fd
    BY <1>6 DEF TryAccept, Lowest
  <2>2. /\ p \in alive /\ fd[p] <= 0 /\ p \notin listening
        /\ UNCHANGED <<alive, listening>>
        /\ \A q \in alive : fd[q] > 0 => kernel[fd[q]] # Nobody
    BY <1>0, <1>6 DEF TryAccept, MayOpen, Keeps
  <2>3. \A q \in alive : q # p => fd'[q] = fd[q]
    BY <1>0, <2>1, <2>2
  <2>4. ASSUME NEW q \in alive, fd[q] > 0
        PROVE  kernel'[fd[q]] = q
    BY <1>0, <2>1, <2>2, <2>4
  <2>5. fd'[p] > 0 => kernel'[fd'[p]] = p
    <3>1. CASE kernel' = [kernel EXCEPT ![n] = p] /\ fd' = [fd EXCEPT ![p] = n]
      BY <3>1
    <3>2. CASE UNCHANGED fd
      BY <1>0, <2>2, <3>2
    <3> QED
      BY <2>1, <3>1, <3>2
  <2> QED
    BY <2>2, <2>3, <2>4, <2>5
<1>7. ASSUME NEW o \in Objects, NEW p \in Objects, Copy(o, p)
      PROVE  OwnsItsDescriptor'
  <2>1. /\ o \in alive /\ fd[o] <= 0 /\ alive' = alive \cup {p}
        /\ fd' = [fd EXCEPT ![p] = fd[o]]
        /\ listening' = Passed(listening, o, p) /\ UNCHANGED kernel
    BY <1>7 DEF Copy, Keeps
  <2>2. p \notin listening' /\ \A q \in listening' : q \in listening
    BY <1>0, <2>1 DEF Passed
  <2>3. fd'[p] = fd[o] /\ \A q \in alive : q # p => fd'[q] = fd[q]
    BY <1>0, <2>1
  <2> QED
    BY <1>0, <2>1, <2>2, <2>3
<1>8. ASSUME NEW o \in Objects, NEW p \in Objects, Move(o, p)
      PROVE  OwnsItsDescriptor'
  BY <1>0, <1>8 DEF Move, Passed, Target, Keeps
<1>9. CASE UNCHANGED vars
  BY <1>9 DEF vars
<1> QED
  BY <1>1, <1>2, <1>3, <1>4, <1>5, <1>6, <1>7, <1>8, <1>9 DEF Next

(* No socket ever closes, reads or accepts from what was opened for        *)
(* another, if the callers keep the four rules about descriptors.          *)
THEOREM OwnsItsDescriptorHolds ==
  ASSUME {"stale", "unopened", "overwrite", "copy"} \cap Breaches = {}
  PROVE  Spec => []OwnsItsDescriptor
<1>1. Init => OwnsItsDescriptor
  BY DEF Init, OwnsItsDescriptor
<1>2. TypeOK /\ ZeroIsTaken /\ OwnsItsDescriptor /\ [Next]_vars
        => OwnsItsDescriptor'
  BY OwnsStep
<1>3. Spec => []ZeroIsTaken
  BY ZeroStaysTaken
<1> QED
  BY <1>1, <1>2, <1>3, TypeCorrect, PTL DEF Spec

=============================================================================
