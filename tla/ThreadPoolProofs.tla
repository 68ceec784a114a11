-------------------------- MODULE ThreadPoolProofs --------------------------
(***************************************************************************)
(* Proofs about ThreadPool for any number of workers, enqueuing threads    *)
(* and tasks: its type invariant, its safety invariants, and that it       *)
(* implements TaskPool.                                                    *)
(***************************************************************************)
EXTENDS ThreadPool, Naturals, TLAPS

(* Who is inside the critical sections of queue_mutex.                     *)
MutexInv ==
  /\ \A w \in Workers : wpc[w] \in {"test", "park"} <=> mutex = w
  /\ \A c \in Clients : cpc[c] \in {"test", "emplace"} <=> mutex = c

(* What a worker knows when it is about to sleep, and that it executes a   *)
(* task exactly when it is executing.                                      *)
WorkerInv ==
  \A w \in Workers :
    /\ wpc[w] = "park" => queue = <<>>
    /\ wpc[w] = "exec" <=> task[w] # NoTask

(* The owner clears `run` once and for all, and joins all threads or none. *)
OwnerInv ==
  /\ spc = "halt" => run
  /\ spc \in {"notify", "await", "clear"} => ~run
  /\ joinable # Workers =>
       joinable = {} /\ ~run /\ \A w \in Workers : wpc[w] = "exited"

(* The task an enqueue is about to add has not been in the pool before.    *)
FreshInv ==
  /\ Queued \cup Running \cup finished \subseteq submitted
  /\ \A c \in Clients : cpc[c] \in {"test", "emplace"} =>
       /\ arg[c] \in submitted
       /\ arg[c] \notin Queued \cup Running \cup finished

(* The inductive invariant of everything but the wakeups.                  *)
IndInv ==
  /\ TypeOK
  /\ MutexInv
  /\ WorkerInv
  /\ OwnerInv
  /\ FreshInv
  /\ ExitIsFinal
  /\ AtMostOnce

-----------------------------------------------------------------------------
(* Sequences: what Tail and Append do to the set of elements.              *)

Elems(s) == {s[i] : i \in DOMAIN s}

Distinct(s) == \A i, j \in DOMAIN s : s[i] = s[j] => i = j

LEMMA TailElems ==
  ASSUME NEW S, NEW s \in Seq(S), s # <<>>, Distinct(s)
  PROVE  /\ Head(s) \in Elems(s)
         /\ Head(s) \in S
         /\ Tail(s) \in Seq(S)
         /\ Distinct(Tail(s))
         /\ Elems(Tail(s)) = Elems(s) \ {Head(s)}
<1>1. Len(s) \in Nat /\ Len(s) >= 1 /\ DOMAIN s = 1 .. Len(s)
  OBVIOUS
<1>2. /\ Tail(s) \in Seq(S)
      /\ DOMAIN Tail(s) = 1 .. (Len(s) - 1)
      /\ \A i \in 1 .. (Len(s) - 1) : Tail(s)[i] = s[i + 1]
      /\ Head(s) = s[1]
  BY <1>1
<1>3. Head(s) \in Elems(s) /\ Head(s) \in S
  BY <1>1, <1>2 DEF Elems
<1>4. Distinct(Tail(s))
  BY <1>1, <1>2 DEF Distinct
<1>5. Elems(Tail(s)) \subseteq Elems(s) \ {Head(s)}
  BY <1>1, <1>2 DEF Elems, Distinct
<1>6. ASSUME NEW x \in Elems(s) \ {Head(s)}
      PROVE  x \in Elems(Tail(s))
  <2>1. PICK i \in 1 .. Len(s) : x = s[i]
    BY <1>1 DEF Elems
  <2>2. i # 1
    BY <2>1, <1>2, <1>6
  <2>3. i - 1 \in 1 .. (Len(s) - 1) /\ Tail(s)[i - 1] = x
    BY <2>1, <2>2, <1>1, <1>2
  <2> QED
    BY <2>3, <1>2 DEF Elems
<1> QED
  BY <1>2, <1>3, <1>4, <1>5, <1>6

LEMMA AppendElems ==
  ASSUME NEW S, NEW s \in Seq(S), NEW x \in S
  PROVE  /\ Append(s, x) \in Seq(S)
         /\ Append(s, x) # <<>>
         /\ Elems(Append(s, x)) = Elems(s) \cup {x}
         /\ Distinct(s) /\ x \notin Elems(s) => Distinct(Append(s, x))
<1>1. /\ Append(s, x) \in Seq(S)
      /\ Len(s) \in Nat
      /\ DOMAIN s = 1 .. Len(s)
      /\ DOMAIN Append(s, x) = 1 .. (Len(s) + 1)
      /\ \A i \in 1 .. Len(s) : Append(s, x)[i] = s[i]
      /\ Append(s, x)[Len(s) + 1] = x
  OBVIOUS
<1>2. Append(s, x) # <<>>
  BY <1>1
<1>3. Elems(Append(s, x)) \subseteq Elems(s) \cup {x}
  BY <1>1 DEF Elems
<1>4. Elems(s) \cup {x} \subseteq Elems(Append(s, x))
  BY <1>1 DEF Elems
<1>5. Distinct(s) /\ x \notin Elems(s) => Distinct(Append(s, x))
  BY <1>1 DEF Elems, Distinct
<1> QED
  BY <1>1, <1>2, <1>3, <1>4, <1>5

-----------------------------------------------------------------------------
(* Most steps leave the tasks in the pool alone: what the invariants say of*)
(* them is then unchanged.                                                 *)
LEMMA StillTasks ==
  ASSUME UNCHANGED <<queue, task, finished>>,
         \A w \in Workers : wpc'[w] = "exec" <=> wpc[w] = "exec"
  PROVE  /\ Queued' = Queued
         /\ Running' = Running
         /\ AtMostOnce => AtMostOnce'
<1>1. Queued' = Queued
  BY DEF Queued
<1>2. Running' = Running
  <2>1. {v \in Workers : wpc[v] = "exec"}' = {v \in Workers : wpc[v] = "exec"}
    OBVIOUS
  <2> QED
    BY <2>1 DEF Running
<1>3. ASSUME AtMostOnce
      PROVE  AtMostOnce'
  <2>1. \A i, j \in DOMAIN queue' : queue'[i] = queue'[j] => i = j
    BY <1>3 DEF AtMostOnce
  <2>2. /\ (Queued \cap (Running \cup finished) = {})'
        /\ (Running \cap finished = {})'
    BY <1>1, <1>2, <1>3 DEF AtMostOnce
  <2>3. \A v, w \in Workers :
          (wpc'[v] = "exec" /\ wpc'[w] = "exec" /\ task'[v] = task'[w]) => v = w
    BY <1>3 DEF AtMostOnce
  <2> QED
    BY <2>1, <2>2, <2>3 DEF AtMostOnce
<1> QED
  BY <1>1, <1>2, <1>3

LEMMA IndInvInit == Init => IndInv
<1> USE PoolAssumption DEF Init
<1>1. Init => TypeOK
  <2>1. <<>> \in Seq(Tasks)
    OBVIOUS
  <2> QED
    BY <2>1 DEF TypeOK
<1>2. Init => MutexInv
  BY DEF MutexInv
<1>3. Init => WorkerInv /\ OwnerInv
  BY DEF WorkerInv, OwnerInv
<1>4. Init => ExitIsFinal
  BY DEF ExitIsFinal
<1>5. Init => FreshInv /\ AtMostOnce
  BY DEF FreshInv, AtMostOnce, Queued, Running
<1> QED
  BY <1>1, <1>2, <1>3, <1>4, <1>5 DEF IndInv

LEMMA IndInvStep == IndInv /\ [Next]_vars => IndInv'
<1> SUFFICES ASSUME IndInv, [Next]_vars
             PROVE  IndInv'
  OBVIOUS
<1> USE PoolAssumption DEF workerVars, clientVars, ownerVars
<1>0. /\ TypeOK /\ MutexInv /\ WorkerInv /\ OwnerInv /\ FreshInv
      /\ ExitIsFinal /\ AtMostOnce
  BY DEF IndInv
<1>1. ASSUME NEW w \in Workers, Acquire(w)
      PROVE  IndInv'
  <2>1. Queued' = Queued /\ Running' = Running /\ AtMostOnce'
    BY <1>1, <1>0, StillTasks DEF Acquire, TypeOK
  <2>2. TypeOK'
    BY <1>1, <1>0 DEF Acquire, TypeOK
  <2>3. MutexInv'
    BY <1>1, <1>0 DEF Acquire, TypeOK, MutexInv
  <2>4. WorkerInv'
    BY <1>1, <1>0 DEF Acquire, TypeOK, MutexInv, WorkerInv
  <2>5. OwnerInv'
    BY <1>1, <1>0 DEF Acquire, TypeOK, OwnerInv
  <2>6. FreshInv'
    BY <1>1, <1>0, <2>1 DEF Acquire, TypeOK, MutexInv, FreshInv
  <2>7. ExitIsFinal'
    BY <1>1, <1>0 DEF Acquire, TypeOK, MutexInv, OwnerInv, ExitIsFinal
  <2> QED
    BY <2>1, <2>2, <2>3, <2>4, <2>5, <2>6, <2>7 DEF IndInv
<1>2. ASSUME NEW w \in Workers, DecideToWait(w)
      PROVE  IndInv'
  <2>1. Queued' = Queued /\ Running' = Running /\ AtMostOnce'
    BY <1>2, <1>0, StillTasks DEF DecideToWait, TypeOK
  <2>2. TypeOK'
    BY <1>2, <1>0 DEF DecideToWait, TypeOK
  <2>3. MutexInv'
    BY <1>2, <1>0 DEF DecideToWait, TypeOK, MutexInv
  <2>4. WorkerInv'
    BY <1>2, <1>0 DEF DecideToWait, TypeOK, MutexInv, WorkerInv
  <2>5. OwnerInv'
    BY <1>2, <1>0 DEF DecideToWait, TypeOK, OwnerInv
  <2>6. FreshInv'
    BY <1>2, <1>0, <2>1 DEF DecideToWait, TypeOK, MutexInv, FreshInv
  <2>7. ExitIsFinal'
    BY <1>2, <1>0 DEF DecideToWait, TypeOK, MutexInv, OwnerInv, ExitIsFinal
  <2> QED
    BY <2>1, <2>2, <2>3, <2>4, <2>5, <2>6, <2>7 DEF IndInv
<1>3. ASSUME NEW w \in Workers, Park(w)
      PROVE  IndInv'
  <2>1. Queued' = Queued /\ Running' = Running /\ AtMostOnce'
    BY <1>3, <1>0, StillTasks DEF Park, TypeOK
  <2>2. TypeOK'
    BY <1>3, <1>0 DEF Park, TypeOK
  <2>3. MutexInv'
    BY <1>3, <1>0 DEF Park, TypeOK, MutexInv
  <2>4. WorkerInv'
    BY <1>3, <1>0 DEF Park, TypeOK, MutexInv, WorkerInv
  <2>5. OwnerInv'
    BY <1>3, <1>0 DEF Park, TypeOK, OwnerInv
  <2>6. FreshInv'
    BY <1>3, <1>0, <2>1 DEF Park, TypeOK, MutexInv, FreshInv
  <2>7. ExitIsFinal'
    BY <1>3, <1>0 DEF Park, TypeOK, MutexInv, OwnerInv, ExitIsFinal
  <2> QED
    BY <2>1, <2>2, <2>3, <2>4, <2>5, <2>6, <2>7 DEF IndInv
<1>4. ASSUME NEW w \in Workers, SpuriousWakeup(w)
      PROVE  IndInv'
  <2>1. Queued' = Queued /\ Running' = Running /\ AtMostOnce'
    BY <1>4, <1>0, StillTasks DEF SpuriousWakeup, TypeOK
  <2>2. TypeOK'
    BY <1>4, <1>0 DEF SpuriousWakeup, TypeOK
  <2>3. MutexInv'
    BY <1>4, <1>0 DEF SpuriousWakeup, TypeOK, MutexInv
  <2>4. WorkerInv'
    BY <1>4, <1>0 DEF SpuriousWakeup, TypeOK, MutexInv, WorkerInv
  <2>5. OwnerInv'
    BY <1>4, <1>0 DEF SpuriousWakeup, TypeOK, OwnerInv
  <2>6. FreshInv'
    BY <1>4, <1>0, <2>1 DEF SpuriousWakeup, TypeOK, MutexInv, FreshInv
  <2>7. ExitIsFinal'
    BY <1>4, <1>0 DEF SpuriousWakeup, TypeOK, MutexInv, OwnerInv, ExitIsFinal
  <2> QED
    BY <2>1, <2>2, <2>3, <2>4, <2>5, <2>6, <2>7 DEF IndInv
<1>5. ASSUME NEW w \in Workers, Exit(w)
      PROVE  IndInv'
  <2>1. Queued' = Queued /\ Running' = Running /\ AtMostOnce'
    BY <1>5, <1>0, StillTasks DEF Exit, TypeOK
  <2>2. TypeOK'
    BY <1>5, <1>0 DEF Exit, TypeOK
  <2>3. MutexInv'
    BY <1>5, <1>0 DEF Exit, TypeOK, MutexInv
  <2>4. WorkerInv'
    BY <1>5, <1>0 DEF Exit, TypeOK, MutexInv, WorkerInv
  <2>5. OwnerInv'
    BY <1>5, <1>0 DEF Exit, TypeOK, OwnerInv
  <2>6. FreshInv'
    BY <1>5, <1>0, <2>1 DEF Exit, TypeOK, MutexInv, FreshInv
  <2>7. ExitIsFinal'
    BY <1>5, <1>0 DEF Exit, TypeOK, MutexInv, OwnerInv, ExitIsFinal
  <2> QED
    BY <2>1, <2>2, <2>3, <2>4, <2>5, <2>6, <2>7 DEF IndInv
<1>6. ASSUME NEW w \in Workers, Take(w)
      PROVE  IndInv'
  <2>1. /\ queue' \in Seq(Tasks) /\ Head(queue) \in Tasks
        /\ Queued' = Queued \ {Head(queue)} /\ Head(queue) \in Queued
        /\ \A i, j \in DOMAIN queue' : queue'[i] = queue'[j] => i = j
    BY <1>6, <1>0, TailElems, SMTT(20)
       DEF Take, TypeOK, AtMostOnce, Distinct, Elems, Queued
  <2>2. Running' = Running \cup {Head(queue)}
    BY <1>6, <1>0 DEF Take, TypeOK, Running
  <2>3. TypeOK'
    BY <1>6, <1>0, <2>1 DEF Take, TypeOK
  <2>4. MutexInv'
    BY <1>6, <1>0 DEF Take, TypeOK, MutexInv
  <2>5. WorkerInv'
    BY <1>6, <1>0, <2>1 DEF Take, TypeOK, MutexInv, WorkerInv
  <2>6. OwnerInv'
    BY <1>6, <1>0 DEF Take, TypeOK, OwnerInv
  <2>7. FreshInv'
    BY <1>6, <1>0, <2>1, <2>2 DEF Take, TypeOK, MutexInv, FreshInv
  <2>8. ExitIsFinal'
    BY <1>6, <1>0 DEF Take, TypeOK, MutexInv, ExitIsFinal
  <2>9. AtMostOnce'
    <3>1. /\ (Queued \cap (Running \cup finished) = {})'
          /\ (Running \cap finished = {})'
      BY <1>6, <1>0, <2>1, <2>2 DEF Take, AtMostOnce
    <3>2. \A v \in Workers : wpc[v] = "exec" => task[v] # Head(queue)
      BY <1>0, <2>1 DEF AtMostOnce, Running
    <3>3. \A v, u \in Workers :
            (wpc'[v] = "exec" /\ wpc'[u] = "exec" /\ task'[v] = task'[u])
              => v = u
      BY <1>6, <1>0, <3>2 DEF Take, TypeOK, AtMostOnce
    <3> QED
      BY <2>1, <3>1, <3>3 DEF AtMostOnce
  <2> QED
    BY <2>3, <2>4, <2>5, <2>6, <2>7, <2>8, <2>9 DEF IndInv
<1>7. ASSUME NEW w \in Workers, Finish(w)
      PROVE  IndInv'
  <2>1. task[w] \in Tasks /\ task[w] \in Running
    BY <1>7, <1>0 DEF Finish, TypeOK, WorkerInv, Running
  <2>2. Queued' = Queued /\ Running' = Running \ {task[w]}
    BY <1>7, <1>0 DEF Finish, TypeOK, AtMostOnce, Queued, Running
  <2>3. TypeOK'
    BY <1>7, <1>0, <2>1 DEF Finish, TypeOK
  <2>4. MutexInv'
    BY <1>7, <1>0 DEF Finish, TypeOK, MutexInv
  <2>5. WorkerInv'
    BY <1>7, <1>0 DEF Finish, TypeOK, WorkerInv
  <2>6. OwnerInv'
    BY <1>7, <1>0 DEF Finish, TypeOK, OwnerInv
  <2>7. FreshInv'
    BY <1>7, <1>0, <2>1, <2>2 DEF Finish, FreshInv
  <2>8. ExitIsFinal'
    BY <1>7, <1>0 DEF Finish, TypeOK, ExitIsFinal
  <2>9. AtMostOnce'
    <3>1. /\ (Queued \cap (Running \cup finished) = {})'
          /\ (Running \cap finished = {})'
      BY <1>7, <1>0, <2>1, <2>2 DEF Finish, AtMostOnce
    <3>2. /\ \A i, j \in DOMAIN queue' : queue'[i] = queue'[j] => i = j
          /\ \A v, u \in Workers :
               (wpc'[v] = "exec" /\ wpc'[u] = "exec" /\ task'[v] = task'[u])
                 => v = u
      BY <1>7, <1>0 DEF Finish, TypeOK, AtMostOnce
    <3> QED
      BY <3>1, <3>2 DEF AtMostOnce
  <2> QED
    BY <2>3, <2>4, <2>5, <2>6, <2>7, <2>8, <2>9 DEF IndInv
<1>8. ASSUME NEW w \in Workers, EscapingException(w)
      PROVE  IndInv'
  <2>1. Queued' = Queued /\ Running' = Running /\ AtMostOnce'
    BY <1>8, <1>0, StillTasks DEF EscapingException, TypeOK
  <2>2. TypeOK'
    BY <1>8, <1>0 DEF EscapingException, TypeOK
  <2>3. MutexInv'
    BY <1>8, <1>0 DEF EscapingException, TypeOK, MutexInv
  <2>4. WorkerInv'
    BY <1>8, <1>0 DEF EscapingException, TypeOK, MutexInv, WorkerInv
  <2>5. OwnerInv'
    BY <1>8, <1>0 DEF EscapingException, TypeOK, OwnerInv
  <2>6. FreshInv'
    BY <1>8, <1>0, <2>1 DEF EscapingException, TypeOK, MutexInv, FreshInv
  <2>7. ExitIsFinal'
    BY <1>8, <1>0 DEF EscapingException, TypeOK, MutexInv, OwnerInv, ExitIsFinal
  <2> QED
    BY <2>1, <2>2, <2>3, <2>4, <2>5, <2>6, <2>7 DEF IndInv
<1>9. ASSUME NEW c \in Clients, NEW t \in Tasks, Enqueue(c, t)
      PROVE  IndInv'
  <2>1. Queued' = Queued /\ Running' = Running /\ AtMostOnce'
    BY <1>9, <1>0, StillTasks DEF Enqueue, TypeOK
  <2>2. TypeOK'
    BY <1>9, <1>0 DEF Enqueue, TypeOK
  <2>3. MutexInv'
    BY <1>9, <1>0 DEF Enqueue, TypeOK, MutexInv
  <2>4. WorkerInv'
    BY <1>9, <1>0 DEF Enqueue, TypeOK, MutexInv, WorkerInv
  <2>5. OwnerInv'
    BY <1>9, <1>0 DEF Enqueue, TypeOK, OwnerInv
  <2>6. FreshInv'
    BY <1>9, <1>0, <2>1 DEF Enqueue, TypeOK, MutexInv, FreshInv
  <2>7. ExitIsFinal'
    BY <1>9, <1>0 DEF Enqueue, TypeOK, MutexInv, OwnerInv, ExitIsFinal
  <2> QED
    BY <2>1, <2>2, <2>3, <2>4, <2>5, <2>6, <2>7 DEF IndInv
<1>10. ASSUME NEW c \in Clients, SeeRunning(c)
       PROVE  IndInv'
  <2>1. Queued' = Queued /\ Running' = Running /\ AtMostOnce'
    BY <1>10, <1>0, StillTasks DEF SeeRunning, TypeOK
  <2>2. TypeOK'
    BY <1>10, <1>0 DEF SeeRunning, TypeOK
  <2>3. MutexInv'
    BY <1>10, <1>0 DEF SeeRunning, TypeOK, MutexInv
  <2>4. WorkerInv'
    BY <1>10, <1>0 DEF SeeRunning, TypeOK, MutexInv, WorkerInv
  <2>5. OwnerInv'
    BY <1>10, <1>0 DEF SeeRunning, TypeOK, OwnerInv
  <2>6. FreshInv'
    BY <1>10, <1>0, <2>1 DEF SeeRunning, TypeOK, MutexInv, FreshInv
  <2>7. ExitIsFinal'
    BY <1>10, <1>0 DEF SeeRunning, TypeOK, MutexInv, OwnerInv, ExitIsFinal
  <2> QED
    BY <2>1, <2>2, <2>3, <2>4, <2>5, <2>6, <2>7 DEF IndInv
<1>11. ASSUME NEW c \in Clients, SeeHalted(c)
       PROVE  IndInv'
  <2>1. Queued' = Queued /\ Running' = Running /\ AtMostOnce'
    BY <1>11, <1>0, StillTasks DEF SeeHalted, TypeOK
  <2>2. TypeOK'
    BY <1>11, <1>0 DEF SeeHalted, TypeOK
  <2>3. MutexInv'
    BY <1>11, <1>0 DEF SeeHalted, TypeOK, MutexInv
  <2>4. WorkerInv'
    BY <1>11, <1>0 DEF SeeHalted, TypeOK, MutexInv, WorkerInv
  <2>5. OwnerInv'
    BY <1>11, <1>0 DEF SeeHalted, TypeOK, OwnerInv
  <2>6. FreshInv'
    BY <1>11, <1>0, <2>1 DEF SeeHalted, TypeOK, MutexInv, FreshInv
  <2>7. ExitIsFinal'
    BY <1>11, <1>0 DEF SeeHalted, TypeOK, MutexInv, OwnerInv, ExitIsFinal
  <2> QED
    BY <2>1, <2>2, <2>3, <2>4, <2>5, <2>6, <2>7 DEF IndInv
<1>12. ASSUME NEW c \in Clients, Emplace(c)
       PROVE  IndInv'
  <2>1. /\ arg[c] \in submitted /\ arg[c] \in Tasks
        /\ arg[c] \notin Queued \cup Running \cup finished
    BY <1>12, <1>0 DEF Emplace, TypeOK, FreshInv
  <2>2. /\ queue' \in Seq(Tasks) /\ queue' # <<>>
        /\ Queued' = Queued \cup {arg[c]}
        /\ \A i, j \in DOMAIN queue' : queue'[i] = queue'[j] => i = j
    <3>1. queue' = Append(queue, arg[c]) /\ queue \in Seq(Tasks)
      BY <1>12, <1>0 DEF Emplace, TypeOK
    <3>2. Distinct(queue) /\ Elems(queue) = Queued
      BY <1>0 DEF AtMostOnce, Distinct, Elems, Queued
    <3>3. /\ queue' \in Seq(Tasks) /\ queue' # <<>>
          /\ Elems(queue') = Elems(queue) \cup {arg[c]}
          /\ Distinct(queue')
      BY <3>1, <3>2, <2>1, AppendElems
    <3> QED
      BY <3>2, <3>3 DEF Distinct, Elems, Queued
  <2>3. Running' = Running
    BY <1>12 DEF Emplace, Running
  <2>4. TypeOK'
    BY <1>12, <1>0, <2>2 DEF Emplace, TypeOK
  <2>5. MutexInv'
    BY <1>12, <1>0 DEF Emplace, TypeOK, MutexInv
  <2>6. WorkerInv'
    BY <1>12, <1>0 DEF Emplace, TypeOK, MutexInv, WorkerInv
  <2>7. OwnerInv'
    BY <1>12, <1>0 DEF Emplace, TypeOK, OwnerInv
  <2>8. FreshInv'
    BY <1>12, <1>0, <2>1, <2>2, <2>3 DEF Emplace, TypeOK, MutexInv, FreshInv
  <2>9. ExitIsFinal'
    BY <1>12, <1>0 DEF Emplace, TypeOK, MutexInv, ExitIsFinal
  <2>10. AtMostOnce'
    BY <1>12, <1>0, <2>1, <2>2, <2>3 DEF Emplace, AtMostOnce
  <2> QED
    BY <2>4, <2>5, <2>6, <2>7, <2>8, <2>9, <2>10 DEF IndInv
<1>13. ASSUME NEW c \in Clients, NotifyOne(c)
       PROVE  IndInv'
  <2>1. \/ wpc' = wpc
        \/ \E w \in Parked : wpc' = [wpc EXCEPT ![w] = "top"]
    BY <1>13 DEF NotifyOne
  <2>2. /\ wpc' \in [Workers ->
                     {"top", "test", "park", "parked", "exec", "exited"}]
        /\ \A w \in Workers : \/ wpc'[w] = wpc[w]
                              \/ wpc[w] = "parked" /\ wpc'[w] = "top"
    BY <2>1, <1>0 DEF TypeOK, Parked
  <2> HIDE DEF Parked
  <2>3. Queued' = Queued /\ Running' = Running /\ AtMostOnce'
    BY <1>13, <1>0, StillTasks, <2>2 DEF NotifyOne, TypeOK
  <2>4. TypeOK'
    BY <1>13, <1>0, <2>2 DEF NotifyOne, TypeOK
  <2>5. MutexInv'
    BY <1>13, <1>0, <2>2 DEF NotifyOne, TypeOK, MutexInv
  <2>6. WorkerInv'
    BY <1>13, <1>0, <2>2 DEF NotifyOne, TypeOK, MutexInv, WorkerInv
  <2>7. OwnerInv'
    BY <1>13, <1>0, <2>2 DEF NotifyOne, TypeOK, OwnerInv
  <2>8. FreshInv'
    BY <1>13, <1>0, <2>3, <2>2 DEF NotifyOne, TypeOK, MutexInv, FreshInv
  <2>9. ExitIsFinal'
    BY <1>13, <1>0, <2>2 DEF NotifyOne, TypeOK, MutexInv, OwnerInv, ExitIsFinal
  <2> QED
    BY <2>3, <2>4, <2>5, <2>6, <2>7, <2>8, <2>9 DEF IndInv
<1>14. ASSUME NEW g \in Graceful, CallStop(g)
       PROVE  IndInv'
  <2>1. Queued' = Queued /\ Running' = Running /\ AtMostOnce'
    BY <1>14, <1>0, StillTasks DEF CallStop, TypeOK
  <2>2. TypeOK'
    BY <1>14, <1>0 DEF CallStop, TypeOK
  <2>3. MutexInv'
    BY <1>14, <1>0 DEF CallStop, TypeOK, MutexInv
  <2>4. WorkerInv'
    BY <1>14, <1>0 DEF CallStop, TypeOK, MutexInv, WorkerInv
  <2>5. OwnerInv'
    BY <1>14, <1>0 DEF CallStop, TypeOK, OwnerInv
  <2>6. FreshInv'
    BY <1>14, <1>0, <2>1 DEF CallStop, TypeOK, MutexInv, FreshInv
  <2>7. ExitIsFinal'
    BY <1>14, <1>0 DEF CallStop, TypeOK, MutexInv, OwnerInv, ExitIsFinal
  <2> QED
    BY <2>1, <2>2, <2>3, <2>4, <2>5, <2>6, <2>7 DEF IndInv
<1>15. ASSUME Halt
       PROVE  IndInv'
  <2>1. Queued' = Queued /\ Running' = Running /\ AtMostOnce'
    BY <1>15, <1>0, StillTasks DEF Halt, TypeOK
  <2>2. TypeOK'
    BY <1>15, <1>0 DEF Halt, TypeOK
  <2>3. MutexInv'
    BY <1>15, <1>0 DEF Halt, TypeOK, MutexInv
  <2>4. WorkerInv'
    BY <1>15, <1>0 DEF Halt, TypeOK, MutexInv, WorkerInv
  <2>5. OwnerInv'
    BY <1>15, <1>0 DEF Halt, TypeOK, OwnerInv
  <2>6. FreshInv'
    BY <1>15, <1>0, <2>1 DEF Halt, TypeOK, MutexInv, FreshInv
  <2>7. ExitIsFinal'
    BY <1>15, <1>0 DEF Halt, TypeOK, MutexInv, OwnerInv, ExitIsFinal
  <2> QED
    BY <2>1, <2>2, <2>3, <2>4, <2>5, <2>6, <2>7 DEF IndInv
<1>16. ASSUME NotifyAll
       PROVE  IndInv'
  <2>1. Queued' = Queued /\ Running' = Running /\ AtMostOnce'
    BY <1>16, <1>0, StillTasks DEF NotifyAll, TypeOK
  <2>2. TypeOK'
    BY <1>16, <1>0 DEF NotifyAll, TypeOK
  <2>3. MutexInv'
    BY <1>16, <1>0 DEF NotifyAll, TypeOK, MutexInv
  <2>4. WorkerInv'
    BY <1>16, <1>0 DEF NotifyAll, TypeOK, MutexInv, WorkerInv
  <2>5. OwnerInv'
    BY <1>16, <1>0 DEF NotifyAll, TypeOK, OwnerInv
  <2>6. FreshInv'
    BY <1>16, <1>0, <2>1 DEF NotifyAll, TypeOK, MutexInv, FreshInv
  <2>7. ExitIsFinal'
    BY <1>16, <1>0 DEF NotifyAll, TypeOK, MutexInv, OwnerInv, ExitIsFinal
  <2> QED
    BY <2>1, <2>2, <2>3, <2>4, <2>5, <2>6, <2>7 DEF IndInv
<1>17. ASSUME JoinAll
       PROVE  IndInv'
  <2>1. Queued' = Queued /\ Running' = Running /\ AtMostOnce'
    BY <1>17, <1>0, StillTasks DEF JoinAll, TypeOK
  <2>2. TypeOK'
    BY <1>17, <1>0 DEF JoinAll, TypeOK
  <2>3. MutexInv'
    BY <1>17, <1>0 DEF JoinAll, TypeOK, MutexInv
  <2>4. WorkerInv'
    BY <1>17, <1>0 DEF JoinAll, TypeOK, MutexInv, WorkerInv
  <2>5. OwnerInv'
    BY <1>17, <1>0 DEF JoinAll, TypeOK, OwnerInv
  <2>6. FreshInv'
    BY <1>17, <1>0, <2>1 DEF JoinAll, TypeOK, MutexInv, FreshInv
  <2>7. ExitIsFinal'
    BY <1>17, <1>0 DEF JoinAll, TypeOK, MutexInv, OwnerInv, ExitIsFinal
  <2> QED
    BY <2>1, <2>2, <2>3, <2>4, <2>5, <2>6, <2>7 DEF IndInv
<1>18. ASSUME ClearPool
       PROVE  IndInv'
  <2>1. Queued' = Queued /\ Running' = Running /\ AtMostOnce'
    BY <1>18, <1>0, StillTasks DEF ClearPool, TypeOK
  <2>2. TypeOK'
    BY <1>18, <1>0 DEF ClearPool, TypeOK
  <2>3. MutexInv'
    BY <1>18, <1>0 DEF ClearPool, TypeOK, MutexInv
  <2>4. WorkerInv'
    BY <1>18, <1>0 DEF ClearPool, TypeOK, MutexInv, WorkerInv
  <2>5. OwnerInv'
    BY <1>18, <1>0 DEF ClearPool, TypeOK, OwnerInv
  <2>6. FreshInv'
    BY <1>18, <1>0, <2>1 DEF ClearPool, TypeOK, MutexInv, FreshInv
  <2>7. ExitIsFinal'
    BY <1>18, <1>0 DEF ClearPool, TypeOK, MutexInv, OwnerInv, ExitIsFinal
  <2> QED
    BY <2>1, <2>2, <2>3, <2>4, <2>5, <2>6, <2>7 DEF IndInv
<1>19. ASSUME UNCHANGED vars
       PROVE  IndInv'
  <2>1. Queued' = Queued /\ Running' = Running /\ AtMostOnce'
    BY <1>0, <1>19, StillTasks DEF vars
  <2> QED
    BY <1>0, <1>19, <2>1
       DEF IndInv, TypeOK, MutexInv, WorkerInv, OwnerInv, FreshInv, ExitIsFinal,
           vars
<1> QED
  BY <1>1, <1>2, <1>3, <1>4, <1>5, <1>6, <1>7, <1>8, <1>9, <1>10,
     <1>11, <1>12, <1>13, <1>14, <1>15, <1>16, <1>17, <1>18, <1>19
     DEF Next, WorkerStep, ClientStep, OwnerStep

(* The invariant holds of every reachable state.                           *)
LEMMA IndInvInvariant == Spec => []IndInv
  BY IndInvInit, IndInvStep, PTL DEF Spec

-----------------------------------------------------------------------------
(* Type correctness: every variable keeps its type whatever the threads,   *)
(* enqueues and stops do.                                                  *)
THEOREM TypeCorrect == Spec => []TypeOK
<1>1. IndInv => TypeOK
  BY DEF IndInv
<1> QED
  BY <1>1, IndInvInvariant, PTL

(* No worker leaves its loop while a task is queued or an enqueue is about *)
(* to add one, although stop() clears `run` without the mutex.             *)
THEOREM ExitIsFinalHolds == Spec => []ExitIsFinal
<1>1. IndInv => ExitIsFinal
  BY DEF IndInv
<1> QED
  BY <1>1, IndInvInvariant, PTL

(* A graceful stop returns from its joins with everything executed.        *)
THEOREM DrainedWhenJoinedHolds == Spec => []DrainedWhenJoined
<1>1. IndInv => DrainedWhenJoined
  <2> SUFFICES ASSUME IndInv, joinable = {}
               PROVE  /\ queue = <<>>
                      /\ Running = {}
                      /\ \A c \in Clients : cpc[c] # "emplace"
    BY DEF DrainedWhenJoined
  <2>1. \A w \in Workers : wpc[w] = "exited"
    BY PoolAssumption DEF IndInv, OwnerInv
  <2>2. queue = <<>> /\ \A c \in Clients : cpc[c] # "emplace"
    BY <2>1, PoolAssumption DEF IndInv, ExitIsFinal
  <2>3. Running = {}
    BY <2>1 DEF Running
  <2> QED
    BY <2>2, <2>3
<1> QED
  BY <1>1, IndInvInvariant, PTL

(* Tasks are executed at most once, by one worker.                         *)
THEOREM AtMostOnceHolds == Spec => []AtMostOnce
<1>1. IndInv => AtMostOnce
  BY DEF IndInv
<1> QED
  BY <1>1, IndInvInvariant, PTL

(* enqueue may notify after releasing the mutex: no task is left waiting   *)
(* while all workers sleep and no notification is on its way.              *)
THEOREM NoLostTaskWakeupHolds == Spec => []NoLostTaskWakeup
<1>1. Init => NoLostTaskWakeup
  BY DEF Init, NoLostTaskWakeup
<1>2. IndInv /\ NoLostTaskWakeup /\ [Next]_vars => NoLostTaskWakeup'
  <2> SUFFICES ASSUME IndInv, NoLostTaskWakeup, [Next]_vars,
                      queue' # <<>>, \A w \in Workers : wpc'[w] = "parked"
               PROVE  \E c \in Clients : cpc'[c] = "notify"
    BY DEF NoLostTaskWakeup, Parked
  <2> USE PoolAssumption DEF workerVars, clientVars, ownerVars
  <2>0. TypeOK /\ WorkerInv
    BY DEF IndInv
  (* Unless an enqueue just added a task, both facts held before the step. *)
  <2>1. ASSUME queue # <<>>, \A w \in Workers : wpc[w] = "parked"
        PROVE  \E c \in Clients : cpc[c] = "notify"
    BY <2>1 DEF NoLostTaskWakeup, Parked
  <2>2. ASSUME NEW w \in Workers, WorkerStep(w)
        PROVE  \E c \in Clients : cpc'[c] = "notify"
    <3>1. CASE Park(w)
      BY <3>1, <2>0 DEF Park, TypeOK, WorkerInv
    <3>2. CASE EscapingException(w)
      BY <3>2, <2>0, <2>1 DEF EscapingException, TypeOK
    <3>3. CASE Acquire(w) \/ DecideToWait(w) \/ SpuriousWakeup(w) \/ Exit(w)
               \/ Take(w) \/ Finish(w)
      BY <3>3, <2>0 DEF Acquire, DecideToWait, SpuriousWakeup, Exit, Take,
                       Finish, TypeOK
    <3> QED
      BY <2>2, <3>1, <3>2, <3>3 DEF WorkerStep
  <2>3. ASSUME NEW c \in Clients, ClientStep(c)
        PROVE  \E d \in Clients : cpc'[d] = "notify"
    <3>1. CASE (\E t \in Tasks : Enqueue(c, t)) \/ SeeRunning(c)
      BY <3>1, <2>0, <2>1 DEF Enqueue, SeeRunning, TypeOK
    <3>2. CASE SeeHalted(c) \/ Emplace(c)
      BY <3>2, <2>0 DEF SeeHalted, Emplace, TypeOK
    <3>3. CASE NotifyOne(c)
      BY <3>3, <2>0 DEF NotifyOne, TypeOK, Parked
    <3> QED
      BY <2>3, <3>1, <3>2, <3>3 DEF ClientStep
  <2>4. CASE OwnerStep
    <3>1. CASE NotifyAll
      BY <3>1, <2>0 DEF NotifyAll, TypeOK
    <3>2. CASE (\E graceful \in Graceful : CallStop(graceful))
               \/ Halt \/ JoinAll \/ ClearPool
      BY <3>2, <2>0, <2>1 DEF CallStop, Halt, JoinAll, ClearPool
    <3> QED
      BY <2>4, <3>1, <3>2 DEF OwnerStep
  <2>5. CASE UNCHANGED vars
    BY <2>5, <2>1 DEF vars
  <2> QED
    BY <2>2, <2>3, <2>4, <2>5 DEF Next
<1> QED
  BY <1>1, <1>2, IndInvInvariant, PTL DEF Spec

-----------------------------------------------------------------------------
(* A task that waits is not stranded: the mutex is free or held by a       *)
(* thread that can go on, and workers that sleep or have left do so with   *)
(* nothing to do, or a notification is under way.                          *)
THEOREM NoTaskIsStrandedHolds == Spec => []NoTaskIsStranded
<1>1. IndInv /\ NoLostTaskWakeup => NoTaskIsStranded
  <2> SUFFICES ASSUME IndInv, NoLostTaskWakeup,
                      \A c \in Clients : cpc[c] = "idle",
                      \A w \in Workers : ~ CanGoOn(w)
               PROVE  queue = <<>> /\ Running = {}
    BY DEF NoTaskIsStranded
  <2>1. \A w \in Workers : wpc[w] # "exec"
    BY DEF CanGoOn
  <2>2. mutex = Nobody
    BY DEF CanGoOn, IndInv, MutexInv, TypeOK
  <2>3. \A w \in Workers : wpc[w] \in {"parked", "exited"}
    BY <2>2 DEF CanGoOn, IndInv, TypeOK
  <2>4. CASE \E w \in Workers : wpc[w] = "exited"
    BY <2>1, <2>4 DEF IndInv, ExitIsFinal, Running
  <2>5. CASE \A w \in Workers : wpc[w] = "parked"
    BY <2>1, <2>5 DEF NoLostTaskWakeup, Parked, Running
  <2> QED
    BY <2>3, <2>4, <2>5
<1> QED
  BY <1>1, IndInvInvariant, NoLostTaskWakeupHolds, PTL

-----------------------------------------------------------------------------
(* std::terminate.  Only a stop that joins returns with `run` cleared, and *)
(* a stop that joins finds nothing joinable when it clears the pool.       *)
AbortInv ==
  /\ spc # "out" => wait \in Graceful
  /\ spc = "out" /\ ~run => joinable = {}
  /\ spc = "clear" /\ wait => joinable = {}
  /\ AbortHasCause

LEMMA AbortInvInvariant == Spec => []AbortInv
<1>1. Init => AbortInv
  BY DEF Init, AbortInv, AbortHasCause
<1>2. IndInv /\ AbortInv /\ [Next]_vars => AbortInv'
  <2> SUFFICES ASSUME IndInv, AbortInv, [Next]_vars
               PROVE  AbortInv'
    OBVIOUS
  <2> USE DEF workerVars, clientVars, ownerVars
  <2>0. OwnerInv /\ TypeOK
    BY DEF IndInv
  <2>1. ASSUME NEW w \in Workers, WorkerStep(w)
        PROVE  AbortInv'
    <3>1. UNCHANGED <<run, spc, wait, joinable>> /\ ~aborted
      BY <2>1 DEF WorkerStep, Acquire, DecideToWait, Park, SpuriousWakeup,
                  Exit, Take, Finish, EscapingException
    <3>2. aborted' => EscapingException(w)
      BY <2>1 DEF WorkerStep, Acquire, DecideToWait, Park, SpuriousWakeup,
                  Exit, Take, Finish
    <3>3. AbortHasCause'
      BY <3>2 DEF EscapingException, AbortHasCause
    <3> QED
      BY <3>1, <3>3 DEF AbortInv
  <2>2. ASSUME NEW c \in Clients, ClientStep(c)
        PROVE  AbortInv'
    <3>1. UNCHANGED <<run, spc, wait, joinable, aborted>> /\ ~aborted
      BY <2>2 DEF ClientStep, Enqueue, SeeRunning, SeeHalted, Emplace,
                  NotifyOne
    <3> QED
      BY <3>1 DEF AbortInv, AbortHasCause
  <2>3. ASSUME NEW graceful \in Graceful, CallStop(graceful)
        PROVE  AbortInv'
    BY <2>3 DEF CallStop, AbortInv, AbortHasCause
  <2>4. CASE Halt
    BY <2>4 DEF Halt, AbortInv, AbortHasCause
  <2>5. CASE NotifyAll
    BY <2>5 DEF NotifyAll, AbortInv, AbortHasCause
  <2>6. CASE JoinAll
    BY <2>6 DEF JoinAll, AbortInv, AbortHasCause
  <2>7. CASE ClearPool
    BY <2>7, <2>0 DEF ClearPool, AbortInv, AbortHasCause, OwnerInv, TypeOK
  <2>8. CASE UNCHANGED vars
    BY <2>8 DEF vars, AbortInv, AbortHasCause
  <2> QED
    BY <2>1, <2>2, <2>3, <2>4, <2>5, <2>6, <2>7, <2>8 DEF Next, OwnerStep
<1> QED
  BY <1>1, <1>2, IndInvInvariant, PTL DEF Spec

(* The program is terminated by a stop(false) whose threads were not       *)
(* joined, or by a task's exception, and by nothing else.                  *)
THEOREM AbortHasCauseHolds == Spec => []AbortHasCause
<1>1. AbortInv => AbortHasCause
  BY DEF AbortInv
<1> QED
  BY <1>1, AbortInvInvariant, PTL

(* A pool whose owner only stops it gracefully, whose tasks throw nothing  *)
(* but std::exception, never ends the program: however often it is         *)
(* stopped, and from whatever thread tasks are enqueued meanwhile.         *)
THEOREM GracefulNeverAborts ==
  ASSUME FALSE \notin Graceful, "foreign" \notin Outcomes
  PROVE  Spec => []~aborted
<1>1. AbortInv => ~aborted
  <2> SUFFICES ASSUME AbortInv, aborted
               PROVE  FALSE
    OBVIOUS
  <2>1. spc = "clear" /\ ~wait /\ wait \in Graceful
    BY DEF AbortInv, AbortHasCause
  <2>2. wait \in BOOLEAN
    BY <2>1, PoolAssumption
  <2> QED
    BY <2>1, <2>2
<1> QED
  BY <1>1, AbortInvInvariant, PTL

-----------------------------------------------------------------------------
(* The pool implements the abstract one.  Only Emplace, Take, Finish, Halt *)
(* and JoinAll are visible there: everything else is a stutter.            *)
LEMMA RefinementInit == Init => Abstract!Init
  BY PoolAssumption DEF Init, Abstract!Init, Running

LEMMA RefinementStep ==
  IndInv /\ [Next]_vars => [Abstract!Next]_(Abstract!vars)
<1> SUFFICES ASSUME IndInv, [Next]_vars
             PROVE  [Abstract!Next]_(Abstract!vars)
  OBVIOUS
<1> USE PoolAssumption DEF workerVars, clientVars, ownerVars
<1>0. /\ TypeOK /\ MutexInv /\ WorkerInv /\ OwnerInv /\ FreshInv
      /\ ExitIsFinal /\ AtMostOnce
  BY DEF IndInv
<1>1. ASSUME UNCHANGED <<queue, task, finished, run, joinable>>,
             \A w \in Workers : wpc'[w] = "exec" <=> wpc[w] = "exec"
      PROVE  UNCHANGED Abstract!vars
  BY <1>1, StillTasks DEF Abstract!vars
<1>2. ASSUME NEW w \in Workers, WorkerStep(w)
      PROVE  [Abstract!Next]_(Abstract!vars)
  <2>1. CASE Take(w)
    <3>1. Running' = Running \cup {Head(queue)}
      BY <2>1, <1>0 DEF Take, TypeOK, Running
    <3>2. joinable # {}
      BY <2>1, <1>0 DEF Take, OwnerInv
    <3>3. Abstract!Start
      BY <2>1, <3>1, <3>2 DEF Take, Abstract!Start
    <3> QED
      BY <3>3 DEF Abstract!Next
  <2>2. CASE Finish(w)
    <3>1. task[w] \in Tasks /\ task[w] \in Running
      BY <2>2, <1>0 DEF Finish, TypeOK, WorkerInv, Running
    <3>2. Running' = Running \ {task[w]}
      BY <2>2, <1>0 DEF Finish, TypeOK, AtMostOnce, Running
    <3>3. Abstract!Finish(task[w])
      BY <2>2, <3>1, <3>2 DEF Finish, Abstract!Finish
    <3> QED
      BY <3>1, <3>3 DEF Abstract!Next
  <2>3. CASE Acquire(w) \/ DecideToWait(w) \/ Park(w) \/ SpuriousWakeup(w)
             \/ Exit(w) \/ EscapingException(w)
    BY <2>3, <1>0, <1>1 DEF Acquire, DecideToWait, Park, SpuriousWakeup, Exit,
                           EscapingException, TypeOK
  <2> QED
    BY <1>2, <2>1, <2>2, <2>3 DEF WorkerStep
<1>3. ASSUME NEW c \in Clients, ClientStep(c)
      PROVE  [Abstract!Next]_(Abstract!vars)
  <2>1. CASE Emplace(c)
    <3>1. arg[c] \in Tasks /\ arg[c] \notin Queued \cup Running \cup finished
      BY <2>1, <1>0 DEF Emplace, TypeOK, FreshInv
    <3>2. Running' = Running
      BY <2>1 DEF Emplace, Running
    <3>3. joinable # {}
      BY <2>1, <1>0 DEF Emplace, OwnerInv, ExitIsFinal
    <3>4. Abstract!Accept(arg[c])
      BY <2>1, <3>1, <3>2, <3>3
         DEF Emplace, Abstract!Accept, Abstract!Queued, Queued
    <3> QED
      BY <3>1, <3>4 DEF Abstract!Next
  <2>2. CASE NotifyOne(c)
    <3>1. \A w \in Workers : wpc'[w] = "exec" <=> wpc[w] = "exec"
      BY <2>2, <1>0 DEF NotifyOne, Parked, TypeOK
    <3> QED
      BY <2>2, <3>1, <1>1 DEF NotifyOne
  <2>3. CASE (\E t \in Tasks : Enqueue(c, t)) \/ SeeRunning(c) \/ SeeHalted(c)
    BY <2>3, <1>1 DEF Enqueue, SeeRunning, SeeHalted
  <2> QED
    BY <1>3, <2>1, <2>2, <2>3 DEF ClientStep
<1>4. CASE OwnerStep
  <2>1. CASE Halt
    <3>1. run /\ joinable # {}
      BY <2>1, <1>0 DEF Halt, OwnerInv
    <3>2. Queued' = Queued /\ Running' = Running
      BY <2>1, StillTasks DEF Halt
    <3>3. Abstract!BeginClose
      BY <2>1, <3>1, <3>2 DEF Halt, Abstract!BeginClose
    <3> QED
      BY <3>3 DEF Abstract!Next
  <2>2. CASE JoinAll
    <3>1. ~run /\ queue = <<>> /\ Running = {}
      BY <2>2, <1>0 DEF JoinAll, OwnerInv, ExitIsFinal, Running
    <3>2. Running' = Running
      BY <2>2, StillTasks DEF JoinAll
    <3>3. CASE joinable = {}
      BY <2>2, <3>3, <1>1 DEF JoinAll
    <3>4. CASE joinable # {}
      <4>1. Abstract!EndClose
        BY <2>2, <3>1, <3>2, <3>4 DEF JoinAll, Abstract!EndClose
      <4> QED
        BY <4>1 DEF Abstract!Next
    <3> QED
      BY <3>3, <3>4
  <2>3. CASE NotifyAll
    BY <2>3, <1>0, <1>1 DEF NotifyAll, TypeOK
  <2>4. CASE (\E graceful \in Graceful : CallStop(graceful)) \/ ClearPool
    BY <2>4, <1>1 DEF CallStop, ClearPool
  <2> QED
    BY <1>4, <2>1, <2>2, <2>3, <2>4 DEF OwnerStep
<1>5. CASE UNCHANGED vars
  BY <1>5, <1>1 DEF vars
<1> QED
  BY <1>2, <1>3, <1>4, <1>5 DEF Next

(* For every number of workers, callers and tasks the pool behaves as the  *)
(* abstract pool: first accepted, first started, each task once, and       *)
(* nothing left or accepted once stop() has joined the threads.            *)
THEOREM PoolImplementsTaskPool == Spec => ImplementsTaskPool
  BY RefinementInit, RefinementStep, IndInvInvariant, PTL
     DEF Spec, ImplementsTaskPool, Abstract!Spec

=============================================================================
