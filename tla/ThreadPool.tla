----------------------------- MODULE ThreadPool -----------------------------
(***************************************************************************)
(* ThreadPool of include/thread-pool.hpp and src/thread-pool.cpp: n worker *)
(* threads, any number of threads that enqueue, and the thread that owns   *)
(* the pool and stops it (explicitly or from ~ThreadPool).                 *)
(*                                                                         *)
(* Grain of atomicity.  A step reads or writes one piece of shared memory, *)
(* or does several while it holds queue_mutex, which is enough since queue *)
(* is only touched under it.  `run` is the exception: stop() writes it     *)
(* with no lock, so each read and write of `run` is a step of its own      *)
(* relative to stop().                                                     *)
(***************************************************************************)
EXTENDS Sequences, FiniteSets

CONSTANTS
  Workers,     (* the n threads that start() creates                       *)
  Clients,     (* threads that call enqueue                                *)
  Tasks,       (* the tasks they enqueue; every call brings a fresh one    *)
  Graceful,    (* the arguments the owner passes to stop()                 *)
  Outcomes,    (* how a task may end: "ok", or an exception derived from   *)
               (* std::exception ("std"), or any other one ("foreign")     *)
  NoTask,      (* no task at hand                                          *)
  Nobody       (* the owner of an unlocked mutex                           *)

(* A pool of size 0 accepts tasks and has nobody to run them; ThreadPool() *)
(* replaces 0 by 4, and Server only uses that constructor.                 *)
ASSUME PoolAssumption ==
  /\ Workers # {}
  /\ Workers \cap Clients = {}
  /\ Nobody \notin Workers \cup Clients
  /\ NoTask \notin Tasks
  /\ Graceful \subseteq BOOLEAN
  /\ Outcomes \subseteq {"ok", "std", "foreign"}

VARIABLES
  mutex,       (* the thread that holds queue_mutex, or Nobody             *)
  queue,       (* the tasks waiting for a worker                           *)
  run,         (* cleared by stop()                                        *)
  wpc, task,   (* where each worker is, and the task it executes           *)
  cpc, arg,    (* where each enqueuing thread is, and the task it brings   *)
  spc, wait,   (* where the owner is in stop(), and its argument           *)
  joinable,    (* the std::thread objects of `pool` still to be joined     *)
  aborted,     (* std::terminate was called                                *)
  submitted,   (* history: tasks passed to enqueue                         *)
  finished     (* history: tasks whose execution ended                     *)

vars == <<mutex, queue, run, wpc, task, cpc, arg, spc, wait, joinable,
          aborted, submitted, finished>>
workerVars == <<wpc, task>>
clientVars == <<cpc, arg, submitted>>
ownerVars  == <<spc, wait, joinable>>

Queued  == {queue[i] : i \in DOMAIN queue}
Running == {task[w] : w \in {v \in Workers : wpc[v] = "exec"}}
Parked  == {w \in Workers : wpc[w] = "parked"}

TypeOK ==
  /\ mutex \in Workers \cup Clients \cup {Nobody}
  /\ queue \in Seq(Tasks)
  /\ run \in BOOLEAN
  /\ wpc \in [Workers -> {"top", "test", "park", "parked", "exec", "exited"}]
  /\ task \in [Workers -> Tasks \cup {NoTask}]
  /\ cpc \in [Clients -> {"idle", "test", "emplace", "notify"}]
  /\ arg \in [Clients -> Tasks \cup {NoTask}]
  /\ spc \in {"out", "halt", "notify", "await", "clear"}
  /\ wait \in BOOLEAN
  /\ joinable \in SUBSET Workers
  /\ aborted \in BOOLEAN
  /\ submitted \in SUBSET Tasks
  /\ finished \in SUBSET Tasks

Init ==
  /\ mutex = Nobody
  /\ queue = <<>>
  /\ run = TRUE
  /\ wpc = [w \in Workers |-> "top"]
  /\ task = [w \in Workers |-> NoTask]
  /\ cpc = [c \in Clients |-> "idle"]
  /\ arg = [c \in Clients |-> NoTask]
  /\ spc = "out"
  /\ wait = TRUE
  /\ joinable = Workers
  /\ aborted = FALSE
  /\ submitted = {}
  /\ finished = {}

-----------------------------------------------------------------------------
(* The loop of a worker.  Nothing moves once std::terminate was called.    *)

(* Taking queue_mutex: at the top of the loop, and again inside            *)
(* condition.wait once the worker has been woken.                          *)
Acquire(w) ==
  /\ ~aborted
  /\ wpc[w] = "top"
  /\ mutex = Nobody
  /\ mutex' = w
  /\ wpc' = [wpc EXCEPT ![w] = "test"]
  /\ UNCHANGED <<queue, run, task, clientVars, ownerVars, aborted, finished>>

(* Mutant: the mutex is released before the worker is in the wait set.     *)
DecideToWaitUnlocked(w) ==
  /\ ~aborted
  /\ wpc[w] = "test"
  /\ run
  /\ queue = <<>>
  /\ mutex' = Nobody
  /\ wpc' = [wpc EXCEPT ![w] = "park"]
  /\ UNCHANGED <<queue, run, task, clientVars, ownerVars, aborted, finished>>

(* The predicate is false: the worker is going to sleep, but for now it    *)
(* still holds the mutex and is not in the condition's wait set.           *)
DecideToWait(w) ==
  /\ ~aborted
  /\ wpc[w] = "test"
  /\ run
  /\ queue = <<>>
  /\ wpc' = [wpc EXCEPT ![w] = "park"]
  /\ UNCHANGED <<mutex, queue, run, task, clientVars, ownerVars, aborted,
                 finished>>

(* The atomic unlock-and-sleep of the condition variable.                  *)
Park(w) ==
  /\ ~aborted
  /\ wpc[w] = "park"
  /\ mutex' = Nobody
  /\ wpc' = [wpc EXCEPT ![w] = "parked"]
  /\ UNCHANGED <<queue, run, task, clientVars, ownerVars, aborted, finished>>

(* The C++ standard lets a wait end without any notification.              *)
SpuriousWakeup(w) ==
  /\ ~aborted
  /\ wpc[w] = "parked"
  /\ wpc' = [wpc EXCEPT ![w] = "top"]
  /\ UNCHANGED <<mutex, queue, run, task, clientVars, ownerVars, aborted,
                 finished>>

(* Mutant: a halted worker does not look at the queue.                     *)
ExitUndrained(w) ==
  /\ ~aborted
  /\ wpc[w] = "test"
  /\ ~run
  /\ mutex' = Nobody
  /\ wpc' = [wpc EXCEPT ![w] = "exited"]
  /\ UNCHANGED <<queue, run, task, clientVars, ownerVars, aborted, finished>>

(* set_value() on the worker's promise, then return and unlock.            *)
Exit(w) ==
  /\ ~aborted
  /\ wpc[w] = "test"
  /\ ~run
  /\ queue = <<>>
  /\ mutex' = Nobody
  /\ wpc' = [wpc EXCEPT ![w] = "exited"]
  /\ UNCHANGED <<queue, run, task, clientVars, ownerVars, aborted, finished>>

(* Mutant: condition.wait without a predicate; a spurious wakeup pops an   *)
(* empty queue.                                                            *)
TakeUnchecked(w) ==
  /\ ~aborted
  /\ wpc[w] = "test"
  /\ task' = [task EXCEPT ![w] = IF queue = <<>> THEN NoTask ELSE Head(queue)]
  /\ queue' = IF queue = <<>> THEN <<>> ELSE Tail(queue)
  /\ mutex' = Nobody
  /\ wpc' = [wpc EXCEPT ![w] = "exec"]
  /\ UNCHANGED <<run, clientVars, ownerVars, aborted, finished>>

Take(w) ==
  /\ ~aborted
  /\ wpc[w] = "test"
  /\ queue # <<>>
  /\ task' = [task EXCEPT ![w] = Head(queue)]
  /\ queue' = Tail(queue)
  /\ mutex' = Nobody
  /\ wpc' = [wpc EXCEPT ![w] = "exec"]
  /\ UNCHANGED <<run, clientVars, ownerVars, aborted, finished>>

(* Mutant: the try block is around the loop, so an exception ends it.      *)
FinishForGood(w) ==
  /\ ~aborted
  /\ wpc[w] = "exec"
  /\ finished' = finished \cup {task[w]}
  /\ task' = [task EXCEPT ![w] = NoTask]
  /\ \E outcome \in Outcomes \cap {"ok", "std"} :
       wpc' = [wpc EXCEPT ![w] = IF outcome = "ok" THEN "top" ELSE "exited"]
  /\ UNCHANGED <<mutex, queue, run, clientVars, ownerVars, aborted>>

(* The task returns, or throws a std::exception that the loop catches and  *)
(* logs: the worker goes on either way.                                    *)
Finish(w) ==
  /\ ~aborted
  /\ wpc[w] = "exec"
  /\ Outcomes \cap {"ok", "std"} # {}
  /\ finished' = finished \cup {task[w]}
  /\ task' = [task EXCEPT ![w] = NoTask]
  /\ wpc' = [wpc EXCEPT ![w] = "top"]
  /\ UNCHANGED <<mutex, queue, run, clientVars, ownerVars, aborted>>

(* Any other exception leaves the thread's function: std::terminate.       *)
EscapingException(w) ==
  /\ ~aborted
  /\ wpc[w] = "exec"
  /\ "foreign" \in Outcomes
  /\ aborted' = TRUE
  /\ UNCHANGED <<mutex, queue, run, workerVars, clientVars, ownerVars,
                 finished>>

-----------------------------------------------------------------------------
(* enqueue.                                                                *)

(* Constructing the lock_guard.  A caller still waiting for the mutex has  *)
(* done nothing yet, so the call begins here.                              *)
Enqueue(c, t) ==
  /\ ~aborted
  /\ cpc[c] = "idle"
  /\ t \notin submitted
  /\ mutex = Nobody
  /\ mutex' = c
  /\ arg' = [arg EXCEPT ![c] = t]
  /\ submitted' = submitted \cup {t}
  /\ cpc' = [cpc EXCEPT ![c] = "test"]
  /\ UNCHANGED <<queue, run, workerVars, ownerVars, aborted, finished>>

(* Mutant: `run` is tested, but the queue changed, outside the lock.       *)
SeeRunningUnlocked(c) ==
  /\ ~aborted
  /\ cpc[c] = "test"
  /\ run
  /\ mutex' = Nobody
  /\ cpc' = [cpc EXCEPT ![c] = "emplace"]
  /\ UNCHANGED <<queue, run, workerVars, arg, submitted, ownerVars, aborted,
                 finished>>

SeeRunning(c) ==
  /\ ~aborted
  /\ cpc[c] = "test"
  /\ run
  /\ cpc' = [cpc EXCEPT ![c] = "emplace"]
  /\ UNCHANGED <<mutex, queue, run, workerVars, arg, submitted, ownerVars,
                 aborted, finished>>

SeeHalted(c) ==
  /\ ~aborted
  /\ cpc[c] = "test"
  /\ ~run
  /\ mutex' = Nobody
  /\ cpc' = [cpc EXCEPT ![c] = "notify"]
  /\ UNCHANGED <<queue, run, workerVars, arg, submitted, ownerVars, aborted,
                 finished>>

(* Mutant: the new task overtakes the waiting ones.                        *)
EmplaceFirst(c) ==
  /\ ~aborted
  /\ cpc[c] = "emplace"
  /\ queue' = <<arg[c]>> \o queue
  /\ mutex' = Nobody
  /\ cpc' = [cpc EXCEPT ![c] = "notify"]
  /\ UNCHANGED <<run, workerVars, arg, submitted, ownerVars, aborted, finished>>

Emplace(c) ==
  /\ ~aborted
  /\ cpc[c] = "emplace"
  /\ queue' = Append(queue, arg[c])
  /\ mutex' = Nobody
  /\ cpc' = [cpc EXCEPT ![c] = "notify"]
  /\ UNCHANGED <<run, workerVars, arg, submitted, ownerVars, aborted, finished>>

(* condition.notify_one(), after the lock has been released and whether or *)
(* not the task was accepted.                                              *)
NotifyOne(c) ==
  /\ ~aborted
  /\ cpc[c] = "notify"
  /\ \/ Parked = {} /\ UNCHANGED wpc
     \/ \E w \in Parked : wpc' = [wpc EXCEPT ![w] = "top"]
  /\ arg' = [arg EXCEPT ![c] = NoTask]
  /\ cpc' = [cpc EXCEPT ![c] = "idle"]
  /\ UNCHANGED <<mutex, queue, run, task, submitted, ownerVars, aborted,
                 finished>>

-----------------------------------------------------------------------------
(* stop(graceful), called by the pool's owner as often as it likes.        *)

CallStop(graceful) ==
  /\ ~aborted
  /\ spc = "out"
  /\ wait' = graceful
  /\ spc' = IF run THEN "halt" ELSE "clear"
  /\ UNCHANGED <<mutex, queue, run, workerVars, clientVars, joinable, aborted,
                 finished>>

(* run = false, without queue_mutex.                                       *)
Halt ==
  /\ ~aborted
  /\ spc = "halt"
  /\ run' = FALSE
  /\ spc' = "notify"
  /\ UNCHANGED <<mutex, queue, workerVars, clientVars, wait, joinable, aborted,
                 finished>>

(* Mutant: the threads are woken and not joined.                           *)
NotifyAllHasty ==
  /\ ~aborted
  /\ spc = "notify"
  /\ wpc' = [w \in Workers |-> IF wpc[w] = "parked" THEN "top" ELSE wpc[w]]
  /\ spc' = "clear"
  /\ UNCHANGED <<mutex, queue, run, task, clientVars, wait, joinable, aborted,
                 finished>>

NotifyAll ==
  /\ ~aborted
  /\ spc = "notify"
  /\ wpc' = [w \in Workers |-> IF wpc[w] = "parked" THEN "top" ELSE wpc[w]]
  /\ spc' = IF wait THEN "await" ELSE "clear"
  /\ UNCHANGED <<mutex, queue, run, task, clientVars, wait, joinable, aborted,
                 finished>>

(* Waiting for every future, then joining every thread.                    *)
JoinAll ==
  /\ ~aborted
  /\ spc = "await"
  /\ \A w \in Workers : wpc[w] = "exited"
  /\ joinable' = {}
  /\ spc' = "clear"
  /\ UNCHANGED <<mutex, queue, run, workerVars, clientVars, wait, aborted,
                 finished>>

(* pool.clear(): the destructor of a std::thread that is still joinable    *)
(* calls std::terminate, which the try block around it cannot catch.       *)
ClearPool ==
  /\ ~aborted
  /\ spc = "clear"
  /\ IF joinable = {}
       THEN spc' = "out" /\ UNCHANGED aborted
       ELSE aborted' = TRUE /\ UNCHANGED spc
  /\ UNCHANGED <<mutex, queue, run, workerVars, clientVars, wait, joinable,
                 finished>>

-----------------------------------------------------------------------------
WorkerStep(w) ==
  \/ Acquire(w) \/ DecideToWait(w) \/ Park(w) \/ SpuriousWakeup(w)
  \/ Exit(w) \/ Take(w) \/ Finish(w) \/ EscapingException(w)

ClientStep(c) ==
  \/ \E t \in Tasks : Enqueue(c, t)
  \/ SeeRunning(c) \/ SeeHalted(c) \/ Emplace(c) \/ NotifyOne(c)

OwnerStep ==
  \/ \E graceful \in Graceful : CallStop(graceful)
  \/ Halt \/ NotifyAll \/ JoinAll \/ ClearPool

Next ==
  \/ \E w \in Workers : WorkerStep(w)
  \/ \E c \in Clients : ClientStep(c)
  \/ OwnerStep

Spec == Init /\ [][Next]_vars

(* The scheduler runs every thread that can run, a task ends, and a thread *)
(* does not wait forever for a mutex that keeps being released.  Nothing   *)
(* makes a caller enqueue or the owner call stop(), and nothing makes a    *)
(* sleeping thread wake up by itself.                                      *)
Progress ==
  /\ \A w \in Workers :
       /\ SF_vars(Acquire(w))
       /\ WF_vars(DecideToWait(w) \/ Park(w) \/ Exit(w) \/ Take(w)
                 \/ Finish(w))
  /\ \A c \in Clients :
       WF_vars(SeeRunning(c) \/ SeeHalted(c) \/ Emplace(c) \/ NotifyOne(c))
  /\ WF_vars(Halt \/ NotifyAll \/ JoinAll \/ ClearPool)

FairSpec == Spec /\ Progress

-----------------------------------------------------------------------------
(* Properties.                                                             *)

(* When a worker has left its loop (set_value and return), the pool is     *)
(* halted, the queue is empty and no enqueue is about to add to it, even   *)
(* one that read `run` before stop() cleared it without the mutex.  Were   *)
(* it otherwise a task could be accepted with nobody left to run it.       *)
ExitIsFinal ==
  (\E w \in Workers : wpc[w] = "exited") =>
    /\ ~run
    /\ queue = <<>>
    /\ \A c \in Clients : cpc[c] # "emplace"

(* Once stop() has joined the threads, every task that enqueue accepted    *)
(* has been executed to its end: nothing is queued or running, and no      *)
(* enqueue that passed the check of `run` is still on its way in.          *)
DrainedWhenJoined ==
  joinable = {} =>
    /\ queue = <<>>
    /\ Running = {}
    /\ \A c \in Clients : cpc[c] # "emplace"

(* enqueue notifies after it has released the mutex.  Still, whenever a    *)
(* task waits and every worker sleeps, a notification is under way.        *)
NoLostTaskWakeup ==
  (queue # <<>> /\ Parked = Workers) => \E c \in Clients : cpc[c] = "notify"

(* A task is in one place only: not queued twice, not run by two workers,  *)
(* not run again after it ended (front() and pop() under the mutex).       *)
AtMostOnce ==
  /\ \A i, j \in DOMAIN queue : queue[i] = queue[j] => i = j
  /\ Queued \cap (Running \cup finished) = {}
  /\ Running \cap finished = {}
  /\ \A v, w \in Workers :
       (wpc[v] = "exec" /\ wpc[w] = "exec" /\ task[v] = task[w]) => v = w

(* std::terminate is called because a task threw what run() does not catch *)
(* or because stop(false) destroys the threads it did not join: never by a *)
(* graceful stop, be it the second one or one that overlaps the enqueues.  *)
AbortHasCause ==
  aborted =>
    \/ spc = "clear" /\ ~wait /\ joinable # {}
    \/ "foreign" \in Outcomes /\ \E w \in Workers : wpc[w] = "exec"

(* Threads that can go on without being woken.                             *)
CanGoOn(w) ==
  wpc[w] \in {"test", "park", "exec"} \/ (wpc[w] = "top" /\ mutex = Nobody)

(* As long as an accepted task is queued or running, some thread is able   *)
(* to go on, and no worker's way to it depends on a spurious wakeup.       *)
NoTaskIsStranded ==
  queue # <<>> \/ Running # {} =>
    \/ \E w \in Workers : CanGoOn(w)
    \/ \E c \in Clients : cpc[c] # "idle"

(* Each accepted task is eventually executed, also when it is accepted     *)
(* while stop() runs, and also when tasks before it throw, unless the      *)
(* program is terminated.                                                  *)
AcceptedIsExecuted ==
  \A t \in Tasks : (t \in Queued) ~> (t \in finished \/ aborted)

(* stop(true) blocks until the workers have finished, and then returns:    *)
(* a halted pool wakes its sleeping workers.                               *)
StopReturns == (spc = "await") ~> (spc = "out")

(* The pool implements the abstract one: closed once the threads have been *)
(* joined, closing from the moment `run` is cleared.                       *)
Abstract == INSTANCE TaskPool WITH
  pending  <- queue,
  running  <- Running,
  finished <- finished,
  phase    <- IF joinable = {} THEN "closed"
              ELSE IF run THEN "open" ELSE "closing"

ImplementsTaskPool == Abstract!Spec

=============================================================================
