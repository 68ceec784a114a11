----------------------------- MODULE ServerStop -----------------------------
(***************************************************************************)
(* A Server from run() to its destruction: the loop's thread with Server's *)
(* callbacks, the threads of its ThreadPool, and the thread that owns the  *)
(* object, calls stop() and destroys it, member by member.                 *)
(*                                                                         *)
(* Server has callbacks and tasks as single steps.  Here each begins and   *)
(* ends, and two that overlap on ctx_pool are a data race; so is one that  *)
(* overlaps with a stop() that walks through it.                           *)
(***************************************************************************)
EXTENDS Server

CONSTANTS
  MaxWork,    (* tasks of allocate_work that have not ended, at one time   *)
  Cares       (* what applications may see to, sets of the following:      *)
              (*   "inside"  while the loop runs, stop() is called by a    *)
              (*             callback                                      *)
              (*   "wait"    the server is not destroyed before run() has  *)
              (*             returned                                      *)
              (*   "idle"    the owner calls stop() or the destructor when *)
              (*             no close_connection task is left              *)
              (*   "alone"   close_connection is called when the loop does *)
              (*             not run and no other of its tasks is left     *)
              (* A task tells nobody that it has ended, but as many tasks  *)
              (* as there are threads, waiting for each other, do so for   *)
              (* all before them.                                          *)

ASSUME StopAssumption ==
  /\ MaxWork \in Nat
  /\ Cares \subseteq SUBSET {"inside", "wait", "idle", "alone"}

VARIABLES
  care,       (* the application's, one of Cares                           *)
  loop,       (* "new", "running", or "left" once run() has returned       *)
  exit,       (* loopexit was called                                       *)
  callback,   (* the connection whose callback has begun, or None          *)
  erase,      (* the task, of tasks, between its find and its erase, or 0  *)
  work,       (* tasks of allocate_work that have not ended                *)
  pool,       (* "up", or "halted" once ~ThreadPool has cleared run; then  *)
              (* "asleep" as long as a thread has missed it                *)
  owner,      (* "using" the server, in "stop", in the "last" stop (that   *)
              (* of ~Server), or "destroying"                              *)
  destroyed,  (* how many members have been destroyed                      *)
  misuse      (* "none", a data "race", or a use of something "dead"       *)

loopVars == <<loop, exit, callback>>
poolVars == <<erase, work, pool>>
ownerVars == <<owner, destroyed>>
stopVars == <<care, loopVars, poolVars, ownerVars, misuse>>
allVars == <<vars, stopVars>>

(* Mutant: base is declared after thread_pool.                             *)
PoolOutlivesBase == <<"ctx_pool", "base", "thread_pool", "api", "listen_sock">>

(* The members of Server that matter, in the order of their destruction.   *)
Members == <<"ctx_pool", "thread_pool", "api", "base", "listen_sock">>

Dead(member) == \E i \in 1 .. destroyed : Members[i] = member

StopTypeOK ==
  /\ TypeOK
  /\ care \in Cares
  /\ loop \in {"new", "running", "left"}
  /\ exit \in BOOLEAN
  /\ callback \in Conns \cup {None}
  /\ erase \in 0 .. Len(tasks)
  /\ work \in 0 .. MaxWork
  /\ pool \in {"up", "halted", "asleep"}
  /\ owner \in {"using", "stop", "last", "destroying"}
  /\ destroyed \in 0 .. Len(Members)
  /\ misuse \in {"none", "race", "dead"}

StopInit ==
  /\ Init
  /\ care \in Cares
  /\ loop = "new" /\ exit = FALSE /\ callback = None
  /\ erase = 0 /\ work = 0 /\ pool = "up"
  /\ owner = "using" /\ destroyed = 0
  /\ misuse = "none"

Sees(precaution) == precaution \in care

Goes(wrong) ==
  /\ misuse' = wrong
  /\ UNCHANGED <<vars, care, loopVars, poolVars, ownerVars>>

-----------------------------------------------------------------------------
(* Who is at ctx_pool.                                                     *)

(* A thread other than the loop's walks through it.                        *)
Walking == owner \in {"stop", "last"}

(* The callback adds to it.                                                *)
Adding == callback # None /\ ctx[callback] = "none"

(* Task i removes something, or only looks for it.                         *)
Removes(i) == ctx_pool[tasks[i]] # None

Removing == erase # 0 /\ Removes(erase)

-----------------------------------------------------------------------------
(* The thread in run().                                                    *)

(* try_listen may fail, and run() return at once.                          *)
Run ==
  /\ loop = "new" /\ owner = "using"
  /\ loop' \in {"running", "left"}
  /\ UNCHANGED <<vars, care, exit, callback, poolVars, ownerVars, misuse>>

CallbackDue(c) ==
  \/ ctx[c] = "none" /\ peer[c] # "away" /\ \E f \in Fds : kernel[f] = None
  \/ ctx[c] = "handshake" /\ (peer[c] \in {"answer", "part"} \/ c \in closed)
  \/ ctx[c] = "read" /\ c \in closed

Begin(c) ==
  /\ loop = "running" /\ callback = None
  /\ CallbackDue(c)
  /\ IF erase # 0 /\ (ctx[c] = "none" \/ ctx_pool[tasks[erase]] = c)
       THEN Goes("race")
       ELSE /\ callback' = c
            /\ UNCHANGED <<vars, care, loop, exit, poolVars, ownerVars, misuse>>

End(c) ==
  /\ callback = c
  /\ IF destroyed > 0
       THEN Goes("dead")
       ELSE IF Walking /\ Adding
              THEN Goes("race")
              ELSE /\ AcceptConnection(c) \/ HandshakeEvent(c) \/ ReadEvent(c)
                   /\ callback' = None
                   /\ UNCHANGED <<care, loop, exit, poolVars, ownerVars,
                                  misuse>>

(* stop() called by a callback: the contexts it joins have no thread.      *)
StopInside ==
  /\ loop = "running" /\ callback # None /\ ~exit /\ destroyed = 0
  /\ IF Removing
       THEN Goes("race")
       ELSE /\ exit' = TRUE
            /\ UNCHANGED <<vars, care, loop, callback, poolVars, ownerVars,
                           misuse>>

(* Mutant: the loop goes on as long as there is anything to wait for.      *)
LeaveUnused ==
  /\ loop = "running" /\ exit /\ callback = None
  /\ \A c \in Conns : ctx[c] \in {"idle", "gone"}
  /\ loop' = "left"
  /\ UNCHANGED <<vars, care, exit, callback, poolVars, ownerVars, misuse>>

(* The loop leaves after the round in which loopexit was called, or some   *)
(* callbacks later; run() then sets status.  A loop that does not leave    *)
(* would use its base just the same.                                       *)
Leave ==
  /\ loop = "running" /\ exit /\ callback = None
  /\ IF destroyed > 0
       THEN Goes("dead")
       ELSE /\ loop' = "left"
            /\ UNCHANGED <<vars, care, exit, callback, poolVars, ownerVars,
                           misuse>>

-----------------------------------------------------------------------------
(* The pool.                                                               *)

AllocateWork ==
  /\ owner = "using" /\ work < MaxWork
  /\ work' = work + 1
  /\ UNCHANGED <<vars, care, loopVars, erase, pool, ownerVars, misuse>>

(* A task given to allocate_work may use the endpoints and the base.       *)
RunWork ==
  /\ work > 0
  /\ IF Dead("api") \/ Dead("base")
       THEN Goes("dead")
       ELSE /\ work' = work - 1
            /\ UNCHANGED <<vars, care, loopVars, erase, pool, ownerVars,
                           misuse>>

(* A task of close_connection looks for its key.  No mutex guards ctx_pool *)
(* from the loop's thread, the owner's or another thread of the pool.      *)
BeginErase(i) ==
  /\ i # erase
  /\ IF Dead("ctx_pool")
       THEN Goes("dead")
       ELSE IF \/ erase # 0 /\ (Removes(i) \/ Removes(erase))
               \/ Walking /\ Removes(i)
               \/ Adding
               \/ callback # None /\ ctx_pool[tasks[i]] = callback
              THEN Goes("race")
              ELSE /\ erase = 0
                   /\ erase' = i
                   /\ UNCHANGED <<vars, care, loopVars, work, pool, ownerVars,
                                  misuse>>

(* It erases what it has found, and the task ends.                         *)
EndErase ==
  /\ erase # 0
  /\ IF Dead("ctx_pool")
       THEN Goes("dead")
       ELSE IF Walking /\ Removing
              THEN Goes("race")
              ELSE /\ EraseContext(erase)
                   /\ erase' = 0
                   /\ UNCHANGED <<care, loopVars, work, pool, ownerVars,
                                  misuse>>

(* A thread of the pool that sleeps may wake up without being notified.    *)
WakeUp ==
  /\ pool = "asleep"
  /\ pool' = "halted"
  /\ UNCHANGED <<vars, care, loopVars, erase, work, ownerVars, misuse>>

-----------------------------------------------------------------------------
(* The owner.                                                              *)

(* stop() from another thread than the loop's: a walk, then loopexit.      *)
StopOutside ==
  /\ owner = "using"
  /\ Sees("inside") => loop # "running"
  /\ Sees("idle") => tasks = <<>>
  /\ owner' = "stop"
  /\ UNCHANGED <<vars, care, loopVars, poolVars, destroyed, misuse>>

(* ~Server, whose body is stop().                                          *)
Destruct ==
  /\ owner = "using"
  /\ Sees("wait") => loop = "left"
  /\ Sees("idle") => tasks = <<>>
  /\ owner' = "last"
  /\ UNCHANGED <<vars, care, loopVars, poolVars, destroyed, misuse>>

LoopExit ==
  /\ Walking
  /\ IF Adding \/ Removing
       THEN Goes("race")
       ELSE /\ exit' = TRUE
            /\ owner' = IF owner = "stop" THEN "using" ELSE "destroying"
            /\ UNCHANGED <<vars, care, loop, callback, poolVars, destroyed,
                           misuse>>

(* The Contexts are destroyed with ctx_pool, and close their descriptors.  *)
ReleaseContexts ==
  LET pooled == {ctx_pool[k] : k \in Keys}
  IN  /\ ctx_pool' = [k \in Keys |-> None]
      /\ ctx' = [c \in Conns |-> IF c \in pooled THEN "gone" ELSE ctx[c]]
      /\ sock' = [c \in Conns |-> IF c \in pooled THEN 0 ELSE sock[c]]
      /\ kernel' = [f \in Fds |-> IF \E c \in Conns \cap pooled : sock[c] = f
                                    THEN None ELSE kernel[f]]
      /\ UNCHANGED <<peer, closed, tasks, closes>>

NextMember == Members[destroyed + 1]

(* ~ThreadPool, the first half: ThreadPool::stop clears run and notifies   *)
(* without the mutex.  A thread with nothing to do may have just tested    *)
(* run and not be asleep yet: it misses the notification.                  *)
HaltPool ==
  /\ owner = "destroying" /\ destroyed < Len(Members)
  /\ NextMember = "thread_pool" /\ pool = "up"
  /\ pool' \in {"halted"} \cup
               (IF Len(tasks) + work < Workers THEN {"asleep"} ELSE {})
  /\ UNCHANGED <<vars, care, loopVars, erase, work, ownerVars, misuse>>

(* Mutant: stop(false), which joins no thread.                             *)
DestroyAtOnce ==
  /\ owner = "destroying" /\ destroyed < Len(Members)
  /\ NextMember = "thread_pool" => pool # "up"
  /\ IF NextMember = "ctx_pool" THEN ReleaseContexts ELSE UNCHANGED vars
  /\ destroyed' = destroyed + 1
  /\ UNCHANGED <<care, loopVars, poolVars, owner, misuse>>

(* The next member.  ~ThreadPool, the second half: it joins its threads,   *)
(* which first execute what is queued.                                     *)
DestroyMember ==
  /\ owner = "destroying" /\ destroyed < Len(Members)
  /\ NextMember = "thread_pool" => pool = "halted" /\ tasks = <<>> /\ work = 0
  /\ IF NextMember = "ctx_pool" THEN ReleaseContexts ELSE UNCHANGED vars
  /\ destroyed' = destroyed + 1
  /\ UNCHANGED <<care, loopVars, poolVars, owner, misuse>>

-----------------------------------------------------------------------------
(* What peers do once the loop has left reaches nobody, and is left out.   *)
Peers ==
  /\ loop # "left"
  /\ \E c \in Conns : Connect(c) \/ Answer(c) \/ Close(c)
  /\ UNCHANGED stopVars

Tidy(f) ==
  /\ owner = "using"
  /\ Sees("alone") => loop # "running" /\ tasks = <<>>
  /\ CloseConnection(f)
  /\ UNCHANGED stopVars

StopNext ==
  /\ misuse = "none"
  /\ \/ Peers
     \/ Run \/ StopInside \/ Leave
     \/ \E c \in Conns : Begin(c) \/ End(c)
     \/ \E f \in Fds : Tidy(f)
     \/ \E i \in UnderWay : BeginErase(i)
     \/ EndErase \/ AllocateWork \/ RunWork \/ WakeUp
     \/ StopOutside \/ Destruct \/ LoopExit \/ HaltPool \/ DestroyMember

StopSpec == StopInit /\ [][StopNext]_allVars

(* The loop goes on with what it has begun and leaves when it should; the  *)
(* pool executes its tasks; an application that tidies up does so in the   *)
(* end; and a destructor that was called goes on as long as it can.  No    *)
(* thread need wake up without being notified.                             *)
FairStop ==
  /\ StopSpec
  /\ WF_allVars(misuse = "none" /\ \E c \in Conns : End(c))
  /\ WF_allVars(misuse = "none" /\ Leave)
  /\ WF_allVars(misuse = "none"
                  /\ (EndErase \/ \E i \in UnderWay : BeginErase(i)))
  /\ WF_allVars(misuse = "none" /\ RunWork)
  /\ SF_allVars(misuse = "none" /\ \E f \in Fds : Tidy(f))
  /\ WF_allVars(misuse = "none" /\ (LoopExit \/ HaltPool \/ DestroyMember))

-----------------------------------------------------------------------------
(* No thread uses a member of the server after its destruction, or         *)
(* ctx_pool while another thread changes it: what the fixture of           *)
(* test/server.cpp counts on.                                              *)
NoMisuse == misuse = "none"

AllCare == {"inside", "wait", "idle", "alone"} \subseteq care

(* An application that sees to all four is safe: the threads that come to  *)
(* ctx_pool without a lock, the loop's, the owner's and those of the pool, *)
(* do not meet there.                                                      *)
NoMisuseWithCare == AllCare => misuse = "none"

(* Nothing is used after its destruction, if the owner waits for run() to  *)
(* return and for the tasks: the members go in an order that lets the pool *)
(* finish before what its tasks use.                                       *)
NothingDeadIsUsed == {"wait", "idle"} \subseteq care => misuse # "dead"

(* While the server is up, close_connection removes a Context whose peer   *)
(* has closed, and no other.                                               *)
OnlyClosedAreRemovedWhileUp ==
  [][owner # "destroying" =>
       \A k \in Keys : (ctx_pool[k] # None /\ ctx_pool'[k] # ctx_pool[k])
         => ctx_pool[k] \in closed]_allVars

(* A server that has been destroyed, by an owner that waited for run(),    *)
(* has closed every connection and has no thread left that runs.           *)
NothingOutlives ==
  "wait" \in care /\ destroyed = Len(Members) =>
    /\ \A f \in Fds : kernel[f] = None
    /\ tasks = <<>> /\ work = 0
    /\ loop # "running"

(* A Context that has seen its peer close is eventually removed, and its   *)
(* number free for another connection, when the application then calls     *)
(* close_connection.  (Under key 0, which all Contexts have where get_fd() *)
(* is evaluated after the move, close_connection finds none.)              *)
ClosedIsRemoved ==
  \A f \in Fds :
    (ctx_pool[f] # None /\ sock[ctx_pool[f]] = 0 /\ ~Sees("alone"))
      ~> (ctx_pool[f] = None \/ misuse # "none")

(* stop() ends run(), and a destructor that was called comes to its end,   *)
(* unless a thread of the pool has missed the end of the pool.             *)
StopEnds ==
  /\ exit ~> (loop # "running" \/ misuse # "none")
  /\ owner = "destroying"
       ~> (destroyed = Len(Members) \/ pool = "asleep" \/ misuse # "none")

=============================================================================
