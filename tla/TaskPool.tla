------------------------------ MODULE TaskPool ------------------------------
(***************************************************************************)
(* What include/thread-pool.hpp promises the callers of ThreadPool, with   *)
(* no threads, mutex or condition variable in sight: tasks are started in  *)
(* the order they were accepted, each of them once, and a pool that has    *)
(* been closed by a graceful stop has nothing left to start, nothing       *)
(* running and accepts nothing more.                                       *)
(***************************************************************************)
EXTENDS Sequences

CONSTANT Tasks   (* the function objects that callers hand to the pool     *)

VARIABLES
  pending,       (* accepted and not started, in order of acceptance       *)
  running,       (* started and not finished                               *)
  finished,      (* returned, or threw an exception the pool caught        *)
  phase          (* "open", "closing" once a stop began, then "closed"     *)

vars == <<pending, running, finished, phase>>

Queued == {pending[i] : i \in DOMAIN pending}

TypeOK ==
  /\ pending \in Seq(Tasks)
  /\ running \in SUBSET Tasks
  /\ finished \in SUBSET Tasks
  /\ phase \in {"open", "closing", "closed"}

Init ==
  /\ pending = <<>>
  /\ running = {}
  /\ finished = {}
  /\ phase = "open"

(* A call to enqueue that overlaps the beginning of a stop may still be    *)
(* accepted; one that comes after the pool has closed may not.             *)
Accept(t) ==
  /\ phase # "closed"
  /\ t \notin Queued \cup running \cup finished
  /\ pending' = Append(pending, t)
  /\ UNCHANGED <<running, finished, phase>>

Start ==
  /\ phase # "closed"
  /\ pending # <<>>
  /\ pending' = Tail(pending)
  /\ running' = running \cup {Head(pending)}
  /\ UNCHANGED <<finished, phase>>

Finish(t) ==
  /\ t \in running
  /\ running' = running \ {t}
  /\ finished' = finished \cup {t}
  /\ UNCHANGED <<pending, phase>>

BeginClose ==
  /\ phase = "open"
  /\ phase' = "closing"
  /\ UNCHANGED <<pending, running, finished>>

EndClose ==
  /\ phase = "closing"
  /\ pending = <<>>
  /\ running = {}
  /\ phase' = "closed"
  /\ UNCHANGED <<pending, running, finished>>

Next ==
  \/ \E t \in Tasks : Accept(t) \/ Finish(t)
  \/ Start
  \/ BeginClose
  \/ EndClose

Spec == Init /\ [][Next]_vars

=============================================================================
