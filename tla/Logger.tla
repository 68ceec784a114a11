------------------------------- MODULE Logger -------------------------------
(***************************************************************************)
(* The Logger (src/logger.cpp, include/logger.hpp) used by several threads *)
(* from the first message on: get(), which creates the one instance, and   *)
(* log_item, which keeps the last messages in a list and writes each to a  *)
(* stream under log_item_mutex.                                            *)
(*                                                                         *)
(* get() tests and assigns the static pointer without a lock.  Reads and   *)
(* writes of the pointer are taken to be atomic.                           *)
(***************************************************************************)
EXTENDS Naturals, Sequences

CONSTANTS
  Threads,
  Limit,       (* items in the list: 100 in the code                       *)
  MaxCalls,    (* calls of each thread                                     *)
  None

ASSUME LoggerAssumption ==
  Limit \in Nat \ {0} /\ MaxCalls \in Nat /\ None \notin Threads

(* A message: whose, of which call, and the first or second of it.         *)
Items == [by : Threads, call : 1 .. MaxCalls, part : {1, 2}]

VARIABLES
  logger,    (* Logger::logger: the thread that created the object it      *)
             (* points to, or None                                         *)
  pc,        (* where each thread is                                       *)
  call,      (* how many calls it has begun                                *)
  part,      (* which item of its call it logs                             *)
  last,      (* how many items the call logs: error(code, e) logs two      *)
  mine,      (* the object that its call of get() returned                 *)
  mutex,     (* log_item_mutex of each object: its holder, or None         *)
  buf,       (* the list of each object                                    *)
  logged,    (* the items put into the list so far                         *)
  written    (* the items written to its streams so far                    *)

vars == <<logger, pc, call, part, last, mine, mutex, buf, logged, written>>

Places == {"idle", "test", "assign", "read", "lock", "push", "trim", "write",
           "unlock"}

TypeOK ==
  /\ logger \in Threads \cup {None}
  /\ pc \in [Threads -> Places]
  /\ call \in [Threads -> 0 .. MaxCalls]
  /\ part \in [Threads -> {1, 2}]
  /\ last \in [Threads -> {1, 2}]
  /\ mine \in [Threads -> Threads \cup {None}]
  /\ mutex \in [Threads -> Threads \cup {None}]
  /\ buf \in [Threads -> Seq(Items)]
  /\ \A l \in Threads : Len(buf[l]) <= Limit + 1
  /\ logged \in [Threads -> Seq(Items)]
  /\ written \in [Threads -> Seq(Items)]

Init ==
  /\ logger = None
  /\ pc = [t \in Threads |-> "idle"]
  /\ call = [t \in Threads |-> 0]
  /\ part = [t \in Threads |-> 1]
  /\ last = [t \in Threads |-> 1]
  /\ mine = [t \in Threads |-> None]
  /\ mutex = [l \in Threads |-> None]
  /\ buf = [l \in Threads |-> <<>>]
  /\ logged = [l \in Threads |-> <<>>]
  /\ written = [l \in Threads |-> <<>>]

Moves(t, from, to) == pc[t] = from /\ pc' = [pc EXCEPT ![t] = to]

Item(t) == [by |-> t, call |-> call[t], part |-> part[t]]

-----------------------------------------------------------------------------
(* get().                                                                  *)

(* Logger::get().log(...), or error(...) with one item or two.             *)
Call(t) ==
  /\ call[t] < MaxCalls
  /\ Moves(t, "idle", "test")
  /\ call' = [call EXCEPT ![t] = @ + 1]
  /\ part' = [part EXCEPT ![t] = 1]
  /\ \E n \in {1, 2} : last' = [last EXCEPT ![t] = n]
  /\ UNCHANGED <<logger, mine, mutex, buf, logged, written>>

(* Mutant: the test is missing.                                            *)
TestNothing(t) ==
  /\ Moves(t, "test", "assign")
  /\ UNCHANGED <<logger, call, part, last, mine, mutex, buf, logged, written>>

Test(t) ==
  /\ Moves(t, "test", IF logger = None THEN "assign" ELSE "read")
  /\ UNCHANGED <<logger, call, part, last, mine, mutex, buf, logged, written>>

Assign(t) ==
  /\ Moves(t, "assign", "read")
  /\ logger' = t
  /\ UNCHANGED <<call, part, last, mine, mutex, buf, logged, written>>

(* The pointer is read once more for the result.                           *)
Read(t) ==
  /\ Moves(t, "read", "lock")
  /\ mine' = [mine EXCEPT ![t] = logger]
  /\ UNCHANGED <<logger, call, part, last, mutex, buf, logged, written>>

-----------------------------------------------------------------------------
(* log_item of the object that get() returned.                             *)

(* Mutant: there is no lock.                                               *)
LockAnyway(t) ==
  /\ Moves(t, "lock", "push")
  /\ mutex' = [mutex EXCEPT ![mine[t]] = t]
  /\ UNCHANGED <<logger, call, part, last, mine, buf, logged, written>>

Lock(t) ==
  /\ Moves(t, "lock", "push")
  /\ mutex[mine[t]] = None
  /\ mutex' = [mutex EXCEPT ![mine[t]] = t]
  /\ UNCHANGED <<logger, call, part, last, mine, buf, logged, written>>

Push(t) ==
  /\ Moves(t, "push", "trim")
  /\ buf' = [buf EXCEPT ![mine[t]] = Append(@, Item(t))]
  /\ logged' = [logged EXCEPT ![mine[t]] = Append(@, Item(t))]
  /\ UNCHANGED <<logger, call, part, last, mine, mutex, written>>

(* Mutants: the list is never cut; it is cut one item early.               *)
TrimNever(t) ==
  /\ Moves(t, "trim", "write")
  /\ UNCHANGED <<logger, call, part, last, mine, mutex, buf, logged, written>>

TrimEarly(t) ==
  /\ Moves(t, "trim", "write")
  /\ buf' = [buf EXCEPT ![mine[t]] = IF Len(@) >= Limit THEN Tail(@) ELSE @]
  /\ UNCHANGED <<logger, call, part, last, mine, mutex, logged, written>>

Trim(t) ==
  /\ Moves(t, "trim", "write")
  /\ buf' = [buf EXCEPT ![mine[t]] = IF Len(@) > Limit THEN Tail(@) ELSE @]
  /\ UNCHANGED <<logger, call, part, last, mine, mutex, logged, written>>

Write(t) ==
  /\ Moves(t, "write", "unlock")
  /\ written' = [written EXCEPT ![mine[t]] = Append(@, Item(t))]
  /\ UNCHANGED <<logger, call, part, last, mine, mutex, buf, logged>>

(* Mutant: the second item of an error is logged under the lock.           *)
UnlockLate(t) ==
  /\ Moves(t, "unlock", IF part[t] < last[t] THEN "lock" ELSE "idle")
  /\ part' = [part EXCEPT ![t] = IF @ < last[t] THEN @ + 1 ELSE @]
  /\ mutex' = [mutex EXCEPT ![mine[t]] = IF part[t] < last[t] THEN @ ELSE None]
  /\ UNCHANGED <<logger, call, last, mine, buf, logged, written>>

Unlock(t) ==
  /\ Moves(t, "unlock", IF part[t] < last[t] THEN "lock" ELSE "idle")
  /\ part' = [part EXCEPT ![t] = IF @ < last[t] THEN @ + 1 ELSE @]
  /\ mutex' = [mutex EXCEPT ![mine[t]] = None]
  /\ UNCHANGED <<logger, call, last, mine, buf, logged, written>>

-----------------------------------------------------------------------------
(* pop and clear_buf take no lock: their caller sees to it that nobody     *)
(* logs meanwhile, and that there is something to pop.                     *)
Alone == \A t \in Threads : pc[t] = "idle"

Take(l, rest) ==
  /\ Alone
  /\ buf' = [buf EXCEPT ![l] = rest]
  /\ UNCHANGED <<logger, pc, call, part, last, mine, mutex, logged, written>>

Pop ==
  /\ logger # None /\ buf[logger] # <<>>
  /\ Take(logger, SubSeq(buf[logger], 1, Len(buf[logger]) - 1))

ClearBuf ==
  /\ logger # None
  /\ Take(logger, <<>>)

Step(t) ==
  \/ Test(t) \/ Assign(t) \/ Read(t)
  \/ Lock(t) \/ Push(t) \/ Trim(t) \/ Write(t) \/ Unlock(t)

Next ==
  \/ \E t \in Threads : Call(t) \/ Step(t)
  \/ Pop \/ ClearBuf

Spec == Init /\ [][Next]_vars

(* A thread inside a call runs on; one that waits for the mutex gets it if *)
(* it is free again and again.                                             *)
FairSpec ==
  /\ Spec
  /\ \A t \in Threads : WF_vars(Step(t)) /\ SF_vars(Lock(t))

-----------------------------------------------------------------------------
(* An object is created by a thread in its first call only: from then on   *)
(* get() returns what is there, and the instance that others found earlier *)
(* is replaced while some thread is in its first call, or never.           *)
CreatedInFirstCall == \A t \in Threads : pc[t] = "assign" => call[t] = 1

(* The streams show the items in the order of the list, each at once: only *)
(* the one that is being logged may still be missing.                      *)
WrittenAsLogged ==
  \A l \in Threads :
    \/ written[l] = logged[l]
    \/ /\ mutex[l] # None
       /\ \E item \in Items : logged[l] = Append(written[l], item)

(* Each list is the log of its last Limit items.                           *)
View ==
  [l \in Threads |-> IF Len(buf[l]) > Limit THEN Tail(buf[l]) ELSE buf[l]]

Abstract == INSTANCE BoundedLog WITH items <- View, Logs <- Threads

ImplementsBoundedLog == Abstract!Spec

(* While a thread is inside a call one of them can go on: they never all   *)
(* wait for the mutexes of objects, their own included.                    *)
NoCallIsStuck ==
  (\E t \in Threads : pc[t] # "idle") =>
    \E t \in Threads :
      pc[t] # "idle" /\ (pc[t] = "lock" => mutex[mine[t]] = None)

(* Every call comes to its end: no thread waits for ever for a mutex, its  *)
(* own included.                                                           *)
EveryCallReturns == \A t \in Threads : (pc[t] = "test") ~> (pc[t] = "idle")

=============================================================================
