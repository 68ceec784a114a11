---------------------------- MODULE LoggerProofs ----------------------------
(***************************************************************************)
(* Proofs about Logger for any threads, any limit and any number of calls: *)
(* the instance is created in first calls only, the streams show the items *)
(* in the order of the list, and the list is a BoundedLog.                 *)
(***************************************************************************)
EXTENDS Logger, SequenceTheorems, TLAPS

Holding == {"push", "trim", "write", "unlock"}

(* A thread inside log_item holds the mutex of the object it got, and a    *)
(* mutex is held by such a thread only.                                    *)
LockInv ==
  /\ \A t \in Threads : pc[t] = "read" => logger # None
  /\ \A t \in Threads : pc[t] \in Holding \cup {"lock"} => mine[t] # None
  /\ \A t \in Threads : pc[t] \in Holding => mutex[mine[t]] = t
  /\ \A l \in Threads : mutex[l] # None =>
       mine[mutex[l]] = l /\ pc[mutex[l]] \in Holding

(* Without an instance nobody has got beyond get() in its first call.      *)
FirstInv ==
  /\ \A t \in Threads : pc[t] # "idle" => call[t] >= 1
  /\ logger = None => \A t \in Threads :
       call[t] = 0 \/ (call[t] = 1 /\ pc[t] \in {"test", "assign"})
  /\ \A t \in Threads : pc[t] = "assign" => call[t] = 1

At(l, places) == mutex[l] # None /\ pc[mutex[l]] \in places

(* A list is too long only until its holder has cut it.                    *)
SizeInv ==
  \A l \in Threads : Len(buf[l]) <= Limit + 1
                     /\ (Len(buf[l]) <= Limit \/ At(l, {"trim"}))

(* An item is missing in the streams until its holder has written it.      *)
WriteInv ==
  \A l \in Threads :
    IF At(l, {"trim", "write"})
      THEN logged[l] = Append(written[l], Item(mutex[l]))
      ELSE logged[l] = written[l]

LEMMA Bounds ==
  /\ Limit \in Nat /\ Limit > 0 /\ MaxCalls \in Nat /\ None \notin Threads
  BY LoggerAssumption

LEMMA ItemType ==
  ASSUME TypeOK, FirstInv, NEW t \in Threads, pc[t] # "idle"
  PROVE  Item(t) \in Items
<1>1. call[t] \in 1 .. MaxCalls /\ part[t] \in {1, 2}
  BY Bounds DEF TypeOK, FirstInv
<1> QED
  BY <1>1 DEF Item, Items

-----------------------------------------------------------------------------
(* One list, or one history, is replaced.                                  *)
LEMMA Replaced ==
  ASSUME NEW f \in [Threads -> Seq(Items)], NEW l \in Threads,
         NEW s \in Seq(Items)
  PROVE  /\ [f EXCEPT ![l] = s] \in [Threads -> Seq(Items)]
         /\ [f EXCEPT ![l] = s][l] = s
         /\ \A m \in Threads : m # l => [f EXCEPT ![l] = s][m] = f[m]
  OBVIOUS

(* The functions that are indexed by threads.                              *)
LEMMA Types ==
  ASSUME TypeOK
  PROVE  /\ logger \in Threads \cup {None}
         /\ pc \in [Threads -> Places]
         /\ call \in [Threads -> 0 .. MaxCalls]
         /\ part \in [Threads -> {1, 2}]
         /\ last \in [Threads -> {1, 2}]
         /\ mine \in [Threads -> Threads \cup {None}]
         /\ mutex \in [Threads -> Threads \cup {None}]
         /\ buf \in [Threads -> Seq(Items)]
         /\ logged \in [Threads -> Seq(Items)]
         /\ written \in [Threads -> Seq(Items)]
  BY DEF TypeOK

LEMMA MovesType ==
  ASSUME TypeOK, NEW t \in Threads, NEW from, NEW to \in Places,
         Moves(t, from, to)
  PROVE  /\ pc' \in [Threads -> Places]
         /\ pc[t] = from /\ pc'[t] = to
         /\ \A u \in Threads : u # t => pc'[u] = pc[u]
  BY Types DEF Moves

LEMMA TypeStep ==
  ASSUME TypeOK, LockInv, FirstInv, SizeInv, [Next]_vars
  PROVE  /\ logger' \in Threads \cup {None}
         /\ pc' \in [Threads -> Places]
         /\ call' \in [Threads -> 0 .. MaxCalls]
         /\ part' \in [Threads -> {1, 2}]
         /\ last' \in [Threads -> {1, 2}]
         /\ mine' \in [Threads -> Threads \cup {None}]
         /\ mutex' \in [Threads -> Threads \cup {None}]
<1>0. /\ "test" \in Places /\ "assign" \in Places /\ "read" \in Places
      /\ "lock" \in Places /\ "push" \in Places /\ "trim" \in Places
      /\ "write" \in Places /\ "unlock" \in Places /\ "idle" \in Places
  BY DEF Places
<1>1. ASSUME NEW t \in Threads, Call(t)
      PROVE  /\ call' \in [Threads -> 0 .. MaxCalls]
             /\ pc' \in [Threads -> Places]
             /\ part' \in [Threads -> {1, 2}]
             /\ last' \in [Threads -> {1, 2}]
  <2>1. /\ Moves(t, "idle", "test") /\ call[t] < MaxCalls
        /\ call' = [call EXCEPT ![t] = @ + 1]
        /\ part' = [part EXCEPT ![t] = 1]
        /\ \E n \in {1, 2} : last' = [last EXCEPT ![t] = n]
    BY <1>1 DEF Call
  <2>2. call' \in [Threads -> 0 .. MaxCalls]
    BY <2>1, Types, Bounds
  <2>3. part' \in [Threads -> {1, 2}] /\ last' \in [Threads -> {1, 2}]
    BY <2>1, Types
  <2> QED
    BY <1>0, <2>1, <2>2, <2>3, MovesType
<1>2. ASSUME NEW t \in Threads, Test(t) \/ Assign(t) \/ Read(t)
      PROVE  /\ logger' \in Threads \cup {None}
             /\ pc' \in [Threads -> Places]
             /\ mine' \in [Threads -> Threads \cup {None}]
             /\ UNCHANGED <<call, part, last, mutex>>
  <2>1. /\ \E from, to \in Places : Moves(t, from, to)
        /\ logger' = logger \/ logger' = t
        /\ mine' = mine \/ mine' = [mine EXCEPT ![t] = logger]
        /\ UNCHANGED <<call, part, last, mutex>>
    BY <1>0, <1>2 DEF Test, Assign, Read
  <2>2. pc' \in [Threads -> Places]
    BY <2>1, MovesType, Zenon
  <2>3. mine' \in [Threads -> Threads \cup {None}]
    BY <2>1, Types
  <2>4. logger' \in Threads \cup {None}
    BY <2>1, Types
  <2> QED
    BY <2>1, <2>2, <2>3, <2>4
<1>3. ASSUME NEW t \in Threads, Lock(t) \/ Push(t) \/ Trim(t) \/ Write(t)
      PROVE  /\ pc' \in [Threads -> Places]
             /\ mutex' \in [Threads -> Threads \cup {None}]
             /\ UNCHANGED <<logger, call, part, last, mine>>
  <2>1. /\ \E from, to \in Places : Moves(t, from, to)
        /\ mutex' = mutex \/ mutex' = [mutex EXCEPT ![mine[t]] = t]
        /\ UNCHANGED <<logger, call, part, last, mine>>
    BY <1>0, <1>3 DEF Lock, Push, Trim, Write
  <2>2. pc' \in [Threads -> Places]
    BY <2>1, MovesType, Zenon
  <2>3. mutex' \in [Threads -> Threads \cup {None}]
    BY <2>1, Types
  <2> QED
    BY <2>1, <2>2, <2>3
<1>6. ASSUME NEW t \in Threads, Unlock(t)
      PROVE  /\ pc' \in [Threads -> Places]
             /\ part' \in [Threads -> {1, 2}]
             /\ mutex' \in [Threads -> Threads \cup {None}]
             /\ UNCHANGED <<logger, call, last, mine>>
  <2>1. /\ \E from, to \in Places : Moves(t, from, to)
        /\ mutex' = [mutex EXCEPT ![mine[t]] = None]
        /\ UNCHANGED <<logger, call, last, mine>>
        /\ part' = [part EXCEPT ![t] = IF @ < last[t] THEN @ + 1 ELSE @]
    BY <1>0, <1>6 DEF Unlock
  <2>2. part[t] \in {1, 2} /\ last[t] \in {1, 2}
    BY Types
  <2>3. (IF part[t] < last[t] THEN part[t] + 1 ELSE part[t]) \in {1, 2}
    BY <2>2
  <2>4. part' \in [Threads -> {1, 2}]
    BY <2>1, <2>3, Types
  <2> QED
    BY <2>1, <2>4, Types, MovesType
<1>4. CASE Pop \/ ClearBuf \/ UNCHANGED vars
  BY <1>4 DEF Pop, ClearBuf, Take, vars, TypeOK
<1>5. ASSUME NEW t \in Threads, Call(t)
      PROVE  UNCHANGED <<logger, mine, mutex>>
  BY <1>5 DEF Call
<1> QED
  BY <1>1, <1>2, <1>3, <1>4, <1>5, <1>6 DEF Next, Step, TypeOK


LEMMA LockStep ==
  ASSUME TypeOK, LockInv, FirstInv, [Next]_vars
  PROVE  LockInv'
<1>1. ASSUME NEW t \in Threads, Call(t)
      PROVE  LockInv'
  BY <1>1, SMTT(20) DEF Call, Moves, LockInv, Holding, TypeOK
<1>2. ASSUME NEW t \in Threads, Test(t) \/ Assign(t)
      PROVE  LockInv'
  <2>1. /\ UNCHANGED <<mine, mutex>> /\ (logger' = logger \/ logger' = t)
        /\ pc[t] \in {"test", "assign"}
        /\ \E p \in {"assign", "read"} :
             /\ pc' = [pc EXCEPT ![t] = p]
             /\ p = "read" => logger' # None
    BY <1>2, Bounds DEF Test, Assign, Moves
  <2>2. logger # None => logger' # None
    BY <2>1, Bounds
  <2> QED
    BY <2>1, <2>2, Types, Bounds DEF LockInv, Holding
<1>3. ASSUME NEW t \in Threads, Read(t)
      PROVE  LockInv'
  <2>1. /\ pc[t] = "read" /\ pc' = [pc EXCEPT ![t] = "lock"]
        /\ mine' = [mine EXCEPT ![t] = logger] /\ logger # None
        /\ UNCHANGED <<logger, mutex>>
    BY <1>3 DEF Read, Moves, LockInv
  <2> QED
    BY <2>1, Types DEF LockInv, Holding
<1>4. ASSUME NEW t \in Threads, Lock(t)
      PROVE  LockInv'
  <2>1. /\ pc[t] = "lock" /\ pc' = [pc EXCEPT ![t] = "push"]
        /\ mutex[mine[t]] = None /\ mutex' = [mutex EXCEPT ![mine[t]] = t]
        /\ UNCHANGED <<logger, mine>>
    BY <1>4 DEF Lock, Moves
  <2>2. mine[t] \in Threads /\ t # None
    BY <2>1, Types, Bounds DEF LockInv
  <2> QED
    <3> DEFINE o == mine[t]
    <3>1. /\ pc'[t] = "push" /\ mutex'[o] = t
          /\ \A u \in Threads : u # t => pc'[u] = pc[u]
          /\ \A l \in Threads : l # o => mutex'[l] = mutex[l]
      BY <2>1, <2>2, Types
    <3>2. \A u \in Threads : pc[u] \in Holding => mine[u] # o
      BY <2>1, Bounds DEF LockInv
    <3>3. \A u \in Threads : pc[u] \in Holding => mine[u] \in Threads
      BY Types DEF LockInv
    <3>4. "push" \in Holding /\ "lock" \notin Holding /\ "push" # "read"
      BY DEF Holding
    <3> HIDE DEF o
    <3>5. \A u \in Threads : pc'[u] \in Holding => mutex'[mine[u]] = u
      <4>1. mine[t] = o
        BY DEF o
      <4> QED
        BY <3>1, <3>2, <3>3, <4>1 DEF LockInv
    <3>6. \A l \in Threads : mutex'[l] # None =>
            mine[mutex'[l]] = l /\ pc'[mutex'[l]] \in Holding
      <4>1. mine[t] = o
        BY DEF o
      <4>2. \A l \in Threads : mutex[l] # None =>
              mutex[l] \in Threads /\ mutex[l] # t
        BY <2>1, <3>4, Types DEF LockInv
      <4> QED
        BY <3>1, <3>4, <4>1, <4>2 DEF LockInv
    <3> QED
      BY <2>1, <2>2, <3>1, <3>4, <3>5, <3>6 DEF LockInv
<1>5. ASSUME NEW t \in Threads, Push(t) \/ Trim(t) \/ Write(t)
      PROVE  LockInv'
  <2>1. /\ pc[t] \in Holding /\ UNCHANGED <<logger, mine, mutex>>
        /\ \E p \in Holding : pc' = [pc EXCEPT ![t] = p]
    BY <1>5 DEF Push, Trim, Write, Moves, Holding
  <2> QED
    BY <2>1 DEF LockInv, Holding, TypeOK
<1>6. ASSUME NEW t \in Threads, Unlock(t)
      PROVE  LockInv'
  <2>1. /\ pc[t] \in Holding /\ UNCHANGED <<logger, mine>>
        /\ mutex' = [mutex EXCEPT ![mine[t]] = None]
        /\ \E p \in {"lock", "idle"} : pc' = [pc EXCEPT ![t] = p]
    BY <1>6 DEF Unlock, Moves, Holding
  <2>2. mine[t] \in Threads /\ mutex[mine[t]] = t
    BY <2>1 DEF LockInv, TypeOK
  <2> QED
    BY <2>1, <2>2, SMTT(20) DEF LockInv, Holding, TypeOK
<1>7. CASE Pop \/ ClearBuf \/ UNCHANGED vars
  BY <1>7 DEF Pop, ClearBuf, Take, vars, LockInv
<1> QED
  BY <1>1, <1>2, <1>3, <1>4, <1>5, <1>6, <1>7 DEF Next, Step

LEMMA FirstStep ==
  ASSUME TypeOK, LockInv, FirstInv, [Next]_vars
  PROVE  FirstInv'
<1>1. ASSUME NEW t \in Threads, Call(t)
      PROVE  FirstInv'
  BY <1>1, Bounds, SMTT(20) DEF Call, Moves, FirstInv, TypeOK
<1>2. ASSUME NEW t \in Threads, Test(t) \/ Assign(t) \/ Read(t)
      PROVE  FirstInv'
  <2>1. CASE Test(t)
    <3>1. /\ UNCHANGED <<call, logger>> /\ pc[t] = "test"
          /\ pc' = [pc EXCEPT ![t] = IF logger = None THEN "assign" ELSE "read"]
      BY <2>1 DEF Test, Moves
    <3>2. logger = None => call[t] = 1
      <4>1. call[t] >= 1 /\ call[t] \in Int
        BY <3>1, Types, Bounds DEF FirstInv
      <4> QED
        BY <4>1 DEF FirstInv
    <3> QED
      BY <3>1, <3>2, Types DEF FirstInv
  <2>2. CASE Assign(t)
    <3>1. /\ UNCHANGED call /\ logger' # None /\ pc[t] = "assign"
          /\ pc' = [pc EXCEPT ![t] = "read"]
      BY <2>2, Bounds DEF Assign, Moves
    <3> QED
      BY <3>1, Types DEF FirstInv
  <2>3. CASE Read(t)
    <3>1. /\ UNCHANGED <<call, logger>> /\ logger # None
          /\ pc[t] = "read" /\ pc' = [pc EXCEPT ![t] = "lock"]
      BY <2>3 DEF Read, Moves, LockInv
    <3> QED
      BY <3>1, Types DEF FirstInv
  <2> QED
    BY <1>2, <2>1, <2>2, <2>3
<1>3. ASSUME NEW t \in Threads,
             Lock(t) \/ Push(t) \/ Trim(t) \/ Write(t) \/ Unlock(t)
      PROVE  FirstInv'
  <2>1. /\ pc[t] \in Holding \cup {"lock"} /\ UNCHANGED <<logger, call>>
        /\ \E p \in Holding \cup {"lock", "idle"} : pc' = [pc EXCEPT ![t] = p]
    BY <1>3 DEF Lock, Push, Trim, Write, Unlock, Moves, Holding
  <2>2. logger # None
    <3>1. call[t] # 0 /\ pc[t] \notin {"test", "assign"}
      <4>1. pc[t] # "idle" /\ call[t] \in Int
        BY <2>1, Types, Bounds DEF Holding
      <4> QED
        BY <2>1, <4>1 DEF FirstInv, Holding
    <3> QED
      BY <3>1 DEF FirstInv
  <2> QED
    BY <2>1, <2>2 DEF FirstInv, Holding, TypeOK
<1>4. CASE Pop \/ ClearBuf \/ UNCHANGED vars
  BY <1>4 DEF Pop, ClearBuf, Take, vars, FirstInv
<1> QED
  BY <1>1, <1>2, <1>3, <1>4 DEF Next, Step

-----------------------------------------------------------------------------
(* Who adds to a list or cuts it holds its mutex: nobody else is at it.    *)
LEMMA Alone1 ==
  ASSUME TypeOK, LockInv, NEW t \in Threads, pc[t] \in Holding
  PROVE  /\ mine[t] \in Threads /\ mutex[mine[t]] = t /\ t # None
         /\ \A l \in Threads : l # mine[t] => mutex[l] # t
  BY Types, Bounds DEF LockInv

(* Nobody else is at a list that is popped or cleared.                     *)
LEMMA AloneSize ==
  ASSUME TypeOK, LockInv, SizeInv, Alone, NEW l \in Threads
  PROVE  Len(buf[l]) <= Limit
<1>1. mutex[l] = None
  <2>1. mutex[l] # None => mutex[l] \in Threads /\ pc[mutex[l]] \in Holding
    BY Types DEF LockInv
  <2> QED
    BY <2>1 DEF Alone, Holding
<1> QED
  BY <1>1 DEF SizeInv, At

LEMMA PopTakes ==
  ASSUME TypeOK, LockInv, SizeInv, Pop \/ ClearBuf
  PROVE  \E l \in Threads, rest \in Seq(Items) :
           /\ Len(rest) <= Limit /\ Take(l, rest)
           /\ Len(buf[l]) <= Limit
           /\ rest = <<>> \/ (/\ buf[l] # <<>>
                              /\ rest = SubSeq(buf[l], 1, Len(buf[l]) - 1))
<1> DEFINE l == logger
           s == buf[l]
<1>1. l \in Threads /\ Alone
  BY Types DEF Pop, ClearBuf, Take
<1>2. s \in Seq(Items) /\ Len(s) <= Limit /\ Len(s) \in Nat
  BY <1>1, Types, AloneSize
<1>3. CASE Pop
  <2>1. s # <<>> /\ Take(l, SubSeq(s, 1, Len(s) - 1))
    BY <1>3 DEF Pop
  <2> HIDE DEF s
  <2>2. /\ SubSeq(s, 1, Len(s) - 1) \in Seq(Items)
        /\ Len(SubSeq(s, 1, Len(s) - 1)) <= Limit
    BY <1>2, <2>1, Bounds
  <2> QED
    BY <1>1, <1>2, <2>1, <2>2, Zenon DEF s
<1>4. CASE ClearBuf
  <2>1. Take(l, <<>>)
    BY <1>4 DEF ClearBuf
  <2>2. <<>> \in Seq(Items) /\ Len(<<>>) <= Limit
    BY Bounds
  <2> QED
    BY <1>1, <1>2, <2>1, <2>2, Zenon
<1> QED
  BY <1>3, <1>4

LEMMA ListStep ==
  ASSUME TypeOK, LockInv, FirstInv, SizeInv, WriteInv, [Next]_vars
  PROVE  /\ buf' \in [Threads -> Seq(Items)]
         /\ logged' \in [Threads -> Seq(Items)]
         /\ written' \in [Threads -> Seq(Items)]
         /\ SizeInv' /\ WriteInv'
<1>1. ASSUME NEW t \in Threads, Call(t) \/ Test(t) \/ Assign(t) \/ Read(t)
      PROVE  /\ UNCHANGED <<buf, logged, written>>
             /\ SizeInv' /\ WriteInv'
  <2>1. /\ UNCHANGED <<buf, logged, written, mutex>>
        /\ pc[t] \notin Holding
        /\ \A u \in Threads : u # t =>
             pc'[u] = pc[u] /\ call'[u] = call[u] /\ part'[u] = part[u]
    BY <1>1, Types DEF Call, Test, Assign, Read, Moves, Holding
  <2>2. \A l \in Threads : mutex[l] # None =>
          /\ mutex[l] \in Threads /\ pc[mutex[l]] \in Holding
          /\ mutex[l] # t
    BY <2>1, Types DEF LockInv
  <2>3. ASSUME NEW l \in Threads, NEW places
        PROVE  /\ At(l, places)' <=> At(l, places)
               /\ At(l, places) => Item(mutex[l])' = Item(mutex[l])
    BY <2>1, <2>2 DEF At, Item
  <2> QED
    BY <2>1, <2>3 DEF SizeInv, WriteInv
<1>2. ASSUME NEW t \in Threads, Lock(t)
      PROVE  /\ UNCHANGED <<buf, logged, written>>
             /\ SizeInv' /\ WriteInv'
  <2>1. /\ UNCHANGED <<buf, logged, written, call, part>>
        /\ pc[t] = "lock" /\ mine[t] \in Threads /\ mutex[mine[t]] = None
        /\ pc' = [pc EXCEPT ![t] = "push"]
        /\ mutex' = [mutex EXCEPT ![mine[t]] = t]
    BY <1>2, Types DEF Lock, Moves, LockInv
  <2>2. \A l \in Threads : mutex[l] # None =>
          /\ mutex[l] \in Threads /\ pc[mutex[l]] \in Holding
          /\ mutex[l] # t
    BY <2>1, Types DEF LockInv, Holding
  <2>3. ASSUME NEW l \in Threads, NEW places \in {{"trim"}, {"trim", "write"}}
        PROVE  /\ At(l, places)' <=> At(l, places)
               /\ At(l, places) => Item(mutex[l])' = Item(mutex[l])
    <3>1. CASE l = mine[t]
      BY <2>1, <3>1, Types DEF At
    <3>2. CASE l # mine[t]
      BY <2>1, <2>2, <3>2, Types DEF At, Item
    <3> QED
      BY <3>1, <3>2
  <2>4. \A l \in Threads : At(l, {"trim", "write"}) => mutex'[l] = mutex[l]
    BY <2>1, Types DEF At
  <2> QED
    BY <2>1, <2>3, <2>4 DEF SizeInv, WriteInv
<1>3. ASSUME NEW t \in Threads, Push(t)
      PROVE  /\ buf' \in [Threads -> Seq(Items)]
             /\ logged' \in [Threads -> Seq(Items)]
             /\ written' = written
             /\ SizeInv' /\ WriteInv'
  <2>0. PICK l \in Threads : mine[t] = l
    <3>1. pc[t] \in Holding
      BY <1>3 DEF Push, Moves, Holding
    <3> QED
      BY <3>1, Alone1
  <2>1. /\ pc[t] = "push" /\ pc' = [pc EXCEPT ![t] = "trim"]
        /\ buf' = [buf EXCEPT ![l] = Append(buf[l], Item(t))]
        /\ logged' = [logged EXCEPT ![l] = Append(logged[l], Item(t))]
        /\ UNCHANGED <<call, part, mutex, written>>
    BY <1>3, <2>0 DEF Push, Moves
  <2>2. /\ l \in Threads /\ mutex[l] = t /\ t # None
        /\ \A m \in Threads : m # l => mutex[m] # t
    BY <2>0, <2>1, Alone1 DEF Holding
  <2>3. Item(t) \in Items /\ buf[l] \in Seq(Items) /\ logged[l] \in Seq(Items)
    BY <2>1, <2>2, ItemType, Types
  <2>4. /\ Append(buf[l], Item(t)) \in Seq(Items)
        /\ Append(logged[l], Item(t)) \in Seq(Items)
        /\ Len(Append(buf[l], Item(t))) = Len(buf[l]) + 1
    BY <2>3
  <2>5. /\ buf' \in [Threads -> Seq(Items)]
        /\ logged' \in [Threads -> Seq(Items)]
        /\ buf'[l] = Append(buf[l], Item(t))
        /\ logged'[l] = Append(logged[l], Item(t))
        /\ \A m \in Threads :
             m # l => buf'[m] = buf[m] /\ logged'[m] = logged[m]
    BY <2>1, <2>2, <2>4, Types, Replaced, SMTT(20)
  <2>6. /\ At(l, {"trim"})' /\ At(l, {"trim", "write"})'
        /\ ~ At(l, {"trim"}) /\ ~ At(l, {"trim", "write"})
    BY <2>1, <2>2, Types DEF At
  <2>7. ASSUME NEW m \in Threads, m # l, NEW places
        PROVE  At(m, places)' <=> At(m, places)
    BY <2>1, <2>2, <2>7, Types DEF At
  <2>8. \A u : Item(u)' = Item(u)
    BY <2>1 DEF Item
  <2>9. Len(buf[l]) <= Limit /\ logged[l] = written[l] /\ Len(buf[l]) \in Nat
    BY <2>2, <2>3, <2>6 DEF SizeInv, WriteInv
  <2>10. SizeInv'
    <3>1. Len(buf'[l]) <= Limit + 1
      BY <2>4, <2>5, <2>9, Bounds
    <3>2. ASSUME NEW m \in Threads, m # l
          PROVE  /\ Len(buf'[m]) <= Limit + 1
                 /\ Len(buf'[m]) <= Limit \/ At(m, {"trim"})'
      BY <2>5, <2>7, <3>2 DEF SizeInv
    <3> QED
      BY <2>6, <3>1, <3>2 DEF SizeInv
  <2>11. WriteInv'
    BY <2>1, <2>2, <2>5, <2>6, <2>7, <2>8, <2>9 DEF WriteInv
  <2> QED
    BY <2>1, <2>5, <2>10, <2>11
<1>4. ASSUME NEW t \in Threads, Trim(t)
      PROVE  /\ buf' \in [Threads -> Seq(Items)]
             /\ UNCHANGED <<logged, written>>
             /\ SizeInv' /\ WriteInv'
  <2>0. PICK l \in Threads : mine[t] = l
    <3>1. pc[t] \in Holding
      BY <1>4 DEF Trim, Moves, Holding
    <3> QED
      BY <3>1, Alone1
  <2> DEFINE s == IF Len(buf[l]) > Limit THEN Tail(buf[l]) ELSE buf[l]
  <2>1. /\ pc[t] = "trim" /\ pc' = [pc EXCEPT ![t] = "write"]
        /\ buf' = [buf EXCEPT ![l] = s]
        /\ UNCHANGED <<call, part, mutex, logged, written>>
    BY <1>4, <2>0 DEF Trim, Moves
  <2>2. /\ l \in Threads /\ mutex[l] = t /\ t # None
        /\ \A m \in Threads : m # l => mutex[m] # t
    BY <2>0, <2>1, Alone1 DEF Holding
  <2>3. buf[l] \in Seq(Items) /\ Len(buf[l]) <= Limit + 1 /\ Len(buf[l]) \in Nat
    BY <2>2, Types DEF SizeInv
  <2>4. s \in Seq(Items) /\ Len(s) <= Limit
    <3>1. CASE Len(buf[l]) > Limit
      <4>1. Tail(buf[l]) \in Seq(Items) /\ Len(Tail(buf[l])) = Len(buf[l]) - 1
        BY <2>3, <3>1, Bounds
      <4> QED
        BY <2>3, <3>1, <4>1, Bounds
    <3>2. CASE ~ (Len(buf[l]) > Limit)
      BY <2>3, <3>2, Bounds
    <3> QED
      BY <3>1, <3>2
  <2> HIDE DEF s
  <2>5. /\ buf' \in [Threads -> Seq(Items)] /\ buf'[l] = s
        /\ \A m \in Threads : m # l => buf'[m] = buf[m]
    BY <2>1, <2>2, <2>4, Types, Replaced
  <2>6. At(l, {"trim", "write"})' /\ At(l, {"trim", "write"})
    BY <2>1, <2>2, Types DEF At
  <2>7. ASSUME NEW m \in Threads, m # l, NEW places
        PROVE  At(m, places)' <=> At(m, places)
    BY <2>1, <2>2, <2>7, Types DEF At
  <2>8. \A u : Item(u)' = Item(u)
    BY <2>1 DEF Item
  <2>9. Len(s) \in Nat
    BY <2>4
  <2>10. SizeInv'
    BY <2>4, <2>5, <2>7, <2>9, Bounds DEF SizeInv
  <2>11. WriteInv'
    BY <2>1, <2>6, <2>7, <2>8 DEF WriteInv
  <2> QED
    BY <2>1, <2>5, <2>10, <2>11
<1>5. ASSUME NEW t \in Threads, Write(t)
      PROVE  /\ UNCHANGED <<buf, logged>>
             /\ written' \in [Threads -> Seq(Items)]
             /\ SizeInv' /\ WriteInv'
  <2>0. PICK l \in Threads : mine[t] = l
    <3>1. pc[t] \in Holding
      BY <1>5 DEF Write, Moves, Holding
    <3> QED
      BY <3>1, Alone1
  <2>1. /\ pc[t] = "write" /\ pc' = [pc EXCEPT ![t] = "unlock"]
        /\ written' = [written EXCEPT ![l] = Append(written[l], Item(t))]
        /\ UNCHANGED <<call, part, mutex, buf, logged>>
    BY <1>5, <2>0 DEF Write, Moves
  <2>2. /\ l \in Threads /\ mutex[l] = t /\ t # None
        /\ \A m \in Threads : m # l => mutex[m] # t
    BY <2>0, <2>1, Alone1 DEF Holding
  <2>3. Item(t) \in Items /\ written[l] \in Seq(Items)
    BY <2>1, <2>2, ItemType, Types
  <2>4. Append(written[l], Item(t)) \in Seq(Items)
    BY <2>3
  <2>5. /\ written' \in [Threads -> Seq(Items)]
        /\ written'[l] = Append(written[l], Item(t))
        /\ \A m \in Threads : m # l => written'[m] = written[m]
    BY <2>1, <2>2, <2>4, Types, Replaced
  <2>6. /\ ~ At(l, {"trim", "write"})' /\ At(l, {"trim", "write"})
        /\ ~ At(l, {"trim"})
    BY <2>1, <2>2, Types DEF At
  <2>7. ASSUME NEW m \in Threads, m # l, NEW places
        PROVE  At(m, places)' <=> At(m, places)
    BY <2>1, <2>2, <2>7, Types DEF At
  <2>8. \A u : Item(u)' = Item(u)
    BY <2>1 DEF Item
  <2>9. logged[l] = Append(written[l], Item(t))
    BY <2>2, <2>6 DEF WriteInv
  <2>10. SizeInv'
    BY <2>1, <2>2, <2>6, <2>7 DEF SizeInv
  <2>11. WriteInv'
    BY <2>1, <2>2, <2>5, <2>6, <2>7, <2>8, <2>9 DEF WriteInv
  <2> QED
    BY <2>1, <2>5, <2>10, <2>11
<1>6. ASSUME NEW t \in Threads, Unlock(t)
      PROVE  /\ UNCHANGED <<buf, logged, written>>
             /\ SizeInv' /\ WriteInv'
  <2>0. PICK l \in Threads : mine[t] = l
    <3>1. pc[t] \in Holding
      BY <1>6 DEF Unlock, Moves, Holding
    <3> QED
      BY <3>1, Alone1
  <2>1. /\ pc[t] = "unlock"
        /\ \E p \in {"lock", "idle"} : pc' = [pc EXCEPT ![t] = p]
        /\ mutex' = [mutex EXCEPT ![l] = None]
        /\ UNCHANGED <<buf, logged, written, call>>
        /\ \A u \in Threads : u # t => part'[u] = part[u]
    BY <1>6, <2>0, Types DEF Unlock, Moves
  <2>2. /\ l \in Threads /\ mutex[l] = t /\ t # None
        /\ \A m \in Threads : m # l => mutex[m] # t
    BY <2>0, <2>1, Alone1 DEF Holding
  <2>3. /\ ~ At(l, {"trim", "write"})' /\ ~ At(l, {"trim", "write"})
        /\ ~ At(l, {"trim"})
    BY <2>1, <2>2, Types DEF At
  <2>4. ASSUME NEW m \in Threads, m # l, NEW places
        PROVE  /\ At(m, places)' <=> At(m, places)
               /\ At(m, places) => Item(mutex[m])' = Item(mutex[m])
    BY <2>1, <2>2, <2>4, Types, ZenonT(40) DEF At, Item
  <2> QED
    BY <2>1, <2>2, <2>3, <2>4 DEF SizeInv, WriteInv
<1>7. ASSUME NEW l \in Threads, NEW rest \in Seq(Items), Len(rest) <= Limit,
             Take(l, rest)
      PROVE  /\ buf' \in [Threads -> Seq(Items)]
             /\ UNCHANGED <<logged, written>>
             /\ SizeInv' /\ WriteInv'
  <2>1. /\ buf' \in [Threads -> Seq(Items)] /\ buf'[l] = rest
        /\ \A m \in Threads : m # l => buf'[m] = buf[m]
        /\ UNCHANGED <<logged, written, mutex, pc, call, part>>
    BY <1>7, Types, Replaced DEF Take
  <2>2. \A m, places : At(m, places)' <=> At(m, places)
    BY <2>1 DEF At
  <2>3. \A u : Item(u)' = Item(u)
    BY <2>1 DEF Item
  <2>4. SizeInv'
    BY <1>7, <2>1, <2>2, Bounds DEF SizeInv
  <2>5. WriteInv'
    BY <2>1, <2>2, <2>3 DEF WriteInv
  <2> QED
    BY <2>1, <2>4, <2>5
<1>8. CASE Pop \/ ClearBuf
  <2>1. PICK l \in Threads, rest \in Seq(Items) :
          Len(rest) <= Limit /\ Take(l, rest)
    BY <1>8, PopTakes
  <2> QED
    BY <1>7, <2>1, Types
<1>9. CASE UNCHANGED vars
  BY <1>9, Types DEF vars, SizeInv, WriteInv, At, Item
<1> QED
  BY <1>1, <1>2, <1>3, <1>4, <1>5, <1>6, <1>8, <1>9, Types DEF Next, Step

-----------------------------------------------------------------------------
LogInv == TypeOK /\ LockInv /\ FirstInv /\ SizeInv /\ WriteInv

LEMMA LogInvInit == Init => LogInv
<1> SUFFICES ASSUME Init
             PROVE  LogInv
  OBVIOUS
<1>1. /\ logger = None
      /\ \A t \in Threads : /\ pc[t] = "idle" /\ call[t] = 0
                            /\ mutex[t] = None /\ buf[t] = <<>>
                            /\ logged[t] = <<>> /\ written[t] = <<>>
  BY DEF Init
<1>2. <<>> \in Seq(Items) /\ Len(<<>>) = 0
  OBVIOUS
<1>3. TypeOK
  <2>1. /\ pc \in [Threads -> Places] /\ call \in [Threads -> 0 .. MaxCalls]
        /\ part \in [Threads -> {1, 2}] /\ last \in [Threads -> {1, 2}]
    BY Bounds DEF Init, Places
  <2>2. /\ mine \in [Threads -> Threads \cup {None}]
        /\ mutex \in [Threads -> Threads \cup {None}]
        /\ buf \in [Threads -> Seq(Items)]
        /\ logged \in [Threads -> Seq(Items)]
        /\ written \in [Threads -> Seq(Items)]
    BY <1>2 DEF Init
  <2>3. \A l \in Threads : Len(buf[l]) <= Limit + 1
    BY <1>1, <1>2, Bounds
  <2> QED
    BY <1>1, <2>1, <2>2, <2>3 DEF TypeOK
<1>4. LockInv /\ FirstInv
  BY <1>1 DEF LockInv, FirstInv, Holding
<1>5. SizeInv /\ WriteInv
  BY <1>1, <1>2, Bounds DEF SizeInv, WriteInv, At
<1> QED
  BY <1>3, <1>4, <1>5 DEF LogInv

LEMMA LogInvStep == LogInv /\ [Next]_vars => LogInv'
<1> SUFFICES ASSUME LogInv, [Next]_vars
             PROVE  LogInv'
  OBVIOUS
<1>1. TypeOK /\ LockInv /\ FirstInv /\ SizeInv /\ WriteInv
  BY DEF LogInv
<1>2. LockInv' /\ FirstInv'
  BY <1>1, LockStep, FirstStep
<1>3. /\ buf' \in [Threads -> Seq(Items)]
      /\ logged' \in [Threads -> Seq(Items)]
      /\ written' \in [Threads -> Seq(Items)]
      /\ SizeInv' /\ WriteInv'
  BY <1>1, ListStep
<1>4. TypeOK'
  <2>1. \A l \in Threads : Len(buf'[l]) <= Limit + 1
    BY <1>3 DEF SizeInv
  <2> QED
    BY <1>1, <1>3, <2>1, TypeStep DEF TypeOK
<1> QED
  BY <1>2, <1>3, <1>4 DEF LogInv

LEMMA LogInvariant == Spec => []LogInv
  BY LogInvInit, LogInvStep, PTL DEF Spec

(* The variables keep their types; no list ever has more than one item     *)
(* above the limit.                                                        *)
THEOREM TypeCorrect == Spec => []TypeOK
  BY LogInvariant, PTL DEF LogInv

(* get() makes an object only in the first call of a thread.               *)
THEOREM CreatedInFirstCallHolds == Spec => []CreatedInFirstCall
<1>1. LogInv => CreatedInFirstCall
  BY DEF LogInv, FirstInv, CreatedInFirstCall
<1> QED
  BY <1>1, LogInvariant, PTL

(* The threads inside a call never all wait for a mutex: who holds one is  *)
(* in the middle of log_item and takes no other.                           *)
THEOREM NoCallIsStuckHolds == Spec => []NoCallIsStuck
<1>1. TypeOK /\ LockInv => NoCallIsStuck
  <2> SUFFICES ASSUME TypeOK, LockInv, NEW t \in Threads, pc[t] # "idle"
               PROVE  \E u \in Threads :
                        /\ pc[u] # "idle"
                        /\ pc[u] = "lock" => mutex[mine[u]] = None
    BY DEF NoCallIsStuck
  <2>1. CASE pc[t] = "lock" => mutex[mine[t]] = None
    BY <2>1
  <2>2. CASE pc[t] = "lock" /\ mutex[mine[t]] # None
    <3>1. mine[t] \in Threads
      BY <2>2 DEF LockInv, TypeOK
    <3>2. mutex[mine[t]] \in Threads /\ pc[mutex[mine[t]]] \in Holding
      BY <2>2, <3>1 DEF LockInv, TypeOK
    <3> QED
      BY <3>2 DEF Holding
  <2> QED
    BY <2>1, <2>2
<1> QED
  BY <1>1, LogInvariant, PTL DEF LogInv

(* The streams show the items in the order in which they were logged, all  *)
(* but the one that is being logged.                                       *)
THEOREM WrittenAsLoggedHolds == Spec => []WrittenAsLogged
<1>1. LogInv => WrittenAsLogged
  <2> SUFFICES ASSUME LogInv, NEW l \in Threads
               PROVE  \/ written[l] = logged[l]
                      \/ /\ mutex[l] # None
                         /\ \E item \in Items :
                              logged[l] = Append(written[l], item)
    BY DEF WrittenAsLogged
  <2>1. CASE At(l, {"trim", "write"})
    <3>1. mutex[l] \in Threads /\ mutex[l] # None /\ pc[mutex[l]] # "idle"
      BY <2>1, Types DEF LogInv, At
    <3>2. Item(mutex[l]) \in Items
      BY <3>1, ItemType DEF LogInv
    <3> QED
      BY <2>1, <3>1, <3>2 DEF LogInv, WriteInv
  <2>2. CASE ~ At(l, {"trim", "write"})
    BY <2>2 DEF LogInv, WriteInv
  <2> QED
    BY <2>1, <2>2
<1> QED
  BY <1>1, LogInvariant, PTL

-----------------------------------------------------------------------------
(* The refinement.                                                         *)

Shown(s) == IF Len(s) > Limit THEN Tail(s) ELSE s

LEMMA ViewOf ==
  /\ View = [l \in Threads |-> Shown(buf[l])]
  /\ View' = [l \in Threads |-> Shown(buf'[l])]
  BY DEF View, Shown

(* Adding an item and cutting the list is adding it to a bounded log.      *)
LEMMA ShownAppend ==
  ASSUME NEW s \in Seq(Items), Len(s) <= Limit, NEW item \in Items
  PROVE  /\ Shown(s) = s
         /\ Shown(Append(s, item)) =
              Append(IF Len(s) = Limit THEN Tail(s) ELSE s, item)
<1>1. Len(s) \in Nat /\ Len(Append(s, item)) = Len(s) + 1
  OBVIOUS
<1>2. CASE Len(s) = Limit
  <2>1. s # <<>>
    BY <1>2, Bounds
  <2>2. Tail(Append(s, item)) = Append(Tail(s), item)
    BY <2>1, HeadTailAppend, Zenon
  <2>3. Len(Append(s, item)) > Limit /\ ~ (Len(s) > Limit)
    BY <1>1, <1>2, Bounds
  <2> QED
    BY <1>2, <2>2, <2>3, Zenon DEF Shown
<1>3. CASE Len(s) # Limit
  <2>1. ~ (Len(Append(s, item)) > Limit) /\ ~ (Len(s) > Limit)
    BY <1>1, <1>3, Bounds
  <2> QED
    BY <1>3, <2>1, Zenon DEF Shown
<1> QED
  BY <1>2, <1>3

LEMMA ShownShort ==
  ASSUME NEW s \in Seq(Items), Len(s) <= Limit
  PROVE  Shown(s) = s
  BY Bounds DEF Shown

LEMMA ShownTrim ==
  ASSUME NEW s \in Seq(Items), Len(s) <= Limit + 1
  PROVE  Shown(Shown(s)) = Shown(s)
<1>1. CASE Len(s) > Limit
  <2> DEFINE u == Tail(s)
  <2>1. u \in Seq(Items) /\ Len(u) = Len(s) - 1 /\ Len(s) \in Nat
    BY <1>1, Bounds
  <2> HIDE DEF u
  <2>2. Shown(u) = u
    BY <2>1, Bounds DEF Shown
  <2>3. Shown(s) = u
    BY <1>1 DEF Shown, u
  <2> QED
    BY <2>2, <2>3
<1>2. CASE ~ (Len(s) > Limit)
  BY <1>2, Zenon DEF Shown
<1> QED
  BY <1>1, <1>2

(* A change of one list is a change of one bounded log.                    *)
LEMMA ViewChange ==
  ASSUME TypeOK, NEW l \in Threads, NEW s,
         buf' = [buf EXCEPT ![l] = s]
  PROVE  View' = [View EXCEPT ![l] = Shown(s)]
<1>1. /\ buf'[l] = s
      /\ \A m \in Threads : m # l => buf'[m] = buf[m]
  BY Types
<1>2. [View EXCEPT ![l] = Shown(s)] =
        [m \in Threads |-> IF m = l THEN Shown(s) ELSE Shown(buf[m])]
  BY ViewOf
<1> QED
  BY <1>1, <1>2, ViewOf

LEMMA StepImplements ==
  ASSUME LogInv, [Next]_vars
  PROVE  [Abstract!Next]_View
<1>0. TypeOK /\ LockInv /\ FirstInv /\ SizeInv
  BY DEF LogInv
<1>1. CASE UNCHANGED buf
  BY <1>1 DEF View
<1>2. ASSUME NEW t \in Threads, Push(t)
      PROVE  Abstract!Next
  <2>1. pc[t] = "push" /\ pc[t] \in Holding
    BY <1>2 DEF Push, Moves, Holding
  <2>2. PICK l \in Threads : mine[t] = l /\ mutex[l] = t
    BY <1>0, <2>1, Alone1
  <2>3. buf' = [buf EXCEPT ![l] = Append(buf[l], Item(t))]
    BY <1>2, <2>2 DEF Push
  <2>4. Item(t) \in Items /\ buf[l] \in Seq(Items)
    BY <1>0, <2>1, ItemType, Types
  <2>5. Len(buf[l]) <= Limit
    BY <1>0, <2>1, <2>2 DEF SizeInv, At
  <2>6. View' = [View EXCEPT ![l] = Shown(Append(buf[l], Item(t)))]
    BY <1>0, <2>3, ViewChange
  <2>7. View[l] = buf[l]
    BY <2>4, <2>5, ShownShort, ViewOf
  <2>8. View' = [View EXCEPT ![l] =
          Append(IF Len(View[l]) = Limit THEN Tail(View[l]) ELSE View[l],
                 Item(t))]
    BY <2>4, <2>5, <2>6, <2>7, ShownAppend
  <2>9. Abstract!Add(l, Item(t))
    BY <2>8 DEF Abstract!Add
  <2> QED
    BY <2>4, <2>9 DEF Abstract!Next
<1>3. ASSUME NEW t \in Threads, Trim(t)
      PROVE  View' = View
  <2>1. pc[t] \in Holding
    BY <1>3 DEF Trim, Moves, Holding
  <2>2. PICK l \in Threads : mine[t] = l
    BY <1>0, <2>1, Alone1
  <2>3. buf' = [buf EXCEPT ![l] = Shown(buf[l])]
    BY <1>3, <2>2 DEF Trim, Shown
  <2>4. buf[l] \in Seq(Items) /\ Len(buf[l]) <= Limit + 1
    BY <1>0, Types DEF SizeInv
  <2>5. View' = [View EXCEPT ![l] = Shown(Shown(buf[l]))]
    BY <1>0, <2>3, ViewChange
  <2>6. View' = [View EXCEPT ![l] = View[l]]
    BY <2>4, <2>5, ShownTrim, ViewOf
  <2> QED
    BY <2>6, ViewOf
<1>4. CASE Pop \/ ClearBuf
  <2>1. PICK l \in Threads, rest \in Seq(Items) :
          /\ Len(rest) <= Limit /\ Take(l, rest)
          /\ Len(buf[l]) <= Limit
          /\ rest = <<>> \/ (/\ buf[l] # <<>>
                             /\ rest = SubSeq(buf[l], 1, Len(buf[l]) - 1))
    BY <1>0, <1>4, PopTakes
  <2>2. View' = [View EXCEPT ![l] = rest]
    BY <1>0, <2>1, ViewChange, ShownShort DEF Take
  <2>3. View[l] = buf[l]
    BY <1>0, <2>1, Types, ShownShort, ViewOf
  <2>4. Abstract!Pop(l) \/ Abstract!Clear(l)
    BY <2>1, <2>2, <2>3 DEF Abstract!Pop, Abstract!Clear
  <2> QED
    BY <2>4 DEF Abstract!Next
<1>5. ASSUME NEW t \in Threads, Step(t) \/ Call(t), ~ Push(t), ~ Trim(t)
      PROVE  UNCHANGED buf
  BY <1>5 DEF Step, Call, Test, Assign, Read, Lock, Write, Unlock
<1> QED
  BY <1>1, <1>2, <1>3, <1>4, <1>5 DEF Next, vars, Step

(* Each list is the log of its last Limit items, for any number of threads *)
(* that log to it at the same time.                                        *)
THEOREM ListsAreBoundedLogs == Spec => ImplementsBoundedLog
<1>1. Init => Abstract!Init
  <2> SUFFICES ASSUME Init
               PROVE  View = [l \in Threads |-> <<>>]
    BY DEF Abstract!Init
  <2>1. \A l \in Threads : Shown(buf[l]) = <<>>
    <3>1. \A l \in Threads : buf[l] = <<>>
      BY DEF Init
    <3>2. <<>> \in Seq(Items) /\ Len(<<>>) <= Limit
      BY Bounds
    <3> QED
      BY <3>1, <3>2, ShownShort
  <2> QED
    BY <2>1, ViewOf
<1>2. LogInv /\ [Next]_vars => [Abstract!Next]_View
  BY StepImplements
<1> QED
  BY <1>1, <1>2, LogInvariant, PTL DEF Spec, ImplementsBoundedLog, Abstract!Spec

=============================================================================
