-------------------------- MODULE TaskQueueProofs --------------------------
(***************************************************************************)
(* Theorems about TaskQueue, for any tasks, IDs, roles, dependencies,      *)
(* priorities, retry limit and done-set limit.                             *)
(***************************************************************************)
EXTENDS TaskQueue, TLAPS

-----------------------------------------------------------------------------
(* Type correctness *)

LEMMA CompactedSubset ==
    ASSUME NEW r \in Roles
    PROVE  /\ Compacted(r) \subseteq roleIndex[r]
           /\ roleIndex[r] \cap heap \subseteq Compacted(r)
  BY DEF Compacted, Live

\* recordDone adds at most the ID it is given, and keeps the types.
LEMMA RecordDoneTypes ==
    ASSUME TypeOK, NEW id \in Ids, RecordDone(id)
    PROVE  /\ doneIDs' \subseteq doneIDs \cup {id}
           /\ doneIDs' \subseteq Ids
           /\ doneSeq' \in Seq(Ids)
  <1>1. CASE id \in doneIDs
    BY <1>1 DEF RecordDone, TypeOK
  <1>2. CASE id \notin doneIDs
    <2> DEFINE seq == Append(doneSeq, id)
               old == IF Len(seq) > MaxDone THEN MaxDone \div 2 ELSE 0
    <2>1. seq \in Seq(Ids) /\ Len(seq) = Len(doneSeq) + 1 /\ Len(seq) \in Nat
      BY DEF TypeOK
    <2>2. old \in Nat /\ old + 1 >= 1
      BY QueueAssumption
    <2>3. SubSeq(seq, old + 1, Len(seq)) \in Seq(Ids)
      <3> HIDE DEF seq, old
      <3>1. old + 1 \in 1..(Len(seq) + 1) \/ old + 1 > Len(seq)
        BY <2>1, <2>2
      <3> QED BY <2>1, <2>2, <3>1
    <2>4. /\ doneSeq' = SubSeq(seq, old + 1, Len(seq))
          /\ doneIDs' \subseteq doneIDs \cup {id}
      BY <1>2 DEF RecordDone
    <2> QED BY <2>3, <2>4 DEF TypeOK
  <1> QED BY <1>1, <1>2

LEMMA InsertTypes ==
    ASSUME TypeOK, NEW t \in Tasks, Insert(t)
    PROVE  /\ heap' \subseteq Tasks
           /\ inQueue' \subseteq Ids
           /\ roleIndex' \in [Roles -> SUBSET Tasks]
           /\ doneIDs' = doneIDs /\ doneSeq' = doneSeq
  BY QueueAssumption DEF Insert, TypeOK

\* TypeOK is inductive: every step keeps each variable in its type, and a
\* worker holds a task exactly between findReady and the end of MarkDone or
\* MarkFailed.
LEMMA TypeStep == TypeOK /\ [Next]_vars => TypeOK'
  <1> SUFFICES ASSUME TypeOK, [Next]_vars PROVE TypeOK'
    OBVIOUS
  <1> USE QueueAssumption DEF TypeOK, WorkerStates, Holding, Goto, queueVars, workerVars
  <1>1. ASSUME NEW t \in Tasks, Push(t) PROVE TypeOK'
    <2>1. heap' \subseteq Tasks /\ inQueue' \subseteq Ids
          /\ roleIndex' \in [Roles -> SUBSET Tasks]
          /\ doneIDs' \subseteq Ids /\ doneSeq' \in Seq(Ids)
      BY <1>1, InsertTypes DEF Push
    <2>2. caller' \in [Tasks -> {"idle", "signalRole", "signalAll", "returned"}]
      BY <1>1 DEF Push
    <2> QED BY <1>1, <2>1, <2>2 DEF Push
  <1>2. ASSUME NEW t \in Tasks, PushSignalRole(t) PROVE TypeOK'
    BY <1>2 DEF PushSignalRole
  <1>3. ASSUME NEW t \in Tasks, PushSignalAll(t) PROVE TypeOK'
    BY <1>3 DEF PushSignalAll
  <1>4. ASSUME NEW r \in Roles, Scan(r) PROVE TypeOK'
    <2>1. Compacted(r) \subseteq Tasks /\ Candidates(r) \subseteq Tasks
      BY CompactedSubset DEF Candidates, Ready, Live
    <2>2. CASE \E t \in Candidates(r) : cur' = [cur EXCEPT ![r] = t]
               /\ Goto(r, "scan", "exec")
               /\ heap' = heap \ {t}
               /\ roleIndex' = [roleIndex EXCEPT ![r] = Compacted(r) \ {t}]
               /\ inQueue' = inQueue \ {IdOf[t]}
      BY <1>4, <2>1, <2>2 DEF Scan
    <2>3. CASE /\ Goto(r, "scan", "wait")
               /\ roleIndex' = [roleIndex EXCEPT ![r] = Compacted(r)]
               /\ UNCHANGED <<cur, heap, inQueue>>
      BY <1>4, <2>1, <2>3 DEF Scan
    <2> QED BY <1>4, <2>2, <2>3 DEF Scan
  <1>5. ASSUME NEW r \in Roles, Wake(r) PROVE TypeOK'
    <2>1. worker' = [worker EXCEPT ![r] = "scan"] /\ worker[r] = "wait"
      BY <1>5 DEF Wake
    <2>2. roleNotify' \in [Roles -> BOOLEAN] /\ notify' \in BOOLEAN
      BY <1>5 DEF Wake
    <2> QED BY <1>5, <2>1, <2>2 DEF Wake
  <1>6. ASSUME NEW r \in Roles, PopCancelled(r) PROVE TypeOK'
    BY <1>6 DEF PopCancelled
  <1>7. ASSUME NEW r \in Roles, MarkDone(r) PROVE TypeOK'
    <2>1. cur[r] \in Tasks /\ IdOf[cur[r]] \in Ids
      BY <1>7 DEF MarkDone
    <2>2. doneIDs' \subseteq Ids /\ doneSeq' \in Seq(Ids)
      BY <1>7, <2>1, RecordDoneTypes DEF MarkDone
    <2>3. RolesWaitingOn(IdOf[cur[r]]) \subseteq Roles
      BY DEF RolesWaitingOn
    <2> QED BY <1>7, <2>1, <2>2, <2>3 DEF MarkDone
  <1>8. ASSUME NEW r \in Roles, SignalRole(r) PROVE TypeOK'
    BY <1>8 DEF SignalRole
  <1>9. ASSUME NEW r \in Roles, SignalAll(r) PROVE TypeOK'
    BY <1>9 DEF SignalAll
  <1>10. ASSUME NEW r \in Roles, MarkFailed(r) PROVE TypeOK'
    <2>1. cur[r] \in Tasks /\ retries' \in [Tasks -> Nat]
      BY <1>10 DEF MarkFailed
    <2>2. CASE Goto(r, "exec", "clear") /\ UNCHANGED cur
      BY <1>10, <2>1, <2>2 DEF MarkFailed
    <2>3. CASE Goto(r, "exec", "scan") /\ cur' = [cur EXCEPT ![r] = NoTask]
      BY <1>10, <2>1, <2>3 DEF MarkFailed
    <2> QED BY <1>10, <2>2, <2>3 DEF MarkFailed
  <1>11. ASSUME NEW r \in Roles, ClearInQueue(r) PROVE TypeOK'
    BY <1>11 DEF ClearInQueue
  <1>12. ASSUME NEW r \in Roles, Repush(r) PROVE TypeOK'
    <2>1. cur[r] \in Tasks /\ RoleOf[cur[r]] \in Roles /\ cur' = [cur EXCEPT ![r] = NoTask]
      BY <1>12 DEF Repush
    <2>2. heap' \subseteq Tasks /\ inQueue' \subseteq Ids
          /\ roleIndex' \in [Roles -> SUBSET Tasks]
          /\ doneIDs' \subseteq Ids /\ doneSeq' \in Seq(Ids)
      BY <1>12, <2>1, InsertTypes DEF Repush
    <2>3. CASE Goto(r, "repush", "scan") /\ UNCHANGED toSignal
      BY <1>12, <2>1, <2>2, <2>3 DEF Repush
    <2>4. CASE /\ Goto(r, "repush", "signal")
               /\ toSignal' = [toSignal EXCEPT ![r] = {RoleOf[cur[r]]}]
      BY <1>12, <2>1, <2>2, <2>4 DEF Repush
    <2> QED BY <1>12, <2>3, <2>4 DEF Repush
  <1>13. ASSUME Cancel PROVE TypeOK'
    BY <1>13 DEF Cancel
  <1>14. CASE UNCHANGED vars
    BY <1>14 DEF vars
  <1> QED
    BY <1>1, <1>2, <1>3, <1>4, <1>5, <1>6, <1>7, <1>8, <1>9, <1>10, <1>11,
       <1>12, <1>13, <1>14 DEF Next, Caller, Worker, Executed

\* The type invariant holds in every behaviour of the queue and its users.
THEOREM TypeCorrect == Spec => []TypeOK
  <1>1. Init => TypeOK
    <2> SUFFICES ASSUME Init PROVE TypeOK
      OBVIOUS
    <2> USE QueueAssumption DEF Init
    <2>1. heap \subseteq Tasks /\ inQueue \subseteq Ids /\ doneIDs \subseteq Ids /\ doneSeq \in Seq(Ids)
      OBVIOUS
    <2>2. roleIndex \in [Roles -> SUBSET Tasks]
      OBVIOUS
    <2>3. roleNotify \in [Roles -> BOOLEAN] /\ notify \in BOOLEAN /\ ctxDone \in BOOLEAN
      OBVIOUS
    <2>4. retries \in [Tasks -> Nat] /\ toSignal \in [Roles -> SUBSET Roles]
      OBVIOUS
    <2>5. worker \in [Roles -> WorkerStates] /\ cur \in [Roles -> Tasks \cup {NoTask}]
      BY DEF WorkerStates
    <2>6. \A r \in Roles : cur[r] \in Tasks <=> worker[r] \in Holding
      BY DEF Holding
    <2>7. caller \in [Tasks -> {"idle", "signalRole", "signalAll", "returned"}]
      OBVIOUS
    <2> QED BY <2>1, <2>2, <2>3, <2>4, <2>5, <2>6, <2>7 DEF TypeOK
  <1> QED BY <1>1, TypeStep, PTL DEF Spec

-----------------------------------------------------------------------------
(* The indexes of the heap *)

LEMMA CompactedExact ==
    ASSUME RoleIndexExact, NEW r \in Roles
    PROVE  Compacted(r) = roleIndex[r] /\ Live(r) = roleIndex[r]
  BY DEF RoleIndexExact, Compacted, Live

LEMMA InsertRoleIndex ==
    ASSUME TypeOK, RoleIndexExact, NEW t \in Tasks, Insert(t)
    PROVE  RoleIndexExact'
  BY QueueAssumption DEF Insert, TypeOK, RoleIndexExact

LEMMA RoleIndexStep == TypeOK /\ RoleIndexExact /\ [Next]_vars => RoleIndexExact'
  <1> SUFFICES ASSUME TypeOK, RoleIndexExact, [Next]_vars PROVE RoleIndexExact'
    OBVIOUS
  <1> USE QueueAssumption DEF queueVars, workerVars
  <1>1. ASSUME NEW t \in Tasks, Push(t) PROVE RoleIndexExact'
    BY <1>1, InsertRoleIndex DEF Push, RoleIndexExact
  <1>2. ASSUME NEW r \in Roles, Repush(r) PROVE RoleIndexExact'
    <2>1. cur[r] \in Tasks
      BY <1>2 DEF Repush, TypeOK, Holding
    <2> QED BY <1>2, <2>1, InsertRoleIndex DEF Repush, RoleIndexExact
  <1>3. ASSUME NEW r \in Roles, Scan(r) PROVE RoleIndexExact'
    <2>1. Compacted(r) = roleIndex[r]
      BY CompactedExact
    <2>2. ASSUME NEW t \in Candidates(r),
                 heap' = heap \ {t},
                 roleIndex' = [roleIndex EXCEPT ![r] = Compacted(r) \ {t}]
          PROVE  RoleIndexExact'
      <3>1. t \in heap /\ RoleOf[t] = r
        BY DEF Candidates, Ready, Live, RoleIndexExact
      <3> QED BY <2>1, <2>2, <3>1 DEF RoleIndexExact, TypeOK
    <2>3. CASE roleIndex' = [roleIndex EXCEPT ![r] = Compacted(r)] /\ heap' = heap
      BY <2>1, <2>3 DEF RoleIndexExact, TypeOK
    <2> QED BY <1>3, <2>2, <2>3 DEF Scan
  <1>4. ASSUME UNCHANGED <<heap, roleIndex>> PROVE RoleIndexExact'
    BY <1>4 DEF RoleIndexExact
  <1> QED
    BY <1>1, <1>2, <1>3, <1>4
       DEF Next, Caller, Worker, Executed, vars, PushSignalRole, PushSignalAll,
           Wake, PopCancelled, MarkDone, SignalRole, SignalAll, MarkFailed,
           ClearInQueue, Cancel

LEMMA InQueueStep == TypeOK /\ InQueueSound /\ [Next]_vars => InQueueSound'
  <1> SUFFICES ASSUME TypeOK, InQueueSound, [Next]_vars PROVE InQueueSound'
    OBVIOUS
  <1> USE DEF queueVars, workerVars
  <1>1. ASSUME NEW t \in Tasks, Insert(t) PROVE InQueueSound'
    BY <1>1 DEF Insert, InQueueSound
  <1>2. ASSUME NEW t \in Tasks, Push(t) PROVE InQueueSound'
    BY <1>1, <1>2 DEF Push, InQueueSound
  <1>3. ASSUME NEW r \in Roles, Repush(r) PROVE InQueueSound'
    <2>1. cur[r] \in Tasks
      BY <1>3 DEF Repush, TypeOK, Holding
    <2> QED BY <1>1, <1>3, <2>1 DEF Repush, InQueueSound
  <1>4. ASSUME NEW r \in Roles, Scan(r) PROVE InQueueSound'
    <2>1. ASSUME NEW t \in Candidates(r), heap' = heap \ {t}, inQueue' = inQueue \ {IdOf[t]}
          PROVE  InQueueSound'
      BY <2>1 DEF InQueueSound
    <2> QED BY <1>4, <2>1 DEF Scan, InQueueSound
  <1>5. ASSUME heap' = heap, inQueue' \subseteq inQueue PROVE InQueueSound'
    BY <1>5 DEF InQueueSound
  <1> QED
    BY <1>2, <1>3, <1>4, <1>5
       DEF Next, Caller, Worker, Executed, vars, PushSignalRole, PushSignalAll,
           Wake, PopCancelled, MarkDone, SignalRole, SignalAll, MarkFailed,
           ClearInQueue, Cancel

-----------------------------------------------------------------------------
(* The bounded set of done IDs *)

\* What recordDone does to the sequence and the set when the ID is new: the
\* sequence stays duplicate-free and bounded, the set stays its range, and the
\* new ID survives the eviction.
LEMMA RecordDoneExact ==
    ASSUME TypeOK, DoneSeqExact, NEW id \in Ids, RecordDone(id)
    PROVE  DoneSeqExact' /\ id \in doneIDs'
  <1>1. CASE id \in doneIDs
    BY <1>1 DEF RecordDone, DoneSeqExact
  <1>2. CASE id \notin doneIDs
    <2> DEFINE n == Len(doneSeq)
               seq == Append(doneSeq, id)
               old == IF Len(seq) > MaxDone THEN MaxDone \div 2 ELSE 0
    <2>1. /\ doneSeq \in Seq(Ids) /\ n \in Nat /\ n <= MaxDone
          /\ doneIDs = {doneSeq[i] : i \in 1..n}
          /\ \A i, j \in 1..n : doneSeq[i] = doneSeq[j] => i = j
      BY DEF TypeOK, DoneSeqExact, Range, IsInjective
    <2>2. /\ Len(seq) = n + 1
          /\ \A i \in 1..n : seq[i] = doneSeq[i]
          /\ seq[n + 1] = id
          /\ seq \in Seq(Ids)
      BY <2>1
    <2>3. \A i, j \in 1..(n + 1) : seq[i] = seq[j] => i = j
      <3> HIDE DEF n, seq
      <3> QED BY <1>2, <2>1, <2>2
    <2>4. old \in Nat /\ old <= n /\ n + 1 - old <= MaxDone
      <3>1. MaxDone \in Nat /\ MaxDone >= 2
        BY QueueAssumption
      <3> HIDE DEF n, seq
      <3> QED BY <2>1, <2>2, <3>1
    <2>5. /\ doneSeq' = SubSeq(seq, old + 1, Len(seq))
          /\ doneIDs' = (doneIDs \cup {id}) \ {seq[i] : i \in 1..old}
      BY <1>2 DEF RecordDone
    <2> HIDE DEF n, seq, old
    <2>6. /\ Len(doneSeq') = n + 1 - old
          /\ DOMAIN doneSeq' = 1..(n + 1 - old)
          /\ \A i \in 1..(n + 1 - old) : doneSeq'[i] = seq[i + old]
      <3>1. Len(seq) = n + 1 /\ seq \in Seq(Ids) /\ n \in Nat /\ old \in Nat /\ old <= n
        BY <2>1, <2>2, <2>4
      <3> QED BY <3>1, <2>5
    <2>7. doneIDs \cup {id} = {seq[i] : i \in 1..(n + 1)}
      BY <2>1, <2>2
    <2>8. doneIDs' = {seq[i] : i \in (old + 1)..(n + 1)}
      <3>1. ASSUME NEW x \in doneIDs' PROVE x \in {seq[i] : i \in (old + 1)..(n + 1)}
        <4>1. PICK i \in 1..(n + 1) : x = seq[i]
          BY <2>5, <2>7
        <4>2. i \notin 1..old
          BY <2>5, <4>1
        <4> QED BY <2>1, <2>4, <4>1, <4>2
      <3>2. ASSUME NEW i \in (old + 1)..(n + 1) PROVE seq[i] \in doneIDs'
        BY <2>1, <2>3, <2>4, <2>5, <2>7
      <3> QED BY <3>1, <3>2
    <2>9. id \in doneIDs'
      BY <2>1, <2>2, <2>4, <2>8
    <2>10. IsInjective(doneSeq')
      BY <2>1, <2>3, <2>4, <2>6 DEF IsInjective
    <2>11. doneIDs' = Range(doneSeq')
      <3>1. ASSUME NEW i \in (old + 1)..(n + 1) PROVE seq[i] \in Range(doneSeq')
        <4>1. i - old \in 1..(n + 1 - old) /\ (i - old) + old = i
          BY <2>1, <2>4
        <4> QED BY <4>1, <2>6 DEF Range
      <3>2. ASSUME NEW j \in 1..(n + 1 - old) PROVE doneSeq'[j] \in doneIDs'
        <4>1. j + old \in (old + 1)..(n + 1)
          BY <2>1, <2>4
        <4> QED BY <4>1, <2>6, <2>8
      <3> QED BY <3>1, <3>2, <2>6, <2>8 DEF Range
    <2> QED BY <2>4, <2>6, <2>9, <2>10, <2>11 DEF DoneSeqExact
  <1> QED BY <1>1, <1>2

LEMMA DoneSeqStep == TypeOK /\ DoneSeqExact /\ [Next]_vars => DoneSeqExact'
  <1> SUFFICES ASSUME TypeOK, DoneSeqExact, [Next]_vars PROVE DoneSeqExact'
    OBVIOUS
  <1>1. ASSUME NEW r \in Roles, MarkDone(r) PROVE DoneSeqExact'
    <2>1. IdOf[cur[r]] \in Ids
      BY <1>1, QueueAssumption DEF MarkDone, TypeOK, Goto, Holding
    <2> QED BY <1>1, <2>1, RecordDoneExact DEF MarkDone
  <1>2. ASSUME UNCHANGED <<doneIDs, doneSeq>> PROVE DoneSeqExact'
    BY <1>2 DEF DoneSeqExact
  <1> QED
    BY <1>1, <1>2
       DEF Next, Caller, Worker, Executed, vars, queueVars, workerVars, Push, Insert,
           PushSignalRole, PushSignalAll, Scan, Wake, PopCancelled, SignalRole,
           SignalAll, MarkFailed, ClearInQueue, Repush, Cancel

\* The role index, the dedup set and the done set agree with the heap in every
\* reachable state; in particular no role-index entry is ever stale.
THEOREM Coherent == Spec => []QueueCoherent
  <1>1. Init => QueueCoherent
    <2> SUFFICES ASSUME Init PROVE QueueCoherent
      OBVIOUS
    <2>1. RoleIndexExact /\ InQueueSound
      BY DEF Init, RoleIndexExact, InQueueSound
    <2>2. DoneSeqExact
      BY QueueAssumption DEF Init, DoneSeqExact, Range, IsInjective
    <2> QED BY <2>1, <2>2 DEF QueueCoherent
  <1>2. TypeOK /\ QueueCoherent /\ [Next]_vars => QueueCoherent'
    BY RoleIndexStep, InQueueStep, DoneSeqStep DEF QueueCoherent
  <1> QED BY <1>1, <1>2, TypeCorrect, PTL DEF Spec

-----------------------------------------------------------------------------
(* Custody of task objects *)

\* A task nobody has called Push with is unknown to the queue.  Without this
\* part ExclusiveCustody is not inductive: Push could insert a task that a
\* worker is holding.
Unsubmitted ==
    \A t \in Tasks : caller[t] = "idle" => t \notin heap /\ \A r \in Roles : cur[r] # t

CustodyInv == ExclusiveCustody /\ Unsubmitted

LEMMA CustodyStep ==
    TypeOK /\ RoleIndexExact /\ CustodyInv /\ [Next]_vars => CustodyInv'
  <1> SUFFICES ASSUME TypeOK, RoleIndexExact, CustodyInv, [Next]_vars PROVE CustodyInv'
    OBVIOUS
  <1> USE QueueAssumption DEF queueVars, workerVars, CustodyInv, ExclusiveCustody, Unsubmitted
  <1>1. ASSUME NEW t \in Tasks, Push(t) PROVE CustodyInv'
    <2>1. heap' \subseteq heap \cup {t} /\ UNCHANGED cur /\ caller[t] = "idle" /\ caller'[t] # "idle"
          /\ \A u \in Tasks \ {t} : caller'[u] = caller[u]
      BY <1>1 DEF Push, Insert, TypeOK
    <2> QED BY <2>1
  <1>2. ASSUME NEW r \in Roles, Repush(r) PROVE CustodyInv'
    <2>1. /\ cur[r] \in Tasks
          /\ cur' = [cur EXCEPT ![r] = NoTask]
          /\ heap' \subseteq heap \cup {cur[r]}
          /\ UNCHANGED caller
      BY <1>2 DEF Repush, Insert, TypeOK, Holding
    <2> QED BY <2>1 DEF TypeOK
  <1>3. ASSUME NEW r \in Roles, Scan(r) PROVE CustodyInv'
    <2>1. ASSUME NEW t \in Candidates(r), heap' = heap \ {t},
                 cur' = [cur EXCEPT ![r] = t], UNCHANGED caller
          PROVE  CustodyInv'
      <3>1. t \in heap /\ t \in Tasks /\ RoleOf[t] = r
        BY DEF Candidates, Ready, Live, RoleIndexExact, TypeOK
      <3> QED BY <2>1, <3>1 DEF TypeOK
    <2>2. CASE UNCHANGED <<heap, cur, caller>>
      BY <2>2
    <2> QED BY <1>3, <2>1, <2>2 DEF Scan
  <1>4. ASSUME NEW r \in Roles, MarkDone(r) \/ MarkFailed(r) PROVE CustodyInv'
    <2>1. /\ \A s \in Roles : cur'[s] = cur[s] \/ cur'[s] = NoTask
          /\ UNCHANGED <<heap, caller>>
      BY <1>4 DEF MarkDone, MarkFailed, TypeOK
    <2>2. ExclusiveCustody'
      BY <2>1
    <2>3. Unsubmitted'
      BY <2>1
    <2> QED BY <2>2, <2>3
  <1>5. ASSUME NEW t \in Tasks, PushSignalRole(t) \/ PushSignalAll(t) PROVE CustodyInv'
    <2>1. UNCHANGED <<heap, cur>> /\ \A u \in Tasks : caller'[u] = "idle" => caller[u] = "idle"
      BY <1>5 DEF PushSignalRole, PushSignalAll, TypeOK
    <2> QED BY <2>1
  <1>6. ASSUME UNCHANGED <<heap, cur, caller>> PROVE CustodyInv'
    BY <1>6
  <1> QED
    BY <1>1, <1>2, <1>3, <1>4, <1>5, <1>6
       DEF Next, Caller, Worker, Executed, vars, Wake, PopCancelled, SignalRole,
           SignalAll, ClearInQueue, Cancel

LEMMA CustodyAlways == Spec => []CustodyInv
  <1>1. Init => CustodyInv
    BY QueueAssumption DEF Init, CustodyInv, ExclusiveCustody, Unsubmitted
  <1>2. TypeOK /\ QueueCoherent /\ CustodyInv /\ [Next]_vars => CustodyInv'
    BY CustodyStep DEF QueueCoherent
  <1> QED BY <1>1, <1>2, TypeCorrect, Coherent, PTL DEF Spec

\* No task object is ever in two hands at once, and a worker only ever holds
\* tasks of its own role.
THEOREM Custody == Spec => []ExclusiveCustody
  <1>1. CustodyInv => ExclusiveCustody
    BY DEF CustodyInv
  <1> QED BY <1>1, CustodyAlways, PTL

\* A task object leaves the queue's custody only for one of the three reasons
\* that NoSilentLoss lists.
THEOREM NothingLost == Spec => NoSilentLoss
  <1>1. TypeOK /\ DoneSeqExact /\ [Next]_vars =>
            [\A t \in Tasks : InCustody(t) /\ ~InCustody(t)' =>
                \/ IdOf[t] \in doneIDs'
                \/ retries'[t] > MaxRetries
                \/ IdOf[t] \in inQueue']_vars
    <2> SUFFICES ASSUME TypeOK, DoneSeqExact, Next,
                        NEW t \in Tasks, InCustody(t), ~InCustody(t)'
                 PROVE  \/ IdOf[t] \in doneIDs'
                        \/ retries'[t] > MaxRetries
                        \/ IdOf[t] \in inQueue'
      OBVIOUS
    <2> USE QueueAssumption DEF InCustody, queueVars, workerVars, TypeOK
    <2>1. ASSUME NEW r \in Roles, MarkDone(r) PROVE IdOf[t] \in doneIDs'
      <3>1. cur[r] = t
        BY <2>1 DEF MarkDone
      <3>2. RecordDone(IdOf[t]) /\ IdOf[t] \in Ids
        BY <2>1, <3>1 DEF MarkDone
      <3> QED BY <3>2, RecordDoneExact
    <2>2. ASSUME NEW r \in Roles, MarkFailed(r) PROVE retries'[t] > MaxRetries
      <3>1. cur[r] = t /\ retries[t] + 1 > MaxRetries
        BY <2>2 DEF MarkFailed
      <3> QED BY <2>2, <3>1 DEF MarkFailed
    <2>3. ASSUME NEW r \in Roles, Repush(r)
          PROVE  IdOf[t] \in doneIDs' \/ IdOf[t] \in inQueue'
      <3>a. heap \subseteq heap'
        BY <2>3 DEF Repush, Insert
      <3>b. cur' = [cur EXCEPT ![r] = NoTask]
        BY <2>3 DEF Repush
      <3>0. heap \subseteq heap' /\ \A s \in Roles \ {r} : cur'[s] = cur[s]
        BY <3>a, <3>b
      <3>1. cur[r] = t
        BY <3>0
      <3>2. CASE Duplicate(cur[r]) /\ UNCHANGED <<inQueue, doneIDs>>
        BY <3>1, <3>2 DEF Duplicate
      <3>3. CASE Insert(cur[r])
        BY <3>1, <3>3 DEF Insert
      <3> QED BY <2>3, <3>2, <3>3 DEF Repush
    <2>4. ASSUME NEW r \in Roles, Scan(r) PROVE FALSE
      <3>1. cur[r] # t
        BY <2>4 DEF Scan, Goto, Holding
      <3>2. ASSUME NEW u \in Candidates(r), cur' = [cur EXCEPT ![r] = u], heap' = heap \ {u}
            PROVE  FALSE
        <4>1. cur'[r] = u /\ \A s \in Roles \ {r} : cur'[s] = cur[s]
          BY <3>2
        <4> QED BY <3>1, <3>2, <4>1
      <3> QED BY <2>4, <3>2 DEF Scan
    <2>5. ASSUME heap \subseteq heap', cur' = cur PROVE FALSE
      BY <2>5
    <2> QED
      BY <2>1, <2>2, <2>3, <2>4, <2>5
         DEF Next, Caller, Worker, Executed, Push, Insert, PushSignalRole,
             PushSignalAll, Wake, PopCancelled, SignalRole, SignalAll,
             ClearInQueue, Cancel
  <1>2. Spec => []DoneSeqExact
    BY Coherent, PTL DEF QueueCoherent
  <1> QED BY <1>1, <1>2, TypeCorrect, PTL DEF Spec, NoSilentLoss

-----------------------------------------------------------------------------
(* The wake-up protocol *)

\* Tasks of a role that are ready after MarkDone(id) and were not before are
\* among those whose role MarkDone collected.
LEMMA NewlyReady ==
    ASSUME TypeOK, RoleIndexExact, NEW id \in Ids, RecordDone(id),
           UNCHANGED <<heap, roleIndex>>, NEW r \in Roles,
           Ready(r)' # {}, r \notin RolesWaitingOn(id)
    PROVE  Ready(r) # {}
  <1>1. PICK t \in heap : t \in roleIndex[r] /\ DepsOf[t] \subseteq doneIDs'
    BY DEF Ready, Live, DepsDone
  <1>2. RoleOf[t] = r
    BY <1>1 DEF RoleIndexExact
  <1>3. id \notin DepsOf[t]
    BY <1>1, <1>2 DEF RolesWaitingOn
  <1>4. DepsOf[t] \subseteq doneIDs
    BY <1>1, <1>3, RecordDoneTypes
  <1> QED BY <1>1, <1>4 DEF Ready, Live, DepsDone

\* A worker owes signals only between the unlock and the end of MarkDone or
\* MarkFailed; MarkDone may therefore overwrite its list.
OwesOnlyInSignal == \A r \in Roles : toSignal[r] # {} => worker[r] = "signal"

LEMMA OwesStep == TypeOK /\ OwesOnlyInSignal /\ [Next]_vars => OwesOnlyInSignal'
  <1> SUFFICES ASSUME TypeOK, OwesOnlyInSignal, [Next]_vars PROVE OwesOnlyInSignal'
    OBVIOUS
  <1> USE DEF queueVars, workerVars, TypeOK, Goto, OwesOnlyInSignal
  <1>1. ASSUME NEW r \in Roles, Scan(r) \/ Wake(r) \/ PopCancelled(r)
        PROVE  OwesOnlyInSignal'
    BY <1>1 DEF Scan, Wake, PopCancelled
  <1>2. ASSUME NEW r \in Roles, MarkDone(r) \/ SignalRole(r) \/ SignalAll(r)
        PROVE  OwesOnlyInSignal'
    BY <1>2 DEF MarkDone, SignalRole, SignalAll
  <1>3. ASSUME NEW r \in Roles, MarkFailed(r) \/ ClearInQueue(r) \/ Repush(r)
        PROVE  OwesOnlyInSignal'
    BY <1>3 DEF MarkFailed, ClearInQueue, Repush
  <1>4. ASSUME UNCHANGED <<worker, toSignal>> PROVE OwesOnlyInSignal'
    BY <1>4
  <1> QED
    BY <1>1, <1>2, <1>3, <1>4
       DEF Next, Caller, Worker, Executed, vars, Push, PushSignalRole,
           PushSignalAll, Cancel

LEMMA WakeupStep ==
    TypeOK /\ RoleIndexExact /\ OwesOnlyInSignal /\ NoLostWakeup /\ [Next]_vars
      => NoLostWakeup'
  <1> SUFFICES ASSUME TypeOK, RoleIndexExact, OwesOnlyInSignal, NoLostWakeup, [Next]_vars,
                      NEW r \in Roles, worker'[r] = "wait", Ready(r)' # {}
               PROVE  \/ roleNotify'[r]
                      \/ \E s \in Roles : r \in toSignal'[s]
                      \/ \E t \in Tasks : caller'[t] = "signalRole" /\ RoleOf[t] = r
    BY DEF NoLostWakeup
  <1> DEFINE Covered == \/ roleNotify[r]
                        \/ \E s \in Roles : r \in toSignal[s]
                        \/ \E t \in Tasks : caller[t] = "signalRole" /\ RoleOf[t] = r
             CoveredNext == \/ roleNotify'[r]
                            \/ \E s \in Roles : r \in toSignal'[s]
                            \/ \E t \in Tasks : caller'[t] = "signalRole" /\ RoleOf[t] = r
  <1>0. worker[r] = "wait" /\ Ready(r) # {} => Covered
    BY DEF NoLostWakeup
  <1> USE QueueAssumption DEF queueVars, workerVars, TypeOK, Goto
  <1>1. ASSUME NEW t \in Tasks, Push(t) PROVE CoveredNext
    <2>1. CASE Duplicate(t)
      <3>1. worker[r] = "wait" /\ Ready(r) # {}
        BY <1>1, <2>1 DEF Push, Ready, Live, DepsDone
      <3>2. Covered
        BY <1>0, <3>1
      <3> QED BY <1>1, <2>1, <3>2 DEF Push
    <2>2. CASE ~Duplicate(t) /\ RoleOf[t] = r
      BY <1>1, <2>2 DEF Push
    <2>3. CASE ~Duplicate(t) /\ RoleOf[t] # r
      <3>1. Ready(r)' \subseteq Ready(r)
        BY <1>1, <2>3 DEF Push, Insert, Ready, Live, DepsDone, RoleIndexExact
      <3>2. Covered
        BY <1>0, <1>1, <3>1 DEF Push
      <3> QED BY <1>1, <2>3, <3>2 DEF Push
    <2> QED BY <2>1, <2>2, <2>3
  <1>2. ASSUME NEW t \in Tasks, PushSignalRole(t) PROVE CoveredNext
    <2>1. Covered
      BY <1>0, <1>2 DEF PushSignalRole, Ready, Live, DepsDone
    <2>2. roleNotify[r] => roleNotify'[r]
      BY <1>2 DEF PushSignalRole
    <2>3. ASSUME NEW u \in Tasks, caller[u] = "signalRole", RoleOf[u] = r PROVE CoveredNext
      BY <1>2, <2>3 DEF PushSignalRole
    <2> QED BY <1>2, <2>1, <2>2, <2>3 DEF PushSignalRole
  <1>3. ASSUME NEW t \in Tasks, PushSignalAll(t) PROVE CoveredNext
    <2>1. Covered
      BY <1>0, <1>3 DEF PushSignalAll, Ready, Live, DepsDone
    <2> QED BY <1>3, <2>1 DEF PushSignalAll
  <1>4. ASSUME NEW s \in Roles, Scan(s) PROVE CoveredNext
    <2>1. Compacted(s) = roleIndex[s] /\ Live(s) = roleIndex[s]
      BY CompactedExact
    <2>2. Ready(r)' \subseteq Ready(r)
      BY <1>4, <2>1 DEF Scan, Ready, Live, DepsDone
    <2>3. r # s
      <3> SUFFICES ASSUME r = s PROVE FALSE
        OBVIOUS
      <3>1. Ready(r) = {}
        BY <1>4 DEF Scan
      <3> QED BY <2>2, <3>1
    <2> QED BY <1>0, <1>4, <2>2, <2>3 DEF Scan
  <1>5. ASSUME NEW s \in Roles, Wake(s) PROVE CoveredNext
    <2>1. r # s
      BY <1>5 DEF Wake
    <2>2. Covered
      BY <1>0, <1>5, <2>1 DEF Wake, Ready, Live, DepsDone
    <2>3. roleNotify'[r] = roleNotify[r]
      BY <1>5, <2>1 DEF Wake
    <2> QED BY <1>5, <2>2, <2>3 DEF Wake
  <1>6. ASSUME NEW s \in Roles, PopCancelled(s) PROVE CoveredNext
    <2>1. worker[r] = "wait" /\ Ready(r) # {}
      BY <1>6 DEF PopCancelled, Ready, Live, DepsDone
    <2> QED BY <1>0, <1>6, <2>1 DEF PopCancelled
  <1>7. ASSUME NEW s \in Roles, MarkDone(s) PROVE CoveredNext
    <2> DEFINE id == IdOf[cur[s]]
    <2>1. id \in Ids /\ RecordDone(id) /\ UNCHANGED <<heap, roleIndex, roleNotify, caller>>
          /\ toSignal' = [toSignal EXCEPT ![s] = RolesWaitingOn(id)]
      BY <1>7 DEF MarkDone, Holding
    <2>2. CASE r \in RolesWaitingOn(id)
      BY <2>1, <2>2
    <2>3. CASE r \notin RolesWaitingOn(id)
      <3>1. Ready(r) # {}
        BY <2>1, <2>3, NewlyReady
      <3>2. worker[r] = "wait" /\ worker[s] = "exec"
        BY <1>7 DEF MarkDone
      <3>3. Covered
        BY <1>0, <3>1, <3>2
      <3>4. toSignal[s] = {}
        BY <3>2 DEF OwesOnlyInSignal
      <3> QED BY <2>1, <3>3, <3>4
    <2> QED BY <2>2, <2>3
  <1>8. ASSUME NEW s \in Roles, SignalRole(s) PROVE CoveredNext
    <2>1. Covered
      BY <1>0, <1>8 DEF SignalRole, Ready, Live, DepsDone
    <2>2. PICK x \in toSignal[s] : /\ roleNotify' = [roleNotify EXCEPT ![x] = TRUE]
                                   /\ toSignal' = [toSignal EXCEPT ![s] = @ \ {x}]
      BY <1>8 DEF SignalRole
    <2>3. CASE x = r
      BY <2>2, <2>3
    <2>4. CASE x # r
      <3>1. roleNotify'[r] = roleNotify[r] /\ caller' = caller
        BY <1>8, <2>2, <2>4 DEF SignalRole
      <3>2. \A w \in Roles : r \in toSignal[w] => r \in toSignal'[w]
        BY <2>2, <2>4
      <3> QED BY <2>1, <3>1, <3>2
    <2> QED BY <2>3, <2>4
  <1>9. ASSUME NEW s \in Roles, SignalAll(s) PROVE CoveredNext
    <2>1. worker[r] = "wait" /\ Ready(r) # {}
      BY <1>9 DEF SignalAll, Ready, Live, DepsDone
    <2> QED BY <1>0, <1>9, <2>1 DEF SignalAll
  <1>10. ASSUME NEW s \in Roles, MarkFailed(s) PROVE CoveredNext
    <2>1. worker[r] = "wait" /\ Ready(r) # {}
      BY <1>10 DEF MarkFailed, Ready, Live, DepsDone
    <2> QED BY <1>0, <1>10, <2>1 DEF MarkFailed
  <1>11. ASSUME NEW s \in Roles, ClearInQueue(s) PROVE CoveredNext
    <2>1. worker[r] = "wait" /\ Ready(r) # {}
      BY <1>11 DEF ClearInQueue, Ready, Live, DepsDone
    <2> QED BY <1>0, <1>11, <2>1 DEF ClearInQueue
  <1>12. ASSUME NEW s \in Roles, Repush(s) PROVE CoveredNext
    <2>1. worker[r] = "wait" /\ worker[s] = "repush" /\ cur[s] \in Tasks
      BY <1>12 DEF Repush, Holding
    <2>2. toSignal[s] = {} /\ UNCHANGED <<roleNotify, caller>>
      BY <1>12, <2>1 DEF OwesOnlyInSignal, Repush
    <2>3. CASE UNCHANGED <<heap, roleIndex, doneIDs, toSignal>>
      <3>1. Ready(r) # {}
        BY <2>3 DEF Ready, Live, DepsDone
      <3> QED BY <1>0, <2>1, <2>2, <2>3, <3>1
    <2>4. CASE Insert(cur[s]) /\ toSignal' = [toSignal EXCEPT ![s] = {RoleOf[cur[s]]}]
      <3>1. CASE RoleOf[cur[s]] = r
        BY <2>4, <3>1
      <3>2. CASE RoleOf[cur[s]] # r
        <4>1. Ready(r) # {}
          BY <2>1, <2>4, <3>2 DEF Insert, Ready, Live, DepsDone, RoleIndexExact
        <4>2. Covered
          BY <1>0, <2>1, <4>1
        <4> QED BY <2>2, <2>4, <4>2
      <3> QED BY <3>1, <3>2
    <2> QED BY <1>12, <2>3, <2>4 DEF Repush
  <1>13. CASE UNCHANGED <<heap, roleIndex, doneIDs, worker, roleNotify, toSignal, caller>>
    <2>1. worker[r] = "wait" /\ Ready(r) # {}
      BY <1>13 DEF Ready, Live, DepsDone
    <2> QED BY <1>0, <1>13, <2>1
  <1> QED
    BY <1>1, <1>2, <1>3, <1>4, <1>5, <1>6, <1>7, <1>8, <1>9, <1>10, <1>11,
       <1>12, <1>13 DEF Next, Caller, Worker, Executed, Cancel, vars

\* With one worker per role, no worker sleeps in Pop while a task of its role
\* is ready, unless a token for it is in its channel or on its way.
THEOREM WakeupsSurvive == Spec => []NoLostWakeup
  <1>1. Init => NoLostWakeup /\ OwesOnlyInSignal
    BY DEF Init, NoLostWakeup, OwesOnlyInSignal
  <1>2. Spec => []OwesOnlyInSignal
    BY <1>1, OwesStep, TypeCorrect, PTL DEF Spec
  <1>3. Spec => []RoleIndexExact
    BY Coherent, PTL DEF QueueCoherent
  <1> QED BY <1>1, <1>2, <1>3, WakeupStep, TypeCorrect, PTL DEF Spec

-----------------------------------------------------------------------------
(* The queue implements its promise *)

LEMMA PromiseStep ==
    TypeOK /\ QueueCoherent /\ CustodyInv /\ [Next]_vars
      => [Promise!Next]_<<heap, doneIDs, cur, ctxDone>>
  <1> SUFFICES ASSUME TypeOK, QueueCoherent, CustodyInv, Next
               PROVE  Promise!Next \/ UNCHANGED <<heap, doneIDs, cur, ctxDone>>
    BY DEF vars, queueVars, workerVars
  <1> USE QueueAssumption DEF queueVars, workerVars
  <1>1. ASSUME NEW t \in Tasks, Push(t)
        PROVE  Promise!Next \/ UNCHANGED <<heap, doneIDs, cur, ctxDone>>
    <2>1. CASE ~Duplicate(t)
      <3>1. t \notin heap
        BY <1>1 DEF Push, CustodyInv, Unsubmitted
      <3>2. Promise!Accept(t)
        BY <1>1, <2>1, <3>1 DEF Push, Insert, Duplicate, Promise!Accept
      <3> QED BY <3>2 DEF Promise!Next
    <2> QED BY <1>1, <2>1 DEF Push
  <1>2. ASSUME NEW r \in Roles, Scan(r)
        PROVE  Promise!Next \/ UNCHANGED <<heap, doneIDs, cur, ctxDone>>
    <2>1. ASSUME NEW t \in Candidates(r), heap' = heap \ {t},
                 cur' = [cur EXCEPT ![r] = t]
          PROVE  Promise!HandOut(r)
      <3>1. {u \in Tasks : Promise!Ready(u) /\ RoleOf[u] = r} = Ready(r)
        BY CompactedExact
           DEF Promise!Ready, Ready, Live, DepsDone, QueueCoherent, RoleIndexExact, TypeOK
      <3>2. t \in Promise!Best(r)
        BY <3>1 DEF Promise!Best, Candidates
      <3>3. cur[r] = NoTask
        BY <1>2 DEF Scan, Goto, TypeOK, Holding
      <3> QED BY <1>2, <2>1, <3>2, <3>3 DEF Scan, Promise!HandOut
    <2> QED BY <1>2, <2>1 DEF Scan, Promise!Next
  <1>3. ASSUME NEW r \in Roles, MarkDone(r) PROVE Promise!Next
    <2> DEFINE id == IdOf[cur[r]]
    <2>1. cur[r] \in Tasks /\ id \in Ids /\ RecordDone(id)
      BY <1>3 DEF MarkDone, Goto, TypeOK, Holding
    <2>2. id \in doneIDs' /\ doneIDs' \subseteq doneIDs \cup {id}
      BY <2>1, RecordDoneTypes, RecordDoneExact DEF QueueCoherent
    <2>3. \E kept \in SUBSET doneIDs : doneIDs' = kept \cup {id}
      <3> WITNESS doneIDs' \cap doneIDs \in SUBSET doneIDs
      <3> QED BY <2>2
    <2>4. Promise!Complete(r)
      BY <1>3, <2>1, <2>3 DEF MarkDone, Promise!Complete
    <2> QED BY <2>4 DEF Promise!Next
  <1>4. ASSUME NEW r \in Roles, MarkFailed(r)
        PROVE  Promise!Next \/ UNCHANGED <<heap, doneIDs, cur, ctxDone>>
    <2>1. cur[r] # NoTask
      BY <1>4 DEF MarkFailed, TypeOK, Holding
    <2>2. UNCHANGED cur \/ Promise!Drop(r)
      BY <1>4, <2>1 DEF MarkFailed, Promise!Drop
    <2> QED BY <1>4, <2>2 DEF MarkFailed, Promise!Next
  <1>5. ASSUME NEW r \in Roles, Repush(r) PROVE Promise!Next
    <2>1. cur[r] # NoTask
      BY <1>5 DEF Repush, TypeOK, Holding
    <2>2. Promise!Retry(r) \/ Promise!Drop(r)
      BY <1>5, <2>1 DEF Repush, Duplicate, Insert, Promise!Retry, Promise!Drop
    <2> QED BY <2>2 DEF Promise!Next
  <1>6. ASSUME Cancel PROVE Promise!Next
    BY <1>6 DEF Cancel, Promise!Next, Promise!Close
  <1>7. ASSUME NEW r \in Roles,
               Wake(r) \/ PopCancelled(r) \/ SignalRole(r) \/ SignalAll(r) \/ ClearInQueue(r)
        PROVE  UNCHANGED <<heap, doneIDs, cur, ctxDone>>
    BY <1>7 DEF Wake, PopCancelled, SignalRole, SignalAll, ClearInQueue
  <1>8. ASSUME NEW t \in Tasks, PushSignalRole(t) \/ PushSignalAll(t)
        PROVE  UNCHANGED <<heap, doneIDs, cur, ctxDone>>
    BY <1>8 DEF PushSignalRole, PushSignalAll
  <1> QED
    BY <1>1, <1>2, <1>3, <1>4, <1>5, <1>6, <1>7, <1>8 DEF Next, Caller, Worker, Executed

\* Every step of the queue is a step of QueuePromise or leaves its view alone:
\* tasks are handed out only when their dependencies are done, the highest
\* priority first, to a worker that holds nothing.
THEOREM Refinement == Spec => PromiseSafety
  <1>1. Init => Promise!Init
    BY DEF Init, Promise!Init
  <1> QED
    BY <1>1, PromiseStep, TypeCorrect, Coherent, CustodyAlways, PTL DEF Spec, PromiseSafety
=============================================================================
