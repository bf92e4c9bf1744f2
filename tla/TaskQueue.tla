----------------------------- MODULE TaskQueue -----------------------------
(***************************************************************************)
(* internal/queue/queue.go with the goroutines that use it: one worker per *)
(* role (cmd/agentclawd/main.go starts one runWorker for each of its nine  *)
(* roles) and any number of callers of Push (API handlers, the domain-bus  *)
(* subscriber, the Trello poller, Executor.ResumeTask).  A step is one     *)
(* critical section of q.mu or one channel operation, so the interleavings *)
(* between the unlock in Push, MarkDone or MarkFailed and the channel      *)
(* sends that follow it are all explored.                                  *)
(*                                                                         *)
(* A member of Tasks is a *adapter.Task object given to Push.  ResumeTask  *)
(* loads a fresh object from the database, so two objects may carry one    *)
(* ID.  The heap's order is abstracted: findReady scans for the highest    *)
(* priority itself, and among equal ones takes whichever comes first in a  *)
(* slice whose order "doesn't matter" (removeFromRoleIndex), here any.     *)
(***************************************************************************)
EXTENDS Integers, Sequences, FiniteSets, Functions

CONSTANTS Tasks, Ids, Roles,
          IdOf, RoleOf, PriOf, DepsOf,
          MaxRetries,   \* maxTaskRetries, main.go
          MaxDone,      \* maxDoneIDs
          Flaky,        \* tasks whose execution may fail (all of them, in the code)
          MaxCallers,   \* bound: calls of Push in progress at a time
          NoTask

ASSUME QueueAssumption ==
    /\ IdOf \in [Tasks -> Ids]
    /\ RoleOf \in [Tasks -> Roles]
    /\ PriOf \in [Tasks -> Nat]
    /\ DepsOf \in [Tasks -> SUBSET Ids]
    /\ MaxRetries \in Nat
    /\ MaxDone \in Nat \ {0, 1}
    /\ Flaky \subseteq Tasks
    /\ MaxCallers \in Nat \ {0}
    /\ NoTask \notin Tasks

VARIABLES
    heap,       \* the heap, as the set of its tasks
    roleIndex,  \* roleIndex[r]: the items findReady(r) scans
    inQueue,    \* dedup: IDs believed to be in the heap
    doneIDs,    \* IDs whose dependents may run
    doneSeq,    \* doneIDs in insertion order, for eviction
    roleNotify, \* roleNotify[r]: the role channel (capacity 1) holds a token
    notify,     \* the global channel (capacity 1) holds a token
    retries,    \* task.Retries
    worker,     \* worker[r]: where the worker of role r is
    cur,        \* cur[r]: the task object it holds
    toSignal,   \* toSignal[r]: role channels it has yet to send on
    caller,     \* caller[t]: where the goroutine that called Push(t) is
    ctxDone     \* the workers' context is cancelled

queueVars  == <<heap, roleIndex, inQueue, doneIDs, doneSeq>>
workerVars == <<worker, cur, toSignal>>
vars == <<queueVars, roleNotify, notify, retries, workerVars, caller, ctxDone>>

Init ==
    /\ heap = {}
    /\ roleIndex = [r \in Roles |-> {}]
    /\ inQueue = {}
    /\ doneIDs = {}
    /\ doneSeq = <<>>
    /\ roleNotify = [r \in Roles |-> FALSE]
    /\ notify = FALSE
    /\ retries = [t \in Tasks |-> 0]
    /\ worker = [r \in Roles |-> "scan"]
    /\ cur = [r \in Roles |-> NoTask]
    /\ toSignal = [r \in Roles |-> {}]
    /\ caller = [t \in Tasks |-> "idle"]
    /\ ctxDone = FALSE

Goto(r, here, there) ==
    /\ worker[r] = here
    /\ worker' = [worker EXCEPT ![r] = there]

-----------------------------------------------------------------------------
(* Push *)

Duplicate(t) == IdOf[t] \in inQueue \/ IdOf[t] \in doneIDs

Insert(t) ==
    /\ inQueue' = inQueue \cup {IdOf[t]}
    /\ heap' = heap \cup {t}
    /\ roleIndex' = [roleIndex EXCEPT ![RoleOf[t]] = @ \cup {t}]
    /\ UNCHANGED <<doneIDs, doneSeq>>

\* The critical section of Push, called from outside the workers.  Each task
\* object is submitted once; a duplicate is silently dropped.
Push(t) ==
    /\ caller[t] = "idle"
    /\ Cardinality({u \in Tasks : caller[u] \in {"signalRole", "signalAll"}}) < MaxCallers
    /\ \/ /\ Duplicate(t)
          /\ caller' = [caller EXCEPT ![t] = "returned"]
          /\ UNCHANGED queueVars
       \/ /\ ~Duplicate(t)
          /\ Insert(t)
          /\ caller' = [caller EXCEPT ![t] = "signalRole"]
    /\ UNCHANGED <<roleNotify, notify, retries, workerVars, ctxDone>>

\* After the unlock: a non-blocking send on the role's channel ...
PushSignalRole(t) ==
    /\ caller[t] = "signalRole"
    /\ roleNotify' = [roleNotify EXCEPT ![RoleOf[t]] = TRUE]
    /\ caller' = [caller EXCEPT ![t] = "signalAll"]
    /\ UNCHANGED <<queueVars, notify, retries, workerVars, ctxDone>>

\* ... then one on the global channel.
PushSignalAll(t) ==
    /\ caller[t] = "signalAll"
    /\ notify' = TRUE
    /\ caller' = [caller EXCEPT ![t] = "returned"]
    /\ UNCHANGED <<queueVars, roleNotify, retries, workerVars, ctxDone>>

-----------------------------------------------------------------------------
(* Pop *)

DepsDone(t) == DepsOf[t] \subseteq doneIDs

\* Items of the role index that are still in the heap; the others are stale.
Live(r) == roleIndex[r] \cap heap

Ready(r) == {t \in Live(r) : DepsDone(t)}

\* (faulty: any ready task, the priorities not compared)
CandidatesUnranked(r) == Ready(r)

Candidates(r) == {t \in Ready(r) : \A u \in Ready(r) : PriOf[u] <= PriOf[t]}

\* compactRoleIndex, called when more than a quarter of the items are stale.
Compacted(r) ==
    IF 4 * Cardinality(roleIndex[r] \ heap) > Cardinality(roleIndex[r])
    THEN Live(r) ELSE roleIndex[r]

\* (faulty: the task handed out stays in the heap)
ScanKeepsHeap(r) ==
    /\ \/ \E t \in Candidates(r) :
              /\ Goto(r, "scan", "exec")
              /\ cur' = [cur EXCEPT ![r] = t]
              /\ inQueue' = inQueue \ {IdOf[t]}
              /\ UNCHANGED <<heap, roleIndex>>
       \/ /\ Ready(r) = {}
          /\ Goto(r, "scan", "wait")
          /\ UNCHANGED <<cur, heap, roleIndex, inQueue>>
    /\ UNCHANGED <<doneIDs, doneSeq, roleNotify, notify, retries, toSignal,
                   caller, ctxDone>>

\* findReady(role) under the lock: take the best ready task, or go to sleep.
Scan(r) ==
    /\ \/ \E t \in Candidates(r) :
              /\ Goto(r, "scan", "exec")
              /\ cur' = [cur EXCEPT ![r] = t]
              /\ heap' = heap \ {t}
              /\ roleIndex' = [roleIndex EXCEPT ![r] = Compacted(r) \ {t}]
              /\ inQueue' = inQueue \ {IdOf[t]}
       \/ /\ Ready(r) = {}
          /\ Goto(r, "scan", "wait")
          /\ roleIndex' = [roleIndex EXCEPT ![r] = Compacted(r)]
          /\ UNCHANGED <<cur, heap, inQueue>>
    /\ UNCHANGED <<doneIDs, doneSeq, roleNotify, notify, retries, toSignal,
                   caller, ctxDone>>

\* The select of Pop: any ready case may be taken.
Wake(r) ==
    /\ \/ /\ roleNotify[r]
          /\ roleNotify' = [roleNotify EXCEPT ![r] = FALSE]
          /\ Goto(r, "wait", "scan")
          /\ UNCHANGED notify
       \/ /\ notify
          /\ notify' = FALSE
          /\ Goto(r, "wait", "scan")
          /\ UNCHANGED roleNotify
    /\ UNCHANGED <<queueVars, retries, cur, toSignal, caller, ctxDone>>

PopCancelled(r) ==
    /\ ctxDone
    /\ Goto(r, "wait", "stopped")
    /\ UNCHANGED <<queueVars, roleNotify, notify, retries, cur, toSignal,
                   caller, ctxDone>>

-----------------------------------------------------------------------------
(* MarkDone *)

\* (faulty: an ID already recorded is appended again)
RecordDoneTwice(id) ==
    LET seq  == Append(doneSeq, id)
        old  == IF Len(seq) > MaxDone THEN MaxDone \div 2 ELSE 0
    IN  /\ doneSeq' = SubSeq(seq, old + 1, Len(seq))
        /\ doneIDs' = (doneIDs \cup {id}) \ {seq[i] : i \in 1..old}

\* recordDone: append, and when the list outgrows MaxDone forget the oldest
\* MaxDone \div 2 IDs.
RecordDone(id) ==
    IF id \in doneIDs
    THEN UNCHANGED <<doneIDs, doneSeq>>
    ELSE LET seq  == Append(doneSeq, id)
             old  == IF Len(seq) > MaxDone THEN MaxDone \div 2 ELSE 0
         IN  /\ doneSeq' = SubSeq(seq, old + 1, Len(seq))
             /\ doneIDs' = (doneIDs \cup {id}) \ {seq[i] : i \in 1..old}

\* (faulty: dependents are left to the global channel)
RolesNotTold(id) == {}

\* Roles of the heap's tasks that name id as a dependency.
RolesWaitingOn(id) == {RoleOf[t] : t \in {u \in heap : id \in DepsOf[u]}}

\* (faulty: the worker still holds the finished task)
MarkDoneKeepsTask(r) ==
    /\ Goto(r, "exec", "signal")
    /\ LET id == IdOf[cur[r]] IN
          /\ RecordDone(id)
          /\ inQueue' = inQueue \ {id}
          /\ toSignal' = [toSignal EXCEPT ![r] = RolesWaitingOn(id)]
    /\ UNCHANGED <<cur, heap, roleIndex, roleNotify, notify, retries, caller, ctxDone>>

\* The task succeeded: the critical section of MarkDone.
MarkDone(r) ==
    /\ Goto(r, "exec", "signal")
    /\ LET id == IdOf[cur[r]] IN
          /\ RecordDone(id)
          /\ inQueue' = inQueue \ {id}
          /\ toSignal' = [toSignal EXCEPT ![r] = RolesWaitingOn(id)]
    /\ cur' = [cur EXCEPT ![r] = NoTask]
    /\ UNCHANGED <<heap, roleIndex, roleNotify, notify, retries, caller, ctxDone>>

\* The sends after the unlock of MarkDone, and of the Push in MarkFailed.
SignalRole(r) ==
    /\ worker[r] = "signal"
    /\ \E s \in toSignal[r] :
          /\ roleNotify' = [roleNotify EXCEPT ![s] = TRUE]
          /\ toSignal' = [toSignal EXCEPT ![r] = @ \ {s}]
    /\ UNCHANGED <<queueVars, notify, retries, worker, cur, caller, ctxDone>>

SignalAll(r) ==
    /\ toSignal[r] = {}
    /\ Goto(r, "signal", "scan")
    /\ notify' = TRUE
    /\ UNCHANGED <<queueVars, roleNotify, retries, cur, toSignal, caller, ctxDone>>

-----------------------------------------------------------------------------
(* MarkFailed, in its three critical sections *)

\* (faulty: the last permitted retry is refused)
MarkFailedEarly(r) ==
    LET n == retries[cur[r]] + 1 IN
    /\ worker[r] = "exec"
    /\ cur[r] \in Flaky
    /\ retries' = [retries EXCEPT ![cur[r]] = n]
    /\ \/ /\ n < MaxRetries
          /\ Goto(r, "exec", "clear")
          /\ UNCHANGED cur
       \/ /\ n >= MaxRetries
          /\ Goto(r, "exec", "scan")
          /\ cur' = [cur EXCEPT ![r] = NoTask]
    /\ UNCHANGED <<queueVars, roleNotify, notify, toSignal, caller, ctxDone>>

\* task.Retries++ under the task's lock; beyond MaxRetries the task is dropped.
MarkFailed(r) ==
    LET n == retries[cur[r]] + 1 IN
    /\ worker[r] = "exec"
    /\ cur[r] \in Flaky
    /\ retries' = [retries EXCEPT ![cur[r]] = n]
    /\ \/ /\ n <= MaxRetries
          /\ Goto(r, "exec", "clear")
          /\ UNCHANGED cur
       \/ /\ n > MaxRetries
          /\ Goto(r, "exec", "scan")
          /\ cur' = [cur EXCEPT ![r] = NoTask]
    /\ UNCHANGED <<queueVars, roleNotify, notify, toSignal, caller, ctxDone>>

\* delete(q.inQueue, task.ID), so that the Push below accepts the retry.
ClearInQueue(r) ==
    /\ Goto(r, "clear", "repush")
    /\ inQueue' = inQueue \ {IdOf[cur[r]]}
    /\ UNCHANGED <<heap, roleIndex, doneIDs, doneSeq, roleNotify, notify, retries,
                   cur, toSignal, caller, ctxDone>>

\* q.Push(task) by the worker.
Repush(r) ==
    LET t == cur[r] IN
    /\ worker[r] = "repush"
    /\ \/ /\ Duplicate(t)
          /\ Goto(r, "repush", "scan")
          /\ UNCHANGED <<queueVars, toSignal>>
       \/ /\ ~Duplicate(t)
          /\ Insert(t)
          /\ Goto(r, "repush", "signal")
          /\ toSignal' = [toSignal EXCEPT ![r] = {RoleOf[t]}]
    /\ cur' = [cur EXCEPT ![r] = NoTask]
    /\ UNCHANGED <<roleNotify, notify, retries, caller, ctxDone>>

-----------------------------------------------------------------------------
Cancel ==
    /\ ~ctxDone
    /\ ctxDone' = TRUE
    /\ UNCHANGED <<queueVars, roleNotify, notify, retries, workerVars, caller>>

Caller(t) == Push(t) \/ PushSignalRole(t) \/ PushSignalAll(t)

Executed(r) == MarkDone(r) \/ MarkFailed(r)

Worker(r) ==
    \/ Scan(r) \/ Wake(r) \/ PopCancelled(r)
    \/ Executed(r) \/ SignalRole(r) \/ SignalAll(r)
    \/ ClearInQueue(r) \/ Repush(r)

Next ==
    \/ \E t \in Tasks : Caller(t)
    \/ \E r \in Roles : Worker(r)
    \/ Cancel

\* Goroutines that can run do run: a worker that is not blocked in its select
\* moves on (Executor.Execute returns, at the latest when its run context
\* times out), and a Push that left its critical section finishes its sends.
\* Nobody is obliged to call Push or to cancel.
Fairness ==
    /\ \A r \in Roles : WF_vars(Worker(r))
    /\ \A t \in Tasks : WF_vars(PushSignalRole(t) \/ PushSignalAll(t))

Spec == Init /\ [][Next]_vars /\ Fairness

-----------------------------------------------------------------------------
(* Properties *)

WorkerStates == {"scan", "wait", "exec", "signal", "clear", "repush", "stopped"}
Holding      == {"exec", "clear", "repush"}

TypeOK ==
    /\ heap \subseteq Tasks
    /\ roleIndex \in [Roles -> SUBSET Tasks]
    /\ inQueue \subseteq Ids
    /\ doneIDs \subseteq Ids
    /\ doneSeq \in Seq(Ids)
    /\ roleNotify \in [Roles -> BOOLEAN]
    /\ notify \in BOOLEAN
    /\ retries \in [Tasks -> Nat]
    /\ worker \in [Roles -> WorkerStates]
    /\ cur \in [Roles -> Tasks \cup {NoTask}]
    /\ \A r \in Roles : cur[r] \in Tasks <=> worker[r] \in Holding
    /\ toSignal \in [Roles -> SUBSET Roles]
    /\ caller \in [Tasks -> {"idle", "signalRole", "signalAll", "returned"}]
    /\ ctxDone \in BOOLEAN

RoleIndexExact == \A r \in Roles : roleIndex[r] = {t \in heap : RoleOf[t] = r}

InQueueSound == inQueue \subseteq {IdOf[t] : t \in heap}

DoneSeqExact ==
    /\ doneIDs = Range(doneSeq)
    /\ IsInjective(doneSeq)
    /\ Len(doneSeq) <= MaxDone

\* The three indexes agree with the heap whatever the interleaving: the role
\* index lists exactly the role's heap tasks (so no entry is ever stale and
\* compactRoleIndex never runs), an ID marked as queued is queued (a stale
\* mark would make Push drop a task for ever), and doneIDs is the duplicate-
\* free, bounded doneSeq that recordDone evicts from (queue.go:42-50, 167).
QueueCoherent == RoleIndexExact /\ InQueueSound /\ DoneSeqExact

\* A task object is in the heap or with one worker of its role, never both,
\* although MarkFailed releases the lock between clearing inQueue and Push.
ExclusiveCustody ==
    /\ \A r \in Roles : cur[r] \in Tasks => RoleOf[cur[r]] = r /\ cur[r] \notin heap
    /\ \A r, s \in Roles : cur[r] = cur[s] /\ cur[r] \in Tasks => r = s

\* A worker asleep in Pop's select while a task of its role is ready has a
\* token in its role channel, or somebody who left a critical section is
\* about to put one there (queue.go:91-100, 137-163).  The global channel is
\* no help: a worker of another role may take its only token.
NoLostWakeup ==
    \A r \in Roles :
        worker[r] = "wait" /\ Ready(r) # {} =>
            \/ roleNotify[r]
            \/ \E s \in Roles : r \in toSignal[s]
            \/ \E t \in Tasks : caller[t] = "signalRole" /\ RoleOf[t] = r

InCustody(t) == t \in heap \/ \E r \in Roles : cur[r] = t

\* The queue lets go of a task object only when its ID is done, when its
\* retries are used up, or when a retry finds another object of the same ID
\* already queued or done (queue.go:188-205).
NoSilentLoss ==
    [][\A t \in Tasks : InCustody(t) /\ ~InCustody(t)' =>
          \/ IdOf[t] \in doneIDs'
          \/ retries'[t] > MaxRetries
          \/ IdOf[t] \in inQueue']_vars

\* The queue is a QueuePromise: hand-outs respect dependencies and priority,
\* and the wake-up protocol never leaves an idle worker asleep for ever while
\* a task of its role stays ready (queue.go:40-41, 129-132).
Promise == INSTANCE QueuePromise WITH
    waiting <- heap,
    done    <- doneIDs,
    held    <- cur,
    closed  <- ctxDone

ImplementsPromise == Promise!Spec

\* Its safety part, which TaskQueueProofs proves.
PromiseSafety == Promise!Init /\ [][Promise!Next]_<<heap, doneIDs, cur, ctxDone>>
=============================================================================
