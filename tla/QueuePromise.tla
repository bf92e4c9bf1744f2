---------------------------- MODULE QueuePromise ----------------------------
(***************************************************************************)
(* What internal/queue promises its workers, without heap, role index,     *)
(* deduplication set or notification channels: a set of waiting tasks, a   *)
(* set of remembered done IDs, and for each role at most one task handed   *)
(* out.  A task is handed out only when its dependencies are done, the     *)
(* best one first, and an idle worker with a ready task is never left      *)
(* waiting.  TaskQueue implements this module (TaskQueue!Promise).         *)
(***************************************************************************)
EXTENDS Integers

CONSTANTS Tasks,    \* task objects handed to Push
          Ids,      \* task IDs; several objects may carry the same ID
          Roles,    \* agent roles, one worker goroutine each
          IdOf, RoleOf, PriOf, DepsOf,
          NoTask

VARIABLES waiting,  \* tasks in the queue
          done,     \* IDs remembered as done
          held,     \* held[r]: the task the worker of role r is processing
          closed    \* the workers' context is cancelled

promiseVars == <<waiting, done, held, closed>>

Ready(t) == t \in waiting /\ DepsOf[t] \subseteq done

\* The ready tasks of role r that no ready task of the role outranks.
Best(r) ==
    LET ready == {t \in Tasks : Ready(t) /\ RoleOf[t] = r}
    IN  {t \in ready : \A u \in ready : PriOf[u] <= PriOf[t]}

Init ==
    /\ waiting = {}
    /\ done = {}
    /\ held = [r \in Roles |-> NoTask]
    /\ closed = FALSE

\* A task is accepted only while its ID is not remembered as done.
Accept(t) ==
    /\ t \notin waiting
    /\ IdOf[t] \notin done
    /\ waiting' = waiting \cup {t}
    /\ UNCHANGED <<done, held, closed>>

HandOut(r) ==
    /\ held[r] = NoTask
    /\ \E t \in Best(r) :
          /\ held' = [held EXCEPT ![r] = t]
          /\ waiting' = waiting \ {t}
    /\ UNCHANGED <<done, closed>>

\* Completion records the ID; older IDs may be forgotten at the same time.
Complete(r) ==
    /\ held[r] # NoTask
    /\ \E kept \in SUBSET done : done' = kept \cup {IdOf[held[r]]}
    /\ held' = [held EXCEPT ![r] = NoTask]
    /\ UNCHANGED <<waiting, closed>>

Retry(r) ==
    /\ held[r] # NoTask
    /\ IdOf[held[r]] \notin done
    /\ waiting' = waiting \cup {held[r]}
    /\ held' = [held EXCEPT ![r] = NoTask]
    /\ UNCHANGED <<done, closed>>

Drop(r) ==
    /\ held[r] # NoTask
    /\ held' = [held EXCEPT ![r] = NoTask]
    /\ UNCHANGED <<waiting, done, closed>>

Close ==
    /\ closed' = TRUE
    /\ UNCHANGED <<waiting, done, held>>

Next ==
    \/ \E t \in Tasks : Accept(t)
    \/ \E r \in Roles : HandOut(r) \/ Complete(r) \/ Retry(r) \/ Drop(r)
    \/ Close

\* While the context lives, a worker keeps taking ready tasks and giving
\* back what it holds.
Fairness ==
    \A r \in Roles :
        /\ WF_promiseVars(~closed /\ HandOut(r))
        /\ WF_promiseVars(Complete(r) \/ Retry(r) \/ Drop(r))

Spec == Init /\ [][Next]_promiseVars /\ Fairness
=============================================================================
