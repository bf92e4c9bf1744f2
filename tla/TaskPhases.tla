----------------------------- MODULE TaskPhases -----------------------------
(***************************************************************************)
(* The life of one task: Executor.Execute and BaseAgent.Run take a task    *)
(* object through understand, clarify, plan and implement, while the store *)
(* (memory/store.go) keeps a row that SaveTask overwrites as a whole.      *)
(* A second object of the task comes from ResumeTask, a new one after a    *)
(* restart from RecoverSuspendedTasks; both copy the row.                  *)
(*                                                                         *)
(* A step is one call of a model or of the store with the assignments      *)
(* around it.  One worker serves the role, so objects run one at a time.   *)
(* What a model, a human or the supervisor answers is nondeterministic.    *)
(***************************************************************************)
EXTENDS Integers, FiniteSets

CONSTANTS Questions,    \* questions one understanding may raise
          MaxRedirects, \* maxRedirects, pre_executor.go
          MaxRetries,   \* maxTaskRetries, main.go
          MaxObjects,   \* bound: objects of the task in one life of the process
          MaxRestarts,  \* bound
          MaxFaults,    \* bound: statements of the store that fail
          PatchTo,      \* statuses set through the API
          MaxPatches    \* bound: how often

ASSUME PhasesAssumption ==
    /\ IsFiniteSet(Questions)
    /\ PatchTo \subseteq {"pending", "queued", "running", "done", "failed", "cancelled"}
    /\ MaxRedirects \in Nat \ {0} /\ MaxObjects \in Nat \ {0}
    /\ MaxRetries \in Nat /\ MaxRestarts \in Nat /\ MaxFaults \in Nat /\ MaxPatches \in Nat

Objects == 1 .. MaxObjects

VARIABLES
    obj,      \* obj[o]: the fields of task object o
    at,       \* at[o]: where o is: in the queue, in a phase of Run, or gone
    born,     \* objects made since the process started
    row,      \* the task's row in the store
    mark,     \* what the queue remembers of the task's ID: inQueue, doneIDs
    cards,    \* runs of the post-run hooks (Trello cards made)
    restarts, faults, patches

bounds == <<restarts, faults, patches>>
vars == <<obj, at, born, row, mark, cards, bounds>>

\* A task: its phase and status, each question "none", "open" or "answered",
\* whether there is a plan and an approval, the redirects, the tokens accounted
\* for, and the retries, which only the object in memory counts.
Unasked == [q \in Questions |-> "none"]
Fresh == [phase |-> "understand", status |-> "queued", questions |-> Unasked, plan |-> FALSE,
          approved |-> FALSE, redirects |-> 0, tokens |-> 0, retries |-> 0]
NoRow == [none |-> TRUE]

Init ==
    /\ obj = [o \in Objects |-> Fresh]
    /\ at = [o \in Objects |-> "free"]
    /\ born = 0 /\ row = NoRow /\ mark = "none" /\ cards = 0
    /\ restarts = 0 /\ faults = 0 /\ patches = 0

-----------------------------------------------------------------------------
(* The store *)

\* SaveTask overwrites every column but the dates; its failure is logged.
Save(fields) ==
    \/ row' = fields /\ UNCHANGED faults
    \/ faults < MaxFaults /\ faults' = faults + 1 /\ UNCHANGED row

\* UpdateTaskStatus
SetStatus(status) ==
    \/ row' = [row EXCEPT !.status = status] /\ UNCHANGED faults
    \/ faults < MaxFaults /\ faults' = faults + 1 /\ UNCHANGED row

\* (faulty: the questions are not read back)
ScanTaskNoQuestions == [row EXCEPT !.questions = Unasked]

\* GetTask, ListTasksByPhase
ScanTask == row

-----------------------------------------------------------------------------
(* The queue, as far as this task goes *)

Working == \E o \in Objects : at[o] \notin {"free", "queued", "gone"}

\* Push of o: dropped if the ID is queued or done.
Push(o, next) ==
    IF mark = "none" THEN mark' = "in" /\ at' = [next EXCEPT ![o] = "queued"]
                     ELSE UNCHANGED mark /\ at' = [next EXCEPT ![o] = "gone"]

\* createTasks: the row, then the queue.
Submit ==
    /\ row = NoRow /\ born = 0 /\ born' = 1
    /\ row' = Fresh
    /\ Push(1, at)
    /\ UNCHANGED <<obj, cards, bounds>>

\* delete(inQueue, ID), by a hand-out and by MarkFailed
Cleared == IF mark = "in" THEN "none" ELSE mark

Pop(o) ==
    /\ at[o] = "queued" /\ ~Working
    /\ at' = [at EXCEPT ![o] = "execute"]
    /\ mark' = Cleared
    /\ UNCHANGED <<obj, born, row, cards, bounds>>

\* (faulty: the retry is not counted)
MarkFailedUncounted(o) ==
    /\ at[o] = "failed"
    /\ obj' = [obj EXCEPT ![o].status = "queued"]
    /\ at' = [at EXCEPT ![o] = "repush"]
    /\ mark' = Cleared
    /\ UNCHANGED <<born, row, cards, bounds>>

\* MarkFailed: another attempt if retries remain; else it is dropped.
MarkFailed(o) ==
    /\ at[o] = "failed"
    /\ LET again == obj[o].retries + 1 <= MaxRetries IN
       /\ obj' = [obj EXCEPT ![o].retries = @ + 1, ![o].status = IF again THEN "queued" ELSE @]
       /\ at' = [at EXCEPT ![o] = IF again THEN "repush" ELSE "gone"]
       /\ mark' = IF again THEN Cleared ELSE mark
    /\ UNCHANGED <<born, row, cards, bounds>>

Repush(o) ==
    /\ at[o] = "repush"
    /\ Push(o, at)
    /\ UNCHANGED <<obj, born, row, cards, bounds>>

\* Execute returned nil, be it with a result or for a plan sent back: MarkDone.
MarkDone(o) ==
    /\ at[o] = "returned"
    /\ at' = [at EXCEPT ![o] = "gone"]
    /\ mark' = "done"
    /\ UNCHANGED <<obj, born, row, cards, bounds>>

-----------------------------------------------------------------------------
(* The phases.  Step(o, fields, place) is a step of the run of o. *)

Step(o, fields, place) ==
    /\ obj' = [obj EXCEPT ![o] = fields]
    /\ at' = [at EXCEPT ![o] = place]
    /\ UNCHANGED <<born, mark, cards, restarts, patches>>

\* An error that ends Run.
Error(o) == Step(o, obj[o], "error") /\ UNCHANGED <<row, faults>>

\* Run enters at the phase the object is in; a task that is done is an error.
Entry(phase) == IF phase = "done" THEN "error" ELSE phase

\* Execute without an agent of the role, or with a store that fails.
Refuse(o) == at[o] = "execute" /\ Step(o, obj[o], "failed") /\ UNCHANGED <<row, faults>>

Execute(o) ==
    /\ at[o] = "execute"
    /\ LET running == [obj[o] EXCEPT !.status = "running"] IN
       \/ /\ row' = running /\ UNCHANGED faults
          /\ Step(o, running, Entry(running.phase))
       \/ /\ faults < MaxFaults /\ faults' = faults + 1 /\ UNCHANGED row
          /\ Step(o, running, "failed")

\* (faulty: the questions raised are not saved)
UnderstandUnsaved(o) ==
    /\ at[o] = "understand"
    /\ \E raised \in SUBSET Questions :
          LET next == IF raised = {} THEN "plan" ELSE "clarify" IN
          Step(o, [obj[o] EXCEPT !.phase = next,
                                 !.questions = [q \in Questions |-> IF q \in raised THEN "open" ELSE @[q]]],
               next)
    /\ UNCHANGED <<row, faults>>

Understand(o) ==
    /\ at[o] = "understand"
    /\ \E raised \in SUBSET Questions :
          LET next == IF raised = {} THEN "plan" ELSE "clarify"
              new == [obj[o] EXCEPT !.phase = next,
                        !.questions = [q \in Questions |-> IF q \in raised THEN "open" ELSE @[q]]]
          IN Step(o, new, next) /\ Save(new)

UnderstandFails(o) == at[o] = "understand" /\ Error(o)

Open(o) == {q \in Questions : obj[o].questions[q] = "open"}

Answered(o, q) ==
    LET new == [obj[o] EXCEPT !.questions[q] = "answered"]
    IN Step(o, new, "clarify") /\ Save(new)

\* A question answered from the resolved patterns, or by a model that is
\* confident, on the first or second level.
Resolve(o) == at[o] = "clarify" /\ \E q \in Open(o) : Answered(o, q)

\* Nobody is: the question goes to a human ...
AskHuman(o) ==
    /\ at[o] = "clarify" /\ Open(o) # {}
    /\ Step(o, obj[o], "asking") /\ UNCHANGED <<row, faults>>

\* ... who answers,
HumanAnswers(o) == at[o] = "asking" /\ \E q \in Open(o) : Answered(o, q)

\* or does not within the run's time; a model or the message may fail too.
ClarifyFails(o) ==
    /\ \/ at[o] = "clarify" /\ Open(o) # {}
       \/ at[o] = "asking"
    /\ Error(o)

\* (faulty: on to the plan with questions open)
ClarifiedEarly(o) ==
    /\ at[o] = "clarify"
    /\ LET new == [obj[o] EXCEPT !.phase = "plan"] IN Step(o, new, "plan") /\ Save(new)

Clarified(o) ==
    /\ at[o] = "clarify" /\ Open(o) = {}
    /\ LET new == [obj[o] EXCEPT !.phase = "plan"] IN Step(o, new, "plan") /\ Save(new)

Plan(o) ==
    /\ at[o] = "plan"
    /\ LET new == [obj[o] EXCEPT !.plan = TRUE] IN Step(o, new, "review") /\ Save(new)

PlanFails(o) == at[o] \in {"plan", "review"} /\ Error(o)

Approve(o) ==
    /\ at[o] = "review"
    /\ LET new == [obj[o] EXCEPT !.approved = TRUE, !.phase = "implement"]
       IN Step(o, new, "implement") /\ Save(new)

\* The supervisor sends the plan back.  Below the limit the task starts over
\* at its next dispatch and Run returns (nil, nil); at the limit it fails.
Redirect(o) ==
    /\ at[o] = "review"
    /\ LET count == obj[o].redirects + 1
           again == count < MaxRedirects
           new == IF again THEN [obj[o] EXCEPT !.redirects = count, !.phase = "understand",
                                               !.questions = Unasked, !.plan = FALSE]
                           ELSE [obj[o] EXCEPT !.redirects = count]
       IN Step(o, new, IF again THEN "returned" ELSE "error") /\ Save(new)

Implement(o) ==
    /\ at[o] = "implement"
    /\ LET new == [obj[o] EXCEPT !.phase = "done"] IN Step(o, new, "account") /\ Save(new)

ImplementFails(o) == at[o] = "implement" /\ Error(o)

-----------------------------------------------------------------------------
(* The end of Execute *)

\* A post-run hook: TrelloBreakdownHook makes its cards.
RunHooks == cards' = cards + 1

\* AddTokens counts in the row only.
Account(o) ==
    /\ at[o] = "account"
    /\ Step(o, obj[o], "conclude")
    /\ \/ row' = [row EXCEPT !.tokens = 1] /\ UNCHANGED faults
       \/ faults < MaxFaults /\ faults' = faults + 1 /\ UNCHANGED row

Conclude(o) ==
    /\ at[o] = "conclude"
    /\ obj' = [obj EXCEPT ![o].status = "done"]
    /\ SetStatus("done")
    /\ at' = [at EXCEPT ![o] = "returned"]
    /\ RunHooks
    /\ UNCHANGED <<born, mark, restarts, patches>>

Fail(o) ==
    /\ at[o] = "error"
    /\ Step(o, [obj[o] EXCEPT !.status = "failed"], "failed")
    /\ SetStatus("failed")

-----------------------------------------------------------------------------
(* Others *)

\* A new object is a copy of the row.
Load(places) ==
    /\ born' = born + 1
    /\ obj' = [obj EXCEPT ![born + 1] = ScanTask]
    /\ Push(born + 1, places)

\* ResumeTask, allowed in phase clarify whatever the status.
ResumeTask ==
    /\ row # NoRow /\ row.phase = "clarify" /\ born < MaxObjects
    /\ mark = "none"  \* otherwise Push drops the object and nothing changes
    /\ Load(at)
    /\ UNCHANGED <<row, cards, bounds>>

\* updateTaskById: the row only.
Patch(status) ==
    /\ row # NoRow /\ patches < MaxPatches /\ patches' = patches + 1
    /\ row' = [row EXCEPT !.status = status]
    /\ UNCHANGED <<obj, at, born, mark, cards, restarts, faults>>

\* The process dies.  RecoverSuspendedTasks runs before the workers start.
Suspended == row # NoRow /\ row.phase = "clarify" /\ row.status = "running"

Restart ==
    /\ restarts < MaxRestarts /\ restarts' = restarts + 1
    /\ born > 0
    /\ LET nowhere == [o \in Objects |-> "free"] IN
       IF Suspended
       THEN /\ born' = 1 /\ mark' = "in"
            /\ at' = [nowhere EXCEPT ![1] = "queued"]
            /\ obj' = [obj EXCEPT ![1] = ScanTask]
       ELSE born' = 0 /\ mark' = "none" /\ at' = nowhere /\ UNCHANGED obj
    /\ UNCHANGED <<row, cards, faults, patches>>

RunStep(o) ==
    \/ Refuse(o) \/ Execute(o) \/ Understand(o) \/ UnderstandFails(o)
    \/ Resolve(o) \/ AskHuman(o) \/ HumanAnswers(o) \/ ClarifyFails(o) \/ Clarified(o)
    \/ Plan(o) \/ PlanFails(o) \/ Approve(o) \/ Redirect(o)
    \/ Implement(o) \/ ImplementFails(o) \/ Account(o) \/ Conclude(o) \/ Fail(o)
    \/ MarkFailed(o) \/ Repush(o) \/ MarkDone(o)

Next ==
    \/ Submit \/ ResumeTask \/ Restart
    \/ \E s \in PatchTo : Patch(s)
    \/ \E o \in Objects : Pop(o) \/ RunStep(o)

\* A worker takes what is queued, and a run goes on: calls have deadlines, the
\* wait for a human too.
Fairness ==
    /\ \A o \in Objects : WF_vars(RunStep(o))
    /\ WF_vars(\E o \in Objects : Pop(o))

Spec == Init /\ [][Next]_vars /\ Fairness

-----------------------------------------------------------------------------
(* Properties *)

\* base.go:148 "only reached after all preceding phases pass": work is done for
\* a plan the supervisor approved and with no question open, also by an object
\* that failed in between or was read back after a crash.
ReviewedWork ==
    \A o \in Objects : at[o] \in {"implement", "account", "conclude"} =>
        obj[o].plan /\ obj[o].approved /\ Open(o) = {}

\* What a restart or the API would find: while a human is asked, and when the
\* worker has let go of the task, the row is the object, its answers, plan and
\* outcome included.  Exceptions: a store that failed, a status set through the
\* API, a second object, and a retry refused, which is queued to itself only.
Columns(f) == <<f.phase, f.questions, f.plan, f.approved, f.redirects>>

StoreKeepsUp ==
    born = 1 /\ faults = 0 /\ patches = 0 /\ at[1] \in {"asking", "gone"} =>
        /\ Columns(row) = Columns(obj[1])
        /\ obj[1].status \in {row.status, "queued"}
        /\ row.status = "done" => row.tokens = 1

\* The save that sends the plan back: the object starts over, and counts it.
PlanSentBack(o) ==
    /\ at[o] = "review"
    /\ row' = obj'[o]
    /\ row'.phase = "understand" /\ row'.redirects = obj[o].redirects + 1

\* The save of one of two objects, made from the row before q was answered.
StaleSave(o, q) ==
    /\ born > 1
    /\ obj[o].questions[q] # "answered"
    /\ row' = obj'[o]

\* An answer in the store is lost in two ways only: a plan that is sent back
\* clears the questions (pre_executor.go:551-558), and a second object of the
\* task, read before the answer came, is saved over it (executor.go:83-101,
\* memory/store.go:234-290).  While there is one object it stays through failures,
\* retries, restarts and patches: nobody is asked again.
AnswersKept ==
    [][row # NoRow =>
         \A q \in Questions : row.questions[q] = "answered" =>
             \/ row'.questions[q] = "answered"
             \/ \E o \in Objects : PlanSentBack(o) \/ StaleSave(o, q)]_vars

\* A queued object is let go of in the end: its phases and retries end.
TaskEnds == \A o \in Objects : at[o] = "queued" ~> at[o] \in {"gone", "free"}

=============================================================================
