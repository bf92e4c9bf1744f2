---------------------------- MODULE PhaseRunner ----------------------------
(***************************************************************************)
(* Runner.Run (usecase/phase) takes a task through its phases.  It keeps a *)
(* checkpoint of the task beside the row of the task store, so that a task *)
(* that was suspended or interrupted goes on where it stopped.  Questions  *)
(* go through the escalation chain.  Run is called once by the router, or  *)
(* again and again by the loop orchestrator (a review of the output) or    *)
(* once by the test-and-fix orchestrator.                                  *)
(*                                                                         *)
(* A step is one call of a model, a human, a command or a store with the   *)
(* assignments around it.  A task that failed, was suspended or lost with  *)
(* the process is loaded from its row and run again.                       *)
(***************************************************************************)
EXTENDS Integers, FiniteSets

CONSTANTS Questions,      \* what the understanding may leave open
          MaxIterations,  \* maxPhaseIterations, runner.go
          MaxRedirects,   \* 3, plan.go
          MaxAttempts,    \* maxLoops, maxAttempts of the orchestrators
          MaxRuns,        \* bound: times the task is loaded and run
          MaxFaults       \* bound: writes that fail

ASSUME RunnerAssumption ==
    /\ IsFiniteSet(Questions) /\ "none" \notin Questions
    /\ MaxIterations \in Nat /\ MaxRedirects \in Nat \ {0} /\ MaxAttempts \in Nat \ {0}
    /\ MaxRuns \in Nat /\ MaxFaults \in Nat

VARIABLES
    mode,       \* who runs the task
    task, row,  \* the task in memory and in the store
    cp, held,   \* the stored checkpoint; the one Run loaded
    pc,         \* what runs now
    asked,      \* the question in the escalation chain
    iter,       \* iterations of Run's loop
    attempts,   \* attempts of an orchestrator
    runs, faults

vars == <<mode, task, row, cp, held, pc, asked, iter, attempts, runs, faults>>

Modes == {"single", "loop", "test"}

NoCheckpoint == [phase |-> "none", step |-> "none", question |-> "none"]
Checkpoint(phase, step) == [phase |-> phase, step |-> step, question |-> "none"]
Pending(step, q) == [phase |-> "clarify", step |-> step, question |-> q]

NewTask == [phase |-> "understand", questions |-> [q \in Questions |-> "none"],
            plan |-> FALSE, approved |-> FALSE, redirects |-> 0]

Resting == {"idle", "down", "failed", "suspended", "finished"}

Init ==
    /\ mode \in Modes
    /\ task = NewTask /\ row = NewTask
    /\ cp = NoCheckpoint /\ held = NoCheckpoint
    /\ pc = "idle" /\ asked = "none"
    /\ iter = 0 /\ attempts = 0 /\ runs = 0 /\ faults = 0

-----------------------------------------------------------------------------
(* The two stores *)

At(place) == pc' = place /\ UNCHANGED <<mode, runs>>
Fault == faults < MaxFaults /\ faults' = faults + 1

\* saveCheckpoint; its failure is logged.
SaveCheckpoint(new) ==
    \/ cp' = new /\ UNCHANGED faults
    \/ Fault /\ UNCHANGED cp

DeleteCheckpoint == SaveCheckpoint(NoCheckpoint)

\* SaveTask of new; Run ends with an error if it fails.
SaveTask(new, place) ==
    /\ task' = new
    /\ \/ row' = new /\ At(place) /\ UNCHANGED faults
       \/ Fault /\ At("failed") /\ UNCHANGED row

Fails == At("failed") /\ UNCHANGED <<task, row, cp, held, asked, iter, attempts, faults>>

-----------------------------------------------------------------------------
(* Run *)

\* A call of Run: the checkpoint is loaded.
Start(place, t) ==
    /\ pc' = place /\ task' = t /\ held' = cp /\ iter' = 0
    /\ UNCHANGED <<mode, row, cp, asked, faults>>

Run ==
    /\ pc \in Resting \ {"finished"} /\ runs < MaxRuns /\ runs' = runs + 1
    /\ attempts' = 1
    /\ Start("next", row)

\* An iteration of the loop: a phase, or the loop is exhausted.  A task that is
\* done is an error.
Iterate ==
    /\ pc = "next"
    /\ iter' = iter + 1
    /\ At(IF iter = MaxIterations \/ task.phase = "done" THEN "failed" ELSE task.phase)
    /\ UNCHANGED <<task, row, cp, held, asked, attempts, faults>>

Understand ==
    /\ pc = "understand"
    /\ SaveCheckpoint(Checkpoint("understand", "llm_call"))
    /\ At("understanding")
    /\ UNCHANGED <<task, row, held, asked, iter, attempts>>

\* The model's answer, and the checkpoint of the phase that follows ...
Understood ==
    /\ pc = "understanding"
    /\ \E raised \in SUBSET Questions :
          LET next == IF raised = {} THEN "plan" ELSE "clarify" IN
          /\ task' = [task EXCEPT !.phase = next,
                        !.questions = [q \in Questions |-> IF q \in raised THEN "open" ELSE @[q]]]
          /\ SaveCheckpoint(Checkpoint(next, "phase_transition"))
    /\ At("understood")
    /\ UNCHANGED <<row, held, asked, iter, attempts>>

\* ... and then the row.
UnderstoodSaved ==
    /\ pc = "understood" /\ SaveTask(task, "next") /\ held' = NoCheckpoint
    /\ UNCHANGED <<cp, asked, iter, attempts>>

Open == {q \in Questions : task.questions[q] = "open"}

Clarify(q) ==
    /\ pc = "clarify" /\ q \in Open
    /\ SaveCheckpoint(Pending("escalate_question", q))
    /\ asked' = q /\ At("escalate")
    /\ UNCHANGED <<task, row, held, iter, attempts>>

Answered ==
    /\ pc = "answered"
    /\ SaveTask([task EXCEPT !.questions[asked] = "answered"], "clarify")
    /\ asked' = "none" /\ UNCHANGED <<cp, held, iter, attempts>>

\* (faulty: the phase moves on after the first question)
ClarifiedEarly ==
    /\ pc = "clarify"
    /\ SaveTask([task EXCEPT !.phase = "plan"], "next")
    /\ UNCHANGED <<cp, held, asked, iter, attempts>>

Clarified ==
    /\ pc = "clarify" /\ Open = {}
    /\ SaveTask([task EXCEPT !.phase = "plan"], "next")
    /\ UNCHANGED <<cp, held, asked, iter, attempts>>

\* The plan is asked for with the guidance of the checkpoint Run holds.
Plan ==
    /\ pc = "plan"
    /\ SaveCheckpoint(Checkpoint("plan", "generate_plan"))
    /\ At("planning")
    /\ UNCHANGED <<task, row, held, asked, iter, attempts>>

Planned ==
    /\ pc = "planning"
    /\ task' = [task EXCEPT !.plan = TRUE]
    /\ SaveCheckpoint(Checkpoint("plan", "review_plan"))
    /\ At("review")
    /\ UNCHANGED <<row, held, asked, iter, attempts>>

Approve ==
    /\ pc = "review"
    /\ SaveTask([task EXCEPT !.approved = TRUE, !.phase = "implement"], "approved")
    /\ held' = NoCheckpoint
    /\ UNCHANGED <<cp, asked, iter, attempts>>

Approved ==
    /\ pc = "approved" /\ DeleteCheckpoint /\ At("next")
    /\ UNCHANGED <<task, row, held, asked, iter, attempts>>

\* The plan is sent back: the guidance goes into the checkpoint; at the limit
\* the task fails, with the count in memory only.
Redirect ==
    /\ pc = "review"
    /\ LET count == task.redirects + 1 IN
       \/ /\ count >= MaxRedirects
          /\ task' = [task EXCEPT !.redirects = count] /\ At("failed")
          /\ UNCHANGED <<cp, faults>>
       \/ /\ count < MaxRedirects
          /\ task' = [task EXCEPT !.redirects = count, !.plan = FALSE, !.phase = "plan"]
          /\ SaveCheckpoint(Checkpoint("plan", "redirect"))
          /\ At("redirected")
    /\ UNCHANGED <<row, held, asked, iter, attempts>>

\* Run forgets the checkpoint it loaded, not the stored one, and goes on.
Redirected ==
    /\ pc = "redirected" /\ SaveTask(task, "next") /\ held' = NoCheckpoint
    /\ UNCHANGED <<cp, asked, iter, attempts>>

Implement ==
    /\ pc = "implement"
    /\ SaveTask([task EXCEPT !.phase = "done"], "implemented")
    /\ UNCHANGED <<cp, held, asked, iter, attempts>>

Implemented ==
    /\ pc = "implemented" /\ DeleteCheckpoint
    /\ At(IF mode = "single" THEN "finished" ELSE mode)
    /\ UNCHANGED <<task, row, held, asked, iter, attempts>>

\* A call of a model fails, or its answer cannot be parsed.
CallFails == pc \in {"understanding", "planning", "review", "implement"} /\ Fails

-----------------------------------------------------------------------------
(* Chain.Resolve *)

\* From the cache: the checkpoint is left as it is.
FromCache == pc = "escalate" /\ At("answered")
             /\ UNCHANGED <<task, row, cp, held, asked, iter, attempts, faults>>

\* A model further up is tried, with a checkpoint before it; there may be none.
TryModels ==
    /\ pc = "escalate"
    /\ SaveCheckpoint(Pending("escalation", asked)) /\ At("trying")
    /\ UNCHANGED <<task, row, held, asked, iter, attempts>>

ModelAnswers ==
    /\ pc = "trying" /\ DeleteCheckpoint /\ At("answered")
    /\ UNCHANGED <<task, row, held, asked, iter, attempts>>

\* No model is confident, or each fails.
AskHuman ==
    /\ pc \in {"escalate", "trying"}
    /\ SaveCheckpoint(Pending("human_escalation", asked)) /\ At("asking")
    /\ UNCHANGED <<task, row, held, asked, iter, attempts>>

\* The message cannot be sent, or the question expires.
AskFails == pc = "asking" /\ Fails

HumanAnswers ==
    /\ pc = "asking" /\ DeleteCheckpoint /\ At("answered")
    /\ UNCHANGED <<task, row, held, asked, iter, attempts>>

\* (faulty: the checkpoint is deleted, though nobody answered)
TimeOutForgets ==
    /\ pc = "asking" /\ At("suspended") /\ cp' = NoCheckpoint
    /\ UNCHANGED <<task, row, held, asked, iter, attempts, faults>>

\* Nobody answers for 24 h: the task is suspended.
TimeOut ==
    /\ pc = "asking" /\ At("suspended")
    /\ UNCHANGED <<task, row, cp, held, asked, iter, attempts, faults>>

-----------------------------------------------------------------------------
(* The orchestrators, once Run has a result *)

\* The output is approved, or the tests pass.
Accept ==
    /\ pc \in {"loop", "test"} /\ At("finished")
    /\ UNCHANGED <<task, row, cp, held, asked, iter, attempts, faults>>

\* A review or a command fails.
JudgeFails == pc \in {"loop", "test"} /\ Fails

\* LoopOrchestrator: the guidance is added to the plan, which is implemented
\* again; after the last attempt, too, it is saved so.
Improve ==
    /\ pc = "loop"
    /\ SaveTask([task EXCEPT !.phase = "implement"], "again")
    /\ UNCHANGED <<cp, held, asked, iter, attempts>>

\* (faulty: the attempts are not counted)
RunAgainUncounted ==
    /\ pc = "again" /\ runs' = runs /\ attempts' = attempts /\ Start("next", task)

RunAgain ==
    /\ pc = "again" /\ runs' = runs
    /\ \/ attempts < MaxAttempts /\ attempts' = attempts + 1 /\ Start("next", task)
       \/ attempts = MaxAttempts /\ pc' = "failed"
          /\ UNCHANGED <<mode, task, row, cp, held, asked, iter, attempts, faults>>

\* TestFixOrchestrator: the tests fail.  A fix is asked for, and takes the place
\* of the output; the last attempt is not followed by one.
Fix ==
    /\ pc = "test"
    /\ IF attempts < MaxAttempts THEN attempts' = attempts + 1 /\ At("test")
                                 ELSE UNCHANGED attempts /\ At("failed")
    /\ UNCHANGED <<task, row, cp, held, asked, iter, faults>>

-----------------------------------------------------------------------------
\* The process dies.
Crash ==
    /\ pc \notin Resting /\ At("down")
    /\ asked' = "none" /\ held' = NoCheckpoint /\ iter' = 0
    /\ task' = row
    /\ UNCHANGED <<row, cp, attempts, faults>>

Step ==
    \/ Iterate
    \/ Understand \/ Understood \/ UnderstoodSaved
    \/ (\E q \in Questions : Clarify(q)) \/ Answered \/ Clarified
    \/ Plan \/ Planned \/ Approve \/ Approved \/ Redirect \/ Redirected
    \/ Implement \/ Implemented \/ CallFails
    \/ FromCache \/ TryModels \/ ModelAnswers \/ AskHuman \/ AskFails \/ HumanAnswers \/ TimeOut
    \/ Accept \/ JudgeFails \/ Improve \/ RunAgain \/ Fix

Next == Run \/ Step \/ Crash

\* Calls have deadlines: a run goes on.
Fairness == WF_vars(Step)

Spec == Init /\ [][Next]_vars /\ Fairness

-----------------------------------------------------------------------------
(* Properties *)

\* Runner.Run's order (runner.go:13) across resumptions: what is implemented,
\* reviewed, tested or stored as done has an approved plan and no open question.
ReviewedWork ==
    /\ pc \in {"implement", "implemented", "loop", "again", "test"} =>
         task.plan /\ task.approved /\ Open = {}
    /\ row.phase \in {"implement", "done"} =>
         row.plan /\ row.approved /\ \A q \in Questions : row.questions[q] # "open"

\* runner.go:34 "saves a PhaseCheckpoint so the task resumes from the exact
\* step": a suspended task can be resumed from the stores alone.  Its row is the
\* task, in the clarify phase with the question open that the checkpoint says a
\* human was asked.  (A checkpoint that could not be written is logged.)
SuspendedResumable ==
    pc = "suspended" =>
        /\ row = task /\ row.phase = "clarify" /\ row.questions[asked] = "open"
        /\ faults = 0 => cp = Pending("human_escalation", asked)

\* A run ends, whatever the models, the humans and the tests answer: the
\* phases' and the orchestrators' loops are bounded.
RunEnds == pc = "next" ~> pc \in Resting

=============================================================================
