-------------------------- MODULE PhaseRunnerProofs --------------------------
(***************************************************************************)
(* Whatever is implemented was reviewed, and a suspended task can be       *)
(* resumed from its two stores, for any number of questions, redirects,    *)
(* attempts, runs, crashes and writes that fail.                           *)
(***************************************************************************)
EXTENDS PhaseRunner, TLAPS

Fields == [phase : {"understand", "clarify", "plan", "implement", "done"},
           questions : [Questions -> {"none", "open", "answered"}],
           plan : BOOLEAN, approved : BOOLEAN, redirects : Nat]

Places == Resting \cup {"next", "understand", "understanding", "understood",
            "clarify", "escalate", "trying", "asking", "answered",
            "plan", "planning", "review", "redirected", "approved",
            "implement", "implemented", "loop", "again", "test"}

TypeOK ==
    /\ mode \in Modes /\ pc \in Places /\ faults \in Nat
    /\ task \in Fields /\ row \in Fields

\* A task has questions open in its clarify phase only, and is in a later one
\* than plan only with an approved plan.
Sound(t) ==
    /\ t.phase # "clarify" => \A q \in Questions : t.questions[q] # "open"
    /\ t.phase \in {"implement", "done"} => t.plan /\ t.approved

\* The phase the task is in at each place of the run.
PhaseAt ==
    /\ pc \in {"understand", "understanding"} => task.phase = "understand"
    /\ pc \in {"clarify", "escalate", "trying", "asking", "answered", "suspended"} =>
         task.phase = "clarify"
    /\ pc \in {"plan", "planning", "review"} => task.phase = "plan"
    /\ pc = "review" => task.plan
    /\ pc \in {"approved", "implement", "again"} => task.phase = "implement"
    /\ pc \in {"implemented", "loop", "test"} => task.phase = "done"

\* Only these places have assigned to the task and not saved it yet.
Saved ==
    pc \notin {"understood", "review", "redirected", "failed", "idle", "down"} => row = task

\* In the chain there is a question, still open; a human is asked only after
\* the checkpoint says so.
Asking ==
    /\ pc \in {"escalate", "trying", "asking", "answered", "suspended"} =>
         asked \in Questions /\ task.questions[asked] = "open"
    /\ pc \in {"asking", "suspended"} /\ faults = 0 => cp = Pending("human_escalation", asked)

IInv == TypeOK /\ Sound(task) /\ Sound(row) /\ PhaseAt /\ Saved /\ Asking

LEMMA InitInv == Init => IInv
<1> SUFFICES ASSUME Init PROVE IInv
  OBVIOUS
<1> USE DEF Init
<1>1. TypeOK
  BY DEF TypeOK, Fields, NewTask, Places, Resting
<1>2. Sound(task) /\ Sound(row)
  BY DEF Sound, NewTask
<1>3. PhaseAt /\ Saved /\ Asking
  BY DEF PhaseAt, Saved, Asking
<1>4. QED
  BY <1>1, <1>2, <1>3 DEF IInv

\* Saving a sound task leads to a place whose invariant it satisfies, or to the
\* end of the run.
LEMMA SaveTaskInv ==
  ASSUME IInv, NEW new, new \in Fields, Sound(new), NEW place,
         SaveTask(new, place),
         \/ place = "next"
         \/ place = "clarify" /\ new.phase = "clarify"
         \/ place \in {"approved", "again"} /\ new.phase = "implement"
         \/ place = "implemented" /\ new.phase = "done"
  PROVE  IInv'
<1> USE DEF IInv, SaveTask, At, Fault
<1>1. TypeOK'
  BY SMT DEF TypeOK, Places, Resting
<1>2. Sound(task)' /\ Sound(row)'
  BY DEF Sound
<1>3. PhaseAt' /\ Saved'
  BY DEF PhaseAt, Saved
<1>4. Asking'
  BY DEF Asking
<1>5. QED
  BY <1>1, <1>2, <1>3, <1>4

\* Run's loop, understand and clarify.
LEMMA EarlyInv ==
  ASSUME IInv,
         \/ Run \/ Iterate \/ Understand \/ Understood \/ UnderstoodSaved
         \/ (\E q \in Questions : Clarify(q)) \/ Answered \/ Clarified
  PROVE  IInv'
<1> USE DEF IInv
<1>1. CASE Run
  <2> USE <1>1 DEF Run, Start
  <2>1. TypeOK'
    BY DEF TypeOK, Places, Resting
  <2>2. Sound(task)' /\ Sound(row)'
    BY DEF Sound
  <2>3. PhaseAt' /\ Saved' /\ Asking'
    BY DEF PhaseAt, Saved, Asking
  <2>4. QED
    BY <2>1, <2>2, <2>3
<1>2. CASE Iterate
  <2> USE <1>2 DEF Iterate, At
  <2>1. TypeOK'
    BY DEF TypeOK, Places, Resting, Fields
  <2>2. Sound(task)' /\ Sound(row)'
    BY DEF Sound
  <2>3. PhaseAt' /\ Saved' /\ Asking'
    BY DEF PhaseAt, Saved, Asking, TypeOK, Fields
  <2>4. QED
    BY <2>1, <2>2, <2>3
<1>3. CASE Understand
  <2> USE <1>3 DEF Understand, At, SaveCheckpoint, Fault
  <2>1. TypeOK'
    BY DEF TypeOK, Places, Resting
  <2>2. Sound(task)' /\ Sound(row)'
    BY DEF Sound
  <2>3. PhaseAt' /\ Saved' /\ Asking'
    BY DEF PhaseAt, Saved, Asking
  <2>4. QED
    BY <2>1, <2>2, <2>3
<1>4. CASE Understood
  <2>1. PICK raised \in SUBSET Questions :
          LET next == IF raised = {} THEN "plan" ELSE "clarify" IN
          /\ task' = [task EXCEPT !.phase = next,
                        !.questions = [q \in Questions |-> IF q \in raised THEN "open" ELSE @[q]]]
          /\ SaveCheckpoint(Checkpoint(next, "phase_transition"))
    BY <1>4 DEF Understood
  <2> DEFINE next == IF raised = {} THEN "plan" ELSE "clarify"
             qs == [q \in Questions |-> IF q \in raised THEN "open" ELSE task.questions[q]]
  <2>a. task' \in Fields
    <3>1. task \in Fields /\ next \in {"plan", "clarify"}
      BY DEF TypeOK
    <3>2. qs \in [Questions -> {"none", "open", "answered"}]
      BY <3>1 DEF Fields
    <3>3. task' = [task EXCEPT !.phase = next, !.questions = qs]
      BY <2>1
    <3> HIDE DEF next, qs
    <3>4. QED
      BY <3>1, <3>2, <3>3 DEF Fields
  <2> HIDE DEF next, qs
  <2>b. pc' = "understood" /\ UNCHANGED <<mode, row>>
    BY <1>4 DEF Understood, At
  <2>c. faults' = faults \/ faults' = faults + 1
    BY <2>1 DEF SaveCheckpoint, Fault
  <2>2. TypeOK'
    <3>1. faults' \in Nat
      BY <2>c DEF TypeOK
    <3>2. QED
      BY <2>a, <2>b, <3>1 DEF TypeOK, Places, Resting
  <2> USE <1>4, <2>1 DEF Understood, At, SaveCheckpoint, Fault
  <2>3. Sound(task)' /\ Sound(row)'
    BY DEF Sound, PhaseAt, TypeOK, Fields
  <2>4. PhaseAt' /\ Saved' /\ Asking'
    BY DEF PhaseAt, Saved, Asking
  <2>5. QED
    BY <2>2, <2>3, <2>4
<1>5. CASE UnderstoodSaved
  BY <1>5, SaveTaskInv DEF UnderstoodSaved, TypeOK
<1>6. CASE \E q \in Questions : Clarify(q)
  <2> PICK q \in Questions : Clarify(q)
    BY <1>6
  <2> USE DEF Clarify, Open, At, SaveCheckpoint, Fault
  <2>1. TypeOK'
    BY DEF TypeOK, Places, Resting
  <2>2. Sound(task)' /\ Sound(row)'
    BY DEF Sound
  <2>3. PhaseAt' /\ Saved' /\ Asking'
    BY DEF PhaseAt, Saved, Asking
  <2>4. QED
    BY <2>1, <2>2, <2>3
<1>7. CASE Answered
  <2> DEFINE new == [task EXCEPT !.questions[asked] = "answered"]
  <2>1. new \in Fields /\ new.phase = "clarify" /\ Sound(new)
    BY <1>7 DEF Answered, TypeOK, Fields, PhaseAt, Asking, Sound
  <2>2. SaveTask(new, "clarify")
    BY <1>7 DEF Answered
  <2>3. QED
    BY <2>1, <2>2, SaveTaskInv
<1>8. CASE Clarified
  <2> DEFINE new == [task EXCEPT !.phase = "plan"]
  <2>1. new \in Fields /\ Sound(new)
    BY <1>8 DEF Clarified, Open, TypeOK, Fields, Sound
  <2>2. SaveTask(new, "next")
    BY <1>8 DEF Clarified
  <2>3. QED
    BY <2>1, <2>2, SaveTaskInv
<1>9. QED
  BY <1>1, <1>2, <1>3, <1>4, <1>5, <1>6, <1>7, <1>8

\* Plan, review and implementation.
LEMMA LateInv ==
  ASSUME IInv,
         \/ Plan \/ Planned \/ Approve \/ Approved \/ Redirect \/ Redirected
         \/ Implement \/ Implemented \/ CallFails
  PROVE  IInv'
<1> USE DEF IInv
<1>1. CASE Plan \/ Approved \/ Implemented \/ CallFails
  <2> USE <1>1 DEF Plan, Approved, Implemented, CallFails, Fails, DeleteCheckpoint,
                   At, SaveCheckpoint, Fault
  <2>1. TypeOK'
    BY DEF TypeOK, Places, Resting, Modes
  <2>2. Sound(task)' /\ Sound(row)'
    BY DEF Sound
  <2>3. PhaseAt' /\ Saved' /\ Asking'
    BY DEF PhaseAt, Saved, Asking, TypeOK, Modes
  <2>4. QED
    BY <2>1, <2>2, <2>3
<1>2. CASE Planned
  <2>1. TypeOK'
    <3>1. /\ pc' = "review" /\ UNCHANGED <<mode, row>>
          /\ task' = [task EXCEPT !.plan = TRUE]
          /\ faults' = faults \/ faults' = faults + 1
      BY <1>2 DEF Planned, At, SaveCheckpoint, Fault
    <3>2. task' \in Fields
      BY <3>1 DEF TypeOK, Fields
    <3>3. faults' \in Nat
      BY <3>1 DEF TypeOK
    <3>4. pc' \in Places
      BY <3>1 DEF Places
    <3>5. QED
      BY <3>1, <3>2, <3>3, <3>4 DEF TypeOK
  <2> USE <1>2 DEF Planned, At, SaveCheckpoint, Fault
  <2>2. Sound(task)' /\ Sound(row)'
    BY DEF Sound, PhaseAt, TypeOK, Fields
  <2>3. PhaseAt' /\ Saved' /\ Asking'
    BY DEF PhaseAt, Saved, Asking, TypeOK, Fields
  <2>4. QED
    BY <2>1, <2>2, <2>3
<1>3. CASE Redirect
  <2>1. /\ pc = "review" /\ pc' \in {"failed", "redirected"}
        /\ faults' \in Nat
        /\ UNCHANGED <<mode, row, asked>>
    BY <1>3 DEF Redirect, At, SaveCheckpoint, Fault, TypeOK
  <2>2. \/ task' = [task EXCEPT !.redirects = task.redirects + 1]
        \/ task' = [task EXCEPT !.redirects = task.redirects + 1, !.plan = FALSE, !.phase = "plan"]
    BY <1>3 DEF Redirect
  <2>3. task \in Fields /\ task.redirects + 1 \in Nat
    BY DEF TypeOK, Fields
  <2>4. task' \in Fields /\ task'.phase = "plan" /\ task'.questions = task.questions
    <3>1. task.phase = "plan"
      BY <2>1 DEF PhaseAt
    <3> DEFINE count == task.redirects + 1
    <3>2. count \in Nat
      BY <2>3
    <3> HIDE DEF count
    <3>3. CASE task' = [task EXCEPT !.redirects = count]
      BY <2>3, <3>1, <3>2, <3>3 DEF Fields
    <3>4. CASE task' = [task EXCEPT !.redirects = count, !.plan = FALSE, !.phase = "plan"]
      BY <2>3, <3>1, <3>2, <3>4 DEF Fields
    <3>5. QED
      BY <2>2, <3>3, <3>4 DEF count
  <2>5. TypeOK'
    BY <2>1, <2>4 DEF TypeOK, Places, Resting
  <2>6. Sound(task)' /\ Sound(row)'
    BY <2>1, <2>4 DEF Sound, PhaseAt
  <2>7. PhaseAt' /\ Saved' /\ Asking'
    BY <2>1, <2>4 DEF PhaseAt, Saved, Asking
  <2>8. QED
    BY <2>5, <2>6, <2>7
<1>4. CASE Approve
  <2> DEFINE new == [task EXCEPT !.approved = TRUE, !.phase = "implement"]
  <2>1. new \in Fields /\ new.phase = "implement" /\ Sound(new)
    BY <1>4 DEF Approve, TypeOK, Fields, Sound, PhaseAt
  <2>2. SaveTask(new, "approved")
    BY <1>4 DEF Approve
  <2>3. QED
    BY <2>1, <2>2, SaveTaskInv
<1>5. CASE Redirected
  BY <1>5, SaveTaskInv DEF Redirected, TypeOK
<1>6. CASE Implement
  <2> DEFINE new == [task EXCEPT !.phase = "done"]
  <2>1. new \in Fields /\ new.phase = "done" /\ Sound(new)
    BY <1>6 DEF Implement, TypeOK, Fields, Sound, PhaseAt
  <2>2. SaveTask(new, "implemented")
    BY <1>6 DEF Implement
  <2>3. QED
    BY <2>1, <2>2, SaveTaskInv
<1>7. QED
  BY <1>1, <1>2, <1>3, <1>4, <1>5, <1>6

\* The escalation chain, the orchestrators and a crash.
LEMMA AroundInv ==
  ASSUME IInv,
         \/ FromCache \/ TryModels \/ ModelAnswers \/ AskHuman \/ AskFails
         \/ HumanAnswers \/ TimeOut
         \/ Accept \/ JudgeFails \/ Improve \/ RunAgain \/ Fix \/ Crash
  PROVE  IInv'
<1> USE DEF IInv
<1>1. CASE FromCache \/ TryModels \/ ModelAnswers \/ AskHuman \/ AskFails \/ HumanAnswers \/ TimeOut
  <2> USE <1>1 DEF FromCache, TryModels, ModelAnswers, AskHuman, AskFails, HumanAnswers, TimeOut,
                   Fails, DeleteCheckpoint, At, SaveCheckpoint, Fault
  <2>1. TypeOK'
    BY DEF TypeOK, Places, Resting
  <2>2. Sound(task)' /\ Sound(row)'
    BY DEF Sound
  <2>3. PhaseAt' /\ Saved'
    BY DEF PhaseAt, Saved
  <2>4. Asking'
    BY DEF Asking, TypeOK
  <2>5. QED
    BY <2>1, <2>2, <2>3, <2>4
<1>2. CASE Accept \/ JudgeFails \/ RunAgain \/ Fix \/ Crash
  <2> USE <1>2 DEF Accept, JudgeFails, RunAgain, Start, Fix, Crash, Fails, At
  <2>1. TypeOK'
    BY DEF TypeOK, Places, Resting
  <2>2. Sound(task)' /\ Sound(row)'
    BY DEF Sound
  <2>3. PhaseAt' /\ Saved' /\ Asking'
    BY DEF PhaseAt, Saved, Asking
  <2>4. QED
    BY <2>1, <2>2, <2>3
<1>3. CASE Improve
  <2> DEFINE new == [task EXCEPT !.phase = "implement"]
  <2>1. new \in Fields /\ new.phase = "implement" /\ Sound(new)
    BY <1>3 DEF Improve, TypeOK, Fields, Sound, PhaseAt
  <2>2. SaveTask(new, "again")
    BY <1>3 DEF Improve
  <2>3. QED
    BY <2>1, <2>2, SaveTaskInv
<1>4. QED
  BY <1>1, <1>2, <1>3

LEMMA NextInv == IInv /\ [Next]_vars => IInv'
<1> SUFFICES ASSUME IInv, [Next]_vars PROVE IInv'
  OBVIOUS
<1>1. CASE Next
  BY <1>1, EarlyInv, LateInv, AroundInv DEF Next, Step
<1>2. CASE UNCHANGED vars
  BY <1>2 DEF vars, IInv, TypeOK, Sound, PhaseAt, Saved, Asking
<1>3. QED
  BY <1>1, <1>2

LEMMA Invariant == Spec => []IInv
<1>1. QED
  BY InitInv, NextInv, PTL DEF Spec

\* What Run or an orchestrator implements, reviews, tests or stores as done has
\* an approved plan and no open question, after any crashes and resumptions.
THEOREM OnlyReviewedWork == Spec => []ReviewedWork
<1>1. IInv => ReviewedWork
  BY DEF IInv, PhaseAt, Sound, ReviewedWork, Open
<1>2. QED
  BY <1>1, Invariant, PTL

\* A suspended task's row is the task, in its clarify phase with the question
\* open, and its checkpoint says that a human was asked, unless a write failed.
THEOREM SuspensionResumable == Spec => []SuspendedResumable
<1>1. IInv => SuspendedResumable
  BY DEF IInv, PhaseAt, Saved, Asking, SuspendedResumable
<1>2. QED
  BY <1>1, Invariant, PTL
=============================================================================
