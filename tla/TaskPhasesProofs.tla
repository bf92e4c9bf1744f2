-------------------------- MODULE TaskPhasesProofs --------------------------
(***************************************************************************)
(* Whatever an agent implements has an approved plan and no open question, *)
(* for any number of questions, redirects, retries, objects of the task,   *)
(* restarts, statements that fail and statuses set through the API.        *)
(***************************************************************************)
EXTENDS TaskPhases, TLAPS

Phases == {"understand", "clarify", "plan", "implement", "done"}
Statuses == {"pending", "queued", "running", "done", "failed", "cancelled"}

Fields == [phase : Phases, status : Statuses,
           questions : [Questions -> {"none", "open", "answered"}],
           plan : BOOLEAN, approved : BOOLEAN,
           redirects : Nat, tokens : Nat, retries : Nat]

Places == {"free", "queued", "execute", "understand", "clarify", "asking", "plan", "review",
           "implement", "account", "conclude", "error", "failed", "repush", "returned", "gone"}

\* Questions are open in the clarify phase only and unasked before it, and a
\* phase after plan is reached only with an approved plan.
Sound(f) ==
    /\ f \in Fields
    /\ f.phase # "clarify" => \A q \in Questions : f.questions[q] # "open"
    /\ f.phase = "understand" => \A q \in Questions : f.questions[q] = "none"
    /\ f.phase \in {"implement", "done"} => f.plan /\ f.approved

\* The phase of an object at a place of its run.
Fits(place, f) ==
    /\ place \in {"understand", "plan", "clarify", "implement"} => f.phase = place
    /\ place = "asking" => f.phase = "clarify"
    /\ place = "review" => f.phase = "plan" /\ f.plan
    /\ place \in {"account", "conclude"} => f.phase = "done"

TypeOK ==
    /\ obj \in [Objects -> Fields] /\ at \in [Objects -> Places] /\ born \in Nat

\* The row is sound too, since objects are copied from it; there is one as soon
\* as there is an object.
RowSound ==
    \/ Sound(row)
    \/ row = NoRow /\ \A o \in Objects : at[o] = "free"

IInv ==
    /\ TypeOK /\ RowSound
    /\ \A o \in Objects : Sound(obj[o]) /\ Fits(at[o], obj[o])

-----------------------------------------------------------------------------
(* One step of one object *)

\* An object changes and moves, and it and the row are sound and the place fits:
\* the invariant is kept, other objects do not matter.
LEMMA PlacedInv ==
  ASSUME IInv, NEW o \in Objects, NEW new, Sound(new), NEW place \in Places,
         Fits(place, new), Sound(row)',
         obj' = [obj EXCEPT ![o] = new], at' = [at EXCEPT ![o] = place], born' = born
  PROVE  IInv'
<1>1. TypeOK'
  <2>1. new \in Fields
    BY DEF Sound
  <2>2. obj' \in [Objects -> Fields]
    BY <2>1 DEF IInv, TypeOK
  <2>3. at' \in [Objects -> Places] /\ born' \in Nat
    BY DEF IInv, TypeOK
  <2>4. QED
    BY <2>2, <2>3 DEF TypeOK
<1>2. RowSound'
  BY DEF RowSound
<1>3. \A x \in Objects : Sound(obj'[x]) /\ Fits(at'[x], obj'[x])
  <2> TAKE x \in Objects
  <2>1. CASE x = o
    BY <2>1 DEF IInv, TypeOK
  <2>2. CASE x # o
    BY <2>2 DEF IInv, TypeOK
  <2>3. QED
    BY <2>1, <2>2
<1>4. QED
  BY <1>1, <1>2, <1>3 DEF IInv, Sound, Fits

\* A step of the run of an object that leaves it and the row sound, at a place
\* that fits, keeps the invariant.
LEMMA StepInv ==
  ASSUME IInv, NEW o \in Objects, NEW new, Sound(new), NEW place \in Places,
         Fits(place, new), Step(o, new, place), Sound(row)'
  PROVE  IInv'
  BY PlacedInv DEF Step

\* An object that is somewhere has a sound row.
LEMMA RowThere ==
  ASSUME IInv, NEW o \in Objects, at[o] # "free"
  PROVE  Sound(row)
  BY DEF IInv, RowSound

\* Saving a sound object, whether the statement fails or not.
LEMMA SaveInv ==
  ASSUME IInv, NEW o \in Objects, at[o] # "free", NEW new, Sound(new), NEW place \in Places,
         Fits(place, new), Step(o, new, place), Save(new)
  PROVE  IInv'
<1>1. row' = new \/ row' = row
  BY DEF Save
<1>2. Sound(row)'
  BY <1>1, RowThere DEF Sound
<1>3. QED
  BY <1>2, StepInv

\* A status or a count of tokens does not make a task unsound.
LEMMA StatusSound ==
  ASSUME NEW f, Sound(f), NEW s \in Statuses
  PROVE  Sound([f EXCEPT !.status = s])
  BY DEF Sound, Fields

LEMMA TokensSound ==
  ASSUME NEW f, Sound(f)
  PROVE  Sound([f EXCEPT !.tokens = 1])
  BY DEF Sound, Fields

-----------------------------------------------------------------------------
LEMMA InitInv == Init => IInv
<1> SUFFICES ASSUME Init PROVE IInv
  OBVIOUS
<1>1. Sound(Fresh)
  BY DEF Sound, Fields, Fresh, Unasked, Phases, Statuses
<1>2. TypeOK
  BY <1>1 DEF Init, TypeOK, Sound, Places
<1>3. RowSound
  BY DEF Init, RowSound
<1>4. \A o \in Objects : Sound(obj[o]) /\ Fits(at[o], obj[o])
  BY <1>1 DEF Init, Fits
<1>5. QED
  BY <1>2, <1>3, <1>4 DEF IInv

\* The phases.
LEMMA PhasesInv ==
  ASSUME IInv, NEW o \in Objects,
         \/ Understand(o) \/ Resolve(o) \/ HumanAnswers(o) \/ Clarified(o)
         \/ Plan(o) \/ Approve(o) \/ Redirect(o) \/ Implement(o)
  PROVE  IInv'
<1> DEFINE t == obj[o]
<1>1. Sound(t) /\ Fits(at[o], t)
  BY DEF IInv
<1>2. t \in Fields /\ t.questions \in [Questions -> {"none", "open", "answered"}]
  BY <1>1 DEF Sound, Fields
<1>3. CASE Understand(o)
  <2>1. PICK raised \in SUBSET Questions :
          LET next == IF raised = {} THEN "plan" ELSE "clarify"
              new == [t EXCEPT !.phase = next,
                        !.questions = [q \in Questions |-> IF q \in raised THEN "open" ELSE t.questions[q]]]
          IN Step(o, new, next) /\ Save(new)
    BY <1>3 DEF Understand
  <2> DEFINE next == IF raised = {} THEN "plan" ELSE "clarify"
             qs == [q \in Questions |-> IF q \in raised THEN "open" ELSE t.questions[q]]
             new == [t EXCEPT !.phase = next, !.questions = qs]
  <2>2. next \in {"plan", "clarify"} /\ qs \in [Questions -> {"none", "open", "answered"}]
    BY <1>2
  <2>3. next # "clarify" => \A q \in Questions : qs[q] # "open"
    BY <1>1, <1>3 DEF Understand, Fits, Sound
  <2>4. Step(o, new, next) /\ Save(new)
    BY <2>1
  <2>5. Sound(new) /\ Fits(next, new)
    <3> HIDE DEF next, qs, t
    <3>1. QED
      BY <1>2, <2>2, <2>3 DEF Sound, Fits, Fields, Phases
  <2>6. at[o] # "free" /\ next \in Places
    BY <1>3, <2>2 DEF Understand, Places
  <2> HIDE DEF next, new, t
  <2>7. QED
    BY <2>4, <2>5, <2>6, SaveInv
<1>4. CASE Resolve(o) \/ HumanAnswers(o)
  <2>1. at[o] \in {"clarify", "asking"}
    BY <1>4 DEF Resolve, HumanAnswers
  <2>2. PICK q \in Questions : Answered(o, q)
    BY <1>4 DEF Resolve, HumanAnswers, Open
  <2> DEFINE new == [t EXCEPT !.questions[q] = "answered"]
  <2>3. Step(o, new, "clarify") /\ Save(new)
    BY <2>2 DEF Answered
  <2>4. Sound(new) /\ Fits("clarify", new)
    <3>1. t.phase = "clarify"
      BY <1>1, <2>1 DEF Fits
    <3> HIDE DEF t
    <3>2. QED
      BY <1>2, <3>1 DEF Sound, Fits, Fields
  <2> HIDE DEF new
  <2>5. QED
    BY <2>1, <2>3, <2>4, SaveInv DEF Places
<1>5. CASE Clarified(o)
  <2> DEFINE new == [t EXCEPT !.phase = "plan"]
  <2>1. Step(o, new, "plan") /\ Save(new) /\ at[o] = "clarify"
    BY <1>5 DEF Clarified
  <2>2. \A q \in Questions : t.questions[q] # "open"
    BY <1>5 DEF Clarified, Open
  <2>3. Sound(new) /\ Fits("plan", new)
    <3> HIDE DEF t
    <3>1. QED
      BY <1>2, <2>2 DEF Sound, Fits, Fields, Phases
  <2> HIDE DEF new
  <2>4. QED
    BY <2>1, <2>3, SaveInv DEF Places
<1>6. CASE Plan(o)
  <2> DEFINE new == [t EXCEPT !.plan = TRUE]
  <2>1. Step(o, new, "review") /\ Save(new) /\ at[o] = "plan"
    BY <1>6 DEF Plan
  <2>2. Sound(new) /\ Fits("review", new)
    <3>1. t.phase = "plan"
      BY <1>1, <2>1 DEF Fits
    <3> HIDE DEF t
    <3>2. QED
      BY <1>1, <1>2, <3>1 DEF Sound, Fits, Fields
  <2> HIDE DEF new
  <2>3. QED
    BY <2>1, <2>2, SaveInv DEF Places
<1>7. CASE Approve(o)
  <2> DEFINE new == [t EXCEPT !.approved = TRUE, !.phase = "implement"]
  <2>1. Step(o, new, "implement") /\ Save(new) /\ at[o] = "review"
    BY <1>7 DEF Approve
  <2>2. Sound(new) /\ Fits("implement", new)
    <3>1. t.phase = "plan" /\ t.plan
      BY <1>1, <2>1 DEF Fits
    <3> HIDE DEF t
    <3>2. QED
      BY <1>1, <1>2, <3>1 DEF Sound, Fits, Fields, Phases
  <2> HIDE DEF new
  <2>3. QED
    BY <2>1, <2>2, SaveInv DEF Places
<1>8. CASE Redirect(o)
  <2> DEFINE count == t.redirects + 1
             again == count < MaxRedirects
             new == IF again THEN [t EXCEPT !.redirects = count, !.phase = "understand",
                                            !.questions = Unasked, !.plan = FALSE]
                             ELSE [t EXCEPT !.redirects = count]
             place == IF again THEN "returned" ELSE "error"
  <2>1. Step(o, new, place) /\ Save(new) /\ at[o] = "review"
    BY <1>8 DEF Redirect
  <2>2. count \in Nat /\ Unasked \in [Questions -> {"none", "open", "answered"}]
    BY <1>2 DEF Fields, Unasked
  <2>3. Sound(new)
    <3>1. \A q \in Questions : Unasked[q] = "none"
      BY DEF Unasked
    <3> HIDE DEF t, count
    <3>2. CASE again
      BY <1>2, <2>2, <3>1, <3>2 DEF Sound, Fields, Phases
    <3>3. CASE ~again
      BY <1>1, <1>2, <2>2, <3>3 DEF Sound, Fields
    <3>4. QED
      BY <3>2, <3>3
  <2>4. place \in {"returned", "error"}
    OBVIOUS
  <2> HIDE DEF new, place
  <2>5. place \in Places /\ Fits(place, new)
    BY <2>4 DEF Places, Fits
  <2>6. QED
    BY <2>1, <2>3, <2>5, SaveInv
<1>9. CASE Implement(o)
  <2> DEFINE new == [t EXCEPT !.phase = "done"]
  <2>1. Step(o, new, "account") /\ Save(new) /\ at[o] = "implement"
    BY <1>9 DEF Implement
  <2>2. Sound(new) /\ Fits("account", new)
    <3>1. t.phase = "implement"
      BY <1>1, <2>1 DEF Fits
    <3> HIDE DEF t
    <3>2. QED
      BY <1>1, <1>2, <3>1 DEF Sound, Fits, Fields, Phases
  <2> HIDE DEF new
  <2>3. QED
    BY <2>1, <2>2, SaveInv DEF Places
<1>10. QED
  BY <1>3, <1>4, <1>5, <1>6, <1>7, <1>8, <1>9

\* The rest of Run and Execute.
LEMMA AroundInv ==
  ASSUME IInv, NEW o \in Objects,
         \/ Refuse(o) \/ Execute(o) \/ UnderstandFails(o) \/ AskHuman(o) \/ ClarifyFails(o)
         \/ PlanFails(o) \/ ImplementFails(o) \/ Account(o) \/ Conclude(o) \/ Fail(o)
  PROVE  IInv'
<1> DEFINE t == obj[o]
<1>1. Sound(t) /\ Fits(at[o], t)
  BY DEF IInv
<1>2. at[o] # "free"
  BY DEF Refuse, Execute, UnderstandFails, AskHuman, ClarifyFails, PlanFails, ImplementFails,
         Account, Conclude, Fail
<1>3. Sound(row)
  BY <1>2, RowThere
<1>4. CASE Refuse(o) \/ UnderstandFails(o) \/ AskHuman(o) \/ ClarifyFails(o) \/ PlanFails(o)
           \/ ImplementFails(o)
  <2>1. PICK place \in {"failed", "error", "asking"} :
          /\ Step(o, t, place) /\ UNCHANGED row
          /\ place = "asking" => at[o] = "clarify"
    BY <1>4 DEF Refuse, UnderstandFails, AskHuman, ClarifyFails, PlanFails, ImplementFails, Error
  <2>2. Fits(place, t) /\ place \in Places
    BY <1>1, <2>1 DEF Fits, Places
  <2>3. Sound(row)'
    BY <1>3, <2>1 DEF Sound
  <2> HIDE DEF t
  <2>4. QED
    BY <1>1, <2>1, <2>2, <2>3, StepInv
<1>5. CASE Execute(o)
  <2> DEFINE running == [t EXCEPT !.status = "running"]
  <2>1. Sound(running) /\ running.phase = t.phase /\ t.phase \in Phases
    <3>1. Sound(running)
      BY <1>1, StatusSound DEF Statuses
    <3>2. t.phase \in Phases /\ running.phase = t.phase
      BY <1>1 DEF Sound, Fields
    <3>3. QED
      BY <3>1, <3>2
  <2>2. PICK place \in {Entry(running.phase), "failed"} :
          Step(o, running, place) /\ (row' = running \/ row' = row)
    BY <1>5 DEF Execute
  <2>3. Sound(row)'
    BY <1>3, <2>1, <2>2 DEF Sound
  <2> HIDE DEF running, t
  <2>4. Fits(place, running) /\ place \in Places
    BY <2>1, <2>2 DEF Entry, Fits, Places, Phases
  <2>5. QED
    BY <2>1, <2>2, <2>3, <2>4, StepInv
<1>6. CASE Account(o)
  <2>1. Step(o, t, "conclude") /\ (row' = [row EXCEPT !.tokens = 1] \/ row' = row) /\ at[o] = "account"
    BY <1>6 DEF Account
  <2>2. Fits("conclude", t) /\ "conclude" \in Places
    BY <1>1, <2>1 DEF Fits, Places
  <2>3. Sound(row')
    BY <1>3, <2>1, TokensSound
  <2>4. Sound(row)'
    BY <2>3 DEF Sound
  <2> HIDE DEF t
  <2>5. QED
    BY <1>1, <2>1, <2>2, <2>4, StepInv
<1>7. CASE Conclude(o) \/ Fail(o)
  <2>1. PICK s \in {"done", "failed"}, place \in {"returned", "failed"} :
          /\ obj' = [obj EXCEPT ![o] = [t EXCEPT !.status = s]]
          /\ at' = [at EXCEPT ![o] = place]
          /\ born' = born /\ SetStatus(s)
    BY <1>7 DEF Conclude, Fail, Step
  <2> DEFINE new == [t EXCEPT !.status = s]
  <2>2. Sound(new) /\ Sound([row EXCEPT !.status = s])
    BY <1>1, <1>3, StatusSound DEF Statuses
  <2>3. Sound(row')
    BY <1>3, <2>1, <2>2 DEF SetStatus
  <2>4. Sound(row)'
    BY <2>3 DEF Sound
  <2>5. Fits(place, new) /\ place \in Places
    BY DEF Fits, Places
  <2>6. obj' = [obj EXCEPT ![o] = new] /\ at' = [at EXCEPT ![o] = place] /\ born' = born
    BY <2>1
  <2> HIDE DEF new, t
  <2>7. QED
    BY <2>2, <2>4, <2>5, <2>6, PlacedInv
<1>8. QED
  BY <1>4, <1>5, <1>6, <1>7

\* The queue: an object moves, with the status and retries MarkFailed gives it.
LEMMA QueueInv ==
  ASSUME IInv, NEW o \in Objects,
         Pop(o) \/ MarkFailed(o) \/ Repush(o) \/ MarkDone(o)
  PROVE  IInv'
<1> DEFINE t == obj[o]
<1>1. Sound(t)
  BY DEF IInv
<1>2. at[o] # "free" /\ UNCHANGED row
  BY DEF Pop, MarkFailed, Repush, MarkDone
<1>3. Sound(row)'
  BY <1>2, RowThere DEF Sound
<1>4. \E new, place :
         /\ Sound(new) /\ place \in {"execute", "repush", "gone", "queued"}
         /\ obj' = [obj EXCEPT ![o] = new] /\ at' = [at EXCEPT ![o] = place] /\ born' = born
  <2>1. CASE Pop(o) \/ Repush(o) \/ MarkDone(o)
    <3>1. obj' = obj /\ born' = born
      BY <2>1 DEF Pop, Repush, MarkDone
    <3>2. PICK place \in {"execute", "gone", "queued"} : at' = [at EXCEPT ![o] = place]
      BY <2>1 DEF Pop, Repush, MarkDone, Push
    <3>3. obj' = [obj EXCEPT ![o] = t]
      BY <3>1 DEF IInv, TypeOK
    <3> HIDE DEF t
    <3>4. QED
      BY <1>1, <3>1, <3>2, <3>3
  <2>2. CASE MarkFailed(o)
    <3> DEFINE again == t.retries + 1 <= MaxRetries
               new == [t EXCEPT !.retries = @ + 1, !.status = IF again THEN "queued" ELSE @]
               place == IF again THEN "repush" ELSE "gone"
    <3>1. obj' = [obj EXCEPT ![o] = new] /\ at' = [at EXCEPT ![o] = place] /\ born' = born
      BY <2>2 DEF MarkFailed, IInv, TypeOK
    <3>2. Sound(new)
      <4>1. [t EXCEPT !.retries = t.retries + 1] \in Fields
        BY <1>1 DEF Sound, Fields
      <4>2. Sound([t EXCEPT !.retries = t.retries + 1])
        BY <1>1, <4>1 DEF Sound, Fields
      <4>3. new = [t EXCEPT !.retries = t.retries + 1]
              \/ new = [[t EXCEPT !.retries = t.retries + 1] EXCEPT !.status = "queued"]
        BY <1>1 DEF Sound, Fields
      <4>4. QED
        BY <4>2, <4>3, StatusSound DEF Statuses
    <3>3. place \in {"repush", "gone"}
      OBVIOUS
    <3> HIDE DEF new, place
    <3>4. QED
      BY <3>1, <3>2, <3>3
  <2>3. QED
    BY <2>1, <2>2
<1>5. PICK new, place :
         /\ Sound(new) /\ place \in {"execute", "repush", "gone", "queued"}
         /\ obj' = [obj EXCEPT ![o] = new] /\ at' = [at EXCEPT ![o] = place] /\ born' = born
  BY <1>4
<1>6. Fits(place, new) /\ place \in Places
  BY <1>5 DEF Fits, Places
<1>7. QED
  BY <1>3, <1>5, <1>6, PlacedInv

\* A copy of a sound row, put in the queue or dropped.
LEMMA LoadInv ==
  ASSUME IInv, Sound(row), UNCHANGED row,
         NEW places \in [Objects -> Places],
         \A x \in Objects : Fits(places[x], obj[x]),
         NEW o \in Objects, obj' = [obj EXCEPT ![o] = row],
         NEW place \in {"queued", "gone"}, at' = [places EXCEPT ![o] = place], born' \in Nat
  PROVE  IInv'
<1>1. row \in Fields /\ place \in Places
  BY DEF Sound, Places
<1>2. TypeOK'
  <2>1. obj' \in [Objects -> Fields]
    BY <1>1 DEF IInv, TypeOK
  <2>2. at' \in [Objects -> Places]
    BY <1>1
  <2>3. QED
    BY <2>1, <2>2 DEF TypeOK
<1>3. RowSound'
  BY DEF RowSound, Sound
<1>4. \A x \in Objects : Sound(obj'[x]) /\ Fits(at'[x], obj'[x])
  <2> TAKE x \in Objects
  <2>1. CASE x = o
    BY <2>1 DEF IInv, TypeOK, Fits
  <2>2. CASE x # o
    BY <2>2 DEF IInv, TypeOK
  <2>3. QED
    BY <2>1, <2>2
<1>5. QED
  BY <1>2, <1>3, <1>4 DEF IInv, Sound, Fits

LEMMA OthersInv ==
  ASSUME IInv, Submit \/ ResumeTask \/ Restart \/ (\E s \in PatchTo : Patch(s))
  PROVE  IInv'
<1>1. CASE Submit
  <2>1. Sound(Fresh)
    BY DEF Sound, Fields, Fresh, Unasked, Phases, Statuses
  <2>2. Sound(row)' /\ born' \in Nat /\ obj' = obj
    BY <1>1, <2>1 DEF Submit, Sound
  <2>3. PICK place \in {"queued", "gone"} : at' = [at EXCEPT ![1] = place]
    BY <1>1 DEF Submit, Push
  <2>4. at' \in [Objects -> Places] /\ \A x \in Objects : Fits(at'[x], obj[x])
    BY <2>3 DEF IInv, TypeOK, Places, Fits
  <2>5. QED
    BY <2>2, <2>4 DEF IInv, TypeOK, RowSound, Sound, Fits
<1>2. CASE ResumeTask
  <2>1. Sound(row) /\ UNCHANGED row
    BY <1>2 DEF ResumeTask, IInv, RowSound
  <2>2. born + 1 \in Objects /\ born' \in Nat
    BY <1>2, PhasesAssumption DEF ResumeTask, Load, IInv, TypeOK, Objects
  <2>3. PICK place \in {"queued", "gone"} : at' = [at EXCEPT ![born + 1] = place]
    BY <1>2 DEF ResumeTask, Load, Push
  <2>4. obj' = [obj EXCEPT ![born + 1] = row]
    BY <1>2 DEF ResumeTask, Load, ScanTask
  <2>5. at \in [Objects -> Places] /\ \A x \in Objects : Fits(at[x], obj[x])
    BY DEF IInv, TypeOK
  <2> DEFINE b == born + 1
  <2>6. b \in Objects /\ obj' = [obj EXCEPT ![b] = row]
    BY <2>2, <2>4
  <2>7. at' = [at EXCEPT ![b] = place]
    BY <2>3
  <2> HIDE DEF b
  <2>8. QED
    BY <2>1, <2>2, <2>5, <2>6, <2>7, LoadInv
<1>3. CASE Restart
  <2> DEFINE nowhere == [o \in Objects |-> "free"]
  <2>1. nowhere \in [Objects -> Places] /\ \A x \in Objects : Fits(nowhere[x], obj[x])
    BY DEF Places, Fits
  <2>2. CASE Suspended
    <3>1. Sound(row) /\ UNCHANGED row
      BY <1>3, <2>2 DEF Restart, Suspended, IInv, RowSound
    <3>2. /\ at' = [nowhere EXCEPT ![1] = "queued"]
          /\ obj' = [obj EXCEPT ![1] = row] /\ born' \in Nat
      BY <1>3, <2>2 DEF Restart, ScanTask
    <3>3. 1 \in Objects
      BY PhasesAssumption DEF Objects
    <3> HIDE DEF nowhere
    <3>4. QED
      BY <2>1, <3>1, <3>2, <3>3, LoadInv
  <2>3. CASE ~Suspended
    <3>1. at' = nowhere /\ obj' = obj /\ born' \in Nat /\ row' = row
      BY <1>3, <2>3 DEF Restart
    <3>2. RowSound'
      BY <3>1 DEF IInv, RowSound, Sound
    <3> HIDE DEF nowhere
    <3>3. QED
      BY <2>1, <3>1, <3>2 DEF IInv, TypeOK, Sound, Fits
  <2>4. QED
    BY <2>2, <2>3
<1>4. CASE \E s \in PatchTo : Patch(s)
  <2>1. PICK s \in Statuses : row # NoRow /\ row' = [row EXCEPT !.status = s]
    BY <1>4, PhasesAssumption DEF Patch, Statuses
  <2>2. UNCHANGED <<obj, at, born>>
    BY <1>4 DEF Patch
  <2>3. Sound(row')
    BY <2>1, StatusSound DEF IInv, RowSound
  <2>4. QED
    BY <2>2, <2>3 DEF IInv, TypeOK, RowSound, Sound, Fits
<1>5. QED
  BY <1>1, <1>2, <1>3, <1>4

LEMMA NextInv == IInv /\ [Next]_vars => IInv'
<1> SUFFICES ASSUME IInv, [Next]_vars PROVE IInv'
  OBVIOUS
<1>1. CASE Next
  BY <1>1, PhasesInv, AroundInv, QueueInv, OthersInv DEF Next, RunStep
<1>2. CASE UNCHANGED vars
  BY <1>2 DEF vars, bounds, IInv, TypeOK, RowSound, Sound, Fits
<1>3. QED
  BY <1>1, <1>2

LEMMA Invariant == Spec => []IInv
<1>1. QED
  BY InitInv, NextInv, PTL DEF Spec

-----------------------------------------------------------------------------
\* An agent implements, accounts for and concludes only what has an approved
\* plan and no open question, also with a second object or one loaded from the
\* row after a failure, a suspension or a restart.
THEOREM OnlyReviewedWork == Spec => []ReviewedWork
<1>1. IInv => ReviewedWork
  BY DEF IInv, Fits, Sound, ReviewedWork, Open
<1>2. QED
  BY <1>1, Invariant, PTL

\* The row stays sound, so that whatever is loaded from it is: only a task in its
\* clarify phase has open questions, and only one with an approved plan is in a
\* later phase than plan.
THEOREM RowStaysSound == Spec => [](row # NoRow => Sound(row))
<1>1. IInv => (row # NoRow => Sound(row))
  BY DEF IInv, RowSound
<1>2. QED
  BY <1>1, Invariant, PTL
-----------------------------------------------------------------------------
(* What the row owes the object *)

RunPlaces == {"understand", "clarify", "asking", "plan", "review", "implement",
              "account", "conclude", "error"}

\* A worker has the object.
Busy(place) == place \notin {"free", "queued", "gone"}

Counters == faults \in Nat /\ patches \in Nat

\* The objects made are those that are somewhere, and the first is made as it
\* is written.
Made ==
    /\ \A o \in Objects : at[o] = "free" <=> o > born
    /\ row = NoRow => \A o \in Objects : obj[o] = Fresh

Exclusive == \A o, x \in Objects : Busy(at[o]) /\ Busy(at[x]) => o = x

\* What a run has written by its places, if nothing else wrote.
Paid ==
    faults = 0 /\ patches = 0 =>
        /\ row # NoRow /\ row.status = "done" => row.tokens = 1
        /\ \A o \in Objects : at[o] = "conclude" => row.tokens = 1
        /\ \A o \in Objects : at[o] \in RunPlaces => obj[o].status = "running"

\* The only object and the row agree at every place.
Agrees ==
    born = 1 /\ faults = 0 /\ patches = 0 =>
        Columns(row) = Columns(obj[1]) /\ obj[1].status \in {row.status, "queued"}

\* Of the only object: the answers of the row are its answers, and it has been
\* redirected as often, or too often.
Ahead ==
    \A o \in Objects : born <= 1 /\ at[o] \notin {"free", "gone", "returned"} =>
        /\ \A q \in Questions : row.questions[q] = "answered" => obj[o].questions[q] = "answered"
        /\ obj[o].redirects = row.redirects \/ obj[o].redirects >= MaxRedirects

KInv == IInv /\ Counters /\ Made /\ Exclusive /\ Paid /\ Agrees /\ Ahead

-----------------------------------------------------------------------------
(* The shapes of the steps of one object: o becomes new and moves to place *)

Moves(o, new, place) ==
    /\ place # "free"
    /\ (at[o] = "queued" /\ ~Working) \/ Busy(at[o])
    /\ obj' = [obj EXCEPT ![o] = new] /\ at' = [at EXCEPT ![o] = place] /\ born' = born
    /\ patches' = patches

\* A statement of the store that writes the row, or fails and is counted.
Writes(fields) ==
    \/ row' = fields /\ faults' = faults
    \/ row' = row /\ faults' = faults + 1

\* The answers and the redirects stay, or the plan is sent back below the limit.
Carries(f, new) ==
    /\ \A q \in Questions : f.questions[q] = "answered" => new.questions[q] = "answered"
    /\ new.redirects = f.redirects \/ new.redirects >= MaxRedirects

SentBack(f, new, place) ==
    /\ place = "returned" /\ new.phase = "understand"
    /\ new.redirects = f.redirects + 1 /\ new.redirects < MaxRedirects

Saving(o, new, place) ==
    /\ at[o] \in RunPlaces \ {"account", "conclude"}
    /\ place \in (RunPlaces \ {"conclude"}) \cup {"returned"}
    /\ new.status = obj[o].status
    /\ Carries(obj[o], new) \/ (at[o] = "review" /\ SentBack(obj[o], new, place))
    /\ Writes(new)

Beginning(o, new, place) ==
    /\ at[o] = "execute" /\ place \in (RunPlaces \ {"conclude"}) \cup {"failed"}
    /\ new = [obj[o] EXCEPT !.status = "running"]
    /\ Writes(new)

Counting(o, new, place) ==
    /\ at[o] = "account" /\ place = "conclude" /\ new = obj[o]
    /\ Writes([row EXCEPT !.tokens = 1])

Ending(o, new, place) ==
    /\ place \in {"returned", "failed"}
    /\ \E s \in {"done", "failed"} :
          /\ at[o] = (IF s = "done" THEN "conclude" ELSE "error")
          /\ new = [obj[o] EXCEPT !.status = s]
          /\ Writes([row EXCEPT !.status = s])

\* Nothing is written: errors, the queue.
Passing(o, new, place) ==
    /\ row' = row /\ faults' = faults
    /\ Columns(new) = Columns(obj[o])
    /\ new.status \in {obj[o].status, "queued"}
    /\ place \in RunPlaces =>
          at[o] \in RunPlaces /\ place # "conclude" /\ new.status = obj[o].status
    /\ at[o] = "returned" => place = "gone"

Shape(o, new, place) ==
    /\ Moves(o, new, place)
    /\ \/ Saving(o, new, place) \/ Beginning(o, new, place) \/ Counting(o, new, place)
       \/ Ending(o, new, place) \/ Passing(o, new, place)

LEMMA SavingShape ==
  ASSUME IInv, NEW o \in Objects, NEW new, NEW place,
         Step(o, new, place), Save(new),
         at[o] \in RunPlaces \ {"account", "conclude"},
         place \in (RunPlaces \ {"conclude"}) \cup {"returned"},
         new.status = obj[o].status,
         Carries(obj[o], new) \/ (at[o] = "review" /\ SentBack(obj[o], new, place))
  PROVE  Shape(o, new, place)
<1>1. Moves(o, new, place)
  BY DEF Step, Moves, Busy, RunPlaces
<1>2. Writes(new)
  BY DEF Save, Writes
<1>3. QED
  BY <1>1, <1>2 DEF Shape, Saving

LEMMA PhasesShape ==
  ASSUME IInv, NEW o \in Objects,
         \/ Understand(o) \/ Resolve(o) \/ HumanAnswers(o) \/ Clarified(o)
         \/ Plan(o) \/ Approve(o) \/ Redirect(o) \/ Implement(o)
  PROVE  \E new, place : Shape(o, new, place)
<1> DEFINE t == obj[o]
<1>1. Sound(t) /\ Fits(at[o], t)
  BY DEF IInv
<1>2. t \in Fields /\ t.questions \in [Questions -> {"none", "open", "answered"}] /\ t.redirects \in Nat
  BY <1>1 DEF Sound, Fields
<1>3. CASE Understand(o)
  <2>1. PICK raised \in SUBSET Questions :
          LET next == IF raised = {} THEN "plan" ELSE "clarify"
              new == [t EXCEPT !.phase = next,
                        !.questions = [q \in Questions |-> IF q \in raised THEN "open" ELSE t.questions[q]]]
          IN Step(o, new, next) /\ Save(new)
    BY <1>3 DEF Understand
  <2> DEFINE next == IF raised = {} THEN "plan" ELSE "clarify"
             qs == [q \in Questions |-> IF q \in raised THEN "open" ELSE t.questions[q]]
             new == [t EXCEPT !.phase = next, !.questions = qs]
  <2>2. Step(o, new, next) /\ Save(new)
    BY <2>1
  <2>3. at[o] = "understand" /\ next \in {"plan", "clarify"}
    BY <1>3 DEF Understand
  <2>4. \A q \in Questions : t.questions[q] # "answered"
    BY <1>1, <2>3 DEF Fits, Sound
  <2> HIDE DEF t, next, qs
  <2>5. new.status = t.status /\ Carries(t, new)
    BY <1>2, <2>4 DEF Carries, Fields
  <2> HIDE DEF new
  <2>6. Shape(o, new, next)
    BY <2>2, <2>3, <2>5, SavingShape DEF RunPlaces, t
  <2>7. QED
    BY <2>6
<1>4. CASE Resolve(o) \/ HumanAnswers(o)
  <2>1. at[o] \in {"clarify", "asking"}
    BY <1>4 DEF Resolve, HumanAnswers
  <2>2. PICK q \in Questions : Answered(o, q)
    BY <1>4 DEF Resolve, HumanAnswers, Open
  <2> DEFINE new == [t EXCEPT !.questions[q] = "answered"]
  <2>3. Step(o, new, "clarify") /\ Save(new)
    BY <2>2 DEF Answered
  <2> HIDE DEF t
  <2>4. new.status = t.status /\ Carries(t, new)
    BY <1>2 DEF Carries, Fields
  <2> HIDE DEF new
  <2>5. Shape(o, new, "clarify")
    BY <2>1, <2>3, <2>4, SavingShape DEF RunPlaces, t
  <2>6. QED
    BY <2>5
<1>5. CASE Clarified(o)
  <2> DEFINE new == [t EXCEPT !.phase = "plan"]
  <2>1. Step(o, new, "plan") /\ Save(new) /\ at[o] = "clarify"
    BY <1>5 DEF Clarified
  <2> HIDE DEF t
  <2>2. new.status = t.status /\ Carries(t, new)
    BY <1>2 DEF Carries, Fields
  <2> HIDE DEF new
  <2>3. Shape(o, new, "plan")
    BY <2>1, <2>2, SavingShape DEF RunPlaces, t
  <2>4. QED
    BY <2>3
<1>6. CASE Plan(o)
  <2> DEFINE new == [t EXCEPT !.plan = TRUE]
  <2>1. Step(o, new, "review") /\ Save(new) /\ at[o] = "plan"
    BY <1>6 DEF Plan
  <2> HIDE DEF t
  <2>2. new.status = t.status /\ Carries(t, new)
    BY <1>2 DEF Carries, Fields
  <2> HIDE DEF new
  <2>3. Shape(o, new, "review")
    BY <2>1, <2>2, SavingShape DEF RunPlaces, t
  <2>4. QED
    BY <2>3
<1>7. CASE Approve(o)
  <2> DEFINE new == [t EXCEPT !.approved = TRUE, !.phase = "implement"]
  <2>1. Step(o, new, "implement") /\ Save(new) /\ at[o] = "review"
    BY <1>7 DEF Approve
  <2> HIDE DEF t
  <2>2. new.status = t.status /\ Carries(t, new)
    BY <1>2 DEF Carries, Fields
  <2> HIDE DEF new
  <2>3. Shape(o, new, "implement")
    BY <2>1, <2>2, SavingShape DEF RunPlaces, t
  <2>4. QED
    BY <2>3
<1>8. CASE Redirect(o)
  <2> DEFINE count == t.redirects + 1
             again == count < MaxRedirects
             new == IF again THEN [t EXCEPT !.redirects = count, !.phase = "understand",
                                            !.questions = Unasked, !.plan = FALSE]
                             ELSE [t EXCEPT !.redirects = count]
             place == IF again THEN "returned" ELSE "error"
  <2>1. Step(o, new, place) /\ Save(new) /\ at[o] = "review"
    BY <1>8 DEF Redirect
  <2>2. place \in {"returned", "error"}
    OBVIOUS
  <2>3. new.status = t.status /\ (Carries(t, new) \/ SentBack(t, new, place))
    <3> HIDE DEF t
    <3>1. CASE again
      BY <1>2, <3>1 DEF SentBack, Fields
    <3>2. CASE ~again
      BY <1>2, <3>2, PhasesAssumption DEF Carries, Fields
    <3>3. QED
      BY <3>1, <3>2
  <2> HIDE DEF t, new, place
  <2>4. Shape(o, new, place)
    BY <2>1, <2>2, <2>3, SavingShape DEF RunPlaces, t
  <2>5. QED
    BY <2>4
<1>9. CASE Implement(o)
  <2> DEFINE new == [t EXCEPT !.phase = "done"]
  <2>1. Step(o, new, "account") /\ Save(new) /\ at[o] = "implement"
    BY <1>9 DEF Implement
  <2> HIDE DEF t
  <2>2. new.status = t.status /\ Carries(t, new)
    BY <1>2 DEF Carries, Fields
  <2> HIDE DEF new
  <2>3. Shape(o, new, "account")
    BY <2>1, <2>2, SavingShape DEF RunPlaces, t
  <2>4. QED
    BY <2>3
<1>10. QED
  BY <1>3, <1>4, <1>5, <1>6, <1>7, <1>8, <1>9

LEMMA AroundShape ==
  ASSUME IInv, NEW o \in Objects,
         \/ Refuse(o) \/ Execute(o) \/ UnderstandFails(o) \/ AskHuman(o) \/ ClarifyFails(o)
         \/ PlanFails(o) \/ ImplementFails(o) \/ Account(o) \/ Conclude(o) \/ Fail(o)
  PROVE  \E new, place : Shape(o, new, place)
<1> DEFINE t == obj[o]
<1>1. t \in Fields
  BY DEF IInv, Sound
<1>2. CASE Refuse(o) \/ UnderstandFails(o) \/ AskHuman(o) \/ ClarifyFails(o) \/ PlanFails(o)
           \/ ImplementFails(o)
  <2>1. PICK place \in {"failed", "error", "asking"} :
          /\ Step(o, t, place) /\ UNCHANGED <<row, faults>>
          /\ \/ place = "failed" /\ at[o] = "execute"
             \/ at[o] \in {"understand", "clarify", "asking", "plan", "review", "implement"}
    BY <1>2 DEF Refuse, UnderstandFails, AskHuman, ClarifyFails, PlanFails, ImplementFails, Error
  <2> HIDE DEF t
  <2>2. Moves(o, t, place)
    BY <2>1 DEF Step, Moves, Busy
  <2>3. Passing(o, t, place)
    BY <2>1 DEF Passing, RunPlaces, t
  <2>4. QED
    BY <2>2, <2>3 DEF Shape
<1>3. CASE Execute(o)
  <2> DEFINE running == [t EXCEPT !.status = "running"]
  <2>1. running.phase = t.phase /\ t.phase \in Phases
    BY <1>1 DEF Fields
  <2>2. PICK place \in {Entry(running.phase), "failed"} :
          Step(o, running, place) /\ Writes(running) /\ at[o] = "execute"
    BY <1>3 DEF Execute, Writes
  <2>3. place \in (RunPlaces \ {"conclude"}) \cup {"failed"}
    BY <2>1, <2>2 DEF Entry, Phases, RunPlaces
  <2>4. Beginning(o, running, place)
    BY <2>2, <2>3 DEF Beginning
  <2> HIDE DEF running, t
  <2>5. Moves(o, running, place)
    BY <2>2, <2>3 DEF Step, Moves, Busy, RunPlaces
  <2>6. QED
    BY <2>4, <2>5 DEF Shape
<1>4. CASE Account(o)
  <2>1. Step(o, t, "conclude") /\ at[o] = "account" /\ Writes([row EXCEPT !.tokens = 1])
    BY <1>4 DEF Account, Writes
  <2>2. Counting(o, t, "conclude")
    BY <2>1 DEF Counting
  <2> HIDE DEF t
  <2>3. Moves(o, t, "conclude")
    BY <2>1 DEF Step, Moves, Busy
  <2>4. QED
    BY <2>2, <2>3 DEF Shape
<1>5. CASE Conclude(o) \/ Fail(o)
  <2>1. PICK s \in {"done", "failed"}, place \in {"returned", "failed"} :
          /\ at[o] = (IF s = "done" THEN "conclude" ELSE "error")
          /\ obj' = [obj EXCEPT ![o] = [t EXCEPT !.status = s]]
          /\ at' = [at EXCEPT ![o] = place]
          /\ born' = born /\ patches' = patches /\ Writes([row EXCEPT !.status = s])
    BY <1>5 DEF Conclude, Fail, Step, SetStatus, Writes
  <2> DEFINE new == [t EXCEPT !.status = s]
  <2>2. Ending(o, new, place)
    BY <2>1 DEF Ending
  <2>3. obj' = [obj EXCEPT ![o] = new]
    BY <2>1
  <2> HIDE DEF new, t
  <2>4. Moves(o, new, place)
    BY <2>1, <2>3 DEF Moves, Busy
  <2>5. QED
    BY <2>2, <2>4 DEF Shape
<1>6. QED
  BY <1>2, <1>3, <1>4, <1>5

LEMMA QueueShape ==
  ASSUME IInv, NEW o \in Objects,
         Pop(o) \/ MarkFailed(o) \/ Repush(o) \/ MarkDone(o)
  PROVE  \E new, place : Shape(o, new, place)
<1> DEFINE t == obj[o]
<1>1. t \in Fields
  BY DEF IInv, Sound
<1>2. CASE Pop(o) \/ Repush(o) \/ MarkDone(o)
  <2>1. obj' = obj /\ UNCHANGED <<born, row, faults, patches>>
    BY <1>2 DEF Pop, Repush, MarkDone, bounds
  <2>2. PICK place \in {"execute", "gone", "queued"} :
          /\ at' = [at EXCEPT ![o] = place]
          /\ \/ at[o] = "queued" /\ ~Working
             \/ at[o] = "repush"
             \/ at[o] = "returned" /\ place = "gone"
    BY <1>2 DEF Pop, Repush, MarkDone, Push
  <2>3. obj' = [obj EXCEPT ![o] = t]
    BY <2>1 DEF IInv, TypeOK
  <2> HIDE DEF t
  <2>4. Moves(o, t, place)
    BY <2>1, <2>2, <2>3 DEF Moves, Busy
  <2>5. Passing(o, t, place)
    BY <2>1, <2>2 DEF Passing, RunPlaces, t
  <2>6. QED
    BY <2>4, <2>5 DEF Shape
<1>3. CASE MarkFailed(o)
  <2> DEFINE again == t.retries + 1 <= MaxRetries
             new == [t EXCEPT !.retries = @ + 1, !.status = IF again THEN "queued" ELSE @]
             place == IF again THEN "repush" ELSE "gone"
  <2>1. obj' = [obj EXCEPT ![o] = new] /\ at' = [at EXCEPT ![o] = place] /\ at[o] = "failed"
    BY <1>3 DEF MarkFailed, IInv, TypeOK
  <2>2. UNCHANGED <<born, row, faults, patches>>
    BY <1>3 DEF MarkFailed, bounds
  <2>3. place \in {"repush", "gone"}
    OBVIOUS
  <2>4. Columns(new) = Columns(t) /\ new.status \in {t.status, "queued"}
    <3> HIDE DEF t, again
    <3>1. QED
      BY <1>1 DEF Columns, Fields
  <2> HIDE DEF new, place, t
  <2>5. Moves(o, new, place)
    BY <2>1, <2>2, <2>3 DEF Moves, Busy
  <2>6. Passing(o, new, place)
    BY <2>1, <2>2, <2>3, <2>4 DEF Passing, RunPlaces, t
  <2>7. QED
    BY <2>5, <2>6 DEF Shape
<1>4. QED
  BY <1>2, <1>3

LEMMA RunShape ==
  ASSUME IInv, NEW o \in Objects, Pop(o) \/ RunStep(o)
  PROVE  \E new, place : Shape(o, new, place)
  BY PhasesShape, AroundShape, QueueShape DEF RunStep

-----------------------------------------------------------------------------
(* A step of one object keeps the rest of the invariant *)

\* Where o and the others are afterwards.
LEMMA After ==
  ASSUME IInv, NEW o \in Objects, NEW new, NEW place, Shape(o, new, place)
  PROVE  /\ obj'[o] = new /\ at'[o] = place
         /\ \A x \in Objects : x # o => obj'[x] = obj[x] /\ at'[x] = at[x]
  BY DEF IInv, TypeOK, Shape, Moves

\* Only o is with a worker, before and after.
LEMMA Alone ==
  ASSUME IInv, Exclusive, NEW o \in Objects, NEW new, NEW place, Shape(o, new, place),
         NEW x \in Objects, x # o
  PROVE  ~Busy(at[x])
  BY DEF Shape, Moves, Working, Busy, Exclusive

\* Whoever is somewhere has a row, and it is not NoRow.
LEMMA RowIs ==
  ASSUME NEW f, Sound(f)
  PROVE  f # NoRow /\ f \in Fields
<1>1. f \in Fields
  BY DEF Sound
<1>2. "none" \in DOMAIN NoRow
  BY DEF NoRow
<1>3. "none" \notin DOMAIN f
  BY <1>1 DEF Fields
<1>4. QED
  BY <1>1, <1>2, <1>3

LEMMA ShapeBasics ==
  ASSUME IInv, Counters, Made, Exclusive,
         NEW o \in Objects, NEW new, NEW place, Shape(o, new, place)
  PROVE  /\ Counters' /\ Exclusive'
         /\ \A x \in Objects : at'[x] = "free" <=> x > born'
<1>1. Counters'
  BY DEF Counters, Shape, Moves, Saving, Beginning, Counting, Ending, Passing, Writes
<1>2. Exclusive'
  <2> SUFFICES ASSUME NEW x \in Objects, NEW y \in Objects, Busy(at'[x]), Busy(at'[y])
               PROVE  x = y
    BY DEF Exclusive
  <2>1. x = o /\ y = o
    BY After, Alone
  <2>2. QED
    BY <2>1
<1>3. \A x \in Objects : at'[x] = "free" <=> x > born'
  <2> TAKE x \in Objects
  <2>1. born' = born /\ place # "free" /\ at[o] # "free"
    BY DEF Shape, Moves, Busy
  <2>2. QED
    BY <2>1, After DEF Made
<1>4. QED
  BY <1>1, <1>2, <1>3

\* Nothing failed up to here if nothing has afterwards, and nothing else wrote.
LEMMA ShapeWrites ==
  ASSUME Counters, faults' = 0, NEW fields, Writes(fields)
  PROVE  row' = fields /\ faults = 0
  BY DEF Writes, Counters

LEMMA ShapePaid ==
  ASSUME IInv, IInv', Counters, Exclusive, Paid,
         NEW o \in Objects, NEW new, NEW place, Shape(o, new, place)
  PROVE  Paid'
<1> SUFFICES ASSUME faults' = 0, patches' = 0
             PROVE  /\ row' # NoRow /\ row'.status = "done" => row'.tokens = 1
                    /\ \A x \in Objects : at'[x] = "conclude" => row'.tokens = 1
                    /\ \A x \in Objects : at'[x] \in RunPlaces => obj'[x].status = "running"
  BY DEF Paid
<1> DEFINE t == obj[o]
<1>1. patches = 0 /\ obj'[o] = new /\ at'[o] = place
  BY After DEF Shape, Moves
<1>2. \A x \in Objects : x # o => ~Busy(at'[x])
  BY After, Alone
<1>3. \A x \in Objects : x # o => at'[x] # "conclude" /\ at'[x] \notin RunPlaces
  BY <1>2 DEF Busy, RunPlaces
<1>4. Sound(row) /\ Sound(t) /\ row \in Fields /\ t \in Fields /\ row # NoRow
  <2>1. at[o] # "free"
    BY DEF Shape, Moves, Busy
  <2>2. QED
    BY <2>1, RowThere, RowIs DEF IInv
<1>5. SUFFICES /\ row'.status = "done" => row'.tokens = 1
               /\ place = "conclude" => row'.tokens = 1
               /\ place \in RunPlaces => new.status = "running"
  BY <1>1, <1>3
<1>6. faults = 0 =>
         /\ row.status = "done" => row.tokens = 1
         /\ at[o] = "conclude" => row.tokens = 1
         /\ at[o] \in RunPlaces => t.status = "running"
  BY <1>1, <1>4 DEF Paid
<1>7. CASE Saving(o, new, place)
  <2>1. row' = new /\ faults = 0 /\ place # "conclude" /\ new.status = t.status /\ at[o] \in RunPlaces
    BY <1>7, ShapeWrites DEF Saving, RunPlaces
  <2> HIDE DEF t
  <2>2. QED
    BY <1>6, <2>1
<1>8. CASE Beginning(o, new, place)
  <2>1. row' = new /\ faults = 0 /\ place # "conclude" /\ new = [t EXCEPT !.status = "running"]
    BY <1>8, ShapeWrites DEF Beginning, RunPlaces
  <2> HIDE DEF t
  <2>2. new.status = "running"
    BY <1>4, <2>1 DEF Fields
  <2>3. QED
    BY <2>1, <2>2
<1>9. CASE Counting(o, new, place)
  <2>1. row' = [row EXCEPT !.tokens = 1] /\ faults = 0 /\ new = t /\ at[o] \in RunPlaces
    BY <1>9, ShapeWrites DEF Counting, RunPlaces
  <2> HIDE DEF t
  <2>2. row'.tokens = 1
    BY <1>4, <2>1 DEF Fields
  <2>3. QED
    BY <1>6, <2>1, <2>2
<1>10. CASE Ending(o, new, place)
  <2>1. PICK s \in {"done", "failed"} :
          at[o] = (IF s = "done" THEN "conclude" ELSE "error") /\ Writes([row EXCEPT !.status = s])
    BY <1>10 DEF Ending
  <2>2. row' = [row EXCEPT !.status = s] /\ faults = 0 /\ place \notin RunPlaces
    BY <1>10, <2>1, ShapeWrites DEF Ending, RunPlaces
  <2>3. row'.status = s /\ row'.tokens = row.tokens
    BY <1>4, <2>2 DEF Fields
  <2>4. QED
    BY <1>6, <2>1, <2>2, <2>3 DEF RunPlaces
<1>11. CASE Passing(o, new, place)
  <2>1. row' = row /\ faults = 0
        /\ (place \in RunPlaces => at[o] \in RunPlaces /\ place # "conclude" /\ new.status = t.status)
    BY <1>11 DEF Passing
  <2>2. place = "conclude" => place \in RunPlaces
    BY DEF RunPlaces
  <2> HIDE DEF t
  <2>3. QED
    BY <1>6, <2>1, <2>2
<1>12. QED
  BY <1>7, <1>8, <1>9, <1>10, <1>11 DEF Shape

LEMMA ShapeAgrees ==
  ASSUME IInv, Counters, Made, Agrees,
         NEW o \in Objects, NEW new, NEW place, Shape(o, new, place)
  PROVE  Agrees'
<1> SUFFICES ASSUME born' = 1, faults' = 0, patches' = 0
             PROVE  Columns(row') = Columns(obj'[1]) /\ obj'[1].status \in {row'.status, "queued"}
  BY DEF Agrees, Columns
<1> DEFINE t == obj[o]
<1>1. born = 1 /\ patches = 0 /\ at[o] # "free" /\ obj'[o] = new
  BY After DEF Shape, Moves, Busy
<1>2. o = 1
  BY <1>1 DEF Made, Objects
<1>3. row \in Fields /\ t \in Fields
  BY <1>1, RowThere, RowIs DEF IInv
<1>4. SUFFICES Columns(row') = Columns(new) /\ new.status \in {row'.status, "queued"}
  BY <1>1, <1>2
<1>5. faults = 0 => Columns(row) = Columns(t) /\ t.status \in {row.status, "queued"}
  BY <1>1, <1>2 DEF Agrees
<1>6. CASE Saving(o, new, place) \/ Beginning(o, new, place)
  <2>1. row' = new
    BY <1>6, ShapeWrites DEF Saving, Beginning
  <2>2. QED
    BY <2>1
<1>7. CASE Counting(o, new, place)
  <2>1. row' = [row EXCEPT !.tokens = 1] /\ faults = 0 /\ new = t
    BY <1>7, ShapeWrites DEF Counting
  <2> HIDE DEF t
  <2>2. Columns(row') = Columns(row) /\ row'.status = row.status
    BY <1>3, <2>1 DEF Fields, Columns
  <2>3. QED
    BY <1>5, <2>1, <2>2
<1>8. CASE Ending(o, new, place)
  <2>1. PICK s \in {"done", "failed"} :
          new = [t EXCEPT !.status = s] /\ Writes([row EXCEPT !.status = s])
    BY <1>8 DEF Ending
  <2>2. row' = [row EXCEPT !.status = s] /\ faults = 0
    BY <2>1, ShapeWrites
  <2> HIDE DEF t
  <2>3. Columns(row') = Columns(row) /\ row'.status = s /\ Columns(new) = Columns(t) /\ new.status = s
    BY <1>3, <2>1, <2>2 DEF Fields, Columns
  <2>4. QED
    BY <1>5, <2>2, <2>3
<1>9. CASE Passing(o, new, place)
  <2>1. row' = row /\ faults = 0 /\ Columns(new) = Columns(t) /\ new.status \in {t.status, "queued"}
    BY <1>9 DEF Passing
  <2> HIDE DEF t
  <2>2. QED
    BY <1>5, <2>1
<1>10. QED
  BY <1>6, <1>7, <1>8, <1>9 DEF Shape

\* The step of the only object keeps the answers of the row, and what it has
\* itself if it goes on.
LEMMA ShapeAhead ==
  ASSUME IInv, Made, Ahead, born <= 1,
         NEW o \in Objects, NEW new, NEW place, Shape(o, new, place)
  PROVE  /\ \A q \in Questions : row.questions[q] = "answered" =>
               \/ row'.questions[q] = "answered"
               \/ row'.phase = "understand" /\ row'.redirects = row.redirects + 1
         /\ place \notin {"gone", "returned"} =>
               /\ \A q \in Questions : row'.questions[q] = "answered" => new.questions[q] = "answered"
               /\ new.redirects = row'.redirects \/ new.redirects >= MaxRedirects
<1> DEFINE t == obj[o]
<1>1. at[o] \notin {"free", "gone"}
  BY DEF Shape, Moves, Busy
<1>2. row \in Fields /\ t \in Fields
  BY <1>1, RowThere, RowIs DEF IInv, Sound
<1>3. at[o] # "returned" =>
         /\ \A q \in Questions : row.questions[q] = "answered" => t.questions[q] = "answered"
         /\ t.redirects = row.redirects \/ t.redirects >= MaxRedirects
  BY <1>1 DEF Ahead
<1>4. row.redirects \in Nat /\ t.redirects \in Nat /\ MaxRedirects \in Nat
  BY <1>2, PhasesAssumption DEF Fields
<1>5. CASE Saving(o, new, place)
  <2>1. at[o] # "returned" /\ (row' = new \/ row' = row)
    BY <1>5 DEF Saving, RunPlaces, Writes
  <2>2. CASE Carries(t, new)
    <3> HIDE DEF t
    <3>1. \A q \in Questions : row.questions[q] = "answered" => new.questions[q] = "answered"
      BY <1>3, <2>1, <2>2 DEF Carries
    <3>2. new.redirects = row.redirects \/ new.redirects >= MaxRedirects
      BY <1>3, <2>1, <2>2 DEF Carries
    <3>3. QED
      BY <2>1, <3>1, <3>2
  <2>3. CASE SentBack(t, new, place)
    <3> HIDE DEF t
    <3>1. place = "returned" /\ new.phase = "understand" /\ new.redirects = row.redirects + 1
      BY <1>3, <1>4, <2>1, <2>3 DEF SentBack
    <3>2. QED
      BY <2>1, <3>1
  <2>4. QED
    BY <1>5, <2>2, <2>3 DEF Saving
<1>6. CASE Beginning(o, new, place)
  <2>1. at[o] # "returned" /\ (row' = new \/ row' = row)
    BY <1>6 DEF Beginning, Writes
  <2>2. new = [t EXCEPT !.status = "running"]
    BY <1>6 DEF Beginning
  <2> HIDE DEF t
  <2>3. new.questions = t.questions /\ new.redirects = t.redirects
    BY <1>2, <2>2 DEF Fields
  <2>4. CASE row' = new
    BY <1>3, <2>1, <2>3, <2>4
  <2>5. CASE row' = row
    BY <1>3, <2>1, <2>3, <2>5
  <2>6. QED
    BY <2>1, <2>4, <2>5
<1>7. CASE Counting(o, new, place) \/ Ending(o, new, place)
  <2>1. /\ at[o] # "returned"
        /\ new = t \/ \E s \in {"done", "failed"} : new = [t EXCEPT !.status = s]
        /\ \/ row' = row \/ row' = [row EXCEPT !.tokens = 1]
           \/ \E s \in {"done", "failed"} : row' = [row EXCEPT !.status = s]
    BY <1>7 DEF Counting, Ending, Writes
  <2> HIDE DEF t
  <2>2. row'.questions = row.questions /\ row'.redirects = row.redirects
    BY <1>2, <2>1 DEF Fields
  <2>3. new.questions = t.questions /\ new.redirects = t.redirects
    BY <1>2, <2>1 DEF Fields
  <2>4. QED
    BY <1>3, <2>1, <2>2, <2>3
<1>8. CASE Passing(o, new, place)
  <2>1. row' = row /\ (at[o] = "returned" => place = "gone")
    BY <1>8 DEF Passing
  <2>2. new.questions = t.questions /\ new.redirects = t.redirects
    BY <1>8 DEF Passing, Columns
  <2>3. CASE at[o] = "returned"
    BY <2>1, <2>3
  <2>4. CASE at[o] # "returned"
    <3> HIDE DEF t
    <3>1. QED
      BY <1>3, <2>1, <2>2, <2>4
  <2>5. QED
    BY <2>3, <2>4
<1>9. QED
  BY <1>5, <1>6, <1>7, <1>8 DEF Shape

LEMMA RunKInv ==
  ASSUME KInv, NEW o \in Objects, Pop(o) \/ RunStep(o)
  PROVE  KInv'
<1>1. IInv /\ IInv'
  BY NextInv DEF KInv, Next
<1>2. PICK new, place : Shape(o, new, place)
  BY <1>1, RunShape
<1>3. Counters' /\ Exclusive' /\ \A x \in Objects : at'[x] = "free" <=> x > born'
  BY <1>1, <1>2, ShapeBasics DEF KInv
<1>4. Made'
  <2>1. at'[o] # "free"
    BY <1>1, <1>2, After DEF Shape, Moves
  <2>2. Sound(row)'
    BY <1>1, <2>1 DEF IInv, RowSound
  <2>3. Sound(row')
    BY <2>2 DEF Sound
  <2>4. row' # NoRow
    BY <2>3, RowIs
  <2>5. QED
    BY <1>3, <2>4 DEF Made
<1>5. Paid' /\ Agrees'
  BY <1>1, <1>2, ShapePaid, ShapeAgrees DEF KInv
<1>6. Ahead'
  <2> SUFFICES ASSUME NEW x \in Objects, born' <= 1, at'[x] \notin {"free", "gone", "returned"}
               PROVE  /\ \A q \in Questions : row'.questions[q] = "answered"
                                                => obj'[x].questions[q] = "answered"
                      /\ obj'[x].redirects = row'.redirects \/ obj'[x].redirects >= MaxRedirects
    BY DEF Ahead
  <2>1. obj'[o] = new /\ at'[o] = place
    BY <1>1, <1>2, After
  <2>2. born' = born /\ at[o] # "free"
    BY <1>2 DEF Shape, Moves, Busy
  <2>3. ~(o > born) /\ ~(x > born')
    BY <1>3, <2>2 DEF KInv, Made
  <2>4. x = o
    BY <1>1, <2>2, <2>3 DEF IInv, TypeOK, Objects
  <2>5. QED
    BY <1>1, <1>2, <2>1, <2>2, <2>4, ShapeAhead DEF KInv
<1>7. QED
  BY <1>1, <1>3, <1>4, <1>5, <1>6 DEF KInv

-----------------------------------------------------------------------------
(* The other steps *)

LEMMA InitKInv == Init => KInv
<1> SUFFICES ASSUME Init PROVE KInv
  OBVIOUS
<1>1. Counters /\ Exclusive /\ Made
  BY DEF Init, Counters, Exclusive, Busy, Made, Objects
<1>2. Paid /\ Agrees /\ Ahead
  BY DEF Init, Paid, Agrees, Ahead, RunPlaces
<1>3. QED
  BY <1>1, <1>2, InitInv DEF KInv

\* An object put into the queue, or dropped by it, that is the row.
LEMMA LoadKInv ==
  ASSUME IInv', Counters, UNCHANGED <<row, faults, patches>>, Sound(row), Paid,
         NEW places \in [Objects -> Places],
         NEW o \in Objects, obj' = [obj EXCEPT ![o] = row], obj \in [Objects -> Fields],
         NEW place \in {"queued", "gone"}, at' = [places EXCEPT ![o] = place], born' = o,
         \A x \in Objects : x # o => (places[x] = "free" <=> x > o),
         \A x \in Objects : places[x] \in {"free", at[x]},
         \A x, y \in Objects : Busy(places[x]) /\ Busy(places[y]) => x = y,
         \A x \in Objects : x # o => places[x] = "free" \/ o > 1
  PROVE  KInv'
<1>1. obj'[o] = row /\ at'[o] = place /\ ~Busy(place) /\ place \notin RunPlaces /\ place # "free"
  BY DEF Busy, RunPlaces
<1>2. \A x \in Objects : x # o => obj'[x] = obj[x] /\ at'[x] = places[x]
  OBVIOUS
<1>3. Counters'
  BY DEF Counters
<1>4. Exclusive'
  BY <1>1, <1>2 DEF Exclusive
<1>5. Made'
  BY <1>1, <1>2, RowIs DEF Made, Objects
<1>6. Paid'
  <2> SUFFICES ASSUME faults = 0, patches = 0
               PROVE  /\ row # NoRow /\ row.status = "done" => row.tokens = 1
                      /\ \A x \in Objects : at'[x] = "conclude" => row.tokens = 1
                      /\ \A x \in Objects : at'[x] \in RunPlaces => obj'[x].status = "running"
    BY DEF Paid
  <2>1. \A x \in Objects : at'[x] \in RunPlaces => x # o /\ at[x] = at'[x]
    BY <1>1, <1>2 DEF RunPlaces
  <2>2. \A x \in Objects : at'[x] = "conclude" => at'[x] \in RunPlaces
    BY DEF RunPlaces
  <2>3. QED
    BY <1>2, <2>1, <2>2 DEF Paid
<1>7. Agrees'
  <2> SUFFICES ASSUME born' = 1
               PROVE  Columns(row) = Columns(obj'[1]) /\ obj'[1].status \in {row.status, "queued"}
    BY DEF Agrees, Columns
  <2>1. QED
    BY <1>1
<1>8. Ahead'
  <2> SUFFICES ASSUME NEW x \in Objects, born' <= 1, at'[x] \notin {"free", "gone", "returned"}
               PROVE  /\ \A q \in Questions : row.questions[q] = "answered"
                                                => obj'[x].questions[q] = "answered"
                      /\ obj'[x].redirects = row.redirects \/ obj'[x].redirects >= MaxRedirects
    BY DEF Ahead
  <2>1. x = o
    BY <1>2 DEF Objects
  <2>2. QED
    BY <1>1, <2>1
<1>9. QED
  BY <1>3, <1>4, <1>5, <1>6, <1>7, <1>8 DEF KInv

LEMMA SubmitKInv ==
  ASSUME KInv, Submit
  PROVE  KInv'
<1>1. IInv /\ IInv'
  BY NextInv DEF KInv, Next
<1>2. /\ row = NoRow /\ row' = Fresh /\ born = 0 /\ born' = 1 /\ obj' = obj
      /\ UNCHANGED <<faults, patches>>
  BY DEF Submit, bounds
<1>3. PICK place \in {"queued", "gone"} : at' = [at EXCEPT ![1] = place]
  BY DEF Submit, Push
<1>4. /\ \A x \in Objects : obj'[x] = Fresh /\ at[x] = "free"
      /\ 1 \in Objects
  BY <1>2, PhasesAssumption DEF KInv, Made, Objects
<1>5. /\ at'[1] = place
      /\ \A x \in Objects : x # 1 => at'[x] = "free"
  BY <1>1, <1>3, <1>4 DEF IInv, TypeOK
<1>6. Counters' /\ Exclusive'
  BY <1>2, <1>5 DEF KInv, Counters, Exclusive, Busy
<1>7. Sound(Fresh) /\ Fresh.status = "queued"
  <2>1. Sound(Fresh)
    BY <1>1, <1>4 DEF IInv, Sound
  <2>2. QED
    BY <2>1 DEF Fresh
<1>8. Made'
  BY <1>2, <1>5, <1>7, RowIs DEF Made, Objects
<1>9. Paid'
  BY <1>2, <1>5, <1>7 DEF Paid, RunPlaces
<1>10. Agrees'
  BY <1>2, <1>4, <1>7 DEF Agrees, Columns
<1>11. Ahead'
  BY <1>2, <1>4, <1>5 DEF Ahead
<1>12. QED
  BY <1>1, <1>6, <1>8, <1>9, <1>10, <1>11 DEF KInv

LEMMA ResumeKInv ==
  ASSUME KInv, ResumeTask
  PROVE  KInv'
<1>1. IInv /\ IInv'
  BY NextInv DEF KInv, Next
<1> DEFINE b == born + 1
<1>2. b \in Objects
  BY <1>1, PhasesAssumption DEF ResumeTask, IInv, TypeOK, Objects
<1>3. Sound(row) /\ UNCHANGED <<row, faults, patches>>
  BY <1>1 DEF ResumeTask, IInv, RowSound, bounds
<1>4. PICK place \in {"queued", "gone"} : at' = [at EXCEPT ![b] = place]
  BY DEF ResumeTask, Load, Push
<1>5. obj' = [obj EXCEPT ![b] = row] /\ born' = b
  BY DEF ResumeTask, Load, ScanTask
<1>6. \A x \in Objects : x # b => (at[x] = "free" <=> x > b)
  BY <1>1 DEF KInv, Made, Objects, IInv, TypeOK
<1>7. \A x \in Objects : x # b => at[x] = "free" \/ b > 1
  BY <1>1 DEF KInv, Made, Objects, IInv, TypeOK
<1>8. \A x, y \in Objects : Busy(at[x]) /\ Busy(at[y]) => x = y
  BY DEF KInv, Exclusive
<1>9. at \in [Objects -> Places] /\ obj \in [Objects -> Fields]
  BY <1>1 DEF IInv, TypeOK
<1>10. Counters /\ Paid /\ \A x \in Objects : at[x] \in {"free", at[x]}
  BY DEF KInv
<1> HIDE DEF b
<1>11. QED
  BY <1>1, <1>2, <1>3, <1>4, <1>5, <1>6, <1>7, <1>8, <1>9, <1>10, LoadKInv

LEMMA RestartKInv ==
  ASSUME KInv, Restart
  PROVE  KInv'
<1>1. IInv /\ IInv'
  BY NextInv DEF KInv, Next
<1> DEFINE nowhere == [o \in Objects |-> "free"]
<1>2. \A x \in Objects : nowhere[x] = "free"
  OBVIOUS
<1>3. UNCHANGED <<row, faults, patches>>
  BY DEF Restart
<1>4. CASE Suspended
  <2>1. Sound(row)
    BY <1>1, <1>4 DEF Suspended, IInv, RowSound
  <2>2. 1 \in Objects /\ \A x \in Objects : x # 1 => x > 1
    BY PhasesAssumption DEF Objects
  <2>3. at' = [nowhere EXCEPT ![1] = "queued"] /\ obj' = [obj EXCEPT ![1] = row] /\ born' = 1
    BY <1>4 DEF Restart, ScanTask
  <2>4. nowhere \in [Objects -> Places] /\ obj \in [Objects -> Fields] /\ Counters /\ Paid
    BY <1>1 DEF KInv, IInv, TypeOK, Places
  <2>5. \A x \in Objects : nowhere[x] \in {"free", at[x]} /\ ~Busy(nowhere[x])
    BY <1>2 DEF Busy
  <2> HIDE DEF nowhere
  <2>6. QED
    BY <1>1, <1>2, <1>3, <2>1, <2>2, <2>3, <2>4, <2>5, LoadKInv
<1>5. CASE ~Suspended
  <2>1. at' = nowhere /\ born' = 0 /\ obj' = obj
    BY <1>5 DEF Restart
  <2>2. \A x \in Objects : at'[x] = "free" /\ x > 0
    BY <1>2, <2>1 DEF Objects
  <2>3. Counters' /\ Exclusive' /\ Made'
    BY <1>3, <2>1, <2>2 DEF KInv, Counters, Exclusive, Busy, Made
  <2>4. Paid' /\ Agrees' /\ Ahead'
    BY <1>3, <2>1, <2>2 DEF KInv, Paid, Agrees, Ahead, RunPlaces
  <2>5. QED
    BY <1>1, <2>3, <2>4 DEF KInv
<1>6. QED
  BY <1>4, <1>5

LEMMA PatchKInv ==
  ASSUME KInv, NEW s \in PatchTo, Patch(s)
  PROVE  KInv'
<1>1. IInv /\ IInv'
  BY NextInv DEF KInv, Next
<1>2. /\ row # NoRow /\ row' = [row EXCEPT !.status = s] /\ patches' = patches + 1
      /\ UNCHANGED <<obj, at, born, faults>>
  BY DEF Patch
<1>3. Counters' /\ patches' # 0
  BY <1>2 DEF KInv, Counters
<1>4. Exclusive'
  BY <1>2 DEF KInv, Exclusive
<1>5. row \in Fields
  BY <1>1, <1>2, RowIs DEF IInv, RowSound
<1>6. row'.questions = row.questions /\ row'.redirects = row.redirects /\ row'.status = s
  BY <1>2, <1>5 DEF Fields
<1>7. row' # NoRow
  <2>1. "status" \in DOMAIN row'
    BY <1>2, <1>5 DEF Fields
  <2>2. "status" \notin DOMAIN NoRow
    BY DEF NoRow
  <2>3. QED
    BY <2>1, <2>2
<1>8. Made'
  BY <1>2, <1>7 DEF KInv, Made
<1>9. Paid' /\ Agrees'
  BY <1>3 DEF Paid, Agrees
<1>10. Ahead'
  BY <1>2, <1>6 DEF KInv, Ahead
<1>11. QED
  BY <1>1, <1>3, <1>4, <1>8, <1>9, <1>10 DEF KInv

LEMMA NextKInv == KInv /\ [Next]_vars => KInv'
<1> SUFFICES ASSUME KInv, [Next]_vars PROVE KInv'
  OBVIOUS
<1>1. CASE Next
  BY <1>1, RunKInv, SubmitKInv, ResumeKInv, RestartKInv, PatchKInv DEF Next
<1>2. CASE UNCHANGED vars
  <2>1. IInv'
    BY <1>2, NextInv DEF KInv
  <2>2. UNCHANGED <<obj, at, born, row, faults, patches>>
    BY <1>2 DEF vars, bounds
  <2>3. (Counters /\ Exclusive /\ Made)'
    BY <2>2 DEF KInv, Counters, Exclusive, Made
  <2>4. (Paid /\ Agrees /\ Ahead)'
    BY <2>2 DEF KInv, Paid, Agrees, Ahead, Columns
  <2>5. QED
    BY <2>1, <2>3, <2>4 DEF KInv
<1>3. QED
  BY <1>1, <1>2

LEMMA KInvariant == Spec => []KInv
<1>1. QED
  BY InitKInv, NextKInv, PTL DEF Spec

-----------------------------------------------------------------------------
\* While a human is asked and once the worker has let go of the task, the row of
\* a task with one object holds what the object holds, its outcome and its
\* tokens included, if every statement of the store succeeded and nobody patched
\* the status: for any number of questions, redirects, retries and restarts.
THEOREM StoreIsCurrent == Spec => []StoreKeepsUp
<1>1. ASSUME KInv, born = 1, faults = 0, patches = 0
      PROVE  /\ Columns(row) = Columns(obj[1])
             /\ obj[1].status \in {row.status, "queued"}
             /\ row.status = "done" => row.tokens = 1
  <2>1. 1 \in Objects /\ at[1] # "free"
    BY <1>1, PhasesAssumption DEF KInv, Made, Objects
  <2>2. row # NoRow
    BY <1>1, <2>1, RowThere, RowIs DEF KInv
  <2>3. QED
    BY <1>1, <2>2 DEF KInv, Agrees, Paid
<1>2. KInv => StoreKeepsUp
  BY <1>1 DEF StoreKeepsUp
<1>3. QED
  BY <1>2, KInvariant, PTL

\* Whatever the number of objects: a step that takes an answer out of the row saves
\* an object that had not got it, or sends the plan back.
LEMMA AnswerLost ==
  ASSUME IInv, Made, Ahead, row # NoRow, NEW o \in Objects, NEW new, NEW place,
         Shape(o, new, place), NEW q \in Questions,
         row.questions[q] = "answered", row'.questions[q] # "answered"
  PROVE  PlanSentBack(o) \/ StaleSave(o, q)
<1> DEFINE t == obj[o]
<1>1. at[o] \notin {"free", "gone"} /\ obj' = [obj EXCEPT ![o] = new]
  BY DEF Shape, Moves, Busy
<1>2. row \in Fields /\ t \in Fields /\ obj \in [Objects -> Fields]
  <2>1. Sound(row) /\ Sound(t)
    BY <1>1, RowThere DEF IInv
  <2>2. obj \in [Objects -> Fields]
    BY DEF IInv, TypeOK
  <2>3. QED
    BY <2>1, <2>2, RowIs
<1>3. obj'[o] = new
  BY <1>1, <1>2
<1>4. born \in Nat
  BY DEF IInv, TypeOK
<1>5. ASSUME row' = new, t.questions[q] # "answered", at[o] # "returned"
      PROVE  StaleSave(o, q)
  <2>1. born > 1
    BY <1>1, <1>4, <1>5 DEF Ahead
  <2>2. QED
    BY <1>3, <1>5, <2>1 DEF StaleSave
<1>6. CASE Saving(o, new, place)
  <2>1. row' = new /\ at[o] # "returned"
    BY <1>6 DEF Saving, RunPlaces, Writes
  <2>2. CASE Carries(t, new)
    <3>1. t.questions[q] # "answered"
      BY <2>1, <2>2 DEF Carries
    <3>2. QED
      BY <1>5, <2>1, <3>1
  <2>3. CASE at[o] = "review" /\ SentBack(t, new, place)
    <3>1. new.phase = "understand" /\ new.redirects = t.redirects + 1
      BY <2>3 DEF SentBack
    <3>2. QED
      BY <1>3, <2>1, <2>3, <3>1 DEF PlanSentBack
  <2>4. QED
    BY <1>6, <2>2, <2>3 DEF Saving
<1>7. CASE Beginning(o, new, place)
  <2>1. at[o] # "returned" /\ row' = new /\ new = [t EXCEPT !.status = "running"]
    BY <1>7 DEF Beginning, Writes
  <2> HIDE DEF t
  <2>2. t.questions[q] # "answered"
    BY <1>2, <2>1 DEF Fields
  <2>3. QED
    BY <1>5, <2>1, <2>2
<1>8. CASE Counting(o, new, place) \/ Ending(o, new, place)
  <2>1. \/ row' = row \/ row' = [row EXCEPT !.tokens = 1]
        \/ \E s \in {"done", "failed"} : row' = [row EXCEPT !.status = s]
    BY <1>8 DEF Counting, Ending, Writes
  <2>2. row'.questions = row.questions
    BY <1>2, <2>1 DEF Fields
  <2>3. QED
    BY <2>2
<1>9. CASE Passing(o, new, place)
  BY <1>9 DEF Passing
<1>10. QED
  BY <1>6, <1>7, <1>8, <1>9 DEF Shape

\* Failed statements, retries, restarts and patches lose no answer the store has.
\* A plan sent back does, and so does the save of a second object made before the
\* answer: there is no third way (pre_executor.go, executor.go: ResumeTask,
\* memory/store.go: SaveTask).
THEOREM AnswersStay == Spec => AnswersKept
<1>1. ASSUME KInv, [Next]_vars, row # NoRow, NEW q \in Questions,
             row.questions[q] = "answered"
      PROVE  \/ row'.questions[q] = "answered"
             \/ \E o \in Objects : PlanSentBack(o) \/ StaleSave(o, q)
  <2>1. CASE row' = row
    BY <1>1, <2>1
  <2>2. CASE \E o \in Objects : Pop(o) \/ RunStep(o)
    <3>1. PICK o \in Objects : Pop(o) \/ RunStep(o)
      BY <2>2
    <3>2. PICK new, place : Shape(o, new, place)
      BY <1>1, <3>1, RunShape DEF KInv
    <3>3. CASE row'.questions[q] # "answered"
      BY <1>1, <3>2, <3>3, AnswerLost DEF KInv
    <3>4. QED
      BY <3>3
  <2>3. CASE \E s \in PatchTo : Patch(s)
    <3>1. PICK s \in PatchTo : row' = [row EXCEPT !.status = s]
      BY <2>3 DEF Patch
    <3>2. row \in Fields
      BY <1>1, RowIs DEF KInv, IInv, RowSound
    <3>3. row'.questions = row.questions
      BY <3>1, <3>2 DEF Fields
    <3>4. QED
      BY <1>1, <3>3
  <2>4. QED
    BY <1>1, <2>1, <2>2, <2>3 DEF Next, Submit, ResumeTask, Restart, vars
<1>2. KInv /\ [Next]_vars =>
        [row # NoRow =>
           \A q \in Questions : row.questions[q] = "answered" =>
             \/ row'.questions[q] = "answered"
             \/ \E o \in Objects : PlanSentBack(o) \/ StaleSave(o, q)]_vars
  BY <1>1
<1>3. QED
  BY <1>2, KInvariant, PTL DEF Spec, AnswersKept
=============================================================================
