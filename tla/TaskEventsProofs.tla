-------------------------- MODULE TaskEventsProofs --------------------------
(***************************************************************************)
(* What a pipeline is told of its task was said of it, the waiter's       *)
(* map is exact, and the wait group of the domain bus counts exactly the   *)
(* handlers under way and those waiting for a slot, for any number of      *)
(* pipelines, handler slots and retries and any capacity of the legacy     *)
(* channel.                                                                *)
(***************************************************************************)
EXTENDS TaskEvents, SequenceTheorems, FiniteSetTheorems, TLAPS

Subscribers == {"delivery", "done", "failed", "notification"}
PipePlaces == {"idle", "card", "register", "dispatch", "wait", "result",
               "parsed", "unparsable", "ended"}
JobPlaces == {"none", "queued", "running", "done", "failed", "refused", "suspended"}
MainPlaces == {"up", "cancelled", "drained", "closed", "quiet", "unsubscribing", "bridging",
               "stopping", "waiting", "down"}

Kinds == {"submitted", "pipeline", "started", "done", "failed"}

\* The numbers of events: those of the worker's are at most MaxRetries + 1, the
\* i-th of the API has MaxRetries + 1 + i.
Numbering == 0..(MaxRetries + 1 + MaxPatches)

\* What the API announces.
Announcements == {"started", "queued", "done", "failed"}

\* Events on the legacy bus; on the domain bus, where none carries an output.
LegacyEvents == [kind : {"started", "tokens", "queued", "done", "failed"}, task : Tasks,
                 n : Numbering, output : {"text", ""}]
DomainEvents == [kind : Kinds, task : Tasks, n : Numbering, output : {""}]

Handlers == [sub : Subscribers, evt : DomainEvents, at : {"start", "send"}]

Busy(b) == b.at # "out"

Pubs == {NoPub} \cup [at : {"loop"}, evt : DomainEvents, todo : SUBSET Subscribers]
          \cup [at : {"acquire"}, evt : DomainEvents, todo : SUBSET Subscribers, sub : Subscribers]

\* The subscribers that have not got the event of a call of Publish yet.
Owed(b) == IF b.at = "out" THEN {} ELSE IF b.at = "loop" THEN b.todo ELSE b.todo \cup {b.sub}

Before == {"idle", "card", "register", "dispatch"}

\* With the pipelines at q, that of t is past its dispatch.
Dispatched(t, q) ==
    \/ q[t[1]].task = t[2] /\ q[t[1]].at \notin Before
    \/ q[t[1]].task = "breakdown" /\ t[2] = "idea"

\* With the jobs at j and the pipelines at q, the event has happened and will
\* not happen again.
Past(e, j, q) ==
    LET t == e.task IN
    /\ e.kind = "pipeline" => e.n = 0 /\ t[2] = "idea" /\ q[t[1]].at # "idle"
    /\ e.kind = "submitted" => e.n = 0 /\ Dispatched(t, q)
    /\ e.n <= MaxRetries + 1 =>
          /\ e.kind = "started" => \/ e.n < j[t].tries
                                   \/ e.n = j[t].tries /\ j[t].at \notin {"none", "queued"}
          /\ e.kind \in {"tokens", "done"} => j[t].at = "done"
          /\ e.kind = "failed" => e.n > 0 /\ e.n <= j[t].tries
    /\ e.n > MaxRetries + 1 =>
          \E i \in DOMAIN j[t].told : e.n = MaxRetries + 1 + i /\ j[t].told[i] = e.kind

\* With the jobs at j, task t is done or failed once, or was announced as such.
SaidDone(j, t) ==
    j[t].at = "done" \/ \E i \in DOMAIN j[t].told : j[t].told[i] = "done"
SaidFailed(j, t) ==
    j[t].tries > 0 \/ \E i \in DOMAIN j[t].told : j[t].told[i] = "failed"

\* The same thing happening, with or without the output.
Same(e, f) == e.kind = f.kind /\ e.task = f.task /\ e.n = f.n

JobRecords == [at : JobPlaces, tries : 0..(MaxRetries + 1), saved : BOOLEAN,
               told : Seq(Announcements)]

Jobs ==
    /\ job \in [Tasks -> JobRecords]
    /\ \A t \in Tasks :
          /\ job[t].at \in {"queued", "running"} => job[t].tries <= MaxRetries
          /\ job[t].at # "none" => Dispatched(t, pipe)
          /\ job[t].at = "none" => job[t].tries = 0 /\ job[t].told = <<>> /\ ~job[t].saved
          /\ Len(job[t].told) <= MaxPatches

Pipelines ==
    /\ pipe \in [Pipes -> [at : PipePlaces, task : {"idea", "breakdown"}]]
    /\ got \in [Pipes -> Results \cup {Nothing}]
    /\ \A p \in Pipes :
          /\ At(p, "idle") \/ At(p, "card") => pipe[p].task = "idea"
          /\ At(p, "result") => SaidDone(job, TaskAt(p))
          /\ got[p].kind = "failed" => At(p, "ended") /\ SaidFailed(job, TaskAt(p))

Waiting ==
    /\ waiters \subseteq Tasks
    /\ chan \in [Tasks -> Results \cup {Nothing}]
    /\ \A t \in Tasks :
          /\ chan[t].kind = "done" => SaidDone(job, t)
          /\ chan[t].kind = "failed" => SaidFailed(job, t)
    /\ main \in MainPlaces
    /\ cancelled = (main # "up")
    /\ refusing => cancelled
    /\ WaitersExact

\* The legacy channel holds different events of the past.
Legacy ==
    /\ legacy \in Seq(LegacyEvents) /\ Len(legacy) <= LegacyCap
    /\ \A i \in 1..Len(legacy) : Past(legacy[i], job, pipe)
    /\ \A i, j \in 1..Len(legacy) : Same(legacy[i], legacy[j]) => i = j

Publications ==
    /\ pub \in [Publishers -> Pubs]
    /\ \A x \in Publishers : Busy(pub[x]) =>
          /\ Owed(pub[x]) \subseteq Filter(pub[x].evt.kind)
          /\ Past(pub[x].evt, job, pipe)
          /\ pub[x].at = "acquire" => pub[x].sub \notin pub[x].todo

\* A pipeline publishes its own events and waits until it has.
Own ==
    \A p \in Pipes : Busy(pub[p]) =>
        \/ pub[p].evt.kind = "pipeline" /\ At(p, "card") /\ pub[p].evt.task[1] = p
        \/ pub[p].evt.kind = "submitted" /\ At(p, "wait") /\ pub[p].evt.task = TaskAt(p)

\* The bridge publishes the events of the jobs.
Bridging ==
    Busy(pub["bridge"]) =>
        /\ pub["bridge"].evt.kind \in {"started", "done", "failed"}
        /\ \A i \in 1..Len(legacy) : ~Same(legacy[i], pub["bridge"].evt)

\* A subscriber gets an event once.
Handling ==
    /\ handlers \subseteq Handlers /\ IsFiniteSet(handlers)
    /\ \A h \in handlers :
          /\ h.sub \in Filter(h.evt.kind)
          /\ h.at = "send" => h.sub \in {"done", "failed"}
          /\ Past(h.evt, job, pipe)
          /\ \A i \in 1..Len(legacy) : ~Same(legacy[i], h.evt)
          /\ \A x \in Publishers : Busy(pub[x]) /\ pub[x].evt = h.evt => h.sub \notin Owed(pub[x])
    /\ \A h, g \in handlers : h.sub = g.sub /\ h.evt = g.evt => h = g

\* A task is delivered to the queue once.
Undelivered ==
    /\ \A x \in Publishers : Busy(pub[x]) /\ "delivery" \in Owed(pub[x]) => job[pub[x].evt.task].at = "none"
    /\ \A h \in handlers : h.sub = "delivery" => job[h.evt.task].at = "none"

Counted ==
    /\ Cardinality(handlers) <= Slots
    /\ wg = Cardinality(handlers) + Cardinality({x \in Publishers : pub[x].at = "acquire"})

Messages == Legacy /\ Publications /\ Bridging /\ Handling

IInv == Jobs /\ Pipelines /\ Waiting /\ Messages /\ Own /\ Undelivered /\ Counted

-----------------------------------------------------------------------------
(* Jobs and pipelines only go forward, so what is past stays past *)

JobGoes(a, b) ==
    /\ \A i \in DOMAIN a.told : i \in DOMAIN b.told /\ b.told[i] = a.told[i]
    /\ \/ b.at = a.at /\ b.tries = a.tries
       \/ a.at = "none" /\ a.tries = 0 /\ b.at = "queued" /\ b.tries = 0
       \/ /\ a.at \in {"queued", "running"} /\ b.tries = a.tries + 1
          /\ b.at \in {"queued", "refused", "failed"}
       \/ /\ a.at \in {"queued", "running"} /\ b.tries = a.tries
          /\ b.at \in {"running", "done", "suspended"}

PipeGoes(a, b) ==
    \/ b = a
    \/ b.task = a.task /\ b.at # "idle" /\ (a.at \notin Before => b.at \notin Before)
    \/ a.task = "idea" /\ b.task = "breakdown" /\ b.at # "idle"

Goes(j, q, k, r) ==
    /\ \A t \in Tasks : j[t].tries \in Nat /\ JobGoes(j[t], k[t])
    /\ \A p \in Pipes : PipeGoes(q[p], r[p])

LEMMA DispatchedLasts ==
  ASSUME NEW t \in Tasks, NEW q, NEW r, PipeGoes(q[t[1]], r[t[1]]), Dispatched(t, q)
  PROVE  Dispatched(t, r)
<1>1. t[2] \in {"idea", "breakdown"}
  BY DEF Tasks
<1>2. QED
  BY <1>1 DEF PipeGoes, Dispatched, Before

LEMMA Lasting ==
  ASSUME NEW j, NEW q, NEW k, NEW r, Goes(j, q, k, r),
         NEW e, e.task \in Tasks, e.n \in Nat, Past(e, j, q)
  PROVE  Past(e, k, r)
<1> DEFINE t == e.task
<1>1. t[1] \in Pipes
  BY DEF Tasks
<1>2. j[t].tries \in Nat /\ JobGoes(j[t], k[t]) /\ PipeGoes(q[t[1]], r[t[1]])
  BY <1>1 DEF Goes
<1>3. e.kind = "pipeline" => e.n = 0 /\ t[2] = "idea" /\ r[t[1]].at # "idle"
  BY <1>2 DEF Past, PipeGoes
<1>4. e.kind = "submitted" => e.n = 0 /\ Dispatched(t, r)
  BY <1>2, DispatchedLasts DEF Past
<1>5. ASSUME e.n <= MaxRetries + 1
      PROVE  /\ e.kind = "started" => \/ e.n < k[t].tries
                                      \/ e.n = k[t].tries /\ k[t].at \notin {"none", "queued"}
             /\ e.kind \in {"tokens", "done"} => k[t].at = "done"
             /\ e.kind = "failed" => e.n > 0 /\ e.n <= k[t].tries
  BY <1>2, <1>5 DEF Past, JobGoes
<1>6. ASSUME e.n > MaxRetries + 1
      PROVE  \E i \in DOMAIN k[t].told : e.n = MaxRetries + 1 + i /\ k[t].told[i] = e.kind
  <2>1. PICK i \in DOMAIN j[t].told : e.n = MaxRetries + 1 + i /\ j[t].told[i] = e.kind
    BY <1>6 DEF Past
  <2>2. QED
    BY <1>2, <2>1 DEF JobGoes
<1>7. QED
  BY <1>3, <1>4, <1>5, <1>6 DEF Past

\* What was said of a task stays said.
LEMMA SaidLasts ==
  ASSUME NEW j, NEW q, NEW k, NEW r, Goes(j, q, k, r), NEW t \in Tasks
  PROVE  /\ SaidDone(j, t) => SaidDone(k, t)
         /\ SaidFailed(j, t) => SaidFailed(k, t)
<1>1. j[t].tries \in Nat /\ JobGoes(j[t], k[t])
  BY DEF Goes
<1>2. SaidDone(j, t) => SaidDone(k, t)
  BY <1>1 DEF SaidDone, JobGoes
<1>3. SaidFailed(j, t) => SaidFailed(k, t)
  BY <1>1 DEF SaidFailed, JobGoes
<1>4. QED
  BY <1>2, <1>3

\* An event that is past is not one that is not.
LEMMA SamePast ==
  ASSUME NEW e, NEW f, Same(e, f), NEW j, NEW q, Past(e, j, q)
  PROVE  Past(f, j, q)
  BY DEF Same, Past

LEMMA PipesThere == IsFiniteSet(Publishers) /\ Pipes \subseteq Publishers /\ "bridge" \in Publishers
<1>1. IsFiniteSet({"bridge"})
  BY FS_Singleton
<1>2. IsFiniteSet(Publishers)
  BY <1>1, EventsAssumption, FS_Union DEF Publishers
<1>3. QED
  BY <1>2 DEF Publishers

LEMMA Numbers ==
  /\ MaxRetries \in Nat /\ MaxPatches \in Nat
  /\ 0..(MaxRetries + 1) \subseteq Numbering /\ Numbering \subseteq Nat
  /\ 0 \in 0..(MaxRetries + 1)
  BY EventsAssumption DEF Numbering

LEMMA TaskIs == ASSUME NEW t \in Tasks PROVE t[1] \in Pipes /\ t[2] \in {"idea", "breakdown"} /\ t = <<t[1], t[2]>>
  BY DEF Tasks

LEMMA TaskAtIs ==
  ASSUME Pipelines, NEW p \in Pipes
  PROVE  TaskAt(p) \in Tasks /\ TaskAt(p)[1] = p /\ TaskAt(p)[2] = pipe[p].task
  BY DEF Pipelines, TaskAt, Tasks

\* Who gets what.
LEMMA FilterIs ==
  /\ Filter("submitted") = {"delivery"}
  /\ Filter("done") = {"done", "notification"}
  /\ Filter("failed") = {"failed", "notification"}
  /\ Filter("started") = {"notification"} /\ Filter("pipeline") = {"notification"}
  BY DEF Filter

\* An event on the domain bus is its kind, task and number.
LEMMA DomainEvent ==
  ASSUME NEW e \in DomainEvents
  PROVE  /\ e.kind \in Kinds /\ e.task \in Tasks /\ e.n \in Nat /\ e.n \in Numbering
         /\ \A f \in DomainEvents : Same(e, f) => e = f
<1>1. e.kind \in Kinds /\ e.task \in Tasks /\ e.n \in Numbering
  BY DEF DomainEvents
<1>2. \A f \in DomainEvents : f = [kind |-> f.kind, task |-> f.task, n |-> f.n, output |-> ""]
  <2> SUFFICES ASSUME NEW f \in DomainEvents
               PROVE  f = [kind |-> f.kind, task |-> f.task, n |-> f.n, output |-> ""]
    OBVIOUS
  <2>1. f = [kind |-> f.kind, task |-> f.task, n |-> f.n, output |-> f.output]
    BY Zenon DEF DomainEvents
  <2>2. f.output = ""
    BY DEF DomainEvents
  <2>3. QED
    BY <2>1, <2>2
<1>3. \A f \in DomainEvents : Same(e, f) => e = f
  <2> TAKE f \in DomainEvents
  <2>1. f = [kind |-> f.kind, task |-> f.task, n |-> f.n, output |-> ""]
        /\ e = [kind |-> e.kind, task |-> e.task, n |-> e.n, output |-> ""]
    BY <1>2
  <2>2. QED
    BY <2>1 DEF Same
<1>4. QED
  BY <1>1, <1>3, Numbers

LEMMA LegacyEvent ==
  ASSUME NEW e \in LegacyEvents
  PROVE  e.kind \in {"started", "tokens", "queued", "done", "failed"} /\ e.task \in Tasks
         /\ e.n \in Nat /\ e.n \in Numbering
<1>1. e.kind \in {"started", "tokens", "queued", "done", "failed"} /\ e.task \in Tasks
      /\ e.n \in Numbering
  BY DEF LegacyEvents
<1>2. QED
  BY <1>1, Numbers

\* What is in the legacy channel, a call of Publish or a handler.
LEMMA InLegacy ==
  ASSUME Legacy, NEW i \in 1..Len(legacy)
  PROVE  legacy[i] \in LegacyEvents /\ Past(legacy[i], job, pipe)
  BY ElementOfSeq DEF Legacy

LEMMA InPub ==
  ASSUME Publications, NEW x \in Publishers, Busy(pub[x])
  PROVE  /\ pub[x].evt \in DomainEvents /\ pub[x].todo \subseteq Subscribers
         /\ pub[x].at \in {"loop", "acquire"}
         /\ pub[x].at = "acquire" => pub[x].sub \in Subscribers
<1>1. pub[x] \in Pubs /\ pub[x] # NoPub
  BY DEF Publications, Busy, NoPub
<1>2. QED
  BY <1>1 DEF Pubs

LEMMA InHandlers ==
  ASSUME Handling, NEW h \in handlers
  PROVE  /\ h.sub \in Subscribers /\ h.evt \in DomainEvents /\ h.at \in {"start", "send"}
         /\ h.sub \in Filter(h.evt.kind) /\ Past(h.evt, job, pipe)
  BY DEF Handling, Handlers

-----------------------------------------------------------------------------
(* The steps of the jobs and of the pipelines *)

PipeRecords == [at : PipePlaces, task : {"idea", "breakdown"}]

LEMMA Unmoved ==
  ASSUME Jobs, UNCHANGED <<job, pipe>>
  PROVE  Jobs' /\ Goes(job, pipe, job', pipe')
<1>1. Jobs'
  BY DEF Jobs
<1>2. \A t \in Tasks : job[t].tries \in Nat
  BY Numbers DEF Jobs, JobRecords
<1>3. QED
  BY <1>1, <1>2 DEF Goes, JobGoes, PipeGoes

LEMMA JobMoved ==
  ASSUME Jobs, NEW t \in Tasks, NEW new \in JobRecords, job' = [job EXCEPT ![t] = new],
         JobGoes(job[t], new), new.at # "none",
         new.at \in {"queued", "running"} => new.tries <= MaxRetries,
         Len(new.told) <= MaxPatches, Dispatched(t, pipe), pipe' = pipe
  PROVE  Jobs' /\ Goes(job, pipe, job', pipe')
<1>1. job \in [Tasks -> JobRecords]
  BY DEF Jobs
<1>2. job'[t] = new /\ \A u \in Tasks : u # t => job'[u] = job[u]
  BY <1>1
<1>3. job' \in [Tasks -> JobRecords]
  BY <1>1
<1>4. Jobs'
  <2>1. \A u \in Tasks : /\ job'[u].at \in {"queued", "running"} => job'[u].tries <= MaxRetries
                         /\ job'[u].at # "none" => Dispatched(u, pipe)
                         /\ job'[u].at = "none" =>
                               job'[u].tries = 0 /\ job'[u].told = <<>> /\ ~job'[u].saved
                         /\ Len(job'[u].told) <= MaxPatches
    BY <1>2 DEF Jobs
  <2>2. QED
    BY <1>3, <2>1 DEF Jobs
<1>5. \A u \in Tasks : job[u].tries \in Nat
  BY <1>1, Numbers DEF JobRecords
<1>6. QED
  BY <1>2, <1>4, <1>5 DEF Goes, JobGoes, PipeGoes

\* The worker's steps.
LEMMA JobStep ==
  ASSUME Jobs, NEW t \in Tasks, Start(t) \/ Refuse(t) \/ Execute(t)
  PROVE  /\ Jobs' /\ Goes(job, pipe, job', pipe')
         /\ job[t].at \in {"queued", "running"}
         /\ \A u \in Tasks : u # t => job'[u] = job[u]
<1> DEFINE a == job[t]
<1>1. job \in [Tasks -> JobRecords] /\ a \in JobRecords
  BY DEF Jobs
<1>2. a.at \in {"queued", "running"} /\ pipe' = pipe
  BY DEF Start, Refuse, Execute, Succeed, Fail, Suspend, pipeVars
<1>3. a.tries \in Nat /\ a.tries <= MaxRetries /\ Dispatched(t, pipe) /\ Len(a.told) <= MaxPatches
  <2>1. a.tries \in Nat
    BY <1>1, Numbers DEF JobRecords
  <2>2. QED
    BY <1>2, <2>1 DEF Jobs
<1>4. \E new \in JobRecords :
         /\ job' = [job EXCEPT ![t] = new] /\ JobGoes(a, new) /\ new.at # "none"
         /\ new.at \in {"queued", "running"} => new.tries <= MaxRetries
         /\ new.told = a.told
  <2>1. CASE Start(t) \/ Succeed(t) \/ Suspend(t)
    <3>1. PICK s \in {"running", "done", "suspended"}, b \in BOOLEAN :
            job' = [job EXCEPT ![t] = [@ EXCEPT !.at = s, !.saved = b]]
      <4>1. a.saved \in BOOLEAN /\ a = [a EXCEPT !.saved = a.saved]
        BY <1>1 DEF JobRecords
      <4>2. CASE Start(t)
        BY <4>2 DEF Start
      <4>3. CASE Succeed(t) \/ Suspend(t)
        <5>1. PICK s \in {"done", "suspended"} : job' = [job EXCEPT ![t].at = s]
          BY <4>3 DEF Succeed, Suspend
        <5>2. [a EXCEPT !.at = s] = [a EXCEPT !.at = s, !.saved = a.saved]
          <6> HIDE DEF a
          <6>1. QED
            BY <1>1 DEF JobRecords
        <5>3. QED
          BY <4>1, <5>1, <5>2
      <4>4. QED
        BY <2>1, <4>2, <4>3
    <3> DEFINE new == [a EXCEPT !.at = s, !.saved = b]
    <3>2. job' = [job EXCEPT ![t] = new]
      BY <3>1
    <3> HIDE DEF a
    <3>3. new \in JobRecords /\ new.at = s /\ new.tries = a.tries /\ new.told = a.told
      BY <1>1 DEF JobRecords, JobPlaces
    <3> HIDE DEF new
    <3>4. QED
      BY <1>2, <1>3, <3>2, <3>3 DEF JobGoes
  <2>2. CASE Refuse(t) \/ Fail(t)
    <3>1. PICK last \in {"refused", "failed"} : job' = Failed(t, last)
      BY <2>2 DEF Refuse, Fail
    <3> DEFINE new == [a EXCEPT !.at = IF a.tries + 1 <= MaxRetries THEN "queued" ELSE last,
                                !.tries = a.tries + 1]
    <3>2. job' = [job EXCEPT ![t] = new]
      BY <3>1 DEF Failed
    <3> HIDE DEF a
    <3>3. a.tries + 1 \in 0..(MaxRetries + 1)
      BY <1>3, EventsAssumption
    <3>4. new \in JobRecords
      BY <1>1, <3>3 DEF JobRecords, JobPlaces
    <3>5. /\ new.tries = a.tries + 1 /\ new.at \in {"queued", "refused", "failed"}
          /\ new.at \in {"queued", "running"} => new.tries <= MaxRetries
          /\ new.told = a.told
      BY <1>1 DEF JobRecords
    <3> HIDE DEF new
    <3>6. QED
      BY <1>2, <3>2, <3>4, <3>5 DEF JobGoes
  <2>3. QED
    BY <2>1, <2>2 DEF Execute
<1>5. PICK new \in JobRecords :
         /\ job' = [job EXCEPT ![t] = new] /\ JobGoes(a, new) /\ new.at # "none"
         /\ new.at \in {"queued", "running"} => new.tries <= MaxRetries
         /\ new.told = a.told
  BY <1>4
<1>6. \A u \in Tasks : u # t => job'[u] = job[u]
  BY <1>1, <1>5
<1>7. Jobs' /\ Goes(job, pipe, job', pipe')
  BY <1>2, <1>3, <1>5, JobMoved
<1>8. QED
  BY <1>2, <1>6, <1>7

\* The delivery of a task, which is new to the queue.
LEMMA DeliverStep ==
  ASSUME Jobs, Handling, Undelivered, NEW h \in handlers, Deliver(h)
  PROVE  /\ Jobs' /\ Goes(job, pipe, job', pipe')
         /\ h.evt.kind = "submitted" /\ h.evt.n = 0 /\ h.evt.task \in Tasks
         /\ \A u \in Tasks : u # h.evt.task => job'[u] = job[u]
<1> DEFINE t == h.evt.task
           new == Fresh("queued")
<1>1. h.sub = "delivery" /\ job' = [job EXCEPT ![t] = new] /\ pipe' = pipe
  BY DEF Deliver, pipeVars
<1>2. h.evt.kind \in Kinds /\ t \in Tasks /\ Past(h.evt, job, pipe)
  BY InHandlers, DomainEvent
<1>3. h.evt.kind = "submitted"
  BY <1>1, <1>2, InHandlers, FilterIs DEF Kinds
<1>4. h.evt.n = 0 /\ Dispatched(t, pipe)
  BY <1>2, <1>3 DEF Past
<1>5. job[t].at = "none" /\ job[t].tries = 0 /\ job[t].told = <<>>
  BY <1>1, <1>2 DEF Undelivered, Jobs
<1>6. new \in JobRecords /\ JobGoes(job[t], new) /\ new.at # "none" /\ new.tries <= MaxRetries
      /\ Len(new.told) <= MaxPatches
  <2>1. new = [at |-> "queued", tries |-> 0, saved |-> FALSE, told |-> <<>>]
    BY DEF Fresh
  <2>2. new \in JobRecords
    <3>1. <<>> \in Seq(Announcements) /\ "queued" \in JobPlaces
      BY EmptySeq DEF JobPlaces
    <3> HIDE DEF new
    <3>2. QED
      BY <2>1, <3>1, Numbers DEF JobRecords
  <2>3. new.at = "queued" /\ new.tries = 0 /\ new.told = <<>>
    BY <2>1
  <2>4. QED
    BY <1>5, <2>2, <2>3, Numbers DEF JobGoes
<1>7. \A u \in Tasks : u # t => job'[u] = job[u]
  BY <1>1 DEF Jobs
<1> HIDE DEF new, t
<1>8. Jobs' /\ Goes(job, pipe, job', pipe')
  BY <1>1, <1>2, <1>4, <1>6, JobMoved
<1>9. QED
  BY <1>2, <1>3, <1>4, <1>7, <1>8 DEF t

LEMMA PipeMoved ==
  ASSUME Jobs, Pipelines, NEW p \in Pipes, NEW new, pipe' = [pipe EXCEPT ![p] = new],
         PipeGoes(pipe[p], new), job' = job
  PROVE  Jobs' /\ Goes(job, pipe, job', pipe')
<1>1. pipe'[p] = new /\ \A q \in Pipes : q # p => pipe'[q] = pipe[q]
  BY DEF Pipelines
<1>2. \A q \in Pipes : PipeGoes(pipe[q], pipe'[q])
  BY <1>1 DEF PipeGoes
<1>3. \A t \in Tasks : Dispatched(t, pipe) => Dispatched(t, pipe')
  BY <1>2, DispatchedLasts, TaskIs
<1>4. Jobs'
  BY <1>3 DEF Jobs
<1>5. \A t \in Tasks : job[t].tries \in Nat
  BY Numbers DEF Jobs, JobRecords
<1>6. QED
  BY <1>2, <1>4, <1>5 DEF Goes, JobGoes

\* A step of a pipeline; it has no publication under way.
LEMMA PipelineMoves ==
  ASSUME Jobs, Pipelines, Own, NEW p \in Pipes, Trigger(p) \/ Pipeline(p)
  PROVE  \E new \in PipeRecords :
            /\ pipe' = [pipe EXCEPT ![p] = new] /\ PipeGoes(pipe[p], new)
            /\ job' = job /\ ~Busy(pub[p])
            /\ new.at \in {"idle", "card"} => new.task = "idea"
            /\ pipe[p].at \notin {"ended", "parsed", "unparsable"}
            /\ new.at = "result" => Receive(p) /\ chan[TaskAt(p)].kind = "done"
            /\ Receive(p) => new.at = (IF chan[TaskAt(p)].kind = "done" THEN "result" ELSE "ended")
            /\ ~Receive(p) => got' = got
            /\ ~Parse(p) => new.task = pipe[p].task
            /\ Trigger(p) => new.at = "card" /\ At(p, "idle")
<1> DEFINE a == pipe[p]
<1>1. pipe \in [Pipes -> PipeRecords] /\ a \in PipeRecords
  BY DEF Pipelines, PipeRecords
<1>2. a.task \in {"idea", "breakdown"} /\ (a.at \in {"idle", "card"} => a.task = "idea")
  BY <1>1 DEF PipeRecords, Pipelines, At
<1>3. CASE Trigger(p) \/ Card(p) \/ Register(p) \/ Dispatch(p) \/ Receive(p) \/ GiveUp(p)
  <2>1. PICK there \in {"card", "ended", "register", "dispatch", "wait", "result"} :
          /\ Goto(p, there) /\ job' = job
          /\ there = "card" => a.at = "idle"
          /\ Trigger(p) => there = "card"
          /\ a.at \in {"dispatch", "wait"} => there \in {"wait", "result", "ended"}
          /\ a.at \in {"idle", "card", "register", "dispatch", "wait"}
          /\ there = "result" => Receive(p) /\ chan[TaskAt(p)].kind = "done"
          /\ Receive(p) => there = (IF chan[TaskAt(p)].kind = "done" THEN "result" ELSE "ended")
          /\ ~Receive(p) => got' = got
    <3>1. CASE Trigger(p) \/ Card(p)
      BY <3>1 DEF Trigger, Card, At, Order, Receive
    <3>2. CASE Register(p) \/ Dispatch(p) \/ GiveUp(p)
      BY <3>2 DEF Register, Dispatch, GiveUp, At, Order, Receive, Trigger
    <3>3. CASE Receive(p)
      BY <3>3 DEF Receive, At, Trigger
    <3>4. QED
      BY <1>3, <3>1, <3>2, <3>3
  <2>2. ~Busy(pub[p])
    <3>1. Published(p) \/ At(p, "idle")
      BY <1>3 DEF Trigger, Card, Register, Dispatch, Receive, GiveUp
    <3>2. QED
      BY <3>1 DEF Published, Busy, NoPub, Own, At
  <2> DEFINE new == [a EXCEPT !.at = there]
  <2>3. pipe' = [pipe EXCEPT ![p] = new]
    BY <2>1 DEF Goto
  <2>4. ~Parse(p)
    BY <2>1 DEF Parse, At
  <2>5. Trigger(p) => At(p, "idle")
    BY DEF Trigger
  <2> HIDE DEF a
  <2>6. new \in PipeRecords /\ new.at = there /\ new.task = a.task
    BY <1>1 DEF PipeRecords, PipePlaces
  <2> HIDE DEF new
  <2>7. PipeGoes(a, new)
    BY <2>1, <2>6 DEF PipeGoes, Before
  <2>8. QED
    BY <1>2, <2>1, <2>2, <2>3, <2>4, <2>5, <2>6, <2>7 DEF a
<1>4. CASE Parse(p)
  <2>1. /\ a.at = "result" /\ job' = job /\ got' = got /\ ~Receive(p) /\ ~Trigger(p)
        /\ ~Busy(pub[p])
    BY <1>4 DEF Parse, At, Receive, Trigger, Own
  <2>2. PICK there \in {"register", "parsed", "unparsable"}, k \in {"idea", "breakdown"} :
          /\ pipe' = [pipe EXCEPT ![p] = [at |-> there, task |-> k]]
          /\ there = "register" => a.task = "idea" /\ k = "breakdown"
          /\ there # "register" => k = a.task
    <3>1. CASE a.task = "idea"
      BY <1>4, <3>1 DEF Parse, Order
    <3>2. CASE a.task # "idea"
      <4>1. PICK there \in {"parsed", "unparsable"} : Goto(p, there)
        BY <1>4, <3>2 DEF Parse
      <4>2. a = [at |-> a.at, task |-> a.task]
        BY <1>1 DEF PipeRecords
      <4>3. [a EXCEPT !.at = there] = [at |-> there, task |-> a.task]
        BY <4>2
      <4>4. pipe' = [pipe EXCEPT ![p] = [at |-> there, task |-> a.task]]
        BY <4>1, <4>3 DEF Goto
      <4>5. QED
        BY <1>2, <4>4
    <3>3. QED
      BY <3>1, <3>2
  <2> DEFINE new == [at |-> there, task |-> k]
  <2>3. new \in PipeRecords /\ new.at = there /\ new.task = k
    BY DEF PipeRecords, PipePlaces
  <2> HIDE DEF new
  <2>4. PipeGoes(a, new)
    BY <2>1, <2>2, <2>3 DEF PipeGoes, Before
  <2>5. pipe' = [pipe EXCEPT ![p] = new]
    BY <2>2 DEF new
  <2>6. QED
    BY <1>4, <2>1, <2>2, <2>3, <2>4, <2>5
<1>5. QED
  BY <1>3, <1>4 DEF Pipeline

\* What a pipeline believes stays true when it makes no step.
LEMMA PipelinesStay ==
  ASSUME Jobs, Pipelines, Goes(job, pipe, job', pipe'), UNCHANGED <<pipe, got>>
  PROVE  Pipelines'
<1>1. \A p \in Pipes :
        /\ pipe[p].at = "result" => SaidDone(job', TaskAt(p))
        /\ got[p].kind = "failed" => pipe[p].at = "ended" /\ SaidFailed(job', TaskAt(p))
  <2> TAKE p \in Pipes
  <2>1. TaskAt(p) \in Tasks
    BY TaskAtIs
  <2>2. /\ pipe[p].at = "result" => SaidDone(job, TaskAt(p))
        /\ got[p].kind = "failed" => pipe[p].at = "ended" /\ SaidFailed(job, TaskAt(p))
    BY DEF Pipelines, At
  <2>3. QED
    BY <2>1, <2>2, SaidLasts
<1>2. \A p \in Pipes : pipe[p].at \in {"idle", "card"} => pipe[p].task = "idea"
  BY DEF Pipelines, At
<1>3. QED
  BY <1>1, <1>2 DEF Pipelines, At, TaskAt

LEMMA PipelinesKept ==
  ASSUME Jobs, Pipelines, Waiting, Own, NEW p \in Pipes, Trigger(p) \/ Pipeline(p)
  PROVE  Pipelines'
<1> DEFINE t == TaskAt(p)
<1>1. PICK new \in PipeRecords :
            /\ pipe' = [pipe EXCEPT ![p] = new] /\ PipeGoes(pipe[p], new)
            /\ job' = job
            /\ new.at \in {"idle", "card"} => new.task = "idea"
            /\ pipe[p].at \notin {"ended", "parsed", "unparsable"}
            /\ new.at = "result" => Receive(p) /\ chan[TaskAt(p)].kind = "done"
            /\ Receive(p) => new.at = (IF chan[TaskAt(p)].kind = "done" THEN "result" ELSE "ended")
            /\ ~Receive(p) => got' = got
            /\ ~Parse(p) => new.task = pipe[p].task
  BY PipelineMoves
<1>2. pipe'[p] = new /\ (\A q \in Pipes : q # p => pipe'[q] = pipe[q]) /\ pipe' \in [Pipes -> PipeRecords]
  BY <1>1 DEF Pipelines, PipeRecords
<1>3. TaskAt(p) \in Tasks
  BY TaskAtIs
<1>4. got[p].kind # "failed"
  BY <1>1 DEF Pipelines, At
<1>5. /\ got' \in [Pipes -> Results \cup {Nothing}]
      /\ \A q \in Pipes : q # p => got'[q] = got[q]
      /\ ~Receive(p) => got'[p] = got[p]
      /\ Receive(p) => got'[p] = chan[TaskAt(p)] /\ new.task = pipe[p].task
  <2>1. CASE Receive(p)
    <3>1. got' = [got EXCEPT ![p] = chan[TaskAt(p)]] /\ ~Parse(p)
      BY <2>1 DEF Receive, Parse, At
    <3>2. chan[TaskAt(p)] \in Results \cup {Nothing}
      BY <1>3 DEF Waiting
    <3>3. QED
      BY <1>1, <2>1, <3>1, <3>2 DEF Pipelines
  <2>2. CASE ~Receive(p)
    BY <1>1, <2>2 DEF Pipelines
  <2>3. QED
    BY <2>1, <2>2
<1>6. \A q \in Pipes :
        /\ pipe'[q].at \in {"idle", "card"} => pipe'[q].task = "idea"
        /\ pipe'[q].at = "result" => SaidDone(job, <<q, pipe'[q].task>>)
        /\ got'[q].kind = "failed" => pipe'[q].at = "ended" /\ SaidFailed(job, <<q, pipe'[q].task>>)
  <2> TAKE q \in Pipes
  <2>1. CASE q = p
    <3>1. CASE Receive(p)
      <4>1. /\ chan[TaskAt(p)].kind = "done" => SaidDone(job, TaskAt(p))
            /\ chan[TaskAt(p)].kind = "failed" => SaidFailed(job, TaskAt(p))
        BY <1>3 DEF Waiting
      <4>2. <<p, new.task>> = TaskAt(p)
        BY <1>5, <3>1 DEF TaskAt
      <4>3. QED
        BY <1>1, <1>2, <1>5, <2>1, <3>1, <4>1, <4>2
    <3>2. CASE ~Receive(p)
      BY <1>1, <1>2, <1>4, <1>5, <2>1, <3>2
    <3>3. QED
      BY <3>1, <3>2
  <2>2. CASE q # p
    BY <1>2, <1>5, <2>2 DEF Pipelines, At, TaskAt
  <2>3. QED
    BY <2>1, <2>2
<1>7. QED
  BY <1>1, <1>2, <1>5, <1>6 DEF Pipelines, PipeRecords, At, TaskAt

-----------------------------------------------------------------------------
(* The waiter *)

\* The map is exact when each task is in it while its pipeline awaits it.
LEMMA Exact ==
  ASSUME NEW w, w \subseteq Tasks, NEW q \in [Pipes -> PipeRecords]
  PROVE  w = {<<p, q[p].task>> : p \in {x \in Pipes : q[x].at \in {"dispatch", "wait"}}}
           <=> \A t \in Tasks : t \in w <=> q[t[1]].at \in {"dispatch", "wait"} /\ t[2] = q[t[1]].task
<1> DEFINE awaited == {<<p, q[p].task>> : p \in {x \in Pipes : q[x].at \in {"dispatch", "wait"}}}
<1>1. awaited \subseteq Tasks
  BY DEF Tasks, PipeRecords
<1>2. ASSUME NEW t \in Tasks
      PROVE  t \in awaited <=> q[t[1]].at \in {"dispatch", "wait"} /\ t[2] = q[t[1]].task
  <2>1. t = <<t[1], t[2]>> /\ t[1] \in Pipes
    BY TaskIs
  <2>2. ASSUME t \in awaited PROVE q[t[1]].at \in {"dispatch", "wait"} /\ t[2] = q[t[1]].task
    <3>1. PICK p \in Pipes : q[p].at \in {"dispatch", "wait"} /\ t = <<p, q[p].task>>
      BY <2>2
    <3>2. QED
      BY <3>1
  <2>3. ASSUME q[t[1]].at \in {"dispatch", "wait"}, t[2] = q[t[1]].task PROVE t \in awaited
    BY <2>1, <2>3
  <2>4. QED
    BY <2>2, <2>3
<1> HIDE DEF awaited
<1>3. w = awaited <=> \A t \in Tasks : t \in w <=> t \in awaited
  BY <1>1
<1>4. QED
  BY <1>2, <1>3 DEF awaited

LEMMA WaitingKept ==
  ASSUME Jobs, Waiting, Goes(job, pipe, job', pipe'),
         chan' \in [Tasks -> Results \cup {Nothing}],
         \A t \in Tasks : \/ chan'[t] = chan[t]
                          \/ chan'[t].kind \notin {"done", "failed"}
                          \/ chan'[t].kind = "done" /\ SaidDone(job', t)
                          \/ chan'[t].kind = "failed" /\ SaidFailed(job', t),
         waiters' \subseteq Tasks, WaitersExact',
         main' \in MainPlaces, cancelled' = (main' # "up"), refusing' => cancelled'
  PROVE  Waiting'
<1>1. \A t \in Tasks : /\ chan'[t].kind = "done" => SaidDone(job', t)
                       /\ chan'[t].kind = "failed" => SaidFailed(job', t)
  <2> TAKE t \in Tasks
  <2>1. /\ chan[t].kind = "done" => SaidDone(job, t)
        /\ chan[t].kind = "failed" => SaidFailed(job, t)
    BY DEF Waiting
  <2>2. CASE chan'[t] = chan[t]
    BY <2>1, <2>2, SaidLasts
  <2>3. CASE chan'[t] # chan[t]
    BY <2>3
  <2>4. QED
    BY <2>2, <2>3
<1>2. QED
  BY <1>1 DEF Waiting

\* Steps that leave the waiter and the shutdown alone.
LEMMA WaitingStay ==
  ASSUME Jobs, Waiting, Goes(job, pipe, job', pipe'), UNCHANGED <<pipe, waitVars, mainVars>>
  PROVE  Waiting'
<1>1. UNCHANGED <<pipe, waiters, chan, refusing, cancelled, main>>
  BY DEF waitVars, mainVars
<1>2. WaitersExact'
  BY <1>1 DEF Waiting, WaitersExact, TaskAt
<1>3. QED
  BY <1>1, <1>2, WaitingKept DEF Waiting

LEMMA GotoIs ==
  ASSUME Pipelines, NEW p \in Pipes, NEW there, Goto(p, there)
  PROVE  pipe'[p].at = there
<1>1. pipe'[p] = [pipe[p] EXCEPT !.at = there] /\ pipe[p] \in PipeRecords
  BY DEF Goto, Pipelines, PipeRecords
<1>2. QED
  BY <1>1 DEF PipeRecords

\* The steps of a pipeline.
LEMMA WaitingPipe ==
  ASSUME Jobs, Pipelines, Waiting, Own, NEW p \in Pipes, Trigger(p) \/ Pipeline(p)
  PROVE  Waiting'
<1>1. PICK new \in PipeRecords :
            /\ pipe' = [pipe EXCEPT ![p] = new] /\ PipeGoes(pipe[p], new)
            /\ job' = job
            /\ ~Parse(p) => new.task = pipe[p].task
  BY PipelineMoves
<1>2. Goes(job, pipe, job', pipe')
  BY <1>1, PipeMoved
<1>3. /\ pipe'[p] = new /\ (\A q \in Pipes : q # p => pipe'[q] = pipe[q])
      /\ pipe \in [Pipes -> PipeRecords] /\ pipe' \in [Pipes -> PipeRecords]
  BY <1>1 DEF Pipelines, PipeRecords
<1>4. TaskAt(p) \in Tasks /\ TaskAt(p)[1] = p /\ TaskAt(p)[2] = pipe[p].task
  BY TaskAtIs
<1>5. UNCHANGED <<cancelled, main, refusing>>
  BY DEF Trigger, Pipeline, Card, Register, Dispatch, Receive, GiveUp, Parse, mainVars, waitVars
<1>6. chan' = chan \/ chan' = [chan EXCEPT ![TaskAt(p)] = Nothing]
  BY DEF Trigger, Pipeline, Card, Register, Dispatch, Receive, GiveUp, Parse, waitVars
<1>7. /\ chan' \in [Tasks -> Results \cup {Nothing}]
      /\ \A t \in Tasks : chan'[t] = chan[t] \/ chan'[t].kind \notin {"done", "failed"}
  BY <1>4, <1>6 DEF Waiting, Nothing
<1>8. waiters' \in {waiters, waiters \cup {TaskAt(p)}, waiters \ {TaskAt(p)}} /\ waiters' \subseteq Tasks
  <2>1. waiters' \in {waiters, waiters \cup {TaskAt(p)}, waiters \ {TaskAt(p)}}
    BY DEF Trigger, Pipeline, Card, Register, Dispatch, Receive, GiveUp, Parse, Forget, waitVars
  <2>2. QED
    BY <1>4, <2>1 DEF Waiting
<1>9. WaitersExact'
  <2> SUFFICES ASSUME ~cancelled
               PROVE  waiters' = {<<q, pipe'[q].task>> :
                                    q \in {x \in Pipes : pipe'[x].at \in {"dispatch", "wait"}}}
    BY <1>5 DEF WaitersExact, TaskAt
  <2>1. \A t \in Tasks : t \in waiters <=> pipe[t[1]].at \in {"dispatch", "wait"} /\ t[2] = pipe[t[1]].task
    <3>1. WaitersExact /\ waiters \subseteq Tasks
      BY DEF Waiting
    <3>2. waiters = {<<q, pipe[q].task>> : q \in {x \in Pipes : pipe[x].at \in {"dispatch", "wait"}}}
      BY <3>1 DEF WaitersExact, TaskAt
    <3>3. pipe \in [Pipes -> PipeRecords]
      BY <1>3
    <3>4. waiters = {<<q, pipe[q].task>> : q \in {x \in Pipes : pipe[x].at \in {"dispatch", "wait"}}}
            <=> \A t \in Tasks : t \in waiters
                    <=> pipe[t[1]].at \in {"dispatch", "wait"} /\ t[2] = pipe[t[1]].task
      BY <3>1, <3>3, Exact
    <3>5. QED
      BY <3>2, <3>4
  <2>2. ~refusing
    BY DEF Waiting
  <2>3. \/ /\ pipe[p].at \notin {"dispatch", "wait"} /\ new.at \notin {"dispatch", "wait"}
           /\ waiters' = waiters
        \/ /\ pipe[p].at \notin {"dispatch", "wait"} /\ new.at \in {"dispatch", "wait"}
           /\ waiters' = waiters \cup {TaskAt(p)} /\ new.task = pipe[p].task
        \/ /\ pipe[p].at \in {"dispatch", "wait"} /\ new.at \in {"dispatch", "wait"}
           /\ waiters' = waiters /\ new.task = pipe[p].task
        \/ /\ new.at \notin {"dispatch", "wait"}
           /\ waiters' = waiters \ {TaskAt(p)}
    <3>1. CASE Trigger(p) \/ Card(p) \/ Parse(p)
      <4>1. new.at \in {"card", "ended", "register", "parsed", "unparsable"}
        <5>1. CASE Trigger(p) \/ Card(p)
          BY <1>3, <5>1, GotoIs DEF Trigger, Card, Order
        <5>2. CASE Parse(p)
          <6>1. CASE pipe[p].task = "idea"
            BY <1>3, <5>2, <6>1 DEF Parse, Order, Pipelines
          <6>2. CASE pipe[p].task # "idea"
            BY <1>3, <5>2, <6>2, GotoIs DEF Parse
          <6>3. QED
            BY <6>1, <6>2
        <5>3. QED
          BY <3>1, <5>1, <5>2
      <4>2. pipe[p].at \in {"idle", "card", "result"} /\ waiters' = waiters
        BY <3>1 DEF Trigger, Card, Parse, At, waitVars
      <4>3. QED
        BY <4>1, <4>2
    <3>2. CASE Register(p)
      <4>1. new.at = "dispatch" /\ pipe[p].at = "register" /\ waiters' = waiters \cup {TaskAt(p)}
        BY <1>3, <2>2, <3>2, GotoIs DEF Register, Order, At
      <4>2. ~Parse(p)
        BY <4>1 DEF Parse, At
      <4>3. QED
        BY <1>1, <4>1, <4>2
    <3>3. CASE Dispatch(p)
      <4>1. new.at = "wait" /\ pipe[p].at = "dispatch" /\ waiters' = waiters
        BY <1>3, <3>3, GotoIs DEF Dispatch, Order, At, waitVars
      <4>2. ~Parse(p)
        BY <4>1 DEF Parse, At
      <4>3. QED
        BY <1>1, <4>1, <4>2
    <3>4. CASE Receive(p)
      <4>1. new.at \in {"result", "ended"} /\ waiters' = waiters \ {TaskAt(p)}
        BY <1>3, <3>4, GotoIs DEF Receive, Forget
      <4>2. QED
        BY <4>1
    <3>5. ~GiveUp(p)
      BY DEF GiveUp
    <3>6. QED
      BY <3>1, <3>2, <3>3, <3>4, <3>5 DEF Pipeline
  <2>4. \A t \in Tasks : t = TaskAt(p) <=> t[1] = p /\ t[2] = pipe[p].task
    <3> TAKE t \in Tasks
    <3>1. t = <<t[1], t[2]>> /\ TaskAt(p) = <<p, pipe[p].task>>
      BY TaskIs DEF TaskAt
    <3>2. QED
      BY <1>4, <3>1
  <2>5. \A t \in Tasks : t \in waiters'
           <=> pipe'[t[1]].at \in {"dispatch", "wait"} /\ t[2] = pipe'[t[1]].task
    <3> TAKE t \in Tasks
    <3>1. t[1] \in Pipes
      BY TaskIs
    <3>2. CASE t[1] = p
      BY <1>3, <2>1, <2>3, <2>4, <3>2
    <3>3. CASE t[1] # p
      BY <1>3, <2>1, <2>3, <2>4, <3>1, <3>3
    <3>4. QED
      BY <3>2, <3>3
  <2>6. QED
    BY <1>3, <1>8, <2>5, Exact
<1>10. QED
  BY <1>2, <1>5, <1>7, <1>8, <1>9, WaitingKept DEF Waiting

-----------------------------------------------------------------------------
(* The messages *)

LEMMA AllPast ==
  ASSUME Messages, NEW k, NEW r, Goes(job, pipe, k, r)
  PROVE  /\ \A i \in 1..Len(legacy) : Past(legacy[i], k, r)
         /\ \A x \in Publishers : Busy(pub[x]) => Past(pub[x].evt, k, r)
         /\ \A h \in handlers : Past(h.evt, k, r)
<1>1. ASSUME NEW i \in 1..Len(legacy) PROVE Past(legacy[i], k, r)
  <2>1. legacy[i].task \in Tasks /\ legacy[i].n \in Nat /\ Past(legacy[i], job, pipe)
    BY InLegacy, LegacyEvent DEF Messages
  <2>2. QED
    BY <2>1, Lasting
<1>2. ASSUME NEW x \in Publishers, Busy(pub[x]) PROVE Past(pub[x].evt, k, r)
  <2>1. pub[x].evt.task \in Tasks /\ pub[x].evt.n \in Nat /\ Past(pub[x].evt, job, pipe)
    BY <1>2, InPub, DomainEvent DEF Messages, Publications
  <2>2. QED
    BY <2>1, Lasting
<1>3. ASSUME NEW h \in handlers PROVE Past(h.evt, k, r)
  <2>1. h.evt.task \in Tasks /\ h.evt.n \in Nat /\ Past(h.evt, job, pipe)
    BY InHandlers, DomainEvent DEF Messages
  <2>2. QED
    BY <2>1, Lasting
<1>4. QED
  BY <1>1, <1>2, <1>3

\* Handlers may end.
LEMMA MessagesFewer ==
  ASSUME Messages, Goes(job, pipe, job', pipe'), UNCHANGED <<legacy, pub>>, handlers' \subseteq handlers
  PROVE  Messages'
<1>1. Legacy'
  BY AllPast DEF Messages, Legacy
<1>2. Publications'
  BY AllPast DEF Messages, Publications
<1>3. Bridging'
  BY DEF Messages, Bridging
<1>4. Handling'
  <2>1. IsFiniteSet(handlers')
    BY FS_Subset DEF Messages, Handling
  <2>2. QED
    BY <2>1, AllPast DEF Messages, Handling
<1>5. QED
  BY <1>1, <1>2, <1>3, <1>4 DEF Messages

\* Events of the worker, which have just happened, go into the legacy channel.
LEMMA Emitted ==
  ASSUME Legacy, NEW es \in Seq(LegacyEvents), Emit(es)
  PROVE  /\ legacy' \in Seq(LegacyEvents) /\ Len(legacy') <= LegacyCap
         /\ \A i \in 1..Len(legacy') :
               \/ i \in 1..Len(legacy) /\ legacy'[i] = legacy[i]
               \/ /\ i - Len(legacy) \in 1..Len(es) /\ i \notin 1..Len(legacy)
                  /\ legacy'[i] = es[i - Len(legacy)]
<1>1. legacy \in Seq(LegacyEvents) /\ Len(legacy) \in Nat /\ Len(es) \in Nat /\ Len(legacy) <= LegacyCap
  BY LenProperties DEF Legacy
<1> DEFINE m == IF legacyOpen THEN Smaller(Len(es), LegacyCap - Len(legacy)) ELSE 0
           fit == SubSeq(es, 1, m)
<1>2. legacy' = legacy \o fit
  BY DEF Emit
<1>3. m \in Nat /\ m <= Len(es) /\ Len(legacy) + m <= LegacyCap
  BY <1>1, EventsAssumption DEF Smaller
<1> HIDE DEF m
<1>4. fit \in Seq(LegacyEvents) /\ Len(fit) = m /\ \A i \in 1..m : fit[i] = es[i]
  <2>1. \A i \in 1..m : es[i] \in LegacyEvents
    BY <1>1, <1>3, ElementOfSeq
  <2>2. SubSeq(es, 1, m) = [i \in 1..m |-> es[i]]
    BY <1>1, <1>3, SubSeqProperties, SMT
  <2>3. QED
    BY <1>3, <2>1, <2>2, IsASeq, LenProperties
<1> HIDE DEF fit
<1>5. /\ legacy' \in Seq(LegacyEvents) /\ Len(legacy') = Len(legacy) + m
      /\ \A i \in 1..Len(legacy') :
            legacy'[i] = IF i <= Len(legacy) THEN legacy[i] ELSE fit[i - Len(legacy)]
  <2>1. /\ legacy \o fit \in Seq(LegacyEvents) /\ Len(legacy \o fit) = Len(legacy) + Len(fit)
        /\ \A i \in 1..Len(legacy) + Len(fit) : (legacy \o fit)[i] =
              IF i <= Len(legacy) THEN legacy[i] ELSE fit[i - Len(legacy)]
    BY <1>1, <1>4, ConcatProperties
  <2>2. QED
    BY <1>2, <1>4, <2>1
<1>6. Len(legacy') <= LegacyCap
  BY <1>3, <1>5
<1>7. ASSUME NEW i \in 1..Len(legacy'), i > Len(legacy)
      PROVE  i - Len(legacy) \in 1..m /\ legacy'[i] = es[i - Len(legacy)]
  <2>1. i - Len(legacy) \in 1..m
    <3>1. i \in Nat /\ i <= Len(legacy) + m
      BY <1>1, <1>3, <1>5
    <3>2. QED
      BY <1>1, <1>3, <1>7, <3>1
  <2>2. legacy'[i] = fit[i - Len(legacy)]
    BY <1>1, <1>5, <1>7
  <2>3. QED
    BY <1>4, <2>1, <2>2
<1>8. ASSUME NEW i \in 1..Len(legacy'), ~(i > Len(legacy))
      PROVE  i \in 1..Len(legacy) /\ legacy'[i] = legacy[i]
  BY <1>1, <1>5, <1>8
<1>9. \A i \in 1..m : i \in 1..Len(es)
  BY <1>1, <1>3
<1>10. QED
  BY <1>1, <1>5, <1>6, <1>7, <1>8, <1>9

LEMMA MessagesEmitted ==
  ASSUME Messages, Goes(job, pipe, job', pipe'), UNCHANGED <<pub, handlers>>,
         NEW es \in Seq(LegacyEvents), Emit(es),
         \A i \in 1..Len(es) : Past(es[i], job', pipe') /\ ~Past(es[i], job, pipe),
         \A i, j \in 1..Len(es) : Same(es[i], es[j]) => i = j
  PROVE  Messages'
<1>1. /\ legacy' \in Seq(LegacyEvents) /\ Len(legacy') <= LegacyCap
      /\ \A i \in 1..Len(legacy') :
            \/ i \in 1..Len(legacy) /\ legacy'[i] = legacy[i]
            \/ /\ i - Len(legacy) \in 1..Len(es) /\ i \notin 1..Len(legacy)
               /\ legacy'[i] = es[i - Len(legacy)]
  BY Emitted DEF Messages
<1>2. \A i \in 1..Len(legacy') : Past(legacy'[i], job', pipe')
  BY <1>1, AllPast
<1>3. \A e : \A i \in 1..Len(es) : Past(e, job, pipe) => ~Same(es[i], e) /\ ~Same(e, es[i])
  BY SamePast DEF Same
<1>4. \A i, j \in 1..Len(legacy') : Same(legacy'[i], legacy'[j]) => i = j
  <2> SUFFICES ASSUME NEW i \in 1..Len(legacy'), NEW j \in 1..Len(legacy'),
                      Same(legacy'[i], legacy'[j])
               PROVE  i = j
    OBVIOUS
  <2>1. Len(legacy) \in Nat
    BY LenProperties DEF Messages, Legacy
  <2>2. CASE i \in 1..Len(legacy) /\ j \in 1..Len(legacy)
    BY <1>1, <2>2 DEF Messages, Legacy
  <2>3. CASE i \in 1..Len(legacy) /\ j \notin 1..Len(legacy)
    BY <1>1, <1>3, <2>3, InLegacy DEF Messages
  <2>4. CASE i \notin 1..Len(legacy) /\ j \in 1..Len(legacy)
    BY <1>1, <1>3, <2>4, InLegacy DEF Messages
  <2>5. CASE i \notin 1..Len(legacy) /\ j \notin 1..Len(legacy)
    <3>1. i - Len(legacy) = j - Len(legacy)
      BY <1>1, <2>5
    <3>2. QED
      BY <2>1, <3>1
  <2>6. QED
    BY <2>2, <2>3, <2>4, <2>5
<1>5. Legacy'
  BY <1>1, <1>2, <1>4 DEF Legacy
<1>6. Publications'
  BY AllPast DEF Messages, Publications
<1>7. \A e : Past(e, job, pipe) /\ (\A i \in 1..Len(legacy) : ~Same(legacy[i], e))
               => \A i \in 1..Len(legacy') : ~Same(legacy'[i], e)
  BY <1>1, <1>3
<1>8. Bridging'
  <2> SUFFICES ASSUME Busy(pub["bridge"])
               PROVE  /\ pub["bridge"].evt.kind \in {"started", "done", "failed"}
                      /\ \A i \in 1..Len(legacy') : ~Same(legacy'[i], pub["bridge"].evt)
    BY DEF Bridging
  <2>1. Past(pub["bridge"].evt, job, pipe)
    BY PipesThere DEF Messages, Publications
  <2>2. QED
    BY <1>7, <2>1 DEF Messages, Bridging
<1>9. Handling'
  <2>1. \A h \in handlers : Past(h.evt, job, pipe)
    BY DEF Messages, Handling
  <2>2. \A h \in handlers : \A i \in 1..Len(legacy') : ~Same(legacy'[i], h.evt)
    BY <1>7, <2>1 DEF Messages, Handling
  <2>3. QED
    BY <2>2, AllPast DEF Messages, Handling
<1>10. QED
  BY <1>5, <1>6, <1>8, <1>9 DEF Messages

\* The bridge takes the head of the channel.
LEMMA LegacyTail ==
  ASSUME Messages, Goes(job, pipe, job', pipe'), legacy # <<>>, legacy' = Tail(legacy)
  PROVE  /\ Legacy' /\ 1 \in 1..Len(legacy) /\ legacy[1] = Head(legacy)
         /\ \A i \in 1..Len(legacy') : i + 1 \in 1..Len(legacy) /\ legacy'[i] = legacy[i + 1]
<1>1. legacy \in Seq(LegacyEvents) /\ Len(legacy) \in Nat /\ Len(legacy) <= LegacyCap
  BY LenProperties DEF Messages, Legacy
<1>2. /\ legacy' \in Seq(LegacyEvents) /\ Len(legacy') = Len(legacy) - 1
      /\ \A i \in 1..Len(legacy') : legacy'[i] = legacy[i + 1]
      /\ Head(legacy) = legacy[1] /\ Len(legacy) > 0
  <2>1. /\ Tail(legacy) \in Seq(LegacyEvents) /\ Len(Tail(legacy)) = Len(legacy) - 1
        /\ \A i \in 1..Len(Tail(legacy)) : Tail(legacy)[i] = legacy[i + 1]
    BY <1>1, HeadTailProperties
  <2>2. Len(legacy) # 0
    BY <1>1, EmptySeq
  <2>3. QED
    BY <1>1, <2>1, <2>2
<1>3. \A i \in 1..Len(legacy') : i + 1 \in 1..Len(legacy)
  BY <1>1, <1>2
<1>4. \A i \in 1..Len(legacy') : Past(legacy'[i], job', pipe')
  BY <1>2, <1>3, AllPast
<1>5. \A i, j \in 1..Len(legacy') : Same(legacy'[i], legacy'[j]) => i = j
  <2> TAKE i, j \in 1..Len(legacy')
  <2>1. Same(legacy[i + 1], legacy[j + 1]) => i + 1 = j + 1
    BY <1>3 DEF Messages, Legacy
  <2>2. QED
    BY <1>1, <1>2, <2>1
<1>6. Len(legacy') <= LegacyCap /\ 1 \in 1..Len(legacy)
  BY <1>1, <1>2, EventsAssumption
<1>7. QED
  BY <1>2, <1>3, <1>4, <1>5, <1>6 DEF Legacy

LEMMA MessagesDropped ==
  ASSUME Messages, Goes(job, pipe, job', pipe'), legacy # <<>>, legacy' = Tail(legacy),
         UNCHANGED <<pub, handlers>>
  PROVE  Messages'
<1>1. /\ Legacy'
      /\ \A i \in 1..Len(legacy') : i + 1 \in 1..Len(legacy) /\ legacy'[i] = legacy[i + 1]
  BY LegacyTail
<1>2. Publications'
  BY AllPast DEF Messages, Publications
<1>3. Bridging'
  BY <1>1 DEF Messages, Bridging
<1>4. Handling'
  BY <1>1, AllPast DEF Messages, Handling
<1>5. QED
  BY <1>1, <1>2, <1>3, <1>4 DEF Messages

\* An event that nobody has seen yet is published.
LEMMA PublishMessages ==
  ASSUME Messages, Goes(job, pipe, job', pipe'), NEW x \in Publishers, NEW e \in DomainEvents,
         ~stopped, Publish(x, e), UNCHANGED handlers, Past(e, job', pipe'),
         \A h \in handlers : h.evt # e,
         \/ legacy' = legacy /\ x # "bridge"
         \/ /\ x = "bridge" /\ legacy # <<>> /\ legacy' = Tail(legacy)
            /\ e.kind \in {"started", "done", "failed"} /\ Same(legacy[1], e)
  PROVE  Messages'
<1> DEFINE new == [at |-> "loop", evt |-> e, todo |-> subs \cap Filter(e.kind)]
<1>1. pub' = [pub EXCEPT ![x] = new]
  BY DEF Publish
<1>2. e.kind \in Kinds
  BY DomainEvent
<1>3. Filter(e.kind) \subseteq Subscribers
  BY <1>2, FilterIs DEF Kinds, Subscribers
<1>4. new \in Pubs
  BY <1>3 DEF Pubs
<1>5. Busy(new) /\ new.evt = e /\ Owed(new) \subseteq Filter(e.kind) /\ new.at = "loop"
  BY DEF Busy, Owed
<1> HIDE DEF new
<1>6. /\ pub' \in [Publishers -> Pubs] /\ pub'[x] = new
      /\ \A y \in Publishers : y # x => pub'[y] = pub[y]
  BY <1>1, <1>4 DEF Messages, Publications
<1>7. /\ Legacy'
      /\ \A i \in 1..Len(legacy') : \E k \in 1..Len(legacy) :
            legacy'[i] = legacy[k] /\ (x = "bridge" => k # 1)
  <2>1. CASE legacy' = legacy /\ x # "bridge"
    <3>1. Legacy'
      BY <2>1, AllPast DEF Messages, Legacy
    <3>2. QED
      BY <2>1, <3>1
  <2>2. CASE x = "bridge" /\ legacy # <<>> /\ legacy' = Tail(legacy)
    <3>1. /\ Legacy'
          /\ \A i \in 1..Len(legacy') : i + 1 \in 1..Len(legacy) /\ legacy'[i] = legacy[i + 1]
      BY <2>2, LegacyTail
    <3>2. \A i \in 1..Len(legacy') : i + 1 # 1
      BY DEF Messages
    <3>3. QED
      BY <3>1, <3>2
  <2>3. QED
    BY <2>1, <2>2
<1>8. Publications'
  <2>1. \A y \in Publishers : Busy(pub'[y]) =>
          /\ Owed(pub'[y]) \subseteq Filter(pub'[y].evt.kind)
          /\ Past(pub'[y].evt, job', pipe')
          /\ pub'[y].at = "acquire" => pub'[y].sub \notin pub'[y].todo
    <3> TAKE y \in Publishers
    <3>1. CASE y = x
      BY <1>5, <1>6, <3>1
    <3>2. CASE y # x
      BY <1>6, <3>2, AllPast DEF Messages, Publications
    <3>3. QED
      BY <3>1, <3>2
  <2>2. QED
    BY <1>6, <2>1 DEF Publications
<1>9. Bridging'
  <2>1. CASE x = "bridge"
    <3>1. ASSUME NEW i \in 1..Len(legacy') PROVE ~Same(legacy'[i], e)
      <4>1. PICK k \in 1..Len(legacy) : legacy'[i] = legacy[k] /\ k # 1
        BY <1>7, <2>1
      <4>2. 1 \in 1..Len(legacy) /\ Same(legacy[1], e)
        BY <2>1, LegacyTail
      <4>3. Same(legacy[k], e) => Same(legacy[k], legacy[1])
        BY <4>2 DEF Same
      <4>4. QED
        BY <4>1, <4>2, <4>3 DEF Messages, Legacy
    <3>2. QED
      BY <1>5, <1>6, <2>1, <3>1 DEF Bridging
  <2>2. CASE x # "bridge"
    BY <1>6, <1>7, <2>2, PipesThere DEF Messages, Bridging
  <2>3. QED
    BY <2>1, <2>2
<1>10. Handling'
  <2>1. \A h \in handlers : \A i \in 1..Len(legacy') : ~Same(legacy'[i], h.evt)
    BY <1>7 DEF Messages, Handling
  <2>2. \A h \in handlers : \A y \in Publishers :
          Busy(pub'[y]) /\ pub'[y].evt = h.evt => h.sub \notin Owed(pub'[y])
    <3> TAKE h \in handlers
    <3> TAKE y \in Publishers
    <3>1. CASE y = x
      BY <1>5, <1>6, <3>1
    <3>2. CASE y # x
      BY <1>6, <3>2 DEF Messages, Handling
    <3>3. QED
      BY <3>1, <3>2
  <2>3. QED
    BY <2>1, <2>2, AllPast DEF Messages, Handling
<1>11. QED
  BY <1>7, <1>8, <1>9, <1>10 DEF Messages

\* Two calls of Publish never carry the same event.
LEMMA PubsDiffer ==
  ASSUME Pipelines, Bridging, Own, NEW x \in Publishers, NEW y \in Publishers,
         Busy(pub[x]), Busy(pub[y]), pub[x].evt = pub[y].evt
  PROVE  x = y
<1>1. ASSUME NEW p \in Pipes, Busy(pub[p])
      PROVE  pub[p].evt.kind \in {"pipeline", "submitted"} /\ pub[p].evt.task[1] = p
  BY <1>1, TaskAtIs DEF Own
<1>2. CASE x \in Pipes /\ y \in Pipes
  BY <1>1, <1>2
<1>3. CASE x \notin Pipes \/ y \notin Pipes
  BY <1>1, <1>3 DEF Publishers, Bridging
<1>4. QED
  BY <1>2, <1>3

\* A call of Publish goes on with its event, to fewer subscribers, one of which
\* may have got its handler.
LEMMA PubMoved ==
  ASSUME Pipelines, Messages, Own, Undelivered, UNCHANGED <<job, pipe, legacy>>,
         Goes(job, pipe, job', pipe'),
         NEW x \in Publishers, NEW new \in Pubs, pub' = [pub EXCEPT ![x] = new], Busy(pub[x]),
         Busy(new) => /\ new.evt = pub[x].evt /\ Owed(new) \subseteq Owed(pub[x])
                      /\ new.at = "acquire" => new.sub \notin new.todo,
         \/ handlers' = handlers
         \/ \E s \in Owed(pub[x]) :
               /\ Busy(new) => s \notin Owed(new)
               /\ handlers' = handlers \cup {[sub |-> s, evt |-> pub[x].evt, at |-> "start"]}
  PROVE  Messages' /\ Own' /\ Undelivered'
<1> DEFINE e == pub[x].evt
<1>1. /\ pub' \in [Publishers -> Pubs] /\ pub'[x] = new
      /\ \A y \in Publishers : y # x => pub'[y] = pub[y]
  BY DEF Messages, Publications
<1>2. \A y \in Publishers : Busy(pub'[y]) =>
         /\ Busy(pub[y]) /\ pub'[y].evt = pub[y].evt /\ Owed(pub'[y]) \subseteq Owed(pub[y])
         /\ pub'[y].at = "acquire" => pub'[y].sub \notin pub'[y].todo
  BY <1>1 DEF Messages, Publications
<1>3. e \in DomainEvents /\ Past(e, job, pipe) /\ Owed(pub[x]) \subseteq Filter(e.kind)
  BY InPub DEF Messages, Publications
<1>4. Legacy'
  BY AllPast DEF Messages, Legacy
<1>5. Publications'
  BY <1>1, <1>2, AllPast DEF Messages, Publications
<1>6. Bridging'
  BY <1>2, PipesThere DEF Messages, Bridging
<1>7. \A i \in 1..Len(legacy) : ~Same(legacy[i], e)
  <2>1. CASE x \in Pipes
    <3>1. e.kind \in {"pipeline", "submitted"}
      BY <2>1 DEF Own
    <3>2. QED
      BY <3>1, InLegacy, LegacyEvent DEF Messages, Same
  <2>2. CASE x \notin Pipes
    BY <2>2 DEF Messages, Bridging, Publishers
  <2>3. QED
    BY <2>1, <2>2
<1>8. Handling' /\ \A h \in handlers' : h.sub = "delivery" => job'[h.evt.task].at = "none"
  <2>1. CASE handlers' = handlers
    BY <1>2, <2>1, AllPast DEF Messages, Handling, Undelivered
  <2>2. ASSUME NEW s \in Owed(pub[x]), Busy(new) => s \notin Owed(new),
               handlers' = handlers \cup {[sub |-> s, evt |-> e, at |-> "start"]}
        PROVE  Handling' /\ \A h \in handlers' : h.sub = "delivery" => job'[h.evt.task].at = "none"
    <3> DEFINE g == [sub |-> s, evt |-> e, at |-> "start"]
    <3>1. s \in Subscribers /\ s \in Filter(e.kind)
      BY <1>3, InPub DEF Owed, Busy, Messages
    <3>2. g \in Handlers /\ g.sub = s /\ g.evt = e /\ g.at = "start"
      BY <1>3, <3>1 DEF Handlers
    <3> HIDE DEF g
    <3>3. handlers' = handlers \cup {g}
      BY <2>2 DEF g
    <3>4. handlers' \subseteq Handlers /\ IsFiniteSet(handlers')
      BY <3>2, <3>3, FS_AddElement DEF Messages, Handling
    <3>5. \A y \in Publishers : Busy(pub'[y]) /\ pub'[y].evt = e => s \notin Owed(pub'[y])
      <4> SUFFICES ASSUME NEW y \in Publishers, Busy(pub'[y]), pub'[y].evt = e
                   PROVE  s \notin Owed(pub'[y])
        OBVIOUS
      <4>1. x = y
        BY <1>2, PubsDiffer DEF Messages
      <4>2. QED
        BY <1>1, <2>2, <4>1
    <3>6. \A h \in handlers : ~(h.sub = s /\ h.evt = e)
      BY DEF Messages, Handling
    <3>7. \A h \in handlers' :
          /\ h.sub \in Filter(h.evt.kind)
          /\ h.at = "send" => h.sub \in {"done", "failed"}
          /\ Past(h.evt, job', pipe')
          /\ \A i \in 1..Len(legacy') : ~Same(legacy'[i], h.evt)
          /\ \A y \in Publishers : Busy(pub'[y]) /\ pub'[y].evt = h.evt => h.sub \notin Owed(pub'[y])
      <4> TAKE h \in handlers'
      <4>1. CASE h = g
        <5>1. Past(e, job', pipe')
          BY <1>3
        <5>2. QED
          BY <1>7, <3>1, <3>2, <3>5, <4>1, <5>1
      <4>2. CASE h \in handlers
        BY <1>2, <4>2, AllPast DEF Messages, Handling
      <4>3. QED
        BY <3>3, <4>1, <4>2
    <3>8. \A h, k \in handlers' : h.sub = k.sub /\ h.evt = k.evt => h = k
      BY <3>2, <3>3, <3>6 DEF Messages, Handling
    <3>9. s = "delivery" => job[e.task].at = "none"
      BY DEF Undelivered
    <3>10. \A h \in handlers' : h.sub = "delivery" => job'[h.evt.task].at = "none"
      BY <3>2, <3>3, <3>9 DEF Undelivered
    <3>11. QED
      BY <3>4, <3>7, <3>8, <3>10 DEF Handling
  <2>3. QED
    BY <2>1, <2>2
<1>9. Own'
  BY <1>2, PipesThere DEF Own, At, TaskAt
<1>10. Undelivered'
  BY <1>2, <1>8 DEF Undelivered
<1>11. QED
  BY <1>4, <1>5, <1>6, <1>8, <1>9, <1>10 DEF Messages

-----------------------------------------------------------------------------
(* The wait group *)

Acquiring(b) == {x \in Publishers : b[x].at = "acquire"}

LEMMA AcquiringFinite == \A b : IsFiniteSet(Acquiring(b)) /\ Cardinality(Acquiring(b)) \in Nat
<1> TAKE b
<1>1. IsFiniteSet(Acquiring(b))
  BY PipesThere, FS_Subset DEF Acquiring
<1>2. QED
  BY <1>1, FS_CardinalityType

\* The count follows the one call that moves.
LEMMA AcquiringMoved ==
  ASSUME NEW x \in Publishers, NEW b, NEW c, \A y \in Publishers : y # x => c[y] = b[y]
  PROVE  /\ b[x].at = "acquire" /\ c[x].at # "acquire"
              => Cardinality(Acquiring(c)) = Cardinality(Acquiring(b)) - 1
         /\ b[x].at # "acquire" /\ c[x].at = "acquire"
              => Cardinality(Acquiring(c)) = Cardinality(Acquiring(b)) + 1
         /\ (b[x].at = "acquire" <=> c[x].at = "acquire")
              => Cardinality(Acquiring(c)) = Cardinality(Acquiring(b))
<1>1. ASSUME b[x].at = "acquire", c[x].at # "acquire"
      PROVE  Cardinality(Acquiring(c)) = Cardinality(Acquiring(b)) - 1
  <2>1. Acquiring(c) = Acquiring(b) \ {x} /\ x \in Acquiring(b)
    BY <1>1 DEF Acquiring
  <2>2. QED
    BY <2>1, AcquiringFinite, FS_RemoveElement
<1>2. ASSUME b[x].at # "acquire", c[x].at = "acquire"
      PROVE  Cardinality(Acquiring(c)) = Cardinality(Acquiring(b)) + 1
  <2>1. Acquiring(c) = Acquiring(b) \cup {x} /\ x \notin Acquiring(b)
    BY <1>2 DEF Acquiring
  <2>2. QED
    BY <2>1, AcquiringFinite, FS_AddElement
<1>3. ASSUME b[x].at = "acquire" <=> c[x].at = "acquire"
      PROVE  Cardinality(Acquiring(c)) = Cardinality(Acquiring(b))
  <2>1. Acquiring(c) = Acquiring(b)
    BY <1>3 DEF Acquiring
  <2>2. QED
    BY <2>1
<1>4. QED
  BY <1>1, <1>2, <1>3

LEMMA CountedIs ==
  Counted <=> /\ Cardinality(handlers) <= Slots
              /\ wg = Cardinality(handlers) + Cardinality(Acquiring(pub))
  BY DEF Counted, Acquiring

LEMMA CountedIsPrimed ==
  Counted' <=> /\ Cardinality(handlers') <= Slots
               /\ wg' = Cardinality(handlers') + Cardinality(Acquiring(pub'))
  BY DEF Counted, Acquiring

\* A handler that returns takes its unit with it.
LEMMA CountedReturn ==
  ASSUME Handling, Counted, NEW h \in handlers, Return(h), pub' = pub
  PROVE  Counted'
<1>1. IsFiniteSet(handlers) /\ Cardinality(handlers) \in Nat
  BY FS_CardinalityType DEF Handling
<1>2. Cardinality(handlers') = Cardinality(handlers) - 1 /\ wg' = wg - 1
  BY <1>1, FS_RemoveElement DEF Return
<1>3. QED
  BY <1>1, <1>2, CountedIs, CountedIsPrimed, AcquiringFinite, EventsAssumption

\* Calls of Publish that begin ask for no slot yet.
LEMMA CountedPublish ==
  ASSUME Publications, Counted, NEW x \in Publishers, ~Busy(pub[x]), NEW e,
         Publish(x, e) \/ pub' = pub, UNCHANGED <<handlers, wg>>
  PROVE  Counted'
<1>1. CASE pub' = pub
  BY <1>1 DEF Counted
<1>2. CASE Publish(x, e) /\ ~stopped
  <2>1. pub'[x].at = "loop" /\ \A y \in Publishers : y # x => pub'[y] = pub[y]
    BY <1>2 DEF Publish, Publications
  <2>2. pub[x].at # "acquire"
    BY DEF Busy
  <2>3. Cardinality(Acquiring(pub')) = Cardinality(Acquiring(pub))
    BY <2>1, <2>2, AcquiringMoved
  <2>4. QED
    BY <2>3, CountedIs, CountedIsPrimed
<1>3. CASE Publish(x, e) /\ stopped
  BY <1>3 DEF Publish, Counted
<1>4. QED
  BY <1>1, <1>2, <1>3

-----------------------------------------------------------------------------
(* One step of a call of Publish *)

LEMMA PublishingStep ==
  ASSUME IInv, NEW x \in Publishers, Publishing(x)
  PROVE  Messages' /\ Own' /\ Undelivered' /\ Counted'
<1>1. UNCHANGED <<job, pipe, legacy>>
  BY DEF Publishing, NextSubscriber, Acquire, Abandon, linkVars, pipeVars
<1>2. Goes(job, pipe, job', pipe')
  BY <1>1, Unmoved DEF IInv
<1>3. pub \in [Publishers -> Pubs]
  BY DEF IInv, Messages, Publications
<1>4. IsFiniteSet(handlers) /\ Cardinality(handlers) \in Nat
  BY FS_CardinalityType DEF IInv, Messages, Handling
<1>5. CASE NextSubscriber(x)
  <2>1. Busy(pub[x]) /\ pub[x].at = "loop" /\ handlers' = handlers
    BY <1>5 DEF NextSubscriber, Busy
  <2>2. CASE pub[x].todo = {} /\ pub' = [pub EXCEPT ![x] = NoPub] /\ wg' = wg
    <3>1. NoPub \in Pubs /\ ~Busy(NoPub) /\ NoPub.at # "acquire"
      BY DEF Pubs, Busy, NoPub
    <3>2. pub'[x] = NoPub /\ \A y \in Publishers : y # x => pub'[y] = pub[y]
      BY <1>3, <2>2
    <3>3. Messages' /\ Own' /\ Undelivered'
      BY <1>1, <1>2, <2>1, <2>2, <3>1, PubMoved DEF IInv
    <3>4. Counted'
      BY <2>1, <2>2, <3>1, <3>2, AcquiringMoved, CountedIs, CountedIsPrimed DEF IInv
    <3>5. QED
      BY <3>3, <3>4
  <2>3. CASE \E s \in pub[x].todo :
                /\ pub' = [pub EXCEPT ![x] = [at |-> "acquire", evt |-> @.evt,
                                              todo |-> @.todo \ {s}, sub |-> s]]
                /\ wg' = wg + 1
    <3>1. PICK s \in pub[x].todo :
                /\ pub' = [pub EXCEPT ![x] = [at |-> "acquire", evt |-> @.evt,
                                              todo |-> @.todo \ {s}, sub |-> s]]
                /\ wg' = wg + 1
      BY <2>3
    <3> DEFINE new == [at |-> "acquire", evt |-> pub[x].evt, todo |-> pub[x].todo \ {s}, sub |-> s]
    <3>2. pub' = [pub EXCEPT ![x] = new]
      BY <3>1
    <3>3. pub[x].evt \in DomainEvents /\ pub[x].todo \subseteq Subscribers
      BY <2>1, InPub DEF IInv, Messages
    <3>4. new \in Pubs
      BY <3>3 DEF Pubs
    <3>5. Owed(pub[x]) = pub[x].todo
      BY <2>1 DEF Owed
    <3>6. /\ new.evt = pub[x].evt /\ Owed(new) \subseteq Owed(pub[x]) /\ new.at = "acquire"
          /\ new.sub \notin new.todo
      BY <3>5 DEF Owed
    <3> HIDE DEF new
    <3>7. pub'[x] = new /\ \A y \in Publishers : y # x => pub'[y] = pub[y]
      BY <1>3, <3>2
    <3>8. Messages' /\ Own' /\ Undelivered'
      BY <1>1, <1>2, <2>1, <3>2, <3>4, <3>6, PubMoved DEF IInv
    <3>9. Cardinality(Acquiring(pub')) = Cardinality(Acquiring(pub)) + 1
      BY <2>1, <3>6, <3>7, AcquiringMoved
    <3>10. Counted'
      BY <1>4, <2>1, <3>1, <3>9, AcquiringFinite, CountedIs, CountedIsPrimed DEF IInv
    <3>11. QED
      BY <3>8, <3>10
  <2>4. QED
    BY <1>5, <2>2, <2>3 DEF NextSubscriber
<1>6. CASE Acquire(x)
  <2> DEFINE new == [at |-> "loop", evt |-> pub[x].evt, todo |-> pub[x].todo]
             g == [sub |-> pub[x].sub, evt |-> pub[x].evt, at |-> "start"]
  <2>1. /\ Busy(pub[x]) /\ pub[x].at = "acquire" /\ wg' = wg
        /\ handlers' = handlers \cup {g} /\ Cardinality(handlers) < Slots
    BY <1>6 DEF Acquire, Busy
  <2>2. pub' = [pub EXCEPT ![x] = new]
    BY <1>6 DEF Acquire
  <2>3. pub[x].evt \in DomainEvents /\ pub[x].todo \subseteq Subscribers
    BY <2>1, InPub DEF IInv, Messages
  <2>4. new \in Pubs
    BY <2>3 DEF Pubs
  <2>5. Owed(pub[x]) = pub[x].todo \cup {pub[x].sub} /\ pub[x].sub \notin pub[x].todo
    BY <2>1 DEF Owed, IInv, Messages, Publications
  <2>6. new.evt = pub[x].evt /\ Owed(new) = pub[x].todo /\ new.at = "loop"
    BY DEF Owed
  <2>7. g \notin handlers
    <3>1. g.sub \in Owed(pub[x]) /\ g.evt = pub[x].evt
      BY <2>5
    <3> HIDE DEF g
    <3>2. QED
      BY <2>1, <3>1 DEF IInv, Messages, Handling
  <2> HIDE DEF new
  <2>8. pub'[x] = new /\ \A y \in Publishers : y # x => pub'[y] = pub[y]
    BY <1>3, <2>2
  <2>9. Messages' /\ Own' /\ Undelivered'
    BY <1>1, <1>2, <2>1, <2>2, <2>4, <2>5, <2>6, PubMoved DEF IInv
  <2>10. Cardinality(Acquiring(pub')) = Cardinality(Acquiring(pub)) - 1
    BY <2>1, <2>6, <2>8, AcquiringMoved
  <2> HIDE DEF g
  <2>11. Cardinality(handlers') = Cardinality(handlers) + 1
    BY <1>4, <2>1, <2>7, FS_AddElement
  <2>12. Counted'
    BY <1>4, <2>1, <2>10, <2>11, AcquiringFinite, CountedIs, CountedIsPrimed, EventsAssumption DEF IInv
  <2>13. QED
    BY <2>9, <2>12
<1>7. CASE Abandon(x)
  <2>1. /\ Busy(pub[x]) /\ pub[x].at = "acquire" /\ wg' = wg - 1 /\ handlers' = handlers
        /\ pub' = [pub EXCEPT ![x] = NoPub]
    BY <1>7 DEF Abandon, Busy
  <2>2. NoPub \in Pubs /\ ~Busy(NoPub) /\ NoPub.at # "acquire"
    BY DEF Pubs, Busy, NoPub
  <2>3. pub'[x] = NoPub /\ \A y \in Publishers : y # x => pub'[y] = pub[y]
    BY <1>3, <2>1
  <2>4. Messages' /\ Own' /\ Undelivered'
    BY <1>1, <1>2, <2>1, <2>2, PubMoved DEF IInv
  <2>5. Cardinality(Acquiring(pub')) = Cardinality(Acquiring(pub)) - 1
    <3>1. pub[x].at = "acquire" /\ pub'[x].at # "acquire"
      BY <2>1, <2>2, <2>3
    <3>2. QED
      BY <2>3, <3>1, AcquiringMoved
  <2>6. Counted'
    BY <1>4, <2>1, <2>5, AcquiringFinite, CountedIs, CountedIsPrimed DEF IInv
  <2>7. QED
    BY <2>4, <2>6
<1>8. QED
  BY <1>5, <1>6, <1>7 DEF Publishing

-----------------------------------------------------------------------------
(* The handlers *)

LEMMA OwnStay ==
  ASSUME Own, UNCHANGED <<pipe, pub>>
  PROVE  Own'
  BY DEF Own, At, TaskAt

\* Handlers end or go on, and no task appears in the queue.
LEMMA UndeliveredStay ==
  ASSUME Publications, Handling, Undelivered, pub' = pub,
         \A g \in handlers' : \E h \in handlers : g.sub = h.sub /\ g.evt = h.evt,
         \A t \in Tasks : job[t].at = "none" => job'[t].at = "none"
  PROVE  Undelivered'
<1>1. \A x \in Publishers : Busy(pub[x]) => pub[x].evt.task \in Tasks
  BY InPub, DomainEvent
<1>2. \A h \in handlers : h.evt.task \in Tasks
  BY InHandlers, DomainEvent
<1>3. QED
  BY <1>1, <1>2 DEF Undelivered

\* A handler that looked a channel up goes on to send.
LEMMA MessagesLook ==
  ASSUME Messages, Goes(job, pipe, job', pipe'), UNCHANGED <<legacy, pub>>,
         NEW h \in handlers, NEW g \in Handlers, g.sub = h.sub, g.evt = h.evt,
         h.sub \in {"done", "failed"}, handlers' = (handlers \ {h}) \cup {g}
  PROVE  Messages'
<1>1. Legacy' /\ Publications' /\ Bridging'
  <2>1. Legacy'
    BY AllPast DEF Messages, Legacy
  <2>2. Publications'
    BY AllPast DEF Messages, Publications
  <2>3. Bridging'
    BY DEF Messages, Bridging
  <2>4. QED
    BY <2>1, <2>2, <2>3
<1>2. IsFiniteSet(handlers') /\ handlers' \subseteq Handlers
  <2>1. IsFiniteSet(handlers \ {h})
    BY FS_Subset DEF Messages, Handling
  <2>2. QED
    BY <2>1, FS_AddElement DEF Messages, Handling
<1>3. \A k \in handlers' :
        /\ k.sub \in Filter(k.evt.kind)
        /\ k.at = "send" => k.sub \in {"done", "failed"}
        /\ Past(k.evt, job', pipe')
        /\ \A i \in 1..Len(legacy') : ~Same(legacy'[i], k.evt)
        /\ \A x \in Publishers : Busy(pub'[x]) /\ pub'[x].evt = k.evt => k.sub \notin Owed(pub'[x])
  <2> TAKE k \in handlers'
  <2>1. PICK o \in handlers : k.sub = o.sub /\ k.evt = o.evt /\ (k = o \/ h.sub = k.sub)
    <3>1. CASE k = g
      BY <3>1
    <3>2. CASE k \in handlers
      BY <3>2
    <3>3. QED
      BY <3>1, <3>2
  <2>2. QED
    BY <2>1, AllPast DEF Messages, Handling
<1>4. \A k, l \in handlers' : k.sub = l.sub /\ k.evt = l.evt => k = l
  BY DEF Messages, Handling
<1>5. Handling'
  BY <1>2, <1>3, <1>4 DEF Handling
<1>6. QED
  BY <1>1, <1>5 DEF Messages

LEMMA DeliverInv ==
  ASSUME IInv, NEW h \in handlers, Deliver(h)
  PROVE  IInv'
<1> DEFINE t == h.evt.task
<1>1. /\ Jobs' /\ Goes(job, pipe, job', pipe')
      /\ h.evt.kind = "submitted" /\ h.evt.n = 0 /\ t \in Tasks
      /\ \A u \in Tasks : u # t => job'[u] = job[u]
  BY DeliverStep DEF IInv, Messages
<1>2. UNCHANGED <<pipe, got, legacy, pub>> /\ UNCHANGED <<waitVars, mainVars>>
      /\ Return(h) /\ h.sub = "delivery"
  BY DEF Deliver, pipeVars, linkVars
<1>3. handlers' = handlers \ {h}
  BY <1>2 DEF Return
<1>4. Pipelines'
  BY <1>1, <1>2, PipelinesStay DEF IInv
<1>5. Waiting'
  BY <1>1, <1>2, WaitingStay DEF IInv
<1>6. Messages'
  BY <1>1, <1>2, <1>3, MessagesFewer DEF IInv
<1>7. Own'
  BY <1>2, OwnStay DEF IInv
<1>8. Counted'
  BY <1>2, CountedReturn DEF IInv, Messages
<1>9. \A e \in DomainEvents : "delivery" \in Filter(e.kind) /\ Past(e, job, pipe)
         => e.task \in Tasks /\ (e.task = t => e = h.evt)
  <2> TAKE e \in DomainEvents
  <2> HAVE "delivery" \in Filter(e.kind) /\ Past(e, job, pipe)
  <2>1. e.kind \in Kinds /\ e.task \in Tasks
    BY DomainEvent
  <2>2. e.kind = "submitted"
    BY <2>1, FilterIs DEF Kinds
  <2>3. e.n = 0
    BY <2>2 DEF Past
  <2>4. h.evt \in DomainEvents
    BY InHandlers DEF IInv, Messages
  <2>5. e.task = t => Same(e, h.evt)
    BY <1>1, <2>2, <2>3 DEF Same
  <2>6. QED
    BY <2>1, <2>4, <2>5, DomainEvent
<1>10. ASSUME NEW x \in Publishers, Busy(pub[x]), "delivery" \in Owed(pub[x])
       PROVE  job'[pub[x].evt.task].at = "none"
  <2>1. pub[x].evt \in DomainEvents /\ "delivery" \in Filter(pub[x].evt.kind) /\ Past(pub[x].evt, job, pipe)
    BY <1>10, InPub DEF IInv, Messages, Publications
  <2>2. pub[x].evt # h.evt
    BY <1>2, <1>10 DEF IInv, Messages, Handling
  <2>3. pub[x].evt.task \in Tasks /\ pub[x].evt.task # t
    BY <1>9, <2>1, <2>2
  <2>4. QED
    BY <1>1, <1>10, <2>3 DEF IInv, Undelivered
<1>11. ASSUME NEW g \in handlers, g # h, g.sub = "delivery"
       PROVE  job'[g.evt.task].at = "none"
  <2>1. g.evt \in DomainEvents /\ "delivery" \in Filter(g.evt.kind) /\ Past(g.evt, job, pipe)
    BY <1>11, InHandlers DEF IInv, Messages
  <2>2. g.evt # h.evt
    BY <1>2, <1>11 DEF IInv, Messages, Handling
  <2>3. g.evt.task \in Tasks /\ g.evt.task # t
    BY <1>9, <2>1, <2>2
  <2>4. QED
    BY <1>1, <1>11, <2>3 DEF IInv, Undelivered
<1>12. Undelivered'
  BY <1>2, <1>3, <1>10, <1>11 DEF Undelivered
<1>13. QED
  BY <1>1, <1>4, <1>5, <1>6, <1>7, <1>8, <1>12 DEF IInv

\* The result a handler sends is the task's.
LEMMA SendTrue ==
  ASSUME IInv, NEW h \in handlers, h.at = "send"
  PROVE  /\ h.evt.task \in Tasks /\ Result(h.evt) \in Results
         /\ Result(h.evt).kind = "done" => SaidDone(job, h.evt.task)
         /\ Result(h.evt).kind = "failed" => SaidFailed(job, h.evt.task)
<1>1. h.evt \in DomainEvents /\ h.sub \in Filter(h.evt.kind) /\ Past(h.evt, job, pipe)
      /\ h.sub \in {"done", "failed"}
  BY InHandlers DEF IInv, Messages, Handling
<1>2. h.evt.kind \in Kinds /\ h.evt.task \in Tasks /\ h.evt.n \in Nat
  BY <1>1, DomainEvent
<1>3. h.evt.kind \in {"done", "failed"}
  BY <1>1, <1>2, FilterIs DEF Kinds
<1>4. h.evt.output = ""
  BY <1>1 DEF DomainEvents
<1>5. Result(h.evt) = [kind |-> h.evt.kind, task |-> h.evt.task, output |-> ""]
  BY <1>4 DEF Result
<1>6. Result(h.evt) \in Results /\ Result(h.evt).kind = h.evt.kind
  <2>1. Result(h.evt).kind = h.evt.kind
    BY DEF Result
  <2>2. \A k \in {"done", "failed"}, t \in Tasks :
           [kind |-> k, task |-> t, output |-> ""] \in Results
    BY DEF Results
  <2>3. QED
    BY <1>2, <1>3, <1>5, <2>1, <2>2
<1>7. job[h.evt.task].tries \in Nat
  BY <1>2, Numbers DEF IInv, Jobs, JobRecords
<1>8. /\ h.evt.kind = "done" => SaidDone(job, h.evt.task)
      /\ h.evt.kind = "failed" => SaidFailed(job, h.evt.task)
  <2>1. CASE h.evt.n <= MaxRetries + 1
    BY <1>1, <1>2, <1>7, <2>1 DEF Past, SaidDone, SaidFailed
  <2>2. CASE h.evt.n > MaxRetries + 1
    BY <1>1, <2>2 DEF Past, SaidDone, SaidFailed
  <2>3. QED
    BY <1>2, <2>1, <2>2, EventsAssumption
<1>9. QED
  BY <1>2, <1>6, <1>8

LEMMA HandleInv ==
  ASSUME IInv, NEW h \in handlers, Handle(h)
  PROVE  IInv'
<1>1. CASE Deliver(h)
  BY <1>1, DeliverInv
<1>2. CASE Notify(h) \/ Look(h) \/ Send(h)
  <2>1. UNCHANGED <<job, pipe, got, legacy, pub>>
    BY <1>2 DEF Notify, Look, Send, pipeVars, linkVars
  <2>2. Jobs' /\ Goes(job, pipe, job', pipe')
    BY <2>1, Unmoved DEF IInv
  <2>3. Pipelines'
    BY <2>1, <2>2, PipelinesStay DEF IInv
  <2>4. Own'
    BY <2>1, OwnStay DEF IInv
  <2>5. Waiting'
    <3>1. CASE Notify(h) \/ Look(h)
      <4>1. UNCHANGED <<waitVars, mainVars>>
        BY <3>1 DEF Notify, Look
      <4>2. QED
        BY <2>1, <2>2, <4>1, WaitingStay DEF IInv
    <3>2. CASE Send(h)
      <4>1. h.at = "send" /\ chan' = Sent(h.evt) /\ UNCHANGED <<waiters, refusing, cancelled, main>>
        BY <3>2 DEF Send, mainVars
      <4>2. /\ h.evt.task \in Tasks /\ Result(h.evt) \in Results
            /\ Result(h.evt).kind = "done" => SaidDone(job', h.evt.task)
            /\ Result(h.evt).kind = "failed" => SaidFailed(job', h.evt.task)
        BY <2>1, <4>1, SendTrue
      <4>3. chan' = chan \/ chan' = [chan EXCEPT ![h.evt.task] = Result(h.evt)]
        BY <4>1 DEF Sent
      <4> DEFINE r == Result(h.evt)
      <4> HIDE DEF r
      <4>4. /\ chan' \in [Tasks -> Results \cup {Nothing}]
            /\ \A u \in Tasks : chan'[u] = chan[u] \/ (u = h.evt.task /\ chan'[u] = r)
        BY <4>2, <4>3 DEF r, IInv, Waiting
      <4>5. \A u \in Tasks : \/ chan'[u] = chan[u]
                             \/ chan'[u].kind \notin {"done", "failed"}
                             \/ chan'[u].kind = "done" /\ SaidDone(job', u)
                             \/ chan'[u].kind = "failed" /\ SaidFailed(job', u)
        BY <4>2, <4>4 DEF r
      <4>6. WaitersExact'
        BY <2>1, <4>1 DEF IInv, Waiting, WaitersExact, TaskAt
      <4>7. QED
        BY <2>2, <4>1, <4>4, <4>5, <4>6, WaitingKept DEF IInv, Waiting
    <3>3. QED
      BY <1>2, <3>1, <3>2
  <2>6. Messages' /\ Undelivered' /\ Counted'
    <3>1. CASE Return(h)
      <4>1. handlers' = handlers \ {h}
        BY <3>1 DEF Return
      <4>2. Messages'
        BY <2>1, <2>2, <4>1, MessagesFewer DEF IInv
      <4>3. Undelivered'
        BY <2>1, <4>1, UndeliveredStay DEF IInv, Messages
      <4>4. Counted'
        BY <2>1, <3>1, CountedReturn DEF IInv, Messages
      <4>5. QED
        BY <4>2, <4>3, <4>4
    <3>2. CASE ~Return(h)
      <4> DEFINE g == [h EXCEPT !.at = "send"]
      <4>1. h.sub \in {"done", "failed"} /\ handlers' = (handlers \ {h}) \cup {g} /\ wg' = wg
            /\ h.at = "start"
        BY <1>2, <3>2 DEF Notify, Look, Send
      <4>2. h \in Handlers
        BY DEF IInv, Messages, Handling
      <4>3. g \in Handlers /\ g.sub = h.sub /\ g.evt = h.evt /\ g.at = "send"
        BY <4>2 DEF Handlers
      <4> HIDE DEF g
      <4>4. Messages'
        BY <2>1, <2>2, <4>1, <4>3, MessagesLook DEF IInv
      <4>5. Undelivered'
        BY <2>1, <4>1, <4>3, UndeliveredStay DEF IInv, Messages
      <4>6. g \notin handlers
        BY <4>1, <4>3 DEF IInv, Messages, Handling
      <4>7. Cardinality(handlers') = Cardinality(handlers)
        <5>1. IsFiniteSet(handlers) /\ Cardinality(handlers) \in Nat
          BY FS_CardinalityType DEF IInv, Messages, Handling
        <5>2. IsFiniteSet(handlers \ {h}) /\ Cardinality(handlers \ {h}) = Cardinality(handlers) - 1
          BY <5>1, FS_RemoveElement
        <5>3. Cardinality(handlers') = Cardinality(handlers \ {h}) + 1
          BY <4>1, <4>6, <5>2, FS_AddElement
        <5>4. QED
          BY <5>1, <5>2, <5>3
      <4>8. Counted'
        BY <2>1, <4>1, <4>7, CountedIs, CountedIsPrimed DEF IInv
      <4>9. QED
        BY <4>4, <4>5, <4>8
    <3>3. QED
      BY <3>1, <3>2
  <2>7. QED
    BY <2>2, <2>3, <2>4, <2>5, <2>6 DEF IInv
<1>3. QED
  BY <1>1, <1>2 DEF Handle

-----------------------------------------------------------------------------
(* The workers *)

LEMMA EventTypes ==
  ASSUME NEW t \in Tasks, NEW n \in Numbering
  PROVE  /\ \A k \in {"started", "tokens", "queued", "done", "failed"}, o \in {"text", ""} :
               Event(k, t, n, o) \in LegacyEvents
         /\ \A k \in Kinds : Event(k, t, n, "") \in DomainEvents
  BY DEF Event, LegacyEvents, DomainEvents

\* One event goes out.
LEMMA OneEmitted ==
  ASSUME Messages, Goes(job, pipe, job', pipe'), UNCHANGED <<pub, handlers>>,
         NEW e \in LegacyEvents, Emit(<<e>>), Past(e, job', pipe'), ~Past(e, job, pipe)
  PROVE  Messages'
<1> DEFINE es == <<e>>
<1>1. es \in Seq(LegacyEvents) /\ Len(es) = 1 /\ es[1] = e
  OBVIOUS
<1>2. Emit(es)
  OBVIOUS
<1> HIDE DEF es
<1>3. \A i \in 1..Len(es) : Past(es[i], job', pipe') /\ ~Past(es[i], job, pipe)
  BY <1>1
<1>4. \A i, j \in 1..Len(es) : Same(es[i], es[j]) => i = j
  BY <1>1
<1>5. QED
  BY <1>1, <1>2, <1>3, <1>4, MessagesEmitted

LEMMA TwoEmitted ==
  ASSUME Messages, Goes(job, pipe, job', pipe'), UNCHANGED <<pub, handlers>>,
         NEW e \in LegacyEvents, NEW f \in LegacyEvents, Emit(<<e, f>>), e.kind # f.kind,
         Past(e, job', pipe'), ~Past(e, job, pipe), Past(f, job', pipe'), ~Past(f, job, pipe)
  PROVE  Messages'
<1> DEFINE es == <<e, f>>
<1>1. es \in Seq(LegacyEvents) /\ Len(es) = 2 /\ es[1] = e /\ es[2] = f
  OBVIOUS
<1>2. Emit(es)
  OBVIOUS
<1> HIDE DEF es
<1>3. \A i \in 1..Len(es) : i = 1 \/ i = 2
  BY <1>1
<1>4. \A i \in 1..Len(es) : Past(es[i], job', pipe') /\ ~Past(es[i], job, pipe)
  BY <1>1, <1>3
<1>5. \A i, j \in 1..Len(es) : Same(es[i], es[j]) => i = j
  BY <1>1, <1>3 DEF Same
<1>6. QED
  BY <1>1, <1>2, <1>4, <1>5, MessagesEmitted

\* One job's place changes.
LEMMA OneJob ==
  ASSUME NEW j \in [Tasks -> JobRecords], NEW t \in Tasks, NEW k, NEW s, k = [j EXCEPT ![t].at = s]
  PROVE  k[t].at = s /\ k[t].tries = j[t].tries
<1>1. k[t] = [j[t] EXCEPT !.at = s] /\ j[t] \in JobRecords
  OBVIOUS
<1>2. QED
  BY <1>1 DEF JobRecords

\* What the worker announces has just happened.
LEMMA MessagesWork ==
  ASSUME Jobs, Messages, NEW t \in Tasks, Start(t) \/ Refuse(t) \/ Execute(t)
  PROVE  Messages'
<1>1. Jobs' /\ Goes(job, pipe, job', pipe')
  BY JobStep
<1>2. UNCHANGED <<pub, handlers>>
  BY DEF Start, Refuse, Execute, Succeed, Fail, Suspend, busVars
<1>3. /\ job[t].tries \in Numbering /\ job'[t].tries \in Numbering
      /\ job[t].tries \in Nat /\ job \in [Tasks -> JobRecords] /\ job[t] \in JobRecords
      /\ job[t].tries <= MaxRetries /\ MaxRetries \in Nat
  <2>1. /\ job[t].tries \in 0..(MaxRetries + 1) /\ job'[t].tries \in 0..(MaxRetries + 1)
        /\ job \in [Tasks -> JobRecords] /\ job[t] \in JobRecords
    BY <1>1 DEF Jobs, JobRecords
  <2>2. job[t].at \in {"queued", "running"}
    BY JobStep
  <2>3. QED
    BY <2>1, <2>2, Numbers DEF Jobs
<1>4. CASE Start(t)
  <2> DEFINE e == Event("started", t, job[t].tries, "")
  <2>1. job' = [job EXCEPT ![t].at = "running", ![t].saved = TRUE] /\ job[t].at = "queued"
    BY <1>4 DEF Start
  <2>2. job'[t].at = "running" /\ job'[t].tries = job[t].tries
    <3>1. job'[t] = [job[t] EXCEPT !.at = "running", !.saved = TRUE]
      BY <1>3, <2>1
    <3>2. QED
      BY <1>3, <3>1 DEF JobRecords
  <2>6. Emit(<<e>>)
    BY <1>4 DEF Start
  <2>3. e \in LegacyEvents /\ e.kind = "started" /\ e.task = t /\ e.n = job[t].tries
    <3>1. e \in LegacyEvents
      BY <1>3, EventTypes
    <3>2. QED
      BY <3>1 DEF Event
  <2> HIDE DEF e
  <2>4. Past(e, job', pipe') /\ ~Past(e, job, pipe)
    BY <1>3, <2>1, <2>2, <2>3 DEF Past
  <2>5. QED
    BY <1>1, <1>2, <2>3, <2>4, <2>6, OneEmitted
<1>5. CASE Succeed(t)
  <2> DEFINE e == Event("tokens", t, job[t].tries, "")
             f == Event("done", t, job[t].tries, "text")
  <2>1. job' = [job EXCEPT ![t].at = "done"] /\ job[t].at = "running"
    BY <1>5 DEF Succeed
  <2>2. job'[t].at = "done"
    BY <1>3, <2>1, OneJob
  <2>6. Emit(<<e, f>>)
    BY <1>5 DEF Succeed
  <2>3. /\ e \in LegacyEvents /\ e.kind = "tokens" /\ e.task = t
        /\ f \in LegacyEvents /\ f.kind = "done" /\ f.task = t
        /\ e.n = job[t].tries /\ f.n = job[t].tries
    <3>1. e \in LegacyEvents /\ f \in LegacyEvents
      BY <1>3, EventTypes
    <3>2. QED
      BY <3>1 DEF Event
  <2> HIDE DEF e, f
  <2>4. Past(e, job', pipe') /\ ~Past(e, job, pipe) /\ Past(f, job', pipe') /\ ~Past(f, job, pipe)
    BY <1>3, <2>1, <2>2, <2>3 DEF Past
  <2>5. QED
    BY <1>1, <1>2, <2>3, <2>4, <2>6, TwoEmitted
<1>6. CASE Fail(t)
  <2> DEFINE e == Event("failed", t, job'[t].tries, "")
  <2>1. job' = Failed(t, "failed")
    BY <1>6 DEF Fail
  <2>2. job'[t].tries = job[t].tries + 1
    BY <1>3, <2>1 DEF Failed, JobRecords
  <2>6. Emit(<<e>>)
    BY <1>6 DEF Fail
  <2>3. e \in LegacyEvents /\ e.kind = "failed" /\ e.task = t /\ e.n = job[t].tries + 1
    <3>1. e \in LegacyEvents
      BY <1>3, EventTypes
    <3>2. QED
      BY <2>2, <3>1 DEF Event
  <2> HIDE DEF e
  <2>4. Past(e, job', pipe') /\ ~Past(e, job, pipe)
    BY <1>3, <2>2, <2>3 DEF Past
  <2>5. QED
    BY <1>1, <1>2, <2>3, <2>4, <2>6, OneEmitted
<1>7. CASE Refuse(t) \/ Suspend(t)
  <2>1. legacy' = legacy
    BY <1>7 DEF Refuse, Suspend, linkVars
  <2>2. QED
    BY <1>1, <1>2, <2>1, MessagesFewer
<1>8. QED
  BY <1>4, <1>5, <1>6, <1>7 DEF Execute

LEMMA WorkInv ==
  ASSUME IInv, NEW t \in Tasks, Start(t) \/ Refuse(t) \/ Execute(t)
  PROVE  IInv'
<1>1. /\ Jobs' /\ Goes(job, pipe, job', pipe')
      /\ job[t].at \in {"queued", "running"}
      /\ \A u \in Tasks : u # t => job'[u] = job[u]
  BY JobStep DEF IInv
<1>2. UNCHANGED <<pipe, got, pub, handlers, wg>> /\ UNCHANGED <<waitVars, mainVars>>
  BY DEF Start, Refuse, Execute, Succeed, Fail, Suspend, busVars, pipeVars
<1>3. Pipelines'
  BY <1>1, <1>2, PipelinesStay DEF IInv
<1>4. Waiting'
  BY <1>1, <1>2, WaitingStay DEF IInv
<1>5. Messages'
  BY MessagesWork DEF IInv
<1>6. Own'
  BY <1>2, OwnStay DEF IInv
<1>7. Undelivered'
  <2>1. \A u \in Tasks : job[u].at = "none" => job'[u].at = "none"
    BY <1>1
  <2>2. QED
    BY <1>2, <2>1, UndeliveredStay DEF IInv, Messages
<1>8. Counted'
  BY <1>2 DEF IInv, Counted
<1>9. QED
  BY <1>1, <1>3, <1>4, <1>5, <1>6, <1>7, <1>8 DEF IInv

-----------------------------------------------------------------------------
(* The API *)

\* What is announced has been added to what was told of the task.
LEMMA PatchStep ==
  ASSUME Jobs, NEW t \in Tasks, NEW s, Patch(t, s)
  PROVE  LET k == Announced(s)
             n == Len(job[t].told) + 1
         IN /\ Jobs' /\ Goes(job, pipe, job', pipe')
            /\ k \in Announcements /\ n \in Nat /\ n > 0 /\ n <= MaxPatches
            /\ n \notin DOMAIN job[t].told
            /\ n \in DOMAIN job'[t].told /\ job'[t].told[n] = k
            /\ job[t].at # "none"
            /\ \A u \in Tasks : u # t => job'[u] = job[u]
<1> DEFINE k == Announced(s)
           told == job[t].told
           n == Len(told) + 1
           new == [job[t] EXCEPT !.told = Append(told, k)]
<1>1. k \in Announcements
  BY DEF Announced, Announcements
<1>2. job \in [Tasks -> JobRecords] /\ job[t] \in JobRecords /\ job[t].saved /\ pipe' = pipe
  BY DEF Jobs, Patch, pipeVars
<1>3. told \in Seq(Announcements) /\ Len(told) \in Nat
  BY <1>2, LenProperties DEF JobRecords
<1>4. job' = [job EXCEPT ![t] = new] /\ n <= MaxPatches
  BY DEF Patch
<1>5. /\ Append(told, k) \in Seq(Announcements) /\ Len(Append(told, k)) = n
      /\ DOMAIN Append(told, k) = 1..n /\ DOMAIN told = 1..Len(told)
      /\ Append(told, k)[n] = k
      /\ \A i \in 1..Len(told) : Append(told, k)[i] = told[i]
  BY <1>1, <1>3, AppendProperties, LenProperties
<1>6. /\ new \in JobRecords /\ new.at = job[t].at /\ new.tries = job[t].tries
      /\ new.told = Append(told, k)
  BY <1>2, <1>5 DEF JobRecords
<1> HIDE DEF new, k
<1>7. JobGoes(job[t], new)
  BY <1>3, <1>5, <1>6 DEF JobGoes
<1>8. /\ job[t].at # "none" /\ Dispatched(t, pipe)
      /\ new.at \in {"queued", "running"} => new.tries <= MaxRetries
  BY <1>2, <1>6 DEF Jobs
<1>9. Jobs' /\ Goes(job, pipe, job', pipe')
  BY <1>2, <1>4, <1>5, <1>6, <1>7, <1>8, JobMoved
<1>10. job'[t] = new /\ \A u \in Tasks : u # t => job'[u] = job[u]
  BY <1>2, <1>4
<1>11. n \in Nat /\ n > 0 /\ n \notin DOMAIN told /\ n \in DOMAIN job'[t].told /\ job'[t].told[n] = k
  BY <1>3, <1>5, <1>6, <1>10
<1>12. QED
  BY <1>1, <1>4, <1>8, <1>9, <1>10, <1>11 DEF k

LEMMA PatchInv ==
  ASSUME IInv, NEW t \in Tasks, NEW s \in Statuses, Patch(t, s)
  PROVE  IInv'
<1> DEFINE k == Announced(s)
           n == Len(job[t].told) + 1
           e == Event(k, t, MaxRetries + 1 + n, "")
<1>1. /\ Jobs' /\ Goes(job, pipe, job', pipe')
      /\ k \in Announcements /\ n \in Nat /\ n > 0 /\ n <= MaxPatches
      /\ n \notin DOMAIN job[t].told
      /\ n \in DOMAIN job'[t].told /\ job'[t].told[n] = k
      /\ job[t].at # "none"
      /\ \A u \in Tasks : u # t => job'[u] = job[u]
  BY PatchStep DEF IInv
<1>2. UNCHANGED <<pipe, got, pub, handlers, wg>> /\ UNCHANGED <<waitVars, mainVars>> /\ Emit(<<e>>)
  BY DEF Patch, busVars, pipeVars
<1> HIDE DEF k, n
<1>3. /\ e \in LegacyEvents /\ e.kind = k /\ e.task = t /\ e.n = MaxRetries + 1 + n
  <2>1. MaxRetries + 1 + n \in Numbering
    BY <1>1, EventsAssumption DEF Numbering
  <2>2. k \in {"started", "tokens", "queued", "done", "failed"}
    BY <1>1 DEF Announcements
  <2>3. e \in LegacyEvents
    BY <2>1, <2>2, EventTypes
  <2>4. QED
    BY <2>3 DEF Event
<1> HIDE DEF e
<1>4. e.n > MaxRetries + 1 /\ e.kind \notin {"pipeline", "submitted"} /\ MaxRetries \in Nat
  BY <1>1, <1>3, EventsAssumption DEF Announcements
<1>5. Past(e, job', pipe')
  BY <1>1, <1>3, <1>4 DEF Past
<1>6. ~Past(e, job, pipe)
  <2> SUFFICES ASSUME NEW i \in DOMAIN job[t].told, e.n = MaxRetries + 1 + i PROVE FALSE
    BY <1>3, <1>4 DEF Past
  <2>1. job[t].told \in Seq(Announcements)
    BY DEF IInv, Jobs, JobRecords
  <2>2. i \in Nat
    BY <2>1, LenProperties
  <2>3. i = n
    BY <1>1, <1>3, <1>4, <2>2
  <2>4. QED
    BY <1>1, <2>3
<1>7. Messages'
  BY <1>1, <1>2, <1>3, <1>5, <1>6, OneEmitted DEF IInv
<1>8. Pipelines' /\ Waiting'
  BY <1>1, <1>2, PipelinesStay, WaitingStay DEF IInv
<1>9. Own'
  BY <1>2, OwnStay DEF IInv
<1>10. Undelivered'
  <2>1. \A u \in Tasks : job[u].at = "none" => job'[u].at = "none"
    BY <1>1
  <2>2. QED
    BY <1>2, <2>1, UndeliveredStay DEF IInv, Messages
<1>11. Counted'
  BY <1>2 DEF IInv, Counted
<1>12. QED
  BY <1>1, <1>7, <1>8, <1>9, <1>10, <1>11 DEF IInv

-----------------------------------------------------------------------------
(* The bridge and the pipelines, which begin to publish *)

LEMMA PublishIs ==
  ASSUME Publications, NEW x \in Publishers, NEW e, Publish(x, e)
  PROVE  /\ \A y \in Publishers : y # x => pub'[y] = pub[y]
         /\ ~stopped => pub'[x].evt = e
         /\ stopped => pub' = pub
<1>1. stopped => pub' = pub
  BY DEF Publish
<1>2. ASSUME ~stopped
      PROVE  pub'[x].evt = e /\ \A y \in Publishers : y # x => pub'[y] = pub[y]
  BY <1>2 DEF Publish, Publications
<1>3. QED
  BY <1>1, <1>2

\* What is delivered is a submission.
LEMMA OwedDelivery ==
  ASSUME Publications, NEW x \in Publishers, Busy(pub[x]), "delivery" \in Owed(pub[x])
  PROVE  pub[x].evt.kind = "submitted"
<1>1. pub[x].evt.kind \in Kinds /\ "delivery" \in Filter(pub[x].evt.kind)
  BY InPub, DomainEvent DEF Publications
<1>2. QED
  BY <1>1, FilterIs DEF Kinds

LEMMA BridgedIs ==
  ASSUME NEW e \in LegacyEvents, e.kind \notin {"tokens", "queued"}
  PROVE  Bridged(e) \in DomainEvents /\ Same(e, Bridged(e)) /\ Bridged(e).kind \in {"started", "done", "failed"}
<1> DEFINE Passed(outputs) == [kind : {"started", "done", "failed"}, task : Tasks,
                               n : Numbering, output : outputs]
<1>1. e \in Passed({"text", ""})
  BY DEF LegacyEvents
<1>2. Bridged(e) \in Passed({""})
  BY <1>1, Zenon DEF Bridged
<1>3. Bridged(e) \in DomainEvents
  <2>1. {"started", "done", "failed"} \subseteq Kinds
    BY DEF Kinds
  <2>2. Passed({""}) \subseteq DomainEvents
    BY <2>1 DEF DomainEvents
  <2>3. QED
    BY <1>2, <2>2
<1>4. Bridged(e).kind = e.kind /\ Bridged(e).task = e.task /\ Bridged(e).n = e.n
  BY <1>1 DEF Bridged
<1>5. e.kind \in {"started", "done", "failed"}
  BY <1>1
<1>6. QED
  BY <1>3, <1>4, <1>5 DEF Same

LEMMA BridgeInv ==
  ASSUME IInv, Bridge
  PROVE  IInv'
<1> DEFINE e == Bridged(Head(legacy))
<1>1. /\ UNCHANGED <<job, pipe, got, handlers, wg>> /\ UNCHANGED <<waitVars, mainVars>>
      /\ legacy # <<>> /\ legacy' = Tail(legacy) /\ ~Busy(pub["bridge"])
  BY DEF Bridge, pipeVars, Published, Busy, NoPub
<1>2. Jobs' /\ Goes(job, pipe, job', pipe')
  BY <1>1, Unmoved DEF IInv
<1>3. Pipelines'
  BY <1>1, <1>2, PipelinesStay DEF IInv
<1>4. Waiting'
  BY <1>1, <1>2, WaitingStay DEF IInv
<1>5. Publish("bridge", e) \/ pub' = pub
  BY DEF Bridge
<1>6. Counted'
  BY <1>1, <1>5, PipesThere, CountedPublish DEF IInv, Messages
<1>7. CASE pub' = pub
  <2>1. Messages'
    BY <1>1, <1>2, <1>7, MessagesDropped DEF IInv
  <2>2. Own'
    BY <1>1, <1>7, OwnStay DEF IInv
  <2>3. Undelivered'
    BY <1>1, <1>7, UndeliveredStay DEF IInv, Messages
  <2>4. QED
    BY <1>2, <1>3, <1>4, <1>6, <2>1, <2>2, <2>3 DEF IInv
<1>8. CASE Publish("bridge", e) /\ ~stopped /\ Head(legacy).kind \notin {"tokens", "queued"}
  <2>1. 1 \in 1..Len(legacy) /\ legacy[1] = Head(legacy)
    BY <1>1, <1>2, LegacyTail DEF IInv
  <2>2. legacy[1] \in LegacyEvents /\ Past(legacy[1], job, pipe)
    BY <2>1, InLegacy DEF IInv, Messages
  <2>3. e \in DomainEvents /\ Same(legacy[1], e) /\ e.kind \in {"started", "done", "failed"}
    BY <1>8, <2>1, <2>2, BridgedIs
  <2> HIDE DEF e
  <2>4. Past(e, job', pipe')
    BY <1>1, <2>2, <2>3, SamePast
  <2>5. \A h \in handlers : h.evt # e
    BY <2>1, <2>3 DEF IInv, Messages, Handling
  <2>6. Messages'
    BY <1>1, <1>2, <1>8, <2>3, <2>4, <2>5, PipesThere, PublishMessages DEF IInv
  <2>7. pub'["bridge"].evt = e /\ \A y \in Publishers : y # "bridge" => pub'[y] = pub[y]
    BY <1>8, PipesThere, PublishIs DEF IInv, Messages
  <2>8. Own'
    <3>1. \A p \in Pipes : pub'[p] = pub[p]
      BY <2>7, PipesThere, EventsAssumption
    <3>2. QED
      BY <1>1, <3>1 DEF IInv, Own, At, TaskAt
  <2>9. ASSUME NEW x \in Publishers, Busy(pub'[x]), "delivery" \in Owed(pub'[x])
        PROVE  job[pub'[x].evt.task].at = "none"
    <3>1. pub'[x].evt.kind = "submitted"
      <4>1. Publications' => pub'[x].evt.kind \in Kinds /\ "delivery" \in Filter(pub'[x].evt.kind)
        <5>1. ASSUME Publications'
              PROVE  pub'[x].evt.kind \in Kinds /\ "delivery" \in Filter(pub'[x].evt.kind)
          <6>1. CASE x = "bridge"
            BY <2>3, <2>7, <2>9, <5>1, <6>1 DEF Publications, Kinds
          <6>2. CASE x # "bridge"
            <7>1. Busy(pub[x]) /\ pub'[x] = pub[x]
              BY <2>7, <2>9, <6>2
            <7>2. pub[x].evt.kind \in Kinds
              BY <7>1, InPub, DomainEvent DEF IInv, Messages
            <7>3. QED
              BY <2>9, <5>1, <7>1, <7>2 DEF Publications
          <6>3. QED
            BY <6>1, <6>2
        <5>2. QED
          BY <5>1
      <4>2. QED
        BY <2>6, <4>1, FilterIs DEF Messages, Kinds
    <3>2. x # "bridge" /\ pub'[x] = pub[x]
      BY <2>3, <2>7, <3>1
    <3>3. QED
      BY <2>9, <3>2 DEF IInv, Undelivered
  <2>10. Undelivered'
    BY <1>1, <2>9 DEF IInv, Undelivered
  <2>11. QED
    BY <1>2, <1>3, <1>4, <1>6, <2>6, <2>8, <2>10 DEF IInv
<1>9. CASE stopped
  BY <1>5, <1>7, <1>9, PipesThere, PublishIs DEF IInv, Messages
<1>10. Head(legacy).kind \in {"tokens", "queued"} => pub' = pub
  BY DEF Bridge
<1>11. QED
  BY <1>5, <1>7, <1>8, <1>9, <1>10

\* A pipeline publishes its trigger or its submission: it has just happened.
LEMMA PipePublishes ==
  ASSUME IInv, NEW p \in Pipes, Trigger(p) \/ Dispatch(p), pub' # pub
  PROVE  \E e \in DomainEvents :
            /\ ~stopped /\ Publish(p, e)
            /\ Past(e, job', pipe') /\ ~Past(e, job, pipe)
            /\ \/ e.kind = "pipeline" /\ pipe'[p].at = "card" /\ e.task[1] = p
               \/ /\ e.kind = "submitted" /\ pipe'[p].at = "wait" /\ e.task = <<p, pipe'[p].task>>
                  /\ job[e.task].at = "none"
<1>1. TaskAt(p) \in Tasks /\ TaskAt(p)[1] = p /\ TaskAt(p)[2] = pipe[p].task
  BY TaskAtIs DEF IInv
<1>2. PICK new \in PipeRecords :
            /\ pipe' = [pipe EXCEPT ![p] = new] /\ job' = job
            /\ ~Parse(p) => new.task = pipe[p].task
  BY PipelineMoves DEF IInv, Pipeline
<1>3. pipe'[p] = new /\ new.task = pipe[p].task
  <2>1. ~Parse(p)
    BY DEF Trigger, Dispatch, Parse, At
  <2>2. QED
    BY <1>2, <2>1 DEF IInv, Pipelines
<1>4. CASE Trigger(p)
  <2> DEFINE e == Event("pipeline", TaskAt(p), 0, "")
  <2>1. Publish(p, e) /\ At(p, "idle") /\ Goto(p, "card")
    BY <1>4 DEF Trigger
  <2>2. ~stopped
    BY <2>1 DEF Publish
  <2>3. e \in DomainEvents
    BY <1>1, Numbers, EventTypes DEF Kinds
  <2>4. e.kind = "pipeline" /\ e.task = TaskAt(p) /\ e.n = 0
    BY DEF Event
  <2> HIDE DEF e
  <2>5. pipe[p].task = "idea" /\ pipe[p].at = "idle" /\ new.at = "card"
    BY <1>3, <2>1, GotoIs DEF IInv, Pipelines, At
  <2>6. Past(e, job', pipe') /\ ~Past(e, job, pipe)
    BY <1>1, <1>3, <2>4, <2>5, Numbers DEF Past
  <2>7. QED
    BY <1>1, <1>3, <2>1, <2>2, <2>3, <2>4, <2>5, <2>6
<1>5. CASE Dispatch(p)
  <2> DEFINE e == Event("submitted", TaskAt(p), 0, "")
  <2>1. Publish(p, e) /\ At(p, "dispatch") /\ Goto(p, "wait")
    BY <1>5 DEF Dispatch, Order
  <2>2. ~stopped
    BY <2>1 DEF Publish
  <2>3. e \in DomainEvents
    BY <1>1, Numbers, EventTypes DEF Kinds
  <2>4. e.kind = "submitted" /\ e.task = TaskAt(p) /\ e.n = 0
    BY DEF Event
  <2> HIDE DEF e
  <2>5. pipe[p].at = "dispatch" /\ new.at = "wait"
    BY <1>3, <2>1, GotoIs DEF IInv, At
  <2>6. ~Dispatched(TaskAt(p), pipe) /\ Dispatched(TaskAt(p), pipe')
    BY <1>1, <1>3, <2>5 DEF Dispatched, Before
  <2>7. Past(e, job', pipe') /\ ~Past(e, job, pipe)
    BY <2>4, <2>6, Numbers DEF Past
  <2>8. job[TaskAt(p)].at = "none"
    BY <1>1, <2>6 DEF IInv, Jobs
  <2>9. TaskAt(p) = <<p, pipe'[p].task>>
    BY <1>3 DEF TaskAt
  <2>10. QED
    BY <1>3, <2>1, <2>2, <2>3, <2>4, <2>5, <2>7, <2>8, <2>9
<1>6. QED
  BY <1>4, <1>5

LEMMA PipeInv ==
  ASSUME IInv, NEW p \in Pipes, Trigger(p) \/ Pipeline(p)
  PROVE  IInv'
<1>1. PICK new \in PipeRecords :
         pipe' = [pipe EXCEPT ![p] = new] /\ PipeGoes(pipe[p], new) /\ job' = job /\ ~Busy(pub[p])
  BY PipelineMoves DEF IInv
<1>2. Jobs' /\ Goes(job, pipe, job', pipe')
  BY <1>1, PipeMoved DEF IInv
<1>3. Pipelines'
  BY PipelinesKept DEF IInv
<1>4. Waiting'
  BY WaitingPipe DEF IInv
<1>5. UNCHANGED <<handlers, wg, legacy>>
  BY DEF Trigger, Pipeline, Card, Register, Dispatch, Receive, GiveUp, Parse, busVars, linkVars
<1>6. p \in Publishers /\ p # "bridge"
  BY PipesThere, EventsAssumption
<1>7. \A q \in Pipes : q # p => pipe'[q] = pipe[q]
  BY <1>1 DEF IInv, Pipelines
<1>8. CASE pub' = pub
  <2>1. Messages'
    BY <1>2, <1>5, <1>8, MessagesFewer DEF IInv
  <2>2. Own'
    BY <1>1, <1>7, <1>8 DEF IInv, Own, At, TaskAt
  <2>3. Undelivered'
    BY <1>1, <1>5, <1>8, UndeliveredStay DEF IInv, Messages
  <2>4. Counted'
    BY <1>5, <1>8 DEF IInv, Counted
  <2>5. QED
    BY <1>2, <1>3, <1>4, <2>1, <2>2, <2>3, <2>4 DEF IInv
<1>9. CASE pub' # pub
  <2>1. Trigger(p) \/ Dispatch(p)
    BY <1>9 DEF Pipeline, Card, Register, Receive, GiveUp, Parse, busVars
  <2>2. PICK e \in DomainEvents :
            /\ ~stopped /\ Publish(p, e)
            /\ Past(e, job', pipe') /\ ~Past(e, job, pipe)
            /\ \/ e.kind = "pipeline" /\ pipe'[p].at = "card" /\ e.task[1] = p
               \/ /\ e.kind = "submitted" /\ pipe'[p].at = "wait" /\ e.task = <<p, pipe'[p].task>>
                  /\ job[e.task].at = "none"
    BY <1>9, <2>1, PipePublishes
  <2>3. \A h \in handlers : h.evt # e
    BY <2>2, InHandlers DEF IInv, Messages
  <2>4. Messages'
    BY <1>2, <1>5, <1>6, <2>2, <2>3, PublishMessages DEF IInv
  <2>5. pub'[p].evt = e /\ \A y \in Publishers : y # p => pub'[y] = pub[y]
    BY <1>6, <2>2, PublishIs DEF IInv, Messages
  <2>6. Own'
    <3>1. \A q \in Pipes : Busy(pub'[q]) =>
            \/ pub'[q].evt.kind = "pipeline" /\ pipe'[q].at = "card" /\ pub'[q].evt.task[1] = q
            \/ pub'[q].evt.kind = "submitted" /\ pipe'[q].at = "wait" /\ pub'[q].evt.task = <<q, pipe'[q].task>>
      <4> TAKE q \in Pipes
      <4>1. CASE q = p
        BY <2>2, <2>5, <4>1
      <4>2. CASE q # p
        BY <1>7, <2>5, <4>2, PipesThere DEF IInv, Own, At, TaskAt
      <4>3. QED
        BY <4>1, <4>2
    <3>2. QED
      BY <3>1 DEF Own, At, TaskAt
  <2>7. Counted'
    BY <1>1, <1>5, <1>6, <2>2, CountedPublish DEF IInv, Messages
  <2>8. ASSUME NEW x \in Publishers, Busy(pub'[x]), "delivery" \in Owed(pub'[x])
        PROVE  job[pub'[x].evt.task].at = "none"
    <3>1. CASE x = p
      <4>1. "delivery" \in Filter(e.kind)
        BY <2>4, <2>5, <2>8, <3>1 DEF Messages, Publications
      <4>2. e.kind = "submitted"
        BY <2>2, <4>1, FilterIs
      <4>3. QED
        BY <2>2, <2>5, <3>1, <4>2
    <3>2. CASE x # p
      BY <2>5, <2>8, <3>2 DEF IInv, Undelivered
    <3>3. QED
      BY <3>1, <3>2
  <2>9. Undelivered'
    BY <1>1, <1>5, <2>8 DEF IInv, Undelivered
  <2>10. QED
    BY <1>2, <1>3, <1>4, <2>4, <2>6, <2>7, <2>9 DEF IInv
<1>10. QED
  BY <1>8, <1>9

-----------------------------------------------------------------------------
(* The shutdown *)

LEMMA ShutdownInv ==
  ASSUME IInv, Cancel \/ Shutdown
  PROVE  IInv'
<1>1. UNCHANGED <<job, pipe, got, legacy, pub, handlers, wg, waiters>>
  BY DEF Cancel, Shutdown, Drain, StopHTTP, StopWorkers, StopWaiter, StopSubscribers, StopBridge,
         StopBus, BusDrained, pipeVars, waitVars, linkVars, busVars
<1>2. Jobs' /\ Goes(job, pipe, job', pipe')
  BY <1>1, Unmoved DEF IInv
<1>3. Pipelines'
  BY <1>1, <1>2, PipelinesStay DEF IInv
<1>4. Messages'
  BY <1>1, <1>2, MessagesFewer DEF IInv
<1>5. Own'
  BY <1>1, OwnStay DEF IInv
<1>6. Undelivered'
  BY <1>1, UndeliveredStay DEF IInv, Messages
<1>7. Counted'
  BY <1>1 DEF IInv, Counted
<1>8. main' \in MainPlaces /\ main' # "up" /\ cancelled'
  <2>1. CASE Cancel
    BY <2>1 DEF Cancel, Advance, MainPlaces
  <2>2. CASE Shutdown
    <3>1. main # "up" /\ main' \in MainPlaces /\ main' # "up" /\ cancelled' = cancelled
      BY <2>2 DEF Shutdown, Drain, StopHTTP, StopWorkers, StopWaiter, StopSubscribers, StopBridge,
                  StopBus, BusDrained, Advance, MainPlaces
    <3>2. QED
      BY <3>1 DEF IInv, Waiting
  <2>3. QED
    BY <2>1, <2>2
<1>9. /\ chan' \in [Tasks -> Results \cup {Nothing}]
      /\ \A t \in Tasks : chan'[t] = chan[t] \/ chan'[t].kind \notin {"done", "failed"}
  <2>1. CASE StopWaiter
    <3> DEFINE signal(t) == [kind |-> "stopped", task |-> t, output |-> ""]
    <3>1. chan' = [t \in Tasks |-> IF t \in waiters /\ chan[t] = Nothing THEN signal(t) ELSE chan[t]]
      BY <2>1 DEF StopWaiter
    <3>2. \A t \in Tasks : signal(t) \in Results /\ signal(t).kind = "stopped"
      BY DEF Results
    <3> HIDE DEF signal
    <3>3. \A t \in Tasks : chan[t] \in Results \cup {Nothing}
      BY DEF IInv, Waiting
    <3>4. QED
      BY <3>1, <3>2, <3>3
  <2>2. CASE ~StopWaiter
    <3>1. chan' = chan
      BY <2>2 DEF Cancel, Shutdown, Drain, StopHTTP, StopWorkers, StopSubscribers, StopBridge,
                  StopBus, BusDrained, waitVars
    <3>2. QED
      BY <3>1 DEF IInv, Waiting
  <2>3. QED
    BY <2>1, <2>2
<1>10. Waiting'
  <2>1. WaitersExact' /\ waiters' \subseteq Tasks
    BY <1>1, <1>8 DEF WaitersExact, IInv, Waiting
  <2>2. cancelled' = (main' # "up")
    <3>1. cancelled' \in BOOLEAN
      BY DEF Cancel, Shutdown, Drain, StopHTTP, StopWorkers, StopWaiter, StopSubscribers, StopBridge,
             StopBus, BusDrained, IInv, Waiting
    <3>2. QED
      BY <1>8, <3>1
  <2>3. QED
    BY <1>2, <1>8, <1>9, <2>1, <2>2, WaitingKept DEF IInv
<1>11. QED
  BY <1>2, <1>3, <1>4, <1>5, <1>6, <1>7, <1>10 DEF IInv

-----------------------------------------------------------------------------
(* The invariant *)

LEMMA InitInv == Init => IInv
<1> SUFFICES ASSUME Init PROVE IInv
  OBVIOUS
<1>1. Jobs
  <2>1. NoJob \in JobRecords /\ NoJob.at = "none" /\ NoJob.tries = 0 /\ NoJob.told = <<>>
        /\ ~NoJob.saved /\ Len(NoJob.told) <= MaxPatches
    BY Numbers DEF NoJob, Fresh, JobPlaces, JobRecords
  <2>2. job = [t \in Tasks |-> NoJob]
    BY DEF Init
  <2> HIDE DEF NoJob
  <2>3. QED
    BY <2>1, <2>2 DEF Jobs
<1>2. Pipelines
  <2> DEFINE first == [at |-> "idle", task |-> "idea"]
  <2>1. first \in [at : PipePlaces, task : {"idea", "breakdown"}] /\ first.at = "idle" /\ first.task = "idea"
    BY DEF PipePlaces
  <2>2. pipe = [p \in Pipes |-> first] /\ got = [p \in Pipes |-> Nothing]
    BY DEF Init
  <2> HIDE DEF first
  <2>3. Nothing.kind = "none"
    BY DEF Nothing
  <2>4. QED
    BY <2>1, <2>2, <2>3 DEF Pipelines, At
<1>3. Waiting
  <2>1. chan = [t \in Tasks |-> Nothing] /\ waiters = {} /\ ~cancelled /\ cancelled = FALSE /\ main = "up" /\ ~refusing
    BY DEF Init
  <2>2. Nothing.kind = "none"
    BY DEF Nothing
  <2>3. {TaskAt(p) : p \in {q \in Pipes : pipe[q].at \in {"dispatch", "wait"}}} = {}
    BY DEF Init
  <2>4. WaitersExact
    BY <2>1, <2>3 DEF WaitersExact
  <2>5. /\ chan \in [Tasks -> Results \cup {Nothing}]
        /\ \A t \in Tasks : chan[t].kind # "done" /\ chan[t].kind # "failed"
    BY <2>1, <2>2
  <2>6. main \in MainPlaces /\ cancelled = (main # "up")
    BY <2>1 DEF MainPlaces
  <2>7. QED
    BY <2>1, <2>4, <2>5, <2>6 DEF Waiting
<1>4. legacy \in Seq(LegacyEvents) /\ Len(legacy) = 0 /\ handlers = {} /\ wg = 0
      /\ pub = [x \in Publishers |-> NoPub]
  BY DEF Init
<1>5. /\ pub \in [Publishers -> Pubs]
      /\ \A x \in Publishers : ~Busy(pub[x]) /\ pub[x].at # "acquire"
  <2>1. NoPub \in Pubs /\ ~Busy(NoPub) /\ NoPub.at # "acquire"
    BY DEF Pubs, Busy, NoPub
  <2>2. QED
    BY <1>4, <2>1
<1>6. IsFiniteSet(handlers) /\ Cardinality(handlers) = 0
  BY <1>4, FS_EmptySet
<1>7. Legacy
  BY <1>4, EventsAssumption DEF Legacy
<1>8. Publications /\ Bridging /\ Own /\ Undelivered
  BY <1>4, <1>5, PipesThere DEF Publications, Bridging, Own, Undelivered
<1>9. Handling
  BY <1>4, <1>6 DEF Handling
<1>10. Counted
  <2>1. Acquiring(pub) = {}
    BY <1>5 DEF Acquiring
  <2>2. Cardinality(Acquiring(pub)) = 0
    BY <2>1, FS_EmptySet
  <2>3. QED
    BY <1>4, <1>6, <2>2, CountedIs, EventsAssumption
<1>11. QED
  BY <1>1, <1>2, <1>3, <1>7, <1>8, <1>9, <1>10 DEF IInv, Messages

LEMMA NextInv == IInv /\ [Next]_vars => IInv'
<1> SUFFICES ASSUME IInv, [Next]_vars PROVE IInv'
  OBVIOUS
<1>1. ASSUME NEW p \in Pipes, Trigger(p) \/ Pipeline(p) PROVE IInv'
  BY <1>1, PipeInv
<1>2. ASSUME NEW x \in Publishers, Publishing(x) PROVE IInv'
  <2>1. Messages' /\ Own' /\ Undelivered' /\ Counted'
    BY <1>2, PublishingStep
  <2>2. UNCHANGED <<job, pipe, got>> /\ UNCHANGED <<waitVars, mainVars>>
    BY <1>2 DEF Publishing, NextSubscriber, Acquire, Abandon, pipeVars
  <2>3. Jobs' /\ Goes(job, pipe, job', pipe')
    BY <2>2, Unmoved DEF IInv
  <2>4. Pipelines' /\ Waiting'
    BY <2>2, <2>3, PipelinesStay, WaitingStay DEF IInv
  <2>5. QED
    BY <2>1, <2>3, <2>4 DEF IInv
<1>3. ASSUME NEW h \in handlers, Handle(h) PROVE IInv'
  BY <1>3, HandleInv
<1>4. ASSUME NEW t \in Tasks, Start(t) \/ Refuse(t) \/ Execute(t) \/ \E s \in Statuses : Patch(t, s)
      PROVE  IInv'
  BY <1>4, WorkInv, PatchInv
<1>5. CASE UNCHANGED vars
  <2>1. /\ UNCHANGED <<job, pipe, got, pub, handlers, wg, legacy>> /\ UNCHANGED <<waitVars, mainVars>>
    BY <1>5 DEF vars, pipeVars, busVars, linkVars
  <2>2. Jobs' /\ Goes(job, pipe, job', pipe')
    BY <2>1, Unmoved DEF IInv
  <2>3. Pipelines' /\ Waiting'
    BY <2>1, <2>2, PipelinesStay, WaitingStay DEF IInv
  <2>4. Messages'
    BY <2>1, <2>2, MessagesFewer DEF IInv
  <2>5. Own' /\ Undelivered' /\ Counted'
    BY <2>1, OwnStay, UndeliveredStay DEF IInv, Messages, Counted
  <2>6. QED
    BY <2>2, <2>3, <2>4, <2>5 DEF IInv
<1>6. QED
  BY <1>1, <1>2, <1>3, <1>4, <1>5, BridgeInv, ShutdownInv DEF Next

THEOREM Invariant == Spec => []IInv
<1>1. QED
  BY InitInv, NextInv, PTL DEF Spec

\* Every variable has its type, the slots are enough for the handlers, and the
\* wait group counts those under way and those waiting for a slot
\* (domain_bus.go: Publish, Stop).
THEOREM TypeCorrect == Spec => []TypeOK
<1>1. IInv => TypeOK
  <2> SUFFICES ASSUME IInv PROVE TypeOK
    OBVIOUS
  <2>1. \A p \in Pipes :
          /\ pipe[p].task \in {"idea", "breakdown"}
          /\ pipe[p].at \in {"idle", "card", "register", "dispatch", "wait", "result",
                             "parsed", "unparsable", "ended"}
    BY DEF IInv, Pipelines, PipePlaces
  <2>2. got \in [Pipes -> Results \cup {Nothing}] /\ waiters \subseteq Tasks
        /\ chan \in [Tasks -> Results \cup {Nothing}]
    BY DEF IInv, Pipelines, Waiting
  <2>3. legacy \in Seq(Events) /\ Len(legacy) <= LegacyCap
    <3>1. LegacyEvents \subseteq Events
      BY DEF LegacyEvents, Events, Numbering
    <3>2. Seq(LegacyEvents) \subseteq Seq(Events)
      BY <3>1, SeqMonotonic
    <3>3. QED
      BY <3>2 DEF IInv, Messages, Legacy
  <2>4. \A h \in handlers : h.evt \in Events /\ h.at \in {"start", "send"}
    <3>1. DomainEvents \subseteq Events
      BY DEF DomainEvents, Kinds, Events, Numbering
    <3>2. QED
      BY <3>1, InHandlers DEF IInv, Messages
  <2>5. \A t \in Tasks : /\ job[t].tries \in 0..(MaxRetries + 1)
                         /\ job[t].told \in Seq({"started", "queued", "done", "failed"})
                         /\ Len(job[t].told) <= MaxPatches
    BY DEF IInv, Jobs, JobRecords, Announcements
  <2>6. QED
    BY <2>1, <2>2, <2>3, <2>4, <2>5 DEF TypeOK, IInv, Counted
<1>2. QED
  BY <1>1, Invariant, PTL

\* A pipeline goes on with a task that is done, or that the API announced as done,
\* and gives up one an attempt of which failed, or that the API announced as
\* failed: the event that told it so was published once, about that task, before
\* it was told (waiter.go, bridge.go, task_delivery.go, task_handler.go).
THEOREM ResultsEarned == Spec => []ResultEarned
<1>1. IInv => ResultEarned
  BY DEF IInv, Pipelines, ResultEarned, SaidDone, SaidFailed, ToldAs
<1>2. QED
  BY <1>1, Invariant, PTL

\* Until the contexts are cancelled the waiter's map holds exactly the tasks
\* that are awaited (waiter.go: Register, Wait; pipeline.go: dispatchAndWait).
THEOREM WaitersMapExact == Spec => []WaitersExact
<1>1. IInv => WaitersExact
  BY DEF IInv, Waiting
<1>2. QED
  BY <1>1, Invariant, PTL

\* A task is delivered to the queue once: the ID that Push is given is never
\* one the queue has or had (task_delivery.go; queue.go: Push).
THEOREM DeliveredOnce ==
  Spec => [][\A h \in handlers : Deliver(h) => job[h.evt.task].at = "none"]_vars
<1>1. IInv => \A h \in handlers : Deliver(h) => job[h.evt.task].at = "none"
  BY DEF IInv, Undelivered, Deliver
<1>2. QED
  BY <1>1, Invariant, PTL DEF Spec
=============================================================================
