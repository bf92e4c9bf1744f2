----------------------------- MODULE TaskEvents -----------------------------
(***************************************************************************)
(* How a pipeline learns what became of the tasks it dispatched:           *)
(* integrations/pipeline dispatches through infra/task/dispatcher.go and   *)
(* waits in infra/task/waiter.go; the submission travels over              *)
(* infra/eventbus/domain_bus.go to subscriber/task_delivery.go and the     *)
(* queue, the outcome from agent/executor.go over the legacy bus           *)
(* (agent/bus.go), infra/eventbus/bridge.go and the domain bus to the      *)
(* waiter.  Over the same buses api/task_handler.go announces the statuses *)
(* set through PATCH /api/tasks/:id.  main stops all of it in the order of *)
(* cmd/agentclawd/main.go.                                                 *)
(*                                                                         *)
(* A step is one critical section, one channel operation or one call to    *)
(* the outside.  Every handler of the domain bus is a goroutine, so events *)
(* are handled in any order.                                               *)
(***************************************************************************)
EXTENDS Integers, Sequences, FiniteSets

CONSTANTS Pipes,      \* pipelines triggered; the semaphore of five is not reached
          LegacyCap,  \* capacity of the bridge's legacy channel (64)
          Slots,      \* maxConcurrentHandlers
          MaxRetries, \* maxTaskRetries, main.go
          MaxPatches, \* bound: statuses set through the API, for each task
          Mixed       \* bound: where FALSE, either attempts fail or one status is
                      \* set through the API, not both

ASSUME EventsAssumption ==
    /\ IsFiniteSet(Pipes) /\ "bridge" \notin Pipes
    /\ LegacyCap \in Nat \ {0}
    /\ Slots \in Nat \ {0}
    /\ MaxRetries \in Nat
    /\ MaxPatches \in Nat
    /\ Mixed \in BOOLEAN

\* A pipeline's tasks: the idea (step 2 of Run) and the breakdown (step 4).
\* The checklist and what follows are not modelled: see Parse.
Tasks == Pipes \X {"idea", "breakdown"}
Publishers == Pipes \cup {"bridge"}

VARIABLES
    pipe,       \* pipe[p]: where Run of pipeline p is, and at which task
    waiters,    \* keys of EventWaiter.waiters
    chan,       \* chan[t]: the result in t's channel (capacity 1)
    got,        \* got[p]: the result dispatchAndWait returned last
    refusing,   \* EventWaiter.closed
    legacy,     \* the bridge's channel on the legacy bus
    legacyOpen,
    lost,       \* outcomes that found the legacy channel full
    subs,       \* subscriptions on the domain bus
    pub,        \* pub[x]: the call of Publish x is in
    handlers,   \* handler goroutines in progress
    wg,         \* the bus's wait group
    stopped,    \* the bus: stopped is set and done is closed
    job,        \* job[t]: task t in the queue and with its worker; whether it has a
                \* row, and what the API announced of it
    cancelled,  \* main's and the server's contexts
    main        \* how far main's shutdown is

waitVars == <<waiters, chan, refusing>>
pipeVars == <<pipe, got>>
busVars  == <<subs, pub, handlers, wg, stopped>>
linkVars == <<legacy, legacyOpen, lost>>
mainVars == <<cancelled, main>>
vars == <<pipeVars, waitVars, linkVars, busVars, job, mainVars>>

Smaller(m, n) == IF m < n THEN m ELSE n
Nothing == [kind |-> "none"]
Fresh(at) == [at |-> at, tries |-> 0, saved |-> FALSE, told |-> <<>>]
NoJob == Fresh("none")
NoPub == [at |-> "out"]

Init ==
    /\ pipe = [p \in Pipes |-> [at |-> "idle", task |-> "idea"]]
    /\ got = [p \in Pipes |-> Nothing]
    /\ waiters = {} /\ refusing = FALSE
    /\ chan = [t \in Tasks |-> Nothing]
    /\ legacy = <<>> /\ legacyOpen = TRUE /\ lost = {}
    /\ subs = {"delivery", "done", "failed", "notification"}
    /\ pub = [x \in Publishers |-> NoPub]
    /\ handlers = {} /\ wg = 0 /\ stopped = FALSE
    /\ job = [t \in Tasks |-> NoJob]
    /\ cancelled = FALSE
    /\ main = "up"

-----------------------------------------------------------------------------
(* The domain bus *)

\* An event: what happened, to which task (n tells attempts apart), and the
\* "output" of its payload.
Event(kind, t, n, output) == [kind |-> kind, task |-> t, n |-> n, output |-> output]

Filter(kind) ==
    CASE kind = "submitted" -> {"delivery"}
      [] kind = "done"      -> {"done", "notification"}
      [] kind = "failed"    -> {"failed", "notification"}
      [] kind \in {"started", "pipeline"} -> {"notification"}

\* Publish up to its snapshot: a no-op once the bus is stopped.
Publish(x, e) ==
    pub' = IF stopped THEN pub
           ELSE [pub EXCEPT ![x] = [at |-> "loop", evt |-> e, todo |-> subs \cap Filter(e.kind)]]

Published(x) == pub[x] = NoPub

\* wg.Add(1) for the next subscriber, or the end of the loop.
NextSubscriber(x) ==
    /\ pub[x].at = "loop"
    /\ \/ /\ pub[x].todo = {}
          /\ pub' = [pub EXCEPT ![x] = NoPub]
          /\ UNCHANGED wg
       \/ \E s \in pub[x].todo :
             /\ pub' = [pub EXCEPT ![x] = [at |-> "acquire", evt |-> @.evt,
                                           todo |-> @.todo \ {s}, sub |-> s]]
             /\ wg' = wg + 1
    /\ UNCHANGED <<pipeVars, waitVars, linkVars, subs, handlers, stopped, job, mainVars>>

\* A slot: the handler starts.
Acquire(x) ==
    /\ pub[x].at = "acquire"
    /\ Cardinality(handlers) < Slots
    /\ handlers' = handlers \cup {[sub |-> pub[x].sub, evt |-> pub[x].evt, at |-> "start"]}
    /\ pub' = [pub EXCEPT ![x] = [at |-> "loop", evt |-> @.evt, todo |-> @.todo]]
    /\ UNCHANGED <<pipeVars, waitVars, linkVars, subs, wg, stopped, job, mainVars>>

\* (faulty: the wait group keeps the unit of the handler that never started)
AbandonKeepsUnit(x) ==
    /\ pub[x].at = "acquire" /\ stopped
    /\ pub' = [pub EXCEPT ![x] = NoPub]
    /\ UNCHANGED <<pipeVars, waitVars, linkVars, subs, handlers, wg, stopped, job, mainVars>>

\* Or the bus stops: Publish returns, the remaining subscribers get nothing.
Abandon(x) ==
    /\ pub[x].at = "acquire" /\ stopped
    /\ pub' = [pub EXCEPT ![x] = NoPub]
    /\ wg' = wg - 1
    /\ UNCHANGED <<pipeVars, waitVars, linkVars, subs, handlers, stopped, job, mainVars>>

\* A handler returns, gives its slot back and leaves the wait group.
Return(h) == handlers' = handlers \ {h} /\ wg' = wg - 1

-----------------------------------------------------------------------------
(* The handlers *)

\* Push drops a task whose ID it has; these IDs are fresh.
Deliver(h) ==
    /\ h.sub = "delivery"
    /\ job' = [job EXCEPT ![h.evt.task] = Fresh("queued")]
    /\ Return(h)
    /\ UNCHANGED <<pipeVars, waitVars, linkVars, subs, pub, stopped, mainVars>>

\* Notifiers run in goroutines of their own.
Notify(h) ==
    /\ h.sub = "notification"
    /\ Return(h)
    /\ UNCHANGED <<pipeVars, waitVars, linkVars, subs, pub, stopped, job, mainVars>>

\* handleDone, handleFailed: find the channel under the lock ...
Look(h) ==
    /\ h.sub \in {"done", "failed"} /\ h.at = "start"
    /\ IF h.evt.task \in waiters
       THEN handlers' = (handlers \ {h}) \cup {[h EXCEPT !.at = "send"]} /\ UNCHANGED wg
       ELSE Return(h)
    /\ UNCHANGED <<pipeVars, waitVars, linkVars, subs, pub, stopped, job, mainVars>>

Result(e) == [kind |-> e.kind, task |-> e.task, output |-> e.output]

\* (faulty: the result goes to every pending waiter)
SentToAll(e) == [t \in Tasks |-> IF t \in waiters /\ chan[t] = Nothing THEN Result(e) ELSE chan[t]]

\* ... and send without blocking: a channel that holds a result keeps it.
Sent(e) == IF chan[e.task] = Nothing THEN [chan EXCEPT ![e.task] = Result(e)] ELSE chan

Send(h) ==
    /\ h.at = "send"
    /\ chan' = Sent(h.evt)
    /\ Return(h)
    /\ UNCHANGED <<pipeVars, waiters, refusing, linkVars, subs, pub, stopped, job, mainVars>>

-----------------------------------------------------------------------------
(* The worker of a task: Executor.Execute, and MarkDone or MarkFailed *)

Outcomes == {"done", "failed"}

\* EventBus.Publish of some events: a full channel drops what does not fit.
Emit(es) ==
    LET fit == IF legacyOpen THEN Smaller(Len(es), LegacyCap - Len(legacy)) ELSE 0 IN
    /\ legacy' = legacy \o SubSeq(es, 1, fit)
    /\ lost' = lost \cup {es[i] : i \in {j \in fit + 1..Len(es) : es[j].kind \in Outcomes}}

\* MarkFailed: once more, until the retries are used up.
Failed(t, last) ==
    LET n == job[t].tries + 1 IN
    [job EXCEPT ![t].at = IF n <= MaxRetries THEN "queued" ELSE last, ![t].tries = n]

\* Of bound Mixed.
MayFail == Mixed \/ \A t \in Tasks : job[t].told = <<>>

Start(t) ==
    /\ job[t].at = "queued" /\ ~cancelled
    /\ job' = [job EXCEPT ![t].at = "running", ![t].saved = TRUE]
    /\ Emit(<<Event("started", t, job[t].tries, "")>>)
    /\ UNCHANGED <<pipeVars, waitVars, legacyOpen, busVars, mainVars>>

\* No agent has the role, or SaveTask fails: Execute returns before any event.
Refuse(t) ==
    /\ job[t].at = "queued" /\ ~cancelled
    /\ MayFail
    /\ job' = Failed(t, "refused")
    /\ UNCHANGED <<pipeVars, waitVars, linkVars, busVars, mainVars>>

Succeed(t) ==
    /\ job[t].at = "running"
    /\ job' = [job EXCEPT ![t].at = "done"]
    /\ Emit(<<Event("tokens", t, job[t].tries, ""), Event("done", t, job[t].tries, "text")>>)
    /\ UNCHANGED <<pipeVars, waitVars, legacyOpen, busVars, mainVars>>

\* The failure of each attempt is announced, also when a retry follows.
Fail(t) ==
    /\ job[t].at = "running"
    /\ MayFail
    /\ job' = Failed(t, "failed")
    /\ Emit(<<Event("failed", t, job'[t].tries, "")>>)
    /\ UNCHANGED <<pipeVars, waitVars, legacyOpen, busVars, mainVars>>

\* Run returned (nil, nil): the task waits for a human, no event.
Suspend(t) ==
    /\ job[t].at = "running"
    /\ job' = [job EXCEPT ![t].at = "suspended"]
    /\ UNCHANGED <<pipeVars, waitVars, linkVars, busVars, mainVars>>

-----------------------------------------------------------------------------
(* The API *)

Statuses == {"pending", "queued", "running", "done", "failed", "cancelled"}

\* What updateTaskById announces of a status: a task set back to pending, or
\* cancelled, is announced as done.
Announced(status) ==
    CASE status = "failed"  -> "failed"
      [] status = "queued"  -> "queued"
      [] status = "running" -> "started"
      [] OTHER              -> "done"

\* PATCH /api/tasks/:id of a task that has a row.  Neither queue nor worker hears
\* of it.
Patch(t, status) ==
    LET n == Len(job[t].told) + 1 IN
    /\ main \in {"up", "cancelled", "drained"}
    /\ job[t].saved
    /\ n <= MaxPatches
    /\ Mixed \/ \A u \in Tasks : job[u].told = <<>> /\ job[u].tries = 0
    /\ job' = [job EXCEPT ![t].told = Append(@, Announced(status))]
    /\ Emit(<<Event(Announced(status), t, MaxRetries + 1 + n, "")>>)
    /\ UNCHANGED <<pipeVars, waitVars, legacyOpen, busVars, mainVars>>

-----------------------------------------------------------------------------
(* The bridge *)

\* The payload is carried over as "raw": there is no "output" in it.
Bridged(e) == [e EXCEPT !.output = ""]

\* legacyMapping has neither token counts nor task.queued.
Bridge ==
    /\ Published("bridge")
    /\ legacy # <<>>
    /\ IF Head(legacy).kind \in {"tokens", "queued"} THEN UNCHANGED pub
       ELSE Publish("bridge", Bridged(Head(legacy)))
    /\ legacy' = Tail(legacy)
    /\ UNCHANGED <<pipeVars, waitVars, legacyOpen, lost, subs, handlers, wg, stopped, job, mainVars>>

-----------------------------------------------------------------------------
(* The pipeline *)

TaskAt(p) == <<p, pipe[p].task>>
At(p, here) == pipe[p].at = here
Goto(p, there) == pipe' = [pipe EXCEPT ![p].at = there]

\* dispatchAndWait, in the order of its three parts.
\* (faulty: the dispatch comes before the registration)
DispatchFirst == [start |-> "dispatch", dispatch |-> "register", register |-> "wait"]

Order == [start |-> "register", register |-> "dispatch", dispatch |-> "wait"]

\* POST /api/trigger starts Run, which announces itself.
Trigger(p) ==
    /\ At(p, "idle")
    /\ main \in {"up", "cancelled", "drained"}
    /\ Goto(p, "card")
    /\ Publish(p, Event("pipeline", TaskAt(p), 0, ""))
    /\ UNCHANGED <<got, waitVars, linkVars, subs, handlers, wg, stopped, job, mainVars>>

\* GetCard: it fails, as it does when the context is cancelled, or the idea
\* task is next.
Card(p) ==
    /\ At(p, "card") /\ Published(p)
    /\ Goto(p, "ended") \/ (~cancelled /\ Goto(p, Order["start"]))
    /\ UNCHANGED <<got, waitVars, linkVars, busVars, job, mainVars>>

\* A waiter that refuses does so after the contexts are cancelled: the dispatch
\* that would follow fails as well, and Run ends.
Register(p) ==
    /\ At(p, "register") /\ Published(p)
    /\ IF refusing THEN Goto(p, "ended") /\ UNCHANGED waiters
       ELSE Goto(p, Order["register"]) /\ waiters' = waiters \cup {TaskAt(p)}
    /\ UNCHANGED <<got, chan, refusing, linkVars, busVars, job, mainVars>>

\* A cancelled context ends the dispatch; the wait is then never called.
Dispatch(p) ==
    /\ At(p, "dispatch") /\ Published(p)
    /\ IF cancelled THEN Goto(p, "ended") /\ UNCHANGED pub
       ELSE Goto(p, Order["dispatch"]) /\ Publish(p, Event("submitted", TaskAt(p), 0, ""))
    /\ UNCHANGED <<got, waitVars, linkVars, subs, handlers, wg, stopped, job, mainVars>>

\* (faulty: the waiter's entry is left behind)
ForgetNot(p) == UNCHANGED waiters

\* The deferred delete of the wait.
Forget(p) == waiters' = waiters \ {TaskAt(p)}

\* The select of the wait: a result, or the end of the context.
Receive(p) ==
    LET t == TaskAt(p) IN
    /\ At(p, "wait") /\ Published(p)
    /\ chan[t] # Nothing
    /\ got' = [got EXCEPT ![p] = chan[t]]
    /\ chan' = [chan EXCEPT ![t] = Nothing]
    /\ Goto(p, IF chan[t].kind = "done" THEN "result" ELSE "ended")
    /\ Forget(p)
    /\ UNCHANGED <<refusing, linkVars, busVars, job, mainVars>>

GiveUp(p) ==
    /\ At(p, "wait") /\ Published(p)
    /\ cancelled
    /\ Goto(p, "ended")
    /\ Forget(p)
    /\ UNCHANGED <<got, chan, refusing, linkVars, busVars, job, mainVars>>

\* The breakdown's output is parsed into a task list; without a JSON array in
\* it Run fails.  Bridged events have no output, so Run never gets beyond.
Parse(p) ==
    /\ At(p, "result")
    /\ IF pipe[p].task = "idea"
       THEN pipe' = [pipe EXCEPT ![p] = [at |-> Order["start"], task |-> "breakdown"]]
       ELSE Goto(p, IF got[p].output = "text" THEN "parsed" ELSE "unparsable")
    /\ UNCHANGED <<got, waitVars, linkVars, busVars, job, mainVars>>

-----------------------------------------------------------------------------
(* Shutdown *)

Ended(p) == pipe[p].at \in {"idle", "ended", "parsed", "unparsable"}

\* The order of main: the contexts; the server's goroutines; the HTTP server,
\* after which nothing triggers a pipeline; the workers; the waiter; the
\* subscribers, the bridge among them; the bus.
Advance(here, there) == main = here /\ main' = there

Cancel ==
    /\ Advance("up", "cancelled")
    /\ cancelled' = TRUE
    /\ UNCHANGED <<pipeVars, waitVars, linkVars, busVars, job>>

Drain ==
    /\ Advance("cancelled", "drained")
    /\ \A p \in Pipes : Ended(p)
    /\ UNCHANGED <<pipeVars, waitVars, linkVars, busVars, job, cancelled>>

StopHTTP ==
    /\ Advance("drained", "closed")
    /\ UNCHANGED <<pipeVars, waitVars, linkVars, busVars, job, cancelled>>

StopWorkers ==
    /\ Advance("closed", "quiet")
    /\ \A t \in Tasks : job[t].at # "running"
    /\ UNCHANGED <<pipeVars, waitVars, linkVars, busVars, job, cancelled>>

\* EventWaiter.Stop: two unsubscriptions and the signals, taken as one step; no
\* task is dispatched or registered any more.
StopWaiter ==
    /\ Advance("quiet", "unsubscribing")
    /\ subs' = subs \ {"done", "failed"}
    /\ refusing' = TRUE
    /\ chan' = [t \in Tasks |->
                   IF t \in waiters /\ chan[t] = Nothing
                   THEN [kind |-> "stopped", task |-> t, output |-> ""] ELSE chan[t]]
    /\ UNCHANGED <<pipeVars, waiters, linkVars, pub, handlers, wg, stopped, job, cancelled>>

StopSubscribers ==
    /\ Advance("unsubscribing", "bridging")
    /\ subs' = {}
    /\ legacyOpen' = FALSE
    /\ UNCHANGED <<pipeVars, waitVars, legacy, lost, pub, handlers, wg, stopped, job, cancelled>>

\* LegacyBridge.Stop waits until the bridge has emptied its closed channel.
StopBridge ==
    /\ Advance("bridging", "stopping")
    /\ legacy = <<>> /\ Published("bridge")
    /\ UNCHANGED <<pipeVars, waitVars, linkVars, busVars, job, cancelled>>

StopBus ==
    /\ Advance("stopping", "waiting")
    /\ stopped' = TRUE
    /\ UNCHANGED <<pipeVars, waitVars, linkVars, subs, pub, handlers, wg, job, cancelled>>

BusDrained ==
    /\ Advance("waiting", "down")
    /\ wg = 0
    /\ UNCHANGED <<pipeVars, waitVars, linkVars, busVars, job, cancelled>>

-----------------------------------------------------------------------------
Pipeline(p) == Card(p) \/ Register(p) \/ Dispatch(p) \/ Receive(p) \/ GiveUp(p) \/ Parse(p)
Publishing(x) == NextSubscriber(x) \/ Acquire(x) \/ Abandon(x)
Handle(h) == Deliver(h) \/ Notify(h) \/ Look(h) \/ Send(h)
Execute(t) == Succeed(t) \/ Fail(t) \/ Suspend(t)
Shutdown == Drain \/ StopHTTP \/ StopWorkers \/ StopWaiter \/ StopSubscribers
              \/ StopBridge \/ StopBus \/ BusDrained

Next ==
    \/ \E p \in Pipes : Trigger(p) \/ Pipeline(p)
    \/ \E x \in Publishers : Publishing(x)
    \/ \E h \in handlers : Handle(h)
    \/ \E t \in Tasks : Start(t) \/ Refuse(t) \/ Execute(t) \/ \E s \in Statuses : Patch(t, s)
    \/ Bridge
    \/ Cancel \/ Shutdown

\* The steps of goroutines that are under way.  Nobody has to trigger a pipeline,
\* to set a status, to take a task from the queue or to shut down; a task that
\* runs ends (Execute gives it a deadline).
Progress ==
    \/ \E p \in Pipes : Pipeline(p)
    \/ \E x \in Publishers : Publishing(x)
    \/ \E h \in handlers : Handle(h)
    \/ \E t \in Tasks : Execute(t)
    \/ Bridge
    \/ Shutdown

\* While one of them can go on, one does.  That is weaker than fairness for each.
Fairness == WF_vars(Progress)

Spec == Init /\ [][Next]_vars /\ Fairness

-----------------------------------------------------------------------------
(* Properties *)

Results == [kind : {"done", "failed", "stopped"}, task : Tasks, output : {"text", ""}]
Events  == [kind : {"submitted", "pipeline", "started", "tokens", "queued", "done", "failed"},
            task : Tasks, n : 0..(MaxRetries + 1 + MaxPatches), output : {"text", ""}]

TypeOK ==
    /\ \A p \in Pipes :
          /\ pipe[p].task \in {"idea", "breakdown"}
          /\ pipe[p].at \in {"idle", "card", "register", "dispatch", "wait", "result",
                             "parsed", "unparsable", "ended"}
    /\ got \in [Pipes -> Results \cup {Nothing}]
    /\ waiters \subseteq Tasks
    /\ chan \in [Tasks -> Results \cup {Nothing}]
    /\ legacy \in Seq(Events) /\ Len(legacy) <= LegacyCap
    /\ \A h \in handlers : h.evt \in Events /\ h.at \in {"start", "send"}
    /\ Cardinality(handlers) <= Slots
    /\ wg = Cardinality(handlers) + Cardinality({x \in Publishers : pub[x].at = "acquire"})
    /\ \A t \in Tasks : /\ job[t].tries \in 0..(MaxRetries + 1)
                        /\ job[t].told \in Seq({"started", "queued", "done", "failed"})
                        /\ Len(job[t].told) <= MaxPatches

\* What was said of task t through the API.
ToldAs(t, kind) == \E i \in DOMAIN job[t].told : job[t].told[i] = kind

\* What the pipeline believes of the task it awaits was said of that very task:
\* it goes on with a task that is done or was announced as done through the API,
\* and gives up one an attempt of which failed or that was announced as failed
\* there, although results travel through two buses, are handled in any order
\* and may come after the pipeline's next registration (waiter.go:107-146).
ResultEarned ==
    \A p \in Pipes :
        LET t == TaskAt(p) IN
        /\ At(p, "result") => job[t].at = "done" \/ ToldAs(t, "done")
        /\ At(p, "ended") /\ got[p].kind = "failed" => job[t].tries > 0 \/ ToldAs(t, "failed")

\* The waiter's map holds the tasks that are awaited and no others, until the
\* contexts are cancelled (a Dispatch refused for that reason leaves its
\* entry behind, pipeline.go:312-314).
WaitersExact ==
    ~cancelled => waiters = {TaskAt(p) : p \in {q \in Pipes : pipe[q].at \in {"dispatch", "wait"}}}

\* The outcome of t's last attempt.
Outcome(t) == Event(job[t].at, t, job[t].tries, IF job[t].at = "done" THEN "text" ELSE "")

Awaits(p, k) == At(p, "wait") /\ pipe[p].task = k

\* A pipeline whose task ended, done or out of retries, is told so, however
\* early the outcome comes ("registers a wait channel BEFORE dispatching to
\* prevent the race", pipeline.go:301), unless the legacy channel was full at that
\* moment and dropped this very outcome (bus.go:52-57): nothing sends it again,
\* and the pipeline waits until it is cancelled.  A task whose every attempt was
\* refused is not announced at all.
OutcomeArrives ==
    \A p \in Pipes, k \in {"idea", "breakdown"} :
        (Awaits(p, k) /\ job[<<p, k>>].at \in Outcomes /\ Outcome(<<p, k>>) \notin lost)
            ~> ~Awaits(p, k)

\* The shutdown ends: neither a publisher without a slot, nor a pipeline that
\* waits, nor a bridge with events left keeps main for ever (main.go:199-234).
ShutdownEnds == main = "cancelled" ~> main = "down"

=============================================================================
