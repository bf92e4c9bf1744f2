# AgentClaw: specifications and proofs

AgentClaw (Go) runs LLM agents on tasks. Tasks come in over HTTP, from Trello or
from a pipeline, wait in a priority queue, are taken through phases by one agent
per role with a context assembled from several stores, call models through a
router with circuit breakers and fallbacks, may stop to ask a human, and announce
what became of them on two event buses, from where a WebSocket hub shows it.
This directory models that program in TLA+, checks it with TLC and proves part of
it with TLAPS. Paths below are relative to `src/`.

## 1. Inventory

### 1.1 Parts that are modelled

| Part | Code | State | Operations | Talks to | What is hard |
|---|---|---|---|---|---|
| Task queue | `internal/queue/queue.go` | heap, role index, `inQueue`, `doneIDs`/`doneSeq`, a global and one notification channel per role (capacity 1 each) | `Push`, `Pop`, `MarkDone`, `MarkFailed` | nine workers started by `cmd/agentclawd/main.go`; any number of pushers | signals are sent after the unlock; `MarkFailed` is three critical sections; eviction of done IDs |
| Agent pool | `internal/agent/pool.go`, `api/agents_handler.go` | agents, stop and done channels by ID | `Spawn`, `Kill`, `Restart`, `supervise`, `restartFromSupervisor`, `ShutdownAll` | HTTP handlers, supervisors, workers (agent status), main | `killLocked` releases the lock and waits; supervisors replace agents and channels |
| Human replies | `internal/agent/reply_store.go`, `pre_executor.go` (phaseClarify), `usecase/escalation/chain.go` | entries by message ID and by task, a channel each | `Register`, `Reregister`, `Resolve`, `ResolveByTask`, `Unregister`, `UnregisterByMsgID` | Telegram, `/answer`, agents, the escalation chain | answers that race expiry, registration before or after the send, restart |
| LLM router | `internal/llm/router.go`, `breaker.go`, `fallback.go` | per provider: breaker state, failure count, time of opening | `Call`, `allow`, `recordSuccess`, `recordFailure`, `callWithFallback` | providers' HTTP APIs | overlapping calls report late, probes, back-off |
| Events and pipeline | `internal/agent/bus.go`, `infra/eventbus/*`, `infra/task/*`, `infra/subscriber/*`, `integrations/pipeline/pipeline.go` | channels of the legacy bus, subscriptions, wait group, semaphore and `stopped` of the domain bus, waiters by task | `Publish` of both buses, `Stop`, `RegisterAndWait`, handlers, `Dispatch`, `Run`, bridge | queue, executor, trigger handler, main's shutdown | one goroutine per handled event, dropped events, retries announced as failures, shutdown order |
| Phases of a task | `internal/agent/executor.go`, `base.go`, `pre_executor.go`, `adapter/adapter.go`, `memory/store.go` | the task object, its row | `Execute`, `Run`, the four phases, `SaveTask`, `ResumeTask`, `RecoverSuspendedTasks`, status patch | queue, models, humans, HTTP | the row is overwritten as a whole by objects read at different times; retries, second objects and restarts enter in any phase |
| Phase runner, checkpoints, escalation chain, two orchestrators | `usecase/phase/*`, `usecase/escalation/*`, `usecase/orchestrator/{router,loop,test_fix}.go`, `infra/state/checkpoint_store.go` | task, row, checkpoint | `Run` and the phases, `Chain.Resolve`, `LoopOrchestrator`, `TestFixOrchestrator` | models, humans, commands | two stores written one after the other; suspension, crash and resumption; three nested loops |
| File-backed stores, summarizer | `state/*.go`, `summarizer/summarizer.go` | files and caches of skills, patterns, scratchpad, scopes, agent documents | `ApplyReflection`, `Save`, `MarkResolved`, `AddEntry`, `Write`, `UpdateFocus`, `Read`, `Append`, `seedDefaults`, `CompressAgentHistory` | executor, API | several files per update; a crash or an error between two; caches filled without the lock |
| Context assembly | `memory/context.go`, `infra/memory/*`, `state/skills.go`, `agent/base.go` | one context under construction | `BuildContext` (both), `enforceTokenBudget`, `BuildSkillContextForTask`, `buildSystemPrompt` | SQLite, files, Redis, Qdrant, Neo4j | five goroutines and one result; limits with cuts and marks; a deadline |
| WebSocket hub | `api/websocket_handler.go`, `api/server.go` | clients, channels, connections | `run`, `handleWS`, pumps, `forwardEvents`, `Shutdown` | browsers, legacy bus, main | four ways to close a channel, a hub that stops while others talk to it |
| Token gate | `middleware/auth.go`, `jwt_cache.go` | two Redis keys per token | `AuthMiddleware`, `Logout`, `RefreshToken` | Redis | requests that overlap a logout, keys that expire, Redis that fails |

### 1.2 Parts that are not modelled

* The **parallel and hierarchical orchestrators** (`usecase/orchestrator/parallel.go`,
  `hierarchical.go`): several tasks and their partial failure. Nothing in the
  repository constructs them; they are the next thing to model.
* **Git automation, reasoning** (`usecase/git`, `usecase/reasoning`), **guards**
  (`guard`): sequential or stateless text processing.
* **Integrations** (Telegram, Slack, Trello, GitHub), **command runner and file
  writer**, **configuration**: one request or one system call per function; what
  they may answer is nondeterministic wherever a model calls them.
* **PostgreSQL stores, schemas, statistics, pricing, metrics**: single statements
  whose rows no other code depends on.
* **Rate limits, CORS, headers, password hashing**: a library's or stateless.
* The **dashboard**: displays what the API returns.

`PROJECT.json` ("components") lists every part with its files and the reason.

### 1.3 What makes each part correct

* Queue: its indexes agree; a task object is in one place; no task is lost and
  no worker sleeps through work of its role; hand-outs respect dependencies and
  priority.
* Pool: one supervisor per live agent; an agent is retired before it goes; kills
  and restarts return; after the shutdown no agent in the pool is left running.
* Replies: no send on a closed channel; an answer reaches the one who asked; no
  entry outlives its asker.
* Router: breaker state and count agree; exhaustion is reported only when
  earned; calls end.
* Events: a pipeline is told what became of its own task, and is told at all; no
  waiter leaks; the shutdown ends.
* Phases: nothing is implemented without an approved plan and with a question
  open; answers are not lost; the row is what a restart needs; the task ends.
* Runner: the same order across resumptions; a suspended task can be resumed from
  its two stores; every run ends.
* Stores: an index names no missing file; nothing that was accepted is lost.
* Context: within its limits, complete, delivered in time.
* Hub: a channel is closed once; clients are counted and let go of; it stops.
* Token gate: a revoked token is refused.

## 2. Modules

| Module | What it is |
|---|---|
| `QueuePromise` | What the queue promises, without heap, index or channels: a set of waiting tasks, remembered done IDs, at most one task with each worker |
| `TaskQueue`, `MCTaskQueue` | The queue with its workers and pushers; it implements `QueuePromise` (`TaskQueue!Promise`) |
| `TaskQueueProofs` | Theorems about `TaskQueue` |
| `AgentPool`, `AgentPoolProofs` | Pool, supervisors, kill and restart requests, running tasks, shutdown; theorems |
| `HumanReplies`, `MCHumanReplies` | Reply store, agents, escalation chain, human, restart |
| `HumanRepliesProofs` | Theorems about `HumanReplies` |
| `LlmRouter`, `MCLlmRouter` | Breakers and calls with fallback |
| `TaskEvents`, `TaskEventsProofs` | Both buses, bridge, waiter, dispatcher, pipeline and the shutdown that stops them; theorems |
| `TaskPhases`, `TaskPhasesProofs` | One task through `Execute` and `Run`, its row, the queue's memory of it; theorems |
| `PhaseRunner`, `PhaseRunnerProofs` | `Runner.Run` with the checkpoint store, the escalation chain and two orchestrators; theorems |
| `StateFiles` | The five file-backed stores with their caches, failed writes, crashes |
| `ContextAssembly` | One assembly of context and prompt |
| `MemoryProofs` | Theorems about `StateFiles` and `ContextAssembly` |
| `WsHub` | Hub, connections, forwarding, shutdown |
| `TokenGate` | Authentication and logout over Redis |
| `ServerProofs` | Theorems about `LlmRouter`, `WsHub` and `TokenGate` |

### 2.1 How state and actions correspond to the code

A step is one critical section of a mutex, one operation on a channel, or one
call to the outside, in every module. Between two steps any other goroutine may
run. Definitions keep the names of the code; `PROJECT.json` ("map") gives the
lines each stands for. Some definitions are preceded by a variant marked
`(faulty: ...)`: it is what a plausible bug would make of the next definition,
and putting it in that place makes TLC report the property named in
`PROJECT.json` ("mutants").

**TaskQueue.** A member of `Tasks` is a `*adapter.Task`, not an ID: `ResumeTask`
loads a second object of an ID, and this is where duplicates come from. `Push`
is split in its critical section and its two signals (`PushSignalRole`,
`PushSignalAll`); the worker's loop is `Pop` (scan or sleep), execution, then
`MarkDone`, or `MarkFailed` in three parts (count, clear, push again), and the
signals that follow. The heap's order is abstracted: `findReady` looks for the
best task itself, among equals any may come first.

**AgentPool.** Agent, stop channel and done channel are created together: one
*generation*. `killLocked` is two actions, before and after its wait, with the
nil entry it leaves between them (`sentinel`). The supervisor reads an agent's
status in one step and acts on it in another. A panic sets `crashed` and stops
the model as it stops the process.

**HumanReplies.** Asks are numbered; ask n makes channel n and, once sent,
message n. `telegram` says whether Telegram is configured and never changes. Message 0
is phaseClarify's placeholder and, without Telegram, what every chain and every
recovered question registers (`MsgOf`); an agent then fails its task before it asks. `Resolve` and
`UnregisterByMsgID` act on the channel after the unlock: `sending` and `closing`
hold what is out of the store and not yet in the channel. A restart forgets the
store and the goroutines; `Recover` sends the questions again.

**LlmRouter.** `call[c].tried[i]` is the list of outcomes of the i-th model tried.
Requests end in success, a transient or a permanent error; the cooldown may pass
at any time while the circuit is open. The failure count is cut at the
threshold, with which alone it is compared.

**TaskEvents.** `pub[x]` is the call of `Publish` goroutine x is in: its snapshot
of the subscribers, then for each a unit of the wait group, then a slot or the
end. `handlers` are the goroutines started. The worker of a task (`Start`,
`Refuse`, `Succeed`, `Fail`, `Suspend`) is `Executor.Execute` with what the
queue does next. `Patch` is `PATCH /api/tasks/:id` of a task that has a row: it changes
nothing the queue or the worker reads, but is announced like an outcome. `lost` is a
history of the outcomes that found the legacy channel full. The pipeline runs steps
1 to 4; step 5 cannot be reached (see 4). `main` walks through the shutdown of
`main.go`.

**TaskPhases.** `obj[o]` are the fields of one `*adapter.Task`, `row` the task's
row; `at[o]` is the place in `Execute` or `Run` where object o is. A step is one
call of a model, a human or the store. `Save` may fail and is then only logged;
`Execute`'s first statement, whose failure ends it, is the exception. The queue
is reduced to what it remembers of this ID (`mark`): `TaskQueue` has the rest.
`ResumeTask` and `Restart` copy the row into a fresh object.

**PhaseRunner.** `task` is the object in memory, `row` and `cp` are what the two
stores hold, `held` is the checkpoint `Run` loaded. `pc` names the next call. In
`Run`, an error of `SaveTask` ends the run, one of the checkpoint store is logged.
`mode` is who called: the router, the loop or the test-and-fix orchestrator.

**StateFiles.** A step is one file operation. `saving`, `noting`, `adding` are the
local variables of a `Save`, `AddEntry` in progress; `Mutate` is there because
`Load` returns the cached set itself, so that a `Save` that fails has changed
the cache. A file that is truncated and then written is `Torn` in between; one
written by way of a temporary file is not. `AddEntry` starts afresh when the
scratchpad cannot be parsed and when reading it fails; `adding.lost` are the entries
such a call loses when it empties the file, and `dropped` all that were given up.

**ContextAssembly.** Texts are sizes. `pending` and `answered` are the goroutines
that have not returned and those that returned something; `at` is the caller's
place; `listed` are the decisions as they were read, with which the budget's cut is
compared. The enriched context ends at `enriched`, a prompt at `done`. Limits, cuts
and marks are those of the code (`Truncate`, `Shorten`, `CutBy`, `RenderEntry`), in
tokens or bytes as there. A document may be empty, which
is told from a missing one as the code does. The role's skills are a set, ordered
by `Before`; those of a kind are alike, but for a number.

**WsHub.** `read[c]` and `write[c]` are the two pumps of a connection, `once[c]` their
shared cleanup. A send on an unbuffered channel and its receipt are one step.
`closes[c]` counts how often the client's channel was closed.

**TokenGate.** One user's token pair; each call to Redis is a step and may fail.
`after[r]` marks requests that began when a logout had completed, `blind[r]` those
whose question to the blacklist got no answer.

### 2.2 External behaviour

`runWorker`, `wireSubscribers` and `stopSubscribers` are called in `main.go` and
are not in the repository. The models take them as their callers and the
comments there require: a worker pops, executes and then marks done or failed
with the fixed retry limit; `stopSubscribers` unsubscribes the handlers and stops
the bridge, before the bus is stopped. Telegram delivers a message before its
API call returns and a human answers a message at most once.

## 3. Runs

| Run | Instance | Distinct states | Shows |
|---|---|---|---|
| `task_queue` | 2 roles, 4 task objects of 3 IDs (two objects of one ID, two tasks depending on it), 1 retry, done set of 2, 1 push in progress | 219,345 | `TypeOK`, `QueueCoherent`, `ExclusiveCustody`, `NoLostWakeup`, `NoSilentLoss`, `ImplementsPromise` |
| `agent_pool` | 2 agents, 2 concurrent requests, 3 generations | 211,478 | `OneSupervisor`, `AllRetired`, `RetiredBeforeGone`, `CallsReturn` |
| `human_replies` | with and without Telegram; 2 agents and 2 chains on 4 tasks, 3 asks, 1 restart | 907,984 | `OneHolder`, `ChainServed` |
| `llm_router` | 2 callers, 2 providers, a chain of 2, 3 attempts, threshold 2 | 199,238 | `TypeOK`, `CountMatchesState`, `ExhaustionEarned`, `CallsEnd` |
| `task_events` | 1 pipeline with its 2 tasks, 1 retry or 1 patch, legacy channel of 2, 2 handler slots | 420,374 | `TypeOK`, `ResultEarned`, `WaitersExact`, `OutcomeArrives`, `ShutdownEnds` |
| `task_phases` | 1 question, 2 redirects, 1 retry, 2 objects, 1 restart, 1 failing statement, 1 patch | 113,314 | `ReviewedWork`, `StoreKeepsUp`, `AnswersKept`, `TaskEnds` |
| `state_files` | 3 skills (2 long, 2 anti-patterns) for 2 places, 1 pattern, 3 entries for 1 place, 1 reader, 4 calls, 1 failing read or write, 1 crash | 3,302,742 | `DetailsPresent`, `EntriesKept`, `SectionsKept` |
| `phase_runner` | 2 questions, 4 iterations, 3 redirects, 2 attempts, 3 runs, 2 failing writes, any number of crashes | 79,073 | `ReviewedWork`, `SuspendedResumable`, `RunEnds` |
| `context_assembly` | sizes on both sides of every limit, 0 to 20 skills, all three remote stores | 330,305 | `ContextFits`, `NothingMissing`, `SectionBounded`, `BuildEnds` |
| `ws_hub` | 2 clients, one of them stuck, room for 1, channels of 1, 4 events | 89,983 | `ClosedOnce`, `ClientsCapped`, `ClientsLetGo`, `ShutdownEnds` |
| `token_gate` | 2 requests, 2 logouts, 2 failing calls | 444,812 | `RevokedRefused` |
| `agent_pool_panic` | 1 agent, 2 requests | violation | `NeverPanics` |

Why these bounds are enough for what is asked:

* *Queue.* A lost wake-up takes one sleeper, one signaller and a competitor for
  the token: two roles and a pusher. Duplicates take two objects of an ID. The
  third completion evicts an ID, which a done set of two makes happen. Only
  `Flaky` tasks fail, one with a twin and one with a dependency; the proofs
  cover the rest.
* *Pool.* The races are between a request, another request and a supervisor of
  the same ID. Three generations let an agent be restarted by one while another
  is restarting it; the second ID shows that nothing crosses over.
* *Replies.* Two agents share the placeholder; the chains have IDs of their own or,
  without Telegram, share message 0. Three asks let three wait at once, one of them
  in an entry that has been replaced.
* *Router.* A probe needs one call, a late reporter a second one; the chain of
  two shows that attempts are counted per model.
* *Events.* A legacy channel of 2 does not hold the events of one attempt (started,
  tokens, done): when the bridge is slow, the outcome of a task is dropped, also of
  the first one. One pipeline has at most one waiter at a time, so an event that comes late is
  handled while the waiter of the next task is registered. A status set
  through the API overlaps with the worker's own announcements and with the next task's.
  A run has failing attempts or one such status, not both (`Mixed` is FALSE: both together
  make tens of millions of states); what the proofs say holds of any number of both.
  A publisher stops for want of a slot with two slots in use by the events of the other one.
* *Phases.* What can go wrong takes one stale object and one row: two objects, a
  retry and a restart give every way to read one and write the other. Two
  redirects are the code's limit, and one is sent back and one refused.
* *Runner.* The constants are the code's, but for the orchestrators' attempts (2
  instead of 3 and 5). Three runs let a task be interrupted, suspended and resumed.
  Two questions make the order of their checkpoints matter.
* *Stores.* Two long skills compete for the index with a third; the third entry
  overflows twice. One failing write and one crash are enough to part two files;
  four calls let two be in progress and one follow.
* *Context.* Documents are below, between and above the caps; eighteen skills with long
  summaries exceed the section by themselves; two decisions, each small or large, let
  the second one be dropped, both, or a small one because it is behind a large one.
* *Hub.* Rejection takes one client more than there is room; eviction a full
  channel of 1; a shutdown that finds the broadcast channel full takes three events.
* *Token gate.* The request that writes the key again overlaps one logout and another
  follows; the proofs cover any number.

Deadlock checking is off where the program really stops: after cancellation,
shutdown, a panic or the bound of the instance; each `.cfg` says which. The
run with `expect: violation` checks a comment that the code does not keep; see 4.

### 3.1 Fairness

* `TaskQueue`: every worker and every pusher past its critical section goes on
  (weak fairness): goroutines are scheduled, and an execution has a deadline.
  Nobody has to push or to cancel.
* `AgentPool`: goroutines past their select go on. Seeing a closed stop channel
  is strongly fair: the select chooses at random among the ready cases, and a
  tick may be ready as well each time.
* `LlmRouter`: requests have a timeout, back-offs a timer. A cooldown need not pass.
* `TaskEvents`: as long as some goroutine can go on or a running task end, one does
  (weak fairness of `Progress` as a whole, which asks less than fairness for each).
  Starting a queued task, a trigger, a patch and a shutdown are not in it. A publisher that
  can take a slot or give up on a stopped bus does one of the two.
* `TaskPhases`: a worker takes a queued object in the end, and a run goes on: every
  call of a model, the store or a human has a deadline.
* `PhaseRunner`: the same for a run in progress. Nobody has to run a task again.
* `ContextAssembly`: goroutines go on, files and SQLite answer. Remote stores need
  not: their requests fail when the context's deadline has passed.
* `WsHub`: goroutines go on, select chooses among ready cases; a shutdown once
  begun continues. Nobody has to connect, leave, publish or shut down.
* `HumanReplies`, `StateFiles`, `TokenGate`: none, their properties are safety
  properties; a human may never answer.

## 4. What the code does otherwise than it says

One disagreement is the subject of a run: `agent_pool_panic` checks `NeverPanics`,
"Safe to call concurrently" of `Kill` (`agent/pool.go:87`): a second `Kill`, or a
supervisor's tick during one, closes a closed channel or calls a nil agent.

The others are in the models as the code has them, and are listed under
"findings" in `PROJECT.json` with the sentence they contradict. In short:

* *Queue and phases*: a retry makes room for a second object of the ID, and the
  task is done twice; the row `ResumeTask` copied overwrites the answers the first
  object has saved since ("without re-work", `docs/README.md:116`); a plan that was sent back is never dispatched again, and its
  questions and answers are gone although they are said to be preserved.
* *Replies*: two agents share placeholder 0 and one may get the other's answer; an
  answer that comes before the send has returned is discarded; recovered
  questions are asked again; without Telegram chains that wait at once share
  message 0 and replace one another's entry.
* *Pool*: a supervisor in the middle of a restart outlives `ShutdownAll`; failed
  health checks restart nothing.
* *Router*: a probe answered with a 4xx leaves its breaker half-open for ever; the
  requested model gets one attempt, and no fallback after a 4xx.
* *Events*: the bridge does not carry a task's output over, so a pipeline always
  fails at its task list; handlers may start after the bus has stopped; triggers
  are accepted after the wait for pipelines; a task set to pending or cancelled is
  announced as done, and its pipeline, which "blocks until the task completes"
  (`infra/task/waiter.go:69`), goes on.
* *Runner*: guidance is not used in the next iteration; with questions, the four
  iterations leave no room for a plan that was sent back.
* *Stores*: a split skill loses its body at the second save; anti-patterns are cut
  like others; a stale scope manifest may be written back; the scratchpad and detail files
  are written in place, although "all file stores" are said to be renamed into place
  (`docs/README.md:347`), and detail files again although they are "immutable";
  a scratchpad that could not be read once is overwritten.
* *Context*: the oldest task serves as the most recent; recent tasks are printed as
  addresses and overwritten by Redis' window; the quick reference is unbounded; the
  project document's cap of 800 counts tokens, not characters, and holds for complex
  tasks too (2000).
* *Hub and gate*: evicted clients keep their connections; `Shutdown` may wait for
  ever; no refresh token is accepted.

## 5. Proofs

TLC checks the instances above. TLAPS proves, for every value of the constants
that satisfies the named assumption of the module:

**`TaskQueueProofs`** (from `QueueAssumption`)

| Theorem | States |
|---|---|
| `TypeCorrect` | `Spec => []TypeOK` |
| `Coherent` | `Spec => []QueueCoherent` |
| `Custody` | `Spec => []ExclusiveCustody` |
| `NothingLost` | `Spec => NoSilentLoss` |
| `WakeupsSurvive` | `Spec => []NoLostWakeup` |
| `Refinement` | `Spec => PromiseSafety`: every step is a step of `QueuePromise` or a stutter |

`TypeOK` is inductive by itself; so are, given it, the parts of `QueueCoherent`:
the role index (`RoleIndexStep`), the dedup marks (`InQueueStep`) and `doneSeq`
(`DoneSeqStep`; the eviction is `RecordDoneExact`). `ExclusiveCustody` is not
inductive: a task that nobody has pushed could be pushed while a worker holds
it. `Unsubmitted` says that such a task is nowhere, and `CustodyInv` is the
two together. `NoLostWakeup` rests on `OwesOnlyInSignal` (only a worker about to
signal owes a signal, so `MarkDone` overwrites nobody's debt) and on `NewlyReady`:
a role with tasks that became ready through `MarkDone` is among those it signals. `Refinement` cites all of them: a hand-out
is a `HandOut` because the candidates are the best ready ones, a retry is a
`Retry` because the task is in no other place.

**`ServerProofs`** (from `RouterAssumption`, `HubAssumption`, `GateAssumption`)

| Theorem | States |
|---|---|
| `BreakersCoherent` | `Spec => []CountMatchesState` |
| `ExhaustionIsEarned` | `Spec => []ExhaustionEarned` |
| `TypesCorrect` | `Spec => []TypeOK` (of the router) |
| `HubTypeCorrect` | `HubSpec => []HubTypeOK` |
| `NeverClosedTwice` | `HubSpec => []ClosedOnce` |
| `NeverTooMany` | `HubSpec => []ClientsCapped` |
| `GateTypeCorrect` | `GateSpec => []GateTypeOK` |
| `RevokedTokenRefused` | `GateSpec => []RevokedRefused` |

`ExhaustionEarned` speaks of calls that are settled. `Attempts` says where a call
has got in every state: models before the current one are spent, the requested
one failed transiently once, and the current one has an attempt left unless the
call is settled. `AnswerAttempts` is the heart of it, one case per branch of
`AfterFailure`.

`ClosedOnce` needs `Unregistered`: a connection whose pump has not got to the hub yet
is in no map and its channel has never been closed, so that `Register` may close
it. `FewerClients` carries the limit over every step that takes clients out.

The gate's argument follows the token: a logout past its first call has written the
blacklist's key, which lasts until the token expires (`RevokedIsBlack`); a request
is late only if such a logout completed (`AfterIsEarned`); so it gets past the
blacklist only unanswered (`PastBlacklist`). The valid key, which another
request may write at any time, does not matter: it is asked second.

**`PhaseRunnerProofs`** (no assumption is needed)

| Theorem | States |
|---|---|
| `OnlyReviewedWork` | `Spec => []ReviewedWork` |
| `SuspensionResumable` | `Spec => []SuspendedResumable` |

Neither is inductive: both relate the place of the run to what was saved long
before. `IInv` adds what every step relies on: `PhaseAt` (the place determines the
task's phase), `Sound` of the task and of its row (open questions in the clarify
phase only, a later phase only with an approved plan), `Saved` (the row is the
task except between an assignment and its `SaveTask`) and `Asking` (a human is
asked about an open question, after the checkpoint says so). `SaveTaskInv` is the
lemma about saving, cited by each action that saves and goes on, whether the
write fails or not.

**`TaskPhasesProofs`** (from `PhasesAssumption`)

| Theorem | States |
|---|---|
| `OnlyReviewedWork` | `Spec => []ReviewedWork` |
| `RowStaysSound` | `Spec => [](row # NoRow => Sound(row))` |
| `StoreIsCurrent` | `Spec => []StoreKeepsUp` |
| `AnswersStay` | `Spec => AnswersKept` |

Here the row is the way one object's state gets into another: `ReviewedWork` holds
only because whatever `SaveTask`, `UpdateTaskStatus`, `AddTokens` and the API leave in
the row is `Sound` too. `StepInv` and `SaveInv` are the lemmas about one step of one
object, `LoadInv` the one about a copy of the row.

`StoreKeepsUp` and `AnswersKept` ask the converse, that the row follows the object.
`AnswersKept` names the two ways an answer leaves the row, `PlanSentBack` and
`StaleSave`: the second takes a second object, so that with one object only a plan
sent back does (`AnswerLost`, from `Ahead`). That `ResumeTask`'s object really loses
answers is a finding (see 4).

`KInv` says which fields agree at each place of a run (`Agrees`), how far the object
is ahead (`Ahead`: its answers are at least the row's), which costs are in the row
(`Paid`), that one object at a time is with a worker (`Exclusive`) and which objects
exist (`Made`). Every step of a run is one of five kinds (`Shape`: saving, beginning,
counting, ending, passing), and the invariant is shown of the kinds, not of the
twenty actions; `PhasesShape`, `AroundShape` and `QueueShape` sort the actions.

**`AgentPoolProofs`** (from `PoolAssumption`)

| Theorem | States |
|---|---|
| `SupervisedByOne` | `Spec => []OneSupervisor` |
| `RetiredFirst` | `Spec => RetiredBeforeGone` |
| `ShutDownAll` | `Spec => []AllRetired` |

`Watched` says more than `OneSupervisor`: a supervisor that has not exited is the one
of the agent *now* under its ID and has not closed its done channel. So a call that
has seen the done channel closed (`Held`: its agent is still under the ID, behind
the sentinel) finds no supervisor left (`Reaped`), and may install an agent with a
new one. `InstallInv` is the common part of `Spawn`, `Restart` and the supervisor's
restart.

`AllRetired` holds at the end of `ShutdownAll`, long after it read the pool, of every
agent in the pool; a supervisor in the middle of a restart may outlive it (see 4). `Drained`
says what is left once the stop channels are closed: no call, no job, and the only
agents that are not stopped are those a supervisor made since, on which nothing
runs; `Over` says whom the remaining supervisors watch. It takes `SeenLast` (what
a tick read is still the agent of its ID) and `Born` (a status belongs to an agent
that exists). Generations are numbered up to `MaxGen`, so the proof also counts:
`RoomKept` bounds those made and those promised, which needs finite `Ids` and
`Callers`.

**`HumanRepliesProofs`** (from `RepliesAssumption`)

| Theorem | States |
|---|---|
| `ChannelsHeldOnce` | `Spec => []OneHolder` |
| `ChainsServedAlways` | `OwnTasks` implies `Spec => []ChainServed` |

The invariant follows a channel from hand to hand: the next ask's channel is
`Unused` (`NextUnused`, from `Made`), a chain that has asked owns its channel until it
registers it (`ChainsOwn`), an entry that is taken out gives it to one send or one
close (`TakeInv`, `CloseInv`), and overwriting or moving the placeholder's entry
duplicates nothing (`RegisterInv`, `MoveDrops`).

`ChainServed` is about the per-task index as well, by which `/answer` finds a question.
`Indexed` relates index and entries, `Numbered` gives each ask a task of its own;
`Served` says of each chain that what the store holds about its task is the question
it waits for. The other askers' steps are all `Aside`: they touch neither. This is
where the property's own condition comes in, that Telegram is configured (without it
chains share message 0, see 4), and the theorem's hypothesis, `OwnTasks`: nobody but
a chain asks about its task. In the code a chain asks for the task its runner is working on, which
no agent executes; two who asked about one task would share its index: an
answer by task would go to whichever question came first, and a chain that has ended
would still find the other's question under its task.

**`TaskEventsProofs`** (from `EventsAssumption`)

| Theorem | States |
|---|---|
| `TypeCorrect` | `Spec => []TypeOK` |
| `ResultsEarned` | `Spec => []ResultEarned` |
| `WaitersMapExact` | `Spec => []WaitersExact` |
| `DeliveredOnce` | a submission enters the queue with a new ID |

An outcome is delivered by goroutines that started long before. `Past(e, job, pipe)`
says that the event e has happened and, by the places of the task and its pipeline,
will not happen again. Everything under way is past: what is in the legacy channel
(`Legacy`), in a call of `Publish` (`Publications`) and in a handler (`Handling`), and
events stay past (`Lasting`). The worker's events are told apart from those of the API
by their numbers: the i-th the API announced has been added to `told`. From it follow `ResultEarned`, and that an event is
published once and each subscriber gets it once, hence `DeliveredOnce`. `Waiting` is
the waiter's map and its buffered channels. The type invariant says that the wait
group counts the handlers and what publishers still owe; that is the counting in
`Counted`, for which `Pipes` is finite. `"bridge" \notin Pipes` keeps the publishers apart.

**`MemoryProofs`** (from `FilesAssumption`, `SizesAssumption`)

| Theorem | States |
|---|---|
| `FilesFound` | `FilesSpec => []DetailsPresent` |
| `EntriesStay` | `FilesSpec => []EntriesKept` |
| `SectionsStay` | `FilesSpec => []SectionsKept` |
| `SectionStaysBounded` | `Spec => []SectionBounded` |
| `ContextStaysInBudget` | `Spec => []ContextFits` |
| `NothingIsMissing` | `Spec => []NothingMissing` |

*Files.* A crash may come between any two file operations, so each invariant speaks
of disk, cache and the call in progress at once. `SkillsInv` and `PatternsInv` say that
index, cache and the set being saved name files that are there; a detail file is
written before the index that names it. `WholeInv` adds that it is whole as long as
nothing has failed. `PadInv` says of each entry accepted that it is in the pad until
the pad is emptied, and then in the list that is written in its place, in the archive
or among what the call gives up (`dropped`): the code does lose entries, and the
theorem says that it loses no others.
`DocInv` follows the sections of one document; two appends both add, because the
file is opened to append. `FilesAssumption` says that `NoFile`, `Torn` and `Idle` are
none of the values they stand beside.

*Skill section.* What is left of the section's bytes is what it does not yet hold, as
long as there are entries to render (`SectionOK`).

*Context.* `ContextInv` says what the reads have put together, whichever have returned
(`Gathered`, of the code list `CodeOK`): its recent tasks are as many as counted, and
it has at most three patterns besides. Whatever the order, the texts other than the
decisions are within the budget (`Adds`), so that only decisions are dropped (`Enforced`),
from the end, and the last one dropped would not have fitted (`Shortened`, by
`OneMore`); a smaller one behind it goes with it. `NothingMissing` names what the
enriched context leaves out by design of its fields (`infra/memory/store.go:69-76`):
decisions, other roles' scopes, recent tasks; what it takes over has to survive the
merge (`Taken`). `Gathered` also needs that a read is not
pending and answered at once: a second answer could find an empty project document.

The budget is about sums over sequences, and `Tokens` is a recursive function. That such
a function exists and adds up is not given to the provers, and the library's
induction rule cannot be used (see below); but induction up to a number can be had
from the least element of a set of numbers (`LeastNumber`, `UpTo`), with a set in the
place of the predicate. From it come the sum (`SumExists`, `TokensIs`), its bound
(`TokensBounded`), its additivity (`TokensSplit`) and the greatest element of a finite
set of numbers (`Greatest`), which is what `Shorten` takes.

### Only model-checked

Liveness under fairness (`ImplementsPromise` beyond its safety part,
`CallsReturn`, `CallsEnd`, `OutcomeArrives`, `ShutdownEnds`, `TaskEnds`, `RunEnds`,
`BuildEnds`, `ClientsLetGo`) is beyond this prover, and so is `ENABLED`. Rules with an
operator as parameter, such as induction for an arbitrary predicate, cannot be
instantiated; where a proof needs induction over numbers, it is stated about a set.
Every invariant and every action property of the passing runs is proved.

### Abstractions to know of

* Time: cooldowns, back-offs, deadlines and the 24 h wait end at any moment.
* Data: prompts, answers, plans and results are what the properties tell apart
  (whose answer, which outcome, a size).
* Priorities are numbers without ageing; the queue has none.
* The bridge sees the events of tasks only; agents' life-cycle events take room in
  its channel as well. Its real capacity is 64. An executor's two last events are emitted in one step.
* The semaphore of five pipelines is not reached by one.
* In `TaskEvents`, a database error makes `Execute` return early (`Refuse`).
* One worker serves the role of the task in `TaskPhases`; one agent reflects at a
  time in `StateFiles`.
* `StateFiles` keeps where a text is, not the text; the archive of summaries, which
  nothing reads, is left out.
* `ContextAssembly` has four error patterns and three kinds of skills, chosen so
  that every rule of their scores decides once.

## 6. Plan

1. **Orchestrators**: the parallel orchestrator's partial failure and cancellation,
   the hierarchical one on top of it.
2. An abstract life of a task that `TaskPhases` and `PhaseRunner` both implement, first
   checked by TLC, then proved step by step from `IInv` of each.
3. Theorems across modules: that a submission is delivered with a new ID
   (`DeliveredOnce`) is what lets the queue hold one object of it until a retry.

The runs keep below three and a half million states each, so that all of them, with
the mutants, can be repeated after every change.
