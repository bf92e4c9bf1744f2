----------------------------- MODULE AgentPool -----------------------------
(***************************************************************************)
(* internal/agent/pool.go with what runs beside it: one supervise          *)
(* goroutine per spawned agent, the HTTP handlers that call Kill and       *)
(* Restart concurrently, the queue workers that run tasks on the agents    *)
(* (base.go, for the status they leave behind) and main's shutdown.        *)
(*                                                                         *)
(* Spawn, Restart and restartFromSupervisor each create an agent with a    *)
(* stop and a done channel of its own: the three are one GENERATION, a     *)
(* number.  A step is one critical section of p.mu, one channel operation, *)
(* or one access to an agent's status.  A panic ends the process (no       *)
(* handler and no supervisor recovers): crashed disables every action.     *)
(***************************************************************************)
EXTENDS Integers, FiniteSets

CONSTANTS Ids,      \* agent IDs; one agent, and so one worker, per role
          Callers,  \* HTTP requests in progress at a time
          MaxGen    \* bound: generations created

ASSUME PoolAssumption ==
    /\ IsFiniteSet(Ids)
    /\ IsFiniteSet(Callers) /\ Callers # {}
    /\ MaxGen \in Nat \ {0}

None == 0
Gens == 1..MaxGen

VARIABLES
    made,       \* generations created so far
    entry,      \* entry[i]: the generation under ID i in the pool's maps
    sentinel,   \* IDs whose agents entry is the nil of a kill in progress
    stopped,    \* generations whose stop channel is closed
    done,       \* generations whose done channel is closed
    status,     \* status[g]: BaseAgent.status
    retired,    \* generations whose OnShutdown was called
    sup,        \* sup[i]: the supervise goroutines of i, a set of records
    caller,     \* caller[c]: the call of Kill or Restart in progress
    job,        \* job[i]: what the worker of i's role is doing
    main,       \* how far main's shutdown is
    crashed

poolVars == <<made, entry, sentinel, stopped, done, retired>>
vars == <<poolVars, status, sup, caller, job, main, crashed>>

Idle     == [op |-> "idle", id |-> None, gen |-> None]
NoJob    == [at |-> "none", gen |-> None]

Init ==
    /\ made = 0
    /\ entry = [i \in Ids |-> None]
    /\ sentinel = {}
    /\ stopped = {}
    /\ done = {}
    /\ status = [g \in Gens |-> "idle"]
    /\ retired = {}
    /\ sup = [i \in Ids |-> {}]
    /\ caller = [c \in Callers |-> Idle]
    /\ job = [i \in Ids |-> NoJob]
    /\ main = "up"
    /\ crashed = FALSE

\* Generations promised to a Restart or a supervisor that has yet to create
\* one; with made, what the bound MaxGen limits.
Promised ==
    Cardinality({c \in Callers : caller[c].op = "restart"})
      + Cardinality({i \in Ids : \E s \in sup[i] : s.at = "restart"})
Room == made + Promised < MaxGen

Fresh == made + 1
Watching(g) == [at |-> "select", gen |-> g, seen |-> None]

Panic ==
    /\ crashed' = TRUE
    /\ UNCHANGED <<poolVars, status, sup, caller, job, main>>

-----------------------------------------------------------------------------
(* Spawn *)

\* (faulty: the nil left by a kill in progress counts as a free ID)
IdFreeOrDying(i) == entry[i] = None \/ i \in sentinel

IdFree(i) == entry[i] = None

Install(i) ==
    /\ made' = Fresh
    /\ entry' = [entry EXCEPT ![i] = Fresh]
    /\ sentinel' = sentinel \ {i}

Spawn(i) ==
    /\ main = "up" /\ ~crashed /\ Room
    /\ IdFree(i)
    /\ Install(i)
    /\ sup' = [sup EXCEPT ![i] = @ \cup {Watching(Fresh)}]
    /\ UNCHANGED <<stopped, done, retired, status, caller, job, main, crashed>>

-----------------------------------------------------------------------------
(* Kill and Restart *)

\* killLocked up to its unlock: close(stopCh), which panics when another call
\* closed it before, then the nil sentinel.
KillBegin(c, i, op) ==
    /\ main = "up" /\ ~crashed
    /\ caller[c] = Idle
    /\ entry[i] # None
    /\ op = "restart" => Room
    /\ IF entry[i] \in stopped
       THEN Panic
       ELSE /\ stopped' = stopped \cup {entry[i]}
            /\ sentinel' = sentinel \cup {i}
            /\ caller' = [caller EXCEPT ![c] = [op |-> op, id |-> i, gen |-> entry[i]]]
            /\ UNCHANGED <<made, entry, done, retired, status, sup, job, main, crashed>>

\* (faulty: the lock is taken again without waiting for the supervisor)
MayReapEarly(c) == caller[c].gen \in Gens

MayReap(c) == caller[c].gen \in done

\* The agent read at KillBegin is shut down.
Reap(c, op) ==
    /\ ~crashed
    /\ caller[c].op = op
    /\ MayReap(c)
    /\ status' = [status EXCEPT ![caller[c].gen] = "terminated"]
    /\ retired' = retired \cup {caller[c].gen}
    /\ caller' = [caller EXCEPT ![c] = Idle]

Unmarked(i) == sentinel \ {i}

KillEnd(c) ==
    LET i == caller[c].id IN
    /\ Reap(c, "kill")
    /\ entry' = [entry EXCEPT ![i] = None]
    /\ sentinel' = Unmarked(i)
    /\ UNCHANGED <<made, stopped, done, sup, job, main, crashed>>

\* Restart goes on under the same lock: a fresh agent with its supervisor.
RestartEnd(c) ==
    LET i == caller[c].id IN
    /\ Reap(c, "restart")
    /\ Install(i)
    /\ sup' = [sup EXCEPT ![i] = @ \cup {Watching(Fresh)}]
    /\ UNCHANGED <<stopped, done, job, main, crashed>>

-----------------------------------------------------------------------------
(* supervise *)

Become(i, s, t) == sup' = [sup EXCEPT ![i] = (@ \ {s}) \cup {t}]

\* The deferred close of the latest done channel.
Exit(i, s) ==
    /\ done' = done \cup {s.gen}
    /\ Become(i, s, [s EXCEPT !.at = "exited", !.seen = None])
    /\ UNCHANGED <<made, entry, sentinel, stopped, retired, status, caller, job, main, crashed>>

SeeStop(i, s) ==
    /\ ~crashed /\ s.at = "select"
    /\ s.gen \in stopped
    /\ Exit(i, s)

\* A tick (with stop closed too, the select may still take it): the agent of
\* the ID, read under the lock and used after it.
Tick(i, s) ==
    /\ ~crashed /\ s.at = "select"
    /\ \/ /\ entry[i] = None
          /\ Exit(i, s)
       \/ /\ entry[i] # None
          /\ Become(i, s, [s EXCEPT !.at = "look",
                                    !.seen = IF i \in sentinel THEN None ELSE entry[i]])
          /\ UNCHANGED <<poolVars, status, caller, job, main, crashed>>

\* a.Status(): a nil interface when the entry was a sentinel.
Inspect(i, s) ==
    /\ ~crashed /\ s.at = "look"
    /\ IF s.seen = None
       THEN Panic
       ELSE /\ \/ /\ status[s.seen] = "failed"
                  /\ Room
                  /\ Become(i, s, [s EXCEPT !.at = "restart", !.seen = None])
               \/ /\ status[s.seen] # "failed"
                  /\ Become(i, s, [s EXCEPT !.at = "select", !.seen = None])
            /\ UNCHANGED <<poolVars, status, caller, job, main, crashed>>

\* (faulty: supervise goes on with the channels of the agent it replaced)
AdoptedOld(s) == Watching(s.gen)

\* The channels supervise continues with.
Adopted(s) == Watching(Fresh)

\* restartFromSupervisor, one critical section, and the hand-over to supervise.
RestartFailed(i, s) ==
    /\ ~crashed /\ s.at = "restart"
    /\ \/ entry[i] = None /\ Exit(i, s)
       \/ i \in sentinel /\ Panic     \* old.OnShutdown on a nil interface
       \/ /\ entry[i] # None /\ i \notin sentinel
          /\ status' = [status EXCEPT ![entry[i]] = "terminated"]
          /\ retired' = retired \cup {entry[i]}
          /\ Install(i)
          /\ Become(i, s, Adopted(s))
          /\ UNCHANGED <<stopped, done, caller, job, main, crashed>>

-----------------------------------------------------------------------------
(* A worker running a task on the agent (Executor.Execute, BaseAgent.Run) *)

\* GetByRole skips sentinels; the agent it returns is used after the unlock.
PickAgent(i) ==
    /\ ~crashed /\ main \in {"up", "stopping"}
    /\ job[i] = NoJob
    /\ entry[i] # None /\ i \notin sentinel
    /\ job' = [job EXCEPT ![i] = [at |-> "picked", gen |-> entry[i]]]
    /\ UNCHANGED <<poolVars, status, sup, caller, main, crashed>>

RunStep(i, here, there, st) ==
    /\ ~crashed
    /\ job[i].at = here
    /\ status' = [status EXCEPT ![job[i].gen] = st]
    /\ job' = [job EXCEPT ![i] = IF there = "none" THEN NoJob ELSE [@ EXCEPT !.at = there]]
    /\ UNCHANGED <<poolVars, sup, caller, main, crashed>>

RunStart(i)  == RunStep(i, "picked", "running", "running")
\* The LLM call failed; Run's deferred setStatus(StatusIdle) is still to come.
RunFailed(i) == RunStep(i, "running", "failed", "failed")
RunEnd(i)    == RunStep(i, "running", "none", "idle") \/ RunStep(i, "failed", "none", "idle")

-----------------------------------------------------------------------------
(* main's shutdown and ShutdownAll *)

Stop ==
    /\ ~crashed /\ main = "up"
    /\ main' = "stopping"
    /\ UNCHANGED <<poolVars, status, sup, caller, job, crashed>>

Quiet == \A c \in Callers : caller[c] = Idle

\* (faulty: the agents are stopped while the workers still run)
MayShutDownEarly == Quiet

\* The HTTP server has drained its requests and the workers have returned.
MayShutDown == Quiet /\ \A i \in Ids : job[i] = NoJob

Installed == {entry[i] : i \in Ids} \ {None}

\* ShutdownAll closes every stop channel and snapshots the done channels.
ShutdownBegin ==
    /\ ~crashed /\ main = "stopping"
    /\ MayShutDown
    /\ stopped' = stopped \cup Installed
    /\ main' = "signalled"
    /\ UNCHANGED <<made, entry, sentinel, done, retired, status, sup, caller, job, crashed>>

\* A supervisor that has nothing left to do but wait for a tick.
Settled(s) == s.at = "exited" \/ (s.at = "select" /\ s.gen \notin stopped)

\* It waits for the done channels or for its 30 s deadline, which is longer
\* than any step a supervisor has begun, and shuts the agents down.
ShutdownEnd ==
    /\ ~crashed /\ main = "signalled"
    /\ stopped \subseteq done \/ \A i \in Ids : \A s \in sup[i] : Settled(s)
    /\ status' = [g \in Gens |-> IF g \in Installed THEN "terminated" ELSE status[g]]
    /\ retired' = retired \cup Installed
    /\ main' = "down"
    /\ UNCHANGED <<made, entry, sentinel, stopped, done, sup, caller, job, crashed>>

-----------------------------------------------------------------------------
Supervise(i) ==
    \E s \in sup[i] : SeeStop(i, s) \/ Tick(i, s) \/ Inspect(i, s) \/ RestartFailed(i, s)

Call(c) ==
    \/ \E i \in Ids, op \in {"kill", "restart"} : KillBegin(c, i, op)
    \/ KillEnd(c)
    \/ RestartEnd(c)

Run(i) == PickAgent(i) \/ RunStart(i) \/ RunFailed(i) \/ RunEnd(i)

Next ==
    \/ \E i \in Ids : Spawn(i) \/ Supervise(i) \/ Run(i)
    \/ \E c \in Callers : Call(c)
    \/ Stop \/ ShutdownBegin \/ ShutdownEnd

\* A goroutine past its select runs on.  A select that finds stop closed
\* chooses among its ready cases at random, so it takes stop sooner or later
\* however often a tick is ready too.  Run returns.
Fairness ==
    /\ \A i \in Ids :
          /\ WF_vars(\E s \in sup[i] : Inspect(i, s) \/ RestartFailed(i, s))
          /\ SF_vars(\E s \in sup[i] : SeeStop(i, s))
          /\ WF_vars(RunStart(i) \/ RunEnd(i))
    /\ \A c \in Callers : WF_vars(KillEnd(c) \/ RestartEnd(c))
    /\ WF_vars(ShutdownEnd)

Spec == Init /\ [][Next]_vars /\ Fairness

-----------------------------------------------------------------------------
(* Properties *)

Alive(i) == {s \in sup[i] : s.at # "exited"}

\* An agent in the pool whose stop channel is open is watched by exactly one
\* supervise goroutine, on that agent's own channels, and no other goroutine
\* of its ID is left: a kill of it can always be noticed and acknowledged,
\* whichever of Spawn, Restart and the supervisor installed it.
OneSupervisor ==
    ~crashed => \A i \in Ids :
        /\ \A s, t \in Alive(i) : s = t
        /\ entry[i] # None /\ entry[i] \notin stopped =>
              \E s \in Alive(i) : s.gen = entry[i]

\* An agent leaves the pool, or is replaced, only once its OnShutdown was
\* called: the sentinel keeps Spawn away while a kill has released the lock
\* (pool.go:94-115), and a Restart puts nothing over somebody else's agent.
RetiredBeforeGone ==
    [][\A i \in Ids : entry'[i] # entry[i] => entry[i] \in retired' \cup {None}]_vars

\* Kill and Restart return (or the process has died): the wait for the
\* supervisor in killLocked never becomes a deadlock, although a supervisor
\* may replace the agent and its channels meanwhile (pool.go:288-297).
CallsReturn == \A c \in Callers : caller[c] # Idle ~> caller[c] = Idle \/ crashed

\* After ShutdownAll every agent of the pool is terminated and its OnShutdown
\* was called: no worker's deferred setStatus comes after it, and what a
\* supervisor installs meanwhile is shut down with the rest (pool.go:238-252).
\* That the supervisors have ended is not said: one may outlive the call.
AllRetired ==
    main = "down" => \A g \in Installed : status[g] = "terminated" /\ g \in retired

\* pool.go:87: "Safe to call concurrently."  A second call, or the tick of a
\* supervisor, that meets a kill in progress panics.
NeverPanics == ~crashed

=============================================================================
