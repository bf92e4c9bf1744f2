--------------------------- MODULE AgentPoolProofs ---------------------------
(***************************************************************************)
(* One supervisor watches each live agent, no agent leaves the pool before *)
(* its OnShutdown, and none is left running after ShutdownAll, for any     *)
(* number of IDs, concurrent calls and generations, and however Kill,      *)
(* Restart, Spawn, the supervisors, the workers and the shutdown           *)
(* interleave.                                                             *)
(***************************************************************************)
EXTENDS AgentPool, FiniteSetTheorems, TLAPS

Watchers == [at : {"select", "look", "restart", "exited"}, gen : Nat, seen : Nat]
Calls == [op : {"idle", "kill", "restart"}, id : Ids \cup {None}, gen : Nat]

\* Generations are numbered from 1 as they are made.
TypeOK ==
    /\ made \in Nat
    /\ entry \in [Ids -> 0..made]
    /\ stopped \subseteq 1..made /\ done \subseteq 1..made
    /\ sup \in [Ids -> SUBSET Watchers]
    /\ caller \in [Callers -> Calls]

\* A generation belongs to one ID.
Apart == \A i, j \in Ids : entry[i] = entry[j] /\ entry[i] # None => i = j

\* A supervisor that has not exited watches the agent of its ID, and has not
\* closed its done channel; there is one at most, and one if stop is open.
Watched ==
    \A i \in Ids :
        /\ \A s \in Alive(i) : s.gen = entry[i] /\ s.gen # None /\ s.gen \notin done
        /\ \A s, t \in Alive(i) : s = t
        /\ entry[i] # None /\ entry[i] \notin stopped => Alive(i) # {}

\* The agent a call is killing stays the agent of its ID, behind the sentinel,
\* and no other call kills it.
Held ==
    /\ \A c \in Callers : caller[c].op # "idle" =>
          /\ caller[c].id \in sentinel \cap Ids
          /\ caller[c].gen = entry[caller[c].id] /\ caller[c].gen # None
          /\ caller[c].gen \in stopped
    /\ \A c, d \in Callers :
          caller[c].op # "idle" /\ caller[d].op # "idle" /\ c # d => caller[c].id # caller[d].id

IInv == TypeOK /\ Apart /\ Watched /\ Held

LEMMA InitInv == Init => IInv
  BY DEF Init, IInv, TypeOK, Apart, Watched, Held, Alive, Watchers, Calls, Idle, None

-----------------------------------------------------------------------------
(* The ways the pool changes *)

\* A fresh agent under an ID whose supervisor has exited or adopts it, and whose
\* kill, if any, is over.
LEMMA InstallInv ==
  ASSUME IInv, NEW i \in Ids, Install(i), UNCHANGED <<stopped, done>>,
         NEW S \in SUBSET Watchers, sup' = [sup EXCEPT ![i] = S],
         {s \in S : s.at # "exited"} = {Watching(Fresh)},
         caller' \in [Callers -> Calls],
         \A c \in Callers : \/ caller'[c].op = "idle"
                            \/ caller'[c] = caller[c] /\ caller[c].id # i
  PROVE  IInv'
<1>1. Fresh \in Nat /\ Fresh \notin 0..made
  BY DEF IInv, TypeOK, Fresh
<1>2. made' = Fresh /\ entry' = [entry EXCEPT ![i] = Fresh] /\ sentinel' = sentinel \ {i}
  BY DEF Install
<1>3. TypeOK'
  <2>1. entry' \in [Ids -> 0..made']
    BY <1>2 DEF IInv, TypeOK, Fresh
  <2>2. stopped' \subseteq 1..made' /\ done' \subseteq 1..made' /\ made' \in Nat
    BY <1>2 DEF IInv, TypeOK, Fresh
  <2>3. sup' \in [Ids -> SUBSET Watchers]
    BY DEF IInv, TypeOK
  <2>4. QED
    BY <2>1, <2>2, <2>3 DEF TypeOK
<1>4. /\ entry'[i] = Fresh
      /\ \A j \in Ids \ {i} : entry'[j] = entry[j] /\ entry[j] \in 0..made
  BY <1>2 DEF IInv, TypeOK
<1>5. Apart'
  BY <1>1, <1>4 DEF IInv, Apart
<1>6. Watched'
  <2>1. ASSUME NEW j \in Ids, j # i
        PROVE  sup'[j] = sup[j] /\ entry'[j] = entry[j]
    BY <2>1, <1>4 DEF IInv, TypeOK
  <2>2. {s \in sup'[i] : s.at # "exited"} = {Watching(Fresh)}
    BY DEF IInv, TypeOK
  <2>3. Watching(Fresh).gen = Fresh /\ Fresh # None /\ Fresh \notin done
    BY <1>1 DEF Watching, IInv, TypeOK, None
  <2>4. QED
    BY <1>4, <2>1, <2>2, <2>3 DEF IInv, Watched, Alive
<1>7. Held'
  <2>1. \A c \in Callers : caller'[c].op # "idle" => caller'[c] = caller[c] /\ caller[c].id # i
    OBVIOUS
  <2>2. QED
    BY <1>2, <1>4, <2>1 DEF IInv, Held
<1>8. QED
  BY <1>3, <1>5, <1>6, <1>7 DEF IInv

\* A supervisor goes on to another place of its loop.
LEMMA BecomeInv ==
  ASSUME IInv, NEW i \in Ids, NEW s \in Alive(i), NEW t \in Watchers,
         Become(i, s, t), t.gen = s.gen, t.at # "exited",
         UNCHANGED <<made, entry, sentinel, stopped, done, caller>>
  PROVE  IInv'
<1>1. TypeOK'
  BY DEF IInv, TypeOK, Become
<1>2. Apart' /\ Held'
  BY DEF IInv, Apart, Held
<1>3. Watched'
  <2>1. ASSUME NEW j \in Ids, j # i
        PROVE  sup'[j] = sup[j]
    BY <2>1 DEF IInv, TypeOK, Become
  <2>2. sup'[i] = (sup[i] \ {s}) \cup {t}
    BY DEF IInv, TypeOK, Become
  <2>3. {x \in sup'[i] : x.at # "exited"} = {t}
    BY <2>2 DEF IInv, Watched, Alive
  <2>4. t.gen = entry[i] /\ t.gen # None /\ t.gen \notin done
    BY DEF IInv, Watched
  <2>5. QED
    BY <2>1, <2>3, <2>4 DEF IInv, Watched, Alive
<1>4. QED
  BY <1>1, <1>2, <1>3 DEF IInv

\* A supervisor exits, its stop channel being closed.
LEMMA ExitInv ==
  ASSUME IInv, NEW i \in Ids, NEW s \in Alive(i), s.gen \in stopped, Exit(i, s)
  PROVE  IInv'
<1> DEFINE t == [s EXCEPT !.at = "exited", !.seen = None]
<1>1. s \in Watchers /\ s.gen = entry[i] /\ s.gen # None /\ s.gen \in 1..made
  BY DEF IInv, TypeOK, Watched, Alive
<1>2. t \in Watchers /\ t.at = "exited"
  BY <1>1 DEF Watchers, None
<1>3. sup' = [sup EXCEPT ![i] = (@ \ {s}) \cup {t}] /\ done' = done \cup {s.gen}
  BY DEF Exit, Become
<1>4. UNCHANGED <<made, entry, sentinel, stopped, caller>>
  BY DEF Exit
<1> HIDE DEF t
<1>5. TypeOK'
  <2>1. sup' \in [Ids -> SUBSET Watchers]
    BY <1>2, <1>3 DEF IInv, TypeOK
  <2>2. done' \subseteq 1..made
    BY <1>1, <1>3 DEF IInv, TypeOK
  <2>3. QED
    BY <1>4, <2>1, <2>2 DEF IInv, TypeOK
<1>6. Apart' /\ Held'
  BY <1>4 DEF IInv, Apart, Held
<1>7. Watched'
  <2>1. ASSUME NEW j \in Ids, j # i
        PROVE  sup'[j] = sup[j] /\ \A x \in Alive(j) : x.gen \notin done'
    BY <1>1, <1>3, <2>1 DEF IInv, TypeOK, Apart, Watched
  <2>2. sup'[i] = (sup[i] \ {s}) \cup {t}
    BY <1>3 DEF IInv, TypeOK
  <2>3. {x \in sup'[i] : x.at # "exited"} = {}
    BY <1>2, <2>2 DEF IInv, Watched, Alive
  <2>4. QED
    BY <1>1, <1>4, <2>1, <2>3 DEF IInv, Watched, Alive
<1>8. QED
  BY <1>5, <1>6, <1>7 DEF IInv

-----------------------------------------------------------------------------
(* The actions *)

\* A call past its wait: the agent it killed is still the one of the ID, and
\* the ID's supervisor has exited.
LEMMA Reaped ==
  ASSUME IInv, NEW c \in Callers, NEW op \in {"kill", "restart"}, Reap(c, op)
  PROVE  /\ caller[c].id \in Ids /\ Alive(caller[c].id) = {}
         /\ entry[caller[c].id] = caller[c].gen /\ caller[c].gen \in retired'
         /\ caller' = [caller EXCEPT ![c] = Idle] /\ caller' \in [Callers -> Calls]
         /\ \A d \in Callers : \/ caller'[d].op = "idle"
                               \/ caller'[d] = caller[d] /\ caller[d].id # caller[c].id
<1>1. caller[c].op # "idle" /\ caller[c].gen \in done /\ caller' = [caller EXCEPT ![c] = Idle]
  BY DEF Reap, MayReap
<1>2. caller[c].id \in Ids /\ entry[caller[c].id] = caller[c].gen
  BY <1>1 DEF IInv, Held
<1>3. Alive(caller[c].id) = {}
  BY <1>1, <1>2 DEF IInv, Watched
<1>4. caller[c].gen \in retired'
  BY DEF Reap
<1>5. caller' \in [Callers -> Calls]
  BY <1>1 DEF IInv, TypeOK, Idle, Calls, None
<1>6. ASSUME NEW d \in Callers
      PROVE  \/ caller'[d].op = "idle"
             \/ caller'[d] = caller[d] /\ caller[d].id # caller[c].id
  <2>1. CASE d = c
    BY <1>1, <2>1 DEF IInv, TypeOK, Idle
  <2>2. CASE d # c
    BY <1>1, <2>2 DEF IInv, TypeOK, Held
  <2>3. QED
    BY <2>1, <2>2
<1>7. QED
  BY <1>1, <1>2, <1>3, <1>4, <1>5, <1>6

\* Spawn, Kill and Restart.
LEMMA CallsInv ==
  ASSUME IInv,
         \/ \E i \in Ids : Spawn(i)
         \/ \E c \in Callers : Call(c)
  PROVE  IInv'
<1>1. ASSUME NEW i \in Ids, Spawn(i)
      PROVE  IInv'
  <2>1. entry[i] = None /\ Install(i) /\ UNCHANGED <<stopped, done, caller>>
    BY <1>1 DEF Spawn, IdFree
  <2> DEFINE S == sup[i] \cup {Watching(Fresh)}
  <2>2. sup' = [sup EXCEPT ![i] = S]
    BY <1>1 DEF Spawn
  <2>3. S \in SUBSET Watchers
    BY DEF IInv, TypeOK, Watchers, Watching, Fresh, None
  <2>4. {s \in S : s.at # "exited"} = {Watching(Fresh)}
    BY <2>1 DEF IInv, Watched, Alive, Watching
  <2>5. \A c \in Callers : caller[c].op # "idle" => caller[c].id # i
    BY <2>1 DEF IInv, Held
  <2>6. caller' \in [Callers -> Calls]
    BY <2>1 DEF IInv, TypeOK
  <2> HIDE DEF S
  <2>7. QED
    BY <2>1, <2>2, <2>3, <2>4, <2>5, <2>6, InstallInv
<1>2. ASSUME NEW c \in Callers, NEW i \in Ids, NEW op \in {"kill", "restart"}, KillBegin(c, i, op)
      PROVE  IInv'
  <2>1. CASE entry[i] \in stopped
    <3>1. UNCHANGED <<made, entry, sentinel, stopped, done, sup, caller>>
      BY <1>2, <2>1 DEF KillBegin, Panic, poolVars
    <3>2. QED
      BY <3>1 DEF IInv, TypeOK, Apart, Watched, Held, Alive
  <2>2. CASE entry[i] \notin stopped
    <3> DEFINE call == [op |-> op, id |-> i, gen |-> entry[i]]
    <3>1. /\ entry[i] # None /\ stopped' = stopped \cup {entry[i]}
          /\ sentinel' = sentinel \cup {i} /\ caller' = [caller EXCEPT ![c] = call]
          /\ UNCHANGED <<made, entry, done, sup>>
      BY <1>2, <2>2 DEF KillBegin
    <3>2. call \in Calls
      BY <1>2 DEF Calls, IInv, TypeOK
    <3>3. TypeOK'
      <4> HIDE DEF call
      <4>1. caller' \in [Callers -> Calls]
        BY <3>1, <3>2 DEF IInv, TypeOK
      <4>2. stopped' \subseteq 1..made
        <5>1. entry[i] \in 1..made
          BY <3>1 DEF IInv, TypeOK, None
        <5>2. QED
          BY <3>1, <5>1 DEF IInv, TypeOK
      <4>3. QED
        BY <3>1, <4>1, <4>2 DEF IInv, TypeOK
    <3>4. Apart' /\ Watched'
      BY <3>1 DEF IInv, Apart, Watched, Alive
    <3>5. Held'
      <4>1. caller'[c] = call /\ \A d \in Callers \ {c} : caller'[d] = caller[d]
        BY <3>1 DEF IInv, TypeOK
      <4>2. \A d \in Callers : caller[d].op # "idle" => caller[d].id # i
        BY <2>2 DEF IInv, Held
      <4>3. QED
        BY <1>2, <3>1, <4>1, <4>2 DEF IInv, Held
    <3>6. QED
      BY <3>3, <3>4, <3>5 DEF IInv
  <2>3. QED
    BY <2>1, <2>2
<1>3. ASSUME NEW c \in Callers, KillEnd(c)
      PROVE  IInv'
  <2> DEFINE i == caller[c].id
  <2>1. /\ Reap(c, "kill") /\ entry' = [entry EXCEPT ![i] = None]
        /\ sentinel' = sentinel \ {i} /\ UNCHANGED <<made, stopped, done, sup>>
    BY <1>3 DEF KillEnd, Unmarked
  <2>2. /\ i \in Ids /\ Alive(i) = {} /\ caller' \in [Callers -> Calls]
        /\ \A d \in Callers : \/ caller'[d].op = "idle"
                              \/ caller'[d] = caller[d] /\ caller[d].id # i
    BY <2>1, Reaped
  <2> HIDE DEF i
  <2>3. entry'[i] = None /\ \A j \in Ids \ {i} : entry'[j] = entry[j]
    BY <2>1, <2>2 DEF IInv, TypeOK
  <2>4. TypeOK'
    BY <2>1, <2>2 DEF IInv, TypeOK, None
  <2>5. Apart' /\ Watched'
    BY <2>1, <2>2, <2>3 DEF IInv, Apart, Watched, Alive
  <2>6. Held'
    BY <2>1, <2>2, <2>3 DEF IInv, Held
  <2>7. QED
    BY <2>4, <2>5, <2>6 DEF IInv
<1>4. ASSUME NEW c \in Callers, RestartEnd(c)
      PROVE  IInv'
  <2> DEFINE i == caller[c].id
             S == sup[i] \cup {Watching(Fresh)}
  <2>1. /\ Reap(c, "restart") /\ Install(i) /\ UNCHANGED <<stopped, done>>
        /\ sup' = [sup EXCEPT ![i] = S]
    BY <1>4 DEF RestartEnd
  <2>2. /\ i \in Ids /\ Alive(i) = {} /\ caller' \in [Callers -> Calls]
        /\ \A d \in Callers : \/ caller'[d].op = "idle"
                              \/ caller'[d] = caller[d] /\ caller[d].id # i
    BY <2>1, Reaped
  <2> HIDE DEF i
  <2>3. S \in SUBSET Watchers
    BY <2>2 DEF IInv, TypeOK, Watchers, Watching, Fresh, None
  <2>4. {s \in S : s.at # "exited"} = {Watching(Fresh)}
    BY <2>2 DEF Alive, Watching
  <2> HIDE DEF S
  <2>5. QED
    BY <2>1, <2>2, <2>3, <2>4, InstallInv
<1>5. QED
  BY <1>1, <1>2, <1>3, <1>4 DEF Call

\* The supervisors.
LEMMA SuperviseInv ==
  ASSUME IInv, NEW i \in Ids, Supervise(i)
  PROVE  IInv'
<1>1. PICK s \in sup[i] : SeeStop(i, s) \/ Tick(i, s) \/ Inspect(i, s) \/ RestartFailed(i, s)
  BY DEF Supervise
<1>2. s \in Alive(i) /\ s \in Watchers
  BY <1>1 DEF SeeStop, Tick, Inspect, RestartFailed, Alive, IInv, TypeOK
<1>3. entry[i] # None /\ entry[i] \in Nat
  BY <1>2 DEF IInv, Watched, TypeOK
<1>4. CASE SeeStop(i, s)
  BY <1>2, <1>4, ExitInv DEF SeeStop
<1>5. CASE Tick(i, s)
  <2> DEFINE t == [s EXCEPT !.at = "look", !.seen = IF i \in sentinel THEN None ELSE entry[i]]
  <2>1. Become(i, s, t) /\ UNCHANGED <<made, entry, sentinel, stopped, done, caller>>
    BY <1>3, <1>5 DEF Tick, poolVars
  <2>2. t \in Watchers /\ t.gen = s.gen /\ t.at # "exited"
    BY <1>2, <1>3 DEF Watchers, None
  <2> HIDE DEF t
  <2>3. QED
    BY <1>2, <2>1, <2>2, BecomeInv
<1>6. CASE Inspect(i, s)
  <2>1. CASE Panic
    BY <2>1 DEF Panic, poolVars, IInv, TypeOK, Apart, Watched, Held, Alive
  <2>2. CASE ~Panic
    <3>1. PICK place \in {"restart", "select"} :
            /\ Become(i, s, [s EXCEPT !.at = place, !.seen = None])
            /\ UNCHANGED <<made, entry, sentinel, stopped, done, caller>>
      BY <1>6, <2>2 DEF Inspect, poolVars
    <3> DEFINE t == [s EXCEPT !.at = place, !.seen = None]
    <3>2. t \in Watchers /\ t.gen = s.gen /\ t.at # "exited"
      BY <1>2 DEF Watchers, None
    <3>3. Become(i, s, t)
      BY <3>1
    <3> HIDE DEF t
    <3>4. QED
      BY <1>2, <3>1, <3>2, <3>3, BecomeInv
  <2>3. QED
    BY <2>1, <2>2
<1>7. CASE RestartFailed(i, s)
  <2>1. CASE Panic
    BY <2>1 DEF Panic, poolVars, IInv, TypeOK, Apart, Watched, Held, Alive
  <2>2. CASE ~Panic
    <3> DEFINE S == (sup[i] \ {s}) \cup {Watching(Fresh)}
    <3>1. /\ i \notin sentinel /\ Install(i) /\ UNCHANGED <<stopped, done, caller>>
          /\ sup' = [sup EXCEPT ![i] = S]
      BY <1>3, <1>7, <2>2 DEF RestartFailed, Become, Adopted
    <3>2. S \in SUBSET Watchers
      BY DEF IInv, TypeOK, Watchers, Watching, Fresh, None
    <3>3. {x \in S : x.at # "exited"} = {Watching(Fresh)}
      BY <1>2 DEF IInv, Watched, Alive, Watching
    <3>4. \A c \in Callers : caller[c].op # "idle" => caller[c].id # i
      BY <3>1 DEF IInv, Held
    <3>5. caller' \in [Callers -> Calls]
      BY <3>1 DEF IInv, TypeOK
    <3> HIDE DEF S
    <3>6. QED
      BY <3>1, <3>2, <3>3, <3>4, <3>5, InstallInv
  <2>3. QED
    BY <2>1, <2>2
<1>8. QED
  BY <1>1, <1>4, <1>5, <1>6, <1>7

LEMMA NextInv == IInv /\ [Next]_vars => IInv'
<1> SUFFICES ASSUME IInv, [Next]_vars PROVE IInv'
  OBVIOUS
<1>1. CASE \/ \E i \in Ids : Spawn(i)
           \/ \E c \in Callers : Call(c)
  BY <1>1, CallsInv
<1>2. CASE \E i \in Ids : Supervise(i)
  BY <1>2, SuperviseInv
<1>3. CASE \/ \E i \in Ids : Run(i)
           \/ Stop \/ ShutdownEnd
           \/ UNCHANGED vars
  <2>1. UNCHANGED <<made, entry, sentinel, stopped, done, sup, caller>>
    BY <1>3 DEF Run, PickAgent, RunStart, RunFailed, RunEnd, RunStep, Stop, ShutdownEnd, vars, poolVars
  <2>2. QED
    BY <2>1 DEF IInv, TypeOK, Apart, Watched, Held, Alive
<1>4. CASE ShutdownBegin
  <2>1. /\ stopped' = stopped \cup Installed
        /\ UNCHANGED <<made, entry, sentinel, done, sup, caller>>
    BY <1>4 DEF ShutdownBegin
  <2>2. Installed \subseteq 1..made
    BY DEF Installed, IInv, TypeOK, None
  <2>3. TypeOK' /\ Apart' /\ Watched' /\ Held'
    BY <2>1, <2>2 DEF IInv, TypeOK, Apart, Watched, Held, Alive
  <2>4. QED
    BY <2>3 DEF IInv
<1>5. QED
  BY <1>1, <1>2, <1>3, <1>4 DEF Next

LEMMA Invariant == Spec => []IInv
<1>1. QED
  BY InitInv, NextInv, PTL DEF Spec

-----------------------------------------------------------------------------
\* A live agent has exactly one supervisor, on its own channels, whichever of
\* Spawn, Restart and the supervisor installed it.
THEOREM SupervisedByOne == Spec => []OneSupervisor
<1>1. IInv => OneSupervisor
  BY DEF IInv, Watched, OneSupervisor
<1>2. QED
  BY <1>1, Invariant, PTL

\* An agent leaves the pool, or is replaced, only once its OnShutdown was
\* called.
THEOREM RetiredFirst == Spec => RetiredBeforeGone
<1>1. IInv /\ [Next]_vars =>
        [\A i \in Ids : entry'[i] # entry[i] => entry[i] \in retired' \cup {None}]_vars
  <2> SUFFICES ASSUME IInv, Next, NEW i \in Ids, entry'[i] # entry[i]
               PROVE  entry[i] \in retired' \cup {None}
    OBVIOUS
  <2>1. CASE \E j \in Ids : Spawn(j)
    BY <2>1 DEF Spawn, IdFree, Install, IInv, TypeOK
  <2>2. CASE \E c \in Callers : KillEnd(c) \/ RestartEnd(c)
    <3>1. PICK c \in Callers : KillEnd(c) \/ RestartEnd(c)
      BY <2>2
    <3>2. i = caller[c].id
      BY <3>1 DEF KillEnd, RestartEnd, Install, IInv, TypeOK
    <3>3. PICK op \in {"kill", "restart"} : Reap(c, op)
      BY <3>1 DEF KillEnd, RestartEnd
    <3>4. QED
      BY <3>2, <3>3, Reaped
  <2>3. CASE \E j \in Ids : Supervise(j)
    BY <2>3 DEF Supervise, SeeStop, Tick, Inspect, RestartFailed, Exit, Become, Panic, Install,
                poolVars, IInv, TypeOK
  <2>4. CASE \/ \E c \in Callers, j \in Ids, op \in {"kill", "restart"} : KillBegin(c, j, op)
             \/ \E j \in Ids : Run(j)
             \/ Stop \/ ShutdownBegin \/ ShutdownEnd
    BY <2>4 DEF KillBegin, Panic, Run, PickAgent, RunStart, RunFailed, RunEnd, RunStep, Stop,
                ShutdownBegin, ShutdownEnd, poolVars
  <2>5. QED
    BY <2>1, <2>2, <2>3, <2>4 DEF Next, Call
<1>2. QED
  BY <1>1, Invariant, PTL DEF Spec, RetiredBeforeGone
-----------------------------------------------------------------------------
(* The shutdown.  What the bound promises first: every generation made has  *)
(* a status of its own.                                                     *)

Restarting == {c \in Callers : caller[c].op = "restart"}
Replacing == {i \in Ids : \E s \in sup[i] : s.at = "restart"}

RoomKept == made + Cardinality(Restarting) + Cardinality(Replacing) <= MaxGen

Statuses == {"idle", "running", "failed", "terminated"}

\* A generation has the status of its birth until it is born, and a job runs on
\* one that is.
Born ==
    /\ status \in [Gens -> Statuses]
    /\ \A g \in Gens : g > made => status[g] = "idle"
    /\ job \in [Ids -> [at : {"none", "picked", "running", "failed"}, gen : 0..made]]
    /\ \A i \in Ids : job[i].at # "none" => job[i].gen # None

\* What a tick read under the lock is still the agent of the ID.
SeenLast ==
    \A i \in Ids : \A s \in Alive(i) : s.at = "look" => s.seen \in {None, entry[i]}

\* Once ShutdownAll has closed the stop channels no call and no job is left, and
\* an agent that is not stopped is one a supervisor made since: nothing runs on
\* it, so it does not fail, and it is not replaced.
Drained ==
    main \in {"signalled", "down"} =>
        /\ \A c \in Callers : caller[c] = Idle
        /\ \A i \in Ids : job[i] = NoJob
        /\ \A i \in Ids : entry[i] # None /\ entry[i] \notin stopped =>
              /\ status[entry[i]] # "failed"
              /\ \A s \in Alive(i) : s.at # "restart"

\* The supervisors that are left at the end watch such an agent.
Over ==
    main = "down" =>
        /\ \A i \in Ids : \A s \in Alive(i) : s.gen \notin stopped
        /\ \A g \in Installed : status[g] = "terminated" /\ g \in retired

SInv == IInv /\ RoomKept /\ Born /\ SeenLast /\ Drained /\ Over

LEMMA Cards ==
  ASSUME NEW R \in SUBSET Callers, NEW P \in SUBSET Ids
  PROVE  /\ IsFiniteSet(R) /\ Cardinality(R) \in Nat
         /\ IsFiniteSet(P) /\ Cardinality(P) \in Nat
<1>1. IsFiniteSet(R) /\ IsFiniteSet(P)
  BY FS_Subset, PoolAssumption
<1>2. QED
  BY <1>1, FS_CardinalityType

\* A step that promises no generation and makes none.
LEMMA NothingPromised ==
  ASSUME TypeOK, RoomKept, made' = made,
         Restarting' \subseteq Restarting, Replacing' \subseteq Replacing
  PROVE  RoomKept'
<1>1. IsFiniteSet(Restarting) /\ IsFiniteSet(Replacing)
  BY Cards DEF Restarting, Replacing
<1>2. /\ Cardinality(Restarting) \in Nat /\ Cardinality(Replacing) \in Nat
      /\ Cardinality(Restarting') \in Nat /\ Cardinality(Replacing') \in Nat
  BY Cards DEF Restarting, Replacing
<1>3. Cardinality(Restarting') <= Cardinality(Restarting)
  BY <1>1, FS_Subset
<1>4. Cardinality(Replacing') <= Cardinality(Replacing)
  BY <1>1, FS_Subset
<1>5. QED
  BY <1>2, <1>3, <1>4, PoolAssumption DEF RoomKept, TypeOK

\* A step that makes or promises one while there is room.
LEMMA OnePromised ==
  ASSUME TypeOK, Room, NEW c \in Callers, NEW i \in Ids,
         \/ made' = Fresh /\ Restarting' = Restarting /\ Replacing' = Replacing
         \/ made' = made /\ Restarting' = Restarting \cup {c} /\ Replacing' = Replacing
         \/ made' = made /\ Restarting' = Restarting /\ Replacing' = Replacing \cup {i}
  PROVE  RoomKept'
<1>1. IsFiniteSet(Restarting) /\ IsFiniteSet(Replacing)
  BY Cards DEF Restarting, Replacing
<1>2. Cardinality(Restarting) \in Nat /\ Cardinality(Replacing) \in Nat
  BY Cards DEF Restarting, Replacing
<1>3. made + (Cardinality(Restarting) + Cardinality(Replacing)) < MaxGen
  BY DEF Room, Promised, Restarting, Replacing
<1>4. CASE made' = Fresh /\ Restarting' = Restarting /\ Replacing' = Replacing
  BY <1>2, <1>3, <1>4, PoolAssumption DEF RoomKept, TypeOK, Fresh
<1>5. CASE made' = made /\ Restarting' = Restarting \cup {c} /\ Replacing' = Replacing
  <2>1. Cardinality(Restarting') \in {Cardinality(Restarting), Cardinality(Restarting) + 1}
    BY <1>1, <1>5, FS_AddElement
  <2>2. QED
    BY <1>2, <1>3, <1>5, <2>1, PoolAssumption DEF RoomKept, TypeOK
<1>6. CASE made' = made /\ Restarting' = Restarting /\ Replacing' = Replacing \cup {i}
  <2>1. Cardinality(Replacing') \in {Cardinality(Replacing), Cardinality(Replacing) + 1}
    BY <1>1, <1>6, FS_AddElement
  <2>2. QED
    BY <1>2, <1>3, <1>6, <2>1, PoolAssumption DEF RoomKept, TypeOK
<1>7. QED
  BY <1>4, <1>5, <1>6

\* A step that makes the generation it was promised.
LEMMA PromiseMade ==
  ASSUME TypeOK, RoomKept, made' = Fresh, NEW c, NEW i,
         \/ c \in Restarting /\ Restarting' = Restarting \ {c} /\ Replacing' = Replacing
         \/ i \in Replacing /\ Restarting' = Restarting /\ Replacing' = Replacing \ {i}
  PROVE  RoomKept'
<1>1. IsFiniteSet(Restarting) /\ IsFiniteSet(Replacing)
  BY Cards DEF Restarting, Replacing
<1>2. Cardinality(Restarting) \in Nat /\ Cardinality(Replacing) \in Nat
  BY Cards DEF Restarting, Replacing
<1>3. CASE c \in Restarting /\ Restarting' = Restarting \ {c} /\ Replacing' = Replacing
  <2>1. Cardinality(Restarting') = Cardinality(Restarting) - 1
    BY <1>1, <1>3, FS_RemoveElement
  <2>2. QED
    BY <1>2, <1>3, <2>1, PoolAssumption DEF RoomKept, TypeOK, Fresh
<1>4. CASE i \in Replacing /\ Restarting' = Restarting /\ Replacing' = Replacing \ {i}
  <2>1. Cardinality(Replacing') = Cardinality(Replacing) - 1
    BY <1>1, <1>4, FS_RemoveElement
  <2>2. QED
    BY <1>2, <1>4, <2>1, PoolAssumption DEF RoomKept, TypeOK, Fresh
<1>5. QED
  BY <1>3, <1>4

\* A fresh agent is made for a promise, or where there is room for one.
LEMMA RoomNext == IInv /\ RoomKept /\ [Next]_vars => RoomKept'
<1> SUFFICES ASSUME IInv, RoomKept, [Next]_vars PROVE RoomKept'
  OBVIOUS
<1> USE DEF IInv
<1>1. ASSUME NEW i \in Ids, Spawn(i)
      PROVE  RoomKept'
  <2>1. made' = Fresh /\ caller' = caller /\ sup' = [sup EXCEPT ![i] = @ \cup {Watching(Fresh)}]
    BY <1>1 DEF Spawn, Install
  <2>2. Restarting' = Restarting
    BY <2>1 DEF Restarting
  <2>3. Replacing' = Replacing
    BY <2>1 DEF Replacing, Watching, TypeOK
  <2>4. PICK c \in Callers : TRUE
    BY PoolAssumption
  <2>5. QED
    BY <1>1, <2>1, <2>2, <2>3, <2>4, OnePromised DEF Spawn
<1>2. ASSUME NEW c \in Callers, NEW i \in Ids, NEW op \in {"kill", "restart"}, KillBegin(c, i, op)
      PROVE  RoomKept'
  <2>1. made' = made /\ sup' = sup /\ caller[c] = Idle
    BY <1>2 DEF KillBegin, Panic, poolVars
  <2>2. Replacing' = Replacing
    BY <2>1 DEF Replacing
  <2>3. CASE caller' = caller
    BY <2>1, <2>2, <2>3, NothingPromised DEF Restarting
  <2>4. CASE caller' # caller
    <3>1. caller' = [caller EXCEPT ![c] = [op |-> op, id |-> i, gen |-> entry[i]]]
      BY <1>2, <2>4 DEF KillBegin, Panic
    <3>2. CASE op = "restart"
      <4>1. Restarting' = Restarting \cup {c}
        BY <3>1, <3>2 DEF Restarting, TypeOK
      <4>2. Room
        BY <1>2, <3>2 DEF KillBegin
      <4>3. QED
        BY <2>1, <2>2, <4>1, <4>2, OnePromised
    <3>3. CASE op # "restart"
      <4>1. Restarting' \subseteq Restarting
        BY <3>1, <3>3 DEF Restarting, TypeOK
      <4>2. QED
        BY <2>1, <2>2, <4>1, NothingPromised
    <3>4. QED
      BY <3>2, <3>3
  <2>5. QED
    BY <2>3, <2>4
<1>3. ASSUME NEW c \in Callers, KillEnd(c)
      PROVE  RoomKept'
  <2>1. made' = made /\ sup' = sup /\ caller' = [caller EXCEPT ![c] = Idle]
    BY <1>3 DEF KillEnd, Reap
  <2>2. Restarting' \subseteq Restarting
    BY <2>1 DEF Restarting, TypeOK, Idle
  <2>3. QED
    BY <2>1, <2>2, NothingPromised DEF Replacing
<1>4. ASSUME NEW c \in Callers, RestartEnd(c)
      PROVE  RoomKept'
  <2> DEFINE i == caller[c].id
  <2>1. /\ made' = Fresh /\ sup' = [sup EXCEPT ![i] = @ \cup {Watching(Fresh)}]
        /\ caller' = [caller EXCEPT ![c] = Idle] /\ c \in Restarting
    BY <1>4 DEF RestartEnd, Reap, Install, Restarting
  <2>2. Restarting' = Restarting \ {c}
    BY <2>1 DEF Restarting, TypeOK, Idle
  <2>3. i \in Ids
    BY <2>1 DEF Restarting, Held
  <2> HIDE DEF i
  <2>4. Replacing' = Replacing
    BY <2>1, <2>3 DEF Replacing, Watching, TypeOK
  <2>5. QED
    BY <2>1, <2>2, <2>4, PromiseMade
<1>5. ASSUME NEW i \in Ids, NEW s \in sup[i], Inspect(i, s), ~Panic, status[s.seen] = "failed"
      PROVE  RoomKept'
  <2> DEFINE t == [s EXCEPT !.at = "restart", !.seen = None]
  <2>1. /\ Room /\ made' = made /\ caller' = caller
        /\ sup' = [sup EXCEPT ![i] = (@ \ {s}) \cup {t}] /\ s.at = "look"
    BY <1>5 DEF Inspect, Become, poolVars
  <2>2. t.at = "restart"
    BY DEF TypeOK, Watchers
  <2> HIDE DEF t
  <2>3. Replacing' = Replacing \cup {i}
    BY <2>1, <2>2 DEF Replacing, TypeOK
  <2>4. Restarting' = Restarting
    BY <2>1 DEF Restarting
  <2>5. PICK c \in Callers : TRUE
    BY PoolAssumption
  <2>6. QED
    BY <2>1, <2>3, <2>4, <2>5, OnePromised
<1>6. ASSUME NEW i \in Ids, NEW s \in sup[i],
             SeeStop(i, s) \/ Tick(i, s) \/ (Inspect(i, s) /\ (Panic \/ status[s.seen] # "failed"))
      PROVE  RoomKept'
  <2>1. made' = made /\ caller' = caller
    BY <1>6 DEF SeeStop, Tick, Inspect, Exit, Panic, poolVars
  <2>2. \/ sup' = sup
        \/ \E t \in Watchers : t.at # "restart" /\ sup' = [sup EXCEPT ![i] = (@ \ {s}) \cup {t}]
    <3>1. s \in Watchers /\ entry[i] \in Nat
      BY DEF TypeOK
    <3>2. /\ [s EXCEPT !.at = "exited", !.seen = None] \in Watchers
          /\ [s EXCEPT !.at = "select", !.seen = None] \in Watchers
          /\ [s EXCEPT !.at = "look", !.seen = IF i \in sentinel THEN None ELSE entry[i]] \in Watchers
      BY <3>1 DEF Watchers, None
    <3>3. /\ [s EXCEPT !.at = "exited", !.seen = None].at = "exited"
          /\ [s EXCEPT !.at = "select", !.seen = None].at = "select"
          /\ [s EXCEPT !.at = "look", !.seen = IF i \in sentinel THEN None ELSE entry[i]].at = "look"
      BY <3>1 DEF Watchers
    <3>4. QED
      BY <1>6, <3>2, <3>3 DEF SeeStop, Tick, Inspect, Exit, Become, Panic
  <2>3. Replacing' \subseteq Replacing
    BY <2>2 DEF Replacing, TypeOK
  <2>4. QED
    BY <2>1, <2>3, NothingPromised DEF Restarting
<1>7. ASSUME NEW i \in Ids, NEW s \in sup[i], RestartFailed(i, s)
      PROVE  RoomKept'
  <2>1. s \in Alive(i) /\ entry[i] # None /\ s.at = "restart"
    BY <1>7 DEF RestartFailed, Watched, Alive
  <2>2. CASE Panic
    BY <2>2, NothingPromised DEF Panic, poolVars, Restarting, Replacing
  <2>3. CASE ~Panic
    <3>1. /\ made' = Fresh /\ caller' = caller
          /\ sup' = [sup EXCEPT ![i] = (@ \ {s}) \cup {Watching(Fresh)}]
      BY <1>7, <2>1, <2>3 DEF RestartFailed, Install, Become, Adopted
    <3>2. i \in Replacing /\ \A t \in sup[i] : t.at = "restart" => t = s
      BY <2>1 DEF Replacing, Watched, Alive
    <3>3. Replacing' = Replacing \ {i}
      BY <3>1, <3>2 DEF Replacing, Watching, TypeOK
    <3>4. QED
      BY <3>1, <3>2, <3>3, PromiseMade DEF Restarting
  <2>4. QED
    BY <2>2, <2>3
<1>8. CASE \/ \E i \in Ids : Run(i)
           \/ Stop \/ ShutdownBegin \/ ShutdownEnd
           \/ UNCHANGED vars
  <2>1. UNCHANGED <<made, sup, caller>>
    BY <1>8 DEF Run, PickAgent, RunStart, RunFailed, RunEnd, RunStep, Stop, ShutdownBegin,
                ShutdownEnd, vars, poolVars
  <2>2. QED
    BY <2>1, NothingPromised DEF Restarting, Replacing
<1>9. ASSUME NEW i \in Ids, Supervise(i)
      PROVE  RoomKept'
  BY <1>5, <1>6, <1>7, <1>9 DEF Supervise
<1>10. QED
  BY <1>1, <1>2, <1>3, <1>4, <1>8, <1>9 DEF Next, Call

LEMMA InGens ==
  ASSUME TypeOK, RoomKept
  PROVE  /\ made \in Nat /\ 1..made \subseteq Gens
         /\ \A i \in Ids : entry[i] # None => entry[i] \in Gens
<1>1. Cardinality(Restarting) \in Nat /\ Cardinality(Replacing) \in Nat
  BY Cards DEF Restarting, Replacing
<1>2. made \in Nat /\ made <= MaxGen
  BY <1>1, PoolAssumption DEF RoomKept, TypeOK
<1>3. QED
  BY <1>2, PoolAssumption DEF TypeOK, Gens, None

\* A step that puts a fresh agent under an ID, or only another status.
LEMMA BornNext == IInv /\ RoomKept /\ RoomKept' /\ Born /\ [Next]_vars => Born'
<1> SUFFICES ASSUME IInv, RoomKept, RoomKept', Born, [Next]_vars PROVE Born'
  OBVIOUS
<1>1. made \in Nat /\ 1..made \subseteq Gens
  BY InGens DEF IInv
<1>2. made' \in {made, Fresh} /\ Fresh = made + 1
  BY DEF Next, Supervise, Call, Run, Spawn, KillBegin, KillEnd, RestartEnd, Reap, Install, SeeStop, Tick,
         Inspect, RestartFailed, Exit, Panic, PickAgent, RunStart, RunFailed, RunEnd, RunStep, Stop,
         ShutdownBegin, ShutdownEnd, vars, poolVars, Fresh
<1>3. \/ status' = status
      \/ \E g \in 1..made, st \in Statuses : status' = [status EXCEPT ![g] = st]
      \/ status' = [g \in Gens |-> IF g \in Installed THEN "terminated" ELSE status[g]]
  <2>1. ASSUME NEW c \in Callers, KillEnd(c) \/ RestartEnd(c)
        PROVE  \E g \in 1..made : status' = [status EXCEPT ![g] = "terminated"]
    <3>1. PICK op \in {"kill", "restart"} : Reap(c, op)
      BY <2>1 DEF KillEnd, RestartEnd
    <3>2. caller[c].gen \in 1..made
      BY <3>1 DEF Reap, IInv, Held, TypeOK
    <3>3. QED
      BY <3>1, <3>2 DEF Reap
  <2>2. ASSUME NEW i \in Ids, NEW s \in sup[i], RestartFailed(i, s)
        PROVE  \/ status' = status
               \/ \E g \in 1..made : status' = [status EXCEPT ![g] = "terminated"]
    <3>1. entry[i] # None => entry[i] \in 1..made
      BY DEF IInv, TypeOK, None
    <3>2. QED
      BY <2>2, <3>1 DEF RestartFailed, Exit, Panic
  <2>3. ASSUME NEW i \in Ids, Run(i)
        PROVE  \/ status' = status
               \/ \E g \in 1..made, st \in Statuses : status' = [status EXCEPT ![g] = st]
    <3>1. job[i].at # "none" => job[i].gen \in 1..made
      BY DEF Born, None
    <3>2. QED
      BY <2>3, <3>1 DEF Run, PickAgent, RunStart, RunFailed, RunEnd, RunStep, Statuses
  <2>4. QED
    BY <2>1, <2>2, <2>3 DEF Next, Supervise, Call, Spawn, KillBegin, SeeStop, Tick, Inspect, Exit, Panic,
           Stop, ShutdownBegin, ShutdownEnd, Statuses, vars
<1>4. status' \in [Gens -> Statuses]
  BY <1>3 DEF Born, Statuses
<1>5. \A g \in Gens : g > made' => status'[g] = "idle"
  <2>1. \A g \in Gens : g > made' => g \notin 1..made /\ g > made
    BY <1>1, <1>2 DEF Gens
  <2>2. Installed \subseteq 1..made
    BY DEF Installed, IInv, TypeOK, None
  <2>3. QED
    BY <1>1, <1>3, <2>1, <2>2 DEF Born
<1>6. /\ job' \in [Ids -> [at : {"none", "picked", "running", "failed"}, gen : 0..made']]
      /\ \A i \in Ids : job'[i].at # "none" => job'[i].gen # None
  <2>1. CASE job' = job
    BY <1>1, <1>2, <2>1 DEF Born
  <2>2. CASE job' # job
    <3>1. PICK i \in Ids : Run(i)
      BY <2>2 DEF Next, Supervise, Call, Spawn, KillBegin, KillEnd, RestartEnd, Reap, SeeStop, Tick, Inspect,
                  RestartFailed, Exit, Panic, Stop, ShutdownBegin, ShutdownEnd, vars
    <3>2. made' = made
      BY <3>1 DEF Run, PickAgent, RunStart, RunFailed, RunEnd, RunStep, poolVars
    <3> DEFINE Jobs == [at : {"none", "picked", "running", "failed"}, gen : 0..made]
    <3>3. PICK j \in Jobs : job' = [job EXCEPT ![i] = j] /\ (j.at # "none" => j.gen # None)
      <4>1. CASE PickAgent(i)
        <5>1. /\ [at |-> "picked", gen |-> entry[i]] \in Jobs /\ entry[i] # None
              /\ job' = [job EXCEPT ![i] = [at |-> "picked", gen |-> entry[i]]]
          BY <4>1 DEF PickAgent, IInv, TypeOK
        <5>2. QED
          BY <5>1
      <4>2. ASSUME NEW here \in {"picked", "running", "failed"}, NEW there \in {"running", "failed", "none"},
                   NEW st, RunStep(i, here, there, st)
            PROVE  \E j \in Jobs : job' = [job EXCEPT ![i] = j] /\ (j.at # "none" => j.gen # None)
        <5>1. job[i] \in Jobs /\ job[i].gen # None
          BY <4>2 DEF RunStep, Born
        <5>2. [job[i] EXCEPT !.at = there] \in Jobs /\ [job[i] EXCEPT !.at = there].gen = job[i].gen
          BY <5>1
        <5>3. NoJob \in Jobs /\ NoJob.at = "none"
          BY <1>1 DEF NoJob, None
        <5>4. job' = [job EXCEPT ![i] = IF there = "none" THEN NoJob ELSE [job[i] EXCEPT !.at = there]]
          BY <4>2 DEF RunStep, Born
        <5>5. QED
          BY <5>1, <5>2, <5>3, <5>4
      <4>3. QED
        BY <3>1, <4>1, <4>2 DEF Run, RunStart, RunFailed, RunEnd
    <3>4. QED
      BY <3>2, <3>3 DEF Born
  <2>3. QED
    BY <2>1, <2>2
<1>7. QED
  BY <1>4, <1>5, <1>6 DEF Born

\* The agent of an ID is replaced by one that no tick has read yet.
LEMMA SeenNext == IInv /\ SeenLast /\ [Next]_vars => SeenLast'
<1> SUFFICES ASSUME IInv, IInv', SeenLast, [Next]_vars PROVE SeenLast'
  BY NextInv
<1> USE DEF IInv
<1>1. ASSUME NEW c \in Callers, KillEnd(c) \/ RestartEnd(c)
      PROVE  SeenLast'
  <2> DEFINE i == caller[c].id
  <2>1. PICK op \in {"kill", "restart"} : Reap(c, op)
    BY <1>1 DEF KillEnd, RestartEnd
  <2>2. i \in Ids /\ Alive(i) = {}
    BY <2>1, Reaped
  <2>3. \A j \in Ids \ {i} : entry'[j] = entry[j] /\ sup'[j] = sup[j]
    BY <1>1, <2>2 DEF KillEnd, RestartEnd, Install, TypeOK
  <2>4. sup'[i] = sup[i] \/ sup'[i] = sup[i] \cup {Watching(Fresh)}
    BY <1>1, <2>2 DEF KillEnd, RestartEnd, TypeOK
  <2> HIDE DEF i
  <2>5. QED
    BY <2>2, <2>3, <2>4 DEF SeenLast, Alive, Watching
<1>2. ASSUME NEW i \in Ids, Spawn(i)
      PROVE  SeenLast'
  <2>1. entry[i] = None /\ sup'[i] = sup[i] \cup {Watching(Fresh)}
    BY <1>2 DEF Spawn, IdFree, TypeOK
  <2>2. Alive(i) = {}
    BY <2>1 DEF Watched
  <2>3. \A j \in Ids \ {i} : entry'[j] = entry[j] /\ sup'[j] = sup[j]
    BY <1>2 DEF Spawn, Install, TypeOK
  <2>4. QED
    BY <2>1, <2>2, <2>3 DEF SeenLast, Alive, Watching
<1>3. ASSUME NEW i \in Ids, NEW s \in sup[i],
             SeeStop(i, s) \/ Tick(i, s) \/ Inspect(i, s) \/ RestartFailed(i, s)
      PROVE  SeenLast'
  <2>1. s \in Alive(i) /\ s \in Watchers
    BY <1>3 DEF SeeStop, Tick, Inspect, RestartFailed, Alive, TypeOK
  <2>2. \A x \in Alive(i) : x = s
    BY <2>1 DEF Watched
  <2>3. CASE Panic
    BY <2>3 DEF Panic, poolVars, SeenLast, Alive
  <2>4. CASE ~Panic
    <3>1. \A j \in Ids \ {i} : entry'[j] = entry[j] /\ sup'[j] = sup[j]
      BY <1>3, <2>4 DEF SeeStop, Tick, Inspect, RestartFailed, Exit, Become, Install, TypeOK, poolVars
    <3>2. \E t \in Watchers : /\ sup'[i] = (sup[i] \ {s}) \cup {t}
                              /\ t.at = "look" => t.seen \in {None, entry'[i]}
      <4>1. CASE SeeStop(i, s)
        <5> DEFINE t == [s EXCEPT !.at = "exited", !.seen = None]
        <5>1. t \in Watchers /\ t.at = "exited" /\ sup'[i] = (sup[i] \ {s}) \cup {t}
          BY <2>1, <4>1 DEF SeeStop, Exit, Become, TypeOK, Watchers, None
        <5> HIDE DEF t
        <5>2. QED
          BY <5>1
      <4>2. CASE Tick(i, s)
        <5>1. entry[i] # None /\ entry[i] \in Nat
          BY <2>1 DEF Watched, TypeOK
        <5> DEFINE x == IF i \in sentinel THEN None ELSE entry[i]
                   t == [s EXCEPT !.at = "look", !.seen = x]
        <5>2. entry' = entry /\ sup'[i] = (sup[i] \ {s}) \cup {t}
          BY <4>2, <5>1 DEF Tick, Become, TypeOK, poolVars
        <5>3. x \in Nat /\ x \in {None, entry[i]}
          BY <5>1 DEF None
        <5> HIDE DEF x
        <5>4. t \in Watchers /\ t.seen = x
          BY <2>1, <5>3 DEF Watchers
        <5> HIDE DEF t
        <5>5. QED
          BY <5>2, <5>3, <5>4
      <4>3. CASE Inspect(i, s)
        <5>1. PICK place \in {"restart", "select"} :
                sup'[i] = (sup[i] \ {s}) \cup {[s EXCEPT !.at = place, !.seen = None]}
          BY <2>4, <4>3 DEF Inspect, Become, TypeOK
        <5> DEFINE t == [s EXCEPT !.at = place, !.seen = None]
        <5>2. t \in Watchers /\ t.at = place
          BY <2>1 DEF Watchers, None
        <5>3. sup'[i] = (sup[i] \ {s}) \cup {t}
          BY <5>1
        <5> HIDE DEF t
        <5>4. QED
          BY <5>2, <5>3
      <4>4. CASE RestartFailed(i, s)
        <5>1. entry[i] # None
          BY <2>1 DEF Watched
        <5>2. sup'[i] = (sup[i] \ {s}) \cup {Watching(Fresh)}
          BY <2>4, <4>4, <5>1 DEF RestartFailed, Become, Adopted, TypeOK
        <5>3. Watching(Fresh) \in Watchers /\ Watching(Fresh).at = "select"
          BY DEF Watching, Watchers, Fresh, TypeOK, None
        <5>4. QED
          BY <5>2, <5>3
      <4>5. QED
        BY <1>3, <4>1, <4>2, <4>3, <4>4
    <3>3. QED
      BY <2>2, <3>1, <3>2 DEF SeenLast, Alive
  <2>5. QED
    BY <2>3, <2>4
<1>4. CASE \/ \E c \in Callers, i \in Ids, op \in {"kill", "restart"} : KillBegin(c, i, op)
           \/ \E i \in Ids : Run(i)
           \/ Stop \/ ShutdownBegin \/ ShutdownEnd
           \/ UNCHANGED vars
  <2>1. UNCHANGED <<entry, sup>>
    BY <1>4 DEF KillBegin, Panic, Run, PickAgent, RunStart, RunFailed, RunEnd, RunStep, Stop, ShutdownBegin,
                ShutdownEnd, vars, poolVars
  <2>2. QED
    BY <2>1 DEF SeenLast, Alive
<1>5. QED
  BY <1>1, <1>2, <1>3, <1>4 DEF Next, Call, Supervise

\* What a supervisor may still do after ShutdownAll has begun.
LEMMA LateSupervise ==
  ASSUME IInv, SeenLast, Drained, main \in {"signalled", "down"}, NEW i \in Ids, Supervise(i)
  PROVE  /\ UNCHANGED <<stopped, caller, job, main>>
         /\ \A j \in Ids \ {i} : entry'[j] = entry[j] /\ sup'[j] = sup[j]
         /\ entry[i] # None
         /\ \E s \in Alive(i) :
              \/ sup'[i] = sup[i] /\ UNCHANGED <<entry, made, status, retired>>
              \/ \E t : /\ sup'[i] = (sup[i] \ {s}) \cup {t}
                        /\ t.at = "exited" \/ t.gen = s.gen
                        /\ t.at = "exited" => s.gen \in stopped
                        /\ t.at = "restart" => status[entry[i]] = "failed"
                        /\ UNCHANGED <<entry, made, status, retired>>
              \/ /\ s.at = "restart" /\ Install(i)
                 /\ sup'[i] = (sup[i] \ {s}) \cup {Watching(Fresh)}
                 /\ status' = [status EXCEPT ![entry[i]] = "terminated"]
                 /\ retired' = retired \cup {entry[i]}
<1> USE DEF IInv
<1>1. PICK s \in sup[i] : SeeStop(i, s) \/ Tick(i, s) \/ Inspect(i, s) \/ RestartFailed(i, s)
  BY DEF Supervise
<1>2. s \in Alive(i) /\ s \in Watchers /\ entry[i] # None
  BY <1>1 DEF SeeStop, Tick, Inspect, RestartFailed, Alive, TypeOK, Watched
<1>3. UNCHANGED <<stopped, caller, job, main>>
  BY <1>1 DEF SeeStop, Tick, Inspect, RestartFailed, Exit, Panic, poolVars
<1>4. \A j \in Ids \ {i} : entry'[j] = entry[j] /\ sup'[j] = sup[j]
  BY <1>1 DEF SeeStop, Tick, Inspect, RestartFailed, Exit, Panic, Become, Install, TypeOK, poolVars
<1>5. CASE Panic
  BY <1>2, <1>3, <1>4, <1>5 DEF Panic, poolVars
<1>6. CASE SeeStop(i, s)
  <2> DEFINE t == [s EXCEPT !.at = "exited", !.seen = None]
  <2>1. /\ t.at = "exited" /\ s.gen \in stopped /\ sup'[i] = (sup[i] \ {s}) \cup {t}
        /\ UNCHANGED <<entry, made, status, retired>>
    BY <1>2, <1>6 DEF SeeStop, Exit, Become, TypeOK, Watchers
  <2> HIDE DEF t
  <2>2. QED
    BY <1>2, <1>3, <1>4, <2>1
<1>7. CASE Tick(i, s)
  <2> DEFINE t == [s EXCEPT !.at = "look", !.seen = IF i \in sentinel THEN None ELSE entry[i]]
  <2>1. /\ t.at = "look" /\ t.gen = s.gen /\ sup'[i] = (sup[i] \ {s}) \cup {t}
        /\ UNCHANGED <<entry, made, status, retired>>
    BY <1>2, <1>7 DEF Tick, Become, TypeOK, Watchers, poolVars
  <2> HIDE DEF t
  <2>2. QED
    BY <1>2, <1>3, <1>4, <2>1
<1>8. CASE Inspect(i, s) /\ ~Panic
  <2>1. s.seen = entry[i]
    BY <1>2, <1>8 DEF Inspect, SeenLast
  <2>2. PICK place \in {"restart", "select"} :
          /\ place = "restart" => status[entry[i]] = "failed"
          /\ sup'[i] = (sup[i] \ {s}) \cup {[s EXCEPT !.at = place, !.seen = None]}
    BY <1>8, <2>1 DEF Inspect, Become, TypeOK
  <2> DEFINE t == [s EXCEPT !.at = place, !.seen = None]
  <2>3. /\ t.at = place /\ t.gen = s.gen /\ sup'[i] = (sup[i] \ {s}) \cup {t}
        /\ UNCHANGED <<entry, made, status, retired>>
    BY <1>2, <1>8, <2>2 DEF Inspect, Watchers, poolVars
  <2> HIDE DEF t
  <2>4. QED
    BY <1>2, <1>3, <1>4, <2>2, <2>3
<1>9. CASE RestartFailed(i, s) /\ ~Panic
  <2>1. /\ s.at = "restart" /\ Install(i)
        /\ sup'[i] = (sup[i] \ {s}) \cup {Watching(Fresh)}
        /\ status' = [status EXCEPT ![entry[i]] = "terminated"]
        /\ retired' = retired \cup {entry[i]}
    BY <1>2, <1>9 DEF RestartFailed, Become, Adopted, TypeOK
  <2>2. QED
    BY <1>2, <1>3, <1>4, <2>1
<1>10. QED
  BY <1>1, <1>5, <1>6, <1>7, <1>8, <1>9

LEMMA DrainedNext == IInv /\ RoomKept /\ Born /\ SeenLast /\ Drained /\ [Next]_vars => Drained'
<1> SUFFICES ASSUME IInv, IInv', RoomKept, RoomKept', Born, Born', SeenLast, Drained, [Next]_vars,
                    main' \in {"signalled", "down"}
             PROVE  Drained'
  BY NextInv, RoomNext, BornNext DEF Drained
<1> USE DEF IInv
<1>1. CASE main \notin {"signalled", "down"}
  <2>1. ShutdownBegin
    BY <1>1 DEF Next, Supervise, Call, Run, Spawn, KillBegin, KillEnd, RestartEnd, SeeStop, Tick,
         Inspect, RestartFailed, Exit, Panic, PickAgent, RunStart, RunFailed, RunEnd, RunStep, Stop,
         ShutdownEnd, vars
  <2>2. \A i \in Ids : entry'[i] # None => entry'[i] \in stopped'
    BY <2>1 DEF ShutdownBegin, Installed, None
  <2>3. /\ \A c \in Callers : caller'[c] = Idle
        /\ \A i \in Ids : job'[i] = NoJob
    BY <2>1 DEF ShutdownBegin, MayShutDown, Quiet
  <2>4. QED
    BY <2>2, <2>3 DEF Drained
<1>2. ASSUME main \in {"signalled", "down"}, NEW i \in Ids, Supervise(i)
      PROVE  Drained'
  <2>1. PICK s \in Alive(i) :
              \/ sup'[i] = sup[i] /\ UNCHANGED <<entry, made, status, retired>>
              \/ \E t : /\ sup'[i] = (sup[i] \ {s}) \cup {t}
                        /\ t.at = "exited" \/ t.gen = s.gen
                        /\ t.at = "exited" => s.gen \in stopped
                        /\ t.at = "restart" => status[entry[i]] = "failed"
                        /\ UNCHANGED <<entry, made, status, retired>>
              \/ /\ s.at = "restart" /\ Install(i)
                 /\ sup'[i] = (sup[i] \ {s}) \cup {Watching(Fresh)}
                 /\ status' = [status EXCEPT ![entry[i]] = "terminated"]
                 /\ retired' = retired \cup {entry[i]}
    BY <1>2, LateSupervise
  <2>2. /\ UNCHANGED <<stopped, caller, job, main>>
        /\ \A j \in Ids \ {i} : entry'[j] = entry[j] /\ sup'[j] = sup[j]
    BY <1>2, LateSupervise
  <2>3. CASE UNCHANGED <<entry, made, status, retired>>
    <3>1. ASSUME NEW t, sup'[i] = (sup[i] \ {s}) \cup {t}, t.at = "restart" => status[entry[i]] = "failed"
          PROVE  Drained'
      <4>1. \A x \in Alive(i)' : x \in Alive(i) \/ (x = t /\ t.at # "exited")
        BY <3>1 DEF Alive
      <4>2. QED
        BY <1>2, <2>2, <2>3, <3>1, <4>1 DEF Drained, Alive
    <3>2. CASE sup'[i] = sup[i]
      BY <1>2, <2>2, <2>3, <3>2 DEF Drained, Alive
    <3>3. QED
      BY <2>1, <2>3, <3>1, <3>2 DEF Install, Fresh, TypeOK
  <2>4. CASE /\ s.at = "restart" /\ Install(i)
             /\ sup'[i] = (sup[i] \ {s}) \cup {Watching(Fresh)}
             /\ status' = [status EXCEPT ![entry[i]] = "terminated"]
    <3>1. made' = Fresh /\ entry'[i] = Fresh /\ Fresh \notin 0..made
      BY <2>4 DEF Install, TypeOK, Fresh
    <3>2. Fresh \in Gens /\ Fresh > made
      <4>1. Cardinality(Restarting') \in Nat /\ Cardinality(Replacing') \in Nat
        BY Cards DEF Restarting, Replacing
      <4>2. made \in Nat /\ made' = made + 1
        BY <3>1 DEF TypeOK, Fresh
      <4>3. QED
        BY <3>1, <4>1, <4>2, PoolAssumption DEF RoomKept, Gens
    <3>3. entry[i] \in 0..made
      BY DEF TypeOK
    <3>4. status'[Fresh] = "idle"
      BY <2>4, <3>1, <3>2, <3>3 DEF Born
    <3>5. \A x \in Alive(i)' : x.at = "select"
      BY <2>4 DEF Watched, Alive, Watching
    <3>6. \A j \in Ids \ {i} : entry[j] # None =>
             status'[entry[j]] = status[entry[j]] \/ entry[j] \notin Gens
      BY <2>4 DEF Apart, Born
    <3>7. \A j \in Ids : entry[j] # None => entry[j] \in Gens
      BY InGens
    <3>8. QED
      BY <1>2, <2>2, <3>1, <3>4, <3>5, <3>6, <3>7 DEF Drained, Alive
  <2>5. QED
    BY <2>1, <2>3, <2>4
<1>3. CASE main \in {"signalled", "down"} /\ ShutdownEnd
  <2>1. UNCHANGED <<entry, stopped, sup, caller, job>>
    BY <1>3 DEF ShutdownEnd
  <2>2. \A g \in Gens : status'[g] \in {"terminated", status[g]}
    BY <1>3 DEF ShutdownEnd
  <2>3. \A j \in Ids : entry[j] # None => entry[j] \in Gens
    BY InGens
  <2>4. QED
    BY <1>3, <2>1, <2>2, <2>3 DEF Drained, Alive
<1>4. CASE main \in {"signalled", "down"} /\ ~ShutdownEnd /\ ~\E i \in Ids : Supervise(i)
  <2>1. UNCHANGED vars
    BY <1>4 DEF Drained, Next, Call, Run, Spawn, KillBegin, KillEnd, RestartEnd, Reap, PickAgent,
                RunStart, RunFailed, RunEnd, RunStep, Stop, ShutdownBegin, Idle, NoJob
  <2>2. QED
    BY <2>1 DEF Drained, Alive, vars, poolVars
<1>5. QED
  BY <1>1, <1>2, <1>3, <1>4

LEMMA OverNext == IInv /\ RoomKept /\ SeenLast /\ Drained /\ Over /\ [Next]_vars => Over'
<1> SUFFICES ASSUME IInv, IInv', RoomKept, SeenLast, Drained, Over, [Next]_vars, main' = "down"
             PROVE  Over'
  BY NextInv DEF Over
<1> USE DEF IInv
<1>1. CASE main # "down"
  <2>1. ShutdownEnd
    BY <1>1 DEF Next, Supervise, Call, Run, Spawn, KillBegin, KillEnd, RestartEnd, SeeStop, Tick,
         Inspect, RestartFailed, Exit, Panic, PickAgent, RunStart, RunFailed, RunEnd, RunStep, Stop,
         ShutdownBegin, vars
  <2>2. \A i \in Ids : \A s \in Alive(i) : s.gen \notin stopped
    BY <2>1 DEF ShutdownEnd, Watched, Settled, Alive
  <2>3. Installed \subseteq Gens
    BY InGens DEF Installed
  <2>4. QED
    BY <2>1, <2>2, <2>3 DEF Over, ShutdownEnd, Installed, Alive
<1>2. ASSUME main = "down", NEW i \in Ids, Supervise(i)
      PROVE  Over'
  <2>1. \A s \in Alive(i) : s.gen \notin stopped /\ s.gen = entry[i] /\ entry[i] # None /\ s.at # "restart"
    BY <1>2 DEF Over, Watched, Drained
  <2>2. status[entry[i]] # "failed"
    BY <1>2, <2>1, LateSupervise DEF Drained
  <2>3. PICK s \in Alive(i) :
              /\ \/ sup'[i] = sup[i]
                 \/ \E t : sup'[i] = (sup[i] \ {s}) \cup {t} /\ t.gen = s.gen
              /\ UNCHANGED <<entry, status, retired>>
    BY <1>2, <2>1, LateSupervise
  <2>4. UNCHANGED stopped /\ \A j \in Ids \ {i} : sup'[j] = sup[j]
    BY <1>2, LateSupervise
  <2>5. \A x \in Alive(i)' : x.gen \notin stopped
    BY <1>2, <2>1, <2>3, <2>4 DEF Alive, Over
  <2>6. QED
    BY <1>2, <2>3, <2>4, <2>5 DEF Over, Alive, Installed
<1>3. CASE main = "down" /\ ~\E i \in Ids : Supervise(i)
  <2>1. UNCHANGED vars
    BY <1>3 DEF Drained, Next, Call, Run, Spawn, KillBegin, KillEnd, RestartEnd, Reap, PickAgent,
                RunStart, RunFailed, RunEnd, RunStep, Stop, ShutdownBegin, ShutdownEnd, Idle, NoJob
  <2>2. QED
    BY <2>1 DEF Over, Alive, Installed, vars, poolVars
<1>4. QED
  BY <1>1, <1>2, <1>3

LEMMA ShutdownInv == Spec => []SInv
<1>1. Init => SInv
  <2>1. Init => RoomKept
    <3>1. Init => Restarting = {} /\ Replacing = {} /\ made = 0
      BY DEF Init, Restarting, Replacing, Idle
    <3>2. QED
      BY <3>1, FS_EmptySet, PoolAssumption DEF RoomKept
  <2>2. Init => Born
    BY DEF Init, Born, Statuses, NoJob, None
  <2>3. Init => SeenLast /\ Drained /\ Over
    BY DEF Init, SeenLast, Drained, Over, Alive
  <2>4. QED
    BY <2>1, <2>2, <2>3, InitInv DEF SInv
<1>2. SInv /\ [Next]_vars => SInv'
  BY NextInv, RoomNext, BornNext, SeenNext, DrainedNext, OverNext DEF SInv
<1>3. QED
  BY <1>1, <1>2, PTL DEF Spec

\* Once ShutdownAll is over every agent of the pool is terminated and its
\* OnShutdown was called: neither a worker's deferred status nor an agent a
\* supervisor makes afterwards escapes it.
THEOREM ShutDownAll == Spec => []AllRetired
<1>1. SInv => AllRetired
  BY DEF SInv, Over, AllRetired
<1>2. QED
  BY <1>1, ShutdownInv, PTL

=============================================================================
