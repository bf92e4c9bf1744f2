----------------------------- MODULE LlmRouter -----------------------------
(***************************************************************************)
(* internal/llm: Router.Call with the circuit breaker of each provider and *)
(* the fallback chain of the worker models, used by several goroutines at  *)
(* once.  A step is one critical section of a breaker's mutex, the answer  *)
(* to one HTTP request, or the end of a back-off.  Calls overlap freely: a *)
(* request may last 120 s and a chain several minutes, longer than the     *)
(* breakers' 60 s cooldown.                                                *)
(***************************************************************************)
EXTENDS Integers, Sequences

CONSTANTS Callers,
          Models,
          Providers,
          ProviderOf,   \* providerForModel
          ChainFrom,    \* FallbackChainFrom
          MaxRetries,   \* attempts per fallback model
          Threshold     \* failures that open a circuit

ASSUME RouterAssumption ==
    /\ ProviderOf \in [Models -> Providers]
    /\ DOMAIN ChainFrom = Models
    /\ \A m \in Models : Len(ChainFrom[m]) \in Nat
    /\ MaxRetries \in Nat \ {0}
    /\ Threshold \in Nat \ {0}

VARIABLES
    state,      \* state[p]: "closed", "open" or "halfOpen"
    failures,   \* failures[p], counted up to Threshold (it is only compared with it)
    cooled,     \* cooled[p]: the cooldown has passed since openedAt
    call        \* call[c]: the Router.Call of c

breakerVars == <<state, failures, cooled>>
vars == <<breakerVars, call>>

Outcomes == {"ok", "transient", "permanent"}   \* permanent: a 4xx

\* tried[i] is the outcomes so far of the i-th model of the call, the
\* requested one first and then its fallback chain.
Idle == [at |-> "idle"]
Calling(m) == [at |-> "request", model |-> m, tried |-> << <<>> >>, result |-> "ok"]

Init ==
    /\ state = [p \in Providers |-> "closed"]
    /\ failures = [p \in Providers |-> 0]
    /\ cooled = [p \in Providers |-> FALSE]
    /\ call = [c \in Callers |-> Idle]

Last(s) == s[Len(s)]
Now(k) == Last(k.tried)                          \* outcomes of the current model
OnFallback(k) == Len(k.tried) > 1
MoreModels(k) == Len(k.tried) <= Len(ChainFrom[k.model])

-----------------------------------------------------------------------------
(* The breaker *)

\* allow: the first caller after the cooldown is the probe.
Admit(c, m) ==
    LET p == ProviderOf[m] IN
    /\ call[c] = Idle
    /\ \/ /\ state[p] = "closed"
          /\ UNCHANGED state
       \/ /\ state[p] = "open" /\ cooled[p]
          /\ state' = [state EXCEPT ![p] = "halfOpen"]
    /\ call' = [call EXCEPT ![c] = Calling(m)]
    /\ UNCHANGED <<failures, cooled>>

Cool(p) ==
    /\ state[p] = "open" /\ ~cooled[p]
    /\ cooled' = [cooled EXCEPT ![p] = TRUE]
    /\ UNCHANGED <<state, failures, call>>

\* (faulty: the counter survives a success)
RecordSuccessKeepsCount(p) ==
    /\ state' = [state EXCEPT ![p] = "closed"]
    /\ UNCHANGED <<failures, cooled>>

RecordSuccess(p) ==
    /\ failures' = [failures EXCEPT ![p] = 0]
    /\ state' = [state EXCEPT ![p] = "closed"]
    /\ UNCHANGED cooled

RecordFailure(p) ==
    LET n == IF failures[p] = Threshold THEN Threshold ELSE failures[p] + 1 IN
    /\ failures' = [failures EXCEPT ![p] = n]
    /\ IF n = Threshold
       THEN /\ state' = [state EXCEPT ![p] = "open"]
            /\ cooled' = [cooled EXCEPT ![p] = FALSE]
       ELSE UNCHANGED <<state, cooled>>

-----------------------------------------------------------------------------
(* One call *)

Settled(k, o) == [k EXCEPT !.at = "settle", !.result = o]

\* (faulty: the attempt counter starts again)
RetryUncounted(k) == [k EXCEPT !.at = "backoff", !.tried[Len(k.tried)] = <<>>]

Retry(k) == [k EXCEPT !.at = "backoff"]

\* (faulty: the attempts of the previous model count against the next one)
NextModelShort(k) == [k EXCEPT !.tried = Append(@, Last(@))]

NextModel(k) == [k EXCEPT !.tried = Append(@, <<>>)]

\* Where a failed attempt leads.  The requested model gets one attempt, and
\* hands over only after a transient failure; a fallback model gets
\* MaxRetries, fewer when it answers with a 4xx.
AfterFailure(k, o) ==
    CASE ~OnFallback(k) /\ o = "permanent"                         -> Settled(k, o)
      [] OnFallback(k) /\ o = "transient" /\ Len(Now(k)) < MaxRetries -> Retry(k)
      [] OTHER -> IF MoreModels(k) THEN NextModel(k) ELSE Settled(k, o)

\* callOpenAICompat or callAnthropic returns.
Respond(c, o) ==
    LET k == [call[c] EXCEPT !.tried[Len(call[c].tried)] = Append(@, o)] IN
    /\ call[c].at = "request"
    /\ call' = [call EXCEPT ![c] = IF o = "ok" THEN Settled(k, o) ELSE AfterFailure(k, o)]
    /\ UNCHANGED breakerVars

\* The back-off ends, or the caller's context does.
Resume(c) ==
    /\ call[c].at = "backoff"
    /\ call' = [call EXCEPT ![c].at = "request"]
    /\ UNCHANGED breakerVars

Cancelled(c) ==
    /\ call[c].at = "backoff"
    /\ call' = [call EXCEPT ![c] = Settled(@, "cancelled")]
    /\ UNCHANGED breakerVars

\* The result goes to the breaker of the requested model's provider, whichever
\* model gave it; a permanent error is not recorded.
Settle(c) ==
    LET p == ProviderOf[call[c].model] IN
    /\ call[c].at = "settle"
    /\ CASE call[c].result = "ok"                         -> RecordSuccess(p)
         [] call[c].result \in {"transient", "cancelled"} -> RecordFailure(p)
         [] call[c].result = "permanent"                  -> UNCHANGED breakerVars
    /\ call' = [call EXCEPT ![c] = Idle]

Next ==
    \/ \E c \in Callers :
          \/ \E m \in Models : Admit(c, m)
          \/ \E o \in Outcomes : Respond(c, o)
          \/ Resume(c) \/ Cancelled(c) \/ Settle(c)
    \/ \E p \in Providers : Cool(p)

\* Requests have a timeout, back-offs a timer.
Fairness ==
    \A c \in Callers :
        WF_vars((\E o \in Outcomes : Respond(c, o)) \/ Resume(c) \/ Settle(c))

Spec == Init /\ [][Next]_vars /\ Fairness

-----------------------------------------------------------------------------
(* Properties *)

TypeOK ==
    /\ state \in [Providers -> {"closed", "open", "halfOpen"}]
    /\ failures \in [Providers -> 0..Threshold]
    /\ cooled \in [Providers -> BOOLEAN]
    /\ \A c \in Callers : call[c] # Idle =>
          /\ call[c].at \in {"request", "backoff", "settle"}
          /\ call[c].result \in Outcomes \cup {"cancelled"}
          /\ call[c].model \in Models
          /\ Len(call[c].tried) \in 1..(Len(ChainFrom[call[c].model]) + 1)
          /\ \A i \in 1..Len(call[c].tried) :
                call[c].tried[i] \in Seq(Outcomes) /\ Len(call[c].tried[i]) <= MaxRetries

\* A circuit is closed exactly while fewer than Threshold failures are
\* counted, whatever the order in which overlapping calls report: a late
\* success leaves no half-reset breaker, and a failed probe, counted on top,
\* reopens the circuit at once (breaker.go:71-90).
CountMatchesState ==
    \A p \in Providers : state[p] = "closed" <=> failures[p] < Threshold

\* "fallback chain exhausted", the report a human gets, is made only when the
\* requested model failed transiently and every model of its chain was given
\* all its attempts or refused with a 4xx (fallback.go:19-74).
ExhaustionEarned ==
    \A c \in Callers :
        LET k == call[c] IN
        k.at = "settle" /\ OnFallback(k) /\ k.result \in {"transient", "permanent"} =>
            /\ Len(k.tried) = Len(ChainFrom[k.model]) + 1
            /\ k.tried[1] = <<"transient">>
            /\ \A i \in 2..Len(k.tried) :
                  Len(k.tried[i]) = MaxRetries \/ Last(k.tried[i]) = "permanent"

\* A call ends: retries and fallbacks are bounded.
CallsEnd == \A c \in Callers : call[c] # Idle ~> call[c] = Idle

=============================================================================
