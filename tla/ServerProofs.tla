---------------------------- MODULE ServerProofs ----------------------------
(***************************************************************************)
(* Three parts of the server that share no state: the router's circuit     *)
(* breakers and fallback chains, the WebSocket hub, and the token gate     *)
(* before the protected routes.                                            *)
(*                                                                         *)
(* A breaker's state agrees with its count, and a chain is reported        *)
(* exhausted only when it is.  The hub never closes a client's channel     *)
(* twice, never sends on a closed one and never holds more clients than    *)
(* its limit.  A revoked token is refused.  All this for any number of     *)
(* callers, models, clients, requests and failures.                        *)
(***************************************************************************)
EXTENDS LlmRouter, WsHub, TokenGate, FiniteSetTheorems, TLAPS

-----------------------------------------------------------------------------
(* Calls in progress *)

\* A call, whatever its outcomes so far.
Calls == [at : {"request", "backoff", "settle"}, model : Models,
          tried : Seq(Seq(Outcomes)) \ {<<>>}, result : Outcomes \cup {"cancelled"}]

CallsTyped == call \in [Callers -> {Idle} \cup Calls]

\* One more outcome of the current model.
LEMMA TriedOnceMore ==
    ASSUME NEW k \in Calls, NEW o \in Outcomes
    PROVE  [k EXCEPT !.tried[Len(k.tried)] = Append(@, o)] \in Calls
  <1> DEFINE s == k.tried
             n == Len(s)
             t == [s EXCEPT ![n] = Append(@, o)]
  <1>1. s \in Seq(Seq(Outcomes)) /\ s # <<>>
    BY DEF Calls
  <1>2. n \in Nat \ {0} /\ n \in DOMAIN s
    BY <1>1
  <1>3. s[n] \in Seq(Outcomes)
    BY <1>1, <1>2
  <1>4. Append(s[n], o) \in Seq(Outcomes)
    BY <1>3
  <1>5. t \in Seq(Seq(Outcomes)) /\ Len(t) = n
    BY <1>1, <1>2, <1>4
  <1>6. t # <<>>
    BY <1>2, <1>5
  <1> HIDE DEF t
  <1>7. [k EXCEPT !.tried = t] \in Calls
    BY <1>5, <1>6 DEF Calls
  <1> QED BY <1>7 DEF t, Calls

\* A failed attempt leads to another state of the same call.
LEMMA AfterFailureTypes ==
    ASSUME NEW k \in Calls, NEW o \in Outcomes
    PROVE  AfterFailure(k, o) \in Calls
  <1>1. Settled(k, o) \in Calls
    BY DEF Settled, Calls
  <1>2. Retry(k) \in Calls
    BY DEF Retry, Calls
  <1>3. NextModel(k) \in Calls
    <2>1. <<>> \in Seq(Outcomes)
      OBVIOUS
    <2>2. k.tried \in Seq(Seq(Outcomes))
      BY DEF Calls
    <2>3. Append(k.tried, <<>>) \in Seq(Seq(Outcomes)) \ {<<>>}
      BY <2>1, <2>2
    <2> QED BY <2>3 DEF NextModel, Calls
  <1> QED BY <1>1, <1>2, <1>3 DEF AfterFailure

LEMMA CallsStep == CallsTyped /\ [Next]_vars => CallsTyped'
  <1> SUFFICES ASSUME CallsTyped, [Next]_vars PROVE CallsTyped'
    OBVIOUS
  <1> USE DEF CallsTyped
  <1>1. ASSUME NEW c \in Callers, NEW m \in Models, Admit(c, m) PROVE CallsTyped'
    <2>1. Calling(m) \in Calls
      <3>1. << <<>> >> \in Seq(Seq(Outcomes)) \ {<< >>}
        OBVIOUS
      <3> QED BY <3>1 DEF Calling, Calls, Outcomes
    <2> QED BY <1>1, <2>1 DEF Admit
  <1>2. ASSUME NEW c \in Callers, NEW o \in Outcomes, Respond(c, o) PROVE CallsTyped'
    <2> DEFINE k == [call[c] EXCEPT !.tried[Len(call[c].tried)] = Append(@, o)]
    <2>1. call[c] \in Calls
      BY <1>2 DEF Respond, Idle
    <2>2. k \in Calls
      BY <2>1, TriedOnceMore
    <2> HIDE DEF k
    <2>3. Settled(k, o) \in Calls
      BY <2>2 DEF Settled, Calls
    <2>4. AfterFailure(k, o) \in Calls
      BY <2>2, AfterFailureTypes
    <2>5. call' = [call EXCEPT ![c] = IF o = "ok" THEN Settled(k, o) ELSE AfterFailure(k, o)]
      BY <1>2 DEF Respond, k
    <2> QED BY <2>3, <2>4, <2>5
  <1>3. ASSUME NEW c \in Callers, Resume(c) PROVE CallsTyped'
    <2>1. call[c] \in Calls
      BY <1>3 DEF Resume, Idle
    <2>2. [call[c] EXCEPT !.at = "request"] \in Calls
      BY <2>1 DEF Calls
    <2> QED BY <1>3, <2>2 DEF Resume
  <1>4. ASSUME NEW c \in Callers, Cancelled(c) PROVE CallsTyped'
    <2>1. call[c] \in Calls
      BY <1>4 DEF Cancelled, Idle
    <2>2. Settled(call[c], "cancelled") \in Calls
      BY <2>1 DEF Settled, Calls
    <2> QED BY <1>4, <2>2 DEF Cancelled
  <1>5. ASSUME NEW c \in Callers, Settle(c) PROVE CallsTyped'
    BY <1>5 DEF Settle
  <1>6. ASSUME NEW p \in Providers, Cool(p) PROVE CallsTyped'
    BY <1>6 DEF Cool
  <1>7. CASE UNCHANGED vars
    BY <1>7 DEF vars
  <1> QED BY <1>1, <1>2, <1>3, <1>4, <1>5, <1>6, <1>7 DEF Next

-----------------------------------------------------------------------------
(* The breakers *)

BreakerInv ==
    /\ state \in [Providers -> {"closed", "open", "halfOpen"}]
    /\ failures \in [Providers -> 0..Threshold]
    /\ CountMatchesState

LEMMA BreakerStep == BreakerInv /\ CallsTyped /\ [Next]_vars => BreakerInv'
  <1> SUFFICES ASSUME BreakerInv, CallsTyped, [Next]_vars PROVE BreakerInv'
    OBVIOUS
  <1> USE RouterAssumption DEF BreakerInv, CountMatchesState
  <1>1. ASSUME NEW c \in Callers, NEW m \in Models, Admit(c, m) PROVE BreakerInv'
    BY <1>1 DEF Admit
  <1>2. ASSUME NEW c \in Callers, Settle(c) PROVE BreakerInv'
    <2> DEFINE p == ProviderOf[call[c].model]
    <2>1. p \in Providers
      BY <1>2 DEF Settle, Idle, CallsTyped, Calls
    <2> HIDE DEF p
    <2>2. CASE RecordSuccess(p)
      BY <2>1, <2>2 DEF RecordSuccess
    <2>3. CASE RecordFailure(p)
      <3> DEFINE n == IF failures[p] = Threshold THEN Threshold ELSE failures[p] + 1
      <3>1. n \in 0..Threshold /\ failures' = [failures EXCEPT ![p] = n]
        BY <2>1, <2>3 DEF RecordFailure
      <3>2. CASE n = Threshold
        <4>1. state' = [state EXCEPT ![p] = "open"]
          BY <2>3, <3>2 DEF RecordFailure
        <4> HIDE DEF n
        <4> QED BY <2>1, <3>1, <3>2, <4>1
      <3>3. CASE n # Threshold
        <4>1. state' = state
          BY <2>3, <3>3 DEF RecordFailure
        <4>2. failures[p] < Threshold
          BY <2>1, <3>3
        <4> HIDE DEF n
        <4> QED BY <2>1, <3>1, <3>3, <4>1, <4>2
      <3> QED BY <3>2, <3>3
    <2>4. CASE UNCHANGED breakerVars
      BY <2>4 DEF breakerVars
    <2>5. call[c].result \in Outcomes \cup {"cancelled"}
      BY <1>2 DEF Settle, Idle, CallsTyped, Calls
    <2> QED BY <1>2, <2>2, <2>3, <2>4, <2>5 DEF Settle, Outcomes, p
  <1>3. ASSUME UNCHANGED breakerVars PROVE BreakerInv'
    BY <1>3 DEF breakerVars
  <1>4. ASSUME NEW q \in Providers, Cool(q) PROVE BreakerInv'
    BY <1>4 DEF Cool
  <1> QED
    BY <1>1, <1>2, <1>3, <1>4 DEF Next, Respond, Resume, Cancelled, vars, breakerVars

\* A circuit is closed exactly while fewer than Threshold failures are
\* counted, in whatever order overlapping calls report.
THEOREM BreakersCoherent == Spec => []CountMatchesState
  <1>1. Init => BreakerInv /\ CallsTyped
    BY RouterAssumption DEF Init, BreakerInv, CallsTyped, CountMatchesState
  <1>2. BreakerInv /\ CallsTyped /\ [Next]_vars => (BreakerInv /\ CallsTyped)'
    BY BreakerStep, CallsStep
  <1>3. BreakerInv => CountMatchesState
    BY DEF BreakerInv
  <1> QED BY <1>1, <1>2, <1>3, PTL DEF Spec

-----------------------------------------------------------------------------
(* Attempts *)

\* A model was given all its attempts, or refused with a 4xx.
Spent(w) == Len(w) = MaxRetries \/ Last(w) = "permanent"

\* The attempts a call has made so far, by where it is.  ExhaustionEarned says
\* this of exhausted chains only; how each chain gets there is the rest.
Attempts(k) ==
    /\ Len(k.tried) <= Len(ChainFrom[k.model]) + 1
    /\ \A i \in 1..Len(k.tried) : Len(k.tried[i]) <= MaxRetries
    /\ Len(k.tried) = 1 =>
          /\ k.at # "backoff"
          /\ k.at = "request" => k.tried[1] = <<>>
    /\ Len(k.tried) > 1 =>
          /\ k.tried[1] = <<"transient">>
          /\ \A i \in 2..(Len(k.tried) - 1) : Spent(k.tried[i])
          /\ k.at # "settle" => Len(k.tried[Len(k.tried)]) < MaxRetries
          /\ k.at = "settle" /\ k.result \in {"transient", "permanent"} =>
                /\ Len(k.tried) = Len(ChainFrom[k.model]) + 1
                /\ Spent(k.tried[Len(k.tried)])

AttemptsInv == CallsTyped /\ \A c \in Callers : call[c] # Idle => Attempts(call[c])

\* The answer to a request: the call is settled, backs off or goes on with the
\* next model, its attempts in order.
LEMMA AnswerAttempts ==
    ASSUME NEW k \in Calls, k.at = "request", Attempts(k), NEW o \in Outcomes,
           NEW r, r = [k EXCEPT !.tried[Len(k.tried)] = Append(@, o)]
    PROVE  Attempts(IF o = "ok" THEN Settled(r, o) ELSE AfterFailure(r, o))
  <1> DEFINE s == k.tried
             n == Len(s)
             t == r.tried
             last == Len(ChainFrom[k.model]) + 1
  <1>1. /\ s \in Seq(Seq(Outcomes)) /\ n \in Nat \ {0}
        /\ k.model \in Models /\ last \in Nat
    BY RouterAssumption DEF Calls
  <1>2. /\ r \in Calls /\ r.at = "request" /\ r.model = k.model
        /\ t = [s EXCEPT ![n] = Append(@, o)]
    <2>1. r \in Calls
      BY TriedOnceMore
    <2> QED BY <2>1 DEF Calls
  <1>3. /\ t \in Seq(Seq(Outcomes)) /\ Len(t) = n
        /\ \A i \in 1..(n - 1) : t[i] = s[i]
        /\ t[n] = Append(s[n], o)
    BY <1>1, <1>2 DEF Calls
  <1>4. s[n] \in Seq(Outcomes) /\ \A i \in 1..n : s[i] \in Seq(Outcomes) /\ t[i] \in Seq(Outcomes)
    BY <1>1, <1>3
  <1>5. Len(t[n]) = Len(s[n]) + 1 /\ Last(t[n]) = o
    BY <1>3, <1>4 DEF Last
  <1>6. MaxRetries \in Nat \ {0}
    BY RouterAssumption
  <1>7. /\ n <= last
        /\ \A i \in 1..n : Len(t[i]) <= MaxRetries
        /\ n = 1 => t[1] = <<o>>
        /\ n > 1 => t[1] = <<"transient">> /\ \A i \in 2..(n - 1) : Spent(t[i])
    <2>1. n <= last /\ (n = 1 => s[1] = <<>>)
      BY DEF Attempts
    <2>2. Len(s[n]) + 1 <= MaxRetries
      <3>1. CASE n = 1
        <4>1. Len(s[n]) = 0
          BY <2>1, <3>1
        <4> QED BY <1>6, <4>1
      <3>2. CASE n > 1
        <4>1. Len(s[n]) < MaxRetries
          BY <3>2 DEF Attempts
        <4>2. Len(s[n]) \in Nat
          BY <1>4
        <4> QED BY <1>6, <4>1, <4>2
      <3> HIDE DEF n, s
      <3>3. n = 1 \/ n > 1
        BY <1>1
      <3> QED BY <3>1, <3>2, <3>3
    <2>3. \A i \in 1..n : Len(t[i]) <= MaxRetries
      BY <1>1, <1>3, <1>5, <2>2 DEF Attempts
    <2>4. n = 1 => t[1] = <<o>>
      <3> SUFFICES ASSUME n = 1 PROVE t[1] = <<o>>
        OBVIOUS
      <3>1. t[1] = Append(s[1], o) /\ s[1] = <<>>
        BY <1>3, <2>1
      <3> QED BY <3>1
    <2>5. n > 1 => t[1] = <<"transient">> /\ \A i \in 2..(n - 1) : Spent(t[i])
      <3> SUFFICES ASSUME n > 1 PROVE t[1] = <<"transient">> /\ \A i \in 2..(n - 1) : Spent(t[i])
        OBVIOUS
      <3>1. s[1] = <<"transient">> /\ \A i \in 2..(n - 1) : Spent(s[i])
        BY <1>1 DEF Attempts
      <3>2. \A i \in 2..(n - 1) : t[i] = s[i]
        BY <1>1, <1>3
      <3>3. t[1] = s[1]
        BY <1>1, <1>3
      <3> QED BY <3>1, <3>2, <3>3
    <2> QED BY <2>1, <2>3, <2>4, <2>5
  <1> HIDE DEF s, n, t, last
  <1>8. ASSUME n = 1 \/ o = "ok" \/ (n = last /\ Spent(t[n]))
        PROVE  Attempts(Settled(r, o))
    <2> DEFINE q == Settled(r, o)
    <2>1. /\ q.at = "settle" /\ q.result = o /\ q.model = k.model /\ q.tried = t
      BY <1>2 DEF Settled, Calls, t
    <2> HIDE DEF q
    <2>2. n > 1 /\ o \in {"transient", "permanent"} => n = last /\ Spent(t[n])
      BY <1>8
    <2>3. n # 0 /\ Len(q.tried) = n /\ last = Len(ChainFrom[q.model]) + 1
      BY <1>1, <1>3, <2>1 DEF last
    <2>4. Attempts(q)
      BY <1>1, <1>7, <2>1, <2>2, <2>3 DEF Attempts
    <2> QED BY <2>4 DEF q
  <1>9. ASSUME n > 1, Len(t[n]) < MaxRetries
        PROVE  Attempts(Retry(r))
    <2> DEFINE q == Retry(r)
    <2>1. q.at = "backoff" /\ q.model = k.model /\ q.tried = t
      BY <1>2 DEF Retry, Calls, t
    <2> HIDE DEF q
    <2>2. Len(q.tried) = n /\ last = Len(ChainFrom[q.model]) + 1 /\ n # 1
      BY <1>1, <1>3, <1>9, <2>1 DEF last
    <2>3. Attempts(q)
      BY <1>1, <1>7, <1>9, <2>1, <2>2 DEF Attempts
    <2> QED BY <2>3 DEF q
  <1>10. ASSUME n < last, n = 1 => o = "transient", n > 1 => Spent(t[n])
         PROVE  Attempts(NextModel(r))
    <2> DEFINE q == NextModel(r)
               u == Append(t, <<>>)
    <2>1. q.at = "request" /\ q.model = k.model /\ q.tried = u
      BY <1>2 DEF NextModel, Calls, t
    <2>2. /\ Len(u) = n + 1
          /\ \A i \in 1..n : u[i] = t[i]
          /\ u[n + 1] = <<>>
      BY <1>1, <1>3
    <2>3. u[1] = <<"transient">>
      BY <1>1, <1>7, <1>10, <2>2
    <2>4. \A i \in 2..n : Spent(u[i])
      <3> SUFFICES ASSUME NEW i \in 2..n PROVE Spent(u[i])
        OBVIOUS
      <3>1. u[i] = t[i] /\ n > 1
        BY <1>1, <2>2
      <3>2. i = n \/ i \in 2..(n - 1)
        BY <1>1
      <3> HIDE DEF u
      <3>3. Spent(t[i])
        BY <1>7, <1>10, <3>1, <3>2
      <3> QED BY <3>1, <3>3
    <2>5. \A i \in 1..(n + 1) : Len(u[i]) <= MaxRetries
      <3>1. Len(u[n + 1]) = 0
        BY <2>2
      <3> QED BY <1>1, <1>6, <1>7, <2>2, <3>1
    <2>6. Len(u[n + 1]) < MaxRetries
      BY <1>6, <2>2
    <2> HIDE DEF q, u
    <2>7. n + 1 <= last /\ n + 1 > 1 /\ n + 1 # 1 /\ (n + 1) - 1 = n
      BY <1>1, <1>10
    <2>8. Len(q.tried) = n + 1 /\ last = Len(ChainFrom[q.model]) + 1
      BY <2>1, <2>2 DEF last
    <2>9. Attempts(q)
      BY <1>1, <2>1, <2>3, <2>4, <2>5, <2>6, <2>7, <2>8 DEF Attempts
    <2> QED BY <2>9 DEF q
  <1>11. /\ OnFallback(r) <=> n > 1
         /\ MoreModels(r) <=> n < last
         /\ Now(r) = t[n]
    BY <1>1, <1>2, <1>3 DEF OnFallback, MoreModels, Now, Last, t, last
  <1>12. CASE o = "ok"
    BY <1>8, <1>12
  <1>13. CASE o # "ok"
    <2>1. CASE n = 1 /\ o = "permanent"
      <3>1. AfterFailure(r, o) = Settled(r, o)
        BY <1>11, <2>1 DEF AfterFailure
      <3> QED BY <1>8, <1>13, <2>1, <3>1
    <2>2. CASE n > 1 /\ o = "transient" /\ Len(t[n]) < MaxRetries
      <3>1. AfterFailure(r, o) = Retry(r)
        BY <1>11, <2>2 DEF AfterFailure
      <3> QED BY <1>9, <1>13, <2>2, <3>1
    <2>3. CASE ~(n = 1 /\ o = "permanent") /\ ~(n > 1 /\ o = "transient" /\ Len(t[n]) < MaxRetries)
      <3>1. AfterFailure(r, o) = IF MoreModels(r) THEN NextModel(r) ELSE Settled(r, o)
        BY <1>1, <1>11, <2>3 DEF AfterFailure
      <3>2. n = 1 => o = "transient"
        BY <1>13, <2>3 DEF Outcomes
      <3>3. n > 1 => Spent(t[n])
        <4> SUFFICES ASSUME n > 1 PROVE Spent(t[n])
          OBVIOUS
        <4>1. CASE o = "permanent"
          BY <1>5, <4>1 DEF Spent, t, n, s
        <4>2. CASE o = "transient"
          <5>1. Len(t[n]) >= MaxRetries /\ Len(t[n]) <= MaxRetries
            BY <1>1, <1>3, <1>4, <1>6, <1>7, <2>3, <4>2
          <5>2. Len(t[n]) \in Nat
            BY <1>1, <1>4
          <5> QED BY <1>6, <5>1, <5>2 DEF Spent
        <4> QED BY <1>13, <4>1, <4>2 DEF Outcomes
      <3>4. CASE MoreModels(r)
        BY <1>10, <1>11, <1>13, <3>1, <3>2, <3>3, <3>4
      <3>5. CASE ~MoreModels(r)
        <4>1. n = last
          BY <1>1, <1>7, <1>11, <3>5
        <4>2. n = 1 \/ n > 1
          BY <1>1
        <4> QED BY <1>8, <1>13, <3>1, <3>3, <3>5, <4>1, <4>2
      <3> QED BY <3>4, <3>5
    <2> QED BY <2>1, <2>2, <2>3
  <1> QED BY <1>12, <1>13

LEMMA AttemptsStep == AttemptsInv /\ [Next]_vars => AttemptsInv'
  <1> SUFFICES ASSUME AttemptsInv, [Next]_vars PROVE AttemptsInv'
    OBVIOUS
  <1> USE DEF AttemptsInv
  <1>1. CallsTyped'
    BY CallsStep
  <1>2. ASSUME NEW c \in Callers, NEW k,
               call' = [call EXCEPT ![c] = k], k # Idle => Attempts(k)
        PROVE  AttemptsInv'
    BY <1>1, <1>2 DEF CallsTyped
  <1>3. ASSUME NEW c \in Callers, NEW m \in Models, Admit(c, m) PROVE AttemptsInv'
    <2> DEFINE k == Calling(m)
    <2>1. k.at = "request" /\ k.model = m /\ k.tried = << <<>> >>
      BY DEF Calling
    <2>2. call' = [call EXCEPT ![c] = k]
      BY <1>3 DEF Admit
    <2> HIDE DEF k
    <2>3. Len(k.tried) = 1 /\ k.tried[1] = <<>>
      BY <2>1
    <2>4. Attempts(k)
      BY <2>1, <2>3, RouterAssumption DEF Attempts
    <2> QED BY <1>2, <2>2, <2>4
  <1>4. ASSUME NEW c \in Callers, NEW o \in Outcomes, Respond(c, o) PROVE AttemptsInv'
    <2> DEFINE r == [call[c] EXCEPT !.tried[Len(call[c].tried)] = Append(@, o)]
               k == IF o = "ok" THEN Settled(r, o) ELSE AfterFailure(r, o)
    <2>1. call[c] \in Calls /\ call[c].at = "request" /\ call[c] # Idle
      BY <1>4 DEF Respond, Idle, CallsTyped
    <2>2. Attempts(call[c])
      BY <2>1
    <2>3. Attempts(k)
      BY <2>1, <2>2, AnswerAttempts
    <2>4. call' = [call EXCEPT ![c] = k]
      BY <1>4 DEF Respond
    <2> HIDE DEF k
    <2> QED BY <1>2, <2>3, <2>4
  <1>5. ASSUME NEW c \in Callers, call[c].at = "backoff",
               NEW k \in Calls, k.at = "request" \/ (k.at = "settle" /\ k.result = "cancelled"),
               k.tried = call[c].tried, k.model = call[c].model,
               call' = [call EXCEPT ![c] = k]
        PROVE  AttemptsInv'
    <2>1. call[c] # Idle /\ call[c] \in Calls
      BY <1>5 DEF Idle, CallsTyped
    <2>2. Attempts(call[c])
      BY <2>1
    <2>3. Len(call[c].tried) # 1
      BY <1>5, <2>2 DEF Attempts
    <2>4. Attempts(k)
      BY <1>5, <2>2, <2>3 DEF Attempts
    <2> QED BY <1>2, <1>5, <2>4
  <1>6. ASSUME NEW c \in Callers, Resume(c) PROVE AttemptsInv'
    <2>1. call[c] \in Calls
      BY <1>6 DEF Resume, Idle, CallsTyped
    <2> DEFINE k == [call[c] EXCEPT !.at = "request"]
    <2>2. k \in Calls /\ k.at = "request" /\ k.tried = call[c].tried /\ k.model = call[c].model
      BY <2>1 DEF Calls
    <2>3. call' = [call EXCEPT ![c] = k] /\ call[c].at = "backoff"
      BY <1>6 DEF Resume
    <2> HIDE DEF k
    <2> QED BY <1>5, <2>2, <2>3
  <1>7. ASSUME NEW c \in Callers, Cancelled(c) PROVE AttemptsInv'
    <2>1. call[c] \in Calls
      BY <1>7 DEF Cancelled, Idle, CallsTyped
    <2> DEFINE k == Settled(call[c], "cancelled")
    <2>2. /\ k \in Calls /\ k.at = "settle" /\ k.result = "cancelled"
          /\ k.tried = call[c].tried /\ k.model = call[c].model
      BY <2>1 DEF Settled, Calls
    <2>3. call' = [call EXCEPT ![c] = k] /\ call[c].at = "backoff"
      BY <1>7 DEF Cancelled
    <2> HIDE DEF k
    <2> QED BY <1>5, <2>2, <2>3
  <1>8. ASSUME NEW c \in Callers, Settle(c) PROVE AttemptsInv'
    BY <1>2, <1>8 DEF Settle
  <1>9. ASSUME call' = call PROVE AttemptsInv'
    BY <1>1, <1>9
  <1> QED
    BY <1>3, <1>4, <1>6, <1>7, <1>8, <1>9 DEF Next, Cool, vars

\* The report that a fallback chain is exhausted is made only when every model
\* of it was given all its attempts or refused with a 4xx, for every chain and
\* number of attempts (fallback.go:19-74).
THEOREM ExhaustionIsEarned == Spec => []ExhaustionEarned
  <1>1. Init => AttemptsInv
    BY DEF Init, AttemptsInv, CallsTyped
  <1>2. AttemptsInv => ExhaustionEarned
    <2> SUFFICES ASSUME AttemptsInv, NEW c \in Callers,
                        call[c].at = "settle", OnFallback(call[c]),
                        call[c].result \in {"transient", "permanent"}
                 PROVE  /\ Len(call[c].tried) = Len(ChainFrom[call[c].model]) + 1
                        /\ call[c].tried[1] = <<"transient">>
                        /\ \A i \in 2..Len(call[c].tried) :
                              Len(call[c].tried[i]) = MaxRetries \/ Last(call[c].tried[i]) = "permanent"
      BY DEF ExhaustionEarned
    <2>1. call[c] # Idle /\ Attempts(call[c])
      BY DEF Idle, AttemptsInv
    <2>2. Len(call[c].tried) > 1 /\ Len(call[c].tried) \in Nat
      BY <2>1 DEF OnFallback, AttemptsInv, CallsTyped, Calls
    <2>3. \A i \in 2..Len(call[c].tried) : Spent(call[c].tried[i])
      BY <2>1, <2>2 DEF Attempts
    <2> QED BY <2>1, <2>2, <2>3 DEF Attempts, Spent
  <1> QED BY <1>1, <1>2, AttemptsStep, PTL DEF Spec

-----------------------------------------------------------------------------
(* Type correctness *)

\* The type invariant holds; what is known of the attempts bounds them.
THEOREM TypesCorrect == Spec => []TypeOK
  <1> DEFINE CooledTyped == cooled \in [Providers -> BOOLEAN]
  <1>1. Init => CooledTyped /\ AttemptsInv /\ BreakerInv
    BY RouterAssumption DEF Init, AttemptsInv, BreakerInv, CallsTyped, CountMatchesState
  <1>2. CooledTyped /\ CallsTyped /\ [Next]_vars => CooledTyped'
    <2> SUFFICES ASSUME CooledTyped, CallsTyped, [Next]_vars PROVE CooledTyped'
      OBVIOUS
    <2>1. ASSUME NEW p \in Providers, Cool(p) PROVE CooledTyped'
      BY <2>1 DEF Cool
    <2>2. ASSUME NEW c \in Callers, Settle(c) PROVE CooledTyped'
      <3> DEFINE p == ProviderOf[call[c].model]
      <3>1. RecordSuccess(p) \/ RecordFailure(p) => CooledTyped'
        BY DEF RecordSuccess, RecordFailure
      <3>2. UNCHANGED breakerVars => CooledTyped'
        BY DEF breakerVars
      <3>3. call[c].result \in Outcomes \cup {"cancelled"} => RecordSuccess(p) \/ RecordFailure(p) \/ UNCHANGED breakerVars
        BY <2>2 DEF Settle, Outcomes
      <3>4. call[c].result \in Outcomes \cup {"cancelled"}
        BY <2>2 DEF Settle, Idle, CallsTyped, Calls
      <3> QED BY <3>1, <3>2, <3>3, <3>4
    <2>3. ASSUME cooled' = cooled PROVE CooledTyped'
      BY <2>3
    <2> QED BY <2>1, <2>2, <2>3 DEF Next, Admit, Respond, Resume, Cancelled, vars, breakerVars
  <1>3. AttemptsInv => CallsTyped
    BY DEF AttemptsInv
  <1>4. CooledTyped /\ AttemptsInv /\ BreakerInv => TypeOK
    <2> SUFFICES ASSUME AttemptsInv, BreakerInv, NEW c \in Callers, call[c] # Idle
                 PROVE  /\ call[c].at \in {"request", "backoff", "settle"}
                        /\ call[c].result \in Outcomes \cup {"cancelled"}
                        /\ call[c].model \in Models
                        /\ Len(call[c].tried) \in 1..(Len(ChainFrom[call[c].model]) + 1)
                        /\ \A i \in 1..Len(call[c].tried) :
                              /\ call[c].tried[i] \in Seq(Outcomes)
                              /\ Len(call[c].tried[i]) <= MaxRetries
      BY DEF BreakerInv, TypeOK
    <2>1. call[c] \in Calls /\ Attempts(call[c])
      BY DEF AttemptsInv, CallsTyped
    <2>2. call[c].tried \in Seq(Seq(Outcomes)) /\ call[c].tried # <<>> /\ call[c].model \in Models
      BY <2>1 DEF Calls
    <2>3. Len(call[c].tried) \in Nat \ {0} /\ Len(ChainFrom[call[c].model]) \in Nat
      BY <2>2, RouterAssumption
    <2>4. Len(call[c].tried) \in 1..(Len(ChainFrom[call[c].model]) + 1)
      BY <2>1, <2>3 DEF Attempts
    <2>5. \A i \in 1..Len(call[c].tried) : call[c].tried[i] \in Seq(Outcomes)
      BY <2>2
    <2>6. \A i \in 1..Len(call[c].tried) : Len(call[c].tried[i]) <= MaxRetries
      BY <2>1 DEF Attempts
    <2>7. call[c].at \in {"request", "backoff", "settle"} /\ call[c].result \in Outcomes \cup {"cancelled"}
      BY <2>1 DEF Calls
    <2> QED BY <2>2, <2>4, <2>5, <2>6, <2>7
  <1> QED BY <1>1, <1>2, <1>3, <1>4, AttemptsStep, BreakerStep, PTL DEF Spec

-----------------------------------------------------------------------------
(* The hub *)

\* A connection that is not registered yet is unknown to the hub.
Unregistered ==
    \A c \in Clients :
        read[c] \in {"none", "registering"} => c \notin clients /\ closes[c] = 0

HubInv == HubTypeOK /\ ClosedOnce /\ ClientsCapped /\ Unregistered

LEMMA HubInitInv == HubInit => HubInv
<1> SUFFICES ASSUME HubInit PROVE HubInv
  OBVIOUS
<1> USE HubAssumption DEF HubInit
<1>1. HubTypeOK
  <2>1. /\ stop \in BOOLEAN /\ ctxDone \in BOOLEAN /\ returned \in BOOLEAN
    OBVIOUS
  <2>2. broadcast \in 0 .. BroadcastCap /\ events \in 0 .. MaxEvents
    OBVIOUS
  <2>3. queued \in [Clients -> 0 .. SendCap] /\ closes \in [Clients -> Nat]
    OBVIOUS
  <2>4. QED
    BY <2>1, <2>2, <2>3 DEF HubTypeOK
<1>2. ClosedOnce /\ Unregistered
  BY DEF ClosedOnce, Unregistered
<1>3. ClientsCapped
  BY FS_EmptySet DEF ClientsCapped
<1>4. QED
  BY <1>1, <1>2, <1>3 DEF HubInv

\* Taking clients out of the map keeps it within the limit.
LEMMA FewerClients ==
  ASSUME HubTypeOK, Cardinality(clients) <= MaxClients, NEW S, S \subseteq clients
  PROVE  Cardinality(S) <= MaxClients
<1>1. IsFiniteSet(clients)
  BY HubAssumption, FS_Subset DEF HubTypeOK
<1>2. /\ Cardinality(S) \in Nat /\ Cardinality(clients) \in Nat
      /\ Cardinality(S) <= Cardinality(clients)
  BY <1>1, FS_Subset, FS_CardinalityType
<1>3. QED
  BY <1>2, HubAssumption

\* A client beyond the limit is turned away, any other is counted.
LEMMA RegisterInv ==
  ASSUME HubInv, NEW c \in Clients, Register(c)
  PROVE  HubInv'
<1> USE HubAssumption DEF HubInv, Register, CloseSend, server
<1>1. HubTypeOK'
  BY DEF HubTypeOK
<1>2. ClosedOnce'
  BY DEF HubTypeOK, ClosedOnce, Unregistered
<1>3. Unregistered'
  BY DEF HubTypeOK, Unregistered
<1>4. ClientsCapped'
  <2>1. CASE clients' = clients
    BY <2>1 DEF ClientsCapped
  <2>2. CASE clients' = clients \cup {c} /\ Cardinality(clients) < MaxClients
    <3>1. IsFiniteSet(clients)
      BY FS_Subset DEF HubTypeOK
    <3>2. c \notin clients
      BY DEF Unregistered
    <3>3. Cardinality(clients') = Cardinality(clients) + 1
      BY <2>2, <3>1, <3>2, FS_AddElement
    <3>4. Cardinality(clients) \in Nat
      BY <3>1, FS_CardinalityType
    <3>5. QED
      BY <2>2, <3>3, <3>4 DEF ClientsCapped
  <2>3. QED
    BY <2>1, <2>2
<1>5. QED
  BY <1>1, <1>2, <1>3, <1>4

\* A broadcast evicts exactly the clients whose channel it closes.
LEMMA BroadcastInv ==
  ASSUME HubInv, Broadcast
  PROVE  HubInv'
<1> USE HubAssumption DEF HubInv, Broadcast, CloseSend, pumps, server
<1>1. HubTypeOK'
  BY DEF HubTypeOK
<1>2. ClosedOnce' /\ Unregistered'
  BY DEF HubTypeOK, ClosedOnce, Unregistered
<1>3. ClientsCapped'
  BY FewerClients DEF ClientsCapped
<1>4. QED
  BY <1>1, <1>2, <1>3

\* The stopped hub has closed every channel it knew.
LEMMA StopInv ==
  ASSUME HubInv, StopHub
  PROVE  HubInv'
<1> USE HubAssumption DEF HubInv, StopHub, CloseSend, pumps, server
<1>1. HubTypeOK'
  BY DEF HubTypeOK
<1>2. ClosedOnce' /\ Unregistered'
  BY DEF HubTypeOK, ClosedOnce, Unregistered
<1>3. ClientsCapped'
  BY FS_EmptySet DEF ClientsCapped
<1>4. QED
  BY <1>1, <1>2, <1>3

\* The cleanup tells the hub of a client it knows, or of one it has let go.
LEMMA UnregisterInv ==
  ASSUME HubInv, NEW c \in Clients, NEW side \in Sides, Unregister(c, side)
  PROVE  HubInv'
<1> USE HubAssumption DEF HubInv, Unregister, LetGo, CloseSend, Pump, SetPump, server
<1>1. HubTypeOK'
  BY DEF HubTypeOK
<1>2. ClosedOnce' /\ Unregistered'
  BY DEF HubTypeOK, ClosedOnce, Unregistered
<1>3. ClientsCapped'
  <2>1. clients' \subseteq clients /\ hub' = hub
    OBVIOUS
  <2>2. QED
    BY <2>1, FewerClients DEF ClientsCapped
<1>4. QED
  BY <1>1, <1>2, <1>3

\* The other steps of a connection leave the map and the channels open.
LEMMA PumpInv ==
  ASSUME HubInv, NEW c \in Clients,
         \/ Connect(c) \/ ReadFails(c) \/ Refuse(c) \/ TakeMessage(c) \/ Written(c)
         \/ RangeEnds(c) \/ ReadFailsClosed(c)
         \/ \E side \in Sides : EnterOnce(c, side)
  PROVE  HubInv'
<1> USE HubAssumption DEF HubInv, server
<1>1. clients' = clients /\ closes' = closes /\ hub' = hub
  BY DEF Connect, ReadFails, Refuse, TakeMessage, Written, RangeEnds, ReadFailsClosed, EnterOnce
<1>2. HubTypeOK'
  BY DEF HubTypeOK, Connect, ReadFails, Refuse, TakeMessage, Written, RangeEnds,
         ReadFailsClosed, EnterOnce, Pump, SetPump
<1>3. ClosedOnce' /\ Unregistered'
  BY <1>1 DEF HubTypeOK, ClosedOnce, Unregistered, Connect, ReadFails, Refuse, TakeMessage,
         Written, RangeEnds, ReadFailsClosed, EnterOnce, Pump, SetPump
<1>4. ClientsCapped'
  BY <1>1 DEF ClientsCapped
<1>5. QED
  BY <1>2, <1>3, <1>4

\* The forwarder and the shutdown touch neither.
LEMMA ServerInv ==
  ASSUME HubInv,
         ReceiveEvent \/ ForwarderStep \/ Cancel \/ CloseStop \/ ShutdownReturns
  PROVE  HubInv'
<1> USE HubAssumption DEF HubInv, pumps, server, ReceiveEvent, ForwarderStep, Forward,
        StopForwarding, Cancel, CloseStop, ShutdownReturns
<1>1. HubTypeOK'
  <2>1. broadcast' \in 0 .. BroadcastCap /\ events' \in 0 .. MaxEvents
    BY SMT DEF HubTypeOK
  <2>2. stop' \in BOOLEAN /\ ctxDone' \in BOOLEAN /\ returned' \in BOOLEAN
    BY DEF HubTypeOK
  <2>3. QED
    BY <2>1, <2>2 DEF HubTypeOK
<1>2. ClosedOnce' /\ Unregistered' /\ ClientsCapped'
  BY DEF ClosedOnce, Unregistered, ClientsCapped
<1>3. QED
  BY <1>1, <1>2

\* Every step keeps the invariant.
LEMMA HubNextInv == HubInv /\ [HubNext]_hubVars => HubInv'
<1> SUFFICES ASSUME HubInv, [HubNext]_hubVars PROVE HubInv'
  OBVIOUS
<1>1. CASE HubNext
  BY <1>1, RegisterInv, BroadcastInv, StopInv, UnregisterInv, PumpInv, ServerInv
     DEF HubNext, HubStep, PumpStep
<1>2. CASE UNCHANGED hubVars
  BY <1>2 DEF hubVars, pumps, server, HubInv, HubTypeOK, ClosedOnce, ClientsCapped, Unregistered
<1>3. QED
  BY <1>1, <1>2

\* The invariant holds always.
LEMMA HubInvariant == HubSpec => []HubInv
  BY HubInitInv, HubNextInv, PTL DEF HubSpec

\* Every variable always has a value of its kind, and no channel holds more
\* than its capacity.
THEOREM HubTypeCorrect == HubSpec => []HubTypeOK
<1>1. HubInv => HubTypeOK
  BY DEF HubInv
<1>2. QED
  BY <1>1, HubInvariant, PTL

\* No client's channel is closed twice or closed while the hub may send on it.
THEOREM NeverClosedTwice == HubSpec => []ClosedOnce
<1>1. HubInv => ClosedOnce
  BY DEF HubInv
<1>2. QED
  BY <1>1, HubInvariant, PTL

\* The hub never holds more clients than MaxClients.
THEOREM NeverTooMany == HubSpec => []ClientsCapped
<1>1. HubInv => ClientsCapped
  BY DEF HubInv
<1>2. QED
  BY <1>1, HubInvariant, PTL

-----------------------------------------------------------------------------
(* The token gate *)

\* Only with Redis does a logout get past its first step.
RevokedNeedsRedis ==
    \A l \in Logouts : logout[l] \in {"blacklist", "invalidate", "loggedOut"} => Enabled

\* The blacklist's key outlives every logout that has written it.
RevokedIsBlack ==
    \A l \in Logouts : logout[l] \in {"invalidate", "loggedOut"} => black \/ expired

\* A request marked as late did begin after a completed logout.
AfterIsEarned ==
    \A r \in Requests : after[r] => \E l \in Logouts : logout[l] = "loggedOut"

\* A late request with the access token is past the blacklist only when it has
\* not been told.
PastBlacklist ==
    \A r \in Requests :
        after[r] /\ req[r] \in {"cache", "validate", "store", "set", "served"} =>
            expired \/ blind[r] \/ token[r] # "access"

\* Only the access token is ever stored or served.
ServedIsAccess ==
    \A r \in Requests : req[r] \in {"store", "set", "served"} => token[r] = "access"

GateInv ==
    /\ GateTypeOK /\ RevokedNeedsRedis /\ RevokedIsBlack /\ AfterIsEarned
    /\ PastBlacklist /\ ServedIsAccess

LEMMA GateInitInv == GateInit => GateInv
<1> SUFFICES ASSUME GateInit PROVE GateInv
  OBVIOUS
<1> USE GateAssumption DEF GateInit
<1>1. GateTypeOK
  <2>1. /\ black \in BOOLEAN /\ valid \in BOOLEAN /\ expired \in BOOLEAN
        /\ after \in [Requests -> BOOLEAN] /\ blind \in [Requests -> BOOLEAN]
    OBVIOUS
  <2>2. token \in [Requests -> Tokens]
    BY DEF Tokens
  <2>3. faults \in 0 .. MaxFaults
    BY SMT
  <2>4. QED
    BY <2>1, <2>2, <2>3 DEF GateTypeOK
<1>2. RevokedNeedsRedis /\ RevokedIsBlack
  BY DEF RevokedNeedsRedis, RevokedIsBlack
<1>3. AfterIsEarned /\ PastBlacklist /\ ServedIsAccess
  BY DEF AfterIsEarned, PastBlacklist, ServedIsAccess
<1>4. QED
  BY <1>1, <1>2, <1>3 DEF GateInv

\* One step of a request.
LEMMA RequestInv ==
  ASSUME GateInv, NEW r \in Requests, RequestStep(r)
  PROVE  GateInv'
<1> USE GateAssumption DEF GateInv, GateTypeOK, RevokedNeedsRedis, RevokedIsBlack, AfterIsEarned,
        PastBlacklist, ServedIsAccess, Go, keys
<1>1. CASE Arrive(r)
  <2> USE <1>1 DEF Arrive
  <2>1. GateTypeOK'
    OBVIOUS
  <2>2. AfterIsEarned'
    OBVIOUS
  <2>3. PastBlacklist'
    <3>1. after'[r] => Enabled
      OBVIOUS
    <3>2. QED
      BY <3>1
  <2>4. QED
    BY <2>1, <2>2, <2>3
<1>2. CASE Malformed(r)
  BY <1>2 DEF Malformed
<1>3. CASE IsBlacklisted(r)
  <2> USE <1>3 DEF IsBlacklisted, Fault
  <2>1. GateTypeOK'
    <3>1. /\ black' \in BOOLEAN /\ valid' \in BOOLEAN /\ expired' \in BOOLEAN
          /\ token' \in [Requests -> Tokens] /\ after' \in [Requests -> BOOLEAN]
      OBVIOUS
    <3>2. blind' \in [Requests -> BOOLEAN]
      OBVIOUS
    <3>3. faults' \in 0 .. MaxFaults
      BY SMT
    <3>4. req' \in [Requests -> {"none", "blacklist", "cache", "validate", "store", "set",
                                 "served", "refused"}]
      OBVIOUS
    <3>5. QED
      BY <3>1, <3>2, <3>3, <3>4
  <2>2. PastBlacklist'
    <3>1. after[r] => black \/ expired
      OBVIOUS
    <3>2. QED
      BY <3>1
  <2>3. QED
    BY <2>1, <2>2
<1>4. CASE GetCachedToken(r)
  BY <1>4 DEF GetCachedToken, Fault
<1>5. CASE ValidateToken(r)
  BY <1>5 DEF ValidateToken, Validates, SecretOf, TypeOf, Tokens
<1>6. CASE CacheToken(r)
  BY <1>6 DEF CacheToken
<1>7. CASE SetValid(r)
  <2> USE <1>7 DEF SetValid, Fault
  <2>1. GateTypeOK'
    <3>1. black' \in BOOLEAN /\ valid' \in BOOLEAN /\ expired' \in BOOLEAN
      <4>1. black' = black /\ expired' = expired /\ (valid' = TRUE \/ valid' = valid)
        OBVIOUS
      <4>2. black \in BOOLEAN /\ valid \in BOOLEAN /\ expired \in BOOLEAN
        OBVIOUS
      <4>3. QED
        BY <4>1, <4>2
    <3>2. faults' \in 0 .. MaxFaults
      BY SMT
    <3>3. /\ token' \in [Requests -> Tokens] /\ after' \in [Requests -> BOOLEAN]
          /\ blind' \in [Requests -> BOOLEAN]
      OBVIOUS
    <3>4. QED
      BY <3>1, <3>2, <3>3
  <2>2. (RevokedNeedsRedis /\ RevokedIsBlack /\ AfterIsEarned)'
    OBVIOUS
  <2>3. (PastBlacklist /\ ServedIsAccess)'
    OBVIOUS
  <2>4. QED
    BY <2>1, <2>2, <2>3
<1>8. QED
  BY <1>1, <1>2, <1>3, <1>4, <1>5, <1>6, <1>7 DEF RequestStep

\* One step of a logout.
LEMMA LogoutInv ==
  ASSUME GateInv, NEW l \in Logouts, LogoutStep(l)
  PROVE  GateInv'
<1> USE GateAssumption DEF GateInv, GateTypeOK, RevokedNeedsRedis, RevokedIsBlack, AfterIsEarned,
        PastBlacklist, ServedIsAccess, Out, keys
<1>1. CASE Logout(l)
  BY <1>1 DEF Logout
<1>2. CASE BlacklistToken(l)
  BY <1>2 DEF BlacklistToken, Fault
<1>3. CASE InvalidateToken(l)
  <2> USE <1>3 DEF InvalidateToken, Fault
  <2>1. GateTypeOK'
    <3>1. black' \in BOOLEAN /\ valid' \in BOOLEAN /\ expired' \in BOOLEAN
      OBVIOUS
    <3>2. faults' \in 0 .. MaxFaults
      BY SMT
    <3>3. /\ token' \in [Requests -> Tokens] /\ after' \in [Requests -> BOOLEAN]
          /\ blind' \in [Requests -> BOOLEAN]
      OBVIOUS
    <3>4. QED
      BY <3>1, <3>2, <3>3
  <2>2. (RevokedNeedsRedis /\ RevokedIsBlack /\ AfterIsEarned)'
    OBVIOUS
  <2>3. (PastBlacklist /\ ServedIsAccess)'
    OBVIOUS
  <2>4. QED
    BY <2>1, <2>2, <2>3
<1>4. QED
  BY <1>1, <1>2, <1>3 DEF LogoutStep

\* Every step keeps the invariant.
LEMMA GateNextInv == GateInv /\ [GateNext]_gateVars => GateInv'
<1> SUFFICES ASSUME GateInv, [GateNext]_gateVars PROVE GateInv'
  OBVIOUS
<1> USE DEF GateInv, GateTypeOK, RevokedNeedsRedis, RevokedIsBlack, AfterIsEarned,
        PastBlacklist, ServedIsAccess, keys
<1>1. CASE \E r \in Requests : RequestStep(r)
  BY <1>1, RequestInv DEF GateInv
<1>2. CASE \E l \in Logouts : LogoutStep(l)
  BY <1>2, LogoutInv DEF GateInv
<1>3. CASE RefreshToken
  BY <1>3 DEF RefreshToken
<1>4. CASE TokenExpires
  BY <1>4 DEF TokenExpires
<1>5. CASE KeyExpires
  BY <1>5 DEF KeyExpires
<1>6. CASE UNCHANGED gateVars
  BY <1>6 DEF gateVars
<1>7. QED
  BY <1>1, <1>2, <1>3, <1>4, <1>5, <1>6 DEF GateNext

\* The invariant holds always.
LEMMA GateInvariant == GateSpec => []GateInv
  BY GateInitInv, GateNextInv, PTL DEF GateSpec

\* Every variable always has a value of its kind.
THEOREM GateTypeCorrect == GateSpec => []GateTypeOK
<1>1. GateInv => GateTypeOK
  BY DEF GateInv
<1>2. QED
  BY <1>1, GateInvariant, PTL

\* A request that begins after a completed logout is not served before the
\* token expires, unless its own question to the blacklist failed.
THEOREM RevokedTokenRefused == GateSpec => []RevokedRefused
<1>1. GateInv => RevokedRefused
  BY DEF GateInv, PastBlacklist, ServedIsAccess, RevokedRefused
<1>2. QED
  BY <1>1, GateInvariant, PTL
=============================================================================
