---------------------------- MODULE HumanReplies ----------------------------
(***************************************************************************)
(* How a question reaches a human and the answer comes back:               *)
(* internal/agent/reply_store.go with its two kinds of askers, the agents' *)
(* phaseClarify (which registers message 0 BEFORE it asks and moves the    *)
(* entry to the real message ID afterwards) and the escalation chain       *)
(* (which registers AFTER it asked), with the answers that come in by      *)
(* Telegram reply or by /answer, and a restart with                        *)
(* RecoverSuspendedTasks.                                                  *)
(*                                                                         *)
(* Asks are numbered.  Ask n makes channel n and, once sent, message n; so *)
(* a reply to message n is meant for channel n.  Where Telegram is not     *)
(* configured no message is sent, an agent fails its task before it asks,  *)
(* and a chain is told that its message is 0 and registers that.  A step   *)
(* is one critical section of ReplyStore.mu, one Telegram event or one     *)
(* channel operation: Resolve and UnregisterByMsgID act on the channel     *)
(* after the unlock.                                                       *)
(***************************************************************************)
EXTENDS Integers, Sequences, FiniteSets, SequencesExt

CONSTANTS Agents,   \* goroutines in phaseClarify
          Chains,   \* goroutines in escalation.Chain.Resolve
          Tasks,
          TaskOf,   \* the task a goroutine works on
          MaxAsks,     \* bound: questions asked
          MaxRestarts  \* bound: restarts of the process

Askers == Agents \cup Chains
Asks == 1..MaxAsks
None == 0       \* also the placeholder message ID of phaseClarify

ASSUME RepliesAssumption ==
    /\ Agents \cap Chains = {}
    /\ None \notin Tasks
    /\ TaskOf \in [Askers -> Tasks]
    /\ MaxAsks \in Nat

VARIABLES
    asked,      \* number of asks so far
    askTask,    \* askTask[n]: the task ask n is about
    asker,      \* asker[a]: where a is, and the ask it is at
    sent,       \* messages the human can see
    replied,    \* messages the human has replied to
    byMsgID,    \* message ID -> [ch, task], on the pending ones
    byTask,     \* task -> its message IDs, oldest first
    sending,    \* answers taken out of the store, not yet in their channel
    closing,    \* channels taken out of the store, not yet closed
    buf,        \* buf[n]: the answer in channel n (capacity 1)
    closed,
    suspended,  \* askers of a former life, to be recovered before work starts
    restarts,
    telegram    \* whether the two Telegram channels are configured

storeVars == <<byMsgID, byTask>>
chanVars  == <<sending, closing, buf, closed>>
humanVars == <<sent, replied>>
lifeVars  == <<suspended, restarts, telegram>>
vars == <<asked, askTask, asker, storeVars, chanVars, humanVars, lifeVars>>

NoAnswer == [task |-> None, msg |-> None]
Rest == [at |-> "idle", n |-> None]

Init ==
    /\ asked = 0
    /\ askTask = <<>>
    /\ asker = [a \in Askers |-> Rest]
    /\ sent = {} /\ replied = {}
    /\ byMsgID = <<>>
    /\ byTask = [t \in Tasks |-> <<>>]
    /\ sending = {} /\ closing = {} /\ closed = {}
    /\ buf = [n \in Asks |-> NoAnswer]
    /\ suspended = {}
    /\ restarts = 0
    /\ telegram \in BOOLEAN

-----------------------------------------------------------------------------
(* The critical sections of the store *)

Pending == DOMAIN byMsgID
Without(m) == [k \in Pending \ {m} |-> byMsgID[k]]
With(fn, m, e) == [k \in DOMAIN fn \cup {m} |-> IF k = m THEN e ELSE fn[k]]

ReplaceFirst(s, old, new) ==
    IF Contains(s, old) THEN [s EXCEPT ![SelectInSeq(s, LAMBDA m : m = old)] = new] ELSE s

Register(m, t, n) ==
    /\ byMsgID' = With(byMsgID, m, [ch |-> n, task |-> t])
    /\ byTask' = [byTask EXCEPT ![t] = Append(@, m)]

\* What Resolve, UnregisterByMsgID and Unregister do to the index.
Drop(t, m) == byTask' = [byTask EXCEPT ![t] = RemoveFirst(@, m)]

Unregister(m, t) == byMsgID' = Without(m) /\ Drop(t, m)

Entry(m) == IF m \in Pending THEN byMsgID[m] ELSE [ch |-> None, task |-> None]

\* Reregister(0, m, t, _): whichever entry is under 0 becomes m's.
Reregister(m, t) ==
    IF None \notin Pending THEN UNCHANGED storeVars
    ELSE /\ byMsgID' = With(Without(None), m, [ch |-> Entry(None).ch, task |-> t])
         /\ byTask' = [byTask EXCEPT ![t] = ReplaceFirst(@, None, m)]

-----------------------------------------------------------------------------
(* Askers *)

Ask(a) == asker[a].n
At(a, here) == asker[a].at = here /\ suspended = {}
Goto(a, there) ==
    asker' = [asker EXCEPT ![a] = IF there = "idle" THEN Rest ELSE [@ EXCEPT !.at = there]]

\* The message ID AskHuman and NotifyResumeAfterRestart return for ask n.
MsgOf(n) == IF telegram THEN n ELSE None

\* A new ask about task t.
NewAsk(t) ==
    /\ asked < MaxAsks
    /\ asked' = asked + 1
    /\ askTask' = Append(askTask, t)

Begin(a) ==
    /\ At(a, "idle")
    /\ NewAsk(TaskOf[a])
    /\ asker' = [asker EXCEPT ![a] = [at |-> "asking", n |-> asked + 1]]
    /\ UNCHANGED <<chanVars, humanVars, lifeVars>>

\* phaseClarify gives up without Telegram; else it registers the placeholder, then
\* asks.  The chain just asks.
BeginAgent(a) == telegram /\ Begin(a) /\ Register(None, TaskOf[a], asked + 1)
BeginChain(a) == Begin(a) /\ UNCHANGED storeVars

\* Telegram delivers the message before the asker hears of it.
Deliver(a) ==
    /\ telegram
    /\ At(a, "asking")
    /\ Ask(a) \notin sent
    /\ sent' = sent \cup {Ask(a)}
    /\ UNCHANGED <<asked, askTask, asker, storeVars, chanVars, replied, lifeVars>>

\* The call returns the message ID ...
AskedAgent(a) ==
    /\ At(a, "asking") /\ Ask(a) \in sent
    /\ Reregister(Ask(a), TaskOf[a])
    /\ Goto(a, "waiting")
    /\ UNCHANGED <<asked, askTask, chanVars, humanVars, lifeVars>>

\* (faulty: the chain registers the placeholder, as phaseClarify does)
AskedChainPlaceholder(a) ==
    /\ At(a, "asking") /\ Ask(a) \in sent
    /\ Register(None, TaskOf[a], Ask(a))
    /\ Goto(a, "waiting")
    /\ UNCHANGED <<asked, askTask, chanVars, humanVars, lifeVars>>

AskedChain(a) ==
    /\ At(a, "asking") /\ (telegram => Ask(a) \in sent)
    /\ Register(MsgOf(Ask(a)), TaskOf[a], Ask(a))
    /\ Goto(a, "waiting")
    /\ UNCHANGED <<asked, askTask, chanVars, humanVars, lifeVars>>

\* ... or an error, whether or not the message was delivered.
AskFailed(a) ==
    /\ telegram
    /\ At(a, "asking")
    /\ IF a \in Agents THEN Unregister(None, TaskOf[a]) ELSE UNCHANGED storeVars
    /\ Goto(a, "idle")
    /\ UNCHANGED <<asked, askTask, chanVars, humanVars, lifeVars>>

Receive(a) ==
    /\ At(a, "waiting")
    /\ buf[Ask(a)] # NoAnswer
    /\ buf' = [buf EXCEPT ![Ask(a)] = NoAnswer]
    /\ Goto(a, "idle")
    /\ UNCHANGED <<asked, askTask, storeVars, sending, closing, closed, humanVars, lifeVars>>

\* "question expired": the channel was closed.
ReceiveClosed(a) ==
    /\ At(a, "waiting")
    /\ buf[Ask(a)] = NoAnswer /\ Ask(a) \in closed
    /\ IF a \in Agents THEN Unregister(Ask(a), TaskOf[a]) ELSE UNCHANGED storeVars
    /\ Goto(a, "idle")
    /\ UNCHANGED <<asked, askTask, chanVars, humanVars, lifeVars>>

\* The wait, or the task's own deadline, runs out.
ExpireAgent(a) ==
    /\ At(a, "waiting")
    /\ Unregister(Ask(a), TaskOf[a])
    /\ Goto(a, "idle")
    /\ UNCHANGED <<asked, askTask, chanVars, humanVars, lifeVars>>

\* UnregisterByMsgID closes the channel of the entry it removed, if any.
ExpireChain(a) ==
    LET m == MsgOf(Ask(a)) IN
    /\ At(a, "waiting")
    /\ IF m \in Pending
       THEN /\ byMsgID' = Without(m)
            /\ Drop(byMsgID[m].task, m)
            /\ closing' = closing \cup {byMsgID[m].ch}
       ELSE UNCHANGED <<storeVars, closing>>
    /\ Goto(a, "idle")
    /\ UNCHANGED <<asked, askTask, sending, buf, closed, humanVars, lifeVars>>

Close(n) ==
    /\ n \in closing
    /\ closing' = closing \ {n}
    /\ closed' = closed \cup {n}
    /\ UNCHANGED <<asked, askTask, asker, storeVars, sending, buf, humanVars, lifeVars>>

-----------------------------------------------------------------------------
(* The human *)

\* Questions a human can answer with /answer: without Telegram, any that was asked.
Visible == IF telegram THEN sent ELSE 1..asked

\* A human answers a question once.
Reply(m) == m \in Visible \ replied /\ replied' = replied \cup {m}

\* (faulty: the entry is read, and left in the store)
ResolveKeeps(m) ==
    /\ m \in sent /\ Reply(m)
    /\ IF m \in Pending
       THEN sending' = sending \cup {[ch |-> byMsgID[m].ch, ans |-> [task |-> askTask[m], msg |-> m]]}
       ELSE UNCHANGED sending
    /\ UNCHANGED <<asked, askTask, asker, storeVars, closing, buf, closed, sent, lifeVars>>

\* By a Telegram reply: Resolve.
Resolve(m) ==
    /\ m \in sent /\ Reply(m)
    /\ IF m \in Pending
       THEN /\ byMsgID' = Without(m)
            /\ Drop(byMsgID[m].task, m)
            /\ sending' = sending \cup {[ch |-> byMsgID[m].ch, ans |-> [task |-> askTask[m], msg |-> m]]}
       ELSE UNCHANGED <<storeVars, sending>>
    /\ UNCHANGED <<asked, askTask, asker, closing, buf, closed, sent, lifeVars>>

\* By /answer: ResolveByTask takes the task's oldest message ID.  Nothing may
\* be registered under it: the send is then on a nil channel, and is dropped.
ResolveByTask(m) ==
    LET t == askTask[m]  k == Head(byTask[t]) IN
    /\ Reply(m)
    /\ IF byTask[t] = <<>> THEN UNCHANGED <<storeVars, sending>>
       ELSE /\ byTask' = [byTask EXCEPT ![t] = Tail(@)]
            /\ byMsgID' = Without(k)
            /\ sending' = IF k \in Pending
                          THEN sending \cup {[ch |-> byMsgID[k].ch, ans |-> [task |-> t, msg |-> None]]}
                          ELSE sending
    /\ UNCHANGED <<asked, askTask, asker, closing, buf, closed, sent, lifeVars>>

\* The non-blocking send of both, after the unlock.
Send(s) ==
    /\ s \in sending
    /\ sending' = sending \ {s}
    /\ buf' = IF buf[s.ch] = NoAnswer THEN [buf EXCEPT ![s.ch] = s.ans] ELSE buf
    /\ UNCHANGED <<asked, askTask, asker, storeVars, closing, closed, humanVars, lifeVars>>

-----------------------------------------------------------------------------
(* Restart *)

\* The store and the goroutines are lost; the tasks in the clarify phase are in
\* the database: those that wait, and others that were about to ask.
Restart ==
    /\ restarts < MaxRestarts
    /\ restarts' = restarts + 1
    /\ \E clarifying \in SUBSET Agents :
          suspended' = suspended \cup clarifying \cup {a \in Agents : asker[a] # Rest}
    /\ asker' = [a \in Askers |-> Rest]
    /\ byMsgID' = <<>>
    /\ byTask' = [t \in Tasks |-> <<>>]
    /\ sending' = {} /\ closing' = {}
    /\ buf' = [n \in Asks |-> NoAnswer]
    /\ UNCHANGED <<asked, askTask, closed, humanVars, telegram>>

\* RecoverSuspendedTasks: the question is sent again and registered, with a
\* channel nobody reads; the task is queued, to ask once more.
Recover(a) ==
    /\ a \in suspended
    /\ suspended' = suspended \ {a}
    /\ \/ /\ byTask[TaskOf[a]] = <<>>     \* ~HasPending
          /\ NewAsk(TaskOf[a])
          /\ sent' = IF telegram THEN sent \cup {asked + 1} ELSE sent
          /\ Register(MsgOf(asked + 1), TaskOf[a], asked + 1)
       \/ UNCHANGED <<asked, askTask, sent, storeVars>>  \* not re-sent, or refused
    /\ UNCHANGED <<asker, chanVars, replied, restarts, telegram>>

-----------------------------------------------------------------------------
Next ==
    \/ \E a \in Agents : BeginAgent(a) \/ AskedAgent(a) \/ ExpireAgent(a) \/ Recover(a)
    \/ \E a \in Chains : BeginChain(a) \/ AskedChain(a) \/ ExpireChain(a)
    \/ \E a \in Askers : Deliver(a) \/ AskFailed(a) \/ Receive(a) \/ ReceiveClosed(a)
    \/ \E n \in Asks : Close(n) \/ Resolve(n) \/ ResolveByTask(n)
    \/ \E s \in sending : Send(s)
    \/ Restart

Spec == Init /\ [][Next]_vars

-----------------------------------------------------------------------------
(* Properties *)

\* An answer is never sent on a closed channel, which would panic, nor onto
\* another answer: a channel is in one entry of the store at most, and once
\* out of it in one send or one close at most, although Resolve and
\* UnregisterByMsgID touch it after the unlock (reply_store.go:65-71, 122) and
\* several entries may come to be under message 0.
OneHolder ==
    /\ \A m, k \in Pending : byMsgID[m].ch = byMsgID[k].ch => m = k
    /\ \A s, u \in sending : s.ch = u.ch => s = u
    /\ LET stored == {byMsgID[m].ch : m \in Pending}
           onWay  == {s.ch : s \in sending}
           filled == {n \in Asks : buf[n] # NoAnswer}
       IN  /\ stored \cap (onWay \cup filled \cup closing \cup closed) = {}
           /\ onWay \cap (filled \cup closing \cup closed) = {}
           /\ closing \cap closed = {}

\* A chain that waits for the answer to an unanswered question can get it: the
\* message ID it registered leads to its own channel, whatever the agents'
\* placeholders do to the store, or an /answer about its task is already there
\* (chain.go:137).
ChainRoutable ==
    \A a \in Chains :
        LET n == Ask(a)  m == MsgOf(n) IN
        asker[a].at = "waiting" /\ n \notin replied =>
            \/ m \in Pending /\ byMsgID[m] = [ch |-> n, task |-> TaskOf[a]]
            \/ buf[n].task = TaskOf[a]
            \/ \E s \in sending : s.ch = n /\ s.ans.task = TaskOf[a]

\* No entry outlives a chain: UnregisterReply (chain.go:163-165) leaves neither
\* its message nor, under another message, its channel in the store.
ChainLeavesNothing ==
    \A a \in Chains : asker[a].at # "waiting" =>
        \A m \in Pending : askTask[byMsgID[m].ch] # TaskOf[a]

\* Where Telegram is configured the chain's use of the store stays intact beside
\* the agents' and over a restart: its open question can be answered, its ended
\* one leaves nothing.  Elsewhere neither is so: AskHuman returns (0, nil)
\* (reply_adapter.go:29-31), chain.go:137 registers message 0 all the same, and
\* chains and recovered questions replace one another's entry.
ChainServed == telegram => ChainRoutable /\ ChainLeavesNothing

=============================================================================
