------------------------- MODULE HumanRepliesProofs -------------------------
(***************************************************************************)
(* For any number of agents, chains, questions and restarts: an answer's   *)
(* channel has one holder, so that no answer is sent on a closed channel   *)
(* or lost behind another one in it, with Telegram or without.  With       *)
(* Telegram, a chain that has its task to itself is not cut off from its   *)
(* answer by what the agents' placeholders, late answers and /answer do to *)
(* the store they share, and leaves nothing of its own in it.              *)
(***************************************************************************)
EXTENDS HumanReplies, WellFoundedInduction, TLAPS

TypeOK ==
    /\ asked \in Nat /\ asked <= MaxAsks
    /\ asker \in [Askers -> [at : {"idle", "asking", "waiting"}, n : Nat]]
    /\ DOMAIN buf = Asks

\* Channel n is held by nobody.
Unused(n) ==
    /\ \A m \in Pending : byMsgID[m].ch # n
    /\ \A s \in sending : s.ch # n
    /\ buf[n] = NoAnswer /\ n \notin closing /\ n \notin closed

\* Every channel somebody holds was made by an ask.
Made ==
    /\ \A m \in Pending : byMsgID[m].ch \in 1..asked
    /\ \A s \in sending : s.ch \in 1..asked
    /\ \A n \in Asks : buf[n] # NoAnswer => n \in 1..asked
    /\ closing \subseteq 1..asked /\ closed \subseteq 1..asked

\* One holder each: entries, sends, closes.
Entries ==
    /\ \A m, k \in Pending : byMsgID[m].ch = byMsgID[k].ch => m = k
    /\ \A m \in Pending : LET n == byMsgID[m].ch IN
         (\A s \in sending : s.ch # n) /\ buf[n] = NoAnswer /\ n \notin closing /\ n \notin closed
Sends ==
    /\ \A s, u \in sending : s.ch = u.ch => s = u
    /\ \A s \in sending : buf[s.ch] = NoAnswer /\ s.ch \notin closing /\ s.ch \notin closed
Closes == closing \cap closed = {}

\* A chain that has asked has its channel to itself until it registers it.
ChainsOwn ==
    /\ \A c \in Chains : asker[c].at = "asking" => asker[c].n \in 1..asked /\ Unused(asker[c].n)
    /\ \A c, d \in Chains :
          asker[c].at = "asking" /\ asker[d].at = "asking" /\ asker[c].n = asker[d].n => c = d

IInv == TypeOK /\ Made /\ Entries /\ Sends /\ Closes /\ ChainsOwn

LEMMA InitInv == Init => IInv
<1> SUFFICES ASSUME Init PROVE IInv
  OBVIOUS
<1>1. Pending = {} /\ sending = {} /\ closing = {} /\ closed = {}
  BY DEF Init, Pending
<1>2. \A n \in Asks : buf[n] = NoAnswer
  BY DEF Init
<1>3. TypeOK
  BY RepliesAssumption DEF Init, TypeOK, Rest, None
<1>4. Made /\ Entries /\ Sends /\ Closes
  BY <1>1, <1>2 DEF Made, Entries, Sends, Closes
<1>5. ChainsOwn
  BY DEF Init, ChainsOwn, Rest, Askers
<1>6. QED
  BY <1>3, <1>4, <1>5 DEF IInv

\* The next ask's channel is nobody's.
LEMMA NextUnused ==
  ASSUME IInv, asked < MaxAsks
  PROVE  asked + 1 \in Asks /\ asked + 1 \notin 1..asked /\ Unused(asked + 1)
  BY RepliesAssumption DEF IInv, TypeOK, Made, Unused, Asks

-----------------------------------------------------------------------------
(* The ways a channel changes hands *)

\* Askers who do not begin to ask keep what ChainsOwn says of them.
Calmer ==
    /\ asker' \in [Askers -> [at : {"idle", "asking", "waiting"}, n : Nat]]
    /\ \A c \in Chains : asker'[c].at = "asking" => asker'[c] = asker[c]

\* An entry gets a channel nobody holds, in place of the one it had.
LEMMA RegisterInv ==
  ASSUME IInv, NEW m, NEW t, NEW n, n \in Asks, Unused(n),
         byMsgID' = With(byMsgID, m, [ch |-> n, task |-> t]),
         UNCHANGED chanVars, asked' \in Nat, asked <= asked', asked' <= MaxAsks, n <= asked',
         asker' \in [Askers -> [at : {"idle", "asking", "waiting"}, n : Nat]],
         \A c \in Chains : asker'[c].at = "asking" => asker'[c] = asker[c] /\ asker'[c].n # n
  PROVE  IInv'
<1>1. /\ Pending' = Pending \cup {m}
      /\ \A k \in Pending' : byMsgID'[k].ch = IF k = m THEN n ELSE byMsgID[k].ch
  BY DEF Pending, With
<1>2. 1..asked \subseteq 1..asked' /\ n \in 1..asked'
  BY DEF IInv, TypeOK, Asks
<1>3. sending' = sending /\ closing' = closing /\ buf' = buf /\ closed' = closed
  BY DEF chanVars
<1>4. TypeOK'
  BY <1>3 DEF IInv, TypeOK
<1>5. Made' /\ Sends' /\ Closes'
  BY <1>1, <1>2, <1>3 DEF IInv, Made, Sends, Closes
<1>6. Entries'
  BY <1>1, <1>3 DEF IInv, Entries, Unused
<1>7. ChainsOwn'
  BY <1>1, <1>2, <1>3 DEF IInv, ChainsOwn, Unused
<1>8. QED
  BY <1>4, <1>5, <1>6, <1>7 DEF IInv

\* Entries are dropped, or moved to another message ID.
LEMMA DropInv ==
  ASSUME IInv, UNCHANGED <<asked, chanVars>>, Calmer,
         \A m \in Pending' : \E k \in Pending : byMsgID'[m].ch = byMsgID[k].ch,
         \A m, k \in Pending' : byMsgID'[m].ch = byMsgID'[k].ch => m = k
  PROVE  IInv'
<1>1. sending' = sending /\ closing' = closing /\ buf' = buf /\ closed' = closed /\ asked' = asked
  BY DEF chanVars
<1>2. TypeOK'
  BY <1>1 DEF IInv, TypeOK, Calmer
<1>3. Made' /\ Sends' /\ Closes'
  BY <1>1 DEF IInv, Made, Sends, Closes
<1>4. Entries'
  BY <1>1 DEF IInv, Entries
<1>5. ChainsOwn'
  BY <1>1 DEF IInv, ChainsOwn, Unused, Calmer
<1>6. QED
  BY <1>2, <1>3, <1>4, <1>5 DEF IInv

\* The channel of an entry goes to a send ...
LEMMA TakeInv ==
  ASSUME IInv, NEW m \in Pending, NEW answer, byMsgID' = Without(m),
         sending' = sending \cup {[ch |-> byMsgID[m].ch, ans |-> answer]},
         UNCHANGED <<asked, asker, closing, buf, closed>>
  PROVE  IInv'
<1> DEFINE n == byMsgID[m].ch
           new == [ch |-> n, ans |-> answer]
<1>1. Pending' = Pending \ {m} /\ \A k \in Pending' : byMsgID'[k] = byMsgID[k]
  BY DEF Pending, Without
<1>2. /\ \A s \in sending : s.ch # n
      /\ buf[n] = NoAnswer /\ n \notin closing /\ n \notin closed /\ n \in 1..asked
      /\ \A k \in Pending' : byMsgID[k].ch # n
      /\ \A c \in Chains : asker[c].at = "asking" => asker[c].n # n
  BY <1>1 DEF IInv, Entries, Made, ChainsOwn, Unused
<1>3. sending' = sending \cup {new} /\ new.ch = n
  OBVIOUS
<1> HIDE DEF new, n
<1>4. TypeOK' /\ Closes'
  BY DEF IInv, TypeOK, Closes
<1>5. Made'
  BY <1>1, <1>2, <1>3 DEF IInv, Made
<1>6. Entries'
  BY <1>1, <1>2, <1>3 DEF IInv, Entries
<1>7. Sends'
  BY <1>2, <1>3 DEF IInv, Sends
<1>8. ChainsOwn'
  BY <1>1, <1>2, <1>3 DEF IInv, ChainsOwn, Unused
<1>9. QED
  BY <1>4, <1>5, <1>6, <1>7, <1>8 DEF IInv

\* ... or is to be closed.
LEMMA CloseInv ==
  ASSUME IInv, NEW m \in Pending, byMsgID' = Without(m),
         closing' = closing \cup {byMsgID[m].ch}, Calmer,
         UNCHANGED <<asked, sending, buf, closed>>
  PROVE  IInv'
<1> DEFINE n == byMsgID[m].ch
<1>1. Pending' = Pending \ {m} /\ \A k \in Pending' : byMsgID'[k] = byMsgID[k]
  BY DEF Pending, Without
<1>2. /\ \A s \in sending : s.ch # n
      /\ buf[n] = NoAnswer /\ n \notin closing /\ n \notin closed /\ n \in 1..asked
      /\ \A k \in Pending' : byMsgID[k].ch # n
      /\ \A c \in Chains : asker[c].at = "asking" => asker[c].n # n
  BY <1>1 DEF IInv, Entries, Made, ChainsOwn, Unused
<1>3. closing' = closing \cup {n}
  OBVIOUS
<1> HIDE DEF n
<1>4. TypeOK' /\ Closes'
  BY <1>2, <1>3 DEF IInv, TypeOK, Closes, Calmer
<1>5. Made'
  BY <1>1, <1>2, <1>3 DEF IInv, Made
<1>6. Entries'
  BY <1>1, <1>2, <1>3 DEF IInv, Entries
<1>7. Sends'
  BY <1>2, <1>3 DEF IInv, Sends
<1>8. ChainsOwn'
  BY <1>1, <1>2, <1>3 DEF IInv, ChainsOwn, Unused, Calmer
<1>9. QED
  BY <1>4, <1>5, <1>6, <1>7, <1>8 DEF IInv

\* Without an entry, or with it under another ID, the others keep theirs.
LEMMA WithoutDrops ==
  ASSUME IInv, NEW m, byMsgID' = Without(m)
  PROVE  /\ \A k \in Pending' : k \in Pending /\ byMsgID'[k].ch = byMsgID[k].ch
         /\ \A j, k \in Pending' : byMsgID'[j].ch = byMsgID'[k].ch => j = k
<1>1. Pending' = Pending \ {m} /\ \A k \in Pending' : byMsgID'[k] = byMsgID[k]
  BY DEF Pending, Without
<1>2. QED
  BY <1>1 DEF IInv, Entries

LEMMA MoveDrops ==
  ASSUME IInv, NEW m, NEW t, None \in Pending, Reregister(m, t)
  PROVE  /\ \A k \in Pending' : \E j \in Pending : byMsgID'[k].ch = byMsgID[j].ch
         /\ \A j, k \in Pending' : byMsgID'[j].ch = byMsgID'[k].ch => j = k
<1> DEFINE fn == Without(None)
           e == [ch |-> byMsgID[None].ch, task |-> t]
<1>1. byMsgID' = With(fn, m, e)
  BY DEF Reregister, Entry
<1>2. DOMAIN fn = Pending \ {None} /\ \A k \in DOMAIN fn : fn[k] = byMsgID[k]
  BY DEF Without
<1>3. e.ch = byMsgID[None].ch
  OBVIOUS
<1> HIDE DEF fn, e
<1>4. /\ Pending' = (Pending \ {None}) \cup {m}
      /\ \A k \in Pending' : byMsgID'[k].ch = IF k = m THEN byMsgID[None].ch ELSE byMsgID[k].ch
  BY <1>1, <1>2, <1>3 DEF With, Pending
<1>5. QED
  BY <1>4 DEF IInv, Entries

-----------------------------------------------------------------------------
(* The actions *)

LEMMA BeginInv ==
  ASSUME IInv,
         \/ \E a \in Agents : BeginAgent(a)
         \/ \E a \in Chains : BeginChain(a)
  PROVE  IInv'
<1> DEFINE n == asked + 1
<1>1. ASSUME NEW a \in Askers, Begin(a)
      PROVE  /\ n \in Asks /\ n \notin 1..asked /\ Unused(n) /\ n \in Nat
             /\ asked' = n /\ n <= MaxAsks /\ asked <= n
             /\ asker' = [asker EXCEPT ![a] = [at |-> "asking", n |-> n]]
             /\ asker' \in [Askers -> [at : {"idle", "asking", "waiting"}, n : Nat]]
             /\ UNCHANGED chanVars
  <2>1. asked < MaxAsks /\ asked' = n /\ UNCHANGED chanVars
        /\ asker' = [asker EXCEPT ![a] = [at |-> "asking", n |-> n]]
    BY <1>1 DEF Begin, NewAsk
  <2>2. n \in Asks /\ n \notin 1..asked /\ Unused(n)
    BY <2>1, NextUnused
  <2>3. n \in Nat /\ n <= MaxAsks /\ asked <= n
    BY <2>1, RepliesAssumption DEF IInv, TypeOK
  <2> HIDE DEF n
  <2>4. asker' \in [Askers -> [at : {"idle", "asking", "waiting"}, n : Nat]]
    BY <2>1, <2>3 DEF IInv, TypeOK
  <2>5. QED
    BY <2>1, <2>2, <2>3, <2>4
<1>2. ASSUME NEW a \in Agents, BeginAgent(a)
      PROVE  IInv'
  <2>1. a \in Askers /\ Begin(a) /\ byMsgID' = With(byMsgID, None, [ch |-> n, task |-> TaskOf[a]])
    BY <1>2 DEF BeginAgent, Register, Askers
  <2> HIDE DEF n
  <2>2. \A c \in Chains : asker'[c] = asker[c]
    BY <1>1, <2>1, RepliesAssumption DEF IInv, TypeOK, Askers
  <2>3. \A c \in Chains : asker'[c].at = "asking" => asker'[c] = asker[c] /\ asker'[c].n # n
    BY <1>1, <2>1, <2>2 DEF IInv, ChainsOwn
  <2>4. QED
    BY <1>1, <2>1, <2>3, RegisterInv
<1>3. ASSUME NEW a \in Chains, BeginChain(a)
      PROVE  IInv'
  <2>1. a \in Askers /\ Begin(a) /\ byMsgID' = byMsgID
    BY <1>3 DEF BeginChain, storeVars, Askers
  <2>2. 1..asked \subseteq 1..asked' /\ n \in 1..asked'
    BY <1>1, <2>1 DEF IInv, TypeOK
  <2> HIDE DEF n
  <2>3. /\ asked' = n /\ Unused(n) /\ n \notin 1..asked
        /\ UNCHANGED <<sending, closing, buf, closed>>
        /\ asker'[a] = [at |-> "asking", n |-> n]
        /\ \A c \in Chains \ {a} : asker'[c] = asker[c]
    BY <1>1, <2>1 DEF chanVars, IInv, TypeOK, Askers
  <2>4. Pending' = Pending
    BY <2>1 DEF Pending
  <2>5. TypeOK'
    BY <1>1, <2>1, <2>3 DEF IInv, TypeOK
  <2>6. Made' /\ Entries' /\ Sends' /\ Closes'
    BY <2>1, <2>2, <2>3, <2>4 DEF IInv, Made, Entries, Sends, Closes
  <2>7. ChainsOwn'
    BY <2>1, <2>2, <2>3, <2>4 DEF IInv, ChainsOwn, Unused
  <2>8. QED
    BY <2>5, <2>6, <2>7 DEF IInv
<1>4. QED
  BY <1>2, <1>3

\* An asker rests or waits.
LEMMA GotoCalm ==
  ASSUME IInv, NEW a \in Askers, NEW there \in {"idle", "waiting"}, Goto(a, there)
  PROVE  Calmer /\ asker'[a].at # "asking" /\ \A x \in Askers \ {a} : asker'[x] = asker[x]
<1>1. asker' \in [Askers -> [at : {"idle", "asking", "waiting"}, n : Nat]]
  BY DEF Goto, Rest, None, IInv, TypeOK
<1>2. asker'[a].at = there /\ \A x \in Askers \ {a} : asker'[x] = asker[x]
  BY DEF Goto, Rest, IInv, TypeOK
<1>3. QED
  BY <1>1, <1>2 DEF Calmer, Askers

LEMMA AskersInv ==
  ASSUME IInv,
         \/ \E a \in Agents : AskedAgent(a) \/ ExpireAgent(a)
         \/ \E a \in Chains : AskedChain(a) \/ ExpireChain(a)
         \/ \E a \in Askers : AskFailed(a) \/ ReceiveClosed(a)
  PROVE  IInv'
<1>1. ASSUME NEW a \in Askers, NEW there \in {"idle", "waiting"}, Goto(a, there),
             UNCHANGED <<asked, chanVars>>, UNCHANGED storeVars
      PROVE  IInv'
  <2>1. Pending' = Pending /\ byMsgID' = byMsgID
    BY <1>1 DEF storeVars, Pending
  <2>2. QED
    BY <1>1, <2>1, GotoCalm, DropInv DEF IInv, Entries
<1>2. ASSUME NEW a \in Askers, NEW there \in {"idle", "waiting"}, Goto(a, there), NEW m,
             UNCHANGED <<asked, chanVars>>, byMsgID' = Without(m)
      PROVE  IInv'
  BY <1>2, GotoCalm, WithoutDrops, DropInv
<1>3. ASSUME NEW a \in Agents, AskedAgent(a)
      PROVE  IInv'
  <2>1. a \in Askers /\ Goto(a, "waiting") /\ UNCHANGED <<asked, chanVars>>
        /\ Reregister(Ask(a), TaskOf[a])
    BY <1>3 DEF AskedAgent, Askers
  <2>2. CASE None \notin Pending
    BY <1>1, <2>1, <2>2 DEF Reregister
  <2>3. CASE None \in Pending
    BY <2>1, <2>3, GotoCalm, MoveDrops, DropInv
  <2>4. QED
    BY <2>2, <2>3
<1>4. ASSUME NEW a \in Agents, ExpireAgent(a)
      PROVE  IInv'
  BY <1>2, <1>4 DEF ExpireAgent, Unregister, Askers
<1>5. ASSUME NEW a \in Chains, AskedChain(a)
      PROVE  IInv'
  <2>1. /\ a \in Askers /\ Goto(a, "waiting") /\ asked' = asked /\ UNCHANGED chanVars
        /\ byMsgID' = With(byMsgID, MsgOf(asker[a].n), [ch |-> asker[a].n, task |-> TaskOf[a]])
        /\ asker[a].at = "asking"
    BY <1>5 DEF AskedChain, Askers, Register, At, Ask
  <2>2. asker[a].n \in 1..asked /\ Unused(asker[a].n)
    BY <2>1 DEF IInv, ChainsOwn
  <2>3. asker[a].n \in Asks /\ asker[a].n <= asked
    BY <2>2, RepliesAssumption DEF IInv, TypeOK, Asks
  <2>4. \A c \in Chains : asker'[c].at = "asking" =>
                             asker'[c] = asker[c] /\ asker'[c].n # asker[a].n
    BY <2>1, GotoCalm DEF IInv, ChainsOwn, Askers
  <2>5. QED
    BY <2>1, <2>2, <2>3, <2>4, GotoCalm, RegisterInv DEF Calmer, IInv, TypeOK
<1>6. ASSUME NEW a \in Chains, ExpireChain(a)
      PROVE  IInv'
  <2>1. a \in Askers /\ Goto(a, "idle") /\ UNCHANGED <<asked, sending, buf, closed>>
    BY <1>6 DEF ExpireChain, Askers
  <2>2. CASE MsgOf(Ask(a)) \in Pending
    BY <1>6, <2>1, <2>2, GotoCalm, CloseInv DEF ExpireChain
  <2>3. CASE MsgOf(Ask(a)) \notin Pending
    BY <1>1, <1>6, <2>1, <2>3 DEF ExpireChain, chanVars
  <2>4. QED
    BY <2>2, <2>3
<1>7. ASSUME NEW a \in Askers, AskFailed(a)
      PROVE  IInv'
  BY <1>1, <1>2, <1>7 DEF AskFailed, Unregister
<1>8. ASSUME NEW a \in Askers, ReceiveClosed(a)
      PROVE  IInv'
  BY <1>1, <1>2, <1>8 DEF ReceiveClosed, Unregister
<1>9. QED
  BY <1>3, <1>4, <1>5, <1>6, <1>7, <1>8

\* The human, and what is done after the unlock.
LEMMA AnswersInv ==
  ASSUME IInv,
         \/ \E a \in Askers : Deliver(a) \/ Receive(a)
         \/ \E n \in Asks : Close(n) \/ Resolve(n) \/ ResolveByTask(n)
         \/ \E s \in sending : Send(s)
  PROVE  IInv'
<1>1. CASE \E a \in Askers : Deliver(a)
  BY <1>1 DEF Deliver, storeVars, chanVars, IInv, TypeOK, Made, Entries, Sends, Closes, ChainsOwn,
              Unused, Pending
<1>2. ASSUME NEW a \in Askers, Receive(a)
      PROVE  IInv'
  <2>1. /\ buf' = [buf EXCEPT ![asker[a].n] = NoAnswer] /\ Goto(a, "idle")
        /\ UNCHANGED <<asked, byMsgID, sending, closing, closed>>
    BY <1>2 DEF Receive, Ask, storeVars
  <2>2. DOMAIN buf' = Asks /\ \A n \in Asks : buf'[n] = buf[n] \/ buf'[n] = NoAnswer
    BY <2>1 DEF IInv, TypeOK
  <2>3. 1..asked \subseteq Asks /\ Pending' = Pending
    BY <2>1, RepliesAssumption DEF IInv, TypeOK, Asks, Pending
  <2>4. Calmer
    BY <2>1, GotoCalm
  <2>5. TypeOK' /\ Closes'
    BY <2>1, <2>2, <2>4 DEF IInv, TypeOK, Closes, Calmer
  <2>6. Made' /\ Entries' /\ Sends'
    BY <2>1, <2>2, <2>3 DEF IInv, Made, Entries, Sends
  <2>7. ChainsOwn'
    BY <2>1, <2>2, <2>3, <2>4 DEF IInv, ChainsOwn, Unused, Made, Calmer
  <2>8. QED
    BY <2>5, <2>6, <2>7 DEF IInv
<1>3. ASSUME NEW n \in Asks, Close(n)
      PROVE  IInv'
  <2>1. /\ n \in closing /\ closing' = closing \ {n} /\ closed' = closed \cup {n}
        /\ UNCHANGED <<asked, asker, byMsgID, sending, buf>> /\ Pending' = Pending
    BY <1>3 DEF Close, storeVars, Pending
  <2>2. QED
    BY <2>1 DEF IInv, TypeOK, Made, Entries, Sends, Closes, ChainsOwn, Unused
<1>4. ASSUME UNCHANGED <<asked, asker, chanVars>>,
             \/ UNCHANGED storeVars
             \/ \E m : byMsgID' = Without(m)
      PROVE  IInv'
  <2>1. Calmer
    BY <1>4 DEF Calmer, IInv, TypeOK
  <2>2. CASE UNCHANGED storeVars
    BY <1>4, <2>1, <2>2, DropInv DEF storeVars, Pending, IInv, Entries
  <2>3. CASE \E m : byMsgID' = Without(m)
    BY <1>4, <2>1, <2>3, WithoutDrops, DropInv
  <2>4. QED
    BY <1>4, <2>2, <2>3
<1>5. ASSUME NEW n \in Asks, Resolve(n)
      PROVE  IInv'
  <2>1. CASE n \in Pending
    BY <1>5, <2>1, TakeInv DEF Resolve
  <2>2. CASE n \notin Pending
    BY <1>4, <1>5, <2>2 DEF Resolve, chanVars
  <2>3. QED
    BY <2>1, <2>2
<1>6. ASSUME NEW n \in Asks, ResolveByTask(n)
      PROVE  IInv'
  <2> DEFINE t == askTask[n]
             k == Head(byTask[t])
  <2>1. UNCHANGED <<asked, asker, closing, buf, closed>>
    BY <1>6 DEF ResolveByTask
  <2>2. \/ UNCHANGED <<storeVars, sending>>
        \/ /\ byMsgID' = Without(k)
           /\ sending' = IF k \in Pending
                         THEN sending \cup {[ch |-> byMsgID[k].ch, ans |-> [task |-> t, msg |-> None]]}
                         ELSE sending
    BY <1>6 DEF ResolveByTask
  <2> HIDE DEF k, t
  <2>3. CASE UNCHANGED <<storeVars, sending>>
    BY <1>4, <2>1, <2>3 DEF chanVars
  <2>4. CASE byMsgID' = Without(k) /\ k \notin Pending /\ sending' = sending
    BY <1>4, <2>1, <2>4 DEF chanVars
  <2>5. CASE /\ byMsgID' = Without(k) /\ k \in Pending
             /\ sending' = sending \cup {[ch |-> byMsgID[k].ch, ans |-> [task |-> t, msg |-> None]]}
    BY <2>1, <2>5, TakeInv
  <2>6. QED
    BY <2>2, <2>3, <2>4, <2>5
<1>7. ASSUME NEW s \in sending, Send(s)
      PROVE  IInv'
  <2>1. /\ sending' = sending \ {s}
        /\ UNCHANGED <<asked, asker, byMsgID, closing, closed>> /\ Pending' = Pending
    BY <1>7 DEF Send, storeVars, Pending
  <2>2. DOMAIN buf' = Asks /\ \A n \in Asks \ {s.ch} : buf'[n] = buf[n]
    BY <1>7 DEF Send, IInv, TypeOK
  <2>3. 1..asked \subseteq Asks /\ s.ch \in 1..asked
    BY RepliesAssumption DEF IInv, TypeOK, Asks, Made
  <2>4. /\ \A u \in sending' : u.ch # s.ch
        /\ \A m \in Pending : byMsgID[m].ch # s.ch
        /\ \A c \in Chains : asker[c].at = "asking" => asker[c].n # s.ch
    BY <2>1 DEF IInv, Sends, Entries, ChainsOwn, Unused
  <2>5. TypeOK' /\ Closes'
    BY <2>1, <2>2 DEF IInv, TypeOK, Closes
  <2>6. Made'
    BY <2>1, <2>2, <2>3 DEF IInv, Made
  <2>7. Entries' /\ Sends'
    BY <2>1, <2>2, <2>3, <2>4 DEF IInv, Entries, Sends, Made
  <2>8. ChainsOwn'
    BY <2>1, <2>2, <2>3, <2>4 DEF IInv, ChainsOwn, Unused
  <2>9. QED
    BY <2>5, <2>6, <2>7, <2>8 DEF IInv
<1>8. QED
  BY <1>1, <1>2, <1>3, <1>5, <1>6, <1>7

LEMMA LifeInv ==
  ASSUME IInv, Restart \/ \E a \in Agents : Recover(a)
  PROVE  IInv'
<1>1. CASE Restart
  <2>1. /\ Pending' = {} /\ sending' = {} /\ closing' = {} /\ closed' = closed /\ asked' = asked
        /\ asker' = [a \in Askers |-> Rest] /\ buf' = [n \in Asks |-> NoAnswer]
    BY <1>1 DEF Restart, Pending
  <2>2. \A c \in Chains : asker'[c].at # "asking"
    BY <2>1 DEF Rest, Askers
  <2>3. TypeOK'
    BY <2>1 DEF IInv, TypeOK, Rest, None
  <2>4. Made' /\ Entries' /\ Sends' /\ Closes'
    BY <2>1 DEF IInv, Made, Entries, Sends, Closes
  <2>5. ChainsOwn'
    BY <2>2 DEF ChainsOwn
  <2>6. QED
    BY <2>3, <2>4, <2>5 DEF IInv
<1>2. ASSUME NEW a \in Agents, Recover(a)
      PROVE  IInv'
  <2>1. asker' = asker /\ UNCHANGED chanVars
    BY <1>2 DEF Recover
  <2>2. CASE UNCHANGED <<asked, storeVars>>
    BY <2>1, <2>2 DEF storeVars, chanVars, IInv, TypeOK, Made, Entries, Sends, Closes, ChainsOwn,
                      Unused, Pending
  <2>3. CASE ~UNCHANGED <<asked, storeVars>>
    <3> DEFINE n == asked + 1
    <3>1. /\ asked < MaxAsks /\ asked' = n
          /\ byMsgID' = With(byMsgID, MsgOf(n), [ch |-> n, task |-> TaskOf[a]])
      BY <1>2, <2>3 DEF Recover, NewAsk, Register
    <3>2. n \in Asks /\ n \notin 1..asked /\ Unused(n)
      BY <3>1, NextUnused
    <3>3. n \in Nat /\ n <= MaxAsks /\ asked <= n
      BY <3>1, RepliesAssumption DEF IInv, TypeOK
    <3> HIDE DEF n
    <3>4. \A c \in Chains : asker'[c].at = "asking" => asker'[c] = asker[c] /\ asker'[c].n # n
      BY <2>1, <3>2 DEF IInv, ChainsOwn
    <3>5. asker' \in [Askers -> [at : {"idle", "asking", "waiting"}, n : Nat]]
      BY <2>1 DEF IInv, TypeOK
    <3>6. QED
      BY <2>1, <3>1, <3>2, <3>3, <3>4, <3>5, RegisterInv
  <2>4. QED
    BY <2>2, <2>3
<1>3. QED
  BY <1>1, <1>2

LEMMA NextInv == IInv /\ [Next]_vars => IInv'
<1> SUFFICES ASSUME IInv, [Next]_vars PROVE IInv'
  OBVIOUS
<1>1. CASE Next
  BY <1>1, BeginInv, AskersInv, AnswersInv, LifeInv DEF Next
<1>2. CASE UNCHANGED vars
  BY <1>2 DEF vars, storeVars, chanVars, IInv, TypeOK, Made, Entries, Sends, Closes, ChainsOwn,
              Unused, Pending
<1>3. QED
  BY <1>1, <1>2

LEMMA Invariant == Spec => []IInv
<1>1. QED
  BY InitInv, NextInv, PTL DEF Spec

-----------------------------------------------------------------------------
\* An answer is never sent on a closed channel, nor onto another answer, though
\* Resolve and UnregisterByMsgID touch the channel after the unlock.
THEOREM ChannelsHeldOnce == Spec => []OneHolder
<1>1. IInv => OneHolder
  BY DEF IInv, Made, Entries, Sends, Closes, OneHolder
<1>2. QED
  BY <1>1, Invariant, PTL
-----------------------------------------------------------------------------
(* The chain's use of the store.  It shares the store with goroutines that  *)
(* register placeholders, but not its task.                                 *)

\* Nobody else asks about a chain's task.
OwnTasks == \A c \in Chains, a \in Askers : TaskOf[a] = TaskOf[c] => a = c

\* The message IDs that may be registered for a task.
About(t) == {None} \cup {n \in 1..asked : askTask[n] = t}

Numbered ==
    /\ askTask \in Seq(Tasks) /\ Len(askTask) = asked
    /\ sent \subseteq 1..asked
    /\ \A a \in Askers : asker[a].at # "idle" => asker[a].n \in About(TaskOf[a]) \ {None}

Indexed ==
    /\ DOMAIN byTask = Tasks
    /\ \A t \in Tasks : byTask[t] \in Seq(About(t))
    /\ \A m \in Pending : byMsgID[m].task \in Tasks /\ m \in About(byMsgID[m].task)

\* What the store holds about a chain's task, or of its channels, is the entry
\* of the question the chain waits for.
EntryOf(c) ==
    /\ \A m \in Pending :
         TaskOf[c] \in {byMsgID[m].task, askTask[byMsgID[m].ch]} =>
            /\ asker[c].at = "waiting" /\ m = Ask(c)
            /\ byMsgID[m] = [ch |-> m, task |-> TaskOf[c]]
    /\ byTask[TaskOf[c]] = IF asker[c].at = "waiting" /\ Ask(c) \in Pending
                           THEN <<Ask(c)>> ELSE <<>>

RoutableOf(c) ==
    asker[c].at = "waiting" /\ Ask(c) \notin replied =>
        \/ Ask(c) \in Pending /\ byMsgID[Ask(c)] = [ch |-> Ask(c), task |-> TaskOf[c]]
        \/ buf[Ask(c)].task = TaskOf[c]
        \/ \E s \in sending : s.ch = Ask(c) /\ s.ans.task = TaskOf[c]

Served(c) == EntryOf(c) /\ RoutableOf(c)

CInv == telegram /\ IInv /\ Numbered /\ Indexed /\ \A c \in Chains : Served(c)

-----------------------------------------------------------------------------
(* The first occurrence in a sequence *)

\* A set of naturals has a least element.
LEMMA Least == ASSUME NEW I \in SUBSET Nat, I # {} PROVE Min(I) \in I
<1> DEFINE R == OpToRel(<, Nat)
<1>1. \A x, y \in Nat : <<y, x>> \in R <=> y < x
  BY DEF OpToRel
<1>2. IsWellFoundedOn(R, Nat)
  BY NatLessThanWellFounded
<1> HIDE DEF R
<1>3. PICK x \in I : \A y \in I : <<y, x>> \notin R
  BY <1>2, WFMin, Zenon
<1>4. \A y \in I : x \in Nat /\ y \in Nat /\ ~(y < x)
  BY <1>1, <1>3, Zenon
<1>5. \A y \in I : x <= y
  BY <1>4
<1>6. QED
  BY <1>5 DEF Min

\* The position of the first e in s.
LEMMA FirstAt ==
  ASSUME NEW S, NEW s \in Seq(S), NEW e, NEW i \in 1..Len(s), s[i] = e
  PROVE  Min({j \in 1..Len(s) : s[j] = e}) \in 1..Len(s)
<1> DEFINE I == {j \in 1..Len(s) : s[j] = e}
<1>1. I \in SUBSET Nat /\ I # {} /\ I \subseteq 1..Len(s)
  OBVIOUS
<1> HIDE DEF I
<1>2. Min(I) \in 1..Len(s)
  BY <1>1, Least
<1>3. QED
  BY <1>2 DEF I

\* Without the first e, and with another in its place, a sequence is over the same
\* set.
LEMMA Removed ==
  ASSUME NEW S, NEW s \in Seq(S), NEW e
  PROVE  /\ RemoveFirst(s, e) \in Seq(S)
         /\ s = <<e>> => RemoveFirst(s, e) = <<>>
         /\ s = <<>> => RemoveFirst(s, e) = <<>>
<1>1. CASE \E i \in 1..Len(s) : s[i] = e
  <2> DEFINE k == Min({j \in 1..Len(s) : s[j] = e})
  <2>1. k \in 1..Len(s)
    BY <1>1, FirstAt
  <2>2. RemoveFirst(s, e) = SubSeq(s, 1, k - 1) \o SubSeq(s, k + 1, Len(s))
    BY <1>1 DEF RemoveFirst, RemoveAt, SelectInSeq
  <2> HIDE DEF k
  <2>3. SubSeq(s, 1, k - 1) \in Seq(S) /\ SubSeq(s, k + 1, Len(s)) \in Seq(S)
    BY <2>1
  <2>4. s = <<e>> => k = 1 /\ SubSeq(s, 1, k - 1) = <<>> /\ SubSeq(s, k + 1, Len(s)) = <<>>
    BY <2>1
  <2>5. RemoveFirst(s, e) \in Seq(S)
    BY <2>2, <2>3
  <2>6. s = <<e>> => RemoveFirst(s, e) = <<>>
    BY <2>2, <2>4
  <2>7. s # <<>>
    BY <1>1
  <2>8. QED
    BY <2>5, <2>6, <2>7
<1>2. CASE ~\E i \in 1..Len(s) : s[i] = e
  BY <1>2 DEF RemoveFirst
<1>3. QED
  BY <1>1, <1>2

LEMMA Replaced ==
  ASSUME NEW S, NEW s \in Seq(S), NEW old, NEW new \in S
  PROVE  ReplaceFirst(s, old, new) \in Seq(S)
<1>1. CASE Contains(s, old)
  <2> DEFINE k == Min({j \in 1..Len(s) : s[j] = old})
  <2>1. k \in 1..Len(s)
    BY <1>1, FirstAt DEF Contains
  <2>2. ReplaceFirst(s, old, new) = [s EXCEPT ![k] = new]
    BY <1>1 DEF ReplaceFirst, Contains, SelectInSeq
  <2> HIDE DEF k
  <2>3. QED
    BY <2>1, <2>2
<1>2. QED
  BY <1>1 DEF ReplaceFirst
-----------------------------------------------------------------------------
(* The index *)

LEMMA NumberedNext == IInv /\ Numbered /\ [Next]_vars => Numbered'
<1> SUFFICES ASSUME IInv, Numbered, [Next]_vars PROVE Numbered'
  OBVIOUS
<1>1. TaskOf \in [Askers -> Tasks] /\ asker \in [Askers -> [at : {"idle", "asking", "waiting"}, n : Nat]]
      /\ asked \in Nat
  BY RepliesAssumption DEF IInv, TypeOK
<1>2. ASSUME NEW a \in Askers, NewAsk(TaskOf[a])
      PROVE  /\ askTask' \in Seq(Tasks) /\ Len(askTask') = asked' /\ asked' = asked + 1
             /\ \A t : About(t) \subseteq About(t)'
             /\ asked + 1 \in About(TaskOf[a])'
  <2>1. askTask' = Append(askTask, TaskOf[a]) /\ asked' = asked + 1 /\ TaskOf[a] \in Tasks
    BY <1>1, <1>2 DEF NewAsk
  <2>2. askTask' \in Seq(Tasks) /\ Len(askTask') = asked'
    BY <2>1 DEF Numbered
  <2>3. \A n \in 1..asked : n \in 1..asked' /\ askTask'[n] = askTask[n]
    BY <1>1, <2>1 DEF Numbered
  <2>4. asked + 1 \in 1..asked' /\ askTask'[asked + 1] = TaskOf[a]
    BY <1>1, <2>1 DEF Numbered
  <2>5. QED
    BY <2>1, <2>2, <2>3, <2>4 DEF About
<1>3. ASSUME NEW a \in Askers, Begin(a)
      PROVE  Numbered'
  <2>1. /\ NewAsk(TaskOf[a]) /\ sent' = sent
        /\ asker' = [asker EXCEPT ![a] = [at |-> "asking", n |-> asked + 1]]
    BY <1>3 DEF Begin, humanVars
  <2>2. asked + 1 \in About(TaskOf[a])' \ {None}
    BY <1>1, <1>2, <2>1 DEF None
  <2>3. \A x \in Askers : asker'[x].at # "idle" => asker'[x].n \in About(TaskOf[x])' \ {None}
    BY <1>1, <1>2, <2>1, <2>2 DEF Numbered
  <2>4. sent' \subseteq 1..asked'
    BY <1>1, <1>2, <2>1 DEF Numbered
  <2>5. QED
    BY <1>2, <2>1, <2>3, <2>4 DEF Numbered
<1>4. ASSUME NEW a \in Agents, Recover(a)
      PROVE  Numbered'
  <2>1. CASE UNCHANGED <<asked, askTask, sent, asker>>
    BY <2>1 DEF Numbered, About
  <2>2. CASE NewAsk(TaskOf[a]) /\ sent' \in {sent, sent \cup {asked + 1}} /\ asker' = asker
    <3>1. a \in Askers
      BY DEF Askers
    <3>2. sent' \subseteq 1..asked'
      BY <1>1, <1>2, <2>2, <3>1 DEF Numbered
    <3>3. QED
      BY <1>2, <2>2, <3>1, <3>2 DEF Numbered
  <2>3. QED
    BY <1>4, <2>1, <2>2 DEF Recover
<1>5. ASSUME NEW a \in Askers, Deliver(a)
      PROVE  Numbered'
  <2>1. asker[a].n \in 1..asked
    BY <1>5 DEF Deliver, At, Numbered, About
  <2>2. QED
    BY <1>5, <2>1 DEF Deliver, Ask, Numbered, About
<1>6. ASSUME UNCHANGED <<asked, askTask, sent>>, NEW a \in Askers, NEW there \in {"idle", "waiting"},
             asker[a].at # "idle", Goto(a, there)
      PROVE  Numbered'
  <2>1. /\ \A x \in Askers \ {a} : asker'[x] = asker[x]
        /\ asker'[a].at # "idle" => asker'[a].n = asker[a].n
    BY <1>1, <1>6 DEF Goto, Rest
  <2>2. QED
    BY <1>6, <2>1 DEF Numbered, About
<1>7. CASE \/ \E a \in Agents : AskedAgent(a) \/ ExpireAgent(a)
           \/ \E a \in Chains : AskedChain(a) \/ ExpireChain(a)
           \/ \E a \in Askers : AskFailed(a) \/ Receive(a) \/ ReceiveClosed(a)
  BY <1>6, <1>7 DEF AskedAgent, ExpireAgent, AskedChain, ExpireChain, AskFailed, Receive, ReceiveClosed,
                    At, Askers, humanVars
<1>8. CASE \/ \E n \in Asks : Close(n) \/ Resolve(n) \/ ResolveByTask(n)
           \/ \E s \in sending : Send(s)
           \/ UNCHANGED vars
  <2>1. UNCHANGED <<asked, askTask, sent, asker>>
    BY <1>8 DEF Close, Resolve, ResolveByTask, Send, humanVars, vars
  <2>2. QED
    BY <2>1 DEF Numbered, About
<1>9. CASE Restart
  BY <1>9 DEF Restart, humanVars, Numbered, About, Rest
<1>10. QED
  BY <1>3, <1>4, <1>5, <1>7, <1>8, <1>9 DEF Next, BeginAgent, BeginChain, Askers

\* The asks of a task are never fewer.
LEMMA AboutGrows ==
  ASSUME IInv, Numbered, Numbered',
         \/ UNCHANGED <<asked, askTask>>
         \/ \E t \in Tasks : NewAsk(t)
  PROVE  /\ \A t : About(t) \subseteq About(t)'
         /\ \A n \in 1..asked : n \in 1..asked' /\ askTask'[n] = askTask[n]
<1>1. CASE UNCHANGED <<asked, askTask>>
  BY <1>1 DEF About
<1>2. CASE \E t \in Tasks : NewAsk(t)
  <2>1. asked \in Nat /\ asked' = asked + 1
    BY <1>2 DEF IInv, TypeOK, NewAsk
  <2>2. \A n \in 1..asked : n \in 1..asked' /\ askTask'[n] = askTask[n]
    BY <1>2, <2>1 DEF NewAsk, Numbered
  <2>3. QED
    BY <2>2 DEF About
<1>3. QED
  BY <1>1, <1>2

\* The parts of the store, as they may change.
LEMMA RegisterIndexed ==
  ASSUME Indexed, NEW t \in Tasks, NEW m \in About(t)', NEW n, Register(m, t, n),
         \A u : About(u) \subseteq About(u)'
  PROVE  Indexed'
<1>1. /\ byMsgID' = With(byMsgID, m, [ch |-> n, task |-> t])
      /\ byTask' = [byTask EXCEPT ![t] = Append(@, m)]
  BY DEF Register
<1>2. \A k \in Pending' : byMsgID'[k].task = (IF k = m THEN t ELSE byMsgID[k].task) /\ (k = m \/ k \in Pending)
  BY <1>1 DEF With, Pending
<1>3. \A u \in Tasks : byTask[u] \in Seq(About(u)')
  BY DEF Indexed
<1>4. \A u \in Tasks : byTask'[u] \in Seq(About(u)')
  BY <1>1, <1>3 DEF Indexed
<1>5. QED
  BY <1>1, <1>2, <1>4 DEF Indexed

LEMMA DropIndexed ==
  ASSUME Indexed, NEW m, NEW t \in Tasks, UNCHANGED <<asked, askTask>>, byMsgID' = Without(m),
         Drop(t, m) \/ (byTask[t] # <<>> /\ byTask' = [byTask EXCEPT ![t] = Tail(@)])
  PROVE  Indexed'
<1>1. \A k \in Pending' : k \in Pending /\ byMsgID'[k] = byMsgID[k]
  BY DEF Without, Pending
<1>2. \A u : About(u)' = About(u)
  BY DEF About
<1>3. byTask[t] \in Seq(About(t)) /\ RemoveFirst(byTask[t], m) \in Seq(About(t))
  BY Removed DEF Indexed
<1>4. byTask[t] # <<>> => Tail(byTask[t]) \in Seq(About(t))
  BY <1>3
<1>5. DOMAIN byTask' = Tasks /\ \A u \in Tasks : byTask'[u] \in Seq(About(u))
  BY <1>3, <1>4 DEF Indexed, Drop
<1>6. QED
  BY <1>1, <1>2, <1>5 DEF Indexed

LEMMA MoveIndexed ==
  ASSUME Indexed, NEW t \in Tasks, NEW m \in About(t), UNCHANGED <<asked, askTask>>, Reregister(m, t)
  PROVE  Indexed'
<1>1. \A u : About(u)' = About(u)
  BY DEF About
<1>2. CASE None \notin Pending
  BY <1>1, <1>2 DEF Reregister, storeVars, Indexed, Pending
<1>3. CASE None \in Pending
  <2> DEFINE fn == Without(None)
             e == [ch |-> Entry(None).ch, task |-> t]
  <2>1. /\ byMsgID' = With(fn, m, e)
        /\ byTask' = [byTask EXCEPT ![t] = ReplaceFirst(@, None, m)]
    BY <1>3 DEF Reregister
  <2>2. DOMAIN fn \subseteq Pending /\ (\A k \in DOMAIN fn : fn[k] = byMsgID[k]) /\ e.task = t
    BY DEF Without
  <2> HIDE DEF fn, e
  <2>3. \A k \in Pending' : \/ k = m /\ byMsgID'[k].task = t
                            \/ k \in Pending /\ byMsgID'[k] = byMsgID[k]
    BY <2>1, <2>2 DEF With, Pending
  <2>4. byTask[t] \in Seq(About(t)) /\ ReplaceFirst(byTask[t], None, m) \in Seq(About(t))
    BY Replaced DEF Indexed
  <2>5. DOMAIN byTask' = Tasks /\ \A u \in Tasks : byTask'[u] \in Seq(About(u))
    BY <2>1, <2>4 DEF Indexed
  <2>6. QED
    BY <1>1, <2>3, <2>5 DEF Indexed
<1>4. QED
  BY <1>2, <1>3

LEMMA IndexedNext == IInv /\ Numbered /\ Indexed /\ [Next]_vars => Indexed'
<1> SUFFICES ASSUME IInv, Numbered, Numbered', Indexed, [Next]_vars PROVE Indexed'
  BY NumberedNext
<1>1. \A a \in Askers : TaskOf[a] \in Tasks
  BY RepliesAssumption
<1>2. CASE UNCHANGED storeVars /\ \A u : About(u) \subseteq About(u)'
  <2>1. Pending' = Pending /\ byMsgID' = byMsgID /\ byTask' = byTask
    BY <1>2 DEF storeVars, Pending
  <2>2. \A t \in Tasks : byTask[t] \in Seq(About(t)')
    BY <1>2 DEF Indexed
  <2>3. QED
    BY <1>2, <2>1, <2>2 DEF Indexed
<1>3. ASSUME NEW a \in Askers, Begin(a), UNCHANGED storeVars \/ Register(None, TaskOf[a], asked + 1)
      PROVE  Indexed'
  <2>1. \A u : About(u) \subseteq About(u)'
    BY <1>1, <1>3, AboutGrows DEF Begin
  <2>2. CASE UNCHANGED storeVars
    BY <1>2, <2>1, <2>2
  <2>3. CASE Register(None, TaskOf[a], asked + 1)
    <3>1. None \in About(TaskOf[a])'
      BY DEF About
    <3>2. QED
      BY <1>1, <2>1, <2>3, <3>1, RegisterIndexed
  <2>4. QED
    BY <1>3, <2>2, <2>3
<1>4. ASSUME NEW a \in Agents, Recover(a)
      PROVE  Indexed'
  <2>1. CASE UNCHANGED <<asked, askTask, sent, storeVars>>
    BY <1>2, <2>1 DEF About
  <2>2. CASE NewAsk(TaskOf[a]) /\ Register(MsgOf(asked + 1), TaskOf[a], asked + 1)
    <3>1. TaskOf[a] \in Tasks
      BY <1>1 DEF Askers
    <3>2. \A u : About(u) \subseteq About(u)'
      BY <2>2, <3>1, AboutGrows
    <3>3. asked + 1 \in About(TaskOf[a])'
      <4>1. asked' = asked + 1 /\ asked \in Nat /\ askTask' = Append(askTask, TaskOf[a])
        BY <2>2 DEF NewAsk, IInv, TypeOK
      <4>2. asked + 1 \in 1..asked' /\ askTask'[asked + 1] = TaskOf[a]
        BY <3>1, <4>1 DEF Numbered
      <4>3. QED
        BY <4>2 DEF About
    <3>4. MsgOf(asked + 1) \in About(TaskOf[a])'
      BY <3>3 DEF MsgOf, About
    <3>5. QED
      BY <2>2, <3>1, <3>2, <3>4, RegisterIndexed
  <2>3. QED
    BY <1>4, <2>1, <2>2 DEF Recover
<1>5. ASSUME NEW a \in Askers, asker[a].at # "idle"
      PROVE  TaskOf[a] \in Tasks /\ Ask(a) \in About(TaskOf[a])
  BY <1>1, <1>5 DEF Numbered, Ask
<1>6. CASE \E a \in Agents : AskedAgent(a)
  <2>1. PICK a \in Askers : /\ asker[a].at # "idle" /\ UNCHANGED <<asked, askTask>>
                            /\ Reregister(Ask(a), TaskOf[a])
    BY <1>6 DEF AskedAgent, At, Askers
  <2>2. QED
    BY <1>5, <2>1, MoveIndexed
<1>7. CASE \E a \in Chains : AskedChain(a)
  <2>1. PICK a \in Askers : /\ asker[a].at # "idle" /\ UNCHANGED <<asked, askTask>>
                            /\ Register(MsgOf(Ask(a)), TaskOf[a], Ask(a))
    BY <1>7 DEF AskedChain, At, Askers
  <2>2. MsgOf(Ask(a)) \in About(TaskOf[a])'
    BY <1>5, <2>1 DEF About, MsgOf
  <2>3. \A u : About(u) \subseteq About(u)'
    BY <2>1 DEF About
  <2>4. QED
    BY <1>1, <2>1, <2>2, <2>3, RegisterIndexed
<1>8. CASE \/ \E a \in Agents : ExpireAgent(a)
           \/ \E a \in Askers : AskFailed(a) \/ ReceiveClosed(a)
           \/ \E a \in Chains : ExpireChain(a)
           \/ \E n \in Asks : Resolve(n)
  <2>1. UNCHANGED <<asked, askTask>>
    BY <1>8 DEF ExpireAgent, AskFailed, ReceiveClosed, ExpireChain, Resolve
  <2>2. \/ UNCHANGED storeVars
        \/ \E m, t \in Nat \cup Tasks : t \in Tasks /\ byMsgID' = Without(m) /\ Drop(t, m)
    <3>1. ASSUME NEW m \in Pending
          PROVE  byMsgID[m].task \in Tasks /\ m \in Nat
      BY DEF Indexed, About, None
    <3>2. ASSUME NEW a \in Askers
          PROVE  Ask(a) \in Nat /\ None \in Nat /\ TaskOf[a] \in Tasks
      BY <1>1 DEF Ask, IInv, TypeOK, None
    <3>3. QED
      BY <1>8, <3>1, <3>2 DEF ExpireAgent, AskFailed, ReceiveClosed, ExpireChain, Resolve, Unregister, Askers
  <2>3. CASE UNCHANGED storeVars
    BY <1>2, <2>1, <2>3 DEF About
  <2>4. QED
    BY <2>1, <2>2, <2>3, DropIndexed
<1>9. ASSUME NEW n \in Asks, ResolveByTask(n)
      PROVE  Indexed'
  <2> DEFINE t == askTask[n]
             k == Head(byTask[t])
  <2>1. UNCHANGED <<asked, askTask>> /\ n \in 1..asked
    BY <1>9 DEF ResolveByTask, Reply, Visible, Numbered
  <2>2. t \in Tasks
    BY <2>1 DEF Numbered
  <2>3. CASE byTask[t] = <<>>
    BY <1>2, <1>9, <2>1, <2>3 DEF ResolveByTask, About
  <2>4. CASE byTask[t] # <<>>
    <3>1. byMsgID' = Without(k) /\ byTask' = [byTask EXCEPT ![t] = Tail(@)]
      BY <1>9, <2>4 DEF ResolveByTask
    <3> HIDE DEF t, k
    <3>2. QED
      BY <2>1, <2>2, <2>4, <3>1, DropIndexed
  <2>5. QED
    BY <2>3, <2>4
<1>10. CASE \/ \E a \in Askers : Deliver(a) \/ Receive(a)
            \/ \E n \in Asks : Close(n)
            \/ \E s \in sending : Send(s)
            \/ UNCHANGED vars
  BY <1>2, <1>10 DEF Deliver, Receive, Close, Send, vars, About
<1>11. CASE Restart
  <2>1. byTask' = [t \in Tasks |-> <<>>] /\ Pending' = {}
    BY <1>11 DEF Restart, Pending
  <2>2. QED
    BY <2>1 DEF Indexed
<1>12. QED
  BY <1>3, <1>4, <1>6, <1>7, <1>8, <1>9, <1>10, <1>11 DEF Next, BeginAgent, BeginChain, Askers

-----------------------------------------------------------------------------
(* The chains' entries *)

\* Nothing a waiting chain depends on changes, and nothing comes to be about its
\* task or its channels.
Aside(c) ==
    /\ \A n \in 1..asked : askTask'[n] = askTask[n]
    /\ replied \subseteq replied'
    /\ \/ asker'[c] = asker[c]
       \/ asker[c].at # "waiting" /\ asker'[c].at # "waiting"
    /\ byTask'[TaskOf[c]] = byTask[TaskOf[c]]
    /\ \A m \in Pending' : \/ m \in Pending /\ byMsgID'[m] = byMsgID[m]
                           \/ TaskOf[c] \notin {byMsgID'[m].task, askTask'[byMsgID'[m].ch]}
    /\ asker[c].at = "waiting" =>
        /\ Ask(c) \in Pending => Ask(c) \in Pending' /\ byMsgID'[Ask(c)] = byMsgID[Ask(c)]
        /\ buf[Ask(c)] # NoAnswer => buf'[Ask(c)] = buf[Ask(c)]
        /\ \A s \in sending : s.ch = Ask(c) => s \in sending' \/ buf'[s.ch] = s.ans

\* The question a chain is at, told apart from those of the others.
LEMMA OwnAsk ==
  ASSUME Numbered, NEW c \in Chains, asker[c].at # "idle"
  PROVE  /\ Ask(c) \in 1..asked /\ askTask[Ask(c)] = TaskOf[c] /\ Ask(c) # None
         /\ \A t : Ask(c) \in About(t) => t = TaskOf[c]
  BY DEF Numbered, Ask, About, Askers, None

LEMMA AsideKeeps ==
  ASSUME IInv, Numbered, Indexed, Indexed', NEW c \in Chains, Served(c), Aside(c)
  PROVE  Served(c)'
<1>1. /\ asker[c].at = "waiting" => Ask(c) \in 1..asked /\ askTask[Ask(c)] = TaskOf[c] /\ Ask(c) # None
      /\ asker[c].at # "waiting" => asker'[c].at # "waiting"
      /\ asker[c].at = "waiting" => asker'[c] = asker[c]
  BY OwnAsk DEF Aside
<1>2. \A m \in Pending : askTask'[byMsgID[m].ch] = askTask[byMsgID[m].ch]
  BY DEF IInv, Made, Aside
<1>3. ASSUME asker[c].at = "waiting", Ask(c) \in Pending'
      PROVE  Ask(c) \in Pending
  <2>1. \E t \in Tasks : t = byMsgID'[Ask(c)].task /\ Ask(c) \in About(t)'
    BY <1>3 DEF Indexed
  <2>2. byMsgID'[Ask(c)].task = TaskOf[c]
    BY <1>1, <1>3, <2>1 DEF About, Aside
  <2>3. QED
    BY <1>3, <2>2 DEF Aside
<1>4. EntryOf(c)'
  <2>1. ASSUME NEW m \in Pending', TaskOf[c] \in {byMsgID'[m].task, askTask'[byMsgID'[m].ch]}
        PROVE  /\ asker'[c].at = "waiting" /\ m = asker'[c].n
               /\ byMsgID'[m] = [ch |-> m, task |-> TaskOf[c]]
    <3>1. m \in Pending /\ byMsgID'[m] = byMsgID[m]
      BY <2>1 DEF Aside
    <3>2. TaskOf[c] \in {byMsgID[m].task, askTask[byMsgID[m].ch]}
      BY <1>2, <2>1, <3>1
    <3>3. asker[c].at = "waiting" /\ m = Ask(c) /\ byMsgID[m] = [ch |-> m, task |-> TaskOf[c]]
      BY <3>1, <3>2 DEF Served, EntryOf
    <3>4. QED
      BY <1>1, <3>1, <3>3 DEF Ask
  <2>2. byTask'[TaskOf[c]] = IF asker'[c].at = "waiting" /\ asker'[c].n \in Pending'
                             THEN <<asker'[c].n>> ELSE <<>>
    <3>1. byTask'[TaskOf[c]] = byTask[TaskOf[c]]
      BY DEF Aside
    <3>2. byTask[TaskOf[c]] = IF asker[c].at = "waiting" /\ Ask(c) \in Pending THEN <<Ask(c)>> ELSE <<>>
      BY DEF Served, EntryOf
    <3>3. CASE asker[c].at = "waiting"
      <4>1. asker'[c] = asker[c] /\ (Ask(c) \in Pending <=> Ask(c) \in Pending')
        BY <1>1, <1>3, <3>3 DEF Aside
      <4>2. QED
        BY <3>1, <3>2, <3>3, <4>1 DEF Ask
    <3>4. CASE asker[c].at # "waiting"
      BY <1>1, <3>1, <3>2, <3>4
    <3>5. QED
      BY <3>3, <3>4
  <2>3. QED
    BY <2>1, <2>2 DEF EntryOf, Ask
<1>5. RoutableOf(c)'
  <2> SUFFICES ASSUME asker'[c].at = "waiting", asker'[c].n \notin replied'
               PROVE  \/ /\ asker'[c].n \in Pending'
                         /\ byMsgID'[asker'[c].n] = [ch |-> asker'[c].n, task |-> TaskOf[c]]
                      \/ buf'[asker'[c].n].task = TaskOf[c]
                      \/ \E s \in sending' : s.ch = asker'[c].n /\ s.ans.task = TaskOf[c]
    BY DEF RoutableOf, Ask
  <2>1. asker[c].at = "waiting" /\ asker'[c].n = Ask(c) /\ Ask(c) \notin replied
    BY <1>1 DEF Aside, Ask
  <2>2. \/ Ask(c) \in Pending /\ byMsgID[Ask(c)] = [ch |-> Ask(c), task |-> TaskOf[c]]
        \/ buf[Ask(c)].task = TaskOf[c]
        \/ \E s \in sending : s.ch = Ask(c) /\ s.ans.task = TaskOf[c]
    BY <2>1 DEF Served, RoutableOf
  <2>3. CASE Ask(c) \in Pending /\ byMsgID[Ask(c)] = [ch |-> Ask(c), task |-> TaskOf[c]]
    BY <2>1, <2>3 DEF Aside
  <2>4. CASE buf[Ask(c)].task = TaskOf[c]
    <3>1. buf[Ask(c)] # NoAnswer
      BY <2>4, RepliesAssumption DEF NoAnswer, Askers
    <3>2. QED
      BY <2>1, <2>4, <3>1 DEF Aside
  <2>5. CASE \E s \in sending : s.ch = Ask(c) /\ s.ans.task = TaskOf[c]
    BY <2>1, <2>5 DEF Aside
  <2>6. QED
    BY <2>2, <2>3, <2>4, <2>5
<1>6. QED
  BY <1>4, <1>5 DEF Served

-----------------------------------------------------------------------------
(* What others do is aside of a chain *)

LEMMA RegisterAside ==
  ASSUME IInv, Numbered, NEW c \in Chains, NEW t \in Tasks \ {TaskOf[c]}, NEW m, NEW n, Register(m, t, n),
         asker[c].at = "waiting" => m # Ask(c),
         askTask'[n] = t, \A k \in 1..asked : askTask'[k] = askTask[k],
         \/ asker'[c] = asker[c]
         \/ asker[c].at # "waiting" /\ asker'[c].at # "waiting",
         UNCHANGED <<chanVars, replied>>, DOMAIN byTask = Tasks
  PROVE  Aside(c)
<1>1. /\ byMsgID' = With(byMsgID, m, [ch |-> n, task |-> t])
      /\ byTask' = [byTask EXCEPT ![t] = Append(@, m)]
  BY DEF Register
<1>2. Pending' = Pending \cup {m}
      /\ \A k \in Pending' : byMsgID'[k] = IF k = m THEN [ch |-> n, task |-> t] ELSE byMsgID[k]
  BY <1>1 DEF With, Pending
<1>3. TaskOf[c] \in Tasks
  BY RepliesAssumption DEF Askers
<1>4. byTask'[TaskOf[c]] = byTask[TaskOf[c]]
  BY <1>1, <1>3
<1>5. QED
  BY <1>2, <1>4 DEF Aside, chanVars

LEMMA DropAside ==
  ASSUME IInv, Numbered, NEW c \in Chains, NEW m, NEW t \in Tasks \ {TaskOf[c]},
         byMsgID' = Without(m), DOMAIN byTask = Tasks,
         Drop(t, m) \/ byTask' = [byTask EXCEPT ![t] = Tail(@)],
         asker[c].at = "waiting" => m # Ask(c),
         \/ asker'[c] = asker[c]
         \/ asker[c].at # "waiting" /\ asker'[c].at # "waiting",
         UNCHANGED <<askTask, buf>>, replied \subseteq replied', sending \subseteq sending'
  PROVE  Aside(c)
<1>1. Pending' = Pending \ {m} /\ \A k \in Pending' : byMsgID'[k] = byMsgID[k]
  BY DEF Without, Pending
<1>2. TaskOf[c] \in Tasks
  BY RepliesAssumption DEF Askers
<1>3. byTask'[TaskOf[c]] = byTask[TaskOf[c]]
  BY <1>2 DEF Drop
<1>4. QED
  BY <1>1, <1>3 DEF Aside
\* The agents, which have tasks of their own.
LEMMA AgentsAside ==
  ASSUME OwnTasks, telegram, IInv, Numbered, Numbered', Indexed, NEW c \in Chains, Served(c),
         \E a \in Agents : \/ BeginAgent(a) \/ AskedAgent(a) \/ ExpireAgent(a) \/ Recover(a)
                           \/ Deliver(a) \/ AskFailed(a) \/ Receive(a) \/ ReceiveClosed(a)
  PROVE  Aside(c)
<1>1. PICK a \in Agents : \/ BeginAgent(a) \/ AskedAgent(a) \/ ExpireAgent(a) \/ Recover(a)
                          \/ Deliver(a) \/ AskFailed(a) \/ Receive(a) \/ ReceiveClosed(a)
  OBVIOUS
<1>2. a \in Askers /\ TaskOf[a] \in Tasks \ {TaskOf[c]} /\ c \in Askers /\ c # a
  BY RepliesAssumption DEF OwnTasks, Askers
<1>3. asker[c].at = "waiting" => /\ Ask(c) # None /\ Ask(c) # asked + 1
                                 /\ asker[a].at # "idle" => Ask(c) # Ask(a)
  <2>1. asker[a].at # "idle" => Ask(a) \in About(TaskOf[a])
    BY <1>2 DEF Numbered, Ask
  <2>2. asked \in Nat
    BY DEF IInv, TypeOK
  <2>3. QED
    BY <1>2, <2>1, <2>2, OwnAsk
<1>4. DOMAIN byTask = Tasks /\ asker \in [Askers -> [at : {"idle", "asking", "waiting"}, n : Nat]]
  BY DEF Indexed, IInv, TypeOK
<1>5. ASSUME NewAsk(TaskOf[a])
      PROVE  askTask'[asked + 1] = TaskOf[a] /\ \A k \in 1..asked : askTask'[k] = askTask[k]
  BY <1>2, <1>5 DEF NewAsk, Numbered, IInv, TypeOK
<1>6. CASE BeginAgent(a)
  <2>1. /\ NewAsk(TaskOf[a]) /\ Register(None, TaskOf[a], asked + 1)
        /\ UNCHANGED chanVars /\ replied' = replied
        /\ asker' = [asker EXCEPT ![a] = [at |-> "asking", n |-> asked + 1]]
    BY <1>6 DEF BeginAgent, Begin, humanVars
  <2>2. asker'[c] = asker[c]
    BY <1>2, <1>4, <2>1
  <2>3. QED
    BY <1>2, <1>3, <1>4, <1>5, <2>1, <2>2, RegisterAside
<1>7. CASE Recover(a)
  <2>1. asker' = asker /\ UNCHANGED chanVars /\ replied' = replied
    BY <1>7 DEF Recover
  <2>2. CASE UNCHANGED <<asked, askTask, sent, storeVars>>
    BY <2>1, <2>2 DEF Aside, storeVars, chanVars, Pending
  <2>3. CASE NewAsk(TaskOf[a]) /\ Register(asked + 1, TaskOf[a], asked + 1)
    BY <1>2, <1>3, <1>4, <1>5, <2>1, <2>3, RegisterAside
  <2>4. QED
    BY <1>7, <2>2, <2>3 DEF Recover, MsgOf
<1>8. CASE Deliver(a)
  BY <1>8 DEF Deliver, Aside, storeVars, chanVars, Pending
<1>9. CASE Receive(a)
  <2>1. /\ buf' = [buf EXCEPT ![Ask(a)] = NoAnswer] /\ asker[a].at = "waiting" /\ Goto(a, "idle")
        /\ UNCHANGED <<askTask, byMsgID, byTask, sending, replied>>
    BY <1>9 DEF Receive, At, storeVars, humanVars
  <2>2. asker'[c] = asker[c]
    BY <1>2, <1>4, <2>1 DEF Goto
  <2>3. asker[c].at = "waiting" => buf'[Ask(c)] = buf[Ask(c)]
    BY <1>3, <2>1 DEF IInv, TypeOK
  <2>4. QED
    BY <2>1, <2>2, <2>3 DEF Aside, Pending
<1>10. CASE ExpireAgent(a) \/ AskFailed(a) \/ ReceiveClosed(a)
  <2>1. /\ asker[a].at # "idle" /\ Goto(a, "idle") /\ UNCHANGED <<askTask, chanVars, replied>>
        /\ Unregister(Ask(a), TaskOf[a]) \/ Unregister(None, TaskOf[a])
    BY <1>10 DEF ExpireAgent, AskFailed, ReceiveClosed, At, humanVars
  <2>2. asker'[c] = asker[c]
    BY <1>2, <1>4, <2>1 DEF Goto
  <2>3. PICK m \in {Ask(a), None} : byMsgID' = Without(m) /\ Drop(TaskOf[a], m)
    BY <2>1 DEF Unregister
  <2>4. buf' = buf /\ sending' = sending
    BY <2>1 DEF chanVars
  <2>5. QED
    BY <1>2, <1>3, <1>4, <2>1, <2>2, <2>3, <2>4, DropAside
<1>11. CASE AskedAgent(a)
  <2>1. /\ asker[a].at = "asking" /\ Goto(a, "waiting") /\ UNCHANGED <<asked, askTask, chanVars, replied>>
        /\ Reregister(Ask(a), TaskOf[a])
    BY <1>11 DEF AskedAgent, At, humanVars
  <2>2. asker'[c] = asker[c]
    BY <1>2, <1>4, <2>1 DEF Goto
  <2>3. CASE None \notin Pending
    BY <2>1, <2>2, <2>3 DEF Reregister, Aside, storeVars, chanVars, Pending
  <2>4. CASE None \in Pending
    <3> DEFINE fn == Without(None)
               e == [ch |-> byMsgID[None].ch, task |-> TaskOf[a]]
    <3>1. /\ byMsgID' = With(fn, Ask(a), e)
          /\ byTask' = [byTask EXCEPT ![TaskOf[a]] = ReplaceFirst(@, None, Ask(a))]
      BY <2>1, <2>4 DEF Reregister, Entry
    <3>2. DOMAIN fn = Pending \ {None} /\ (\A k \in DOMAIN fn : fn[k] = byMsgID[k])
      BY DEF Without
    <3>3. TaskOf[c] \notin {e.task, askTask[e.ch]}
      <4>1. TaskOf[c] = askTask[byMsgID[None].ch] => asker[c].at = "waiting" /\ None = Ask(c)
        BY <2>4 DEF Served, EntryOf
      <4>2. QED
        BY <1>2, <1>3, <4>1
    <3> HIDE DEF fn, e
    <3>4. /\ Pending' = (Pending \ {None}) \cup {Ask(a)}
          /\ \A k \in Pending' : byMsgID'[k] = IF k = Ask(a) THEN e ELSE byMsgID[k]
      BY <3>1, <3>2 DEF With, Pending
    <3>5. byTask'[TaskOf[c]] = byTask[TaskOf[c]]
      BY <1>2, <1>4, <3>1, RepliesAssumption
    <3>6. asker[c].at = "waiting" => Ask(c) # None /\ Ask(c) # Ask(a)
      BY <1>3, <2>1
    <3>7. QED
      BY <2>1, <2>2, <3>3, <3>4, <3>5, <3>6 DEF Aside, chanVars
  <2>5. QED
    BY <2>3, <2>4
<1>12. QED
  BY <1>1, <1>6, <1>7, <1>8, <1>9, <1>10, <1>11

-----------------------------------------------------------------------------
(* The chains' own steps, and the human's *)

LEMMA ChainsServed ==
  ASSUME OwnTasks, CInv, IInv', Numbered', Indexed', NEW c \in Chains,
         \E d \in Chains : \/ BeginChain(d) \/ AskedChain(d) \/ ExpireChain(d)
                           \/ Deliver(d) \/ AskFailed(d) \/ Receive(d) \/ ReceiveClosed(d)
  PROVE  Served(c)'
<1> USE DEF CInv
<1>1. PICK d \in Chains : \/ BeginChain(d) \/ AskedChain(d) \/ ExpireChain(d)
                          \/ Deliver(d) \/ AskFailed(d) \/ Receive(d) \/ ReceiveClosed(d)
  OBVIOUS
<1>2. /\ d \in Askers /\ c \in Askers /\ TaskOf[d] \in Tasks /\ TaskOf[c] \in Tasks
      /\ d # c => TaskOf[d] # TaskOf[c]
  BY RepliesAssumption DEF OwnTasks, Askers
<1>3. DOMAIN byTask = Tasks /\ asker \in [Askers -> [at : {"idle", "asking", "waiting"}, n : Nat]]
  BY DEF Indexed, IInv, TypeOK
<1>4. d # c /\ asker[d].at # "idle" /\ asker[c].at = "waiting" => Ask(c) # Ask(d)
  BY <1>2, OwnAsk
<1>5. CASE BeginChain(d)
  <2>1. /\ NewAsk(TaskOf[d]) /\ asker[d].at = "idle"
        /\ asker' = [asker EXCEPT ![d] = [at |-> "asking", n |-> asked + 1]]
        /\ UNCHANGED <<byMsgID, byTask, sending, buf, replied>>
    BY <1>5 DEF BeginChain, Begin, At, storeVars, chanVars, humanVars
  <2>2. \A k \in 1..asked : askTask'[k] = askTask[k]
    BY <2>1, <1>2, AboutGrows
  <2>3. asker'[c] = asker[c] \/ (asker[c].at # "waiting" /\ asker'[c].at # "waiting")
    BY <1>2, <1>3, <2>1
  <2>4. Aside(c)
    BY <2>1, <2>2, <2>3 DEF Aside, Pending
  <2>5. QED
    BY <2>4, AsideKeeps
<1>6. CASE Deliver(d)
  BY <1>6, AsideKeeps DEF Deliver, Aside, storeVars, chanVars, Pending
<1>7. CASE AskFailed(d)
  <2>1. /\ asker[d].at = "asking" /\ Goto(d, "idle")
        /\ UNCHANGED <<askTask, byMsgID, byTask, sending, buf, replied>>
    BY <1>7, RepliesAssumption DEF AskFailed, At, storeVars, chanVars, humanVars
  <2>2. asker'[c] = asker[c] \/ (asker[c].at # "waiting" /\ asker'[c].at # "waiting")
    BY <1>2, <1>3, <2>1 DEF Goto, Rest
  <2>3. Aside(c)
    BY <2>1, <2>2 DEF Aside, Pending
  <2>4. QED
    BY <2>3, AsideKeeps
<1>8. CASE AskedChain(d)
  <2> DEFINE m == Ask(d)
             e == [ch |-> m, task |-> TaskOf[d]]
  <2>1. /\ asker[d].at = "asking" /\ Goto(d, "waiting") /\ Register(m, TaskOf[d], m)
        /\ UNCHANGED <<asked, askTask, chanVars, replied>>
    BY <1>8 DEF AskedChain, At, humanVars, MsgOf
  <2>2. m \in 1..asked /\ askTask[m] = TaskOf[d] /\ m # None
    BY <2>1, OwnAsk
  <2>3. CASE d # c
    <3>1. asker'[c] = asker[c]
      BY <1>2, <1>3, <2>1, <2>3 DEF Goto
    <3>2. asker[c].at = "waiting" => m # Ask(c)
      BY <1>4, <2>1, <2>3
    <3> HIDE DEF m, e
    <3>3. Aside(c)
      BY <1>2, <1>3, <2>1, <2>2, <2>3, <3>1, <3>2, RegisterAside
    <3>4. QED
      BY <3>3, AsideKeeps
  <2>4. CASE d = c
    <3>1. asker'[c].at = "waiting" /\ asker'[c].n = m
      BY <1>2, <1>3, <2>1, <2>4 DEF Goto, Ask
    <3>2. /\ byMsgID' = With(byMsgID, m, e)
          /\ byTask' = [byTask EXCEPT ![TaskOf[c]] = Append(@, m)]
      BY <2>1, <2>4 DEF Register
    <3> HIDE DEF m, e
    <3>3. /\ Pending' = Pending \cup {m}
          /\ \A k \in Pending' : byMsgID'[k] = IF k = m THEN e ELSE byMsgID[k]
      BY <3>2 DEF With, Pending
    <3>4. \A k \in Pending : TaskOf[c] \notin {byMsgID[k].task, askTask[byMsgID[k].ch]}
      BY <2>1, <2>4 DEF Served, EntryOf
    <3>5. byTask[TaskOf[c]] = <<>>
      BY <2>1, <2>4 DEF Served, EntryOf
    <3>6. byTask'[TaskOf[c]] = <<m>>
      BY <1>2, <1>3, <3>2, <3>5
    <3>7. EntryOf(c)'
      BY <2>1, <2>4, <3>1, <3>3, <3>4, <3>6 DEF EntryOf, Ask, e
    <3>8. RoutableOf(c)'
      BY <2>4, <3>1, <3>3 DEF RoutableOf, Ask, e
    <3>9. QED
      BY <3>7, <3>8 DEF Served
  <2>5. QED
    BY <2>3, <2>4
<1>9. CASE ExpireChain(d)
  <2> DEFINE m == Ask(d)
  <2>1. /\ asker[d].at = "waiting" /\ Goto(d, "idle")
        /\ UNCHANGED <<asked, askTask, sending, buf, replied>>
    BY <1>9 DEF ExpireChain, MsgOf, At, humanVars
  <2>2. asker'[d].at = "idle" /\ (d # c => asker'[c] = asker[c])
    BY <1>2, <1>3, <2>1 DEF Goto, Rest
  <2>3. m \in Pending => byMsgID[m].task = TaskOf[d]
    <3>1. m \in Pending => byMsgID[m].task \in Tasks /\ m \in About(byMsgID[m].task)
      BY DEF Indexed
    <3>2. QED
      BY <2>1, <3>1, OwnAsk
  <2>4. CASE d # c
    <3>1. CASE m \in Pending
      <4>1. byMsgID' = Without(m) /\ Drop(TaskOf[d], m)
        BY <1>9, <2>3, <3>1 DEF ExpireChain, MsgOf
      <4>2. asker[c].at = "waiting" => m # Ask(c)
        BY <1>4, <2>1, <2>4
      <4> HIDE DEF m
      <4>3. Aside(c)
        BY <1>2, <1>3, <2>1, <2>2, <2>4, <4>1, <4>2, DropAside
      <4>4. QED
        BY <4>3, AsideKeeps
    <3>2. CASE m \notin Pending
      <4>1. UNCHANGED <<byMsgID, byTask>>
        BY <1>9, <3>2 DEF ExpireChain, MsgOf, storeVars
      <4>2. Aside(c)
        BY <2>1, <2>2, <2>4, <4>1 DEF Aside, Pending
      <4>3. QED
        BY <4>2, AsideKeeps
    <3>3. QED
      BY <3>1, <3>2
  <2>5. CASE d = c
    <3>1. byTask[TaskOf[c]] = IF m \in Pending THEN <<m>> ELSE <<>>
      BY <2>1, <2>5 DEF Served, EntryOf
    <3>2. byTask[TaskOf[c]] \in Seq(About(TaskOf[c]))
      BY <1>2 DEF Indexed
    <3>3. \A k \in Pending' : k \in Pending /\ byMsgID'[k] = byMsgID[k] /\ k # m
      BY <1>9 DEF ExpireChain, MsgOf, storeVars, Without, Pending
    <3>4. byTask'[TaskOf[c]] = <<>>
      <4>1. CASE m \in Pending
        <5>1. byTask' = [byTask EXCEPT ![TaskOf[c]] = RemoveFirst(@, m)]
          BY <1>9, <2>3, <2>5, <4>1 DEF ExpireChain, MsgOf, Drop
        <5> HIDE DEF m
        <5>2. RemoveFirst(byTask[TaskOf[c]], m) = <<>>
          BY <3>1, <3>2, <4>1, Removed
        <5>3. QED
          BY <1>2, <1>3, <5>1, <5>2
      <4>2. CASE m \notin Pending
        BY <1>9, <3>1, <4>2 DEF ExpireChain, MsgOf, storeVars
      <4>3. QED
        BY <4>1, <4>2
    <3>5. EntryOf(c)'
      <4>1. \A k \in Pending : TaskOf[c] \in {byMsgID[k].task, askTask[byMsgID[k].ch]} => k = m
        BY <2>5 DEF Served, EntryOf
      <4>2. \A k \in Pending' : TaskOf[c] \notin {byMsgID'[k].task, askTask'[byMsgID'[k].ch]}
        BY <2>1, <3>3, <4>1
      <4>3. QED
        BY <2>2, <2>5, <3>4, <4>2 DEF EntryOf
    <3>6. RoutableOf(c)'
      BY <2>2, <2>5 DEF RoutableOf
    <3>7. QED
      BY <3>5, <3>6 DEF Served
  <2>6. QED
    BY <2>4, <2>5
<1>10. CASE Receive(d)
  <2>1. /\ buf' = [buf EXCEPT ![Ask(d)] = NoAnswer] /\ asker[d].at = "waiting" /\ Goto(d, "idle")
        /\ buf[Ask(d)] # NoAnswer
        /\ UNCHANGED <<asked, askTask, byMsgID, byTask, sending, replied>>
    BY <1>10 DEF Receive, At, storeVars, humanVars
  <2>2. asker'[d].at = "idle" /\ (d # c => asker'[c] = asker[c])
    BY <1>2, <1>3, <2>1 DEF Goto, Rest
  <2>3. CASE d # c
    <3>1. asker[c].at = "waiting" => buf'[Ask(c)] = buf[Ask(c)]
      BY <1>4, <2>1, <2>3 DEF IInv, TypeOK
    <3>2. Aside(c)
      BY <2>1, <2>2, <2>3, <3>1 DEF Aside, Pending
    <3>3. QED
      BY <3>2, AsideKeeps
  <2>4. CASE d = c
    <3>1. \A k \in Pending : TaskOf[c] \notin {byMsgID[k].task, askTask[byMsgID[k].ch]}
      <4> SUFFICES ASSUME NEW k \in Pending, TaskOf[c] \in {byMsgID[k].task, askTask[byMsgID[k].ch]}
                   PROVE  FALSE
        OBVIOUS
      <4>1. k = Ask(c) /\ byMsgID[k] = [ch |-> k, task |-> TaskOf[c]]
        BY DEF Served, EntryOf
      <4>2. byMsgID[k].ch = Ask(c)
        BY <4>1
      <4>3. buf[byMsgID[k].ch] = NoAnswer
        BY DEF IInv, Entries
      <4>4. QED
        BY <2>1, <2>4, <4>2, <4>3
    <3>2. Ask(c) \notin Pending
      <4>1. Ask(c) \in Pending => byMsgID[Ask(c)].task \in Tasks /\ Ask(c) \in About(byMsgID[Ask(c)].task)
        BY DEF Indexed
      <4>2. QED
        BY <2>1, <2>4, <3>1, <4>1, OwnAsk
    <3>3. byTask'[TaskOf[c]] = <<>>
      BY <2>1, <2>4, <3>2 DEF Served, EntryOf
    <3>4. QED
      BY <2>1, <2>2, <2>4, <3>1, <3>3 DEF Served, EntryOf, RoutableOf, Pending
  <2>5. QED
    BY <2>3, <2>4
<1>11. CASE ReceiveClosed(d)
  <2>1. /\ asker[d].at = "waiting" /\ Goto(d, "idle") /\ Ask(d) \in closed
        /\ UNCHANGED <<askTask, byMsgID, byTask, sending, buf, replied>>
    BY <1>11, RepliesAssumption DEF ReceiveClosed, At, storeVars, chanVars, humanVars
  <2>2. asker'[d].at = "idle" /\ (d # c => asker'[c] = asker[c])
    BY <1>2, <1>3, <2>1 DEF Goto, Rest
  <2>3. CASE d # c
    <3>1. Aside(c)
      BY <2>1, <2>2, <2>3 DEF Aside, Pending
    <3>2. QED
      BY <3>1, AsideKeeps
  <2>4. CASE d = c
    <3>1. \A k \in Pending : TaskOf[c] \notin {byMsgID[k].task, askTask[byMsgID[k].ch]}
      <4> SUFFICES ASSUME NEW k \in Pending, TaskOf[c] \in {byMsgID[k].task, askTask[byMsgID[k].ch]}
                   PROVE  FALSE
        OBVIOUS
      <4>1. k = Ask(c) /\ byMsgID[k] = [ch |-> k, task |-> TaskOf[c]]
        BY DEF Served, EntryOf
      <4>2. byMsgID[k].ch = Ask(c)
        BY <4>1
      <4>3. byMsgID[k].ch \notin closed
        BY DEF IInv, Entries
      <4>4. QED
        BY <2>1, <2>4, <4>2, <4>3
    <3>2. Ask(c) \notin Pending
      <4>1. Ask(c) \in Pending => byMsgID[Ask(c)].task \in Tasks /\ Ask(c) \in About(byMsgID[Ask(c)].task)
        BY DEF Indexed
      <4>2. QED
        BY <2>1, <2>4, <3>1, <4>1, OwnAsk
    <3>3. byTask'[TaskOf[c]] = <<>>
      BY <2>1, <2>4, <3>2 DEF Served, EntryOf
    <3>4. QED
      BY <2>1, <2>2, <2>4, <3>1, <3>3 DEF Served, EntryOf, RoutableOf, Pending
  <2>5. QED
    BY <2>3, <2>4
<1>12. QED
  BY <1>1, <1>5, <1>6, <1>7, <1>8, <1>9, <1>10, <1>11

LEMMA AnswersServed ==
  ASSUME CInv, IInv', Numbered', Indexed', NEW c \in Chains,
         \/ \E n \in Asks : Close(n) \/ Resolve(n) \/ ResolveByTask(n)
         \/ \E s \in sending : Send(s)
  PROVE  Served(c)'
<1> USE DEF CInv
<1>1. /\ c \in Askers /\ TaskOf[c] \in Tasks
      /\ DOMAIN byTask = Tasks
      /\ Served(c)
  BY RepliesAssumption DEF Askers, Indexed
<1>2. ASSUME NEW m \in Pending
      PROVE  /\ byMsgID[m].task \in Tasks
             /\ asker[c].at = "waiting" /\ m = Ask(c) => byMsgID[m].task = TaskOf[c]
             /\ byMsgID[m].task = TaskOf[c] \/ askTask[byMsgID[m].ch] = TaskOf[c] =>
                   /\ asker[c].at = "waiting" /\ m = Ask(c) /\ byMsgID[m].ch = m
                   /\ byMsgID[m].task = TaskOf[c]
  <2>1. byMsgID[m].task \in Tasks /\ m \in About(byMsgID[m].task)
    BY DEF Indexed
  <2>2. asker[c].at = "waiting" /\ m = Ask(c) => byMsgID[m].task = TaskOf[c]
    BY <2>1, OwnAsk
  <2>3. ASSUME TaskOf[c] \in {byMsgID[m].task, askTask[byMsgID[m].ch]}
        PROVE  /\ asker[c].at = "waiting" /\ m = Ask(c) /\ byMsgID[m].ch = m
               /\ byMsgID[m].task = TaskOf[c]
    <3>1. asker[c].at = "waiting" /\ m = Ask(c) /\ byMsgID[m] = [ch |-> m, task |-> TaskOf[c]]
      BY <1>1, <2>3 DEF Served, EntryOf
    <3>2. QED
      BY <3>1
  <2>4. QED
    BY <2>1, <2>2, <2>3
<1>3. ASSUME NEW n \in Asks, Close(n)
      PROVE  Served(c)'
  BY <1>1, <1>3, AsideKeeps DEF Close, Aside, storeVars, humanVars, Pending
\* The entry of the chain is taken out.
<1>4. ASSUME asker[c].at = "waiting", Ask(c) \in Pending, byMsgID' = Without(Ask(c)),
             byTask'[TaskOf[c]] = <<>>, UNCHANGED <<askTask, asker>>,
             Ask(c) \notin replied' =>
                \E s \in sending' : s.ch = Ask(c) /\ s.ans.task = TaskOf[c]
      PROVE  Served(c)'
  <2>1. Pending' = Pending \ {Ask(c)} /\ \A k \in Pending' : byMsgID'[k] = byMsgID[k]
    BY <1>4 DEF Without, Pending
  <2>2. \A k \in Pending' : TaskOf[c] \notin {byMsgID'[k].task, askTask'[byMsgID'[k].ch]}
    BY <1>2, <1>4, <2>1
  <2>3. Ask(c)' = Ask(c)
    BY <1>4 DEF Ask
  <2>4. QED
    BY <1>4, <2>1, <2>2, <2>3 DEF Served, EntryOf, RoutableOf
<1>5. ASSUME NEW n \in Asks, Resolve(n)
      PROVE  Served(c)'
  <2>1. replied' = replied \cup {n} /\ UNCHANGED <<asked, askTask, asker, buf>>
    BY <1>5 DEF Resolve, Reply
  <2>2. CASE n \notin Pending
    <3>1. Aside(c)
      BY <1>5, <2>1, <2>2 DEF Resolve, Aside, storeVars, Pending
    <3>2. QED
      BY <1>1, <3>1, AsideKeeps
  <2>3. CASE n \in Pending
    <3>1. /\ byMsgID' = Without(n) /\ Drop(byMsgID[n].task, n)
          /\ sending \subseteq sending'
      BY <1>5, <2>3 DEF Resolve
    <3>2. CASE byMsgID[n].task # TaskOf[c]
      <4> DEFINE t == byMsgID[n].task
      <4>1. t \in Tasks \ {TaskOf[c]} /\ (asker[c].at = "waiting" => n # Ask(c))
        BY <1>2, <2>3, <3>2
      <4> HIDE DEF t
      <4>2. Drop(t, n)
        BY <3>1 DEF t
      <4>3. Aside(c)
        BY <1>1, <2>1, <3>1, <4>1, <4>2, DropAside
      <4>4. QED
        BY <1>1, <4>3, AsideKeeps
    <3>3. CASE byMsgID[n].task = TaskOf[c]
      <4>1. asker[c].at = "waiting" /\ n = Ask(c)
        BY <1>2, <2>3, <3>3
      <4>2. byTask[TaskOf[c]] = <<n>>
        BY <1>1, <2>3, <4>1 DEF Served, EntryOf
      <4>3. RemoveFirst(byTask[TaskOf[c]], n) = <<>>
        BY <1>1, <4>2, Removed DEF Indexed
      <4>4. byTask'[TaskOf[c]] = <<>>
        BY <1>1, <3>1, <3>3, <4>3 DEF Drop
      <4>5. QED
        BY <1>4, <2>1, <2>3, <3>1, <4>1, <4>4
    <3>4. QED
      BY <3>2, <3>3
  <2>4. QED
    BY <2>2, <2>3
<1>6. ASSUME NEW n \in Asks, ResolveByTask(n)
      PROVE  Served(c)'
  <2> DEFINE t == askTask[n]
             k == Head(byTask[t])
             ans == [ch |-> byMsgID[k].ch, ans |-> [task |-> t, msg |-> None]]
  <2>1. replied' = replied \cup {n} /\ UNCHANGED <<asked, askTask, asker, buf>> /\ n \in sent
    BY <1>6 DEF ResolveByTask, Reply, Visible
  <2>2. t \in Tasks
    <3>1. n \in 1..Len(askTask) /\ askTask \in Seq(Tasks)
      BY <2>1 DEF Numbered
    <3>2. QED
      BY <3>1
  <2>3. CASE byTask[t] = <<>>
    <3>1. Aside(c)
      BY <1>6, <2>1, <2>3 DEF ResolveByTask, Aside, storeVars, Pending
    <3>2. QED
      BY <1>1, <3>1, AsideKeeps
  <2>4. CASE byTask[t] # <<>>
    <3>1. /\ byMsgID' = Without(k) /\ byTask' = [byTask EXCEPT ![t] = Tail(@)]
          /\ sending' = IF k \in Pending THEN sending \cup {ans} ELSE sending
      BY <1>6, <2>4 DEF ResolveByTask
    <3>2. CASE t # TaskOf[c]
      <4>1. byTask[t] \in Seq(About(t))
        BY <2>2 DEF Indexed
      <4>2. k \in About(t)
        BY <2>4, <4>1
      <4> HIDE DEF k, ans, t
      <4>3. asker[c].at = "waiting" => k # Ask(c)
        BY <3>2, <4>2, OwnAsk
      <4>4. sending \subseteq sending' /\ replied \subseteq replied' /\ t \in Tasks \ {TaskOf[c]}
        BY <2>1, <2>2, <3>1, <3>2
      <4>5. Aside(c)
        BY <1>1, <2>1, <3>1, <4>3, <4>4, DropAside
      <4>6. QED
        BY <1>1, <4>5, AsideKeeps
    <3>3. CASE t = TaskOf[c]
      <4>1. asker[c].at = "waiting" /\ Ask(c) \in Pending /\ byTask[t] = <<Ask(c)>>
        BY <1>1, <2>4, <3>3 DEF Served, EntryOf
      <4>2. k = Ask(c) /\ Tail(byTask[t]) = <<>>
        BY <4>1
      <4>3. byTask'[TaskOf[c]] = <<>>
        BY <1>1, <3>1, <3>3, <4>2
      <4>4. byMsgID[k].ch = Ask(c)
        BY <1>2, <4>1, <4>2
      <4>5. ans \in sending' /\ ans.ch = Ask(c) /\ ans.ans.task = TaskOf[c]
        BY <3>1, <3>3, <4>1, <4>2, <4>4
      <4> HIDE DEF k, ans, t
      <4>6. QED
        BY <1>4, <2>1, <3>1, <4>1, <4>2, <4>3, <4>5
    <3>4. QED
      BY <3>2, <3>3
  <2>5. QED
    BY <2>3, <2>4
<1>7. ASSUME NEW s \in sending, Send(s)
      PROVE  Served(c)'
  <2>1. /\ sending' = sending \ {s} /\ UNCHANGED <<asked, askTask, asker, byMsgID, byTask, replied>>
        /\ buf' = IF buf[s.ch] = NoAnswer THEN [buf EXCEPT ![s.ch] = s.ans] ELSE buf
    BY <1>7 DEF Send, storeVars, humanVars
  <2>2. buf[s.ch] = NoAnswer /\ s.ch \in Asks /\ DOMAIN buf = Asks
    BY RepliesAssumption DEF IInv, Sends, Made, TypeOK, Asks
  <2>3. buf'[s.ch] = s.ans /\ \A n \in Asks \ {s.ch} : buf'[n] = buf[n]
    BY <2>1, <2>2
  <2>4. asker[c].at = "waiting" => Ask(c) \in Asks
    BY OwnAsk, RepliesAssumption DEF IInv, TypeOK, Asks
  <2>5. Aside(c)
    BY <2>1, <2>2, <2>3, <2>4 DEF Aside, Pending
  <2>6. QED
    BY <1>1, <2>5, AsideKeeps
<1>8. QED
  BY <1>3, <1>5, <1>6, <1>7

LEMMA Configured == [Next]_vars => telegram' = telegram
<1> USE DEF lifeVars
<1>1. ASSUME NEW a \in Askers, BeginAgent(a) \/ BeginChain(a) PROVE telegram' = telegram
  BY <1>1 DEF BeginAgent, BeginChain, Begin
<1>2. ASSUME NEW a \in Askers, AskedAgent(a) \/ AskedChain(a) \/ ExpireAgent(a) \/ ExpireChain(a)
      PROVE  telegram' = telegram
  BY <1>2 DEF AskedAgent, AskedChain, ExpireAgent, ExpireChain
<1>3. ASSUME NEW a \in Askers, Deliver(a) \/ AskFailed(a) \/ Receive(a) \/ ReceiveClosed(a)
      PROVE  telegram' = telegram
  BY <1>3 DEF Deliver, AskFailed, Receive, ReceiveClosed
<1>4. ASSUME NEW n \in Asks, Close(n) \/ Resolve(n) \/ ResolveByTask(n) PROVE telegram' = telegram
  BY <1>4 DEF Close, Resolve, ResolveByTask
<1>5. ASSUME NEW s \in sending, Send(s) PROVE telegram' = telegram
  BY <1>5 DEF Send
<1>6. ASSUME NEW a \in Agents, Recover(a) PROVE telegram' = telegram
  BY <1>6 DEF Recover
<1>7. Restart \/ UNCHANGED vars => telegram' = telegram
  BY DEF Restart, vars
<1>8. QED
  BY <1>1, <1>2, <1>3, <1>4, <1>5, <1>6, <1>7 DEF Next, Askers

LEMMA ChainNext == OwnTasks /\ CInv /\ [Next]_vars => CInv'
<1> SUFFICES ASSUME OwnTasks, CInv, [Next]_vars, IInv', Numbered', Indexed', NEW c \in Chains
             PROVE  Served(c)'
  BY NextInv, NumberedNext, IndexedNext, Configured DEF CInv
<1>1. CASE \E a \in Agents : \/ BeginAgent(a) \/ AskedAgent(a) \/ ExpireAgent(a) \/ Recover(a)
                             \/ Deliver(a) \/ AskFailed(a) \/ Receive(a) \/ ReceiveClosed(a)
  BY <1>1, AgentsAside, AsideKeeps DEF CInv
<1>2. CASE \E d \in Chains : \/ BeginChain(d) \/ AskedChain(d) \/ ExpireChain(d)
                             \/ Deliver(d) \/ AskFailed(d) \/ Receive(d) \/ ReceiveClosed(d)
  BY <1>2, ChainsServed
<1>3. CASE \/ \E n \in Asks : Close(n) \/ Resolve(n) \/ ResolveByTask(n)
           \/ \E s \in sending : Send(s)
  BY <1>3, AnswersServed
<1>4. CASE Restart
  <2>1. Pending' = {} /\ byTask' = [t \in Tasks |-> <<>>] /\ asker' = [a \in Askers |-> Rest]
    BY <1>4 DEF Restart, Pending
  <2>2. asker'[c].at = "idle" /\ byTask'[TaskOf[c]] = <<>>
    BY <2>1, RepliesAssumption DEF Askers, Rest
  <2>3. QED
    BY <2>1, <2>2 DEF Served, EntryOf, RoutableOf
<1>5. CASE UNCHANGED vars
  BY <1>5, AsideKeeps DEF CInv, vars, storeVars, chanVars, humanVars, Aside, Pending
<1>6. QED
  BY <1>1, <1>2, <1>3, <1>4, <1>5 DEF Next, Askers

\* The configuration does not change: the chains are served or nothing is said.
KInv == IInv /\ Numbered /\ Indexed /\ (telegram => CInv)

LEMMA ChainInvariant ==
  ASSUME OwnTasks
  PROVE  Spec => []KInv
<1>1. Init => KInv
  <2> SUFFICES ASSUME Init PROVE KInv
    OBVIOUS
  <2>1. Pending = {} /\ byTask = [t \in Tasks |-> <<>>] /\ asker = [a \in Askers |-> Rest]
        /\ askTask = <<>> /\ asked = 0 /\ sent = {}
    BY DEF Init, Pending
  <2>2. Numbered
    BY <2>1 DEF Numbered, Rest
  <2>3. Indexed
    BY <2>1 DEF Indexed
  <2>4. \A c \in Chains : Served(c)
    BY <2>1, RepliesAssumption DEF Served, EntryOf, RoutableOf, Rest, Askers
  <2>5. QED
    BY <2>2, <2>3, <2>4, InitInv DEF CInv, KInv
<1>2. KInv /\ [Next]_vars => KInv'
  <2> SUFFICES ASSUME KInv, [Next]_vars PROVE KInv'
    OBVIOUS
  <2>1. IInv' /\ Numbered' /\ Indexed'
    BY NextInv, NumberedNext, IndexedNext DEF KInv
  <2>2. telegram => CInv'
    BY ChainNext DEF KInv
  <2>3. QED
    BY <2>1, <2>2, Configured DEF KInv
<1>3. QED
  BY <1>1, <1>2, PTL DEF Spec

\* Where Telegram is configured and nobody else asks about a chain's task, the
\* chain's open question can be answered and its ended one leaves nothing in the
\* store, whatever the agents' placeholders, late answers, /answer and restarts do
\* to it (chain.go:137, 163-165).  Of a process without Telegram, where every chain
\* registers message 0, it says nothing.
THEOREM ChainsServedAlways ==
  ASSUME OwnTasks
  PROVE  Spec => []ChainServed
<1>1. KInv => ChainServed
  <2> SUFFICES ASSUME KInv, telegram PROVE ChainRoutable /\ ChainLeavesNothing
    BY DEF ChainServed
  <2>1. CInv
    BY DEF KInv
  <2>2. QED
    BY <2>1 DEF CInv, Served, EntryOf, RoutableOf, ChainRoutable, ChainLeavesNothing, MsgOf
<1>2. Spec => []KInv
  BY ChainInvariant
<1>3. QED
  BY <1>1, <1>2, PTL

=============================================================================
