--------------------------- MODULE ContextAssembly ---------------------------
(***************************************************************************)
(* One assembly of the memory an agent works with: BuildContext of         *)
(* memory/context.go with its parallel reads and its token budget, then    *)
(* either the enrichment of infra/memory/store.go from Redis, Qdrant and   *)
(* Neo4j under a deadline, or the executor's skill section and the system  *)
(* prompt of agent/base.go.                                                *)
(*                                                                         *)
(* A text is its size: in tokens (four bytes) up to the budget, in bytes   *)
(* in the skill section.  Truncate and Slice are exact in these units.     *)
(***************************************************************************)
EXTENDS Integers, Sequences, FiniteSets, SequencesExt

CONSTANTS
    DocSizes,      \* sizes a document on disk may have
    EntrySizes,    \* sizes of the text made of a recent task or a pattern
    AdrSizes,      \* sizes of a recorded decision
    MaxAdrs,       \* bound on the decisions on record
    Backends,      \* the remote stores this process was given
    BriefSkills    \* how many skills with long summaries a role may have

ASSUME SizesAssumption ==
    /\ DocSizes \subseteq Nat /\ EntrySizes \subseteq Nat /\ AdrSizes \subseteq Nat
    /\ MaxAdrs \in Nat /\ BriefSkills \subseteq Nat
    /\ Backends \subseteq {"redis", "qdrant", "neo4j"}

VARIABLES
    at,        \* where the assembly is
    cx,        \* the task's complexity
    pending,   \* reads that have not returned
    answered,  \* reads and fetches that returned something
    late,      \* the three seconds of the enrichment are over
    mem,       \* the MemoryContext under construction
    listed,    \* the decisions as ListADRs returned them
    shown,     \* what the finished context or prompt shows: <<section, source>>
    skills,    \* the role's skills, how many of each kind
    sec        \* the skill section under construction

vars == <<at, cx, pending, answered, late, mem, listed, shown, skills, sec>>

Complexities == {"S", "M", "L"}
Budget(c) == CASE c = "S" -> 2000 [] c = "M" -> 6000 [] c = "L" -> 12000
ProjectCap(c) == IF c = "L" THEN 2000 ELSE 800
RecentLimit(c) == IF c = "L" THEN 5 ELSE 3

---------------------------------------------------------------------------
(* Tokens and the budget                                                   *)

\* The mark "... [truncated]" is fifteen bytes.
Truncate(size, cap) == IF size <= cap THEN size ELSE cap + 4

Tokens(texts) ==
    LET upTo[i \in 0 .. Len(texts)] == IF i = 0 THEN 0 ELSE upTo[i - 1] + texts[i].size
    IN  upTo[Len(texts)]

Total(m) == m.project + m.agent + Tokens(m.code) + Tokens(m.adrs)

Tail_(texts, k) == Tokens(SubSeq(texts, k + 1, Len(texts)))

\* A plausible bug: the loop stops one text early.
ShortenOneLess(texts, excess) ==
    LET k == Max({0} \cup {j \in 0 .. Len(texts) : Tail_(texts, j) >= excess})
    IN  SubSeq(texts, 1, Min({Len(texts), k + 1}))

\* Texts are dropped from the end until the excess is gone.
Shorten(texts, excess) ==
    SubSeq(texts, 1,
           Max({0} \cup {k \in 0 .. Len(texts) : Tail_(texts, k) >= excess}))

\* What is still too much after dropping texts.
Left(texts, excess) == excess - Tail_(texts, Len(Shorten(texts, excess)))

\* A document is cut by the excess, to 200 tokens at the least.
CutBy(size, excess) ==
    IF excess <= 0 \/ size <= 200 THEN 0 ELSE Min({size - 200, excess})
Shrink(size, excess) ==
    IF CutBy(size, excess) = 0 THEN size
    ELSE Truncate(size, size - CutBy(size, excess))

Enforce(m, budget) ==
    LET e0 == Total(m) - budget
        e1 == Left(m.adrs, e0)
        e2 == IF e1 > 0 THEN Left(m.code, e1) ELSE e1
    IN  IF e0 <= 0 THEN m
        ELSE [m EXCEPT !.adrs = Shorten(@, e0),
                       !.code = IF e1 > 0 THEN Shorten(@, e1) ELSE @,
                       !.project = Shrink(@, e2),
                       !.agent = Shrink(@, e2 - CutBy(m.project, e2))]

---------------------------------------------------------------------------
(* Search among the known error patterns                                   *)

\* hits: the queries that contain the pattern or are contained in it;
\* tagged: those that contain one of its tags.
Known == {
    [name |-> "timeout", hits |-> {"title"}, tagged |-> {}, own |-> FALSE, seen |-> 1],
    [name |-> "nilmap", hits |-> {}, tagged |-> {"oldest"}, own |-> TRUE, seen |-> 1],
    [name |-> "import", hits |-> {}, tagged |-> {}, own |-> FALSE, seen |-> 7],
    [name |-> "race", hits |-> {"oldest"}, tagged |-> {"title", "oldest"}, own |-> TRUE, seen |-> 2] }

Score(p, query) ==
    (IF query \in p.hits THEN 3 ELSE 0) + (IF query \in p.tagged THEN 2 ELSE 0)
      + (IF p.own THEN 1 ELSE 0) + Min({p.seen, 3})

Relevant(known, query) == {p \in known : Score(p, query) >= 3}

\* The stores on disk the assembly may meet: none, one pattern, all.
Indexes == {{}, Known} \cup {{p} : p \in Known}

\* At most three, the best ones; the sort leaves ties in any order.
Search(known, query) ==
    {found \in SUBSET Relevant(known, query) :
        /\ Cardinality(found) = Min({3, Cardinality(Relevant(known, query))})
        /\ \A p \in found, q \in Relevant(known, query) \ found :
              Score(p, query) >= Score(q, query)}

Kinds == {"tagged", "brief", "avoid"}

---------------------------------------------------------------------------
(* memory.Store.BuildContext                                               *)

NoMem == [agent |-> 0, project |-> 0, code |-> <<>>, adrs |-> <<>>,
          recent |-> 0, scope |-> FALSE, scopes |-> FALSE, resolved |-> {}]
NoSec == [quick |-> 0, len |-> 0, left |-> 0, todo |-> {}]
NoSkills == [k \in Kinds |-> 0]

Reads(c) == CASE c = "S" -> {}
              [] c = "M" -> {"project", "recent", "resolved"}
              [] c = "L" -> {"project", "recent", "resolved", "scopes", "adrs"}

Init ==
    /\ at = "idle" /\ cx = "S" /\ pending = {} /\ answered = {} /\ late = FALSE
    /\ mem = NoMem /\ listed = <<>> /\ shown = {} /\ skills = NoSkills /\ sec = NoSec

Tier1(doc, scope, known) ==
    [NoMem EXCEPT !.agent = Truncate(doc, 800), !.scope = scope, !.resolved = known]

\* Tier 1 is read at once: the role's document and its scope, each of which
\* may be missing.  The other reads start, one goroutine each.  The context
\* also refers to the store of known error patterns.
BuildContext ==
    /\ at = "idle"
    /\ \E c \in Complexities, doc \in DocSizes \cup {0}, scope \in BOOLEAN,
         known \in Indexes :
         /\ cx' = c
         /\ pending' = Reads(c)
         /\ mem' = Tier1(doc, scope, known)
    /\ at' = "core"
    /\ UNCHANGED <<answered, late, listed, shown, skills, sec>>

\* A read or a fetch ends, with something or with nothing.
Ends(f, found) ==
    /\ pending' = pending \ {f}
    /\ answered' = IF found THEN answered \cup {f} ELSE answered
Returns(f) == Ends(f, TRUE)
Rest == UNCHANGED <<at, cx, late, shown, skills, sec>>

ReadFails(f) ==
    /\ f \in pending \ {"project"} /\ at = "core"
    /\ pending' = pending \ {f}
    /\ UNCHANGED <<answered, mem, listed>> /\ Rest

\* A missing document is replaced by a remark of seventeen tokens; one that is
\* there may be empty.
ReadProjectDoc ==
    /\ "project" \in pending
    /\ \E size \in DocSizes \cup {0, 17} :
         mem' = [mem EXCEPT !.project = size] /\ Ends("project", size > 0)
    /\ UNCHANGED listed /\ Rest

\* A plausible bug: the result replaces what another goroutine appended.
RecentByRoleReplaces ==
    /\ "recent" \in pending
    /\ \E n \in {1, RecentLimit(cx)}, size \in EntrySizes :
         mem' = [mem EXCEPT
             !.code = [i \in 1 .. n |-> [src |-> "recent", size |-> Truncate(size, 300)]],
             !.recent = n]
    /\ Returns("recent") /\ UNCHANGED listed /\ Rest

\* The last done and failed tasks of the role, newest first.
RecentByRole ==
    /\ "recent" \in pending
    /\ \E n \in {1, RecentLimit(cx)}, size \in EntrySizes :
         mem' = [mem EXCEPT
             !.code = @ \o [i \in 1 .. n |-> [src |-> "recent", size |-> Truncate(size, 300)]],
             !.recent = n]
    /\ Returns("recent") /\ UNCHANGED listed /\ Rest

ResolvedSearch ==
    /\ "resolved" \in pending
    /\ \E found \in Search(mem.resolved, "title"), size \in EntrySizes :
         /\ mem' = [mem EXCEPT
              !.code = @ \o [i \in 1 .. Cardinality(found) |->
                               [src |-> "resolved", size |-> Truncate(size, 200)]]]
         /\ Ends("resolved", found # {})
    /\ UNCHANGED listed /\ Rest

ReadAllScopes ==
    /\ "scopes" \in pending
    /\ mem' = [mem EXCEPT !.scopes = TRUE]
    /\ Returns("scopes") /\ UNCHANGED listed /\ Rest

\* Every decision on record, oldest first.
ListADRs ==
    /\ "adrs" \in pending
    /\ \E n \in 1 .. MaxAdrs : \E sizes \in [1 .. n -> AdrSizes] :
         listed' = [i \in 1 .. n |-> [src |-> "adrs", size |-> sizes[i]]]
    /\ mem' = [mem EXCEPT !.adrs = listed']
    /\ Returns("adrs") /\ Rest

\* wg.Wait, the cap on the project document, the budget.
Join ==
    /\ at = "core" /\ pending = {}
    /\ mem' = Enforce([mem EXCEPT !.project = Truncate(@, ProjectCap(cx))], Budget(cx))
    /\ at' = "built"
    /\ UNCHANGED <<cx, pending, answered, late, listed, shown, skills, sec>>

---------------------------------------------------------------------------
(* infra/memory.Store.BuildContext                                         *)

If(condition, pair) == IF condition THEN {pair} ELSE {}

\* What is taken over from the core's context.  The recent tasks are a slice
\* of pointers, and "%v" prints addresses; RelevantCode, ADRs and AllScopes
\* have no counterpart.  The known patterns are searched for once more: index
\* says whether their file can be read.
Legacy(m, team, index) ==
    {<<"RecentTasks", "addresses">>, <<"ScopeDoc", "scope">>}
      \cup If(m.project > 0, <<"ProjectDoc", "project">>)
      \cup If(m.agent > 0, <<"AgentDoc", "agent">>)
      \cup If(team, <<"ScratchPad", "team">>)
      \cup If(index /\ Relevant(m.resolved, "title") # {}, <<"KnownErrors", "resolved">>)

Fetches == (IF "redis" \in Backends THEN {"window"} ELSE {})
             \cup (IF "qdrant" \in Backends THEN {"code", "patterns"} ELSE {})
             \cup (IF "neo4j" \in Backends THEN {"blockers", "skill"} ELSE {})

Place(f) == CASE f = "window" -> "RecentTasks"   [] f = "code" -> "ScratchPad"
              [] f = "patterns" -> "KnownErrors" [] f = "blockers" -> "ScopeDoc"
              [] f = "skill" -> "AgentDoc"

\* The core's context is converted and the fetches start.  The index of known
\* patterns stays in memory once a search has read it.
StartFetches ==
    /\ at = "built"
    /\ \E team \in BOOLEAN, index \in {TRUE, "resolved" \in answered} :
         shown' = Legacy(mem, team, index)
    /\ pending' = Fetches /\ mem' = NoMem /\ listed' = <<>>
    /\ at' = IF Fetches = {} THEN "enriched" ELSE "fetch"
    /\ UNCHANGED <<cx, answered, late, skills, sec>>

FetchAnswers(f) ==
    /\ at = "fetch" /\ f \in pending
    /\ Returns(f)
    /\ UNCHANGED <<at, cx, late, mem, listed, shown, skills, sec>>

\* Nothing found, or an error.
FetchEmpty(f) ==
    /\ at = "fetch" /\ f \in pending
    /\ pending' = pending \ {f}
    /\ UNCHANGED <<at, cx, answered, late, mem, listed, shown, skills, sec>>

Fetch(f) == FetchAnswers(f) \/ FetchEmpty(f)

GetContextWindow == Fetch("window")
SearchSimilarCode == Fetch("code")
SearchResolvedPatterns == Fetch("patterns")
GetBlockingTasks == Fetch("blockers")
GetAgentSkillSummary == Fetch("skill")

\* The three seconds are over: whoever still waits gets an error.
Deadline ==
    /\ at = "fetch" /\ ~late
    /\ late' = TRUE
    /\ UNCHANGED <<at, cx, pending, answered, mem, listed, shown, skills, sec>>

\* A plausible bug: one of the clients is not given the context.
LateFetchFailsNoContext(f) == late /\ f # "code" /\ FetchEmpty(f)

LateFetchFails(f) == late /\ FetchEmpty(f)

\* wg.Wait and the merge.  Redis' window takes the place of the recent tasks,
\* everything else is appended.
Enrich ==
    /\ at = "fetch" /\ pending = {}
    /\ shown' = {p \in shown : ~("window" \in answered /\ p[1] = "RecentTasks")}
                  \cup {<<Place(f), f>> : f \in answered \cap Fetches}
    /\ at' = "enriched"
    /\ UNCHANGED <<cx, pending, answered, late, mem, listed, skills, sec>>

---------------------------------------------------------------------------
(* The executor: the skill section and the system prompt                   *)

\* Success in percent, uses, days since the last change, matching tags and
\* title words; line: bytes in the quick reference; body: bytes of the
\* description, rest: of pattern, examples and what to avoid.
KindOf == [
    tagged |-> [success |-> 80, used |-> 10, days |-> 5, tags |-> 2, words |-> 1,
                avoid |-> FALSE, split |-> TRUE, line |-> 90, body |-> 2500, rest |-> 0],
    brief  |-> [success |-> 95, used |-> 40, days |-> 90, tags |-> 0, words |-> 0,
                avoid |-> FALSE, split |-> FALSE, line |-> 160, body |-> 400, rest |-> 100],
    avoid  |-> [success |-> 50, used |-> 1, days |-> 10, tags |-> 0, words |-> 2,
                avoid |-> TRUE, split |-> FALSE, line |-> 90, body |-> 0, rest |-> 120]]

\* In ten-thousandths.
RelevanceScore == [k \in Kinds |->
    LET s == KindOf[k]
        base == s.success * 25 + Min({s.used, 20}) * 75
                  + (IF s.days > 30 THEN 30000 \div s.days ELSE 1000)
    IN  base + Min({s.tags * 2500, 5000}) + Min({s.words * 1500, 3000})
             + (IF s.avoid THEN 2000 ELSE 0)]

Limit(c) == CASE c = "S" -> 4 [] c = "M" -> 6 [] c = "L" -> 8

\* Skills of a kind are alike, and told apart by a number.
SkillsOf(counts) == UNION {{[kind |-> k, nth |-> j] : j \in 1 .. counts[k]} : k \in Kinds}

Before(s, t) ==
    \/ RelevanceScore[s.kind] > RelevanceScore[t.kind]
    \/ s.kind = t.kind /\ s.nth < t.nth

\* The best skills of the role, as many as the limit allows.
Ranked(counts, c) ==
    {s \in SkillsOf(counts) : Cardinality({t \in SkillsOf(counts) : Before(t, s)}) < Limit(c)}

\* A split skill's body is in a file of its own, which may be unreadable.
Body(k, readable) ==
    KindOf[k].rest + (IF KindOf[k].split /\ ~readable THEN 0 ELSE KindOf[k].body)

\* The entries to render: the best skills that have a body.
LoadRelevant(counts, c, readable) ==
    {[skill |-> s, size |-> 30 + Body(s.kind, readable)] :
        s \in {t \in Ranked(counts, c) : Body(t.kind, readable) > 0}}

LineBytes(counts, k) == counts[k] * KindOf[k].line
Lines(counts, dont) ==
    LET n == IF dont THEN LineBytes(counts, "avoid")
                     ELSE LineBytes(counts, "tagged") + LineBytes(counts, "brief")
    IN  IF n = 0 THEN 0 ELSE n + (IF dont THEN 12 ELSE 9)

QuickReference(counts) == 62 + Lines(counts, FALSE) + Lines(counts, TRUE)

\* The sections of the prompt follow from the context alone: they are fixed
\* here, before the skill section is rendered.  The known errors are searched
\* for with the last of the recent tasks, the oldest, or with the role.
Sections(m, team, index) ==
    If(m.project > 0, <<"PROJECT CONTEXT", "project">>)
      \cup If(m.agent > 0, <<"ROLE MEMORY", "agent">>)
      \cup If(team, <<"TEAM STATUS", "team">>)
      \cup If(m.recent > 0, <<"RECENT WORK", "recent">>)
      \cup {<<"RELEVANT CODE", m.code[i].src>> : i \in DOMAIN m.code}
      \cup If(m.adrs # <<>>, <<"DECISIONS", "adrs">>)
      \cup If(m.scope, <<"MY SCOPE", "scope">>)
      \cup If(m.scopes, <<"TEAM SCOPE", "scopes">>)
      \cup If(index /\ Relevant(m.resolved, IF m.recent > 0 THEN "oldest" ELSE "role") # {},
              <<"KNOWN ERRORS", "index">>)

MaxContextChars == 3200
ExhaustedNote == 53

\* The executor has its context.
TakeContext ==
    /\ at = "built"
    /\ \E team \in BOOLEAN, index \in {TRUE, "resolved" \in answered} :
         shown' = Sections(mem, team, index)
    /\ mem' = NoMem /\ listed' = <<>> /\ at' = "skills"
    /\ UNCHANGED <<cx, pending, answered, late, skills, sec>>

\* BuildSkillContextForTask up to the loop over the detailed skills.
SectionStart(counts, c, readable) ==
    LET entries == LoadRelevant(counts, c, readable)
        quick == QuickReference(counts) + (IF entries = {} THEN 0 ELSE 43)
    IN  IF counts = NoSkills THEN NoSec
        ELSE [quick |-> quick, len |-> quick, left |-> MaxContextChars - quick, todo |-> entries]

SkillContext ==
    /\ at = "skills" /\ at' = "render"
    /\ \E tagged \in {0, 2}, brief \in BriefSkills, avoid \in 0 .. 1, readable \in BOOLEAN :
         /\ skills' = [tagged |-> tagged, brief |-> brief, avoid |-> avoid]
         /\ sec' = SectionStart(skills', cx, readable)
    /\ UNCHANGED <<cx, pending, answered, late, mem, listed, shown>>

\* A plausible bug: no reserve, although the cut needs twenty bytes.
ReserveNone == 0

\* Below this many bytes nothing more is written.
Reserve == 200

\* One turn of the loop: nothing more, the whole entry, or a part of it and a
\* mark.  A slice with a negative bound panics.
RenderEntry ==
    /\ at = "render"
    /\ \E e \in sec.todo :
        /\ \A f \in sec.todo : ~Before(f.skill, e.skill)
        /\ \/ /\ sec.left <= Reserve
              /\ sec' = [sec EXCEPT !.len = @ + ExhaustedNote, !.todo = {}]
              /\ UNCHANGED at
           \/ /\ sec.left > Reserve /\ e.size <= sec.left
              /\ sec' = [sec EXCEPT !.len = @ + e.size, !.left = @ - e.size, !.todo = @ \ {e}]
              /\ UNCHANGED at
           \/ /\ sec.left > Reserve /\ e.size > sec.left
              /\ sec' = [sec EXCEPT !.len = @ + sec.left - 4, !.left = 4, !.todo = @ \ {e}]
              /\ at' = IF sec.left < 20 THEN "panicked" ELSE at
    /\ UNCHANGED <<cx, pending, answered, late, mem, listed, shown, skills>>

\* buildSystemPrompt: the section goes in when it is not empty.
Prompt ==
    /\ at = "render" /\ sec.todo = {}
    /\ shown' = shown \cup If(sec.len > 0, <<"SKILLS", "skills">>)
    /\ at' = "done"
    /\ UNCHANGED <<cx, pending, answered, late, mem, listed, skills, sec>>

\* The caller has what it asked for; the next call starts afresh.
Return ==
    /\ at \in {"done", "enriched"}
    /\ at' = "idle" /\ cx' = "S" /\ answered' = {} /\ late' = FALSE
    /\ shown' = {} /\ skills' = NoSkills /\ sec' = NoSec
    /\ UNCHANGED <<pending, mem, listed>>

---------------------------------------------------------------------------
CoreRead ==
    \/ \E f \in pending : ReadFails(f)
    \/ ReadProjectDoc \/ RecentByRole \/ ResolvedSearch \/ ReadAllScopes \/ ListADRs

Next ==
    \/ BuildContext \/ CoreRead \/ Join
    \/ StartFetches
    \/ GetContextWindow \/ SearchSimilarCode \/ SearchResolvedPatterns
    \/ GetBlockingTasks \/ GetAgentSkillSummary
    \/ \E f \in pending : LateFetchFails(f)
    \/ Deadline \/ Enrich
    \/ TakeContext \/ SkillContext \/ RenderEntry \/ Prompt
    \/ Return

\* Every goroutine gets on with its work.  Reads of files and of SQLite, which
\* has a deadline of its own, return; a remote store need not answer, but a
\* request fails once its context is done.
Progress ==
    \/ CoreRead \/ Join \/ StartFetches \/ TakeContext \/ SkillContext
    \/ Deadline \/ (\E f \in pending : LateFetchFails(f)) \/ Enrich
    \/ RenderEntry \/ Prompt

Spec == Init /\ [][Next]_vars /\ WF_vars(Progress)

---------------------------------------------------------------------------
(* Properties                                                              *)

\* The finished context is within the budget of its complexity, whatever the
\* goroutines returned, and the caps on the other texts are low enough that
\* only decisions are ever dropped for it: every other text that was read is
\* there.  Decisions are dropped from the end, and no more of them than needed:
\* the last one dropped would have exceeded the budget (memory/store.go,
\* enforceTokenBudget).  One behind it goes too, even if it would fit.
ContextFits ==
    at = "built" =>
      /\ Total(mem) <= Budget(cx)
      /\ mem.project \in {Truncate(size, ProjectCap(cx)) : size \in DocSizes \cup {0, 17}}
      /\ mem.agent \in {Truncate(size, 800) : size \in DocSizes \cup {0}}
      /\ Cardinality({i \in DOMAIN mem.code : mem.code[i].src = "recent"}) = mem.recent
      /\ "resolved" \in answered => \E i \in DOMAIN mem.code : mem.code[i].src = "resolved"
      /\ IsPrefix(mem.adrs, listed)
      /\ mem.adrs # listed => Total(mem) + listed[Len(mem.adrs) + 1].size > Budget(cx)

Sources == {p[2] : p \in shown}

\* What a read or a fetch returned in time is in the finished prompt or
\* context, in whatever order the goroutines came (agent/base.go,
\* buildSystemPrompt; infra/memory/store.go, BuildContext).  Excepted are the
\* decisions, which may have been dropped for the budget, and, in the enriched
\* context only, what infra/memory/store.go:69-76 does not take over: that
\* context has no field for decisions and for the scopes of the other roles,
\* and of the recent tasks it shows addresses, until Redis' window replaces them.
\* The known patterns are in it because they are searched for again.
NothingMissing ==
    /\ at \in {"skills", "render", "done"} => answered \ {"adrs"} \subseteq Sources
    /\ at = "enriched" => answered \ {"adrs", "scopes", "recent"} \subseteq Sources

\* The skill section is at most the larger of its limit and its quick
\* reference, plus one note, and no entry is cut at a negative length
\* (state/skills.go, BuildSkillContextForTask).
SectionBounded ==
    /\ at # "panicked"
    /\ sec.len <= Max({MaxContextChars, sec.quick}) + ExhaustedNote
    /\ sec.left < 0 => sec.len <= sec.quick + ExhaustedNote

\* An assembly that has begun ends, even when a remote store never answers
\* (the deadline of infra/memory/store.go, BuildContext).
BuildEnds == at = "core" ~> at \in {"done", "enriched"}
=============================================================================
