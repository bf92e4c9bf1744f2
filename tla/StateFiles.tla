----------------------------- MODULE StateFiles -----------------------------
(***************************************************************************)
(* The file-backed stores of internal/state, each with its cache in        *)
(* memory: the skills of a role (an index, and a file in parts/ for a body *)
(* too long for the index), the resolved patterns (an index and a detail   *)
(* file each), the scratchpad (one file and an archive), the scope         *)
(* manifest of an agent, and its memory document.                          *)
(*                                                                         *)
(* A step is one file operation with the assignments before it.  A file    *)
(* operation may fail; the process may die between any two.                *)
(***************************************************************************)
EXTENDS Integers, Sequences, FiniteSets

CONSTANTS Skills,     \* skills that reflections may add
          Long,       \* those whose body exceeds maxSkillLines
          Anti,       \* the anti-patterns
          MaxSkills,  \* maxSkillsPerRole
          Patterns,   \* questions or errors that get resolved
          Entries,    \* entries of the scratchpad
          MaxEntries, \* maxScratchpadEntries
          Readers,    \* threads that read the scope manifest
          MaxCalls,   \* bound: calls that change a store
          MaxFaults,  \* bound: file operations that fail
          MaxCrashes, \* bound
          NoFile, Idle, Torn  \* no file or nothing cached, nobody at work, a file cut short

\* The patterns' index: how often each one in it was seen.
SeenCounts == UNION {[ps -> Nat] : ps \in SUBSET Patterns}

ASSUME FilesAssumption ==
    /\ IsFiniteSet(Skills) /\ Long \subseteq Skills /\ Anti \subseteq Skills
    /\ MaxSkills \in Nat \ {0} /\ MaxEntries \in Nat \ {0}
    /\ MaxCalls \in Nat /\ MaxFaults \in Nat /\ MaxCrashes \in Nat
    /\ NoFile \notin [seed : {"torn", "whole"}, sections : Nat]
    /\ Torn \notin Seq(Entries)
    /\ Idle \notin [p : Patterns, patterns : SeenCounts, at : {"open", "write", "index"}]
    /\ Idle \notin [e : Entries, at : {"archive", "open", "write"}, list : Seq(Entries),
                    lost : SUBSET Entries]

VARIABLES
    index, parts, cached, saving, \* skills: the index, the files in parts/, the cache, a Save
    seen, detail, known, noting,  \* patterns: the index, the files, the cache, a Save
    pad, archive, adding, acked,  \* scratchpad: the file, the archive, an AddEntry, done ones
    dropped,                      \* the entries the code gave up, and when: see EntriesKept
    scope, scopeCache, reading,   \* scope: the file, the cache, reads past the cache
    doc, seeding, asking, summed, \* agent's document, its seeding, summaries due, taken
    calls, faults, crashes

skillVars == <<index, parts, cached, saving>>
patternVars == <<seen, detail, known, noting>>
padVars == <<pad, archive, adding, acked, dropped>>
scopeVars == <<scope, scopeCache, reading>>
docVars == <<doc, seeding, asking, summed>>
filesVars == <<skillVars, patternVars, padVars, scopeVars, docVars, calls, faults, crashes>>

\* An index maps each skill in it to where its body is: "inline", in "parts",
\* or "gone".
FilesInit ==
    /\ index = NoFile /\ parts = {} /\ cached = NoFile /\ saving = Idle
    /\ seen = [p \in {} |-> 0] /\ known = NoFile /\ noting = Idle
    /\ detail = [p \in Patterns |-> "none"]
    /\ pad = <<>> /\ archive = {} /\ adding = Idle /\ acked = {} /\ dropped = {}
    /\ scope = [owns |-> 0, focus |-> 0] /\ scopeCache = NoFile
    /\ reading = [r \in Readers |-> Idle]
    /\ doc = NoFile /\ seeding = "stat" /\ asking = 0 /\ summed = 0
    /\ calls = 0 /\ faults = 0 /\ crashes = 0

Called == seeding = "done" /\ calls < MaxCalls /\ calls' = calls + 1
Failed == faults < MaxFaults /\ faults' = faults + 1

Call == Called /\ UNCHANGED <<faults, crashes>>
Go == UNCHANGED <<calls, faults, crashes>>
Fault == Failed /\ UNCHANGED <<calls, crashes>>

-----------------------------------------------------------------------------
(* Skills.  One agent of the role reflects at a time. *)

\* Load: the cached set itself, else the file, else an empty set.
Load == IF cached # NoFile THEN cached
        ELSE IF index # NoFile THEN index ELSE [s \in {} |-> "inline"]

\* Protected by pruneSkills: the anti-pattern is still in the index.
Protected(ss, s) == s \in Anti /\ ss[s] = "inline"

\* pruneSkills: what may be kept of ss.  Scores depend on use and age.
Pruned(ss) ==
    LET ids == DOMAIN ss IN
    {keep \in SUBSET ids :
        /\ Cardinality(keep) = IF Cardinality(ids) > MaxSkills THEN MaxSkills ELSE Cardinality(ids)
        /\ \A s \in ids \ keep, k \in keep : Protected(ss, s) => Protected(ss, k)}

\* The set that Save works on is the cached one, if there is one.
Mutate(ss) == cached' = IF cached = NoFile /\ index = NoFile THEN NoFile ELSE ss

ApplyReflection(new) ==
    /\ saving = Idle /\ Call
    /\ new \cap DOMAIN Load = {}
    /\ LET ss == [s \in DOMAIN Load \cup new |-> IF s \in new THEN "inline" ELSE Load[s]]
       IN \E keep \in Pruned(ss) :
            LET kept == [s \in keep |-> ss[s]]
            IN saving' = [ss |-> kept, todo |-> keep] /\ Mutate(kept)
    /\ UNCHANGED <<index, parts, patternVars, padVars, scopeVars, docVars>>

\* (faulty: the file is named before it is written)
AutoSplitEarly(s, ss) ==
    [ss |-> [ss EXCEPT ![s] = IF @ = "inline" /\ s \in Long THEN "parts"
                              ELSE IF @ = "parts" THEN "gone" ELSE @],
     parts |-> parts]

\* autoSplit of one skill.  A long body goes to parts/; what is left of a
\* skill split before is short, so that its DetailFile is cleared.
AutoSplit(s, ss) ==
    IF ss[s] = "inline" /\ s \in Long
    THEN [ss |-> [ss EXCEPT ![s] = "parts"], parts |-> parts \cup {s}]
    ELSE [ss |-> [ss EXCEPT ![s] = IF @ = "parts" THEN "gone" ELSE @], parts |-> parts]

SaveSplits(s) ==
    /\ saving # Idle /\ s \in saving.todo
    /\ LET split == AutoSplit(s, saving.ss) IN
       /\ parts' = split.parts
       /\ saving' = [ss |-> split.ss, todo |-> saving.todo \ {s}]
       /\ Mutate(split.ss)
    /\ Go /\ UNCHANGED <<index, patternVars, padVars, scopeVars, docVars>>

\* The index, by way of a temporary file.
SaveIndex ==
    /\ saving # Idle /\ saving.todo = {}
    /\ index' = saving.ss /\ cached' = saving.ss /\ saving' = Idle
    /\ Go /\ UNCHANGED <<parts, patternVars, padVars, scopeVars, docVars>>

\* A write fails: Save returns, the cached set stays as far as it got.
SaveFails ==
    /\ saving # Idle /\ saving' = Idle
    /\ Fault /\ UNCHANGED <<index, parts, cached, patternVars, padVars, scopeVars, docVars>>

-----------------------------------------------------------------------------
(* Resolved patterns: every operation holds the mutex *)

LoadIndex == IF known # NoFile THEN known ELSE seen

\* An entry that is there is counted in the cache at once; a new one goes to a
\* copy.  Callers: agents whose question was answered, the API.
SavePattern(p) ==
    /\ noting = Idle /\ Call
    /\ LET found == p \in DOMAIN LoadIndex
           new == [q \in DOMAIN LoadIndex \cup {p} |->
                     IF q # p THEN LoadIndex[q] ELSE IF found THEN LoadIndex[p] + 1 ELSE 1]
       IN /\ noting' = [p |-> p, patterns |-> new, at |-> "open"]
          /\ known' = IF found THEN new ELSE LoadIndex
    /\ UNCHANGED <<seen, detail, skillVars, padVars, scopeVars, docVars>>

\* The detail file is emptied, then written, before the index that names it.
WriteDetail ==
    /\ noting # Idle
    /\ \/ noting.at = "open" /\ detail' = [detail EXCEPT ![noting.p] = "torn"]
                             /\ noting' = [noting EXCEPT !.at = "write"]
       \/ noting.at = "write" /\ detail' = [detail EXCEPT ![noting.p] = "whole"]
                              /\ noting' = [noting EXCEPT !.at = "index"]
    /\ Go /\ UNCHANGED <<seen, known, skillVars, padVars, scopeVars, docVars>>

WriteIndex ==
    /\ noting # Idle /\ noting.at = "index"
    /\ seen' = noting.patterns /\ known' = noting.patterns /\ noting' = Idle
    /\ Go /\ UNCHANGED <<detail, skillVars, padVars, scopeVars, docVars>>

SavePatternFails ==
    /\ noting # Idle /\ noting' = Idle
    /\ Fault /\ UNCHANGED <<seen, detail, known, skillVars, padVars, scopeVars, docVars>>

\* The flag of an entry that is there: the properties do not tell it apart.
MarkResolved(p) ==
    /\ noting = Idle /\ Call /\ p \in DOMAIN LoadIndex
    /\ noting' = [p |-> p, patterns |-> LoadIndex, at |-> "index"] /\ known' = LoadIndex
    /\ UNCHANGED <<seen, detail, skillVars, padVars, scopeVars, docVars>>

-----------------------------------------------------------------------------
(* The scratchpad: under its mutex, too, and without a cache *)

Elements(list) == {list[i] : i \in DOMAIN list}

\* (faulty: one entry fewer is archived than is dropped)
OverflowShort(list) == SubSeq(list, 1, Len(list) - MaxEntries - 1)

\* The oldest entries beyond the limit.
Overflow(list) == SubSeq(list, 1, Len(list) - MaxEntries)

Kept(list) == IF Len(list) > MaxEntries THEN SubSeq(list, Len(list) - MaxEntries + 1, Len(list)) ELSE list

\* AddEntry starts afresh if the file cannot be parsed, and if it cannot be read.
\* lost: what this call will lose when it empties the file.
AddEntry(e) ==
    /\ adding = Idle /\ e \notin acked
    /\ \E failed \in BOOLEAN :
         /\ IF failed THEN Called /\ Failed /\ UNCHANGED crashes ELSE Call
         /\ LET old == IF pad = Torn THEN <<>> ELSE pad IN
            adding' = [e |-> e, at |-> "archive",
                       list |-> Append(IF failed THEN <<>> ELSE old, e),
                       lost |-> IF failed THEN Elements(old) ELSE {}]
    /\ UNCHANGED <<pad, archive, acked, dropped, skillVars, patternVars, scopeVars, docVars>>

\* What overflows is appended to the archive; if that fails it is dropped.
Archive ==
    /\ adding # Idle /\ adding.at = "archive"
    /\ LET over == Elements(Overflow(adding.list))
           next == [adding EXCEPT !.list = Kept(adding.list), !.at = "open"]
       IN \/ archive' = archive \cup over /\ adding' = next /\ Go
          \/ /\ Len(adding.list) > MaxEntries /\ Fault
             /\ adding' = [next EXCEPT !.lost = @ \cup over] /\ UNCHANGED archive
    /\ UNCHANGED <<pad, acked, dropped, skillVars, patternVars, scopeVars, docVars>>

\* flush empties the file and writes the list.
Flush ==
    /\ adding # Idle
    /\ \/ /\ adding.at = "open" /\ pad' = Torn /\ adding' = [adding EXCEPT !.at = "write"]
          /\ dropped' = dropped \cup adding.lost /\ UNCHANGED acked
       \/ /\ adding.at = "write" /\ pad' = adding.list /\ adding' = Idle
          /\ acked' = acked \cup {adding.e} /\ UNCHANGED dropped
    /\ Go /\ UNCHANGED <<archive, skillVars, patternVars, scopeVars, docVars>>

\* A write is cut short: what it was to write is gone from the file.
CutShort ==
    dropped' = IF adding # Idle /\ adding.at = "write"
               THEN dropped \cup Elements(adding.list) ELSE dropped

FlushFails ==
    /\ adding # Idle /\ adding.at \in {"open", "write"} /\ adding' = Idle /\ CutShort
    /\ Fault /\ UNCHANGED <<pad, archive, acked, skillVars, patternVars, scopeVars, docVars>>

-----------------------------------------------------------------------------
(* The scope manifest *)

Replace(m) == scope' = m /\ scopeCache' = m

\* Write and UpdateFocus hold the lock; the latter starts from the cache.
WriteScope ==
    /\ Call /\ Replace([owns |-> calls + 1, focus |-> 0])
    /\ UNCHANGED <<reading, skillVars, patternVars, padVars, docVars>>

UpdateFocus ==
    /\ Call
    /\ LET m == IF scopeCache # NoFile THEN scopeCache ELSE scope
       IN Replace([m EXCEPT !.focus = calls + 1])
    /\ UNCHANGED <<reading, skillVars, patternVars, padVars, docVars>>

\* Read and ReadAll miss the cache and read the file without the lock ...
ReadFile(r) ==
    /\ seeding = "done" /\ reading[r] = Idle /\ scopeCache = NoFile
    /\ reading' = [reading EXCEPT ![r] = scope]
    /\ Go /\ UNCHANGED <<scope, scopeCache, skillVars, patternVars, padVars, docVars>>

\* ... and put what they read into the cache.
ReadFill(r) ==
    /\ reading[r] # Idle
    /\ scopeCache' = reading[r] /\ reading' = [reading EXCEPT ![r] = Idle]
    /\ Go /\ UNCHANGED <<scope, skillVars, patternVars, padVars, docVars>>

-----------------------------------------------------------------------------
(* The memory document of an agent.  It holds so many appended sections, after *)
(* a default text that is "none", "torn" or "whole".                           *)

\* (faulty: the default replaces what is there)
SeedDefaultsAlways ==
    /\ seeding \in {"stat", "write"}
    /\ doc' = [seed |-> IF seeding = "stat" THEN "torn" ELSE "whole", sections |-> 0]
    /\ seeding' = IF seeding = "stat" THEN "write" ELSE "done"
    /\ Go /\ UNCHANGED <<asking, summed, skillVars, patternVars, padVars, scopeVars>>

\* seedDefaults, before the program starts anything: a file that exists, whole
\* or not, is left alone; another one is created, then written.
SeedDefaults ==
    /\ \/ seeding = "stat" /\ doc # NoFile /\ seeding' = "done" /\ UNCHANGED doc
       \/ seeding = "stat" /\ doc = NoFile /\ seeding' = "write"
          /\ doc' = [seed |-> "torn", sections |-> 0]
       \/ seeding = "write" /\ seeding' = "done" /\ doc' = [doc EXCEPT !.seed = "whole"]
    /\ Go /\ UNCHANGED <<asking, summed, skillVars, patternVars, padVars, scopeVars>>

\* CompressAgentHistory asks the model for a summary; an executed task has one
\* already.  Any number of them may be under way.
CompressAgentHistory ==
    /\ Call /\ asking' = asking + 1
    /\ UNCHANGED <<doc, seeding, summed, skillVars, patternVars, padVars, scopeVars>>

\* One write at the end of the file: nothing is read first.
AppendSection ==
    /\ asking > 0 /\ asking' = asking - 1
    /\ doc' = [doc EXCEPT !.sections = @ + 1] /\ summed' = summed + 1
    /\ Go /\ UNCHANGED <<seeding, skillVars, patternVars, padVars, scopeVars>>

\* The model, or the file, does not take it: the summary is dropped.
AppendFails ==
    /\ asking > 0 /\ asking' = asking - 1
    /\ Fault /\ UNCHANGED <<doc, seeding, summed, skillVars, patternVars, padVars, scopeVars>>

-----------------------------------------------------------------------------
\* The process dies and is started again: files stay.
Crash ==
    /\ crashes < MaxCrashes /\ crashes' = crashes + 1
    /\ cached' = NoFile /\ saving' = Idle /\ known' = NoFile /\ noting' = Idle /\ adding' = Idle
    /\ scopeCache' = NoFile /\ reading' = [r \in Readers |-> Idle]
    /\ seeding' = "stat" /\ asking' = 0 /\ CutShort
    /\ UNCHANGED <<index, parts, seen, detail, pad, archive, acked, scope, doc, summed, calls, faults>>

FilesNext ==
    \/ \E new \in SUBSET Skills \ {{}} : ApplyReflection(new)
    \/ \E s \in Skills : SaveSplits(s)
    \/ SaveIndex \/ SaveFails
    \/ \E p \in Patterns : SavePattern(p) \/ MarkResolved(p)
    \/ WriteDetail \/ WriteIndex \/ SavePatternFails
    \/ \E e \in Entries : AddEntry(e)
    \/ Archive \/ Flush \/ FlushFails
    \/ WriteScope \/ UpdateFocus
    \/ SeedDefaults \/ CompressAgentHistory \/ AppendSection \/ AppendFails
    \/ \E r \in Readers : ReadFile(r) \/ ReadFill(r)
    \/ Crash

FilesSpec == FilesInit /\ [][FilesNext]_filesVars

-----------------------------------------------------------------------------
(* Properties *)

\* An index, on disk or in the cache, names no file that is not there, whatever
\* write failed and wherever the process died.  A part file has its text; a
\* detail file, rewritten in place at every Save (resolved.go:201), has it unless
\* a failure or a crash has cut a write: LoadDetail, under the mutex, sees none
\* that is being written.
Rewriting(p) == noting # Idle /\ noting.p = p /\ noting.at = "write"

DetailsPresent ==
    /\ \A ss \in {index, cached} \ {NoFile} : \A s \in DOMAIN ss : ss[s] = "parts" => s \in parts
    /\ \A p \in DOMAIN seen :
         /\ detail[p] # "none"
         /\ faults = 0 /\ crashes = 0 => detail[p] = "whole" \/ Rewriting(p)

\* An entry AddEntry took is in the scratchpad or in the archive, or it is one of
\* those the code gives up, in three ways: the entries of a file that could not be
\* read when the next one is added (scratchpad.go:78), those whose archiving failed
\* (:89), and those of a file whose writing was cut (:207).  No other is lost, by
\* a crash or a failure between the writes of archive and file, or by overflow.
EntriesKept ==
    LET live == IF pad # Torn THEN Elements(pad)
                ELSE IF adding # Idle THEN Elements(adding.list) ELSE {}
    IN acked \subseteq live \cup archive \cup dropped

\* Every section that was appended stays in the document, however many calls
\* append at a time, and although each start seeds the documents again.
SectionsKept == summed = IF doc = NoFile THEN 0 ELSE doc.sections

=============================================================================
