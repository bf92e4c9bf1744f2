---------------------------- MODULE MemoryProofs ----------------------------
(***************************************************************************)
(* What an agent is given to work with.  In the file-backed stores no      *)
(* index names a file that is not there, no entry of the scratchpad and no *)
(* section of a memory document is lost, for any number of skills,         *)
(* patterns, entries, calls, failing writes and crashes.  The assembled    *)
(* context is within its budget, keeps what was read, and its skill        *)
(* section is bounded, for any sizes of the texts.                         *)
(***************************************************************************)
EXTENDS StateFiles, ContextAssembly, SequenceTheorems, FiniteSetTheorems,
        WellFoundedInduction, TLAPS

-----------------------------------------------------------------------------
(* Skills and patterns *)

\* No skill of the index ss has its body in a file that is not there.
Found(ss, files) == \A s \in DOMAIN ss : ss[s] = "parts" => s \in files

SkillsInv ==
    /\ index # NoFile => Found(index, parts)
    /\ cached # NoFile => Found(cached, parts)
    /\ saving # Idle => Found(saving.ss, parts)

\* The patterns of the index ss have a detail file.
Written(ss, files) == ss \in SeenCounts /\ \A p \in DOMAIN ss : files[p] # "none"

PatternsInv ==
    /\ detail \in [Patterns -> {"none", "torn", "whole"}]
    /\ Written(seen, detail)
    /\ known # NoFile => Written(known, detail)
    /\ noting # Idle =>
          /\ noting = [p |-> noting.p, patterns |-> noting.patterns, at |-> noting.at]
          /\ noting.p \in Patterns /\ noting.patterns \in SeenCounts
          /\ noting.at \in {"open", "write", "index"}
          /\ \A q \in DOMAIN noting.patterns :
                detail[q] # "none" \/ (q = noting.p /\ noting.at = "open")

\* Until something fails, a detail file that is cut short is being written.
Undisturbed == faults = 0 /\ crashes = 0

WholeInv ==
    /\ faults \in Nat /\ crashes \in Nat
    /\ Undisturbed => \A p \in Patterns : detail[p] = "torn" => Rewriting(p)

SkillStep ==
    \/ \E new \in SUBSET Skills \ {{}} : ApplyReflection(new)
    \/ \E s \in Skills : SaveSplits(s)
    \/ SaveIndex \/ SaveFails

PatternStep ==
    \/ \E p \in Patterns : SavePattern(p) \/ MarkResolved(p)
    \/ WriteDetail \/ WriteIndex \/ SavePatternFails

PadStep == (\E e \in Entries : AddEntry(e)) \/ Archive \/ Flush \/ FlushFails
DocStep == SeedDefaults \/ CompressAgentHistory \/ AppendSection \/ AppendFails

\* A step works on one store, unless the process dies.
LEMMA OneStore ==
  ASSUME [FilesNext]_filesVars
  PROVE  /\ SkillStep \/ Crash \/ UNCHANGED skillVars
         /\ PatternStep \/ Crash \/ UNCHANGED patternVars
         /\ PadStep \/ Crash \/ UNCHANGED padVars
         /\ DocStep \/ Crash \/ UNCHANGED docVars
<1>1. CASE SkillStep
  BY <1>1 DEF SkillStep, ApplyReflection, SaveSplits, SaveIndex, SaveFails
<1>2. CASE PatternStep
  BY <1>2 DEF PatternStep, SavePattern, MarkResolved, WriteDetail, WriteIndex, SavePatternFails
<1>3. CASE PadStep
  BY <1>3 DEF PadStep, AddEntry, Archive, Flush, FlushFails
<1>4. CASE DocStep
  BY <1>4 DEF DocStep, SeedDefaults, CompressAgentHistory, AppendSection, AppendFails
<1>5. CASE WriteScope \/ UpdateFocus \/ \E r \in Readers : ReadFile(r) \/ ReadFill(r)
  BY <1>5 DEF WriteScope, UpdateFocus, ReadFile, ReadFill
<1>6. CASE Crash \/ UNCHANGED filesVars
  BY <1>6 DEF filesVars
<1>7. QED
  BY <1>1, <1>2, <1>3, <1>4, <1>5, <1>6 DEF FilesNext, SkillStep, PatternStep, PadStep, DocStep

LEMMA SkillsInit == FilesInit => SkillsInv
  BY DEF FilesInit, SkillsInv

LEMMA SkillsNext == SkillsInv /\ [FilesNext]_filesVars => SkillsInv'
<1> SUFFICES ASSUME SkillsInv, [FilesNext]_filesVars PROVE SkillsInv'
  OBVIOUS
<1>1. ASSUME NEW new \in SUBSET Skills \ {{}}, ApplyReflection(new) PROVE SkillsInv'
  <2> DEFINE ss == [s \in DOMAIN Load \cup new |-> IF s \in new THEN "inline" ELSE Load[s]]
  <2>1. Found(Load, parts)
    BY DEF SkillsInv, Load, Found
  <2>2. PICK keep \in Pruned(ss) :
          LET kept == [s \in keep |-> ss[s]]
          IN saving' = [ss |-> kept, todo |-> keep] /\ Mutate(kept)
    BY <1>1 DEF ApplyReflection
  <2>3. keep \subseteq DOMAIN ss
    BY DEF Pruned
  <2> DEFINE kept == [s \in keep |-> ss[s]]
  <2>4. \A s \in keep : kept[s] = (IF s \in new THEN "inline" ELSE Load[s]) /\ s \in DOMAIN Load \cup new
    BY <2>3
  <2>5. Found(kept, parts)
    BY <2>1, <2>4 DEF Found
  <2>6. saving' = [ss |-> kept, todo |-> keep] /\ Mutate(kept) /\ UNCHANGED <<index, parts>>
    BY <1>1, <2>2 DEF ApplyReflection
  <2> HIDE DEF kept, ss
  <2>7. QED
    BY <2>5, <2>6 DEF SkillsInv, Mutate
<1>2. ASSUME NEW s \in Skills, SaveSplits(s) PROVE SkillsInv'
  <2> DEFINE old == saving.ss
             new == AutoSplit(s, old).ss
             files == AutoSplit(s, old).parts
  <2>1. saving # Idle /\ Found(old, parts)
    BY <1>2 DEF SaveSplits, SkillsInv
  <2>2. /\ parts' = files /\ saving' = [ss |-> new, todo |-> saving.todo \ {s}]
        /\ Mutate(new) /\ index' = index
    BY <1>2 DEF SaveSplits
  <2>3. parts \subseteq files
    BY DEF AutoSplit
  <2> HIDE DEF old
  <2>4. Found(new, files)
    <3>1. CASE old[s] = "inline" /\ s \in Long
      <4>1. new = [old EXCEPT ![s] = "parts"] /\ files = parts \cup {s}
        BY <3>1 DEF AutoSplit
      <4> HIDE DEF new, files
      <4>2. QED
        BY <2>1, <4>1 DEF Found
    <3>2. CASE ~(old[s] = "inline" /\ s \in Long)
      <4>1. new = [old EXCEPT ![s] = IF @ = "parts" THEN "gone" ELSE @] /\ files = parts
        BY <3>2 DEF AutoSplit
      <4> HIDE DEF new, files
      <4>2. QED
        BY <2>1, <4>1 DEF Found
    <3>3. QED
      BY <3>1, <3>2
  <2> HIDE DEF new, files
  <2>5. QED
    BY <2>2, <2>3, <2>4 DEF SkillsInv, Mutate, Found
<1>3. CASE SaveIndex
  BY <1>3 DEF SaveIndex, SkillsInv
<1>4. CASE SaveFails
  BY <1>4 DEF SaveFails, SkillsInv
<1>5. CASE Crash
  BY <1>5 DEF Crash, SkillsInv
<1>6. CASE UNCHANGED skillVars
  BY <1>6 DEF skillVars, SkillsInv
<1>7. QED
  BY <1>1, <1>2, <1>3, <1>4, <1>5, <1>6, OneStore DEF SkillStep

LEMMA IndexIs ==
  ASSUME NEW ss
  PROVE  ss \in SeenCounts <=> DOMAIN ss \subseteq Patterns /\ ss \in [DOMAIN ss -> Nat]
<1>1. ss \in SeenCounts <=> \E ps \in SUBSET Patterns : ss \in [ps -> Nat]
  BY DEF SeenCounts
<1>2. \A ps : ss \in [ps -> Nat] => ps = DOMAIN ss
  OBVIOUS
<1>3. QED
  BY <1>1, <1>2

LEMMA PatternsInit == FilesInit => PatternsInv /\ WholeInv
<1> SUFFICES ASSUME FilesInit PROVE PatternsInv /\ WholeInv
  OBVIOUS
<1>1. seen \in SeenCounts /\ DOMAIN seen = {}
  BY IndexIs DEF FilesInit
<1>2. QED
  BY <1>1 DEF FilesInit, PatternsInv, WholeInv, Written

LEMMA PatternsNext == PatternsInv /\ [FilesNext]_filesVars => PatternsInv'
<1> SUFFICES ASSUME PatternsInv, [FilesNext]_filesVars PROVE PatternsInv'
  OBVIOUS
<1>1. Written(LoadIndex, detail)
  BY DEF PatternsInv, LoadIndex
<1>2. ASSUME NEW p \in Patterns, SavePattern(p) PROVE PatternsInv'
  <2> DEFINE found == p \in DOMAIN LoadIndex
             new == [q \in DOMAIN LoadIndex \cup {p} |->
                       IF q # p THEN LoadIndex[q] ELSE IF found THEN LoadIndex[p] + 1 ELSE 1]
  <2>1. /\ noting' = [p |-> p, patterns |-> new, at |-> "open"]
        /\ known' = (IF found THEN new ELSE LoadIndex) /\ UNCHANGED <<seen, detail>>
    BY <1>2 DEF SavePattern
  <2>2. DOMAIN new = DOMAIN LoadIndex \cup {p} /\ new \in SeenCounts
    <3>1. DOMAIN LoadIndex \subseteq Patterns /\ LoadIndex \in [DOMAIN LoadIndex -> Nat]
      BY <1>1, IndexIs DEF Written
    <3>2. DOMAIN new = DOMAIN LoadIndex \cup {p} /\ new \in [DOMAIN LoadIndex \cup {p} -> Nat]
      BY <3>1
    <3>3. QED
      BY <3>1, <3>2, IndexIs
  <2> HIDE DEF new
  <2>3. Written(known', detail)
    BY <1>1, <2>1, <2>2 DEF Written
  <2>4. /\ noting'.p = p /\ noting'.patterns = new /\ noting'.at = "open"
        /\ noting' = [p |-> noting'.p, patterns |-> noting'.patterns, at |-> noting'.at]
    BY <2>1
  <2>5. \A q \in DOMAIN LoadIndex : detail[q] # "none"
    BY <1>1 DEF Written
  <2>6. QED
    BY <2>1, <2>2, <2>3, <2>4, <2>5 DEF PatternsInv
<1>3. ASSUME NEW p \in Patterns, MarkResolved(p) PROVE PatternsInv'
  <2>1. /\ noting' = [p |-> p, patterns |-> LoadIndex, at |-> "index"]
        /\ known' = LoadIndex /\ UNCHANGED <<seen, detail>>
    BY <1>3 DEF MarkResolved
  <2>2. /\ noting'.p = p /\ noting'.patterns = LoadIndex /\ noting'.at = "index"
        /\ noting' = [p |-> noting'.p, patterns |-> noting'.patterns, at |-> noting'.at]
    BY <2>1
  <2>3. QED
    BY <1>1, <2>1, <2>2 DEF PatternsInv, Written
<1>4. CASE WriteDetail
  <2>1. PICK here \in {"torn", "whole"}, there \in {"write", "index"} :
          /\ detail' = [detail EXCEPT ![noting.p] = here]
          /\ noting' = [noting EXCEPT !.at = there]
          /\ UNCHANGED <<seen, known>>
    BY <1>4 DEF WriteDetail
  <2>2. noting # Idle
    BY <1>4 DEF WriteDetail
  <2>3. /\ detail' \in [Patterns -> {"none", "torn", "whole"}]
        /\ \A q \in Patterns : detail'[q] = IF q = noting.p THEN here ELSE detail[q]
    BY <2>1, <2>2 DEF PatternsInv
  <2>4. noting = [p |-> noting.p, patterns |-> noting.patterns, at |-> noting.at]
    BY <2>2 DEF PatternsInv
  <2>5. noting' = [p |-> noting.p, patterns |-> noting.patterns, at |-> there]
    BY <2>1, <2>4
  <2>6. /\ noting'.p = noting.p /\ noting'.patterns = noting.patterns /\ noting'.at = there
        /\ noting' = [p |-> noting'.p, patterns |-> noting'.patterns, at |-> noting'.at]
    BY <2>5
  <2>7. \A q \in Patterns : detail[q] # "none" => detail'[q] # "none"
    BY <2>3
  <2>8. Written(seen', detail') /\ (known' # NoFile => Written(known', detail'))
    BY <2>1, <2>7 DEF PatternsInv, Written
  <2>9. detail'[noting.p] # "none"
    BY <2>2, <2>3 DEF PatternsInv
  <2>10. /\ noting.p \in Patterns /\ noting.patterns \in SeenCounts
         /\ \A q \in DOMAIN noting.patterns : detail[q] # "none" \/ q = noting.p
    BY <2>2 DEF PatternsInv
  <2>11. \A q \in DOMAIN noting.patterns : detail'[q] # "none"
    BY <2>7, <2>9, <2>10, IndexIs
  <2>12. QED
    BY <2>3, <2>6, <2>8, <2>10, <2>11 DEF PatternsInv
<1>5. CASE WriteIndex
  BY <1>5 DEF WriteIndex, PatternsInv, Written
<1>6. CASE SavePatternFails
  BY <1>6 DEF SavePatternFails, PatternsInv
<1>7. CASE Crash
  BY <1>7 DEF Crash, PatternsInv
<1>8. CASE UNCHANGED patternVars
  BY <1>8 DEF patternVars, PatternsInv
<1>9. QED
  BY <1>2, <1>3, <1>4, <1>5, <1>6, <1>7, <1>8, OneStore DEF PatternStep

LEMMA WholeNext == PatternsInv /\ WholeInv /\ [FilesNext]_filesVars => WholeInv'
<1> SUFFICES ASSUME PatternsInv, WholeInv, [FilesNext]_filesVars PROVE WholeInv'
  OBVIOUS
<1>1. faults' \in {faults, faults + 1} /\ crashes' \in {crashes, crashes + 1}
  <2> USE DEF Call, Called, Go, Fault, Failed
  <2>1. CASE SkillStep
    BY <2>1 DEF SkillStep, ApplyReflection, SaveSplits, SaveIndex, SaveFails
  <2>2. CASE PatternStep
    BY <2>2 DEF PatternStep, SavePattern, MarkResolved, WriteDetail, WriteIndex, SavePatternFails
  <2>3. CASE PadStep
    BY <2>3 DEF PadStep, AddEntry, Archive, Flush, FlushFails
  <2>4. CASE DocStep
    BY <2>4 DEF DocStep, SeedDefaults, CompressAgentHistory, AppendSection, AppendFails
  <2>5. CASE WriteScope \/ UpdateFocus \/ \E r \in Readers : ReadFile(r) \/ ReadFill(r)
    BY <2>5 DEF WriteScope, UpdateFocus, ReadFile, ReadFill
  <2>6. CASE Crash \/ UNCHANGED filesVars
    BY <2>6 DEF Crash, filesVars
  <2>7. QED
    BY <2>1, <2>2, <2>3, <2>4, <2>5, <2>6
       DEF FilesNext, SkillStep, PatternStep, PadStep, DocStep
<1>2. faults' \in Nat /\ crashes' \in Nat /\ (Undisturbed' => Undisturbed)
  BY <1>1 DEF WholeInv, Undisturbed
<1>3. CASE UNCHANGED patternVars
  BY <1>2, <1>3 DEF WholeInv, patternVars, Rewriting
<1>4. CASE \E p \in Patterns : SavePattern(p) \/ MarkResolved(p)
  BY <1>2, <1>4 DEF WholeInv, Rewriting, SavePattern, MarkResolved
<1>5. CASE WriteDetail
  <2>1. /\ noting # Idle /\ noting.p \in Patterns
        /\ noting = [p |-> noting.p, patterns |-> noting.patterns, at |-> noting.at]
    BY <1>5 DEF WriteDetail, PatternsInv
  <2>2. CASE /\ noting.at = "open" /\ detail' = [detail EXCEPT ![noting.p] = "torn"]
             /\ noting' = [noting EXCEPT !.at = "write"]
    <3>1. noting' = [p |-> noting.p, patterns |-> noting.patterns, at |-> "write"]
      BY <2>1, <2>2
    <3>2. noting'.p = noting.p /\ noting'.at = "write" /\ noting' # Idle
      <4>1. noting' \in [p : Patterns, patterns : SeenCounts, at : {"open", "write", "index"}]
        BY <2>1, <3>1 DEF PatternsInv
      <4>2. Idle \notin [p : Patterns, patterns : SeenCounts, at : {"open", "write", "index"}]
        BY FilesAssumption
      <4>3. noting'.p = noting.p /\ noting'.at = "write"
        BY <3>1
      <4>4. QED
        BY <4>1, <4>2, <4>3
    <3>3. ASSUME Undisturbed, NEW p \in Patterns, detail'[p] = "torn"
          PROVE  p = noting.p
      BY <2>1, <2>2, <3>3 DEF WholeInv, Rewriting, PatternsInv
    <3>4. QED
      BY <1>2, <3>2, <3>3 DEF WholeInv, Rewriting
  <2>3. CASE noting.at = "write" /\ detail' = [detail EXCEPT ![noting.p] = "whole"]
    BY <1>2, <2>1, <2>3 DEF WholeInv, Rewriting, PatternsInv
  <2>4. QED
    BY <1>5, <2>2, <2>3 DEF WriteDetail
<1>6. CASE WriteIndex
  BY <1>2, <1>6 DEF WholeInv, Rewriting, WriteIndex
<1>7. CASE SavePatternFails \/ Crash
  BY <1>2, <1>7 DEF WholeInv, Undisturbed, SavePatternFails, Fault, Failed, Crash
<1>8. QED
  BY <1>3, <1>4, <1>5, <1>6, <1>7, OneStore DEF PatternStep

\* No index of skills or patterns, on disk or in the cache, names a file that
\* is not there, whatever write fails and wherever the process dies, and until
\* something does a detail file that is not being written is whole (skills.go:
\* Save, autoSplit; resolved.go: Save).
THEOREM FilesFound == FilesSpec => []DetailsPresent
<1>1. SkillsInv /\ PatternsInv /\ WholeInv => DetailsPresent
  <2> SUFFICES ASSUME SkillsInv, PatternsInv, WholeInv PROVE DetailsPresent
    OBVIOUS
  <2>1. \A ss \in {index, cached} \ {NoFile} : \A s \in DOMAIN ss : ss[s] = "parts" => s \in parts
    BY DEF SkillsInv, Found
  <2>2. ASSUME NEW p \in DOMAIN seen
        PROVE  /\ detail[p] # "none"
               /\ faults = 0 /\ crashes = 0 => detail[p] = "whole" \/ Rewriting(p)
    BY IndexIs DEF PatternsInv, WholeInv, Written, Undisturbed
  <2>3. QED
    BY <2>1, <2>2 DEF DetailsPresent
<1>2. QED
  BY <1>1, SkillsInit, SkillsNext, PatternsInit, PatternsNext, WholeNext, PTL DEF FilesSpec

-----------------------------------------------------------------------------
(* The scratchpad *)

LEMMA ElementsAppended ==
  ASSUME NEW S, NEW list \in Seq(S), NEW e
  PROVE  Elements(Append(list, e)) = Elements(list) \cup {e}
<1>1. /\ Len(list) \in Nat /\ Len(Append(list, e)) = Len(list) + 1
      /\ \A i \in 1..Len(list) : Append(list, e)[i] = list[i]
      /\ Append(list, e)[Len(list) + 1] = e
      /\ DOMAIN list = 1..Len(list) /\ DOMAIN Append(list, e) = 1..(Len(list) + 1)
  BY AppendProperties, LenProperties
<1> DEFINE longer == Append(list, e)
<1> HIDE DEF longer
<1>2. \A i \in 1..(Len(list) + 1) : i \in 1..Len(list) \/ i = Len(list) + 1
  BY <1>1
<1>3. 1..Len(list) \subseteq 1..(Len(list) + 1) /\ Len(list) + 1 \in 1..(Len(list) + 1)
  BY <1>1
<1>4. Elements(longer) = Elements(list) \cup {e}
  BY <1>1, <1>2, <1>3 DEF Elements, longer
<1>5. QED
  BY <1>4 DEF longer

LEMMA ElementsIn ==
  ASSUME NEW S, NEW list \in Seq(S)
  PROVE  Elements(list) \subseteq S
  BY LenProperties, ElementOfSeq DEF Elements

\* Nothing is dropped but what is archived.
LEMMA KeptOrArchived ==
  ASSUME NEW S, NEW list \in Seq(S)
  PROVE  /\ Kept(list) \in Seq(S)
         /\ Elements(list) \subseteq Elements(Kept(list)) \cup Elements(Overflow(list))
         /\ Len(list) > MaxEntries => Elements(Overflow(list)) \subseteq S
<1> DEFINE n == Len(list)
<1>1. n \in Nat /\ DOMAIN list = 1..n /\ MaxEntries \in Nat \ {0}
  BY LenProperties, FilesAssumption
<1>2. CASE n <= MaxEntries
  <2>1. ~(Len(list) > MaxEntries)
    BY <1>1, <1>2
  <2>2. Kept(list) = list
    BY <2>1 DEF Kept
  <2>3. QED
    BY <2>1, <2>2
<1>3. CASE n > MaxEntries
  <2> DEFINE k == n - MaxEntries
             new == SubSeq(list, k + 1, n)
             old == SubSeq(list, 1, k)
  <2>1. k \in 1..n /\ Kept(list) = new /\ Overflow(list) = old
    BY <1>1, <1>3 DEF Kept, Overflow
  <2>2. new \in Seq(S) /\ Len(new) = n - k /\ \A i \in 1..(n - k) : new[i] = list[k + i]
    <3>1. k + 1 \in 1..(n + 1) /\ n \in k..n
      BY <1>1, <2>1
    <3>2. \A i \in (k + 1)..n : list[i] \in S
      BY <1>1, <2>1, ElementOfSeq
    <3> HIDE DEF k
    <3>3. SubSeq(list, k + 1, n) = [i \in 1..(n - (k + 1) + 1) |-> list[k + 1 + i - 1]]
      BY <1>1, <2>1
    <3>4. n - (k + 1) + 1 = n - k /\ n - k \in Nat
      BY <1>1, <2>1
    <3>5. new = [i \in 1..(n - k) |-> list[k + i]]
      BY <1>1, <2>1, <3>3, <3>4
    <3>6. \A i \in 1..(n - k) : list[k + i] \in S
      BY <1>1, <2>1, <3>2
    <3> HIDE DEF new, n
    <3>7. new \in Seq(S) /\ Len(new) = n - k
      BY <3>4, <3>5, <3>6, IsASeq, LenProperties
    <3>8. QED
      BY <3>5, <3>7
  <2>3. DOMAIN old = 1..k /\ \A i \in 1..k : old[i] = list[i]
    <3> HIDE DEF k
    <3>1. old = [i \in 1..k |-> list[i]]
      BY <1>1, <2>1
    <3>2. QED
      BY <3>1
  <2>4. DOMAIN new = 1..(n - k)
    BY <2>2, LenProperties
  <2> HIDE DEF new, old
  <2>5. ASSUME NEW i \in 1..n PROVE list[i] \in Elements(new) \cup Elements(old)
    <3>1. CASE i <= k
      BY <2>1, <2>3, <3>1 DEF Elements
    <3>2. CASE i > k
      <4>1. i - k \in 1..(n - k) /\ k + (i - k) = i
        BY <1>1, <2>1, <3>2
      <4>2. new[i - k] = list[i]
        BY <2>2, <4>1
      <4>3. QED
        BY <2>4, <4>1, <4>2 DEF Elements
    <3>3. QED
      BY <1>1, <2>1, <3>1, <3>2
  <2>6. ASSUME NEW i \in 1..k PROVE old[i] \in S
    <3>1. i \in 1..n /\ old[i] = list[i]
      BY <1>1, <2>1, <2>3
    <3>2. QED
      BY <3>1, ElementOfSeq
  <2>7. Elements(old) \subseteq S
    BY <2>3, <2>6 DEF Elements
  <2>8. QED
    BY <1>1, <2>1, <2>2, <2>5, <2>7 DEF Elements
<1>4. QED
  BY <1>1, <1>2, <1>3

\* Who is at work on the scratchpad.
Added == adding = [e |-> adding.e, at |-> adding.at, list |-> adding.list, lost |-> adding.lost]

OnFile == IF pad = Torn THEN {} ELSE Elements(pad)

\* Where the entries are: in the file until it is emptied, in the list that is
\* written in its place, or among what the call loses.
PadInv ==
    /\ pad = Torn \/ pad \in Seq(Entries)
    /\ acked \subseteq Entries
    /\ adding # Idle =>
          /\ Added /\ adding.e \in Entries /\ adding.list \in Seq(Entries)
          /\ adding.at \in {"archive", "open", "write"} /\ adding.lost \subseteq Entries
          /\ acked \cup {adding.e} \subseteq
                Elements(adding.list) \cup archive \cup dropped \cup adding.lost
          /\ adding.at = "write" => pad = Torn /\ adding.lost \subseteq dropped
    /\ adding = Idle \/ adding.at # "write" => acked \subseteq OnFile \cup archive \cup dropped

LEMMA PadInit == FilesInit => PadInv
<1> SUFFICES ASSUME FilesInit PROVE PadInv
  OBVIOUS
<1>1. pad = <<>> /\ acked = {} /\ adding = Idle
  BY DEF FilesInit
<1>2. pad \in Seq(Entries)
  <2>1. <<>> \in Seq(Entries)
    BY EmptySeq
  <2>2. QED
    BY <1>1, <2>1
<1>3. QED
  BY <1>1, <1>2 DEF PadInv

LEMMA AddEntryKeeps ==
  ASSUME PadInv, NEW e \in Entries, AddEntry(e)
  PROVE  PadInv'
<1> DEFINE old == IF pad = Torn THEN <<>> ELSE pad
<1>1. PICK failed \in BOOLEAN :
        adding' = [e |-> e, at |-> "archive",
                   list |-> Append(IF failed THEN <<>> ELSE old, e),
                   lost |-> IF failed THEN Elements(old) ELSE {}]
  BY DEF AddEntry
<1> DEFINE from == IF failed THEN <<>> ELSE old
           lost == IF failed THEN Elements(old) ELSE {}
           list == Append(from, e)
<1>2. adding = Idle /\ UNCHANGED <<pad, archive, acked, dropped>>
  BY DEF AddEntry
<1>3. old \in Seq(Entries) /\ from \in Seq(Entries)
  BY DEF PadInv
<1>4. list \in Seq(Entries) /\ Elements(list) = Elements(from) \cup {e} /\ lost \subseteq Entries
  BY <1>3, AppendProperties, ElementsAppended, ElementsIn
<1>5. OnFile \subseteq Elements(from) \cup lost
  BY DEF OnFile
<1>6. acked \subseteq OnFile \cup archive \cup dropped
  BY <1>2 DEF PadInv
<1> HIDE DEF list, lost, from
<1>7. adding' = [e |-> e, at |-> "archive", list |-> list, lost |-> lost]
  BY <1>1 DEF list, lost, from
<1>8. adding'.e = e /\ adding'.at = "archive" /\ adding'.list = list /\ adding'.lost = lost
  BY <1>7
<1>9. Added' /\ OnFile' = OnFile
  BY <1>2, <1>7, <1>8 DEF Added, OnFile
<1>10. QED
  BY <1>2, <1>4, <1>5, <1>6, <1>8, <1>9 DEF PadInv

LEMMA ArchiveKeeps ==
  ASSUME PadInv, Archive
  PROVE  PadInv'
<1> DEFINE list == adding.list
           over == Elements(Overflow(list))
<1>1. adding # Idle /\ adding.at = "archive" /\ UNCHANGED <<pad, acked, dropped>>
  BY DEF Archive
<1>2. Added /\ list \in Seq(Entries) /\ adding.e \in Entries
  BY <1>1 DEF PadInv
<1>3. /\ Kept(list) \in Seq(Entries) /\ adding.lost \subseteq Entries
      /\ Elements(list) \subseteq Elements(Kept(list)) \cup over
      /\ Len(list) > MaxEntries => over \subseteq Entries
  BY <1>1, <1>2, KeptOrArchived DEF PadInv
<1>4. PICK lost \in SUBSET Entries :
        /\ adding' = [e |-> adding.e, at |-> "open", list |-> Kept(list), lost |-> lost]
        /\ archive \cup adding.lost \cup over \subseteq archive' \cup lost
        /\ archive \subseteq archive'
  <2> DEFINE next == [adding EXCEPT !.list = Kept(list), !.at = "open"]
  <2>1. next = [e |-> adding.e, at |-> "open", list |-> Kept(list), lost |-> adding.lost]
    <3> DEFINE flat == [e |-> adding.e, at |-> "open", list |-> Kept(list), lost |-> adding.lost]
    <3> HIDE DEF list
    <3>1. DOMAIN adding = {"e", "at", "list", "lost"}
      BY <1>2 DEF Added
    <3>2. /\ DOMAIN next = {"e", "at", "list", "lost"} /\ next = [x \in DOMAIN next |-> next[x]]
          /\ next.e = flat.e /\ next.at = flat.at
          /\ next.list = flat.list /\ next.lost = flat.lost
      BY <3>1
    <3>3. DOMAIN flat = {"e", "at", "list", "lost"} /\ flat = [x \in DOMAIN flat |-> flat[x]]
      OBVIOUS
    <3> HIDE DEF next, flat
    <3>4. next = flat
      BY <3>2, <3>3
    <3>5. QED
      BY <3>4 DEF flat
  <2> HIDE DEF next
  <2>2. CASE archive' = archive \cup over /\ adding' = next
    BY <1>3, <2>1, <2>2
  <2>3. CASE /\ adding' = [next EXCEPT !.lost = @ \cup over] /\ archive' = archive
             /\ Len(list) > MaxEntries
    <3> DEFINE lost == adding.lost \cup over
    <3>1. adding' = [e |-> adding.e, at |-> "open", list |-> Kept(list), lost |-> lost]
      BY <2>1, <2>3
    <3>2. lost \in SUBSET Entries
      BY <1>3, <2>3
    <3>3. QED
      BY <2>3, <3>1, <3>2
  <2>4. QED
    BY <2>2, <2>3 DEF Archive, next
<1> HIDE DEF over, list
<1>5. /\ adding'.e = adding.e /\ adding'.at = "open"
      /\ adding'.list = Kept(list) /\ adding'.lost = lost /\ Added'
  BY <1>4 DEF Added
<1>6. acked \cup {adding.e} \subseteq Elements(list) \cup archive \cup dropped \cup adding.lost
  BY <1>1 DEF PadInv, list
<1>7. acked' \cup {adding'.e} \subseteq
        Elements(adding'.list) \cup archive' \cup dropped' \cup adding'.lost
  BY <1>1, <1>3, <1>4, <1>5, <1>6
<1>8. acked' \subseteq OnFile' \cup archive' \cup dropped'
  BY <1>1, <1>4 DEF PadInv, OnFile
<1>9. QED
  BY <1>1, <1>2, <1>3, <1>5, <1>7, <1>8 DEF PadInv

LEMMA FlushKeeps ==
  ASSUME PadInv, Flush
  PROVE  PadInv'
<1>1. adding # Idle /\ archive' = archive
  BY DEF Flush
<1>2. Added /\ adding.list \in Seq(Entries) /\ adding.e \in Entries
  BY <1>1 DEF PadInv
<1>3. CASE /\ pad' = Torn /\ adding' = [adding EXCEPT !.at = "write"]
           /\ dropped' = dropped \cup adding.lost /\ acked' = acked
  <2>1. adding' = [e |-> adding.e, at |-> "write", list |-> adding.list, lost |-> adding.lost]
    BY <1>2, <1>3 DEF Added
  <2>2. /\ adding'.e = adding.e /\ adding'.at = "write"
        /\ adding'.list = adding.list /\ adding'.lost = adding.lost /\ Added'
    BY <2>1 DEF Added
  <2>3. adding' # Idle
    <3>1. adding' \in [e : Entries, at : {"archive", "open", "write"}, list : Seq(Entries),
                       lost : SUBSET Entries]
      BY <1>1, <1>2, <2>1 DEF PadInv
    <3>2. QED
      BY <3>1, FilesAssumption
  <2>4. QED
    BY <1>1, <1>2, <1>3, <2>2, <2>3 DEF PadInv
<1>4. CASE /\ adding.at = "write" /\ pad' = adding.list /\ adding' = Idle
           /\ acked' = acked \cup {adding.e} /\ dropped' = dropped
  <2>1. OnFile' = Elements(adding.list)
    BY <1>2, <1>4, FilesAssumption DEF OnFile
  <2>2. adding.lost \subseteq dropped
    BY <1>1, <1>4 DEF PadInv
  <2>3. acked' \subseteq OnFile' \cup archive' \cup dropped'
    BY <1>1, <1>4, <2>1, <2>2 DEF PadInv
  <2>4. QED
    BY <1>1, <1>2, <1>4, <2>3 DEF PadInv
<1>5. QED
  BY <1>3, <1>4 DEF Flush

\* The call ends, or the process dies: if the write was cut, its list is dropped.
LEMMA CutKeeps ==
  ASSUME PadInv, CutShort, adding' = Idle, UNCHANGED <<pad, archive, acked>>
  PROVE  PadInv'
<1>1. acked \subseteq OnFile \cup archive \cup dropped'
  BY DEF PadInv, CutShort
<1>2. QED
  BY <1>1 DEF PadInv, OnFile

LEMMA PadNext == PadInv /\ [FilesNext]_filesVars => PadInv'
<1> SUFFICES ASSUME PadInv, [FilesNext]_filesVars PROVE PadInv'
  OBVIOUS
<1>1. CASE FlushFails \/ Crash
  BY <1>1, CutKeeps DEF FlushFails, Crash
<1>2. CASE UNCHANGED padVars
  BY <1>2 DEF padVars, PadInv, Added, OnFile
<1>3. QED
  BY <1>1, <1>2, AddEntryKeeps, ArchiveKeeps, FlushKeeps, OneStore DEF PadStep

\* An entry AddEntry took is in the scratchpad or in the archive, unless it is one
\* the code gave up: not read when the next was added, not archived, or in a file
\* whose writing was cut.  No crash and no failing write between the archive and
\* the file loses another (scratchpad.go: AddEntry, archive, flush).
THEOREM EntriesStay == FilesSpec => []EntriesKept
<1>1. PadInv => EntriesKept
  BY DEF PadInv, EntriesKept, OnFile
<1>2. QED
  BY <1>1, PadInit, PadNext, PTL DEF FilesSpec

-----------------------------------------------------------------------------
(* The memory documents *)

Docs == [seed : {"torn", "whole"}, sections : Nat]

DocInv ==
    /\ doc \in Docs \cup {NoFile} /\ summed \in Nat /\ asking \in Nat
    /\ seeding \in {"stat", "write", "done"}
    /\ seeding # "stat" => doc # NoFile
    /\ asking > 0 => seeding = "done"
    /\ SectionsKept

LEMMA DocIs ==
  /\ NoFile \notin Docs
  /\ \A d \in Docs : /\ d.sections \in Nat
                     /\ [d EXCEPT !.seed = "whole"] \in Docs
                     /\ [d EXCEPT !.seed = "whole"].sections = d.sections
                     /\ [d EXCEPT !.sections = @ + 1] \in Docs
                     /\ [d EXCEPT !.sections = @ + 1].sections = d.sections + 1
  BY FilesAssumption DEF Docs

LEMMA DocInit == FilesInit => DocInv
  BY DEF FilesInit, DocInv, SectionsKept

LEMMA DocNext == DocInv /\ [FilesNext]_filesVars => DocInv'
<1> SUFFICES ASSUME DocInv, [FilesNext]_filesVars PROVE DocInv'
  OBVIOUS
<1>1. CASE SeedDefaults
  <2>1. summed' = summed /\ asking' = asking /\ asking = 0
    BY <1>1 DEF SeedDefaults, DocInv
  <2>2. CASE seeding = "stat" /\ doc # NoFile /\ seeding' = "done" /\ doc' = doc
    BY <2>1, <2>2 DEF DocInv, SectionsKept
  <2>3. CASE seeding = "stat" /\ doc = NoFile /\ seeding' = "write" /\ doc' = [seed |-> "torn", sections |-> 0]
    <3>1. doc' \in Docs /\ doc'.sections = 0
      BY <2>3 DEF Docs
    <3>2. QED
      BY <2>1, <2>3, <3>1, DocIs DEF DocInv, SectionsKept
  <2>4. CASE seeding = "write" /\ seeding' = "done" /\ doc' = [doc EXCEPT !.seed = "whole"]
    BY <2>1, <2>4, DocIs DEF DocInv, SectionsKept
  <2>5. QED
    BY <1>1, <2>2, <2>3, <2>4 DEF SeedDefaults
<1>2. CASE CompressAgentHistory
  BY <1>2 DEF CompressAgentHistory, Call, Called, DocInv, SectionsKept
<1>3. CASE AppendSection
  <2>1. doc \in Docs /\ seeding = "done" /\ seeding' = seeding /\ asking > 0 /\ asking' = asking - 1
        /\ doc' = [doc EXCEPT !.sections = @ + 1] /\ summed' = summed + 1
    BY <1>3 DEF AppendSection, DocInv
  <2>2. doc' \in Docs /\ doc'.sections = doc.sections + 1 /\ doc # NoFile /\ doc' # NoFile
    BY <2>1, DocIs
  <2>3. summed = doc.sections
    BY <2>2 DEF DocInv, SectionsKept
  <2>4. SectionsKept'
    BY <2>1, <2>2, <2>3 DEF SectionsKept
  <2>5. asking' \in Nat /\ summed' \in Nat
    BY <2>1 DEF DocInv
  <2>6. QED
    BY <2>1, <2>2, <2>4, <2>5 DEF DocInv
<1>4. CASE AppendFails
  BY <1>4 DEF AppendFails, DocInv, SectionsKept
<1>5. CASE Crash
  BY <1>5 DEF Crash, DocInv, SectionsKept
<1>6. CASE UNCHANGED docVars
  BY <1>6 DEF docVars, DocInv, SectionsKept
<1>7. QED
  BY <1>1, <1>2, <1>3, <1>4, <1>5, <1>6, OneStore DEF DocStep

\* Every section that was appended to a memory document stays in it, however
\* many calls append at a time and however often the process starts again
\* (agentdoc.go: Append, seedDefaults; summarizer.go: CompressAgentHistory).
THEOREM SectionsStay == FilesSpec => []SectionsKept
<1>1. DocInv => SectionsKept
  BY DEF DocInv
<1>2. QED
  BY <1>1, DocInit, DocNext, PTL DEF FilesSpec

-----------------------------------------------------------------------------
(* The context: the skill section *)

LEMMA MaxOfTwo ==
  ASSUME NEW x \in Int, NEW y \in Int
  PROVE  Max({x, y}) \in {x, y} /\ Max({x, y}) >= x /\ Max({x, y}) >= y
<1>1. \E m \in {x, y} : \A n \in {x, y} : n <= m
  OBVIOUS
<1>2. Max({x, y}) \in {x, y} /\ \A n \in {x, y} : n <= Max({x, y})
  BY <1>1 DEF Max
<1>3. QED
  BY <1>2

\* Every kind of skill has a size of its own.
LEMMA KindSizes ==
  ASSUME NEW k \in Kinds
  PROVE  /\ KindOf[k].line \in Nat
         /\ \A readable \in BOOLEAN : Body(k, readable) \in Nat
<1>1. KindOf[k].line \in Nat /\ KindOf[k].body \in Nat /\ KindOf[k].rest \in Nat
  BY DEF Kinds, KindOf
<1>2. \A readable \in BOOLEAN :
          Body(k, readable) \in {KindOf[k].rest + 0, KindOf[k].rest + KindOf[k].body}
  BY DEF Body
<1>3. QED
  BY <1>1, <1>2

Fields == {"quick", "len", "left", "todo"}

\* The bound on the section's bytes.
Cap(quick) == Max({MaxContextChars, quick}) + ExhaustedNote

LEMMA CapIs == ASSUME NEW q \in Nat PROVE Cap(q) \in Int /\ Cap(q) >= 3253 /\ Cap(q) >= q + 53
<1>1. Max({3200, q}) \in Int /\ Max({3200, q}) >= 3200 /\ Max({3200, q}) >= q
  BY MaxOfTwo
<1>2. QED
  BY <1>1 DEF Cap, MaxContextChars, ExhaustedNote

\* A section under construction: what is left of its bytes is what it does not
\* yet hold, as long as there are entries to render.
SectionOK(s) ==
    /\ DOMAIN s = Fields /\ s.quick \in Nat /\ s.len \in Int /\ s.left \in Int
    /\ s.len <= Cap(s.quick)
    /\ s.left < 0 => s.len <= s.quick + 53
    /\ \A e \in s.todo : e.size \in Int
    /\ s.todo # {} =>
          /\ s.len + s.left = 3200
          /\ s.left < 0 => s.len = s.quick

SectionInv == at # "panicked" /\ SectionOK(sec)

LEMMA SectionIs == SectionInv => SectionBounded
  BY DEF SectionInv, SectionOK, SectionBounded, Cap, ExhaustedNote

LEMMA NoSection == SectionOK(NoSec)
<1>1. DOMAIN NoSec = Fields /\ NoSec.quick = 0 /\ NoSec.len = 0 /\ NoSec.left = 0 /\ NoSec.todo = {}
  BY DEF NoSec, Fields
<1>2. QED
  BY <1>1, CapIs DEF SectionOK

\* The section before an entry is rendered.
LEMMA QuickSection ==
  ASSUME NEW quick \in Nat, NEW todo, \A e \in todo : e.size \in Int, NEW s,
         s = [quick |-> quick, len |-> quick, left |-> 3200 - quick, todo |-> todo]
  PROVE  SectionOK(s)
<1>1. DOMAIN s = Fields /\ s.quick = quick /\ s.len = quick /\ s.left = 3200 - quick /\ s.todo = todo
  BY DEF Fields
<1>2. QED
  BY <1>1, CapIs DEF SectionOK

LEMMA QuickBytes ==
  ASSUME NEW counts, \A k \in Kinds : counts[k] \in Nat
  PROVE  QuickReference(counts) \in Nat
<1>1. \A k \in Kinds : LineBytes(counts, k) \in Nat
  BY KindSizes DEF LineBytes
<1>2. /\ LineBytes(counts, "avoid") \in Nat /\ LineBytes(counts, "tagged") \in Nat
      /\ LineBytes(counts, "brief") \in Nat
  BY <1>1 DEF Kinds
<1>3. Lines(counts, TRUE) \in Nat /\ Lines(counts, FALSE) \in Nat
  BY <1>2 DEF Lines
<1> DEFINE dont == Lines(counts, TRUE)
           do == Lines(counts, FALSE)
<1>4. QuickReference(counts) = 62 + do + dont
  BY Zenon DEF QuickReference
<1>5. do \in Nat /\ dont \in Nat
  BY <1>3
<1> HIDE DEF do, dont
<1>6. QED
  BY <1>4, <1>5

LEMMA StartOK ==
  ASSUME NEW counts, \A k \in Kinds : counts[k] \in Nat, NEW c, NEW readable \in BOOLEAN
  PROVE  SectionOK(SectionStart(counts, c, readable))
<1> DEFINE entries == LoadRelevant(counts, c, readable)
           quick == QuickReference(counts) + (IF entries = {} THEN 0 ELSE 43)
           s == SectionStart(counts, c, readable)
<1>1. \A e \in entries : e.size \in Int
  <2>1. \A t \in SkillsOf(counts) : t.kind \in Kinds
    BY DEF SkillsOf
  <2>2. \A t \in Ranked(counts, c) : t.kind \in Kinds
    BY <2>1 DEF Ranked
  <2>3. \A t \in Ranked(counts, c) : 30 + Body(t.kind, readable) \in Int
    BY <2>2, KindSizes
  <2>4. QED
    BY <2>3 DEF LoadRelevant
<1>2. s = NoSec \/ s = [quick |-> quick, len |-> quick, left |-> 3200 - quick, todo |-> entries]
  BY DEF SectionStart, MaxContextChars
<1> HIDE DEF entries, s
<1>3. quick \in Nat
  BY QuickBytes
<1> HIDE DEF quick
<1>4. SectionOK(s)
  BY <1>1, <1>2, <1>3, NoSection, QuickSection
<1>5. QED
  BY <1>4 DEF s

\* One turn of the loop over the entries.
LEMMA EntryRendered ==
  ASSUME NEW s, SectionOK(s), NEW e \in s.todo, NEW r,
         \/ s.left <= 200 /\ r = [s EXCEPT !.len = s.len + 53, !.todo = {}]
         \/ /\ s.left > 200 /\ e.size <= s.left
            /\ r = [s EXCEPT !.len = s.len + e.size, !.left = s.left - e.size, !.todo = s.todo \ {e}]
         \/ /\ s.left > 200
            /\ r = [s EXCEPT !.len = s.len + s.left - 4, !.left = 4, !.todo = s.todo \ {e}]
  PROVE  SectionOK(r)
<1>1. /\ DOMAIN s = Fields /\ s.quick \in Nat /\ s.len \in Int /\ s.left \in Int /\ e.size \in Int
      /\ \A f \in s.todo : f.size \in Int
      /\ s.len + s.left = 3200 /\ (s.left < 0 => s.len = s.quick)
  BY DEF SectionOK
<1>2. Cap(s.quick) \in Int /\ Cap(s.quick) >= 3253 /\ Cap(s.quick) >= s.quick + 53
  BY <1>1, CapIs
<1>3. ASSUME NEW len \in Int, NEW left \in Int, NEW todo, todo \subseteq s.todo,
             DOMAIN r = Fields /\ r.quick = s.quick /\ r.len = len /\ r.left = left /\ r.todo = todo,
             len <= Cap(s.quick), left < 0 => len <= s.quick + 53,
             todo # {} => len + left = 3200 /\ left >= 0
      PROVE  SectionOK(r)
  BY <1>1, <1>3 DEF SectionOK
<1>4. CASE s.left <= 200 /\ r = [s EXCEPT !.len = s.len + 53, !.todo = {}]
  <2> DEFINE len == s.len + 53
             left == s.left
  <2>1. /\ len \in Int /\ left \in Int /\ len <= Cap(s.quick) /\ (left < 0 => len <= s.quick + 53)
        /\ {} \subseteq s.todo
    BY <1>1, <1>2
  <2>2. r = [s EXCEPT !.len = len, !.todo = {}]
    BY <1>4
  <2>3. DOMAIN r = Fields /\ r.quick = s.quick /\ r.len = len /\ r.left = left /\ r.todo = {}
    BY <1>1, <2>2 DEF Fields
  <2> HIDE DEF len, left
  <2>4. QED
    BY <1>3, <2>1, <2>3
<1>5. CASE /\ s.left > 200 /\ e.size <= s.left
           /\ r = [s EXCEPT !.len = s.len + e.size, !.left = s.left - e.size, !.todo = s.todo \ {e}]
  <2> DEFINE len == s.len + e.size
             left == s.left - e.size
             todo == s.todo \ {e}
  <2>1. /\ len \in Int /\ left \in Int /\ left >= 0 /\ len <= Cap(s.quick) /\ len + left = 3200
        /\ todo \subseteq s.todo
    BY <1>1, <1>2, <1>5
  <2>2. r = [s EXCEPT !.len = len, !.left = left, !.todo = todo]
    BY <1>5
  <2>3. left < 0 => len <= s.quick + 53
    BY <2>1
  <2> HIDE DEF len, left, todo
  <2>4. DOMAIN r = Fields /\ r.quick = s.quick /\ r.len = len /\ r.left = left /\ r.todo = todo
    BY <1>1, <2>2 DEF Fields
  <2>5. QED
    BY <1>3, <2>1, <2>3, <2>4
<1>6. CASE /\ s.left > 200
           /\ r = [s EXCEPT !.len = s.len + s.left - 4, !.left = 4, !.todo = s.todo \ {e}]
  <2> DEFINE len == s.len + s.left - 4
             todo == s.todo \ {e}
  <2>1. len \in Int /\ len <= Cap(s.quick) /\ len + 4 = 3200 /\ todo \subseteq s.todo
    BY <1>1, <1>2, <1>6
  <2>2. r = [s EXCEPT !.len = len, !.left = 4, !.todo = todo]
    BY <1>6
  <2> HIDE DEF len, todo
  <2>3. DOMAIN r = Fields /\ r.quick = s.quick /\ r.len = len /\ r.left = 4 /\ r.todo = todo
    BY <1>1, <2>2 DEF Fields
  <2>4. QED
    BY <1>3, <2>1, <2>3
<1>7. QED
  BY <1>4, <1>5, <1>6

LEMMA SectionInit == Init => SectionInv
  BY NoSection DEF Init, SectionInv

LEMMA SectionNext == SectionInv /\ [Next]_vars => SectionInv'
<1> SUFFICES ASSUME SectionInv, [Next]_vars PROVE SectionInv'
  OBVIOUS
<1>1. CASE SkillContext
  <2>1. at' = "render" /\ \E tagged \in {0, 2}, brief \in BriefSkills, avoid \in 0 .. 1, readable \in BOOLEAN :
           sec' = SectionStart([tagged |-> tagged, brief |-> brief, avoid |-> avoid], cx, readable)
    BY <1>1 DEF SkillContext
  <2>2. PICK tagged \in {0, 2}, brief \in BriefSkills, avoid \in 0 .. 1, readable \in BOOLEAN :
           sec' = SectionStart([tagged |-> tagged, brief |-> brief, avoid |-> avoid], cx, readable)
    BY <2>1
  <2> DEFINE counts == [tagged |-> tagged, brief |-> brief, avoid |-> avoid]
  <2>3. \A k \in Kinds : counts[k] \in Nat
    BY SizesAssumption, <2>2 DEF Kinds
  <2> HIDE DEF counts
  <2>4. SectionOK(SectionStart(counts, cx, readable))
    BY <2>2, <2>3, StartOK
  <2>5. SectionOK(sec')
    BY <2>2, <2>4 DEF counts
  <2>6. QED
    BY <2>1, <2>5 DEF SectionInv
<1>2. CASE RenderEntry
  <2>1. PICK e \in sec.todo :
          \/ sec.left <= 200 /\ at' = at /\ sec' = [sec EXCEPT !.len = sec.len + 53, !.todo = {}]
          \/ /\ sec.left > 200 /\ e.size <= sec.left /\ at' = at
             /\ sec' = [sec EXCEPT !.len = sec.len + e.size, !.left = sec.left - e.size,
                                   !.todo = sec.todo \ {e}]
          \/ /\ sec.left > 200 /\ at' = IF sec.left < 20 THEN "panicked" ELSE at
             /\ sec' = [sec EXCEPT !.len = sec.len + sec.left - 4, !.left = 4,
                                   !.todo = sec.todo \ {e}]
    BY <1>2 DEF RenderEntry, Reserve, ExhaustedNote
  <2>2. SectionOK(sec')
    BY <2>1, EntryRendered DEF SectionInv
  <2>3. sec.left \in Int /\ at # "panicked"
    BY DEF SectionInv, SectionOK
  <2>4. at' = at
    BY <2>1, <2>3
  <2>5. QED
    BY <2>2, <2>3, <2>4 DEF SectionInv
<1>3. CASE Return
  BY <1>3, NoSection DEF Return, SectionInv
<1>4. CASE UNCHANGED sec /\ at' # "panicked"
  BY <1>4 DEF SectionInv
<1>5. ASSUME ~SkillContext, ~RenderEntry, ~Return PROVE UNCHANGED sec /\ at' # "panicked"
  <2>1. at # "panicked"
    BY DEF SectionInv
  <2>2. CASE BuildContext \/ Join \/ Deadline \/ Enrich \/ TakeContext \/ Prompt
    BY <2>1, <2>2 DEF BuildContext, Join, Deadline, Enrich, TakeContext, Prompt
  <2>3. CASE StartFetches
    BY <2>1, <2>3 DEF StartFetches
  <2>4. CASE CoreRead
    BY <2>1, <2>4 DEF CoreRead, ReadFails, ReadProjectDoc, RecentByRole, ResolvedSearch,
                      ReadAllScopes, ListADRs, Rest
  <2>5. CASE \E f : Fetch(f)
    BY <2>1, <2>5 DEF Fetch, FetchAnswers, FetchEmpty
  <2>6. CASE UNCHANGED vars
    BY <2>1, <2>6 DEF vars
  <2>7. QED
    BY <1>5, <2>2, <2>3, <2>4, <2>5, <2>6 DEF Next, GetContextWindow, SearchSimilarCode,
       SearchResolvedPatterns, GetBlockingTasks, GetAgentSkillSummary, LateFetchFails, Fetch
<1>6. QED
  BY <1>1, <1>2, <1>3, <1>4, <1>5

\* The skill section of a prompt is within its limit or is its quick reference,
\* but for one note, and no entry is cut at a negative length, for any number
\* of skills (SkillStore.BuildSkillContextForTask).
THEOREM SectionStaysBounded == Spec => []SectionBounded
  BY SectionInit, SectionNext, SectionIs, PTL DEF Spec

-----------------------------------------------------------------------------
(* The context: adding up tokens *)

LEMMA LeastNumber ==
  ASSUME NEW T, T \subseteq Nat, T # {}
  PROVE  \E x \in T : \A y \in T : x <= y
<1>1. \E x \in T : \A y \in T : ~(<<y, x>> \in OpToRel(<, Nat))
  BY NatLessThanWellFounded, WFMin, Zenon
<1>2. PICK x \in T : \A y \in T : ~(<<y, x>> \in OpToRel(<, Nat))
  BY <1>1
<1>3. \A y \in T : ~(y < x)
  BY <1>2 DEF OpToRel
<1>4. QED
  BY <1>3

\* Induction up to n, for a set of numbers.
LEMMA UpTo ==
  ASSUME NEW n \in Nat, NEW P, 0 \in P, \A i \in 1 .. n : i - 1 \in P => i \in P
  PROVE  \A i \in 0 .. n : i \in P
<1> DEFINE T == (0 .. n) \ P
<1> SUFFICES ASSUME T # {} PROVE FALSE
  OBVIOUS
<1>0. T \subseteq Nat
  OBVIOUS
<1> HIDE DEF T
<1>1. PICK x \in T : \A y \in T : x <= y
  BY <1>0, LeastNumber
<1> USE DEF T
<1>2. x \in 1 .. n /\ x - 1 \in 0 .. n /\ x - 1 < x
  BY <1>1
<1>3. x - 1 \in P
  BY <1>1, <1>2
<1>4. QED
  BY <1>1, <1>2, <1>3

\* The sums of the first texts.
IsSum(f, texts, n) == f = [i \in 0 .. n |-> IF i = 0 THEN 0 ELSE f[i - 1] + texts[i].size]

LEMMA SumExists ==
  ASSUME NEW texts, NEW n \in Nat
  PROVE  \E f : IsSum(f, texts, n)
<1> DEFINE P == {k \in 0 .. n : \E f : IsSum(f, texts, k)}
<1>1. 0 \in P
  <2> DEFINE f == [i \in 0 .. 0 |-> 0]
  <2>1. f = [i \in 0 .. 0 |-> IF i = 0 THEN 0 ELSE f[i - 1] + texts[i].size]
    OBVIOUS
  <2>2. IsSum(f, texts, 0)
    BY <2>1 DEF IsSum
  <2>3. QED
    BY <2>2
<1>2. ASSUME NEW k \in 1 .. n, k - 1 \in P PROVE k \in P
  <2>1. PICK f : IsSum(f, texts, k - 1)
    BY <1>2
  <2>2. f = [i \in 0 .. (k - 1) |-> IF i = 0 THEN 0 ELSE f[i - 1] + texts[i].size]
    BY <2>1 DEF IsSum
  <2> DEFINE g == [i \in 0 .. k |-> IF i < k THEN f[i] ELSE f[k - 1] + texts[k].size]
  <2>3. \A i \in 0 .. k : g[i] = IF i = 0 THEN 0 ELSE g[i - 1] + texts[i].size
    <3>1. ASSUME NEW i \in 0 .. k PROVE g[i] = IF i = 0 THEN 0 ELSE g[i - 1] + texts[i].size
      <4>1. CASE i = k
        BY <4>1
      <4>2. CASE i < k
        <5>1. i \in 0 .. (k - 1) /\ (i # 0 => i - 1 \in 0 .. k /\ i - 1 < k)
          BY <4>2
        <5>2. f[i] = IF i = 0 THEN 0 ELSE f[i - 1] + texts[i].size
          BY <2>2, <5>1
        <5>3. QED
          BY <4>2, <5>1, <5>2
      <4>3. QED
        BY <4>1, <4>2
    <3>2. QED
      BY <3>1
  <2>4. g = [i \in 0 .. k |-> g[i]]
    OBVIOUS
  <2> HIDE DEF g
  <2>5. IsSum(g, texts, k)
    BY <2>3, <2>4 DEF IsSum
  <2>6. k \in 0 .. n
    OBVIOUS
  <2>7. QED
    BY <2>5, <2>6
<1> HIDE DEF P
<1>3. n \in P
  BY <1>1, <1>2, UpTo
<1>4. QED
  BY <1>3 DEF P

\* What Tokens computes.
LEMMA TokensIs ==
  ASSUME NEW texts, Len(texts) \in Nat, \A i \in 1 .. Len(texts) : texts[i].size \in Nat
  PROVE  \E f \in [0 .. Len(texts) -> Nat] :
            /\ f[0] = 0 /\ Tokens(texts) = f[Len(texts)]
            /\ \A i \in 1 .. Len(texts) : f[i] = f[i - 1] + texts[i].size
<1> DEFINE n == Len(texts)
           f == CHOOSE f : f = [i \in 0 .. Len(texts) |->
                                  IF i = 0 THEN 0 ELSE f[i - 1] + texts[i].size]
<1>1. f = [i \in 0 .. n |-> IF i = 0 THEN 0 ELSE f[i - 1] + texts[i].size]
  BY SumExists DEF IsSum
<1>2. Tokens(texts) = f[n]
  BY DEF Tokens
<1> HIDE DEF f
<1>3. f[0] = 0 /\ \A i \in 1 .. n : f[i] = f[i - 1] + texts[i].size
  BY <1>1
<1> DEFINE P == {i \in 0 .. n : f[i] \in Nat}
<1>4. 0 \in P /\ \A i \in 1 .. n : i - 1 \in P => i \in P
  <2>1. 0 \in P
    BY <1>3
  <2>2. ASSUME NEW i \in 1 .. n, f[i - 1] \in Nat PROVE f[i] \in Nat
    <3>1. texts[i].size \in Nat /\ f[i] = f[i - 1] + texts[i].size
      BY <1>3
    <3>2. QED
      BY <2>2, <3>1
  <2>3. QED
    BY <2>1, <2>2
<1> HIDE DEF P
<1>5. \A i \in 0 .. n : i \in P
  BY <1>4, UpTo
<1>6. f \in [0 .. n -> Nat]
  <2>1. \A i \in 0 .. n : f[i] \in Nat
    BY <1>5 DEF P
  <2>2. f = [i \in 0 .. n |-> f[i]]
    BY <1>1, Zenon
  <2> QED
    BY <2>1, <2>2
<1>7. QED
  BY <1>2, <1>3, <1>6

\* A sequence of texts.
Texts(s) == Len(s) \in Nat /\ DOMAIN s = 1 .. Len(s) /\ \A i \in 1 .. Len(s) : s[i].size \in Nat

LEMMA TokensEmpty == ASSUME NEW s, Len(s) = 0 PROVE Tokens(s) = 0
<1>1. Len(s) \in Nat /\ \A i \in 1 .. Len(s) : s[i].size \in Nat
  OBVIOUS
<1>2. QED
  BY <1>1, TokensIs

\* f[i] is the sum of the first i texts.
Sums(f, s, n) ==
    /\ f \in [0 .. n -> Nat] /\ f[0] = 0 /\ Tokens(s) = f[n]
    /\ \A i \in 1 .. n : f[i] = f[i - 1] + s[i].size

LEMMA SumOf == ASSUME NEW s, Texts(s) PROVE \E f : Sums(f, s, Len(s))
  BY TokensIs DEF Texts, Sums

LEMMA TokensBounded ==
  ASSUME NEW s, Texts(s), NEW b \in Nat, \A i \in 1 .. Len(s) : s[i].size <= b
  PROVE  Tokens(s) \in Nat /\ Tokens(s) <= Len(s) * b
<1> DEFINE n == Len(s)
<1>0. PICK f : Sums(f, s, n)
  BY SumOf
<1>1. /\ f \in [0 .. n -> Nat] /\ f[0] = 0 /\ Tokens(s) = f[n]
      /\ \A i \in 1 .. n : f[i] = f[i - 1] + s[i].size
  BY <1>0 DEF Sums
<1>2. n \in Nat /\ \A i \in 1 .. n : s[i].size \in Nat /\ s[i].size <= b
  BY DEF Texts
<1> DEFINE P == {i \in 0 .. n : f[i] <= i * b}
<1> HIDE DEF n
<1>3. 0 \in P
  BY <1>1, <1>2
<1>4. ASSUME NEW i \in 1 .. n, i - 1 \in P PROVE i \in P
  <2>1. f[i - 1] \in Nat /\ f[i] = f[i - 1] + s[i].size /\ f[i - 1] <= (i - 1) * b
    BY <1>1, <1>2, <1>4
  <2>2. (i - 1) * b + b = i * b
    BY <1>2
  <2>3. (i - 1) * b \in Int /\ i * b \in Int /\ s[i].size \in Nat /\ s[i].size <= b
    BY <1>2
  <2> DEFINE x == (i - 1) * b
             y == i * b
  <2>4. f[i] <= y
    <3>1. x + b = y /\ x \in Int /\ y \in Int /\ f[i - 1] <= x
      BY <2>1, <2>2, <2>3
    <3> HIDE DEF x, y
    <3>2. QED
      BY <2>1, <2>3, <3>1
  <2>5. i \in 0 .. n
    BY <1>2
  <2>6. QED
    BY <2>4, <2>5
<1> HIDE DEF P
<1>5. \A i \in 0 .. n : i \in P
  BY <1>2, <1>3, <1>4, UpTo
<1>6. f[n] <= n * b /\ f[n] \in Nat
  BY <1>1, <1>2, <1>5 DEF P
<1>7. QED
  BY <1>1, <1>6 DEF n

\* The first k texts of s, and the others.
Parts(s, k, head, tail) ==
    /\ Texts(head) /\ Len(head) = k /\ \A i \in 1 .. k : head[i] = s[i]
    /\ Texts(tail) /\ Len(tail) = Len(s) - k /\ \A i \in 1 .. (Len(s) - k) : tail[i] = s[k + i]

\* Texts counted in two parts.
LEMMA TokensSplit ==
  ASSUME NEW s, Texts(s), NEW k \in 0 .. Len(s), NEW head, NEW tail, Parts(s, k, head, tail)
  PROVE  /\ Tokens(head) \in Nat /\ Tokens(tail) \in Nat
         /\ Tokens(s) = Tokens(head) + Tokens(tail)
<1> DEFINE n == Len(s)
           m == n - k
<1>0. Texts(head) /\ Texts(tail) /\ Len(head) = k /\ Len(tail) = m
  BY DEF Parts
<1> HIDE DEF m
<1>1. PICK f : Sums(f, s, n)
  BY SumOf
<1>2. PICK g : Sums(g, head, k)
  BY <1>0, SumOf
<1>3. PICK h : Sums(h, tail, m)
  BY <1>0, SumOf
<1> USE DEF m
<1>4. /\ n \in Nat /\ k \in Nat /\ m \in Nat /\ k + m = n /\ k <= n
      /\ \A i \in 1 .. n : s[i].size \in Nat
  BY DEF Texts
<1>5. (\A i \in 1 .. k : head[i] = s[i]) /\ (\A i \in 1 .. m : tail[i] = s[k + i])
  BY DEF Parts
<1> HIDE DEF n, m
<1>6. /\ f \in [0 .. n -> Nat] /\ f[0] = 0 /\ Tokens(s) = f[n]
       /\ \A i \in 1 .. n : f[i] = f[i - 1] + s[i].size
  BY <1>1 DEF Sums
<1>7. /\ g \in [0 .. k -> Nat] /\ g[0] = 0 /\ Tokens(head) = g[k]
       /\ \A i \in 1 .. k : g[i] = g[i - 1] + head[i].size
  BY <1>2 DEF Sums
<1>8. /\ h \in [0 .. m -> Nat] /\ h[0] = 0 /\ Tokens(tail) = h[m]
       /\ \A i \in 1 .. m : h[i] = h[i - 1] + tail[i].size
  BY <1>3 DEF Sums
<1>9. \A i \in 0 .. k : f[i] = g[i]
  <2> DEFINE P == {i \in 0 .. k : f[i] = g[i]}
  <2>1. 0 \in P
    BY <1>6, <1>7, <1>4
  <2>2. ASSUME NEW i \in 1 .. k, i - 1 \in P PROVE i \in P
    <3>1. i \in 1 .. n /\ i \in 0 .. k
      BY <1>4
    <3>2. f[i] = f[i - 1] + s[i].size /\ g[i] = g[i - 1] + s[i].size /\ f[i - 1] = g[i - 1]
      BY <1>6, <1>7, <1>5, <2>2, <3>1
    <3>3. QED
      BY <3>1, <3>2
  <2> HIDE DEF P
  <2>3. \A i \in 0 .. k : i \in P
    BY <1>4, <2>1, <2>2, UpTo
  <2>4. QED
    BY <2>3 DEF P
<1>10. \A i \in 0 .. m : f[k + i] = g[k] + h[i]
  <2> DEFINE P == {i \in 0 .. m : f[k + i] = g[k] + h[i]}
  <2>1. 0 \in P
    <3>1. f[k + 0] = g[k] /\ h[0] = 0 /\ g[k] \in Nat
      BY <1>7, <1>8, <1>4, <1>9
    <3>2. QED
      BY <1>4, <3>1
  <2>2. ASSUME NEW i \in 1 .. m, i - 1 \in P PROVE i \in P
    <3>1. k + i \in 1 .. n /\ i \in 0 .. m /\ (k + i) - 1 = k + (i - 1) /\ i - 1 \in 0 .. m
      BY <1>4
    <3>2. f[k + i] = f[(k + i) - 1] + s[k + i].size
      BY <1>6, <3>1
    <3>3. h[i] = h[i - 1] + s[k + i].size /\ f[k + (i - 1)] = g[k] + h[i - 1]
      BY <1>8, <1>5, <2>2
    <3>4. h[i - 1] \in Nat /\ g[k] \in Nat /\ s[k + i].size \in Nat
      <4>1. h[i - 1] \in Nat
        BY <1>8, <3>1
      <4>2. g[k] \in Nat
        BY <1>7, <1>4
      <4>3. s[k + i].size \in Nat
        BY <1>4, <3>1
      <4>4. QED
        BY <4>1, <4>2, <4>3
    <3>5. f[k + i] = g[k] + h[i]
      <4> DEFINE x == h[i - 1]
                 y == g[k]
                 z == s[k + i].size
      <4>1. f[k + i] = (y + x) + z /\ h[i] = x + z
        BY <3>1, <3>2, <3>3
      <4>2. x \in Nat /\ y \in Nat /\ z \in Nat
        BY <3>4
      <4> HIDE DEF x, z
      <4>3. QED
        BY <4>1, <4>2
    <3>6. QED
      BY <3>1, <3>5
  <2> HIDE DEF P
  <2>3. \A i \in 0 .. m : i \in P
    BY <1>4, <2>1, <2>2, UpTo
  <2>4. QED
    BY <2>3 DEF P
<1>11. f[n] = g[k] + h[m] /\ g[k] \in Nat /\ h[m] \in Nat
  <2>1. m \in 0 .. m /\ k \in 0 .. k /\ k + m = n
    BY <1>4
  <2>2. f[k + m] = g[k] + h[m]
    BY <1>10, <2>1
  <2>3. g[k] \in Nat /\ h[m] \in Nat
    BY <1>7, <1>8, <2>1
  <2>4. QED
    BY <2>1, <2>2, <2>3
<1>12. QED
  BY <1>6, <1>7, <1>8, <1>11

-----------------------------------------------------------------------------
(* The context: the budget *)

LEMMA Greatest ==
  ASSUME NEW n \in Nat, NEW T, T \subseteq 0 .. n, T # {}
  PROVE  Max(T) \in T /\ \A k \in T : k <= Max(T)
<1> DEFINE U == {n - k : k \in T}
<1>1. U \subseteq Nat /\ U # {}
  OBVIOUS
<1>2. \E x \in U : \A y \in U : x <= y
  <2> HIDE DEF U
  <2>1. QED
    BY <1>1, LeastNumber
<1>3. PICK x \in U : \A y \in U : x <= y
  BY <1>2
<1>4. PICK k \in T : x = n - k
  BY <1>3
<1>5. \A j \in T : j <= k
  BY <1>3, <1>4
<1>6. \E g \in T : \A j \in T : j <= g
  BY <1>5
<1>7. QED
  BY <1>6 DEF Max

\* A text and its size, from one of some sources.
LEMMA SeqTexts ==
  ASSUME NEW S, \A x \in S : x.size \in Nat, NEW s \in Seq(S)
  PROVE  Texts(s)
<1>1. Len(s) \in Nat /\ DOMAIN s = 1 .. Len(s) /\ \A i \in 1 .. Len(s) : s[i] \in S
  BY LenProperties, ElementOfSeq
<1>2. QED
  BY <1>1 DEF Texts

\* Texts cut at k.
LEMMA CutAt ==
  ASSUME NEW S, \A x \in S : x.size \in Nat, NEW s \in Seq(S), NEW k \in 0 .. Len(s)
  PROVE  /\ SubSeq(s, 1, k) \in Seq(S) /\ Len(SubSeq(s, 1, k)) = k
         /\ Tail_(s, k) \in Nat /\ Tokens(SubSeq(s, 1, k)) \in Nat
         /\ Tokens(s) = Tokens(SubSeq(s, 1, k)) + Tail_(s, k)
         /\ \A i \in 1 .. k : SubSeq(s, 1, k)[i] = s[i]
<1> DEFINE n == Len(s)
           head == SubSeq(s, 1, k)
           tail == SubSeq(s, k + 1, n)
<1>1. n \in Nat /\ k \in Nat /\ k <= n
  BY LenProperties
<1>2. /\ head \in Seq(S) /\ Len(head) = k /\ \A i \in 1 .. k : head[i] = s[i]
  <2>1. 1 \in 1 .. (n + 1) /\ k \in (1 - 1) .. n
    BY <1>1
  <2>2. /\ head \in Seq(S) /\ Len(head) = (IF 1 <= k THEN k - 1 + 1 ELSE 0)
        /\ \A i \in 1 .. k - 1 + 1 : head[i] = s[1 + i - 1]
    BY <2>1, SubSeqProperties
  <2> HIDE DEF head
  <2>3. QED
    BY <1>1, <2>2
<1>3. /\ tail \in Seq(S) /\ Len(tail) = n - k /\ \A i \in 1 .. (n - k) : tail[i] = s[k + i]
  <2>1. k + 1 \in 1 .. (n + 1) /\ n \in ((k + 1) - 1) .. n
    BY <1>1
  <2>2. /\ tail \in Seq(S) /\ Len(tail) = (IF k + 1 <= n THEN n - (k + 1) + 1 ELSE 0)
        /\ \A i \in 1 .. n - (k + 1) + 1 : tail[i] = s[(k + 1) + i - 1]
    BY <2>1, SubSeqProperties
  <2> HIDE DEF tail, n
  <2>3. n - (k + 1) + 1 = n - k /\ \A i \in 1 .. (n - k) : (k + 1) + i - 1 = k + i
    BY <1>1
  <2>4. Len(tail) = n - k
    BY <1>1, <2>2
  <2>5. QED
    BY <2>2, <2>3, <2>4
<1>4. Texts(s) /\ Texts(head) /\ Texts(tail)
  <2> HIDE DEF head, tail
  <2>1. QED
    BY <1>2, <1>3, SeqTexts
<1>5. Tail_(s, k) = Tokens(tail)
  BY DEF Tail_
<1> HIDE DEF head, tail
<1>6. /\ Tokens(head) \in Nat /\ Tokens(tail) \in Nat /\ Tokens(s) = Tokens(head) + Tokens(tail)
  <2>1. Parts(s, k, head, tail)
    BY <1>2, <1>3, <1>4 DEF Parts
  <2>2. QED
    BY <1>4, <2>1, TokensSplit
<1>7. QED
  BY <1>2, <1>5, <1>6 DEF head

\* One text more.
LEMMA OneMore ==
  ASSUME NEW S, \A x \in S : x.size \in Nat, NEW s \in Seq(S), NEW k \in Nat, k < Len(s)
  PROVE  /\ s[k + 1].size \in Nat
         /\ Tokens(SubSeq(s, 1, k + 1)) <= Tokens(SubSeq(s, 1, k)) + s[k + 1].size
<1> DEFINE h == SubSeq(s, 1, k + 1)
           g == SubSeq(s, 1, k)
           x == s[k + 1]
           t == [i \in 1 .. 1 |-> x]
<1>1. Len(s) \in Nat
  BY LenProperties
<1>2. x \in S /\ x.size \in Nat
  <2>1. k + 1 \in 1 .. Len(s)
    BY <1>1
  <2>2. QED
    BY <2>1, ElementOfSeq
<1>3. /\ h \in Seq(S) /\ Len(h) = k + 1 /\ \A i \in 1 .. (k + 1) : h[i] = s[i]
  <2>1. k + 1 \in 0 .. Len(s)
    BY <1>1
  <2>2. QED
    BY <2>1, CutAt
<1>4. /\ g \in Seq(S) /\ Len(g) = k /\ \A i \in 1 .. k : g[i] = s[i]
  <2>1. k \in 0 .. Len(s)
    BY <1>1
  <2>2. QED
    BY <2>1, CutAt
<1>5. t \in Seq(S) /\ Len(t) = 1 /\ t[1] = x
  <2>1. t \in Seq(S)
    <3>1. \A i \in 1 .. 1 : x \in S
      BY <1>2
    <3> HIDE DEF x
    <3>2. QED
      BY <3>1, IsASeq
  <2>2. QED
    BY <2>1, LenProperties
<1> HIDE DEF h, g, t, x
<1>6. Texts(h) /\ Texts(g) /\ Texts(t)
  BY <1>3, <1>4, <1>5, SeqTexts
<1>7. Tokens(h) = Tokens(g) + Tokens(t) /\ Tokens(g) \in Nat /\ Tokens(t) \in Nat
  <2>1. k \in 0 .. Len(h)
    BY <1>3
  <2>2. \A i \in 1 .. k : g[i] = h[i]
    BY <1>3, <1>4
  <2>3. h[k + 1] = t[1]
    BY <1>3, <1>5 DEF x
  <2>4. Parts(h, k, g, t)
    BY <1>3, <1>4, <1>5, <1>6, <2>2, <2>3 DEF Parts
  <2>5. QED
    BY <1>6, <2>1, <2>4, TokensSplit
<1>8. Tokens(t) <= x.size
  <2>1. \A i \in 1 .. Len(t) : t[i].size <= x.size
    BY <1>2, <1>5
  <2>2. Tokens(t) <= Len(t) * x.size
    BY <1>2, <1>6, <2>1, TokensBounded
  <2>3. QED
    BY <1>2, <1>5, <2>2
<1>9. QED
  BY <1>2, <1>7, <1>8 DEF h, g, x

\* Texts are dropped from the end, and no more of them than needed: with the
\* last one dropped there would be too many tokens.
Dropped(r, s, most) ==
    /\ IsPrefix(r, s)
    /\ r # s => s[Len(r) + 1].size \in Nat /\ Tokens(r) + s[Len(r) + 1].size > most

\* Shorten drops as little as it has to.
LEMMA Shortened ==
  ASSUME NEW S, \A x \in S : x.size \in Nat, NEW s \in Seq(S),
         NEW e \in Int, e > 0, e <= Tokens(s)
  PROVE  /\ Shorten(s, e) \in Seq(S)
         /\ Left(s, e) \in Int /\ Left(s, e) <= 0
         /\ Tokens(Shorten(s, e)) \in Nat /\ Tokens(Shorten(s, e)) <= Tokens(s) - e
         /\ Dropped(Shorten(s, e), s, Tokens(s) - e)
<1> DEFINE n == Len(s)
           T == {0} \cup {k \in 0 .. n : Tail_(s, k) >= e}
           k == Max(T)
<1>1. n \in Nat
  BY LenProperties
<1>2. k \in T /\ \A j \in T : j <= k
  <2>1. T \subseteq 0 .. n /\ T # {}
    BY <1>1
  <2> HIDE DEF T
  <2>2. QED
    BY <1>1, <2>1, Greatest
<1>3. Shorten(s, e) = SubSeq(s, 1, k)
  BY DEF Shorten
<1>4. k \in 0 .. n
  BY <1>1, <1>2
<1>5. Tail_(s, 0) = Tokens(s)
  <2>1. Tail_(s, 0) = Tokens(SubSeq(s, 0 + 1, Len(s)))
    BY DEF Tail_
  <2>2. SubSeq(s, 0 + 1, Len(s)) = s
    BY SubSeqFull
  <2>3. QED
    BY <2>1, <2>2
<1>6. Tail_(s, k) >= e
  BY <1>2, <1>5
<1> HIDE DEF k
<1>7. /\ SubSeq(s, 1, k) \in Seq(S) /\ Len(SubSeq(s, 1, k)) = k
      /\ Tail_(s, k) \in Nat /\ Tokens(SubSeq(s, 1, k)) \in Nat
      /\ Tokens(s) = Tokens(SubSeq(s, 1, k)) + Tail_(s, k)
  BY <1>4, CutAt
<1>8. Left(s, e) = e - Tail_(s, k)
  BY <1>3, <1>7 DEF Left
<1>9. k < n
  <2>1. SUFFICES ASSUME k = n PROVE FALSE
    BY <1>1, <1>4
  <2>2. SubSeq(s, 1, k) = s
    BY <2>1, SubSeqFull
  <2>3. Tokens(SubSeq(s, 1, k)) = Tokens(s)
    BY <2>2, Zenon
  <2> DEFINE all == Tokens(s)
             tail == Tail_(s, k)
  <2>4. all \in Nat /\ tail \in Nat /\ all = all + tail /\ tail >= e
    BY <1>6, <1>7, <2>3
  <2> HIDE DEF all, tail
  <2>5. QED
    BY <2>4
<1>10. s[k + 1].size \in Nat /\ Tokens(SubSeq(s, 1, k)) + s[k + 1].size > Tokens(s) - e
  <2>1. k + 1 \in 0 .. n /\ k + 1 \notin T /\ k \in Nat
    BY <1>1, <1>2, <1>4, <1>9
  <2>2. /\ Tail_(s, k + 1) \in Nat /\ Tokens(SubSeq(s, 1, k + 1)) \in Nat
        /\ Tokens(s) = Tokens(SubSeq(s, 1, k + 1)) + Tail_(s, k + 1)
    BY <2>1, CutAt
  <2>3. Tail_(s, k + 1) < e
    BY <2>1, <2>2
  <2>4. s[k + 1].size \in Nat
        /\ Tokens(SubSeq(s, 1, k + 1)) <= Tokens(SubSeq(s, 1, k)) + s[k + 1].size
    BY <1>9, <2>1, OneMore
  <2>5. QED
    BY <1>7, <2>2, <2>3, <2>4
<1> DEFINE r == SubSeq(s, 1, k)
           x == Tokens(r)
           y == Tail_(s, k)
<1>11. IsPrefix(r, s)
  <2>1. SubSeq(r, 1, Len(r)) = r
    BY <1>7, SubSeqFull
  <2>2. Len(r) <= Len(s) /\ SubSeq(s, 1, Len(r)) = r
    BY <1>1, <1>7, <1>9
  <2> HIDE DEF r
  <2>3. QED
    BY <2>1, <2>2 DEF IsPrefix
<1>12. Dropped(r, s, Tokens(s) - e)
  BY <1>7, <1>10, <1>11 DEF Dropped
<1>13. /\ r \in Seq(S) /\ x \in Nat /\ y \in Nat /\ Tokens(s) = x + y /\ y >= e
       /\ Shorten(s, e) = r /\ Left(s, e) = e - y
  BY <1>3, <1>6, <1>7, <1>8
<1> HIDE DEF r, y
<1>14. QED
  BY <1>12, <1>13

MemFields == {"agent", "project", "code", "adrs", "recent", "scope", "scopes", "resolved"}

LEMMA ShrinkNothing ==
  ASSUME NEW size, NEW e \in Int, e <= 0
  PROVE  CutBy(size, e) = 0 /\ Shrink(size, e) = size
  BY DEF CutBy, Shrink

\* r is m without the decisions that do not fit.
EnforcedTo(m, r, b, S) ==
    /\ DOMAIN r = MemFields /\ r.adrs \in Seq(S)
    /\ r.project = m.project /\ r.agent = m.agent /\ r.code = m.code
    /\ r.recent = m.recent /\ r.scope = m.scope /\ r.scopes = m.scopes
    /\ r.resolved = m.resolved
    /\ Tokens(r.adrs) \in Nat /\ Total(r) <= b
    /\ IsPrefix(r.adrs, m.adrs)
    /\ r.adrs # m.adrs => Total(r) + m.adrs[Len(r.adrs) + 1].size > b

\* If the texts other than the decisions are within the budget, only decisions
\* are dropped for it, and only as many as needed.
LEMMA Enforced ==
  ASSUME NEW S, \A x \in S : x.size \in Nat, NEW b \in Nat, NEW m, DOMAIN m = MemFields,
         m.adrs \in Seq(S), m.project \in Nat, m.agent \in Nat, Tokens(m.code) \in Nat,
         m.project + m.agent + Tokens(m.code) <= b
  PROVE  EnforcedTo(m, Enforce(m, b), b, S)
<1> DEFINE base == m.project + m.agent + Tokens(m.code)
           a == Tokens(m.adrs)
           e == Total(m) - b
           r == Enforce(m, b)
<1>1. a \in Nat
  <2>1. Len(m.adrs) \in 0 .. Len(m.adrs)
    BY LenProperties
  <2>2. Tokens(m.adrs) = Tokens(SubSeq(m.adrs, 1, Len(m.adrs))) + Tail_(m.adrs, Len(m.adrs))
        /\ Tail_(m.adrs, Len(m.adrs)) \in Nat /\ Tokens(SubSeq(m.adrs, 1, Len(m.adrs))) \in Nat
    BY <2>1, CutAt
  <2>3. QED
    BY <2>2
<1>2. base \in Nat /\ base <= b /\ Total(m) = base + a /\ e = base + a - b
  BY <1>1 DEF Total
<1>3. CASE e <= 0
  <2>1. r = m
    BY <1>3 DEF Enforce
  <2> HIDE DEF r
  <2>2. Total(r) <= b
    BY <1>1, <1>2, <1>3, <2>1
  <2>3. EnforcedTo(m, r, b, S)
    <3>1. IsPrefix(m.adrs, m.adrs)
      BY LenProperties DEF IsPrefix
    <3>2. QED
      BY <1>1, <2>1, <2>2, <3>1, Zenon DEF EnforcedTo
  <2>4. QED
    BY <2>3 DEF r
<1>4. CASE e > 0
  <2> DEFINE adrs == Shorten(m.adrs, e)
             left == Left(m.adrs, e)
  <2>1. e \in Int /\ e <= a
    BY <1>1, <1>2
  <2> HIDE DEF e
  <2>2. /\ adrs \in Seq(S) /\ left \in Int /\ left <= 0
        /\ Tokens(adrs) \in Nat /\ Tokens(adrs) <= a - e
        /\ Dropped(adrs, m.adrs, a - e)
    BY <1>4, <2>1, Shortened
  <2>3. r = [m EXCEPT !.adrs = adrs, !.code = m.code,
                      !.project = Shrink(m.project, left),
                      !.agent = Shrink(m.agent, left - CutBy(m.project, left))]
    <3>1. ~(left > 0) /\ ~(e <= 0)
      BY <1>4, <2>1, <2>2
    <3>2. (IF left > 0 THEN Left(m.code, left) ELSE left) = left
          /\ (IF left > 0 THEN Shorten(m.code, left) ELSE m.code) = m.code
      BY <3>1, Zenon
    <3>3. r = [m EXCEPT !.adrs = adrs, !.code = IF left > 0 THEN Shorten(m.code, left) ELSE m.code,
                 !.project = Shrink(m.project, IF left > 0 THEN Left(m.code, left) ELSE left),
                 !.agent = Shrink(m.agent, (IF left > 0 THEN Left(m.code, left) ELSE left)
                             - CutBy(m.project, IF left > 0 THEN Left(m.code, left) ELSE left))]
      BY <3>1, Zenon DEF Enforce, e
    <3>4. QED
      BY <3>2, <3>3, Zenon
  <2> HIDE DEF r, adrs, left, a, base
  <2>4. left - CutBy(m.project, left) = left
    BY <2>2, ShrinkNothing
  <2>5. r = [m EXCEPT !.adrs = adrs, !.code = m.code, !.project = m.project, !.agent = m.agent]
    BY <2>2, <2>3, <2>4, ShrinkNothing
  <2>6. /\ DOMAIN r = MemFields /\ r.adrs = adrs
        /\ r.project = m.project /\ r.agent = m.agent /\ r.code = m.code
        /\ r.recent = m.recent /\ r.scope = m.scope /\ r.scopes = m.scopes
        /\ r.resolved = m.resolved
    BY <2>5 DEF MemFields
  <2>7. Total(r) = base + Tokens(adrs)
    BY <2>6 DEF Total, base
  <2>8. Total(r) <= b
    BY <1>1, <1>2, <2>1, <2>2, <2>7 DEF e
  <2>9. IsPrefix(adrs, m.adrs)
        /\ (adrs # m.adrs => Total(r) + m.adrs[Len(adrs) + 1].size > b)
    <3>1. SUFFICES ASSUME adrs # m.adrs PROVE Total(r) + m.adrs[Len(adrs) + 1].size > b
      BY <2>2 DEF Dropped
    <3> DEFINE z == m.adrs[Len(adrs) + 1].size
    <3>2. z \in Nat /\ Tokens(adrs) + z > a - e
      BY <2>2, <3>1 DEF Dropped
    <3> HIDE DEF z
    <3>3. Total(r) + z > b
      BY <1>1, <1>2, <2>1, <2>2, <2>7, <3>2
    <3>4. QED
      BY <3>3 DEF z
  <2>10. EnforcedTo(m, r, b, S)
    BY <2>2, <2>6, <2>8, <2>9 DEF EnforcedTo
  <2>11. QED
    BY <2>10 DEF r
<1>5. QED
  BY <1>1, <1>2, <1>3, <1>4

-----------------------------------------------------------------------------
(* The context: what the reads put together *)

\* What BuildContext gathers, by source.
CodeTexts == [src : {"recent", "resolved"}, size : 0 .. 304]
AdrTexts == [src : {"adrs"}, size : AdrSizes]
Recents(code) == {i \in DOMAIN code : code[i].src = "recent"}

\* all is code and n more texts of source s.
Extended(code, all, s, n) ==
    /\ all \in Seq(CodeTexts) /\ Len(code) \in Nat /\ Len(all) = Len(code) + n
    /\ s = "resolved" => Recents(all) = Recents(code)
    /\ s = "recent" => Recents(all) = Recents(code) \cup ((Len(code) + 1) .. (Len(code) + n))
    /\ n > 0 => \E i \in DOMAIN all : all[i].src = s
    /\ \A i \in DOMAIN code : i \in DOMAIN all /\ all[i] = code[i]

\* new is n texts of source s and size z.
Copies(new, s, n, z) == new = [i \in 1 .. n |-> [src |-> s, size |-> z]]

LEMMA Appended ==
  ASSUME NEW code \in Seq(CodeTexts), NEW n \in Nat, NEW s \in {"recent", "resolved"},
         NEW z \in 0 .. 304, NEW new, Copies(new, s, n, z)
  PROVE  Extended(code, code \o new, s, n)
<1> DEFINE all == code \o new
           l == Len(code)
           e == [src |-> s, size |-> z]
<1>1. e \in CodeTexts /\ e.src = s
  BY DEF CodeTexts
<1> HIDE DEF e
<1>2. new \in Seq(CodeTexts) /\ Len(new) = n /\ \A i \in 1 .. n : new[i] = e
  <2>1. new = [i \in 1 .. n |-> e]
    BY DEF e, Copies
  <2>2. \A i \in 1 .. n : e \in CodeTexts
    BY <1>1
  <2> HIDE DEF CodeTexts
  <2>3. new \in Seq(CodeTexts)
    BY <2>1, <2>2, IsASeq
  <2>4. QED
    BY <2>1, <2>3, LenProperties
<1>3. l \in Nat /\ DOMAIN code = 1 .. l
  BY LenProperties
<1>4. /\ all \in Seq(CodeTexts) /\ Len(all) = l + n
      /\ \A i \in 1 .. (l + n) : all[i] = IF i <= l THEN code[i] ELSE new[i - l]
  BY <1>2, ConcatProperties
<1>5. DOMAIN all = 1 .. (l + n)
  BY <1>4, LenProperties
<1> HIDE DEF all, l
<1>6. \A i \in 1 .. l : i \in 1 .. (l + n) /\ all[i] = code[i]
  BY <1>3, <1>4
<1>7. \A i \in (l + 1) .. (l + n) : i \in 1 .. (l + n) /\ all[i] = e
  <2>1. ASSUME NEW i \in (l + 1) .. (l + n) PROVE i \in 1 .. (l + n) /\ all[i] = e
    <3>1. i \in 1 .. (l + n) /\ ~(i <= l) /\ i - l \in 1 .. n
      BY <1>3
    <3>2. QED
      BY <1>2, <1>4, <3>1
  <2>2. QED
    BY <2>1
<1>8. \A i \in 1 .. (l + n) : i \in 1 .. l \/ i \in (l + 1) .. (l + n)
  BY <1>3
<1>9. s = "resolved" => Recents(all) = Recents(code)
  BY <1>1, <1>3, <1>5, <1>6, <1>7, <1>8 DEF Recents
<1>10. s = "recent" => Recents(all) = Recents(code) \cup ((l + 1) .. (l + n))
  BY <1>1, <1>3, <1>5, <1>6, <1>7, <1>8 DEF Recents
<1>11. n > 0 => \E i \in DOMAIN all : all[i].src = s
  <2>1. n > 0 => l + 1 \in (l + 1) .. (l + n)
    BY <1>3
  <2>2. QED
    BY <1>1, <1>5, <1>7, <2>1
<1>12. Extended(code, all, s, n)
  <2>1. \A i \in DOMAIN code : i \in DOMAIN all /\ all[i] = code[i]
    BY <1>3, <1>5, <1>6
  <2>2. QED
    BY <1>3, <1>4, <1>9, <1>10, <1>11, <2>1 DEF Extended, l
<1>13. QED
  BY <1>12 DEF all

CodeOK(code, recent, c, p, a) ==
    /\ code \in Seq(CodeTexts) /\ recent \in 0 .. RecentLimit(c)
    /\ Cardinality(Recents(code)) = recent
    /\ Len(code) <= recent + 3
    /\ "recent" \in p => recent = 0
    /\ "resolved" \in p => Len(code) = recent
    /\ "recent" \in a => recent > 0
    /\ "resolved" \in a => \E i \in DOMAIN code : code[i].src = "resolved"
    /\ c = "S" => Len(code) = 0

\* Recent tasks come at any time.
LEMMA RecentCome ==
  ASSUME NEW code, NEW c \in {"M", "L"}, NEW p, NEW a, CodeOK(code, 0, c, p, a), "recent" \in p,
         NEW n \in 1 .. RecentLimit(c), NEW z \in 0 .. 304, NEW new,
         Copies(new, "recent", n, z)
  PROVE  CodeOK(code \o new, n, c, p \ {"recent"}, a \cup {"recent"})
<1> DEFINE all == code \o new
           l == Len(code)
<1>1. /\ code \in Seq(CodeTexts) /\ Cardinality(Recents(code)) = 0
      /\ l <= 0 + 3 /\ ("resolved" \in p => l = 0) /\ RecentLimit(c) \in Nat
      /\ "resolved" \in a => \E i \in DOMAIN code : code[i].src = "resolved"
  BY DEF CodeOK, RecentLimit
<1>2. n \in Nat /\ n > 0 /\ n \in 0 .. RecentLimit(c)
  BY <1>1
<1>3. /\ all \in Seq(CodeTexts) /\ l \in Nat /\ Len(all) = l + n
      /\ Recents(all) = Recents(code) \cup ((l + 1) .. (l + n))
      /\ \A i \in DOMAIN code : i \in DOMAIN all /\ all[i] = code[i]
  <2>1. n \in Nat /\ n > 0
    BY <1>2
  <2>2. Extended(code, all, "recent", n)
    BY <1>1, <2>1, Appended
  <2> HIDE DEF all
  <2>3. QED
    BY <2>2 DEF Extended
<1> HIDE DEF all, l
<1>4. Recents(code) = {}
  <2>1. IsFiniteSet(Recents(code))
    <3>1. DOMAIN code = 1 .. l /\ IsFiniteSet(1 .. l)
      BY <1>1, <1>3, LenProperties, FS_Interval DEF l
    <3>2. Recents(code) \subseteq 1 .. l
      BY <3>1 DEF Recents
    <3>3. QED
      BY <3>1, <3>2, FS_Subset
  <2>2. QED
    BY <1>1, <2>1, FS_EmptySet
<1>5. Cardinality(Recents(all)) = n
  <2>1. Recents(all) = (l + 1) .. (l + n) /\ l + 1 \in Int /\ l + n \in Int
    BY <1>2, <1>3, <1>4
  <2>2. Cardinality((l + 1) .. (l + n)) = (IF (l + 1) > (l + n) THEN 0 ELSE (l + n) - (l + 1) + 1)
    BY <2>1, FS_Interval
  <2>3. ~(l + 1 > l + n) /\ (l + n) - (l + 1) + 1 = n
    BY <1>2, <1>3
  <2>4. QED
    BY <2>1, <2>2, <2>3
<1>6. /\ Len(all) <= n + 3 /\ ("resolved" \in p => Len(all) = n)
  BY <1>1, <1>2, <1>3
<1>7. "resolved" \in a => \E i \in DOMAIN all : all[i].src = "resolved"
  BY <1>1, <1>3
<1>8. CodeOK(all, n, c, p \ {"recent"}, a \cup {"recent"})
  BY <1>2, <1>3, <1>5, <1>6, <1>7 DEF CodeOK
<1>9. QED
  BY <1>8 DEF all

\* So do the known patterns that match.
LEMMA ResolvedCome ==
  ASSUME NEW code, NEW recent, NEW c \in {"M", "L"}, NEW p, NEW a, CodeOK(code, recent, c, p, a),
         "resolved" \in p, NEW n \in 0 .. 3, NEW z \in 0 .. 304, NEW new,
         Copies(new, "resolved", n, z),
         NEW a2, a2 \subseteq a \cup {"resolved"}, "resolved" \in a2 => n > 0 \/ "resolved" \in a
  PROVE  CodeOK(code \o new, recent, c, p \ {"resolved"}, a2)
<1> DEFINE all == code \o new
           l == Len(code)
<1>1. /\ code \in Seq(CodeTexts) /\ recent \in 0 .. RecentLimit(c)
      /\ Cardinality(Recents(code)) = recent /\ l = recent
      /\ ("recent" \in p => recent = 0) /\ ("recent" \in a => recent > 0)
      /\ "resolved" \in a => \E i \in DOMAIN code : code[i].src = "resolved"
  BY DEF CodeOK
<1>2. /\ all \in Seq(CodeTexts) /\ l \in Nat /\ Len(all) = l + n /\ n \in Nat
      /\ Recents(all) = Recents(code)
      /\ n > 0 => \E i \in DOMAIN all : all[i].src = "resolved"
      /\ \A i \in DOMAIN code : i \in DOMAIN all /\ all[i] = code[i]
  <2>1. n \in Nat
    OBVIOUS
  <2>2. Extended(code, all, "resolved", n)
    BY <1>1, <2>1, Appended
  <2> HIDE DEF all
  <2>3. QED
    BY <2>1, <2>2 DEF Extended
<1> HIDE DEF all, l
<1>3. Len(all) <= recent + 3
  BY <1>1, <1>2
<1>4. "resolved" \in a2 => \E i \in DOMAIN all : all[i].src = "resolved"
  BY <1>1, <1>2
<1>5. "recent" \in a2 => recent > 0
  BY <1>1
<1>6. CodeOK(all, recent, c, p \ {"resolved"}, a2)
  BY <1>1, <1>2, <1>3, <1>4, <1>5 DEF CodeOK
<1>7. QED
  BY <1>6 DEF all

AgentTexts == {Truncate(size, 800) : size \in DocSizes \cup {0}}

\* What the reads have put together so far: p are the reads still under way, a
\* those that returned something.
Gathered(m, c, p, a) ==
    /\ p \cap a = {}
    /\ DOMAIN m = MemFields
    /\ m.project \in DocSizes \cup {0, 17}
    /\ m.agent \in AgentTexts
    /\ CodeOK(m.code, m.recent, c, p, a)
    /\ m.adrs \in Seq(AdrTexts)
    /\ m.resolved \subseteq Known
    /\ "project" \in a => m.project > 0
    /\ "scopes" \in a => m.scopes
    /\ "resolved" \in a => Relevant(m.resolved, "title") # {}

\* What the finished context shows of the reads; all are the decisions on record.
Fits(m, c, a, all) ==
    /\ Total(m) <= Budget(c)
    /\ m.project \in {Truncate(size, ProjectCap(c)) : size \in DocSizes \cup {0, 17}}
    /\ m.agent \in {Truncate(size, 800) : size \in DocSizes \cup {0}}
    /\ Cardinality(Recents(m.code)) = m.recent
    /\ "resolved" \in a => \E i \in DOMAIN m.code : m.code[i].src = "resolved"
    /\ IsPrefix(m.adrs, all)
    /\ m.adrs # all => Total(m) + all[Len(m.adrs) + 1].size > Budget(c)

Shows(m, a) ==
    /\ "project" \in a => m.project > 0
    /\ "recent" \in a => m.recent > 0
    /\ "resolved" \in a => \E i \in DOMAIN m.code : m.code[i].src = "resolved"
    /\ "scopes" \in a => m.scopes
    /\ "resolved" \in a => Relevant(m.resolved, "title") # {}

LEMMA Truncated ==
  ASSUME NEW size \in Nat, NEW cap \in Nat
  PROVE  /\ Truncate(size, cap) \in 0 .. (cap + 4)
         /\ size > 0 => Truncate(size, cap) > 0
  BY DEF Truncate

LEMMA CodeTokens ==
  ASSUME NEW code, NEW r, NEW c \in Complexities, NEW p, NEW a, CodeOK(code, r, c, p, a)
  PROVE  /\ Tokens(code) \in Nat
         /\ c = "S" => Tokens(code) <= 0
         /\ c = "M" => Tokens(code) <= 1824
         /\ c = "L" => Tokens(code) <= 2432
<1> DEFINE n == Len(code)
           t == Tokens(code)
<1>1. /\ code \in Seq(CodeTexts) /\ r \in 0 .. RecentLimit(c) /\ n <= r + 3
      /\ c = "S" => n = 0
  BY DEF CodeOK
<1>2. n \in Nat /\ \A i \in 1 .. n : code[i] \in CodeTexts
  BY <1>1, ElementOfSeq, LenProperties
<1>3. \A x \in CodeTexts : x.size \in Nat /\ x.size <= 304
  BY DEF CodeTexts
<1>4. Texts(code)
  <2> HIDE DEF CodeTexts
  <2>1. QED
    BY <1>1, <1>3, SeqTexts
<1>5. \A i \in 1 .. n : code[i].size <= 304
  BY <1>2, <1>3
<1>6. t \in Nat /\ t <= n * 304
  <2>1. 304 \in Nat
    OBVIOUS
  <2>2. QED
    BY <1>4, <1>5, <2>1, TokensBounded, Zenon
<1> HIDE DEF n, t
<1>7. c \in {"S", "M", "L"}
  BY DEF Complexities
<1>8. CASE c = "S"
  <2>1. t <= 0
    BY <1>1, <1>6, <1>8
  <2>2. QED
    BY <1>6, <1>8, <2>1 DEF t
<1>9. CASE c = "M"
  <2>1. RecentLimit(c) = 3
    BY <1>9 DEF RecentLimit
  <2>2. n <= 6
    BY <1>1, <1>2, <2>1
  <2>3. t <= 1824
    BY <1>2, <1>6, <2>2
  <2>4. QED
    BY <1>6, <1>9, <2>3 DEF t
<1>10. CASE c = "L"
  <2>1. RecentLimit(c) = 5
    BY <1>10 DEF RecentLimit
  <2>2. n <= 8
    BY <1>1, <1>2, <2>1
  <2>3. t <= 2432
    BY <1>2, <1>6, <2>2
  <2>4. QED
    BY <1>6, <1>10, <2>3 DEF t
<1>11. QED
  BY <1>7, <1>8, <1>9, <1>10 DEF t

LEMMA DocumentsCut ==
  ASSUME NEW x \in DocSizes \cup {0, 17}, NEW c,
         NEW y \in AgentTexts
  PROVE  /\ x \in Nat /\ ProjectCap(c) \in Nat /\ y \in 0 .. 804
         /\ Truncate(x, ProjectCap(c)) \in 0 .. (ProjectCap(c) + 4)
         /\ x > 0 => Truncate(x, ProjectCap(c)) > 0
<1>1. DocSizes \subseteq Nat
  BY SizesAssumption
<1>2. x \in Nat /\ ProjectCap(c) \in Nat
  BY <1>1 DEF ProjectCap
<1>3. ASSUME NEW size \in DocSizes \cup {0} PROVE Truncate(size, 800) \in 0 .. 804
  <2>1. size \in Nat
    BY <1>1
  <2>2. QED
    BY <2>1 DEF Truncate
<1>4. y \in 0 .. 804
  BY <1>3 DEF AgentTexts
<1>5. QED
  BY <1>2, <1>4, Truncated

\* Two documents and the other texts, each within its limit.
InLimits(c, d, y, t) ==
    /\ c \in {"S", "M", "L"} /\ d \in 0 .. (ProjectCap(c) + 4) /\ y \in 0 .. 804 /\ t \in Nat
    /\ (c = "S" => t <= 0) /\ (c = "M" => t <= 1824) /\ (c = "L" => t <= 2432)

LEMMA Adds ==
  ASSUME NEW c, NEW d, NEW y, NEW t, InLimits(c, d, y, t)
  PROVE  Budget(c) \in Nat /\ d + y + t <= Budget(c)
<1>1. /\ c \in {"S", "M", "L"} /\ d \in 0 .. (ProjectCap(c) + 4) /\ y \in 0 .. 804
      /\ t \in Nat
      /\ (c = "S" => t <= 0) /\ (c = "M" => t <= 1824) /\ (c = "L" => t <= 2432)
  BY DEF InLimits
<1>2. CASE c = "S"
  <2>1. Budget(c) = 2000 /\ ProjectCap(c) = 800 /\ t <= 0
    BY <1>1, <1>2 DEF Budget, ProjectCap
  <2>2. QED
    BY <1>1, <2>1
<1>3. CASE c = "M"
  <2>1. Budget(c) = 6000 /\ ProjectCap(c) = 800 /\ t <= 1824
    BY <1>1, <1>3 DEF Budget, ProjectCap
  <2>2. QED
    BY <1>1, <2>1
<1>4. CASE c = "L"
  <2>1. Budget(c) = 12000 /\ ProjectCap(c) = 2000 /\ t <= 2432
    BY <1>1, <1>4 DEF Budget, ProjectCap
  <2>2. QED
    BY <1>1, <2>1
<1>5. QED
  BY <1>1, <1>2, <1>3, <1>4

\* The budget is met by dropping decisions alone.
LEMMA Joined ==
  ASSUME NEW m, NEW c \in Complexities, NEW a, Gathered(m, c, {}, a)
  PROVE  LET r == Enforce([m EXCEPT !.project = Truncate(@, ProjectCap(c))], Budget(c))
         IN  Fits(r, c, a, m.adrs) /\ Shows(r, a)
<1> DEFINE b == Budget(c)
           d == Truncate(m.project, ProjectCap(c))
           q == [m EXCEPT !.project = d]
           r == Enforce(q, b)
<1>1. /\ DOMAIN m = MemFields
      /\ m.project \in DocSizes \cup {0, 17}
      /\ m.agent \in AgentTexts
      /\ CodeOK(m.code, m.recent, c, {}, a)
      /\ m.adrs \in Seq(AdrTexts)
      /\ "project" \in a => m.project > 0
      /\ "scopes" \in a => m.scopes
      /\ "resolved" \in a => Relevant(m.resolved, "title") # {}
  BY DEF Gathered
<1>2. DocSizes \subseteq Nat /\ AdrSizes \subseteq Nat
  BY SizesAssumption
<1> HIDE DEF b, r, q
<1>3. /\ m.project \in Nat /\ ProjectCap(c) \in Nat /\ m.agent \in 0 .. 804
      /\ d \in 0 .. (ProjectCap(c) + 4)
      /\ m.project > 0 => d > 0
  <2>1. m.project \in DocSizes \cup {0, 17} /\ m.agent \in AgentTexts
    BY <1>1
  <2>2. QED
    BY <2>1, DocumentsCut, Zenon
<1>4. d \in Nat
  <2> HIDE DEF d
  <2>1. QED
    BY <1>3
<1> HIDE DEF d
<1>6. /\ DOMAIN q = MemFields /\ q.project = d /\ q.agent = m.agent /\ q.code = m.code
      /\ q.adrs = m.adrs /\ q.recent = m.recent /\ q.scopes = m.scopes /\ q.resolved = m.resolved
  BY <1>1 DEF MemFields, q
<1>7. Tokens(m.code) \in Nat /\ b \in Nat /\ d + m.agent + Tokens(m.code) <= b
  <2>1. /\ Tokens(m.code) \in Nat
        /\ c = "S" => Tokens(m.code) <= 0
        /\ c = "M" => Tokens(m.code) <= 1824
        /\ c = "L" => Tokens(m.code) <= 2432
    BY <1>1, CodeTokens
  <2>2. QED
    <3> DEFINE y == m.agent
               t == Tokens(m.code)
    <3>1. d \in 0 .. (ProjectCap(c) + 4) /\ y \in 0 .. 804
      BY <1>3
    <3>2. t \in Nat /\ (c = "S" => t <= 0) /\ (c = "M" => t <= 1824) /\ (c = "L" => t <= 2432)
      BY <2>1
    <3> HIDE DEF y, t
    <3>3. Budget(c) \in Nat /\ d + y + t <= Budget(c)
      <4>1. InLimits(c, d, y, t)
        BY <3>1, <3>2 DEF InLimits, Complexities
      <4>2. QED
        BY <4>1, Adds, Zenon
    <3>4. QED
      BY <3>2, <3>3 DEF y, t, b
<1>8. \A x \in AdrTexts : x.size \in Nat /\ x.size \in AdrSizes
  BY <1>2 DEF AdrTexts
<1>9. /\ DOMAIN r = MemFields /\ r.adrs \in Seq(AdrTexts)
      /\ r.project = d /\ r.agent = m.agent /\ r.code = m.code
      /\ r.recent = m.recent /\ r.scopes = m.scopes /\ r.resolved = m.resolved
      /\ Total(r) <= b /\ IsPrefix(r.adrs, m.adrs)
      /\ r.adrs # m.adrs => Total(r) + m.adrs[Len(r.adrs) + 1].size > b
  <2>1. q.adrs \in Seq(AdrTexts) /\ q.project \in Nat /\ q.agent \in Nat
        /\ Tokens(q.code) \in Nat /\ q.project + q.agent + Tokens(q.code) <= b
    <3>1. m.adrs \in Seq(AdrTexts)
      BY <1>1
    <3>2. d \in Nat /\ m.agent \in Nat
      BY <1>3, <1>4
    <3> HIDE DEF AdrTexts
    <3>3. QED
      BY <1>6, <1>7, <3>1, <3>2
  <2>2. EnforcedTo(q, r, b, AdrTexts)
    BY <1>6, <1>7, <1>8, <2>1, Enforced DEF r
  <2>3. QED
    BY <1>6, <2>2 DEF EnforcedTo
<1>10. r.project \in {Truncate(size, ProjectCap(c)) : size \in DocSizes \cup {0, 17}}
  BY <1>1, <1>9, Zenon DEF d
<1>11. /\ Cardinality(Recents(m.code)) = m.recent
       /\ "recent" \in a => m.recent > 0
       /\ "resolved" \in a => \E i \in DOMAIN m.code : m.code[i].src = "resolved"
  BY <1>1 DEF CodeOK
<1>12. Fits(r, c, a, m.adrs)
  <2>1. r.agent \in {Truncate(size, 800) : size \in DocSizes \cup {0}}
    BY <1>1, <1>9, Zenon DEF AgentTexts
  <2>2. Cardinality(Recents(r.code)) = r.recent
        /\ ("resolved" \in a => \E i \in DOMAIN r.code : r.code[i].src = "resolved")
    BY <1>9, <1>11
  <2>3. QED
    BY <1>9, <1>10, <2>1, <2>2, Zenon DEF Fits, b
<1>13. Shows(r, a)
  BY <1>1, <1>3, <1>9, <1>11 DEF Shows
<1>14. QED
  BY <1>12, <1>13, Zenon DEF r, q, d, b

LEMMA FourFinite ==
  ASSUME NEW x, NEW y, NEW z, NEW w
  PROVE  IsFiniteSet({x, y, z, w})
<1>1. IsFiniteSet({x}) /\ IsFiniteSet({y}) /\ IsFiniteSet({z}) /\ IsFiniteSet({w})
  BY FS_Singleton
<1>2. IsFiniteSet(({x} \cup {y}) \cup ({z} \cup {w}))
  BY <1>1, FS_Union
<1>3. ({x} \cup {y}) \cup ({z} \cup {w}) = {x, y, z, w}
  OBVIOUS
<1>4. QED
  BY <1>2, <1>3

LEMMA KnownFinite == IsFiniteSet(Known)
  BY ONLY FourFinite, Zenon DEF Known

\* At most three patterns are found.
LEMMA FewFound ==
  ASSUME NEW recorded, recorded \subseteq Known, NEW query, NEW found \in Search(recorded, query)
  PROVE  Cardinality(found) \in 0 .. 3 /\ (found # {} <=> Cardinality(found) > 0)
<1> DEFINE rel == Relevant(recorded, query)
<1>1. IsFiniteSet(Known)
  BY KnownFinite
<1>2. rel \subseteq Known
  BY DEF Relevant
<1>3. /\ found \subseteq rel /\ Cardinality(found) = Min({3, Cardinality(rel)})
  BY DEF Search
<1> HIDE DEF rel
<1>4. IsFiniteSet(rel) /\ IsFiniteSet(found)
  BY <1>1, <1>2, <1>3, FS_Subset
<1>5. Cardinality(rel) \in Nat /\ Cardinality(found) \in Nat
  BY <1>4, FS_CardinalityType
<1>6. Min({3, Cardinality(rel)}) <= 3
  <2>1. \E x \in {3, Cardinality(rel)} : \A y \in {3, Cardinality(rel)} : x <= y
    BY <1>5
  <2>2. \A y \in {3, Cardinality(rel)} : Min({3, Cardinality(rel)}) <= y
    BY <2>1 DEF Min
  <2>3. QED
    BY <2>2
<1>7. found = {} <=> Cardinality(found) = 0
  BY <1>4, FS_EmptySet
<1>8. QED
  BY <1>3, <1>5, <1>6, <1>7

CoreReads == {"project", "recent", "resolved", "scopes", "adrs"}
RemoteReads == {"window", "code", "patterns", "blockers", "skill"}

Of(pairs) == {p[2] : p \in pairs}

\* What the executor's prompt and the enriched context show.
Told(a, pairs) == a \ {"adrs"} \subseteq Of(pairs)
Enriched(a, pairs) == a \ {"adrs", "scopes", "recent"} \subseteq Of(pairs)

\* What the core read and the fetches will not replace.
Taken(a, pairs) ==
    \A f \in a : f \in {"project", "resolved"} =>
        \E p \in pairs : p[2] = f /\ p[1] # "RecentTasks"

ContextInv ==
    /\ cx \in Complexities
    /\ at = "idle" => answered = {}
    /\ at = "core" =>
          /\ pending \subseteq Reads(cx) /\ answered \subseteq CoreReads
          /\ Gathered(mem, cx, pending, answered) /\ listed = mem.adrs
    /\ at # "core" => pending \subseteq RemoteReads
    /\ at = "built" =>
          /\ answered \subseteq CoreReads
          /\ Fits(mem, cx, answered, listed) /\ Shows(mem, answered)
    /\ at = "fetch" =>
          /\ pending \subseteq Fetches /\ answered \subseteq CoreReads \cup Fetches
          /\ Taken(answered, shown)
    /\ at \in {"skills", "render", "done"} => Told(answered, shown)
    /\ at = "enriched" => Enriched(answered, shown)
    /\ at \notin {"core", "built"} => listed = <<>>

LEMMA ContextIs == ContextInv => ContextFits /\ NothingMissing
<1>1. ContextInv => ContextFits
  BY Zenon DEF ContextInv, ContextFits, Fits, Recents
<1>2. ContextInv => NothingMissing
  BY Zenon DEF ContextInv, NothingMissing, Told, Enriched, Sources, Of
<1>3. QED
  BY <1>1, <1>2

\* The context before the first read.
LEMMA Begun ==
  ASSUME NEW c \in Complexities, NEW text \in DocSizes \cup {0}, NEW mine,
         NEW recorded \in Indexes
  PROVE  Gathered(Tier1(text, mine, recorded), c, Reads(c), {})
         /\ Tier1(text, mine, recorded).adrs = <<>>
<1> DEFINE x == Truncate(text, 800)
           m == [NoMem EXCEPT !.agent = x, !.scope = mine, !.resolved = recorded]
<1>1. x \in AgentTexts
  BY DEF AgentTexts
<1>2. recorded \subseteq Known
  BY Zenon DEF Indexes
<1> HIDE DEF x
<1>3. /\ DOMAIN m = MemFields /\ m.project = 0 /\ m.agent = x /\ m.code = <<>> /\ m.adrs = <<>>
      /\ m.recent = 0 /\ m.resolved = recorded
  BY DEF MemFields, NoMem
<1> HIDE DEF m
<1>4. CodeOK(<<>>, 0, c, Reads(c), {})
  <2>1. <<>> \in Seq(CodeTexts) /\ Len(<<>>) = 0 /\ RecentLimit(c) \in Nat
    BY DEF RecentLimit
  <2>2. Recents(<<>>) = {}
    BY DEF Recents
  <2>3. Cardinality({}) = 0
    BY FS_EmptySet
  <2>4. 0 \in 0 .. RecentLimit(c) /\ Len(<<>>) <= 0 + 3 /\ Cardinality(Recents(<<>>)) = 0
    <3>1. Cardinality(Recents(<<>>)) = 0
      BY <2>2, <2>3, Zenon
    <3>2. 0 \in 0 .. RecentLimit(c) /\ Len(<<>>) <= 0 + 3
      BY <2>1
    <3>3. QED
      BY <3>1, <3>2, Zenon
  <2>5. QED
    BY <2>1, <2>4, Zenon DEF CodeOK
<1>5. Gathered(m, c, Reads(c), {})
  <2>1. m.adrs \in Seq(AdrTexts) /\ m.project \in DocSizes \cup {0, 17}
    BY <1>3
  <2>2. QED
    BY <1>1, <1>2, <1>3, <1>4, <2>1 DEF Gathered
<1>6. QED
  BY <1>3, <1>5, Zenon DEF m, x, Tier1

LEMMA ContextInit == Init => ContextInv
<1>1. Told({}, {})
  BY DEF Told
<1>2. QED
  BY <1>1 DEF Init, ContextInv, Complexities

\* A read that returned, with something or not.
LEMMA CodeStays ==
  ASSUME NEW code, NEW r, NEW c, NEW p, NEW a, NEW p2, NEW a2, CodeOK(code, r, c, p, a),
         p2 \subseteq p, a2 \subseteq a \cup {"project", "scopes", "adrs"}
  PROVE  CodeOK(code, r, c, p2, a2)
<1>1. /\ "recent" \in p2 => "recent" \in p
      /\ "resolved" \in p2 => "resolved" \in p
      /\ "recent" \in a2 => "recent" \in a
      /\ "resolved" \in a2 => "resolved" \in a
  OBVIOUS
<1>2. QED
  BY <1>1, Zenon DEF CodeOK

\* A read that is still under way belongs to the core's context.
LEMMA AtCore ==
  ASSUME ContextInv, NEW f \in CoreReads, f \in pending
  PROVE  /\ at = "core" /\ cx \in {"M", "L"} /\ cx \in Complexities
         /\ pending \subseteq Reads(cx) /\ Gathered(mem, cx, pending, answered)
         /\ listed = mem.adrs
<1>1. at = "core"
  BY DEF ContextInv, CoreReads, RemoteReads
<1>2. /\ cx \in Complexities /\ pending \subseteq Reads(cx)
      /\ Gathered(mem, cx, pending, answered) /\ listed = mem.adrs
  BY <1>1 DEF ContextInv
<1>3. cx # "S"
  BY <1>2 DEF Reads
<1>4. QED
  BY <1>1, <1>2, <1>3 DEF Complexities

Reading == at = "core" /\ at' = at /\ cx' = cx /\ shown' = shown

LEMMA Reads1 ==
  ASSUME ContextInv, Reading, pending' \subseteq pending, answered' \subseteq answered \cup CoreReads,
         Gathered(mem', cx, pending', answered'), listed' = mem'.adrs
  PROVE  ContextInv'
<1>1. cx \in Complexities /\ pending \subseteq Reads(cx) /\ answered \subseteq CoreReads /\ at = "core"
  BY DEF ContextInv, Reading
<1>2. at' = "core" /\ cx' = cx
  BY <1>1 DEF Reading
<1>3. pending' \subseteq Reads(cx') /\ answered' \subseteq CoreReads
  BY <1>1, <1>2
<1>4. QED
  BY <1>1, <1>2, <1>3 DEF ContextInv

LEMMA FailedRead ==
  ASSUME ContextInv, NEW f \in pending, ReadFails(f)
  PROVE  ContextInv'
<1>1. /\ at = "core" /\ pending' = pending \ {f} /\ answered' = answered /\ mem' = mem
      /\ Reading /\ listed' = listed
  BY DEF ReadFails, Rest, Reading
<1>2. Gathered(mem, cx, pending, answered) /\ listed = mem.adrs
  BY <1>1 DEF ContextInv
<1>3. pending' \subseteq pending /\ answered' \subseteq answered
  BY <1>1
<1>4. Gathered(mem', cx, pending', answered')
  <2>1. CodeOK(mem.code, mem.recent, cx, pending, answered)
    BY <1>2 DEF Gathered
  <2>2. CodeOK(mem.code, mem.recent, cx, pending', answered')
    BY <1>3, <2>1, CodeStays
  <2>3. pending' \cap answered' = {}
    BY <1>1, <1>2 DEF Gathered
  <2>4. QED
    BY <1>1, <1>2, <2>2, <2>3, Zenon DEF Gathered
<1>5. answered' \subseteq answered \cup CoreReads
  BY <1>3
<1>6. QED
  BY <1>1, <1>2, <1>3, <1>4, <1>5, Reads1

\* The parts of what was gathered that a read leaves alone.
LEMMA Parted ==
  ASSUME NEW m, NEW c, NEW p, NEW a, Gathered(m, c, p, a)
  PROVE  /\ DOMAIN m = MemFields /\ p \cap a = {}
         /\ m.project \in DocSizes \cup {0, 17} /\ m.agent \in AgentTexts
         /\ m.adrs \in Seq(AdrTexts) /\ m.resolved \subseteq Known
         /\ CodeOK(m.code, m.recent, c, p, a)
         /\ "project" \in a => m.project > 0
         /\ "scopes" \in a => m.scopes
         /\ "resolved" \in a => Relevant(m.resolved, "title") # {}
  BY DEF Gathered

LEMMA ProjectRead == ASSUME ContextInv, ReadProjectDoc PROVE ContextInv'
<1>1. PICK size \in DocSizes \cup {0, 17} :
        mem' = [mem EXCEPT !.project = size] /\ Ends("project", size > 0)
  BY DEF ReadProjectDoc
<1>2. /\ pending' = pending \ {"project"}
      /\ answered' = IF size > 0 THEN answered \cup {"project"} ELSE answered
  BY <1>1 DEF Ends
<1>3. /\ "project" \in pending /\ Reading /\ Gathered(mem, cx, pending, answered)
      /\ listed' = listed /\ listed = mem.adrs
  BY AtCore DEF ReadProjectDoc, Rest, Reading, CoreReads
<1>4. /\ DOMAIN mem = MemFields /\ pending \cap answered = {}
      /\ mem.agent \in AgentTexts /\ mem.adrs \in Seq(AdrTexts) /\ mem.resolved \subseteq Known
      /\ CodeOK(mem.code, mem.recent, cx, pending, answered)
      /\ "scopes" \in answered => mem.scopes
      /\ "resolved" \in answered => Relevant(mem.resolved, "title") # {}
  BY <1>3, Parted
<1>5. /\ DOMAIN mem' = MemFields /\ mem'.project = size /\ mem'.agent = mem.agent
      /\ mem'.adrs = mem.adrs /\ mem'.resolved = mem.resolved /\ mem'.code = mem.code
      /\ mem'.recent = mem.recent /\ mem'.scopes = mem.scopes
  BY <1>1, <1>4 DEF MemFields
<1>6. /\ pending' \subseteq pending /\ answered' \subseteq answered \cup {"project", "scopes", "adrs"}
      /\ answered' \subseteq answered \cup CoreReads
      /\ pending' \cap answered' = {}
      /\ "project" \in answered' => size > 0
      /\ "scopes" \in answered' => "scopes" \in answered
      /\ "resolved" \in answered' => "resolved" \in answered
  BY <1>2, <1>3, <1>4 DEF CoreReads
<1>7. CodeOK(mem'.code, mem'.recent, cx, pending', answered')
  BY <1>4, <1>5, <1>6, CodeStays
<1>8. Gathered(mem', cx, pending', answered')
  BY <1>1, <1>4, <1>5, <1>6, <1>7 DEF Gathered
<1>9. QED
  BY <1>3, <1>5, <1>6, <1>8, Reads1

LEMMA ScopesRead == ASSUME ContextInv, ReadAllScopes PROVE ContextInv'
<1>1. /\ mem' = [mem EXCEPT !.scopes = TRUE]
      /\ pending' = pending \ {"scopes"} /\ answered' = answered \cup {"scopes"}
  BY DEF ReadAllScopes, Returns, Ends
<1>2. /\ "scopes" \in pending /\ Reading /\ Gathered(mem, cx, pending, answered)
      /\ listed' = listed /\ listed = mem.adrs
  BY AtCore DEF ReadAllScopes, Rest, Reading, CoreReads
<1>3. /\ DOMAIN mem = MemFields /\ pending \cap answered = {}
      /\ mem.project \in DocSizes \cup {0, 17} /\ mem.agent \in AgentTexts
      /\ mem.adrs \in Seq(AdrTexts) /\ mem.resolved \subseteq Known
      /\ CodeOK(mem.code, mem.recent, cx, pending, answered)
      /\ "project" \in answered => mem.project > 0
      /\ "resolved" \in answered => Relevant(mem.resolved, "title") # {}
  BY <1>2, Parted
<1>4. /\ DOMAIN mem' = MemFields /\ mem'.project = mem.project /\ mem'.agent = mem.agent
      /\ mem'.adrs = mem.adrs /\ mem'.resolved = mem.resolved /\ mem'.code = mem.code
      /\ mem'.recent = mem.recent /\ mem'.scopes = TRUE
  BY <1>1, <1>3 DEF MemFields
<1>5. /\ pending' \subseteq pending /\ answered' \subseteq answered \cup {"project", "scopes", "adrs"}
      /\ answered' \subseteq answered \cup CoreReads
      /\ pending' \cap answered' = {}
      /\ "project" \in answered' => "project" \in answered
      /\ "resolved" \in answered' => "resolved" \in answered
  BY <1>1, <1>3 DEF CoreReads
<1>6. CodeOK(mem'.code, mem'.recent, cx, pending', answered')
  BY <1>3, <1>4, <1>5, CodeStays
<1>7. Gathered(mem', cx, pending', answered')
  BY <1>3, <1>4, <1>5, <1>6 DEF Gathered
<1>8. QED
  BY <1>2, <1>4, <1>5, <1>7, Reads1

LEMMA DecisionsRead == ASSUME ContextInv, ListADRs PROVE ContextInv'
<1>1. PICK n \in 1 .. MaxAdrs : \E sizes \in [1 .. n -> AdrSizes] :
        listed' = [i \in 1 .. n |-> [src |-> "adrs", size |-> sizes[i]]]
  BY DEF ListADRs
<1>2. PICK sizes \in [1 .. n -> AdrSizes] :
        listed' = [i \in 1 .. n |-> [src |-> "adrs", size |-> sizes[i]]]
  BY <1>1
<1> DEFINE texts == [i \in 1 .. n |-> [src |-> "adrs", size |-> sizes[i]]]
<1>3. texts \in Seq(AdrTexts)
  <2>1. n \in Nat
    BY SizesAssumption
  <2>2. ASSUME NEW i \in 1 .. n PROVE [src |-> "adrs", size |-> sizes[i]] \in AdrTexts
    BY DEF AdrTexts
  <2> HIDE DEF AdrTexts
  <2>3. QED
    BY <2>1, <2>2, IsASeq
<1>4. mem' = [mem EXCEPT !.adrs = texts] /\ listed' = texts
  BY <1>2 DEF ListADRs
<1> HIDE DEF texts
<1>5. /\ pending' = pending \ {"adrs"} /\ answered' = answered \cup {"adrs"}
  BY DEF ListADRs, Returns, Ends
<1>6. "adrs" \in pending /\ Reading /\ Gathered(mem, cx, pending, answered)
  BY AtCore DEF ListADRs, Rest, Reading, CoreReads
<1>7. /\ DOMAIN mem = MemFields /\ pending \cap answered = {}
      /\ mem.project \in DocSizes \cup {0, 17} /\ mem.agent \in AgentTexts
      /\ mem.resolved \subseteq Known
      /\ CodeOK(mem.code, mem.recent, cx, pending, answered)
      /\ "project" \in answered => mem.project > 0
      /\ "scopes" \in answered => mem.scopes
      /\ "resolved" \in answered => Relevant(mem.resolved, "title") # {}
  BY <1>6, Parted
<1>8. /\ DOMAIN mem' = MemFields /\ mem'.project = mem.project /\ mem'.agent = mem.agent
      /\ mem'.adrs = texts /\ mem'.resolved = mem.resolved /\ mem'.code = mem.code
      /\ mem'.recent = mem.recent /\ mem'.scopes = mem.scopes
  BY <1>4, <1>7 DEF MemFields
<1>9. /\ pending' \subseteq pending /\ answered' \subseteq answered \cup {"project", "scopes", "adrs"}
      /\ answered' \subseteq answered \cup CoreReads
      /\ pending' \cap answered' = {}
      /\ "project" \in answered' => "project" \in answered
      /\ "scopes" \in answered' => "scopes" \in answered
      /\ "resolved" \in answered' => "resolved" \in answered
  BY <1>5, <1>7 DEF CoreReads
<1>10. CodeOK(mem'.code, mem'.recent, cx, pending', answered')
  BY <1>7, <1>8, <1>9, CodeStays
<1>11. Gathered(mem', cx, pending', answered')
  BY <1>3, <1>7, <1>8, <1>9, <1>10 DEF Gathered
<1>12. QED
  BY <1>4, <1>6, <1>8, <1>9, <1>11, Reads1

LEMMA EntryCut ==
  ASSUME NEW size \in EntrySizes
  PROVE  Truncate(size, 300) \in 0 .. 304 /\ Truncate(size, 200) \in 0 .. 304
<1>1. size \in Nat
  BY SizesAssumption
<1>2. QED
  BY <1>1 DEF Truncate

LEMMA RecentRead == ASSUME ContextInv, RecentByRole PROVE ContextInv'
<1>1. PICK n \in {1, RecentLimit(cx)} : \E size \in EntrySizes :
        mem' = [mem EXCEPT
             !.code = @ \o [i \in 1 .. n |-> [src |-> "recent", size |-> Truncate(size, 300)]],
             !.recent = n]
  BY DEF RecentByRole
<1>2. PICK size \in EntrySizes :
        mem' = [mem EXCEPT
             !.code = @ \o [i \in 1 .. n |-> [src |-> "recent", size |-> Truncate(size, 300)]],
             !.recent = n]
  BY <1>1
<1> DEFINE z == Truncate(size, 300)
           new == [i \in 1 .. n |-> [src |-> "recent", size |-> z]]
           all == mem.code \o new
<1>3. mem' = [mem EXCEPT !.code = all, !.recent = n]
  BY <1>2
<1>4. z \in 0 .. 304
  BY EntryCut
<1> HIDE DEF z
<1>5. /\ pending' = pending \ {"recent"} /\ answered' = answered \cup {"recent"}
  BY DEF RecentByRole, Returns, Ends
<1>6. /\ "recent" \in pending /\ Reading /\ cx \in {"M", "L"}
      /\ Gathered(mem, cx, pending, answered)
      /\ listed' = listed /\ listed = mem.adrs
  BY AtCore DEF RecentByRole, Rest, Reading, CoreReads
<1>7. /\ DOMAIN mem = MemFields /\ pending \cap answered = {}
      /\ mem.project \in DocSizes \cup {0, 17} /\ mem.agent \in AgentTexts
      /\ mem.adrs \in Seq(AdrTexts) /\ mem.resolved \subseteq Known
      /\ CodeOK(mem.code, mem.recent, cx, pending, answered)
      /\ "project" \in answered => mem.project > 0
      /\ "scopes" \in answered => mem.scopes
      /\ "resolved" \in answered => Relevant(mem.resolved, "title") # {}
  BY <1>6, Parted
<1>8. CodeOK(all, n, cx, pending', answered')
  <2>1. mem.recent = 0
    BY <1>6, <1>7 DEF CodeOK
  <2>2. CodeOK(mem.code, 0, cx, pending, answered)
    BY <1>7, <2>1
  <2>3. n \in 1 .. RecentLimit(cx)
    BY <1>6 DEF RecentLimit
  <2>4. CodeOK(all, n, cx, pending \ {"recent"}, answered \cup {"recent"})
    <3>1. Copies(new, "recent", n, z)
      BY Zenon DEF Copies
    <3> HIDE DEF new
    <3>2. QED
      BY <1>4, <1>6, <2>2, <2>3, <3>1, RecentCome, Zenon
  <2> HIDE DEF all
  <2>5. QED
    BY <1>5, <2>4
<1> HIDE DEF all
<1>9. /\ DOMAIN mem' = MemFields /\ mem'.project = mem.project /\ mem'.agent = mem.agent
      /\ mem'.adrs = mem.adrs /\ mem'.resolved = mem.resolved /\ mem'.code = all
      /\ mem'.recent = n /\ mem'.scopes = mem.scopes
  BY <1>3, <1>7 DEF MemFields
<1>10. /\ pending' \subseteq pending /\ answered' \subseteq answered \cup CoreReads
       /\ pending' \cap answered' = {}
       /\ \A f \in {"project", "scopes", "resolved"} : f \in answered' => f \in answered
  BY <1>5, <1>7 DEF CoreReads
<1>11. Gathered(mem', cx, pending', answered')
  BY <1>7, <1>8, <1>9, <1>10 DEF Gathered
<1>12. QED
  BY <1>6, <1>9, <1>10, <1>11, Reads1

LEMMA ResolvedRead == ASSUME ContextInv, ResolvedSearch PROVE ContextInv'
<1>1. PICK found \in Search(mem.resolved, "title") : \E size \in EntrySizes :
        /\ mem' = [mem EXCEPT
              !.code = @ \o [i \in 1 .. Cardinality(found) |->
                               [src |-> "resolved", size |-> Truncate(size, 200)]]]
        /\ Ends("resolved", found # {})
  BY DEF ResolvedSearch
<1>2. PICK size \in EntrySizes :
        /\ mem' = [mem EXCEPT
              !.code = @ \o [i \in 1 .. Cardinality(found) |->
                               [src |-> "resolved", size |-> Truncate(size, 200)]]]
        /\ Ends("resolved", found # {})
  BY <1>1
<1> DEFINE z == Truncate(size, 200)
           n == Cardinality(found)
           new == [i \in 1 .. n |-> [src |-> "resolved", size |-> z]]
           all == mem.code \o new
<1>3. mem' = [mem EXCEPT !.code = all]
  BY <1>2
<1>4. z \in 0 .. 304
  BY EntryCut
<1>5. /\ pending' = pending \ {"resolved"}
      /\ answered' = IF found # {} THEN answered \cup {"resolved"} ELSE answered
  BY <1>2 DEF Ends
<1>6. /\ "resolved" \in pending /\ Reading /\ cx \in {"M", "L"}
      /\ Gathered(mem, cx, pending, answered)
      /\ listed' = listed /\ listed = mem.adrs
  BY AtCore DEF ResolvedSearch, Rest, Reading, CoreReads
<1>7. /\ DOMAIN mem = MemFields /\ pending \cap answered = {}
      /\ mem.project \in DocSizes \cup {0, 17} /\ mem.agent \in AgentTexts
      /\ mem.adrs \in Seq(AdrTexts) /\ mem.resolved \subseteq Known
      /\ CodeOK(mem.code, mem.recent, cx, pending, answered)
      /\ "project" \in answered => mem.project > 0
      /\ "scopes" \in answered => mem.scopes
      /\ "resolved" \in answered => Relevant(mem.resolved, "title") # {}
  BY <1>6, Parted
<1>8. n \in 0 .. 3 /\ (found # {} <=> n > 0)
  BY <1>7, FewFound
<1> HIDE DEF z, n
<1>9. /\ answered' \subseteq answered \cup {"resolved"}
      /\ "resolved" \in answered' => n > 0 \/ "resolved" \in answered
  BY <1>5, <1>8
<1>10. CodeOK(all, mem.recent, cx, pending', answered')
  <2>1. CodeOK(all, mem.recent, cx, pending \ {"resolved"}, answered')
    <3>1. Copies(new, "resolved", n, z)
      BY Zenon DEF Copies
    <3> HIDE DEF new
    <3>2. QED
      <4>1. /\ CodeOK(mem.code, mem.recent, cx, pending, answered) /\ cx \in {"M", "L"}
            /\ "resolved" \in pending /\ n \in 0 .. 3
        BY <1>6, <1>7, <1>8, Zenon
      <4> HIDE DEF all
      <4>2. CodeOK(mem.code \o new, mem.recent, cx, pending \ {"resolved"}, answered')
        BY <1>4, <1>9, <3>1, <4>1, ResolvedCome, Zenon
      <4>3. QED
        BY <4>2 DEF all
  <2> HIDE DEF all
  <2>2. QED
    BY <1>5, <2>1
<1> HIDE DEF all
<1>11. /\ DOMAIN mem' = MemFields /\ mem'.project = mem.project /\ mem'.agent = mem.agent
       /\ mem'.adrs = mem.adrs /\ mem'.resolved = mem.resolved /\ mem'.code = all
       /\ mem'.recent = mem.recent /\ mem'.scopes = mem.scopes
  BY <1>3, <1>7 DEF MemFields
<1>12. /\ pending' \subseteq pending /\ answered' \subseteq answered \cup CoreReads
       /\ pending' \cap answered' = {}
       /\ \A f \in {"project", "scopes"} : f \in answered' => f \in answered
       /\ "resolved" \in answered' => Relevant(mem.resolved, "title") # {}
  <2>1. found \subseteq Relevant(mem.resolved, "title")
    BY DEF Search
  <2>2. QED
    BY <1>5, <1>7, <2>1 DEF CoreReads
<1>13. Gathered(mem', cx, pending', answered')
  BY <1>7, <1>10, <1>11, <1>12 DEF Gathered
<1>14. QED
  BY <1>6, <1>11, <1>12, <1>13, Reads1

LEMMA ContextNext == ContextInv /\ [Next]_vars => ContextInv'
<1> SUFFICES ASSUME ContextInv, [Next]_vars PROVE ContextInv'
  OBVIOUS
<1>0. cx \in Complexities
  BY DEF ContextInv
<1>1. CASE BuildContext
  <2>1. PICK c \in Complexities, text \in DocSizes \cup {0}, mine \in BOOLEAN, recorded \in Indexes :
          cx' = c /\ pending' = Reads(c) /\ mem' = Tier1(text, mine, recorded)
    BY <1>1 DEF BuildContext
  <2>2. Gathered(Tier1(text, mine, recorded), c, Reads(c), {})
        /\ Tier1(text, mine, recorded).adrs = <<>>
    BY <2>1, Begun
  <2>3. at' = "core" /\ answered' = {} /\ listed' = <<>>
    BY <1>1 DEF BuildContext, ContextInv
  <2>4. Gathered(mem', cx', pending', answered') /\ listed' = mem'.adrs
    BY <2>1, <2>2, <2>3
  <2>5. QED
    BY <2>1, <2>3, <2>4 DEF ContextInv
<1>2. CASE CoreRead
  BY <1>2, FailedRead, ProjectRead, RecentRead, ResolvedRead, ScopesRead, DecisionsRead
     DEF CoreRead
<1>3. CASE Join
  <2>1. /\ at = "core" /\ pending = {} /\ at' = "built" /\ cx' = cx /\ pending' = pending
        /\ answered' = answered /\ listed' = listed
        /\ mem' = Enforce([mem EXCEPT !.project = Truncate(@, ProjectCap(cx))], Budget(cx))
    BY <1>3 DEF Join
  <2>2. Gathered(mem, cx, {}, answered) /\ answered \subseteq CoreReads /\ listed = mem.adrs
    BY <2>1 DEF ContextInv
  <2>3. Fits(mem', cx, answered, listed) /\ Shows(mem', answered)
    BY <1>0, <2>1, <2>2, Joined, Zenon
  <2>4. QED
    BY <1>0, <2>1, <2>2, <2>3 DEF ContextInv
<1>4. CASE StartFetches
  <2>1. PICK team \in BOOLEAN, list \in {TRUE, "resolved" \in answered} :
          shown' = Legacy(mem, team, list)
    BY <1>4 DEF StartFetches
  <2>2. /\ at = "built" /\ answered' = answered /\ cx' = cx /\ pending' = Fetches /\ listed' = <<>>
        /\ at' = IF Fetches = {} THEN "enriched" ELSE "fetch"
    BY <1>4 DEF StartFetches
  <2>3. answered \subseteq CoreReads /\ Shows(mem, answered)
    BY <2>2 DEF ContextInv
  <2>4. Taken(answered', shown')
    <3>1. ASSUME "project" \in answered PROVE <<"ProjectDoc", "project">> \in shown'
      BY <2>1, <2>3, <3>1 DEF Legacy, If, Shows
    <3>2. ASSUME "resolved" \in answered PROVE <<"KnownErrors", "resolved">> \in shown'
      BY <2>1, <2>3, <3>2 DEF Legacy, If, Shows
    <3>3. QED
      BY <2>2, <3>1, <3>2 DEF Taken
  <2>5. Enriched(answered', shown')
    BY <2>2, <2>3, <2>4 DEF Enriched, Taken, Of, CoreReads
  <2>6. Fetches \subseteq RemoteReads
    BY DEF Fetches, RemoteReads
  <2>7. QED
    BY <1>0, <2>2, <2>3, <2>4, <2>5, <2>6 DEF ContextInv
<1>5. ASSUME at = "fetch", at' = at, cx' = cx, pending' \subseteq pending,
             answered' \subseteq answered \cup pending, shown' = shown, listed' = listed
      PROVE  ContextInv'
  <2>1. pending \subseteq RemoteReads /\ pending \subseteq Fetches /\ Taken(answered, shown)
        /\ answered \subseteq CoreReads \cup Fetches /\ listed = <<>>
    BY <1>5 DEF ContextInv
  <2>2. Taken(answered', shown')
    <3>1. ASSUME NEW f \in answered', f \in {"project", "resolved"} PROVE f \in answered
      BY <1>5, <2>1, <3>1 DEF RemoteReads
    <3>2. QED
      BY <1>5, <2>1, <3>1 DEF Taken
  <2>3. QED
    BY <1>0, <1>5, <2>1, <2>2 DEF ContextInv
<1>6. ASSUME NEW f, Fetch(f) PROVE ContextInv'
  BY <1>5, <1>6 DEF Fetch, FetchAnswers, FetchEmpty, Returns, Ends
<1>7. CASE GetContextWindow \/ SearchSimilarCode \/ SearchResolvedPatterns
           \/ GetBlockingTasks \/ GetAgentSkillSummary
  BY <1>6, <1>7 DEF GetContextWindow, SearchSimilarCode, SearchResolvedPatterns,
     GetBlockingTasks, GetAgentSkillSummary
<1>8. CASE \E f \in pending : LateFetchFails(f)
  BY <1>6, <1>8 DEF LateFetchFails, Fetch
<1>9. CASE Deadline
  BY <1>5, <1>9 DEF Deadline
<1>10. CASE Enrich
  <2>1. /\ at = "fetch" /\ at' = "enriched" /\ cx' = cx /\ pending' = {}
        /\ answered' = answered /\ listed' = listed
        /\ {<<Place(f), f>> : f \in answered \cap Fetches} \subseteq shown'
        /\ \A p \in shown : p[1] # "RecentTasks" => p \in shown'
    BY <1>10 DEF Enrich
  <2>2. answered \subseteq CoreReads \cup Fetches /\ Taken(answered, shown) /\ listed = <<>>
    BY <2>1 DEF ContextInv
  <2>3. Enriched(answered', shown')
    <3>1. ASSUME NEW f \in answered \ {"adrs", "scopes", "recent"}
          PROVE  \E p \in shown' : p[2] = f
      <4>1. CASE f \in Fetches
        <5>1. <<Place(f), f>> \in shown'
          BY <2>1, <4>1
        <5>2. QED
          BY <5>1
      <4>2. CASE f \in {"project", "resolved"}
        BY <2>1, <2>2, <4>2 DEF Taken
      <4>3. QED
        BY <2>2, <4>1, <4>2 DEF CoreReads
    <3>2. QED
      BY <2>1, <3>1 DEF Enriched, Of
  <2>4. QED
    BY <1>0, <2>1, <2>2, <2>3 DEF ContextInv
<1>11. CASE TakeContext
  <2>1. PICK team \in BOOLEAN, list \in {TRUE, "resolved" \in answered} :
          shown' = Sections(mem, team, list)
    BY <1>11 DEF TakeContext
  <2>2. at = "built" /\ at' = "skills" /\ cx' = cx /\ pending' = pending /\ answered' = answered
        /\ listed' = <<>>
    BY <1>11 DEF TakeContext
  <2>3. answered \subseteq CoreReads /\ Shows(mem, answered) /\ pending \subseteq RemoteReads
    BY <2>2 DEF ContextInv
  <2>4. Told(answered', shown')
    <3>1. ASSUME NEW f \in answered \ {"adrs"} PROVE \E p \in shown' : p[2] = f
      <4>1. CASE f = "project"
        <5>1. <<"PROJECT CONTEXT", "project">> \in shown'
          BY <2>1, <2>3, <4>1 DEF Sections, If, Shows
        <5>2. QED
          BY <4>1, <5>1
      <4>2. CASE f = "recent"
        <5>1. <<"RECENT WORK", "recent">> \in shown'
          BY <2>1, <2>3, <4>2 DEF Sections, If, Shows
        <5>2. QED
          BY <4>2, <5>1
      <4>3. CASE f = "resolved"
        <5>1. <<"RELEVANT CODE", "resolved">> \in shown'
          BY <2>1, <2>3, <4>3 DEF Sections, Shows
        <5>2. QED
          BY <4>3, <5>1
      <4>4. CASE f = "scopes"
        <5>1. <<"TEAM SCOPE", "scopes">> \in shown'
          BY <2>1, <2>3, <4>4 DEF Sections, If, Shows
        <5>2. QED
          BY <4>4, <5>1
      <4>5. QED
        BY <2>3, <4>1, <4>2, <4>3, <4>4 DEF CoreReads
    <3>2. QED
      BY <2>2, <3>1 DEF Told, Of
  <2>5. QED
    BY <1>0, <2>2, <2>3, <2>4 DEF ContextInv
<1>12. ASSUME at \in {"skills", "render"}, at' \in {"render", "done", "panicked"}, cx' = cx,
              pending' = pending, answered' = answered, shown \subseteq shown', listed' = listed
       PROVE  ContextInv'
  <2>1. Told(answered, shown) /\ pending \subseteq RemoteReads /\ listed = <<>>
    BY <1>12 DEF ContextInv
  <2>2. Told(answered', shown')
    BY <1>12, <2>1 DEF Told, Of
  <2>3. QED
    BY <1>0, <1>12, <2>1, <2>2 DEF ContextInv
<1>13. CASE SkillContext
  <2>1. /\ at = "skills" /\ at' = "render" /\ cx' = cx /\ pending' = pending
        /\ answered' = answered /\ shown' = shown /\ listed' = listed
    BY <1>13 DEF SkillContext
  <2>2. QED
    BY <1>12, <2>1
<1>14. CASE RenderEntry
  <2>1. /\ at = "render" /\ at' \in {"render", "panicked"} /\ cx' = cx /\ pending' = pending
        /\ answered' = answered /\ shown' = shown /\ listed' = listed
    BY <1>14 DEF RenderEntry
  <2>2. QED
    BY <1>12, <2>1
<1>15. CASE Prompt
  BY <1>12, <1>15 DEF Prompt
<1>16. CASE Return
  <2>1. /\ at \in {"done", "enriched"} /\ at' = "idle" /\ cx' = "S" /\ answered' = {}
        /\ pending' = pending /\ listed' = listed
    BY <1>16 DEF Return
  <2>2. QED
    BY <2>1 DEF ContextInv, Complexities
<1>17. CASE UNCHANGED vars
  <2>1. /\ at' = at /\ cx' = cx /\ pending' = pending /\ answered' = answered /\ mem' = mem
        /\ shown' = shown /\ listed' = listed
    BY <1>17 DEF vars
  <2>2. QED
    BY <2>1 DEF ContextInv
<1>18. QED
  BY <1>1, <1>2, <1>3, <1>4, <1>7, <1>8, <1>9, <1>10, <1>11, <1>13, <1>14, <1>15, <1>16, <1>17
     DEF Next

LEMMA ContextAlways == Spec => []ContextInv
  BY ContextInit, ContextNext, PTL DEF Spec

\* The finished context is within its budget, only decisions were dropped for it,
\* from the end, and the last one dropped would not have fitted: for any sizes
\* of the documents, entries and decisions and any order of the reads
\* (memory/context.go, BuildContext; memory/store.go, enforceTokenBudget).
THEOREM ContextStaysInBudget == Spec => []ContextFits
  BY ContextAlways, ContextIs, PTL

\* What a read or a fetch returned is in the finished prompt or context, in
\* whatever order the goroutines came, except decisions dropped for the budget
\* and, in the enriched context, the decisions, other roles' scopes and recent
\* tasks it does not take over (agent/base.go, buildSystemPrompt;
\* infra/memory/store.go, BuildContext).
THEOREM NothingIsMissing == Spec => []NothingMissing
  BY ContextAlways, ContextIs, PTL
=============================================================================
