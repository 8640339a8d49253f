------------------------- MODULE DocumentIndexProofs -------------------------
(***************************************************************************)
(* Theorems about DocumentIndex, for any documents, builders, readers,     *)
(* requests, generations and deaths.                                       *)
(***************************************************************************)
EXTENDS DocumentIndex, FiniteSetTheorems, TLAPS

Status == {"PENDING", "EXTRACTED", "EMPTY", "FAILED"}
Fingerprints == [Doc -> Status]
Generation == 1..MaxGeneration
Files == [vectors : Content, manifest : Content, stamp : Fingerprints]
Begins == {"embedded", "vectors", "manifest"}
BuilderRun == [phase : {"idle", "begun", "locked", "stamped"} \cup Begins,
               fingerprint : Fingerprints, own : 0..MaxGeneration]
ReaderRun == [phase : {"idle", "snapshot", "pointer", "inspected"},
              fingerprint : Fingerprints, found : 0..MaxGeneration,
              verdict : {"NONE", "MISSING", "CORRUPT", "STALE", "READY"}]
AskerRun == [phase : {"idle", "load", "manifest loaded", "build", "answered"} \cup Writing,
             records : Content, vectors : Content]

-----------------------------------------------------------------------------
(* Documents *)

\* A document is read once, with the outcome that its original gives.
DocumentsOK ==
    /\ file \in [Doc -> FileState]
    /\ download \in [Doc -> {"PENDING", "DOWNLOADED", "FAILED"}]
    /\ extraction \in Fingerprints
    /\ \A d \in Doc : extraction[d] \in {"PENDING", Outcome[file[d]]}
    /\ batch \in [Extractor -> SUBSET Doc]

-----------------------------------------------------------------------------
(* Generations *)

\* A generation that has its stamp is whole.
StampedWhole ==
    \A g \in Generation : generations[g].stamp # NotRead =>
        /\ generations[g].manifest = RecordsOf(generations[g].stamp)
        /\ generations[g].vectors = RecordsOf(generations[g].stamp)

\* What a builder has done so far.  Its own generation has no stamp until all is written.
BuilderOK(b) ==
    LET run == builder[b]  g == run.own  r == RecordsOf(run.fingerprint)
    IN  /\ run.phase \in Building => lock = b
        /\ run.phase # "idle" => r # {}
        /\ g # 0 <=> run.phase \in Begins \cup {"stamped"}
        /\ run.phase \in Begins => generations[g].stamp = NotRead
        /\ run.phase \in {"vectors", "manifest"} => generations[g].vectors = r
        /\ run.phase = "manifest" => generations[g].manifest = r
        /\ run.phase = "stamped" => generations[g].stamp = run.fingerprint

\* A turn that was told READY has found a generation that bears its fingerprint.
ReaderOK(r) ==
    reader[r].verdict = "READY" =>
        /\ reader[r].phase = "inspected"
        /\ reader[r].found \in Generation
        /\ generations[reader[r].found].stamp = reader[r].fingerprint
        /\ reader[r].fingerprint # NotRead

GenerationsOK ==
    /\ lock \in {Free, Left} \cup Builder
    /\ generations \in [Generation -> Files]
    /\ active \in 0..MaxGeneration
    /\ active # 0 => generations[active].stamp # NotRead
    /\ builder \in [Builder -> BuilderRun]
    /\ reader \in [Reader -> ReaderRun]
    /\ StampedWhole
    /\ \A b \in Builder : BuilderOK(b)
    /\ \A r \in Reader : ReaderOK(r)

-----------------------------------------------------------------------------
(* The index written in place *)

\* What the files and the requests hold.
Held == {vectors, manifest} \cup {asker[a].records : a \in Asker}
                            \cup {asker[a].vectors : a \in Asker}

\* It was extracted once, and of any two of them one has all that the other has: documents
\* are extracted one after the other and stay so.  So what has the same size is the same.
Chained ==
    /\ \A S \in Held \ {Absent} : S \subseteq Extracted
    /\ \A S, T \in Held \ {Absent} : S \subseteq T \/ T \subseteq S

\* What a request holds at each step.
AskerOK(a) ==
    LET run == asker[a]
    IN  /\ run.phase \in {"load", "manifest loaded"} => vectors # Absent /\ manifest # Absent
        /\ run.phase \in {"manifest loaded", "answered"} \cup Writing =>
               run.records \notin {Absent, Torn}
        /\ run.phase \in {"answered"} \cup Writing => run.vectors = run.records

InPlaceOK ==
    /\ vectors \in Content /\ manifest \in Content
    /\ asker \in [Asker -> AskerRun]
    /\ Chained
    /\ \A a \in Asker : AskerOK(a)

IInv == DocumentsOK /\ GenerationsOK /\ InPlaceOK

-----------------------------------------------------------------------------
(* What the definitions give *)

LEMMA NotReadType == NotRead \in Fingerprints /\ RecordsOf(NotRead) = {}
  BY DEF NotRead, Fingerprints, Status, RecordsOf

LEMMA AbsentIsNot == ASSUME NEW S \in SUBSET Doc PROVE S # Absent
  BY DocumentAssumption DEF Doc, Absent

LEMMA RecordsType ==
    ASSUME NEW f \in Fingerprints
    PROVE  RecordsOf(f) \in SUBSET Doc /\ RecordsOf(f) \in Content
  BY DEF RecordsOf, Content

LEMMA ExtractedRecords == Extracted = RecordsOf(extraction) /\ Fingerprint = extraction
  BY DEF Extracted, RecordsOf, Fingerprint

LEMMA OutcomeType == \A s \in FileState : Outcome[s] \in Status
  BY DEF Outcome, FileState, Status

\* Of two chained sets with as many documents one is the other.
LEMMA SameSizeSame ==
    ASSUME NEW S \in SUBSET Doc, NEW T \in SUBSET Doc, S \subseteq T \/ T \subseteq S, SameSize(S, T)
    PROVE  S = T
<1>1. IsFiniteSet(Doc)
  BY DocumentAssumption, FS_Interval DEF Doc
<1>2. IsFiniteSet(S) /\ IsFiniteSet(T)
  BY <1>1, FS_Subset
<1> QED BY <1>2, FS_Subset DEF SameSize

-----------------------------------------------------------------------------
(* The documents *)

\* What is extracted stays so.
LEMMA DocumentsInv ==
    ASSUME DocumentsOK, Next PROVE DocumentsOK' /\ Extracted \subseteq Extracted'
<1>1. /\ DOMAIN download = Doc /\ DOMAIN extraction = Doc /\ DOMAIN batch = Extractor
      /\ \A d \in Doc : extraction[d] \in {"PENDING", Outcome[file[d]]} /\ Outcome[file[d]] \in Status
  BY OutcomeType DEF DocumentsOK, Fingerprints
<1>2. ASSUME UNCHANGED file,
             extraction' \in [Doc -> Status],
             \A d \in Doc : extraction'[d] = extraction[d] \/ extraction'[d] = Outcome[file[d]]
      PROVE  /\ extraction' \in Fingerprints
             /\ \A d \in Doc : extraction'[d] \in {"PENDING", Outcome[file'[d]]}
             /\ Extracted \subseteq Extracted'
  BY <1>1, <1>2 DEF Fingerprints, Extracted
<1>3. ASSUME NEW d \in Doc, Download(d)
      PROVE  DocumentsOK' /\ Extracted \subseteq Extracted'
  <2>1. /\ UNCHANGED <<file, batch>>
        /\ download' \in [Doc -> {"PENDING", "DOWNLOADED", "FAILED"}]
        /\ extraction' = extraction \/ extraction' = [extraction EXCEPT ![d] = Outcome[file[d]]]
    BY <1>3 DEF Download, DocumentsOK
  <2>2. /\ extraction' \in [Doc -> Status]
        /\ \A e \in Doc : extraction'[e] = extraction[e] \/ extraction'[e] = Outcome[file[e]]
    BY <1>1, <2>1 DEF DocumentsOK, Fingerprints
  <2> QED BY <1>2, <2>1, <2>2 DEF DocumentsOK
<1>4. ASSUME NEW x \in Extractor, NEW retryFailed \in BOOLEAN, SelectBatch(x, retryFailed)
      PROVE  DocumentsOK' /\ Extracted \subseteq Extracted'
  <2>1. UNCHANGED <<file, download, extraction>>
    BY <1>4 DEF SelectBatch
  <2>2. batch' \in [Extractor -> SUBSET Doc]
    BY <1>4 DEF SelectBatch, Oldest, DocumentsOK
  <2> QED BY <2>1, <2>2 DEF DocumentsOK, Extracted
<1>5. ASSUME NEW x \in Extractor, CommitBatch(x)
      PROVE  DocumentsOK' /\ Extracted \subseteq Extracted'
  <2>1. /\ UNCHANGED <<file, download>> /\ batch' \in [Extractor -> SUBSET Doc]
        /\ extraction' = [d \in Doc |-> IF d \in batch[x] THEN Outcome[file[d]] ELSE extraction[d]]
    BY <1>5 DEF CommitBatch, DocumentsOK
  <2>2. /\ extraction' \in [Doc -> Status]
        /\ \A e \in Doc : extraction'[e] = extraction[e] \/ extraction'[e] = Outcome[file[e]]
    BY <1>1, <2>1 DEF DocumentsOK, Fingerprints
  <2> QED BY <1>2, <2>1, <2>2 DEF DocumentsOK
<1>6. ASSUME NEW x \in Extractor, BatchFails(x)
      PROVE  DocumentsOK' /\ Extracted \subseteq Extracted'
  <2>1. UNCHANGED <<file, download, extraction>> /\ batch' \in [Extractor -> SUBSET Doc]
    BY <1>6 DEF BatchFails, DocumentsOK
  <2> QED BY <2>1 DEF DocumentsOK, Extracted
<1>7. CASE UNCHANGED documentVars
  BY <1>7 DEF documentVars, DocumentsOK, Extracted
<1> QED BY <1>3, <1>4, <1>5, <1>6, <1>7 DEF Next, Build, Read, AskStep, BeginBuild, MakeLock, InspectFirst,
     WriteFile, Publish, Release, BuildFails, CrashBuilder, OperatorRemovesLock, TakeSnapshot,
     ReadPointer, Inspect, Ask, LoadManifest, LoadVectors, ReadVersion, OpenVectors, WriteVectors,
     OpenManifest, WriteManifest, CrashAsker, AskerRest

-----------------------------------------------------------------------------
(* The generations *)

NoRun == [phase |-> "idle", fingerprint |-> NotRead, own |-> 0]

LEMMA NoRunType == NoRun \in BuilderRun
  BY NotReadType, DocumentAssumption DEF NoRun, BuilderRun

LEMMA GenerationFacts ==
    ASSUME GenerationsOK, NEW b \in Builder
    PROVE  /\ builder[b] \in BuilderRun /\ DOMAIN builder = Builder /\ BuilderOK(b)
           /\ builder[b].fingerprint \in Fingerprints
           /\ builder[b].own \in 0..MaxGeneration
           /\ Free \notin Builder /\ Left \notin Builder
  BY DocumentAssumption DEF GenerationsOK, BuilderRun

\* Whoever builds holds the lock, so nobody else does.
LEMMA OthersDoNotBuild ==
    ASSUME GenerationsOK, NEW b \in Builder, builder[b].phase \in Building,
           NEW c \in Builder \ {b}
    PROVE  builder[c].phase \notin Building /\ builder[c].own = 0
<1>1. BuilderOK(b) /\ BuilderOK(c)
  BY DEF GenerationsOK
<1> QED BY <1>1 DEF BuilderOK, Building, Begins

\* A step of the builder that has the lock, or takes it or gives it back, does not touch
\* what others rely on.
LEMMA OneBuilderSteps ==
    ASSUME GenerationsOK, NEW b \in Builder, NEW run \in BuilderRun,
           builder' = [builder EXCEPT ![b] = run],
           lock' \in {Free, Left} \cup Builder,
           lock' = lock \/ (lock = Free /\ lock' = b) \/ builder[b].phase \in Building,
           UNCHANGED <<generations, reader>>,
           active' = active \/ (active' \in Generation /\ generations[active'].stamp # NotRead),
           BuilderOK(b)'
    PROVE  GenerationsOK'
<1>1. builder' \in [Builder -> BuilderRun] /\ \A c \in Builder \ {b} : builder'[c] = builder[c]
  BY DEF GenerationsOK
<1>2. ASSUME NEW c \in Builder \ {b} PROVE BuilderOK(c)'
  <2>1. BuilderOK(c) /\ builder'[c] = builder[c]
    BY <1>1 DEF GenerationsOK
  <2>2. builder[c].phase \in Building => lock' = c
    BY <2>1, OthersDoNotBuild, GenerationFacts DEF BuilderOK
  <2> QED BY <2>1, <2>2 DEF BuilderOK
<1>3. StampedWhole' /\ \A r \in Reader : ReaderOK(r)'
  BY DEF GenerationsOK, StampedWhole, ReaderOK
<1>4. active' \in 0..MaxGeneration /\ (active' # 0 => generations'[active'].stamp # NotRead)
  BY DocumentAssumption DEF GenerationsOK, Generation
<1> QED BY <1>1, <1>2, <1>3, <1>4 DEF GenerationsOK

\* A run ends; its lock, if it had it, is free or left.
LEMMA RunEnds ==
    ASSUME GenerationsOK, NEW b \in Builder, EndBuild(b),
           lock' = lock \/ (builder[b].phase \in Building /\ lock' \in {Free, Left}),
           UNCHANGED <<generations, active, reader>>
    PROVE  GenerationsOK'
<1>1. builder' = [builder EXCEPT ![b] = NoRun] /\ builder'[b] = NoRun
  BY GenerationFacts DEF EndBuild, NoRun
<1>2. BuilderOK(b)'
  BY <1>1 DEF BuilderOK, NoRun, Building, Begins
<1>3. lock' \in {Free, Left} \cup Builder
  BY DEF GenerationsOK
<1> QED BY <1>1, <1>2, <1>3, NoRunType, OneBuilderSteps

LEMMA BeginBuildOK ==
    ASSUME DocumentsOK, GenerationsOK, NEW b \in Builder, BeginBuild(b) PROVE GenerationsOK'
<1> DEFINE run == [phase |-> "begun", fingerprint |-> Fingerprint, own |-> 0]
<1>1. builder' = [builder EXCEPT ![b] = run] /\ UNCHANGED <<lock, generations, active, reader>>
  BY DEF BeginBuild
<1>2. run \in BuilderRun /\ RecordsOf(run.fingerprint) # {}
  BY ExtractedRecords, DocumentAssumption DEF BeginBuild, BuilderRun, DocumentsOK
<1>3. builder'[b] = run /\ run.phase = "begun" /\ run.own = 0
  BY <1>1, GenerationFacts
<1> HIDE DEF run
<1>4. BuilderOK(b)'
  BY <1>2, <1>3 DEF BuilderOK, Building, Begins
<1>5. lock' \in {Free, Left} \cup Builder
  BY <1>1 DEF GenerationsOK
<1> QED BY <1>1, <1>2, <1>4, <1>5, OneBuilderSteps

LEMMA MakeLockOK ==
    ASSUME GenerationsOK, NEW b \in Builder, MakeLock(b) PROVE GenerationsOK'
<1>1. UNCHANGED <<generations, active, reader>>
  BY DEF MakeLock
<1>2. CASE lock = Free
  <2> DEFINE run == [builder[b] EXCEPT !.phase = "locked"]
  <2>1. builder' = [builder EXCEPT ![b] = run] /\ lock' = b
    BY <1>2, GenerationFacts DEF MakeLock
  <2>2. /\ run \in BuilderRun /\ run.phase = "locked" /\ run.own = builder[b].own
        /\ run.fingerprint = builder[b].fingerprint
    BY GenerationFacts DEF BuilderRun
  <2> HIDE DEF run
  <2>3. builder'[b] = run
    BY <2>1, GenerationFacts
  <2>4. BuilderOK(b)'
    BY <2>1, <2>2, <2>3, GenerationFacts DEF BuilderOK, MakeLock, Begins
  <2> QED BY <1>1, <1>2, <2>1, <2>2, <2>4, OneBuilderSteps
<1>3. CASE lock # Free
  BY <1>1, <1>3, RunEnds DEF MakeLock, LockAfterRefusal
<1> QED BY <1>2, <1>3

LEMMA InspectFirstOK ==
    ASSUME GenerationsOK, NEW b \in Builder, InspectFirst(b) PROVE GenerationsOK'
<1>1. UNCHANGED <<generations, active, reader>> /\ builder[b].phase \in Building
  BY DEF InspectFirst, Building
<1>2. CASE lock' = Free /\ EndBuild(b)
  BY <1>1, <1>2, RunEnds
<1>3. ASSUME NEW g \in Generation \ (Begun \cup Owned),
             builder' = [builder EXCEPT ![b].phase = "embedded", ![b].own = g], UNCHANGED lock
      PROVE  GenerationsOK'
  <2> DEFINE run == [builder[b] EXCEPT !.phase = "embedded", !.own = g]
  <2>1. builder' = [builder EXCEPT ![b] = run]
    BY <1>3, GenerationFacts
  <2>2. /\ run \in BuilderRun /\ run.phase = "embedded" /\ run.own = g
        /\ run.fingerprint = builder[b].fingerprint
    <3>1. g \in 0..MaxGeneration
      BY <1>3, DocumentAssumption DEF Generation
    <3> QED BY <3>1, GenerationFacts DEF BuilderRun, Begins
  <2> HIDE DEF run
  <2>3. builder'[b] = run
    BY <2>1, GenerationFacts
  <2>4. generations[g].stamp = NotRead
    BY <1>3 DEF Begun, Empty, Generation
  <2>5. BuilderOK(b)'
    BY <1>1, <1>3, <2>2, <2>3, <2>4, GenerationFacts DEF BuilderOK, InspectFirst, Begins, Building,
       Generation
  <2>6. lock' \in {Free, Left} \cup Builder
    BY <1>3 DEF GenerationsOK
  <2> QED BY <1>1, <1>3, <2>1, <2>2, <2>5, <2>6, OneBuilderSteps
<1> QED BY <1>2, <1>3 DEF InspectFirst, Generation

\* One file more of a generation that has no stamp yet: nobody relies on it.
LEMMA WriteFileOK ==
    ASSUME GenerationsOK, NEW b \in Builder, WriteFile(b) PROVE GenerationsOK'
<1> DEFINE g == builder[b].own
           f == builder[b].fingerprint
           r == RecordsOf(f)
           phase == builder[b].phase
           old == generations[g]
           new == CASE phase = "embedded" -> [old EXCEPT !.vectors = r]
                    [] phase = "vectors" -> [old EXCEPT !.manifest = r]
                    [] phase = "manifest" -> [old EXCEPT !.stamp = f]
           run == [builder[b] EXCEPT !.phase = After[phase]]
<1>1. phase \in Begins /\ phase \in Building
  BY DEF WriteFile, After, Begins, Building
<1>2. /\ BuilderOK(b) /\ g \in Generation /\ old \in Files /\ old.stamp = NotRead
      /\ f \in Fingerprints /\ r \in Content /\ DOMAIN generations = Generation
  BY <1>1, GenerationFacts, RecordsType, DocumentAssumption
     DEF BuilderOK, GenerationsOK, Generation, Begins
<1>3. generations' = [generations EXCEPT ![g] = new]
  BY <1>2 DEF WriteFile
<1>4. builder' = [builder EXCEPT ![b] = run]
  BY GenerationFacts DEF WriteFile
<1>5. /\ run \in BuilderRun /\ run.own = g /\ run.fingerprint = f
      /\ run.phase = After[phase] /\ After[phase] \in {"vectors", "manifest", "stamped"}
  <2>1. After[phase] \in {"vectors", "manifest", "stamped"}
    BY <1>1 DEF After, Begins
  <2> QED BY <2>1, GenerationFacts DEF BuilderRun, Begins
<1>6. /\ new \in Files
      /\ phase = "embedded" => new.vectors = r /\ new.stamp = NotRead
      /\ phase = "vectors" => new.vectors = old.vectors /\ new.manifest = r /\ new.stamp = NotRead
      /\ phase = "manifest" =>
             new.vectors = old.vectors /\ new.manifest = old.manifest /\ new.stamp = f
  <2>1. CASE phase = "embedded"
    BY <1>2, <2>1 DEF Files
  <2>2. CASE phase = "vectors"
    BY <1>2, <2>2 DEF Files
  <2>3. CASE phase = "manifest"
    BY <1>2, <2>3 DEF Files
  <2> QED BY <1>1, <2>1, <2>2, <2>3 DEF Begins
<1>7. UNCHANGED <<lock, active, reader>>
  BY DEF WriteFile
<1> HIDE DEF new, run
<1>8. builder'[b] = run /\ \A c \in Builder \ {b} : builder'[c] = builder[c]
  BY <1>4, GenerationFacts
<1>9. generations'[g] = new /\ \A h \in Generation \ {g} : generations'[h] = generations[h]
  BY <1>2, <1>3
<1>10. /\ phase \in {"vectors", "manifest"} => old.vectors = r
       /\ phase = "manifest" => old.manifest = r
       /\ r # {} /\ g # 0 /\ lock = b
  BY <1>1, <1>2 DEF BuilderOK, Begins, Building
<1>11. BuilderOK(b)'
  <2>1. /\ builder'[b].own = g /\ builder'[b].fingerprint = f
        /\ builder'[b].phase = After[phase] /\ lock' = b
    BY <1>5, <1>7, <1>8, <1>10
  <2>2. CASE phase = "embedded"
    <3>1. After[phase] = "vectors"
      BY <2>2 DEF After
    <3> QED BY <1>6, <1>9, <1>10, <2>1, <2>2, <3>1 DEF BuilderOK, Begins
  <2>3. CASE phase = "vectors"
    <3>1. After[phase] = "manifest"
      BY <2>3 DEF After
    <3> QED BY <1>6, <1>9, <1>10, <2>1, <2>3, <3>1 DEF BuilderOK, Begins
  <2>4. CASE phase = "manifest"
    <3>1. After[phase] = "stamped"
      BY <2>4 DEF After
    <3> QED BY <1>6, <1>9, <1>10, <2>1, <2>4, <3>1 DEF BuilderOK, Begins
  <2> QED BY <1>1, <2>2, <2>3, <2>4 DEF Begins
<1>12. ASSUME NEW c \in Builder \ {b} PROVE BuilderOK(c)'
  <2>1. BuilderOK(c) /\ builder'[c] = builder[c] /\ builder[c].phase \notin Building
    BY <1>1, <1>8, OthersDoNotBuild DEF GenerationsOK
  <2> QED BY <1>7, <2>1 DEF BuilderOK, Building, Begins
<1>13. StampedWhole'
  <2>1. new.stamp # NotRead => new.vectors = r /\ new.manifest = r /\ new.stamp = f
    BY <1>1, <1>6, <1>10 DEF Begins
  <2> QED BY <1>9, <2>1 DEF GenerationsOK, StampedWhole
<1>14. ASSUME NEW q \in Reader PROVE ReaderOK(q)'
  BY <1>2, <1>7, <1>9 DEF GenerationsOK, ReaderOK
<1>15. active' # 0 => generations'[active'].stamp # NotRead
  BY <1>2, <1>7, <1>9 DEF GenerationsOK, Generation
<1>16. generations' \in [Generation -> Files] /\ builder' \in [Builder -> BuilderRun]
  BY <1>3, <1>4, <1>5, <1>6 DEF GenerationsOK
<1> QED BY <1>7, <1>11, <1>12, <1>13, <1>14, <1>15, <1>16 DEF GenerationsOK

\* active.json comes to name a generation that has its stamp.
LEMMA PublishOK ==
    ASSUME GenerationsOK, NEW b \in Builder, Publish(b) PROVE GenerationsOK'
<1>1. /\ builder[b].phase = "stamped" /\ active' = builder[b].own
      /\ UNCHANGED <<lock, generations, builder, reader>>
  BY DEF Publish, Publishable
<1>2. active' \in Generation /\ generations[active'].stamp = builder[b].fingerprint
  BY <1>1, GenerationFacts, DocumentAssumption DEF BuilderOK, Generation
<1>3. RecordsOf(builder[b].fingerprint) # {}
  BY <1>1, GenerationFacts DEF BuilderOK
<1>4. generations[active'].stamp # NotRead
  BY <1>2, <1>3, NotReadType
<1>5. active' \in 0..MaxGeneration
  BY <1>2, DocumentAssumption DEF Generation
<1> QED BY <1>1, <1>4, <1>5 DEF GenerationsOK, BuilderOK, ReaderOK, StampedWhole

\* What ends a run, and what an operator does about a lock that was left.
LEMMA EndingsOK ==
    ASSUME GenerationsOK, NEW b \in Builder, Release(b) \/ BuildFails(b) \/ CrashBuilder(b)
    PROVE  GenerationsOK'
<1>1. EndBuild(b) /\ UNCHANGED <<generations, active, reader>>
  BY DEF Release, BuildFails, CrashBuilder
<1>2. lock' = lock \/ (builder[b].phase \in Building /\ lock' \in {Free, Left})
  BY DEF Release, BuildFails, CrashBuilder, Building
<1> QED BY <1>1, <1>2, RunEnds

LEMMA OperatorOK ==
    ASSUME GenerationsOK, OperatorRemovesLock PROVE GenerationsOK'
<1>1. lock = Left /\ lock' = Free /\ UNCHANGED <<generations, active, builder, reader>>
  BY DEF OperatorRemovesLock
<1>2. ASSUME NEW b \in Builder PROVE BuilderOK(b)'
  BY <1>1, GenerationFacts DEF BuilderOK
<1>3. StampedWhole' /\ \A r \in Reader : ReaderOK(r)'
  BY <1>1 DEF GenerationsOK, StampedWhole, ReaderOK
<1> QED BY <1>1, <1>2, <1>3 DEF GenerationsOK

\* READY is said only of a generation that bears the fingerprint.
LEMMA VerdictReady ==
    ASSUME NEW f, NEW g \in 0..MaxGeneration
    PROVE  /\ Verdict(f, g) \in {"MISSING", "CORRUPT", "STALE", "READY"}
           /\ Verdict(f, g) = "READY" =>
                  g \in Generation /\ generations[g].stamp = f /\ f # NotRead
  BY DocumentAssumption DEF Verdict, Generation

LEMMA ReadersOK ==
    ASSUME DocumentsOK, GenerationsOK, NEW r \in Reader, Read(r) PROVE GenerationsOK'
<1>1. UNCHANGED <<lock, generations, active, builder>>
  BY DEF Read, TakeSnapshot, ReadPointer, Inspect
<1>2. reader[r] \in ReaderRun /\ DOMAIN reader = Reader
      /\ active \in 0..MaxGeneration /\ reader[r].found \in 0..MaxGeneration
  BY DEF GenerationsOK, ReaderRun
<1>3. ASSUME NEW run \in ReaderRun, reader' = [reader EXCEPT ![r] = run],
             run.verdict = "READY" =>
                 /\ run.phase = "inspected"
                 /\ run.found \in Generation /\ generations[run.found].stamp = run.fingerprint
                 /\ run.fingerprint # NotRead
      PROVE  GenerationsOK'
  <2>1. reader' \in [Reader -> ReaderRun] /\ \A q \in Reader : ReaderOK(q)'
    BY <1>1, <1>2, <1>3 DEF GenerationsOK, ReaderOK
  <2>2. StampedWhole' /\ \A b \in Builder : BuilderOK(b)'
    BY <1>1 DEF GenerationsOK, StampedWhole, BuilderOK
  <2> QED BY <1>1, <2>1, <2>2 DEF GenerationsOK
<1>4. CASE TakeSnapshot(r)
  <2> DEFINE run == [phase |-> "snapshot", fingerprint |-> Fingerprint, found |-> 0, verdict |-> "NONE"]
  <2>1. run \in ReaderRun /\ run.verdict # "READY"
    BY ExtractedRecords, DocumentAssumption DEF ReaderRun, DocumentsOK
  <2>2. reader' = [reader EXCEPT ![r] = run]
    BY <1>4 DEF TakeSnapshot
  <2> HIDE DEF run
  <2> QED BY <1>3, <2>1, <2>2
<1>5. CASE ReadPointer(r)
  <2> DEFINE run == [reader[r] EXCEPT !.phase = "pointer", !.found = active]
  <2>1. reader' = [reader EXCEPT ![r] = run]
    BY <1>2, <1>5 DEF ReadPointer
  <2>2. run \in ReaderRun /\ run.verdict = reader[r].verdict
    BY <1>2 DEF ReaderRun
  <2>3. reader[r].verdict # "READY"
    BY <1>5 DEF GenerationsOK, ReaderOK, ReadPointer
  <2> HIDE DEF run
  <2> QED BY <1>3, <2>1, <2>2, <2>3
<1>6. CASE Inspect(r)
  <2> DEFINE verdict == Verdict(reader[r].fingerprint, reader[r].found)
             run == [reader[r] EXCEPT !.phase = "inspected", !.verdict = verdict]
  <2>1. reader' = [reader EXCEPT ![r] = run]
    BY <1>2, <1>6 DEF Inspect
  <2>2. /\ verdict \in {"MISSING", "CORRUPT", "STALE", "READY"}
        /\ verdict = "READY" => /\ reader[r].found \in Generation
                                /\ generations[reader[r].found].stamp = reader[r].fingerprint
                                /\ reader[r].fingerprint # NotRead
    BY <1>2, VerdictReady
  <2> HIDE DEF verdict
  <2>3. /\ run \in ReaderRun /\ run.verdict = verdict /\ run.found = reader[r].found
        /\ run.phase = "inspected"
        /\ run.fingerprint = reader[r].fingerprint
    BY <1>2, <2>2 DEF ReaderRun
  <2> HIDE DEF run
  <2> QED BY <1>3, <2>1, <2>2, <2>3
<1> QED BY <1>4, <1>5, <1>6 DEF Read

LEMMA GenerationsInv ==
    ASSUME DocumentsOK, GenerationsOK, Next PROVE GenerationsOK'
<1>1. CASE UNCHANGED generationVars
  BY <1>1 DEF generationVars, GenerationsOK, StampedWhole, BuilderOK, ReaderOK
<1>2. ASSUME NEW b \in Builder, Build(b) PROVE GenerationsOK'
  BY <1>2, BeginBuildOK, MakeLockOK, InspectFirstOK, WriteFileOK, PublishOK, EndingsOK DEF Build
<1> QED BY <1>1, <1>2, ReadersOK, OperatorOK DEF Next, Download, SelectBatch, CommitBatch, BatchFails, AskStep, Ask,
     LoadManifest, LoadVectors, ReadVersion, OpenVectors, WriteVectors, OpenManifest, WriteManifest,
     CrashAsker, AskerRest

-----------------------------------------------------------------------------
(* The index written in place *)

\* A step after which the files and the requests hold what they held, or what is extracted
\* now, or nothing that is whole.
LEMMA ChainedStill ==
    ASSUME Chained, Extracted \subseteq Extracted', Held' \subseteq Held \cup {Extracted, Torn, Absent}
    PROVE  Chained'
<1>1. ASSUME NEW S \in Held' \ {Absent} PROVE S \subseteq Extracted'
  BY <1>1 DEF Chained, Torn
<1>2. ASSUME NEW S \in Held' \ {Absent}, NEW T \in Held' \ {Absent} PROVE S \subseteq T \/ T \subseteq S
  <2>1. CASE S \in Held /\ T \in Held
    BY <2>1 DEF Chained
  <2>2. CASE (S = Extracted /\ T \in Held) \/ (T = Extracted /\ S \in Held)
    BY <2>2 DEF Chained
  <2>3. CASE S = Torn \/ T = Torn \/ S = T
    BY <2>3 DEF Torn
  <2> QED BY <2>1, <2>2, <2>3
<1> QED BY <1>1, <1>2 DEF Chained

\* A request goes on.
LEMMA OneAsker ==
    ASSUME InPlaceOK, NEW a \in Asker, NEW run \in AskerRun, asker' = [asker EXCEPT ![a] = run]
    PROVE  /\ asker' \in [Asker -> AskerRun]
           /\ asker'[a] = run /\ \A o \in Asker \ {a} : asker'[o] = asker[o]
           /\ Held' \subseteq Held \cup {vectors', manifest', run.records, run.vectors}
<1>1. asker' \in [Asker -> AskerRun] /\ asker'[a] = run
      /\ \A o \in Asker \ {a} : asker'[o] = asker[o]
  BY DEF InPlaceOK
<1>2. Held' \subseteq Held \cup {vectors', manifest', run.records, run.vectors}
  BY <1>1 DEF Held
<1> QED BY <1>1, <1>2

\* So the rest stays true, if the files are whole sets or torn, and there once they are there.
LEMMA AskerStep ==
    ASSUME InPlaceOK, Extracted \subseteq Extracted',
           NEW a \in Asker, NEW run \in AskerRun, asker' = [asker EXCEPT ![a] = run],
           vectors' \in Content, manifest' \in Content,
           {vectors', manifest', run.records, run.vectors} \subseteq Held \cup {Extracted, Torn, Absent},
           vectors # Absent => vectors' # Absent, manifest # Absent => manifest' # Absent,
           AskerOK(a)'
    PROVE  InPlaceOK'
<1>1. /\ asker' \in [Asker -> AskerRun]
      /\ asker'[a] = run /\ \A o \in Asker \ {a} : asker'[o] = asker[o]
      /\ Held' \subseteq Held \cup {vectors', manifest', run.records, run.vectors}
  BY OneAsker
<1>2. Chained'
  BY <1>1, ChainedStill DEF InPlaceOK
<1>3. \A o \in Asker \ {a} : AskerOK(o)'
  BY <1>1 DEF InPlaceOK, AskerOK
<1> QED BY <1>1, <1>2, <1>3 DEF InPlaceOK

LEMMA AskerFacts ==
    ASSUME InPlaceOK, NEW a \in Asker
    PROVE  /\ asker[a] \in AskerRun /\ AskerOK(a) /\ DOMAIN asker = Asker
           /\ asker[a].records \in Held /\ asker[a].vectors \in Held
           /\ asker[a].records \in Content /\ asker[a].vectors \in Content
           /\ vectors \in Held /\ manifest \in Held /\ vectors \in Content /\ manifest \in Content
           /\ Torn \in Content /\ Absent \in Content /\ Torn # Absent
<1>1. /\ asker[a] \in AskerRun /\ AskerOK(a) /\ DOMAIN asker = Asker
      /\ vectors \in Content /\ manifest \in Content
  BY DEF InPlaceOK
<1>2. asker[a].records \in Content /\ asker[a].vectors \in Content
  BY <1>1 DEF AskerRun
<1>3. /\ asker[a].records \in Held /\ asker[a].vectors \in Held
      /\ vectors \in Held /\ manifest \in Held
  BY DEF Held
<1>4. Torn \in Content /\ Absent \in Content
  BY DEF Content, Torn
<1>5. Torn # Absent
  <2>1. Torn \in SUBSET Doc
    BY DEF Torn
  <2> QED BY <2>1, AbsentIsNot
<1> QED BY <1>1, <1>2, <1>3, <1>4, <1>5

NoAnswer == [phase |-> "idle", records |-> Absent, vectors |-> Absent]

LEMMA AskOK ==
    ASSUME InPlaceOK, NEW a \in Asker, Ask(a), Extracted \subseteq Extracted' PROVE InPlaceOK'
<1> DEFINE phase == IF vectors = Absent \/ manifest = Absent THEN "build" ELSE "load"
           run == [phase |-> phase, records |-> Absent, vectors |-> Absent]
<1>1. asker' = [asker EXCEPT ![a] = run] /\ UNCHANGED <<vectors, manifest>>
  BY DEF Ask
<1>2. /\ phase \in {"build", "load"}
      /\ phase = "load" => vectors # Absent /\ manifest # Absent
  OBVIOUS
<1> HIDE DEF phase
<1>3. run \in AskerRun /\ run.phase = phase /\ run.records = Absent /\ run.vectors = Absent
  BY <1>2, AskerFacts DEF AskerRun
<1> HIDE DEF run
<1>4. AskerOK(a)'
  <2>1. asker'[a] = run
    BY <1>1, AskerFacts
  <2> QED BY <1>1, <1>2, <1>3, <2>1 DEF AskerOK, Writing
<1> QED BY <1>1, <1>3, <1>4, AskerStep, AskerFacts

LEMMA LoadManifestOK ==
    ASSUME InPlaceOK, NEW a \in Asker, LoadManifest(a), Extracted \subseteq Extracted' PROVE InPlaceOK'
<1> DEFINE phase == IF manifest = Torn THEN "build" ELSE "manifest loaded"
           run == [asker[a] EXCEPT !.phase = phase, !.records = manifest]
<1>1. asker' = [asker EXCEPT ![a] = run] /\ UNCHANGED <<vectors, manifest>>
  BY AskerFacts DEF LoadManifest
<1>2. phase \in {"build", "manifest loaded"} /\ (phase = "manifest loaded" => manifest # Torn)
  OBVIOUS
<1> HIDE DEF phase
<1>3. /\ run \in AskerRun /\ run.phase = phase /\ run.records = manifest
      /\ run.vectors = asker[a].vectors
  BY <1>2, AskerFacts DEF AskerRun
<1> HIDE DEF run
<1>4. AskerOK(a)'
  <2>1. asker'[a] = run /\ vectors # Absent /\ manifest # Absent
    BY <1>1, AskerFacts DEF AskerOK, LoadManifest
  <2> QED BY <1>1, <1>2, <1>3, <2>1 DEF AskerOK, Writing
<1> QED BY <1>1, <1>3, <1>4, AskerStep, AskerFacts

LEMMA LoadVectorsOK ==
    ASSUME InPlaceOK, NEW a \in Asker, LoadVectors(a), DocumentsOK, Extracted \subseteq Extracted'
    PROVE  InPlaceOK'
<1> DEFINE answer == [asker[a] EXCEPT !.phase = "answered", !.vectors = vectors]
           again == [asker[a] EXCEPT !.phase = "build", !.records = Absent]
           records == asker[a].records
<1>1. /\ vectors # Absent /\ manifest # Absent /\ records \notin {Absent, Torn}
      /\ UNCHANGED <<vectors, manifest>>
  BY AskerFacts DEF AskerOK, LoadVectors
<1>2. CASE vectors = Torn
  <2>1. asker' = [asker EXCEPT ![a] = NoAnswer]
    BY <1>2 DEF LoadVectors, NoAnswer
  <2>2. NoAnswer \in AskerRun /\ NoAnswer.phase = "idle"
        /\ NoAnswer.records = Absent /\ NoAnswer.vectors = Absent
    BY AskerFacts DEF AskerRun, NoAnswer
  <2>3. AskerOK(a)'
    <3>1. asker'[a] = NoAnswer
      BY <2>1, AskerFacts
    <3> QED BY <2>2, <3>1 DEF AskerOK, Writing
  <2> QED BY <1>1, <2>1, <2>2, <2>3, AskerStep, AskerFacts
<1>3. CASE vectors # Torn /\ SameSize(records, vectors)
  <2>1. asker' = [asker EXCEPT ![a] = answer]
    BY <1>3, AskerFacts DEF LoadVectors
  <2>2. /\ answer \in AskerRun /\ answer.phase = "answered"
        /\ answer.records = records /\ answer.vectors = vectors
    BY AskerFacts DEF AskerRun
  <2> HIDE DEF answer
  <2>3. records = vectors
    <3>1. /\ records \in Held \ {Absent} /\ vectors \in Held \ {Absent}
          /\ records \in SUBSET Doc /\ vectors \in SUBSET Doc
      BY <1>1, AskerFacts DEF Content
    <3>2. records \subseteq vectors \/ vectors \subseteq records
      BY <3>1 DEF InPlaceOK, Chained
    <3> HIDE DEF records
    <3> QED BY <1>3, <3>1, <3>2, SameSizeSame
  <2>4. AskerOK(a)'
    <3>1. asker'[a] = answer
      BY <2>1, AskerFacts
    <3> QED BY <1>1, <2>2, <2>3, <3>1 DEF AskerOK, Writing
  <2> QED BY <1>1, <2>1, <2>2, <2>4, AskerStep, AskerFacts
<1>4. CASE vectors # Torn /\ ~SameSize(records, vectors)
  <2>1. asker' = [asker EXCEPT ![a] = again]
    BY <1>4, AskerFacts DEF LoadVectors
  <2>2. /\ again \in AskerRun /\ again.phase = "build"
        /\ again.records = Absent /\ again.vectors = asker[a].vectors
    BY AskerFacts DEF AskerRun
  <2> HIDE DEF again
  <2>3. AskerOK(a)'
    <3>1. asker'[a] = again
      BY <2>1, AskerFacts
    <3> QED BY <2>2, <3>1 DEF AskerOK, Writing
  <2> QED BY <1>1, <2>1, <2>2, <2>3, AskerStep, AskerFacts
<1> QED BY <1>2, <1>3, <1>4

LEMMA ReadVersionOK ==
    ASSUME InPlaceOK, NEW a \in Asker, ReadVersion(a), DocumentsOK, Extracted \subseteq Extracted'
    PROVE  InPlaceOK'
<1>1. UNCHANGED <<vectors, manifest>>
  BY DEF ReadVersion
<1>2. CASE Extracted = {}
  <2>1. asker' = [asker EXCEPT ![a] = NoAnswer]
    BY <1>2 DEF ReadVersion, NoAnswer
  <2>2. NoAnswer \in AskerRun /\ NoAnswer.phase = "idle"
        /\ NoAnswer.records = Absent /\ NoAnswer.vectors = Absent
    BY AskerFacts DEF AskerRun, NoAnswer
  <2>3. AskerOK(a)'
    <3>1. asker'[a] = NoAnswer
      BY <2>1, AskerFacts
    <3> QED BY <2>2, <3>1 DEF AskerOK, Writing
  <2> QED BY <1>1, <2>1, <2>2, <2>3, AskerStep, AskerFacts
<1>3. CASE Extracted # {}
  <2> DEFINE run == [phase |-> "read", records |-> Extracted, vectors |-> Extracted]
  <2>1. asker' = [asker EXCEPT ![a] = run]
    BY <1>3 DEF ReadVersion
  <2>2. Extracted \in SUBSET Doc /\ Extracted \in Content /\ Extracted \notin {Absent, Torn}
    BY <1>3, AbsentIsNot DEF Extracted, Content, Torn
  <2>3. /\ run \in AskerRun /\ run.phase = "read"
        /\ run.records = Extracted /\ run.vectors = Extracted
    BY <2>2 DEF AskerRun, Writing
  <2> HIDE DEF run
  <2>4. AskerOK(a)'
    <3>1. asker'[a] = run
      BY <2>1, AskerFacts
    <3> QED BY <2>2, <2>3, <3>1 DEF AskerOK, Writing
  <2> QED BY <1>1, <2>1, <2>3, <2>4, AskerStep, AskerFacts
<1> QED BY <1>2, <1>3

\* The files are written one after the other.
LEMMA WritesOK ==
    ASSUME InPlaceOK, NEW a \in Asker, Extracted \subseteq Extracted',
           OpenVectors(a) \/ WriteVectors(a) \/ OpenManifest(a) \/ WriteManifest(a)
    PROVE  InPlaceOK'
<1>1. PICK phase \in {"vectors open", "vectors", "manifest open", "answered"} : Goes(a, phase)
  BY DEF OpenVectors, WriteVectors, OpenManifest, WriteManifest
<1> DEFINE run == [asker[a] EXCEPT !.phase = phase]
<1>2. asker' = [asker EXCEPT ![a] = run]
  BY <1>1, AskerFacts DEF Goes
<1>3. /\ run \in AskerRun /\ run.phase = phase
      /\ run.records = asker[a].records /\ run.vectors = asker[a].vectors
  BY AskerFacts DEF AskerRun, Writing
<1> HIDE DEF run
<1>4. asker[a].phase \in Writing
  BY DEF OpenVectors, WriteVectors, OpenManifest, WriteManifest, Writing
<1>5. /\ asker[a].records \notin {Absent, Torn} /\ asker[a].vectors = asker[a].records
  BY <1>4, AskerFacts DEF AskerOK
<1>6. /\ vectors' \in {vectors, Torn, asker[a].vectors}
      /\ manifest' \in {manifest, Torn, asker[a].records}
  BY DEF OpenVectors, WriteVectors, OpenManifest, WriteManifest
<1>7. AskerOK(a)'
  <2>1. asker'[a] = run
    BY <1>2, AskerFacts
  <2> QED BY <1>1, <1>3, <1>5, <2>1 DEF AskerOK, Writing
<1>8. /\ vectors' \in Content /\ manifest' \in Content
      /\ vectors # Absent => vectors' # Absent
      /\ manifest # Absent => manifest' # Absent
      /\ {vectors', manifest', run.records, run.vectors} \subseteq Held \cup {Extracted, Torn, Absent}
  BY <1>3, <1>5, <1>6, AskerFacts
<1> QED BY <1>2, <1>3, <1>7, <1>8, AskerStep

LEMMA CrashAskerOK ==
    ASSUME InPlaceOK, NEW a \in Asker, CrashAsker(a), Extracted \subseteq Extracted' PROVE InPlaceOK'
<1>1. asker' = [asker EXCEPT ![a] = NoAnswer] /\ UNCHANGED <<vectors, manifest>>
  BY DEF CrashAsker, NoAnswer
<1>2. NoAnswer \in AskerRun /\ NoAnswer.phase = "idle"
      /\ NoAnswer.records = Absent /\ NoAnswer.vectors = Absent
  BY AskerFacts DEF AskerRun, NoAnswer
<1>3. AskerOK(a)'
  <2>1. asker'[a] = NoAnswer
    BY <1>1, AskerFacts
  <2> QED BY <1>2, <2>1 DEF AskerOK, Writing
<1> QED BY <1>1, <1>2, <1>3, AskerStep, AskerFacts

LEMMA InPlaceInv ==
    ASSUME DocumentsOK, InPlaceOK, Next, Extracted \subseteq Extracted' PROVE InPlaceOK'
<1>1. CASE UNCHANGED <<vectors, manifest, asker>>
  <2>1. UNCHANGED Held
    BY <1>1 DEF Held
  <2>2. Chained'
    BY <2>1, ChainedStill DEF InPlaceOK
  <2> QED BY <1>1, <2>2 DEF InPlaceOK, AskerOK
<1>2. ASSUME NEW a \in Asker, AskStep(a) PROVE InPlaceOK'
  BY <1>2, AskOK, LoadManifestOK, LoadVectorsOK, ReadVersionOK, WritesOK, CrashAskerOK DEF AskStep
<1> QED BY <1>1, <1>2 DEF Next, Download, SelectBatch, CommitBatch, BatchFails, Build, Read, legacyVars, BeginBuild,
     MakeLock, InspectFirst, WriteFile, Publish, Release, BuildFails, CrashBuilder, OperatorRemovesLock,
     TakeSnapshot, ReadPointer, Inspect

-----------------------------------------------------------------------------
(* Theorems *)

LEMMA InitInv == Init => IInv
<1> SUFFICES ASSUME Init PROVE IInv
  OBVIOUS
<1>1. DocumentsOK
  BY DEF Init, DocumentsOK, Fingerprints, Status
<1>2. GenerationsOK
  <2>1. [Empty EXCEPT !.stamp = NotRead] \in Files /\ [Empty EXCEPT !.stamp = NotRead].stamp = NotRead
    BY NotReadType DEF Empty, Files, Content
  <2>2. generations \in [Generation -> Files] /\ \A g \in Generation : generations[g].stamp = NotRead
    BY <2>1 DEF Init, Generation
  <2>3. NoRun \in BuilderRun /\ NoRun.phase = "idle" /\ NoRun.own = 0
    BY NoRunType DEF NoRun
  <2>4. builder = [b \in Builder |-> NoRun]
    BY DEF Init, NoRun
  <2>5. \A b \in Builder : BuilderOK(b)
    BY <2>3, <2>4 DEF BuilderOK, Building, Begins
  <2>6. reader \in [Reader -> ReaderRun] /\ \A r \in Reader : ReaderOK(r)
    BY NotReadType, DocumentAssumption DEF Init, ReaderRun, ReaderOK
  <2>7. active = 0 /\ active \in 0..MaxGeneration /\ lock = Free
    BY DocumentAssumption DEF Init
  <2> QED BY <2>2, <2>3, <2>4, <2>5, <2>6, <2>7 DEF GenerationsOK, StampedWhole
<1>3. InPlaceOK
  <2>1. Absent \in Content
    BY DEF Content
  <2>2. NoAnswer \in AskerRun /\ NoAnswer.phase = "idle"
        /\ NoAnswer.records = Absent /\ NoAnswer.vectors = Absent
    BY <2>1 DEF AskerRun, NoAnswer
  <2>3. vectors = Absent /\ manifest = Absent /\ asker = [a \in Asker |-> NoAnswer]
    BY DEF Init, NoAnswer
  <2>4. Chained
    BY <2>2, <2>3 DEF Chained, Held
  <2>5. \A a \in Asker : AskerOK(a)
    BY <2>2, <2>3 DEF AskerOK, Writing
  <2> QED BY <2>1, <2>2, <2>3, <2>4, <2>5 DEF InPlaceOK
<1> QED BY <1>1, <1>2, <1>3 DEF IInv

LEMMA NextInv == IInv /\ [Next]_vars => IInv'
<1> SUFFICES ASSUME IInv, [Next]_vars PROVE IInv'
  OBVIOUS
<1>1. CASE Next
  BY <1>1, DocumentsInv, GenerationsInv, InPlaceInv DEF IInv
<1>2. CASE UNCHANGED vars
  <2>1. UNCHANGED <<documentVars, generationVars, legacyVars>>
    BY <1>2 DEF vars
  <2>2. DocumentsOK'
    BY <2>1 DEF IInv, documentVars, DocumentsOK
  <2>3. GenerationsOK'
    BY <2>1 DEF IInv, generationVars, GenerationsOK, StampedWhole, BuilderOK, ReaderOK
  <2>4. InPlaceOK'
    <3>1. UNCHANGED <<vectors, manifest, asker, Held, Extracted>>
      BY <2>1 DEF documentVars, legacyVars, Held, Extracted
    <3>2. Chained'
      BY <3>1 DEF IInv, InPlaceOK, Chained
    <3> QED BY <3>1, <3>2 DEF IInv, InPlaceOK, AskerOK
  <2> QED BY <2>2, <2>3, <2>4 DEF IInv
<1> QED BY <1>1, <1>2

\* The inductive invariant holds in every reachable state.
THEOREM Invariance == Spec => []IInv
  BY InitInv, NextInv, PTL DEF Spec

\* Two builds never write at once, although processes die between any two steps.
THEOREM OneBuilderWrites == Spec => []OneBuilder
<1>1. IInv => OneBuilder
  BY DEF IInv, GenerationsOK, BuilderOK, OneBuilder
<1> QED BY <1>1, Invariance, PTL

\* What a turn reads under READY is exactly what was extracted when it took its snapshot.
THEOREM ReadyIsAlwaysCurrent == Spec => []ReadyIsCurrent
<1>1. IInv => ReadyIsCurrent
  BY DEF IInv, GenerationsOK, ReaderOK, StampedWhole, ReadyIsCurrent
<1> QED BY <1>1, Invariance, PTL

\* The active generation is whole, and what a request takes from the index written in place
\* belongs together, though both its files are written without a lock.
THEOREM IndexIsWhole == Spec => []IndexWhole
<1>1. IInv => PointerWhole
  BY DocumentAssumption DEF IInv, GenerationsOK, StampedWhole, PointerWhole, Generation
<1>2. IInv => VectorsMatchRecords
  BY DEF IInv, InPlaceOK, AskerOK, VectorsMatchRecords
<1> QED BY <1>1, <1>2, Invariance, PTL DEF IndexWhole
=============================================================================
