---- MODULE DocumentIndex ----
\* The documents of one notice version on their way to an answer: they are downloaded and extracted,
\* Copilot 3.1 publishes generations of a vector index for them (document_rag/readiness.py), and the
\* question endpoints keep an older index in the same directory, which they write in place
\* (document_rag/service.py).  What a document says is abstracted to the document itself: the chunks,
\* the embeddings and the digests of a set of documents are that set.
EXTENDS Naturals, FiniteSets

CONSTANTS Documents,       \* number of documents of the version, in the order they were created
          Extractor,       \* requests that extract a batch of documents
          Builder,         \* runs of prepare_copilot_index.py
          Reader,          \* Copilot turns that inspect the index
          Asker,           \* requests that use the index written in place
          MaxGeneration,   \* bound: generations ever begun
          MaxCrash         \* bound: processes that die

Doc == 1 .. Documents
Torn == {}                 \* a file that was truncated and not yet, or never, written again
Absent == {0}              \* a file that does not exist
Content == (SUBSET Doc) \cup {Absent}
Free == "free"
Left == "left"             \* the lock file of a process that died
FileState == {"text", "blank", "broken", "missing"}
ASSUME DocumentAssumption ==
    /\ Documents \in Nat /\ MaxGeneration \in Nat /\ MaxCrash \in Nat
    /\ {Free, Left} \cap Builder = {}

Outcome == [text |-> "EXTRACTED", blank |-> "EMPTY", broken |-> "FAILED", missing |-> "FAILED"]
Building == {"locked", "embedded", "vectors", "manifest", "stamped"}
Writing == {"read", "vectors open", "vectors", "manifest open"}

VARIABLES backend,         \* where originals are stored: a directory, or an object store
          file,            \* what the original of a document holds, "missing" if it was lost unread
          download,        \* download_status
          extraction,      \* extraction_status
          batch,           \* documents a request of extract-pending has selected
          lock,            \* build.lock: free, left by a dead process, or the builder that made it
          generations,     \* generation directories: their three files
          active,          \* the generation active.json names, 0 if there is no such file
          builder,         \* runs of publish_index: phase, snapshot, own generation
          reader,          \* runs of inspect_index: phase, snapshot, pointer read, verdict
          vectors,         \* index.faiss of the index written in place
          manifest,        \* manifest.json of the index written in place
          asker,           \* runs of load_or_build_version_index: phase, records, vectors
          crashes
documentVars == <<backend, file, download, extraction, batch>>
generationVars == <<lock, generations, active, builder, reader>>
legacyVars == <<vectors, manifest, asker>>
vars == <<documentVars, generationVars, legacyVars, crashes>>

----
\* What is known of the version at this moment: the records of its index are its extracted documents.
Extracted == {d \in Doc : extraction[d] = "EXTRACTED"}
Fingerprint == extraction
RecordsOf(fingerprint) == {d \in Doc : fingerprint[d] = "EXTRACTED"}
Empty == [vectors |-> Absent, manifest |-> Absent, stamp |-> Absent]
NotRead == [d \in Doc |-> "PENDING"]

Init == /\ backend \in {"LOCAL", "S3"}
        /\ file \in [Doc -> FileState]
        /\ download = [d \in Doc |-> "PENDING"]
        /\ extraction = [d \in Doc |-> "PENDING"]
        /\ batch = [x \in Extractor |-> {}]
        /\ lock = Free
        /\ generations = [g \in 1 .. MaxGeneration |-> [Empty EXCEPT !.stamp = NotRead]]
        /\ active = 0
        /\ builder = [b \in Builder |-> [phase |-> "idle", fingerprint |-> NotRead, own |-> 0]]
        /\ reader = [r \in Reader |-> [phase |-> "idle", fingerprint |-> NotRead, found |-> 0, verdict |-> "NONE"]]
        /\ vectors = Absent
        /\ manifest = Absent
        /\ asker = [a \in Asker |-> [phase |-> "idle", records |-> Absent, vectors |-> Absent]]
        /\ crashes = 0

----
\* NoticeDocumentDownloader.download of a document that has no original yet.  The synchronisation
\* extracts at once, the backfill script does not, and a failure leaves the document to a later run.
Download(d) ==
    /\ download[d] # "DOWNLOADED"
    /\ \E extracts \in BOOLEAN :
         \/ /\ extracts => file[d] # "missing"
            /\ download' = [download EXCEPT ![d] = "DOWNLOADED"]
            /\ extraction' = IF extracts THEN [extraction EXCEPT ![d] = Outcome[file[d]]] ELSE extraction
         \/ /\ download' = [download EXCEPT ![d] = IF extracts THEN "FAILED" ELSE @]
            /\ UNCHANGED extraction
    /\ UNCHANGED <<backend, file, batch, generationVars, legacyVars, crashes>>

\* extract_pending_documents takes the oldest documents that wait, and the failed ones if asked to.
WaitingAnyway(retryFailed) == {"PENDING", "FAILED"}
Waiting(retryFailed) == IF retryFailed THEN {"PENDING", "FAILED"} ELSE {"PENDING"}
Oldest(S, n) == {d \in S : Cardinality({e \in S : e < d}) < n}
SelectBatch(x, retryFailed) ==
    /\ batch[x] = {}
    /\ \E limit \in Doc :
         batch' = [batch EXCEPT ![x] =
                     Oldest({d \in Doc : download[d] = "DOWNLOADED" /\ extraction[d] \in Waiting(retryFailed)}, limit)]
    /\ batch'[x] # {}
    /\ UNCHANGED <<backend, file, download, extraction, generationVars, legacyVars, crashes>>

\* Every document of the batch gets the outcome its original has, in one commit.  A file that is not
\* in the directory is such an outcome; an object that the store does not have ends the request.
Fetchable(d) == backend = "LOCAL" \/ file[d] # "missing"
CommitBatch(x) ==
    /\ batch[x] # {} /\ \A d \in batch[x] : Fetchable(d)
    /\ extraction' = [d \in Doc |-> IF d \in batch[x] THEN Outcome[file[d]] ELSE extraction[d]]
    /\ batch' = [batch EXCEPT ![x] = {}]
    /\ UNCHANGED <<backend, file, download, generationVars, legacyVars, crashes>>

\* The store or the database refuses and nothing of the batch is kept: its documents wait as before.
BatchFails(x) ==
    /\ batch[x] # {}
    /\ batch' = [batch EXCEPT ![x] = {}]
    /\ UNCHANGED <<backend, file, download, extraction, generationVars, legacyVars, crashes>>

----
\* prepare_copilot_index.py reads the version and goes on if it still has the fingerprint of the dry run.
BeginBuild(b) ==
    /\ builder[b].phase = "idle"
    /\ Extracted # {}
    /\ builder' = [builder EXCEPT ![b] = [phase |-> "begun", fingerprint |-> Fingerprint, own |-> 0]]
    /\ UNCHANGED <<documentVars, lock, generations, active, reader, legacyVars, crashes>>

EndBuild(b) == builder' = [builder EXCEPT ![b] = [phase |-> "idle", fingerprint |-> NotRead, own |-> 0]]

\* The lock file is made with O_EXCL, before the try whose finally removes it, so a run that finds
\* the file of another one leaves it alone.
LockRemovedByRefusal == Free
LockAfterRefusal == lock
MakeLock(b) ==
    /\ builder[b].phase = "begun"
    /\ IF lock = Free
       THEN /\ lock' = b
            /\ builder' = [builder EXCEPT ![b].phase = "locked"]
       ELSE /\ lock' = LockAfterRefusal
            /\ EndBuild(b)
    /\ UNCHANGED <<documentVars, generations, active, reader, legacyVars, crashes>>

\* inspect_index on a generation: its stamp must name the fingerprint and its files must load, agree
\* in size and hold the records of the snapshot.
VerdictByFiles(fingerprint, g) ==
    IF g = 0 THEN "MISSING"
    ELSE IF generations[g].stamp = NotRead \/ generations[g].vectors # generations[g].manifest THEN "CORRUPT"
    ELSE "READY"
Verdict(fingerprint, g) ==
    IF g = 0 THEN "MISSING"
    ELSE IF generations[g].stamp = NotRead THEN "CORRUPT"
    ELSE IF generations[g].stamp # fingerprint THEN "STALE"
    ELSE IF generations[g].manifest # RecordsOf(fingerprint) \/ generations[g].vectors # generations[g].manifest THEN "CORRUPT"
    ELSE "READY"

\* Under the lock the run looks whether there is anything to do, and begins a directory of its own.
Begun == {g \in 1 .. MaxGeneration : generations[g] # [Empty EXCEPT !.stamp = NotRead]}
Owned == {builder[b].own : b \in Builder}
InspectFirst(b) ==
    /\ builder[b].phase = "locked"
    /\ IF Verdict(builder[b].fingerprint, active) = "READY"
       THEN lock' = Free /\ EndBuild(b)
       ELSE /\ \E g \in (1 .. MaxGeneration) \ (Begun \cup Owned) :
                 /\ \A other \in (1 .. MaxGeneration) \ (Begun \cup Owned) : g <= other
                 /\ builder' = [builder EXCEPT ![b].phase = "embedded", ![b].own = g]
            /\ UNCHANGED lock
    /\ UNCHANGED <<documentVars, generations, active, reader, legacyVars, crashes>>

\* The files of the generation, one after the other; each is whole before the next is begun.
After == [embedded |-> "vectors", vectors |-> "manifest", manifest |-> "stamped"]
WriteFile(b) ==
    /\ builder[b].phase \in DOMAIN After
    /\ LET g == builder[b].own  r == RecordsOf(builder[b].fingerprint) IN
       generations' = [generations EXCEPT ![g] =
                         CASE builder[b].phase = "embedded" -> [@ EXCEPT !.vectors = r]
                           [] builder[b].phase = "vectors" -> [@ EXCEPT !.manifest = r]
                           [] builder[b].phase = "manifest" -> [@ EXCEPT !.stamp = builder[b].fingerprint]]
    /\ builder' = [builder EXCEPT ![b].phase = After[@]]
    /\ UNCHANGED <<documentVars, lock, active, reader, legacyVars, crashes>>

\* os.replace makes the generation the active one; the lock file is removed after it.
Publishable(b) == builder[b].phase = "stamped"
Publish(b) ==
    /\ Publishable(b)
    /\ active # builder[b].own
    /\ active' = builder[b].own
    /\ UNCHANGED <<documentVars, lock, generations, builder, reader, legacyVars, crashes>>

Release(b) ==
    /\ builder[b].phase = "stamped" /\ active = builder[b].own
    /\ lock' = Free
    /\ EndBuild(b)
    /\ UNCHANGED <<documentVars, generations, active, reader, legacyVars, crashes>>

\* The embedding provider, the budget or the disk refuses: the lock is removed, the directory stays.
BuildFails(b) ==
    /\ builder[b].phase \in {"embedded", "vectors", "manifest"}
    /\ lock' = Free
    /\ EndBuild(b)
    /\ UNCHANGED <<documentVars, generations, active, reader, legacyVars, crashes>>

\* The process dies: its lock file stays and nothing builds until an operator has removed it.
CrashBuilder(b) ==
    /\ builder[b].phase # "idle" /\ crashes < MaxCrash
    /\ crashes' = crashes + 1
    /\ lock' = IF builder[b].phase \in Building THEN Left ELSE lock
    /\ EndBuild(b)
    /\ UNCHANGED <<documentVars, generations, active, reader, legacyVars>>

OperatorRemovesLock ==
    /\ lock = Left
    /\ lock' = Free
    /\ UNCHANGED <<documentVars, generations, active, builder, reader, legacyVars, crashes>>

----
\* A Copilot turn: snapshot_sources, then the pointer, then the files of the generation it names.
TakeSnapshot(r) ==
    /\ reader[r].phase \in {"idle", "inspected"}
    /\ reader' = [reader EXCEPT ![r] = [phase |-> "snapshot", fingerprint |-> Fingerprint, found |-> 0, verdict |-> "NONE"]]
    /\ UNCHANGED <<documentVars, lock, generations, active, builder, legacyVars, crashes>>
ReadPointer(r) ==
    /\ reader[r].phase = "snapshot"
    /\ reader' = [reader EXCEPT ![r].phase = "pointer", ![r].found = active]
    /\ UNCHANGED <<documentVars, lock, generations, active, builder, legacyVars, crashes>>
Inspect(r) ==
    /\ reader[r].phase = "pointer"
    /\ reader' = [reader EXCEPT ![r].phase = "inspected", ![r].verdict = Verdict(reader[r].fingerprint, reader[r].found)]
    /\ UNCHANGED <<documentVars, lock, generations, active, builder, legacyVars, crashes>>

----
\* load_or_build_version_index.  The two files are read one after the other, manifest first; what does
\* not parse or does not agree in size is built again, what faiss cannot read ends the request.
AnySize(records, found) == TRUE
SameSize(records, found) == Cardinality(records) = Cardinality(found)
Goes(a, phase) == asker' = [asker EXCEPT ![a].phase = phase]
AskerRest == <<documentVars, generationVars, crashes>>

Ask(a) ==
    /\ asker[a].phase \in {"idle", "answered"}
    /\ asker' = [asker EXCEPT ![a] = [phase |-> IF vectors = Absent \/ manifest = Absent THEN "build" ELSE "load",
                                      records |-> Absent, vectors |-> Absent]]
    /\ UNCHANGED <<vectors, manifest, AskerRest>>
LoadManifest(a) ==
    /\ asker[a].phase = "load"
    /\ asker' = [asker EXCEPT ![a].phase = IF manifest = Torn THEN "build" ELSE "manifest loaded", ![a].records = manifest]
    /\ UNCHANGED <<vectors, manifest, AskerRest>>
LoadVectors(a) ==
    /\ asker[a].phase = "manifest loaded"
    /\ asker' = [asker EXCEPT ![a] =
                   IF vectors = Torn THEN [phase |-> "idle", records |-> Absent, vectors |-> Absent]
                   ELSE IF SameSize(@.records, vectors) THEN [@ EXCEPT !.phase = "answered", !.vectors = vectors]
                   ELSE [@ EXCEPT !.phase = "build", !.records = Absent]]
    /\ UNCHANGED <<vectors, manifest, AskerRest>>

\* build_version_index reads the version, embeds, and writes the two files in place.
ReadVersion(a) ==
    /\ asker[a].phase = "build"
    /\ asker' = [asker EXCEPT ![a] = IF Extracted = {} THEN [phase |-> "idle", records |-> Absent, vectors |-> Absent]
                                     ELSE [phase |-> "read", records |-> Extracted, vectors |-> Extracted]]
    /\ UNCHANGED <<vectors, manifest, AskerRest>>
OpenVectors(a) == asker[a].phase = "read" /\ vectors' = Torn /\ Goes(a, "vectors open") /\ UNCHANGED <<manifest, AskerRest>>
WriteVectors(a) == asker[a].phase = "vectors open" /\ vectors' = asker[a].vectors /\ Goes(a, "vectors") /\ UNCHANGED <<manifest, AskerRest>>
OpenManifest(a) == asker[a].phase = "vectors" /\ manifest' = Torn /\ Goes(a, "manifest open") /\ UNCHANGED <<vectors, AskerRest>>
WriteManifest(a) == asker[a].phase = "manifest open" /\ manifest' = asker[a].records /\ Goes(a, "answered") /\ UNCHANGED <<vectors, AskerRest>>

CrashAsker(a) ==
    /\ asker[a].phase \in Writing /\ crashes < MaxCrash
    /\ crashes' = crashes + 1
    /\ asker' = [asker EXCEPT ![a] = [phase |-> "idle", records |-> Absent, vectors |-> Absent]]
    /\ UNCHANGED <<documentVars, generationVars, vectors, manifest>>

----
Build(b) == \/ BeginBuild(b) \/ MakeLock(b) \/ InspectFirst(b) \/ WriteFile(b) \/ Publish(b)
            \/ Release(b) \/ BuildFails(b) \/ CrashBuilder(b)
Read(r) == TakeSnapshot(r) \/ ReadPointer(r) \/ Inspect(r)
AskStep(a) == \/ Ask(a) \/ LoadManifest(a) \/ LoadVectors(a) \/ ReadVersion(a) \/ OpenVectors(a)
              \/ WriteVectors(a) \/ OpenManifest(a) \/ WriteManifest(a) \/ CrashAsker(a)
Next == \/ \E d \in Doc : Download(d)
        \/ \E x \in Extractor, retryFailed \in BOOLEAN : SelectBatch(x, retryFailed)
        \/ \E x \in Extractor : CommitBatch(x) \/ BatchFails(x)
        \/ \E b \in Builder : Build(b)
        \/ OperatorRemovesLock
        \/ \E r \in Reader : Read(r)
        \/ \E a \in Asker : AskStep(a)
Spec == Init /\ [][Next]_vars
\* Extraction is requested again and again without retry_failed, as bootstrap_product_data does, however
\* many requests with it come in between; a request ends; and a batch of what waits, whose originals
\* are all there, does not fail forever.
EndBatch(x) == CommitBatch(x) \/ BatchFails(x)
CommitWaiting(x) == (\E d \in batch[x] : extraction[d] = "PENDING") /\ CommitBatch(x)
FairSpec == Spec /\ \A x \in Extractor : /\ SF_vars(SelectBatch(x, FALSE))
                                        /\ WF_vars(EndBatch(x)) /\ SF_vars(CommitWaiting(x))
----
\* Files, statuses, the runs and what they hold are of their kinds.
TypeOK ==
    /\ backend \in {"LOCAL", "S3"}
    /\ file \in [Doc -> FileState]
    /\ download \in [Doc -> {"PENDING", "DOWNLOADED", "FAILED"}]
    /\ extraction \in [Doc -> {"PENDING", "EXTRACTED", "EMPTY", "FAILED"}]
    /\ batch \in [Extractor -> SUBSET Doc]
    /\ lock \in {Free, Left} \cup Builder
    /\ generations \in [1 .. MaxGeneration -> [vectors : Content, manifest : Content, stamp : [Doc -> {"PENDING", "EXTRACTED", "EMPTY", "FAILED"}]]]
    /\ active \in 0 .. MaxGeneration
    /\ \A b \in Builder : builder[b].own > 0 => lock = b
    /\ vectors \in Content /\ manifest \in Content
    /\ \A a \in Asker : asker[a].phase = "answered" => asker[a].records # Torn

\* A build owns the lock file from its creation to its removal, so two builds never write at once,
\* although the file is removed in a finally and processes die between any two steps.
OneBuilder == \A b \in Builder : builder[b].phase \in Building => lock = b

\* The generation active.json names is whole: three files, of one snapshot, whichever step of whichever
\* build a process died at.
PointerWhole ==
    active # 0 => /\ generations[active].stamp # NotRead
                  /\ generations[active].manifest = RecordsOf(generations[active].stamp)
                  /\ generations[active].vectors = generations[active].manifest

\* A turn that is told READY reads exactly the extracted documents of its own snapshot.
ReadyIsCurrent ==
    \A r \in Reader : reader[r].verdict = "READY" =>
        LET g == generations[reader[r].found] IN
        g.vectors = RecordsOf(reader[r].fingerprint) /\ g.manifest = RecordsOf(reader[r].fingerprint)

\* The index written in place: whoever gets it, from any interleaving of requests that write both
\* files and die between them, holds vectors and records of the same documents.
VectorsMatchRecords == \A a \in Asker : asker[a].phase = "answered" => asker[a].vectors = asker[a].records

\* Both indexes: what is read from one belongs together.
IndexWhole == PointerWhole /\ VectorsMatchRecords

\* Batches of any size reach every document that was downloaded, although those before it fail each
\* time, if the store still has the originals; a directory may have lost some.
EveryDocumentIsRead ==
    \A d \in Doc : download[d] = "DOWNLOADED" /\ (\A e \in Doc : Fetchable(e)) ~> extraction[d] # "PENDING"

\* Refuted, not checked by a run: one object that the store lost fails every batch it is in, and the
\* documents after it wait forever.
LostObjectsBlockNobody == \A d \in Doc : download[d] = "DOWNLOADED" /\ Fetchable(d) ~> extraction[d] # "PENDING"
====
