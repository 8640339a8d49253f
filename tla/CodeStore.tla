------------------------------- MODULE CodeStore -------------------------------
(***************************************************************************)
(* The collection of codes from the services that are made for them        *)
(* (scripts/collect_code_master.py): "plan" reads the first page of every  *)
(* window, "collect" the pages that are left, and both export what an      *)
(* SQLite database has gathered.  A page and its checkpoint are stored in  *)
(* one transaction.  The industry codes are exported over the file that    *)
(* CodeMaster keeps.                                                       *)
(*                                                                         *)
(* The services are external: a catalogue gets new entries at its end, and *)
(* entries are changed in place.  A date of change of 0 is an empty one.   *)
(* The response code "03", no data, is given for windows without entries.  *)
(***************************************************************************)
EXTENDS CodeMaster, SequencesExt

CONSTANTS
    Windows,         \* dataset -> the number of its windows, the latest one first
    MaxChanged,      \* bound: dates of change
    MaxAmended,      \* bound: entries that are added or changed
    MaxStarts        \* bound: how often the command is started

VARIABLES
    catalogue,       \* the entries of each window of a service
    changes,         \* how many entries were added or changed
    progress,
    records,         \* the entry of each code of a dataset
    nameConflicts,   \* the changes of names of a dataset
    job,             \* the process, or Null
    starts,
    seen             \* ghost: all entries of a dataset that were stored

storeVars == <<catalogue, changes, progress, records, nameConflicts, job, starts, seen>>

Dataset == DOMAIN Windows
Window == UNION {{<<d, k>> : k \in 1..Windows[d]} : d \in Dataset}

Changed == 0..MaxChanged
Item == [code : Code, name : Name, changed : Changed]
Record == [name : Name, changed : Changed]
Records == UNION {[S -> Record] : S \in SUBSET Code}
Conflict == Code \X Name \X Name
Checkpoint == [total : Nat, pages : Nat, next : Nat, complete : BOOLEAN]
Command == [mode : {"plan", "collect"}, dataset : Dataset, pc : {"window", "page", "store", "export"},
            windows : SUBSET Window, window : Window \cup {Null}, page : Nat, pages : Nat,
            total : Nat, items : Seq(Item), item : Nat, records : Records, conflicts : SUBSET Conflict]

\* Windows are numbered, and the absence of a checkpoint or a process is none of them.
StoreAssumption ==
    /\ \A d \in Dataset : Windows[d] \in Nat
    /\ {MaxChanged, MaxAmended, MaxStarts} \subseteq Nat
    /\ Null \notin Checkpoint \cup Command \cup Window

StoreTypeOK ==
    /\ catalogue \in [Window -> Seq(Item)]
    /\ progress \in [Window -> Checkpoint \cup {Null}]
    /\ records \in [Dataset -> Records] /\ nameConflicts \in [Dataset -> SUBSET Conflict]
    /\ job \in Command \cup {Null}
    /\ changes \in 0..MaxAmended /\ starts \in 0..MaxStarts
    /\ seen \in [Dataset -> SUBSET Item]

StoreInit ==
    /\ catalogue = [w \in Window |-> <<>>] /\ changes = 0
    /\ progress = [w \in Window |-> Null]
    /\ records = [d \in Dataset |-> NoRows] /\ nameConflicts = [d \in Dataset |-> {}]
    /\ job = Null /\ starts = 0 /\ seen = [d \in Dataset |-> {}]

-----------------------------------------------------------------------------
(* The services *)

Publish(w, c, n, changed) ==
    /\ changes < MaxAmended
    /\ catalogue' = [catalogue EXCEPT
                        ![w] = Append(@, [code |-> c, name |-> n, changed |-> changed])]
    /\ changes' = changes + 1
    /\ UNCHANGED <<progress, records, nameConflicts, job, starts, seen, masterVars>>

Amend(w, i, n, changed) ==
    /\ changes < MaxAmended /\ i \in DOMAIN catalogue[w]
    /\ changed > catalogue[w][i].changed
    /\ changes' = changes + 1
    /\ catalogue' = [catalogue EXCEPT ![w][i].name = n, ![w][i].changed = changed]
    /\ UNCHANGED <<progress, records, nameConflicts, job, starts, seen, masterVars>>

\* parse_response of a page.
PageItems(w, page) ==
    SubSeq(catalogue[w], (page - 1) * PageRows + 1, Earlier(page * PageRows, Len(catalogue[w])))

PagesOf(total) == (total + PageRows - 1) \div PageRows

-----------------------------------------------------------------------------
(* plan_dataset and collect_dataset *)

\* The windows that a command goes through are read at its start.
Pending(mode, d) ==
    {w \in Window : w[1] = d /\ (mode = "plan" \/ (progress[w] # Null /\ ~progress[w].complete))}

StartCommand(mode, d) ==
    /\ job = Null /\ starts < MaxStarts
    /\ starts' = starts + 1
    /\ job' = [mode |-> mode, dataset |-> d, pc |-> "window", windows |-> Pending(mode, d),
               window |-> Null, page |-> 0, pages |-> 0, total |-> 0, items |-> <<>>, item |-> 1,
               records |-> NoRows, conflicts |-> {}]
    /\ UNCHANGED <<catalogue, changes, progress, records, nameConflicts, seen, masterVars>>

\* The latest window that is left; without one the job goes on to its export.  A window
\* that has been planned is not planned again, and one that is complete is never read again.
NextWindow ==
    /\ job # Null /\ job.pc = "window"
    /\ \/ job.windows = {} /\ job' = [job EXCEPT !.pc = "export"]
       \/ \E w \in job.windows :
             /\ \A v \in job.windows : w[2] <= v[2]
             /\ job' = CASE job.mode = "collect" ->
                              [job EXCEPT !.pc = "page", !.window = w, !.windows = @ \ {w},
                                          !.page = progress[w].next, !.pages = progress[w].pages]
                         [] job.mode = "plan" /\ progress[w] = Null ->
                              [job EXCEPT !.pc = "page", !.window = w, !.windows = @ \ {w},
                                          !.page = 1, !.pages = 1]
                         [] OTHER -> [job EXCEPT !.windows = @ \ {w}]
    /\ UNCHANGED <<catalogue, changes, progress, records, nameConflicts, starts, seen, masterVars>>

\* With the answer the transaction of store_page begins.
RequestPage ==
    /\ job # Null /\ job.pc = "page" /\ job.page <= job.pages
    /\ job' = [job EXCEPT !.pc = "store", !.total = Len(catalogue[job.window]),
                          !.items = PageItems(job.window, job.page), !.item = 1,
                          !.records = records[job.dataset], !.conflicts = {}]
    /\ UNCHANGED <<catalogue, changes, progress, records, nameConflicts, starts, seen, masterVars>>

\* The limit of the day, an error of the service, or the death of the process: nothing is
\* exported, and what was stored stays.
CommandFails ==
    /\ job # Null
    /\ job' = Null
    /\ UNCHANGED <<catalogue, changes, progress, records, nameConflicts, starts, seen, masterVars>>

-----------------------------------------------------------------------------
(* store_page *)

\* A slip: what was read last counts.
ReplaceAlways(old, new) == TRUE

ShouldReplace(old, new) == old = 0 \/ (new # 0 /\ new >= old)

\* One entry, in the records and conflicts that the transaction sees.
StoreItem ==
    /\ job # Null /\ job.pc = "store" /\ job.item <= Len(job.items)
    /\ LET item == job.items[job.item]
           known == item.code \in DOMAIN job.records
           old == job.records[item.code]
       IN  job' = [job EXCEPT
              !.item = @ + 1,
              !.records = IF ~known \/ ShouldReplace(old.changed, item.changed)
                          THEN Merged(@, [c \in {item.code} |-> [name |-> item.name, changed |-> item.changed]])
                          ELSE @,
              !.conflicts = IF known /\ old.name # item.name
                            THEN @ \cup {<<item.code, old.name, item.name>>} ELSE @]
    /\ UNCHANGED <<catalogue, changes, progress, records, nameConflicts, starts, seen, masterVars>>

\* A slip: the last page is not waited for.
CompletesEarly(next, pages) == next >= pages

MarksComplete(next, pages) == pages = 0 \/ next > pages

\* The commit, with the checkpoint.  Planning ends with the first page of a window.
StorePage ==
    /\ job # Null /\ job.pc = "store" /\ job.item > Len(job.items)
    /\ records' = [records EXCEPT ![job.dataset] = job.records]
    /\ nameConflicts' = [nameConflicts EXCEPT ![job.dataset] = @ \cup job.conflicts]
    /\ progress' = [progress EXCEPT ![job.window] =
            [total |-> job.total, pages |-> PagesOf(job.total), next |-> job.page + 1,
             complete |-> MarksComplete(job.page + 1, PagesOf(job.total))]]
    /\ seen' = [seen EXCEPT ![job.dataset] = @ \cup ToSet(job.items)]
    /\ job' = IF job.mode = "plan"
              THEN [job EXCEPT !.pc = "window", !.items = <<>>, !.records = NoRows, !.conflicts = {}]
              ELSE [job EXCEPT !.pc = "page", !.page = @ + 1,
                               !.items = <<>>, !.records = NoRows, !.conflicts = {}]
    /\ UNCHANGED <<catalogue, changes, starts, masterVars>>

LeaveWindow ==
    /\ job # Null /\ job.pc = "page" /\ job.page > job.pages
    /\ job' = [job EXCEPT !.pc = "window"]
    /\ UNCHANGED <<catalogue, changes, progress, records, nameConflicts, starts, seen, masterVars>>

\* export_dataset replaces the file in one step.
Export ==
    /\ job # Null /\ job.pc = "export"
    /\ file' = IF job.dataset # "industry" THEN file
               ELSE [file EXCEPT !["industry"] =
                        [rows |-> [c \in DOMAIN records["industry"] |-> records["industry"][c].name],
                         readable |-> TRUE, written |-> clock]]
    /\ job' = Null
    /\ UNCHANGED <<catalogue, changes, progress, records, nameConflicts, starts, seen,
                   clock, listing, conflicts, state, usage, run, excused, deaths>>

StoreNext ==
    \/ \E w \in Window, c \in Code, n \in Name, changed \in 0..MaxChanged : Publish(w, c, n, changed)
    \/ \E w \in Window, i \in 1..MaxAmended, n \in Name, changed \in 0..MaxChanged :
          Amend(w, i, n, changed)
    \/ \E mode \in {"plan", "collect"}, d \in Dataset : StartCommand(mode, d)
    \/ NextWindow
    \/ RequestPage
    \/ CommandFails
    \/ StoreItem
    \/ StorePage
    \/ LeaveWindow
    \/ Export

\* The two commands beside each other, on one file of industry codes.
CodesNext ==
    \/ MasterNext /\ UNCHANGED storeVars
    \/ StoreNext

CodesSpec == MasterInit /\ StoreInit /\ [][CodesNext]_<<masterVars, storeVars>>

-----------------------------------------------------------------------------
(* Properties *)

\* A window that is marked complete has been stored up to the number of entries that its
\* last page reported, however often the command was interrupted and whatever was added
\* meanwhile (store_page, collect_dataset).
WholeWhenComplete ==
    \A w \in Window :
        progress[w] # Null /\ progress[w].complete =>
            \A k \in 1..progress[w].total : catalogue[w][k].code \in DOMAIN records[w[1]]

\* A code has the latest of the dates of change that were ever stored for it and the name
\* that came with it, in whichever order the windows and pages that hold it were read, and
\* every change of its name is on record (should_replace, store_page).
NewestChangeKept ==
    \A d \in Dataset : \A item \in seen[d] :
        /\ item.code \in DOMAIN records[d]
        /\ LET record == records[d][item.code]
           IN  /\ item.changed <= record.changed
               /\ [code |-> item.code, name |-> record.name, changed |-> record.changed] \in seen[d]
               /\ item.name # record.name => \E c \in nameConflicts[d] : c[1] = item.code
===============================================================================
