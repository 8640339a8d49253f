------------------------------ MODULE CodeMaster ------------------------------
(***************************************************************************)
(* The collection of codes and their names from the licence limits of      *)
(* notices (scripts/collect_code_master_FIXED.py): a command that somebody *)
(* starts now and then, which reads windows of time page by page, merges   *)
(* each page into two CSV files and keeps in a state file how far it is.   *)
(*                                                                         *)
(* The service is external: it lists entries by the minute in which they   *)
(* were registered.  An entry names a code in a licence limit, which goes  *)
(* into both files, or in a list of allowed trades only.  The file of      *)
(* industry codes is also written by collect_code_master.py (CodeStore).   *)
(* Whoever starts the command may give it a start and an end of its own,   *)
(* and neither is compared with the clock.                                 *)
(* The fixed tables of regions, and the second dataset, which runs the     *)
(* same way, are left out.                                                 *)
(***************************************************************************)
EXTENDS Integers, Sequences, FiniteSets

CONSTANTS
    Code,            \* codes, which are numbers
    Name,
    PageRows,        \* rows of a page
    WindowSize,      \* minutes of a window
    Reread,          \* minutes that are read again
    DayLength,       \* minutes of a day
    DailyLimit,      \* calls in a day
    MaxClock,        \* bound: the clock stops here
    MaxEntries,      \* bound: entries that are registered
    MaxDeaths,       \* bound: crashes
    Null

VARIABLES
    clock,
    listing,         \* the entries of the service, in the order of registration
    file,            \* license_codes.csv and industry_codes.csv
    conflicts,       \* the codes in the file of conflicts beside each
    state,           \* code_master_state.json
    usage,           \* g2b_call_usage.json
    run,             \* the process, or Null
    excused,         \* ghost: entries that the command knowingly passes over
    deaths

masterVars == <<clock, listing, file, conflicts, state, usage, run, excused, deaths>>

Minute == 0..MaxClock
File == {"license", "industry"}
Rows == UNION {[S -> Name] : S \in SUBSET Code}
Entry == [code : Code, name : Name, at : Minute, licensed : BOOLEAN]
NoRows == [c \in {} |-> Null]
Written == [rows : Rows, readable : BOOLEAN, written : Minute \cup {Null}]
Period == [start : Minute, end : Minute]
Resume == [window : Period, next : Nat, pages : Nat]
Run == [pc : {"window", "page", "license", "industry", "save"}, cursor : Nat, end : Minute,
        first : BOOLEAN, window : Period \cup {Null}, resumed : BOOLEAN,
        page : Nat, pages : Nat, items : SUBSET Nat]
Missing == [rows |-> NoRows, readable |-> TRUE, written |-> Null]

\* Minutes, and the entries and the pages of a window, are numbers; a window and what is
\* read again are not empty.
MasterAssumption ==
    /\ Code \subseteq Nat
    /\ {PageRows, WindowSize, Reread, DayLength} \subseteq Nat \ {0}
    /\ {DailyLimit, MaxClock, MaxEntries, MaxDeaths} \subseteq Nat
    /\ Null \notin Nat \cup Resume \cup Run

MasterTypeOK ==
    /\ clock \in Minute /\ deaths \in 0..MaxDeaths
    /\ listing \in Seq(Entry)
    /\ file \in [File -> Written] /\ conflicts \in [File -> SUBSET Code]
    /\ state.completed \in Minute \cup {Null} /\ state.resume \in Resume \cup {Null}
    /\ usage \in [day : Nat, used : 0..DailyLimit]
    /\ run \in Run \cup {Null}
    /\ excused \subseteq DOMAIN listing

MasterInit ==
    /\ clock = 0 /\ listing = <<>> /\ deaths = 0
    /\ file = [f \in File |-> Missing] /\ conflicts = [f \in File |-> {}]
    /\ state = [completed |-> Null, resume |-> Null]
    /\ usage = [day |-> 0, used |-> 0]
    /\ run = Null /\ excused = {}

-----------------------------------------------------------------------------
(* The service *)

ClockTicks ==
    /\ clock < MaxClock
    /\ clock' = clock + 1
    /\ UNCHANGED <<listing, file, conflicts, state, usage, run, excused, deaths>>

\* A minute still to come that the command, given an end in the future, counts as read or reads
\* already: what is registered then is passed over.
Ahead(t) ==
    \/ state.completed # Null /\ t < state.completed
    \/ state.resume # Null /\ t < state.resume.window.end
    \/ run # Null /\ t < run.end

ListEntry(c, n, licensed) ==
    /\ Len(listing) < MaxEntries
    /\ listing' = Append(listing, [code |-> c, name |-> n, at |-> clock, licensed |-> licensed])
    /\ excused' = IF Ahead(clock) THEN excused \cup {Len(listing')} ELSE excused
    /\ UNCHANGED <<clock, file, conflicts, state, usage, run, deaths>>

\* The entries of a window, their places in it, oldest first, and those on one of its pages.
Contents(w) == {i \in DOMAIN listing : w.start <= listing[i].at /\ listing[i].at <= w.end}

Place(w, i) == Cardinality({j \in Contents(w) : j <= i})

PageOf(w, page) ==
    {i \in Contents(w) : (page - 1) * PageRows < Place(w, i) /\ Place(w, i) <= page * PageRows}

TotalPages(w) ==
    LET total == Cardinality(Contents(w))
    IN  IF total = 0 THEN 1 ELSE (total + PageRows - 1) \div PageRows

-----------------------------------------------------------------------------
(* Where a run starts *)

Later(a, b) == IF a > b THEN a ELSE b
Earlier(a, b) == IF a < b THEN a ELSE b

\* master_mtime_start: a file without a state is taken for the work of an older version.
MtimeStart ==
    LET written == {file[f].written : f \in File} \ {Null}
    IN  IF written = {} THEN Null
        ELSE Later(0, (CHOOSE t \in written : \A u \in written : u <= t) - Reread)

\* A slip: what has been completed is not read again.
StartBehind(explicit) ==
    IF explicit # Null THEN explicit
    ELSE IF state.completed # Null THEN state.completed + 1
    ELSE IF MtimeStart # Null THEN MtimeStart ELSE 0

DetermineStart(explicit) ==
    IF explicit # Null THEN explicit
    ELSE IF state.completed # Null THEN Later(0, state.completed - Reread)
    ELSE IF MtimeStart # Null THEN MtimeStart ELSE 0

\* What such a start passes over: what a run would otherwise have begun with.
Skipped(start) ==
    LET due == IF state.completed = Null THEN 0 ELSE state.completed - Reread
    IN  {i \in DOMAIN listing : due <= listing[i].at /\ listing[i].at < start}

Launch(explicit, end) ==
    LET start == DetermineStart(explicit)
    IN  /\ run = Null
        /\ run' = [pc |-> "window", cursor |-> start, end |-> end, first |-> TRUE,
                   window |-> Null, resumed |-> FALSE, page |-> 0, pages |-> 0, items |-> {}]
        /\ excused' = IF state.resume = Null /\ (explicit # Null \/ state.completed = Null) /\ start <= end
                      THEN excused \cup Skipped(start) ELSE excused
        /\ UNCHANGED <<clock, listing, file, conflicts, state, usage, deaths>>

-----------------------------------------------------------------------------
(* A window, page by page *)

Goes(pc) == run' = [run EXCEPT !.pc = pc]

\* A window that was left in the middle comes first, and what follows begins behind it.
ResumeWindow ==
    /\ run # Null /\ run.pc = "window" /\ run.first /\ state.resume # Null
    /\ run' = [run EXCEPT !.pc = "page", !.first = FALSE, !.resumed = TRUE,
                          !.window = state.resume.window,
                          !.page = state.resume.next, !.pages = state.resume.pages]
    /\ UNCHANGED <<clock, listing, file, conflicts, state, usage, excused, deaths>>

TakeWindow ==
    /\ run # Null /\ run.pc = "window" /\ ~(run.first /\ state.resume # Null)
    /\ IF run.cursor > run.end THEN run' = Null
       ELSE run' = [run EXCEPT !.pc = "page", !.first = FALSE, !.resumed = FALSE,
                               !.window = [start |-> run.cursor,
                                           end |-> Earlier(run.end, run.cursor + WindowSize - 1)],
                               !.page = 1, !.pages = 1]
    /\ UNCHANGED <<clock, listing, file, conflicts, state, usage, excused, deaths>>

Used == IF usage.day = clock \div DayLength THEN usage.used ELSE 0

\* The call is counted before it is made.
Fetch ==
    /\ run # Null /\ run.pc = "page" /\ run.page <= run.pages /\ Used < DailyLimit
    /\ usage' = [day |-> clock \div DayLength, used |-> Used + 1]
    /\ run' = [run EXCEPT !.pc = "license", !.items = PageOf(run.window, run.page),
                           !.pages = IF run.page = 1 THEN TotalPages(run.window) ELSE @]
    /\ UNCHANGED <<clock, listing, file, conflicts, state, excused, deaths>>

\* The limit of the day, or an error of the service, ends the run.
FetchFails ==
    /\ run # Null /\ run.pc = "page" /\ run.page <= run.pages
    /\ usage' = IF Used < DailyLimit THEN [day |-> clock \div DayLength, used |-> Used + 1] ELSE usage
    /\ run' = Null
    /\ UNCHANGED <<clock, listing, file, conflicts, state, excused, deaths>>

\* The pairs of a page that belong into a file, the last one of each code.
NewRows(f) ==
    LET mine == {i \in run.items : f = "industry" \/ listing[i].licensed}
    IN  [c \in {listing[i].code : i \in mine} |->
            LET last == CHOOSE i \in mine : listing[i].code = c /\
                            \A j \in mine : listing[j].code = c => j <= i
            IN  listing[last].name]

Merged(old, new) ==
    [c \in DOMAIN old \cup DOMAIN new |-> IF c \in DOMAIN new THEN new[c] ELSE old[c]]

\* Codes of which two names stand in the file and on the page.
Disputed(f) ==
    {c \in Code :
        LET names == {listing[i].name : i \in {i \in run.items : listing[i].code = c /\
                                                    (f = "industry" \/ listing[i].licensed)}}
            known == IF c \in DOMAIN file[f].rows THEN {file[f].rows[c]} ELSE {}
        IN  Cardinality(names \cup known) > 1}

\* merge_master: a file that cannot be read ends the run with an exception nobody catches.
\* The file of conflicts is about this merge only; without one it is removed.
Merge(f, next) ==
    /\ run # Null /\ run.pc = f
    /\ IF ~file[f].readable
       THEN run' = Null /\ UNCHANGED <<file, conflicts>>
       ELSE /\ file' = [file EXCEPT ![f] =
                            [rows |-> Merged(@.rows, NewRows(f)), readable |-> TRUE, written |-> clock]]
            /\ conflicts' = [conflicts EXCEPT ![f] = Disputed(f)]
            /\ Goes(next)
    /\ UNCHANGED <<clock, listing, state, usage, excused, deaths>>

\* Each page is noted in the state once it has been merged.
SaveResume ==
    /\ run # Null /\ run.pc = "save"
    /\ state' = [state EXCEPT !.resume =
                    [window |-> run.window, next |-> run.page + 1, pages |-> run.pages]]
    /\ run' = [run EXCEPT !.pc = "page", !.page = @ + 1, !.items = {}]
    /\ UNCHANGED <<clock, listing, file, conflicts, usage, excused, deaths>>

\* A run that resumes a window does not look again at the minute in which it ended.
CompleteWindow ==
    /\ run # Null /\ run.pc = "page" /\ run.page > run.pages
    /\ state' = [completed |-> run.window.end, resume |-> Null]
    /\ run' = [run EXCEPT !.pc = "window", !.cursor = run.window.end + 1, !.window = Null]
    /\ excused' = IF run.resumed
                  THEN excused \cup {i \in DOMAIN listing : listing[i].at = run.window.end}
                  ELSE excused
    /\ UNCHANGED <<clock, listing, file, conflicts, usage, deaths>>

-----------------------------------------------------------------------------
(* The process dies.  A file that it is writing is cut off: the rows are   *)
(* sorted by code.                                                         *)

CutFiles(f) ==
    LET whole == Merged(file[f].rows, NewRows(f))
    IN  {[rows |-> NoRows, readable |-> FALSE, written |-> clock]} \cup
        {[rows |-> [c \in {c \in DOMAIN whole : c < k} |-> whole[c]],
          readable |-> TRUE, written |-> clock] : k \in Code}

CommandDies ==
    /\ run # Null /\ deaths < MaxDeaths
    /\ deaths' = deaths + 1
    /\ run' = Null
    /\ \/ UNCHANGED <<file, excused>>
       \/ \E f \in File :
             /\ run.pc = f /\ file[f].readable
             /\ \E left \in CutFiles(f) :
                    /\ file' = [file EXCEPT ![f] = left]
                    /\ excused' = excused \cup
                           {i \in DOMAIN listing : listing[i].code \notin DOMAIN left.rows}
    /\ UNCHANGED <<clock, listing, conflicts, state, usage>>

MasterNext ==
    \/ ClockTicks
    \/ \E c \in Code, n \in Name, licensed \in BOOLEAN : ListEntry(c, n, licensed)
    \/ \E explicit \in {Null} \cup Minute, end \in Minute : Launch(explicit, end)
    \/ ResumeWindow
    \/ TakeWindow
    \/ Fetch
    \/ FetchFails
    \/ Merge("license", "industry")
    \/ Merge("industry", "save")
    \/ SaveResume
    \/ CompleteWindow
    \/ CommandDies

-----------------------------------------------------------------------------
(* Properties *)

\* The license codes of all that was registered until shortly before the time up to
\* which the state says the collection is complete are in the file, but for what a start
\* given by hand or guessed from the age of a file passes over, what was registered in a
\* minute that an end given by hand had put behind the command before it came, what came
\* in the minute in which a window ended that had to be resumed, and what a file that was
\* cut off has lost.  While nothing is under way and no process has died, they have the name under which
\* they were registered last, although pages and windows are read again (determine_start,
\* collect_one_window, merge_master).
CodesAccountedFor ==
    file["license"].readable /\ state.completed # Null =>
        \A i \in DOMAIN listing \ excused :
            listing[i].licensed /\ listing[i].at <= state.completed - Reread =>
                /\ listing[i].code \in DOMAIN file["license"].rows
                /\ run = Null /\ state.resume = Null /\ deaths = 0 =>
                       \E j \in i..Len(listing) :
                           /\ listing[j].licensed /\ listing[j].code = listing[i].code
                           /\ listing[j].name = file["license"].rows[listing[i].code]

\* Refuted, not checked by a run: an end in the future moves completed_until there, and what
\* is registered until then is never read (determine_start looks at completed_until only).
FutureIsNotComplete == state.completed # Null => state.completed <= clock

\* What a comment promises: a code of which two names were seen stays in the file of
\* conflicts (merge_master).  The next page without one removes the file.
ConflictsPreserved ==
    [][\A f \in File : conflicts[f] \subseteq conflicts'[f]]_masterVars
===============================================================================
