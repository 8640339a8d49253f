---------------------------- MODULE PreflightCases ----------------------------
(***************************************************************************)
(* Preflight cases and the proposals uploaded to them                      *)
(* (services/preflight_cases.py, routers/preflight_cases.py).              *)
(*                                                                         *)
(* A case pairs a company with a notice: with its current version and, to  *)
(* follow changes, with an earlier one as its baseline.  The versions of   *)
(* the notices are those of NoticeHistory: collection goes on meanwhile.   *)
(*                                                                         *)
(* A proposal is put into the object store, its text is extracted, and     *)
(* then its row is inserted.  Nothing is locked between the query for the  *)
(* same file, the query for the last position, and the insert; the unique  *)
(* indexes of proposal_documents decide.                                   *)
(***************************************************************************)
EXTENDS NoticeHistory

CONSTANTS
    Request,
    Company,
    Case,
    Document,  \* document ids, which are part of the storage keys
    File,      \* contents, by hash
    None

ASSUME CasesAssumption ==
    /\ MaxOrder \in Nat
    /\ None \notin Notice \cup Company \cup Case \cup Document \cup Orders \cup File

VARIABLES
    companies,  \* companies that exist
    cases,      \* preflight_cases
    documents,  \* proposal_documents
    objects,    \* documents whose file is in the object store
    pc,         \* how far each request has come
    request,    \* what it was sent and what it has read
    rivals      \* history: documents stored in its case since it began

caseTables == <<companies, cases, documents>>
requests == <<pc, request, rivals>>
vars == <<history, caseTables, objects, requests>>

Idle == [notice |-> None, company |-> None, baseline |-> None, current |-> None,
         seen |-> None, case |-> None, status |-> None, file |-> None,
         document |-> None, position |-> None]

Init ==
    /\ HistoryInit
    /\ companies = Company
    /\ cases = [k \in Case |-> None]
    /\ documents = [d \in Document |-> None]
    /\ objects = {}
    /\ pc = [r \in Request |-> "idle"]
    /\ request = [r \in Request |-> Idle]
    /\ rivals = [r \in Request |-> {}]

\* The request is answered, and its transaction, if any is left, rolled back.
Answer(r) ==
    /\ pc' = [pc EXCEPT ![r] = "idle"]
    /\ request' = [request EXCEPT ![r] = Idle]
    /\ rivals' = [rivals EXCEPT ![r] = {}]

Goto(r, label) == pc' = [pc EXCEPT ![r] = label] /\ UNCHANGED rivals

-----------------------------------------------------------------------------
(* Cases *)

\* create_preflight_case: the notice and the company are there; then the current
\* version is read, the one that is asked for or the one that is marked.
ReadCurrent(r) ==
    /\ pc[r] = "idle"
    /\ \E n \in Notice, c \in companies \cup {None} :
       \E o \in DOMAIN numbers[n] :
        request' = [request EXCEPT ![r] =
            [Idle EXCEPT !.notice = n, !.company = c, !.current = o, !.seen = numbers[n][o]]]
    /\ Goto(r, "baseline")
    /\ UNCHANGED <<history, caseTables, objects>>

\* A slip: the baseline may be the current version.
NotAfter(number, seen) == number <= seen

Precedes(number, seen) == number < seen

\* The baseline is read by its number, and must precede the current version.  Both are
\* objects of one session: a version that was read already keeps the number it had.
ReadBaseline(r) ==
    /\ pc[r] = "baseline"
    /\ LET q == request[r]
           numberOf(o) == IF o = q.current THEN q.seen ELSE numbers[q.notice][o]
       IN  \E o \in DOMAIN numbers[q.notice] \cup {None} :
            IF o = None \/ (o # None /\ Precedes(numberOf(o), q.seen))
            THEN /\ request' = [request EXCEPT ![r].baseline = o]
                 /\ Goto(r, "case")
            ELSE Answer(r)
    /\ UNCHANGED <<history, caseTables, objects>>

\* The insert; a company that has been deleted meanwhile is refused.
InsertCase(r) ==
    /\ pc[r] = "case"
    /\ LET q == request[r]
       IN  IF q.company \in companies \cup {None}
           THEN \E k \in Case :
                /\ cases[k] = None
                /\ cases' = [cases EXCEPT ![k] =
                       [notice |-> q.notice, company |-> q.company, baseline |-> q.baseline,
                        current |-> q.current, status |-> "DRAFT"]]
           ELSE UNCHANGED cases
    /\ Answer(r)
    /\ UNCHANGED <<history, companies, documents, objects>>

\* ON DELETE SET NULL.
LeftBy(k, c) ==
    IF cases[k] # None /\ cases[k].company = c
    THEN [cases[k] EXCEPT !.company = None] ELSE cases[k]

\* delete_company (routers/companies.py).
DeleteCompany(c) ==
    /\ c \in companies
    /\ companies' = companies \ {c}
    /\ cases' = [k \in Case |-> LeftBy(k, c)]
    /\ UNCHANGED <<history, documents, objects, requests>>

-----------------------------------------------------------------------------
(* Proposals *)

DocumentsOf(k) == {d \in Document : documents[d] # None /\ documents[d].case = k}
PositionsOf(k) == {documents[d].position : d \in DocumentsOf(k)}
FilesOf(k) == {documents[d].file : d \in DocumentsOf(k)}

\* The case is loaded; a file that it has already is refused (409).
BeginUpload(r) ==
    /\ pc[r] = "idle"
    /\ \E k \in Case, f \in File, d \in Document :
        /\ cases[k] # None /\ f \notin FilesOf(k)
        /\ documents[d] = None /\ d \notin objects
        /\ \A q \in Request : request[q].document # d
        /\ request' = [request EXCEPT ![r] =
               [Idle EXCEPT !.case = k, !.status = cases[k].status, !.file = f,
                            !.document = d]]
    /\ Goto(r, "position")
    /\ UNCHANGED <<history, caseTables, objects>>

NextPosition(S) ==
    IF S = {} THEN 0 ELSE (CHOOSE p \in S : \A q \in S : q <= p) + 1

ReadPosition(r) ==
    /\ pc[r] = "position"
    /\ request' = [request EXCEPT ![r].position = NextPosition(PositionsOf(request[r].case))]
    /\ Goto(r, "put")
    /\ UNCHANGED <<history, caseTables, objects>>

\* A slip: the object comes after the row.
PutLater(d) == UNCHANGED objects

Put(d) == objects' = objects \cup {d}

\* storage.put under a key of its own.
PutObject(r) ==
    /\ pc[r] = "put"
    /\ Put(request[r].document)
    /\ Goto(r, "insert")
    /\ UNCHANGED <<history, caseTables, request>>

Conflicts(q) == q.file \in FilesOf(q.case) \/ q.position \in PositionsOf(q.case)

\* The status is written if it differs from what was read.
StatusAfter(seen, status, extraction) ==
    IF extraction = "EXTRACTED" /\ seen # "READY" THEN "READY" ELSE status

\* Text is extracted, or not, and the row is inserted.
InsertDocument(r) ==
    /\ pc[r] = "insert"
    /\ LET q == request[r]
       IN  IF Conflicts(q)
           THEN /\ pc' = [pc EXCEPT ![r] = "refused"]
                /\ UNCHANGED <<cases, documents, request, rivals>>
           ELSE /\ \E x \in {"EXTRACTED", "EMPTY", "UNSUPPORTED", "FAILED"} :
                    /\ documents' = [documents EXCEPT ![q.document] =
                           [case |-> q.case, file |-> q.file, position |-> q.position,
                            extraction |-> x]]
                    /\ cases' = [cases EXCEPT ![q.case].status = StatusAfter(q.status, @, x)]
                /\ pc' = [pc EXCEPT ![r] = "idle"]
                /\ request' = [request EXCEPT ![r] = Idle]
                /\ rivals' = [p \in Request |->
                       IF p = r THEN {}
                       ELSE IF request[p].case = q.case THEN rivals[p] \cup {q.document}
                       ELSE rivals[p]]
    /\ UNCHANGED <<history, companies, objects>>

Report(r) ==
    /\ pc[r] = "refused"
    /\ Answer(r)
    /\ UNCHANGED <<history, caseTables, objects>>

\* The store fails, the client goes away, the process dies: there is no row.
Fail(r) ==
    /\ pc[r] \notin {"idle", "refused"}
    /\ Answer(r)
    /\ UNCHANGED <<history, caseTables, objects>>

Next ==
    \/ HistoryNext /\ UNCHANGED <<caseTables, objects, requests>>
    \/ \E r \in Request :
        \/ ReadCurrent(r) \/ ReadBaseline(r) \/ InsertCase(r)
        \/ BeginUpload(r) \/ ReadPosition(r) \/ PutObject(r) \/ InsertDocument(r)
        \/ Report(r) \/ Fail(r)
    \/ \E c \in Company : DeleteCompany(c)

Spec == Init /\ [][Next]_vars

-----------------------------------------------------------------------------
(* Properties *)

PreflightCase == [notice : Notice, company : Company \cup {None},
                  baseline : Orders \cup {None}, current : Orders,
                  status : {"DRAFT", "READY"}]
Proposal == [case : Case, file : File, position : Nat,
             extraction : {"EXTRACTED", "EMPTY", "UNSUPPORTED", "FAILED"}]

ASSUME RowsAssumption == None \notin PreflightCase \cup Proposal

\* The kinds of values the variables hold; references point to what is there.
TypeOK ==
    /\ numbers \in [Notice -> Histories]
    /\ current = [n \in Notice |-> LastOf(numbers[n])]
    /\ companies \subseteq Company
    /\ \A k \in Case : cases[k] # None =>
        /\ cases[k] \in PreflightCase
        /\ cases[k].company \in companies \cup {None}
        /\ {cases[k].current, cases[k].baseline} \subseteq DOMAIN numbers[cases[k].notice] \cup {None}
    /\ \A d \in Document : documents[d] # None =>
        documents[d] \in Proposal /\ cases[documents[d].case] # None
    /\ objects \subseteq Document
    /\ pc \in [Request -> {"idle", "baseline", "case", "position", "put", "insert", "refused"}]

\* A case never follows changes from a version to itself, although versions are
\* renumbered while it is created.
BaselineDiffers == \A k \in Case : cases[k] # None => cases[k].baseline # cases[k].current

\* Each document of a case can be opened: its object was stored first, and stays.
RowsHaveObjects == \A d \in Document : documents[d] # None => d \in objects

\* The documents of a case have the positions 0, 1, 2, ..., whoever uploads at the same
\* time and whichever uploads fail.
PositionsConsecutive ==
    \A k \in Case : PositionsOf(k) = 0..(Cardinality(DocumentsOf(k)) - 1)

\* A case is READY when and only when the text of some proposal is there.
ReadyWithText ==
    \A k \in Case : cases[k] # None =>
        (cases[k].status = "READY" <=>
            \E d \in DocumentsOf(k) : documents[d].extraction = "EXTRACTED")

\* What is stored of a case, after uploads that overlap and fail at any point.
CasesWhole == TypeOK /\ RowsHaveObjects /\ PositionsConsecutive /\ ReadyWithText

\* An upload is refused by the database only if another one to the same case came in
\* between: with nobody else around, what passes the checks is stored.
RefusedOnlyByRivals == \A r \in Request : pc[r] = "refused" => rivals[r] # {}

\* "The baseline must be an earlier version than the current one" (preflight_cases.py:89).
BaselineEarlier ==
    \A k \in Case : cases[k] # None /\ cases[k].baseline # None =>
        LET n == cases[k].notice
        IN  numbers[n][cases[k].baseline] < numbers[n][cases[k].current]
===============================================================================
