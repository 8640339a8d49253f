-------------------------- MODULE PreflightCasesProofs --------------------------
(***************************************************************************)
(* Theorems about PreflightCases, for any requests, companies, cases,      *)
(* documents, files, notices and orders.                                   *)
(***************************************************************************)
EXTENDS PreflightCases, FiniteSetTheorems, TLAPS

RequestRecord ==
    [notice : Notice \cup {None}, company : Company \cup {None},
     baseline : Orders \cup {None}, current : Orders \cup {None}, seen : Int \cup {None},
     case : Case \cup {None}, status : {"DRAFT", "READY", None}, file : File \cup {None},
     document : Document \cup {None}, position : Nat \cup {None}]

Uploads == {"position", "put", "insert", "refused"}

\* What a request has read of the versions of which it makes a case.
CreationOK(r) ==
    LET q == request[r]
    IN  /\ pc[r] \in {"baseline", "case"} =>
            /\ q.notice \in Notice /\ q.current \in DOMAIN numbers[q.notice] /\ q.seen \in Int
        /\ pc[r] = "case" =>
            /\ q.baseline \in DOMAIN numbers[q.notice] \cup {None}
            /\ q.baseline # q.current

\* What a request knows of its case.  The position that it has read was the next one then;
\* by now the case may have more documents, but never fewer, and it stays READY.
UploadOK(r) ==
    LET q == request[r]
    IN  /\ pc[r] \in Uploads =>
            /\ q.case \in Case /\ cases[q.case] # None
            /\ q.file \in File /\ q.document \in Document /\ documents[q.document] = None
            /\ q.status = "READY" => cases[q.case].status = "READY"
        /\ pc[r] \in {"put", "insert"} => q.position \in 0..Cardinality(DocumentsOf(q.case))
        /\ pc[r] = "insert" => q.document \in objects

\* No two requests have the same document.
DocumentsApart ==
    \A r, s \in Request : r # s /\ request[r].document # None =>
        request[r].document # request[s].document

DocumentsFinite == \A k \in Case : IsFiniteSet(DocumentsOf(k))

IInv ==
    /\ CasesWhole /\ BaselineDiffers
    /\ DocumentsFinite
    /\ DOMAIN numbers = Notice /\ DOMAIN cases = Case /\ DOMAIN documents = Document
    /\ request \in [Request -> RequestRecord]
    /\ pc \in [Request -> {"idle", "baseline", "case"} \cup Uploads]
    /\ \A r \in Request : CreationOK(r) /\ UploadOK(r)
    /\ DocumentsApart

-----------------------------------------------------------------------------
(* The versions *)

LEMMA OrdersFinite ==
    ASSUME NEW S \in SUBSET Orders PROVE IsFiniteSet(S) /\ Cardinality(S) \in Nat
<1>1. IsFiniteSet(Orders)
  BY CasesAssumption, FS_Interval DEF Orders
<1> QED BY <1>1, FS_Subset, FS_CardinalityType

\* Orders put in order have the numbers 1, 2, ...
LEMMA InOrderNumbers == ASSUME NEW S \in SUBSET Orders PROVE InOrder(S) \in Histories
<1> DEFINE upto(o) == {q \in S : q <= o}
<1>1. IsFiniteSet(S) /\ \A o \in S : o \in Int
  BY OrdersFinite DEF Orders
<1>2. ASSUME NEW o \in S
      PROVE  IsFiniteSet(upto(o)) /\ Cardinality(upto(o)) \in 1..Cardinality(S)
  <2>1. upto(o) \in SUBSET S /\ o \in upto(o)
    BY <1>1
  <2>2. IsFiniteSet(upto(o)) /\ Cardinality(upto(o)) <= Cardinality(S)
    BY <1>1, <2>1, FS_Subset
  <2>3. Cardinality(upto(o)) \in Nat \ {0} /\ Cardinality(S) \in Nat
    BY <1>1, <2>1, <2>2, FS_CardinalityType, FS_EmptySet
  <2> QED BY <2>2, <2>3
<1>3. ASSUME NEW o \in S, NEW q \in S, Cardinality(upto(o)) = Cardinality(upto(q))
      PROVE  o = q
  <2>1. upto(o) \subseteq upto(q) \/ upto(q) \subseteq upto(o)
    BY <1>1
  <2>2. upto(o) = upto(q)
    <3>1. IsFiniteSet(upto(o)) /\ IsFiniteSet(upto(q))
      BY <1>2
    <3> HIDE DEF upto
    <3> QED BY <1>3, <2>1, <3>1, FS_Subset
  <2>3. o \in upto(q) /\ q \in upto(o)
    BY <1>1, <2>2
  <2> QED BY <1>1, <2>3
<1>4. InOrder(S) = [o \in S |-> Cardinality(upto(o))]
  BY DEF InOrder
<1> HIDE DEF upto
<1>5. InOrder(S) \in Numberings(S)
  BY <1>2, <1>3, <1>4 DEF Numberings
<1> QED BY <1>5 DEF Histories

\* Collection keeps the versions of NoticeHistory as such and loses none.
LEMMA CollectionKeeps ==
    ASSUME IInv, HistoryNext
    PROVE  /\ numbers' \in [Notice -> Histories]
           /\ current' = [n \in Notice |-> LastOf(numbers'[n])]
           /\ \A n \in Notice : DOMAIN numbers[n] \subseteq DOMAIN numbers'[n]
<1>1. numbers \in [Notice -> Histories] /\ current = [n \in Notice |-> LastOf(numbers[n])]
  BY DEF IInv, CasesWhole, TypeOK
<1>2. CASE Grow
  BY <1>2 DEF Grow, Extends
<1>3. ASSUME NEW n \in Notice, Renumber(n)
      PROVE  /\ numbers' \in [Notice -> Histories]
             /\ current' = [m \in Notice |-> LastOf(numbers'[m])]
             /\ \A m \in Notice : DOMAIN numbers[m] \subseteq DOMAIN numbers'[m]
  <2>1. PICK S \in SUBSET Orders :
            DOMAIN numbers[n] \subseteq S /\ numbers' = [numbers EXCEPT ![n] = InOrder(S)]
    BY <1>3 DEF Renumber
  <2>2. InOrder(S) \in Histories /\ DOMAIN InOrder(S) = S
    BY InOrderNumbers DEF InOrder
  <2>3. numbers' \in [Notice -> Histories] /\ numbers'[n] = InOrder(S)
        /\ \A m \in Notice \ {n} : numbers'[m] = numbers[m]
    BY <1>1, <2>1, <2>2
  <2>4. current' = [m \in Notice |-> LastOf(numbers'[m])]
    BY <1>1, <1>3, <2>3 DEF Renumber
  <2> QED BY <2>1, <2>2, <2>3, <2>4
<1> QED BY <1>2, <1>3 DEF HistoryNext

-----------------------------------------------------------------------------
(* Steps of a request that change no table *)

LEMMA RequestFacts ==
    ASSUME IInv, NEW r \in Request
    PROVE  /\ request[r] \in RequestRecord /\ DOMAIN request = Request /\ DOMAIN pc = Request
           /\ CreationOK(r) /\ UploadOK(r) /\ TypeOK
           /\ numbers \in [Notice -> Histories]
  BY DEF IInv, CasesWhole, TypeOK

LEMMA IdleType ==
    Idle \in RequestRecord /\ Idle.document = None
  BY DEF Idle, RequestRecord

\* What the requests rely on.
TablesGrow ==
    /\ \A n \in Notice : DOMAIN numbers[n] \subseteq DOMAIN numbers'[n]
    /\ \A k \in Case : cases[k] # None =>
           cases'[k] # None /\ (cases[k].status = "READY" => cases'[k].status = "READY")
    /\ objects \subseteq objects'
    /\ \A k \in Case : DocumentsOf(k) \subseteq DocumentsOf(k)' /\ IsFiniteSet(DocumentsOf(k)')

\* A request stands where it stood, or knows as much and is about to be answered.
LEMMA RequestStill ==
    ASSUME IInv, TablesGrow, NEW r \in Request, request'[r] = request[r], pc'[r] = pc[r],
           pc[r] \in Uploads => documents'[request[r].document] = None
    PROVE  CreationOK(r)' /\ UploadOK(r)'
<1>1. CreationOK(r) /\ UploadOK(r)
  BY RequestFacts
<1>2. CreationOK(r)'
  BY <1>1 DEF CreationOK, TablesGrow
<1>3. UploadOK(r)'
  <2> DEFINE k == request[r].case
  <2>1. CASE pc[r] \in {"put", "insert"}
    <3>1. k \in Case /\ request[r].position \in 0..Cardinality(DocumentsOf(k))
      BY <1>1, <2>1 DEF UploadOK, Uploads
    <3>2. /\ IsFiniteSet(DocumentsOf(k)) /\ IsFiniteSet(DocumentsOf(k)')
          /\ DocumentsOf(k) \in SUBSET (DocumentsOf(k)')
      BY <3>1 DEF TablesGrow, IInv, DocumentsFinite
    <3>3. /\ Cardinality(DocumentsOf(k)) <= Cardinality(DocumentsOf(k)')
          /\ Cardinality(DocumentsOf(k)) \in Nat /\ Cardinality(DocumentsOf(k)') \in Nat
      BY <3>2, FS_Subset, FS_CardinalityType
    <3>4. request[r].position \in 0..Cardinality(DocumentsOf(k)')
      BY <3>1, <3>3
    <3> QED BY <1>1, <2>1, <3>4 DEF UploadOK, TablesGrow, Uploads
  <2>2. CASE pc[r] \notin {"put", "insert"}
    BY <1>1, <2>2 DEF UploadOK, TablesGrow
  <2> QED BY <2>1, <2>2
<1> QED BY <1>2, <1>3

LEMMA RequestStep ==
    ASSUME IInv, NEW r \in Request, NEW q \in RequestRecord,
           NEW label \in {"idle", "baseline", "case"} \cup Uploads,
           request' = [request EXCEPT ![r] = q], pc' = [pc EXCEPT ![r] = label],
           UNCHANGED <<history, companies, cases, documents>>,
           objects \subseteq objects', objects' \subseteq Document,
           CreationOK(r)', UploadOK(r)',
           \/ q.document \in {None, request[r].document}
           \/ \A p \in Request : request[p].document # q.document
    PROVE  IInv'
<1>1. UNCHANGED <<numbers, current, companies, cases, documents>>
  BY DEF history
<1>2. /\ request' \in [Request -> RequestRecord] /\ request'[r] = q
      /\ pc' \in [Request -> {"idle", "baseline", "case"} \cup Uploads]
      /\ \A p \in Request \ {r} : request'[p] = request[p] /\ pc'[p] = pc[p]
  BY DEF IInv
<1>3. \A k \in Case : UNCHANGED <<DocumentsOf(k), PositionsOf(k)>>
  BY <1>1 DEF DocumentsOf, PositionsOf
<1>4. TablesGrow /\ DocumentsFinite' /\ BaselineDiffers'
  BY <1>1, <1>3 DEF TablesGrow, IInv, DocumentsFinite, BaselineDiffers
<1>5. ASSUME NEW p \in Request PROVE CreationOK(p)' /\ UploadOK(p)'
  <2>1. CASE p # r
    <3>1. pc[p] \in Uploads => documents'[request[p].document] = None
      BY <1>1, RequestFacts DEF UploadOK
    <3> QED BY <1>2, <1>4, <2>1, <3>1, RequestStill
  <2> QED BY <2>1
<1>6. DocumentsApart'
  BY <1>2 DEF IInv, DocumentsApart
<1>7. CasesWhole'
  <2>1. TypeOK'
    BY <1>1, <1>2 DEF IInv, CasesWhole, TypeOK, Uploads
  <2>2. RowsHaveObjects'
    BY <1>1 DEF IInv, CasesWhole, RowsHaveObjects
  <2>3. PositionsConsecutive' /\ ReadyWithText'
    BY <1>1, <1>3 DEF IInv, CasesWhole, PositionsConsecutive, ReadyWithText
  <2> QED BY <2>1, <2>2, <2>3 DEF CasesWhole
<1> QED BY <1>1, <1>2, <1>4, <1>5, <1>6, <1>7 DEF IInv

\* A request is answered.
LEMMA Answered ==
    ASSUME IInv, NEW r \in Request, Answer(r), UNCHANGED <<history, caseTables, objects>>
    PROVE  IInv'
<1>1. request' = [request EXCEPT ![r] = Idle] /\ pc' = [pc EXCEPT ![r] = "idle"]
      /\ UNCHANGED <<companies, cases, documents>>
  BY DEF Answer, caseTables
<1>2. pc'[r] = "idle"
  BY <1>1, RequestFacts
<1>3. CreationOK(r)' /\ UploadOK(r)'
  BY <1>2 DEF CreationOK, UploadOK, Uploads
<1>4. objects \subseteq Document
  BY RequestFacts DEF TypeOK
<1> QED BY <1>1, <1>3, <1>4, IdleType, RequestStep

-----------------------------------------------------------------------------
(* Cases *)

LEMMA ReadCurrentOK ==
    ASSUME IInv, NEW r \in Request, ReadCurrent(r) PROVE IInv'
<1>1. PICK n \in Notice, c \in companies \cup {None} :
          \E o \in DOMAIN numbers[n] :
              request' = [request EXCEPT ![r] =
                  [Idle EXCEPT !.notice = n, !.company = c, !.current = o, !.seen = numbers[n][o]]]
  BY DEF ReadCurrent
<1>2. PICK o \in DOMAIN numbers[n] :
          request' = [request EXCEPT ![r] =
              [Idle EXCEPT !.notice = n, !.company = c, !.current = o, !.seen = numbers[n][o]]]
  BY <1>1
<1> DEFINE q == [Idle EXCEPT !.notice = n, !.company = c, !.current = o, !.seen = numbers[n][o]]
<1>3. o \in Orders /\ numbers[n][o] \in Int
  <2>1. PICK S \in SUBSET Orders : numbers[n] \in Numberings(S)
    BY RequestFacts DEF Histories
  <2>2. numbers[n] \in [S -> 1..Cardinality(S)]
    BY <2>1 DEF Numberings
  <2> QED BY <2>2
<1>4. c \in Company \cup {None}
  BY RequestFacts DEF TypeOK
<1>5. /\ q \in RequestRecord /\ q.document = None
      /\ q.notice = n /\ q.current = o /\ q.seen = numbers[n][o]
  BY <1>3, <1>4 DEF Idle, RequestRecord
<1> HIDE DEF q
<1>6. /\ request' = [request EXCEPT ![r] = q] /\ pc' = [pc EXCEPT ![r] = "baseline"]
      /\ UNCHANGED <<history, companies, cases, documents, objects>>
  BY <1>2 DEF ReadCurrent, Goto, caseTables, q
<1>7. request'[r] = q /\ pc'[r] = "baseline" /\ UNCHANGED numbers
  BY <1>6, RequestFacts DEF history
<1>8. CreationOK(r)' /\ UploadOK(r)'
  BY <1>3, <1>5, <1>7 DEF CreationOK, UploadOK, Uploads
<1>9. objects \subseteq Document
  BY RequestFacts DEF TypeOK
<1> QED BY <1>5, <1>6, <1>8, <1>9, RequestStep

\* The version that is current keeps the number with which it was read, so it does not
\* precede itself, whatever its number is by now.
LEMMA ReadBaselineOK ==
    ASSUME IInv, NEW r \in Request, ReadBaseline(r) PROVE IInv'
<1> DEFINE q == request[r]
           numberOf(o) == IF o = q.current THEN q.seen ELSE numbers[q.notice][o]
<1>1. /\ pc[r] = "baseline" /\ q.notice \in Notice /\ q.current \in DOMAIN numbers[q.notice]
      /\ q.seen \in Int
  BY RequestFacts DEF ReadBaseline, CreationOK
<1>2. PICK o \in DOMAIN numbers[q.notice] \cup {None} :
          IF o = None \/ (o # None /\ Precedes(numberOf(o), q.seen))
          THEN request' = [request EXCEPT ![r].baseline = o] /\ Goto(r, "case")
          ELSE Answer(r)
  BY DEF ReadBaseline
<1>3. UNCHANGED <<history, caseTables, objects>>
  BY DEF ReadBaseline
<1>4. CASE o = None \/ (o # None /\ Precedes(numberOf(o), q.seen))
  <2> DEFINE x == [q EXCEPT !.baseline = o]
  <2>1. DOMAIN numbers[q.notice] \subseteq Orders
    BY <1>1, RequestFacts DEF Histories, Numberings
  <2>2. o # q.current
    BY <1>1, <1>4, <2>1, CasesAssumption DEF Precedes
  <2>3. request' = [request EXCEPT ![r] = x] /\ pc' = [pc EXCEPT ![r] = "case"]
    BY <1>2, <1>4, RequestFacts DEF Goto
  <2>4. /\ x \in RequestRecord /\ x.baseline = o /\ x.document = q.document
        /\ x.notice = q.notice /\ x.current = q.current /\ x.seen = q.seen
    BY <2>1, RequestFacts DEF RequestRecord
  <2> HIDE DEF x
  <2>5. request'[r] = x /\ pc'[r] = "case" /\ UNCHANGED numbers
    BY <1>3, <2>3, RequestFacts DEF history
  <2>6. CreationOK(r)' /\ UploadOK(r)'
    BY <1>1, <2>2, <2>4, <2>5 DEF CreationOK, UploadOK, Uploads
  <2>7. objects \subseteq Document
    BY RequestFacts DEF TypeOK
  <2> QED BY <1>3, <2>3, <2>4, <2>6, <2>7, RequestStep DEF caseTables
<1>5. CASE ~(o = None \/ (o # None /\ Precedes(numberOf(o), q.seen)))
  <2>1. Answer(r)
    BY <1>2, <1>5
  <2> QED BY <1>3, <2>1, Answered
<1> QED BY <1>4, <1>5

\* A step that changes rows of cases, but no document and no version.
LEMMA CasesStep ==
    ASSUME IInv, UNCHANGED <<numbers, current, documents, objects>>,
           companies' \subseteq Company, DOMAIN cases' = Case,
           \A k \in Case : cases'[k] # None =>
               /\ cases'[k] \in PreflightCase
               /\ cases'[k].company \in companies' \cup {None}
               /\ \/ /\ cases[k] # None
                     /\ cases'[k].notice = cases[k].notice
                     /\ cases'[k].baseline = cases[k].baseline
                     /\ cases'[k].current = cases[k].current
                     /\ cases'[k].status = cases[k].status
                  \/ /\ cases[k] = None /\ cases'[k].status = "DRAFT"
                     /\ {cases'[k].current, cases'[k].baseline} \subseteq
                            DOMAIN numbers[cases'[k].notice] \cup {None}
                     /\ cases'[k].baseline # cases'[k].current,
           \A k \in Case : cases[k] # None => cases'[k] # None,
           request' \in [Request -> RequestRecord],
           pc' \in [Request -> {"idle", "baseline", "case"} \cup Uploads],
           \A r \in Request : \/ request'[r] = request[r] /\ pc'[r] = pc[r]
                              \/ request'[r] = Idle /\ pc'[r] = "idle"
    PROVE  IInv'
<1>1. \A k \in Case : UNCHANGED <<DocumentsOf(k), PositionsOf(k)>>
  BY DEF DocumentsOf, PositionsOf
<1>2. TablesGrow /\ DocumentsFinite'
  BY <1>1 DEF TablesGrow, IInv, DocumentsFinite
<1>3. BaselineDiffers'
  BY DEF IInv, BaselineDiffers
<1>4. TypeOK'
  <2>1. \A k \in Case : cases'[k] # None =>
            {cases'[k].current, cases'[k].baseline} \subseteq
                DOMAIN numbers[cases'[k].notice] \cup {None}
    BY DEF IInv, CasesWhole, TypeOK
  <2>2. \A d \in Document : documents[d] # None =>
            documents[d] \in Proposal /\ cases'[documents[d].case] # None
    BY DEF IInv, CasesWhole, TypeOK, Proposal
  <2> QED BY <2>1, <2>2 DEF IInv, CasesWhole, TypeOK, Uploads
<1>5. RowsHaveObjects' /\ PositionsConsecutive'
  BY <1>1 DEF IInv, CasesWhole, RowsHaveObjects, PositionsConsecutive
<1>6. ReadyWithText'
  <2> SUFFICES ASSUME NEW k \in Case, cases'[k] # None
               PROVE  cases'[k].status = "READY" <=>
                          \E d \in DocumentsOf(k) : documents[d].extraction = "EXTRACTED"
    BY <1>1 DEF ReadyWithText
  <2>1. CASE cases[k] # None
    BY <2>1 DEF IInv, CasesWhole, ReadyWithText
  <2>2. CASE cases[k] = None
    <3>1. DocumentsOf(k) = {}
      BY <2>2 DEF IInv, CasesWhole, TypeOK, DocumentsOf
    <3> QED BY <2>2, <3>1
  <2> QED BY <2>1, <2>2
<1>7. ASSUME NEW r \in Request PROVE CreationOK(r)' /\ UploadOK(r)'
  <2>1. CASE request'[r] = request[r] /\ pc'[r] = pc[r]
    <3>1. pc[r] \in Uploads => documents'[request[r].document] = None
      BY RequestFacts DEF UploadOK
    <3> QED BY <1>2, <2>1, <3>1, RequestStill
  <2>2. CASE pc'[r] = "idle"
    BY <2>2 DEF CreationOK, UploadOK, Uploads
  <2> QED BY <2>1, <2>2
<1>8. DocumentsApart'
  BY IdleType DEF IInv, DocumentsApart
<1> QED BY <1>2, <1>3, <1>4, <1>5, <1>6, <1>7, <1>8 DEF IInv, CasesWhole

LEMMA InsertCaseOK ==
    ASSUME IInv, NEW r \in Request, InsertCase(r) PROVE IInv'
<1> DEFINE q == request[r]
<1>1. /\ Answer(r) /\ UNCHANGED <<history, companies, documents, objects>> /\ pc[r] = "case"
  BY DEF InsertCase
<1>2. CASE q.company \notin companies \cup {None}
  BY <1>1, <1>2, Answered DEF InsertCase, caseTables
<1>3. CASE q.company \in companies \cup {None}
  <2> DEFINE row == [notice |-> q.notice, company |-> q.company, baseline |-> q.baseline,
                     current |-> q.current, status |-> "DRAFT"]
  <2>1. PICK k \in Case : cases[k] = None /\ cases' = [cases EXCEPT ![k] = row]
    BY <1>3 DEF InsertCase
  <2>2. /\ q.notice \in Notice /\ q.current \in DOMAIN numbers[q.notice]
        /\ q.baseline \in DOMAIN numbers[q.notice] \cup {None} /\ q.baseline # q.current
        /\ DOMAIN numbers[q.notice] \subseteq Orders
    BY <1>1, RequestFacts DEF CreationOK, Histories, Numberings
  <2>3. /\ row \in PreflightCase /\ row.company = q.company /\ row.status = "DRAFT"
        /\ row.notice = q.notice /\ row.baseline = q.baseline /\ row.current = q.current
    BY <2>2, RequestFacts DEF PreflightCase, RequestRecord
  <2> HIDE DEF row
  <2>4. cases'[k] = row /\ \A j \in Case \ {k} : cases'[j] = cases[j]
    BY <2>1 DEF IInv
  <2>5. /\ request' \in [Request -> RequestRecord]
        /\ pc' \in [Request -> {"idle", "baseline", "case"} \cup Uploads]
        /\ \A p \in Request : \/ request'[p] = request[p] /\ pc'[p] = pc[p]
                              \/ request'[p] = Idle /\ pc'[p] = "idle"
    BY <1>1, IdleType DEF IInv, Answer
  <2>6. UNCHANGED <<numbers, current, companies, documents, objects>> /\ DOMAIN cases' = Case
    BY <1>1, <2>1 DEF history, IInv
  <2>7. ASSUME NEW j \in Case, j # k, cases'[j] # None
        PROVE  /\ cases'[j] \in PreflightCase /\ cases'[j].company \in companies' \cup {None}
               /\ cases[j] # None /\ cases'[j] = cases[j]
    BY <2>4, <2>6, <2>7, RequestFacts DEF TypeOK
  <2>8. companies' \subseteq Company
    BY <2>6, RequestFacts DEF TypeOK
  <2> QED BY <1>3, <2>1, <2>2, <2>3, <2>4, <2>5, <2>6, <2>7, <2>8, CasesStep
<1> QED BY <1>2, <1>3

LEMMA DeleteCompanyOK ==
    ASSUME IInv, NEW c \in Company, DeleteCompany(c) PROVE IInv'
<1>1. /\ UNCHANGED <<numbers, current, documents, objects, pc, request>>
      /\ companies' = companies \ {c} /\ cases' = [k \in Case |-> LeftBy(k, c)]
  BY DEF DeleteCompany, history, requests
<1>2. ASSUME NEW k \in Case, cases[k] # None
      PROVE  /\ cases'[k] \in PreflightCase /\ cases'[k].company \in companies' \cup {None}
             /\ cases'[k].notice = cases[k].notice /\ cases'[k].baseline = cases[k].baseline
             /\ cases'[k].current = cases[k].current /\ cases'[k].status = cases[k].status
  <2>1. cases[k] \in PreflightCase /\ cases[k].company \in companies \cup {None}
    BY <1>2 DEF IInv, CasesWhole, TypeOK
  <2>2. CASE cases[k].company = c
    <3> DEFINE x == [cases[k] EXCEPT !.company = None]
    <3>1. cases'[k] = x
      BY <1>1, <1>2, <2>2 DEF LeftBy
    <3>2. /\ x \in PreflightCase /\ x.company = None
          /\ x.notice = cases[k].notice /\ x.baseline = cases[k].baseline
          /\ x.current = cases[k].current /\ x.status = cases[k].status
      BY <2>1 DEF PreflightCase
    <3> HIDE DEF x
    <3> QED BY <3>1, <3>2
  <2>3. CASE cases[k].company # c
    BY <1>1, <2>1, <2>3 DEF LeftBy
  <2> QED BY <2>2, <2>3
<1>3. \A k \in Case : cases[k] # None <=> cases'[k] # None
  <2>1. \A k \in Case : cases[k] = None => cases'[k] = None
    BY <1>1 DEF LeftBy
  <2>2. \A k \in Case : cases[k] # None => cases'[k] # None
    BY <1>2, RowsAssumption
  <2> QED BY <2>1, <2>2
<1>4. companies' \subseteq Company /\ DOMAIN cases' = Case
  BY <1>1 DEF IInv, CasesWhole, TypeOK
<1>5. /\ request' \in [Request -> RequestRecord]
      /\ pc' \in [Request -> {"idle", "baseline", "case"} \cup Uploads]
  BY <1>1 DEF IInv
<1> QED BY <1>1, <1>2, <1>3, <1>4, <1>5, CasesStep

-----------------------------------------------------------------------------
(* Proposals *)

LEMMA BeginUploadOK ==
    ASSUME IInv, NEW r \in Request, BeginUpload(r) PROVE IInv'
<1>1. PICK k \in Case, f \in File, d \in Document :
          /\ cases[k] # None /\ documents[d] = None
          /\ \A p \in Request : request[p].document # d
          /\ request' = [request EXCEPT ![r] =
                 [Idle EXCEPT !.case = k, !.status = cases[k].status, !.file = f,
                              !.document = d]]
  BY DEF BeginUpload
<1> DEFINE q == [Idle EXCEPT !.case = k, !.status = cases[k].status, !.file = f,
                             !.document = d]
<1>2. cases[k].status \in {"DRAFT", "READY"}
  BY <1>1, RequestFacts DEF TypeOK, PreflightCase
<1>3. /\ q \in RequestRecord
      /\ q.case = k /\ q.status = cases[k].status /\ q.file = f /\ q.document = d
  BY <1>2 DEF Idle, RequestRecord
<1> HIDE DEF q
<1>4. /\ request' = [request EXCEPT ![r] = q] /\ pc' = [pc EXCEPT ![r] = "position"]
      /\ UNCHANGED <<history, companies, cases, documents, objects>>
  BY <1>1 DEF BeginUpload, Goto, caseTables, q
<1>5. request'[r] = q /\ pc'[r] = "position"
  BY <1>4, RequestFacts
<1>6. CreationOK(r)' /\ UploadOK(r)'
  BY <1>1, <1>3, <1>4, <1>5 DEF CreationOK, UploadOK, Uploads
<1>7. objects \subseteq Document
  BY RequestFacts DEF TypeOK
<1> QED BY <1>1, <1>3, <1>4, <1>6, <1>7, RequestStep DEF Uploads

\* The position after the last is the number of documents.
LEMMA NextIsCount ==
    ASSUME IInv, NEW k \in Case
    PROVE  /\ NextPosition(PositionsOf(k)) = Cardinality(DocumentsOf(k))
           /\ Cardinality(DocumentsOf(k)) \in Nat
<1> DEFINE c == Cardinality(DocumentsOf(k))
           S == PositionsOf(k)
<1>1. c \in Nat /\ S = 0..(c - 1)
  BY FS_CardinalityType DEF IInv, DocumentsFinite, CasesWhole, PositionsConsecutive
<1> HIDE DEF c, S
<1>2. ASSUME c = 0 PROVE NextPosition(S) = c
  BY <1>1, <1>2 DEF NextPosition
<1>3. ASSUME c # 0 PROVE NextPosition(S) = c
  <2>1. S # {} /\ c - 1 \in S /\ \A p \in S : p \in Int /\ p <= c - 1
    BY <1>1, <1>3
  <2> DEFINE last == CHOOSE p \in S : \A q \in S : q <= p
  <2>2. NextPosition(S) = last + 1 /\ last \in S /\ \A q \in S : q <= last
    BY <2>1 DEF NextPosition
  <2> HIDE DEF last
  <2>3. last = c - 1
    BY <1>1, <2>1, <2>2
  <2> QED BY <1>1, <2>2, <2>3
<1>4. NextPosition(S) = c /\ c \in Nat
  BY <1>1, <1>2, <1>3
<1> QED BY <1>4 DEF c, S

LEMMA ReadPositionOK ==
    ASSUME IInv, NEW r \in Request, ReadPosition(r) PROVE IInv'
<1> DEFINE k == request[r].case
           count == Cardinality(DocumentsOf(k))
           q == [request[r] EXCEPT !.position = count]
<1>1. pc[r] = "position" /\ k \in Case /\ UploadOK(r)
  BY RequestFacts DEF ReadPosition, UploadOK, Uploads
<1>2. count \in Nat /\ NextPosition(PositionsOf(k)) = count
  BY <1>1, NextIsCount
<1>3. \A j \in Case : DocumentsOf(j)' = DocumentsOf(j)
  BY DEF ReadPosition, caseTables, DocumentsOf
<1>4. /\ q \in RequestRecord /\ q.position = count
      /\ q.case = request[r].case /\ q.status = request[r].status
      /\ q.file = request[r].file /\ q.document = request[r].document
  BY <1>2, RequestFacts DEF RequestRecord
<1>5. request' = [request EXCEPT ![r] = q] /\ pc' = [pc EXCEPT ![r] = "put"]
      /\ UNCHANGED <<history, companies, cases, documents, objects>>
  BY <1>2, RequestFacts DEF ReadPosition, Goto, caseTables
<1> HIDE DEF q
<1>6. request'[r] = q /\ pc'[r] = "put"
  BY <1>5, RequestFacts
<1>7. CreationOK(r)'
  BY <1>6 DEF CreationOK
<1>8. UploadOK(r)'
  <2>1. request'[r].case \in Case /\ DocumentsOf(request[r].case)' = DocumentsOf(k)
    BY <1>1, <1>3, <1>4, <1>6
  <2>2. request'[r].position \in 0..Cardinality(DocumentsOf(request[r].case)')
    BY <1>2, <1>4, <1>6, <2>1
  <2> QED BY <1>1, <1>4, <1>5, <1>6, <2>2 DEF UploadOK, Uploads
<1>9. objects \subseteq Document
  BY RequestFacts DEF TypeOK
<1> QED BY <1>4, <1>5, <1>7, <1>8, <1>9, RequestStep DEF Uploads

LEMMA PutObjectOK ==
    ASSUME IInv, NEW r \in Request, PutObject(r) PROVE IInv'
<1> DEFINE q == request[r]
<1>1. /\ pc[r] = "put" /\ UploadOK(r) /\ objects' = objects \cup {q.document}
      /\ UNCHANGED <<history, companies, cases, documents, request>>
      /\ pc' = [pc EXCEPT ![r] = "insert"]
  BY RequestFacts DEF PutObject, Put, Goto, caseTables
<1>2. q \in RequestRecord /\ request' = [request EXCEPT ![r] = q]
  BY <1>1 DEF IInv
<1>3. pc'[r] = "insert"
  BY <1>1, RequestFacts
<1>4. CreationOK(r)'
  BY <1>3 DEF CreationOK
<1>5. UploadOK(r)'
  <2>1. UNCHANGED DocumentsOf(q.case)
    BY <1>1 DEF DocumentsOf
  <2>2. q.document \in objects'
    BY <1>1
  <2> QED BY <1>1, <1>3, <2>1, <2>2 DEF UploadOK, Uploads
<1>6. objects \subseteq objects' /\ objects' \subseteq Document
  BY <1>1, RequestFacts DEF TypeOK, UploadOK, Uploads
<1> QED BY <1>1, <1>2, <1>4, <1>5, <1>6, RequestStep DEF Uploads

\* The row is inserted: it takes the position that was read if nobody took it meanwhile,
\* and then that is still the next one.
LEMMA DocumentInserted ==
    ASSUME IInv, NEW r \in Request, NEW q, q = request[r], pc[r] = "insert", ~Conflicts(q),
           NEW x \in {"EXTRACTED", "EMPTY", "UNSUPPORTED", "FAILED"},
           documents' = [documents EXCEPT ![q.document] =
               [case |-> q.case, file |-> q.file,
                position |-> q.position, extraction |-> x]],
           cases' = [cases EXCEPT ![q.case].status = StatusAfter(q.status, @, x)],
           pc' = [pc EXCEPT ![r] = "idle"], request' = [request EXCEPT ![r] = Idle],
           UNCHANGED <<history, companies, objects>>
    PROVE  IInv'
<1> DEFINE k == q.case
           d == q.document
           c == Cardinality(DocumentsOf(k))
           row == [case |-> k, file |-> q.file, position |-> q.position, extraction |-> x]
           status == StatusAfter(q.status, cases[k].status, x)
           new == [cases[k] EXCEPT !.status = status]
<1>1. /\ k \in Case /\ cases[k] # None /\ q.file \in File
      /\ d \in Document /\ documents[d] = None /\ d \in objects
      /\ q.status = "READY" => cases[k].status = "READY"
      /\ q.position \in 0..c
  BY RequestFacts DEF UploadOK, Uploads
<1>2. /\ IsFiniteSet(DocumentsOf(k)) /\ c \in Nat /\ PositionsOf(k) = 0..(c - 1)
  BY <1>1, FS_CardinalityType DEF IInv, DocumentsFinite, CasesWhole, PositionsConsecutive
<1>3. q.position = c
  BY <1>1, <1>2 DEF Conflicts
<1>4. /\ row \in Proposal /\ row # None /\ row.case = k /\ row.position = c
      /\ row.extraction = x
  BY <1>1, <1>2, <1>3, RowsAssumption DEF Proposal
<1>5. /\ cases[k] \in PreflightCase /\ cases[k].company \in companies \cup {None}
      /\ {cases[k].current, cases[k].baseline} \subseteq
             DOMAIN numbers[cases[k].notice] \cup {None}
  BY <1>1, RequestFacts DEF TypeOK
<1>6. /\ status \in {"DRAFT", "READY"}
      /\ status = "READY" <=> cases[k].status = "READY" \/ x = "EXTRACTED"
  BY <1>1, <1>5 DEF StatusAfter, PreflightCase
<1>7. /\ new \in PreflightCase /\ new.status = status /\ new.company = cases[k].company
      /\ new.notice = cases[k].notice /\ new.baseline = cases[k].baseline
      /\ new.current = cases[k].current
  BY <1>5, <1>6 DEF PreflightCase
<1>8. /\ DOMAIN documents' = Document /\ documents'[d] = row
      /\ \A e \in Document \ {d} : documents'[e] = documents[e]
  BY <1>1, <1>3 DEF IInv
<1>9. /\ DOMAIN cases' = Case /\ cases'[k] = new
      /\ \A j \in Case \ {k} : cases'[j] = cases[j]
  BY <1>1 DEF IInv
<1> HIDE DEF row, new, status
<1>10. /\ request' \in [Request -> RequestRecord] /\ request'[r] = Idle
       /\ pc' \in [Request -> {"idle", "baseline", "case"} \cup Uploads] /\ pc'[r] = "idle"
       /\ \A p \in Request \ {r} : request'[p] = request[p] /\ pc'[p] = pc[p]
  BY IdleType DEF IInv
<1>11. UNCHANGED <<numbers, current, companies, objects>>
  BY DEF history
<1>12. new # None
  BY <1>7, RowsAssumption
<1>13. DocumentsOf(k)' = DocumentsOf(k) \cup {d} /\ d \notin DocumentsOf(k)
  BY <1>1, <1>4, <1>8 DEF DocumentsOf
<1>14. \A j \in Case \ {k} : DocumentsOf(j)' = DocumentsOf(j)
  BY <1>1, <1>4, <1>8 DEF DocumentsOf
<1>15. IsFiniteSet(DocumentsOf(k)') /\ Cardinality(DocumentsOf(k)') = c + 1
  <2>1. /\ IsFiniteSet(DocumentsOf(k) \cup {d})
        /\ Cardinality(DocumentsOf(k) \cup {d}) = c + 1
    BY <1>2, <1>13, FS_AddElement
  <2> QED BY <1>13, <2>1, Zenon
<1>16. \A j \in Case : DocumentsOf(j) \subseteq DocumentsOf(j)' /\ IsFiniteSet(DocumentsOf(j)')
  BY <1>13, <1>14, <1>15 DEF IInv, DocumentsFinite
<1>17. \A j \in Case : \A e \in DocumentsOf(j) : documents'[e] = documents[e]
  BY <1>1, <1>8 DEF DocumentsOf
<1>18. PositionsOf(k)' = 0..c
  <2>1. PositionsOf(k)' = PositionsOf(k) \cup {c}
    BY <1>1, <1>4, <1>8, <1>13, <1>17 DEF PositionsOf
  <2> QED BY <1>2, <2>1
<1>19. \A j \in Case \ {k} : PositionsOf(j)' = PositionsOf(j)
  BY <1>14, <1>17 DEF PositionsOf
<1>20. PositionsConsecutive'
  <2>1. ASSUME NEW j \in Case PROVE PositionsOf(j)' = 0..(Cardinality(DocumentsOf(j)') - 1)
    <3>1. CASE j = k
      BY <1>2, <1>15, <1>18, <3>1
    <3>2. CASE j # k
      BY <1>14, <1>19, <3>2 DEF IInv, CasesWhole, PositionsConsecutive
    <3> QED BY <3>1, <3>2
  <2> QED BY <2>1 DEF PositionsConsecutive
<1>21. ReadyWithText'
  <2> SUFFICES ASSUME NEW j \in Case, cases'[j] # None
               PROVE  cases'[j].status = "READY" <=>
                          \E e \in DocumentsOf(j)' : documents'[e].extraction = "EXTRACTED"
    BY DEF ReadyWithText
  <2>1. cases[j] # None
    BY <1>1, <1>9
  <2>2. cases[j].status = "READY" <=>
            \E e \in DocumentsOf(j) : documents[e].extraction = "EXTRACTED"
    BY <2>1 DEF IInv, CasesWhole, ReadyWithText
  <2>3. CASE j = k
    <3>1. cases'[k].status = "READY" <=> cases[k].status = "READY" \/ x = "EXTRACTED"
      BY <1>6, <1>7, <1>9
    <3>2. (\E e \in DocumentsOf(k)' : documents'[e].extraction = "EXTRACTED") <=>
              \/ x = "EXTRACTED"
              \/ \E e \in DocumentsOf(k) : documents[e].extraction = "EXTRACTED"
      BY <1>1, <1>4, <1>8, <1>13, <1>17
    <3> QED BY <2>2, <2>3, <3>1, <3>2
  <2>4. CASE j # k
    BY <1>9, <1>14, <1>17, <2>2, <2>4
  <2> QED BY <2>3, <2>4
<1>22. TypeOK'
  <2>1. ASSUME NEW j \in Case, cases'[j] # None
        PROVE  /\ cases'[j] \in PreflightCase
               /\ cases'[j].company \in companies' \cup {None}
               /\ {cases'[j].current, cases'[j].baseline} \subseteq
                      DOMAIN numbers'[cases'[j].notice] \cup {None}
    <3>1. CASE j = k
      BY <1>5, <1>7, <1>9, <1>11, <3>1
    <3>2. CASE j # k
      BY <1>9, <1>11, <2>1, <3>2, RequestFacts DEF TypeOK
    <3> QED BY <3>1, <3>2
  <2>2. ASSUME NEW e \in Document, documents'[e] # None
        PROVE  documents'[e] \in Proposal /\ cases'[documents'[e].case] # None
    <3>1. CASE e = d
      BY <1>4, <1>8, <1>9, <1>12, <3>1
    <3>2. CASE e # d
      <4>1. /\ documents'[e] = documents[e] /\ documents[e] \in Proposal
            /\ cases[documents[e].case] # None
        BY <1>8, <2>2, <3>2, RequestFacts DEF TypeOK
      <4>2. documents[e].case \in Case
        BY <4>1 DEF Proposal
      <4> QED BY <1>9, <1>12, <4>1, <4>2
    <3> QED BY <3>1, <3>2
  <2>3. /\ numbers' \in [Notice -> Histories]
        /\ current' = [n \in Notice |-> LastOf(numbers'[n])]
        /\ companies' \subseteq Company /\ objects' \subseteq Document
    BY <1>11, RequestFacts DEF TypeOK
  <2>4. pc' \in [Request -> {"idle", "baseline", "case", "position", "put", "insert", "refused"}]
    BY <1>10 DEF Uploads
  <2> QED BY <2>1, <2>2, <2>3, <2>4 DEF TypeOK
<1>23. RowsHaveObjects'
  <2>1. ASSUME NEW e \in Document, documents'[e] # None PROVE e \in objects'
    BY <1>1, <1>8, <1>11, <2>1 DEF IInv, CasesWhole, RowsHaveObjects
  <2> QED BY <2>1 DEF RowsHaveObjects
<1>24. BaselineDiffers'
  <2>1. ASSUME NEW j \in Case, cases'[j] # None
        PROVE  cases'[j].baseline # cases'[j].current
    BY <1>1, <1>7, <1>9, <2>1 DEF IInv, BaselineDiffers
  <2> QED BY <2>1 DEF BaselineDiffers
<1>25. TablesGrow
  <2>1. ASSUME NEW j \in Case, cases[j] # None
        PROVE  cases'[j] # None /\ (cases[j].status = "READY" => cases'[j].status = "READY")
    BY <1>6, <1>7, <1>9, <1>12, <2>1
  <2> QED BY <1>11, <1>16, <2>1 DEF TablesGrow
<1>26. ASSUME NEW p \in Request PROVE CreationOK(p)' /\ UploadOK(p)'
  <2>1. CASE p = r
    BY <1>10, <2>1 DEF CreationOK, UploadOK, Uploads
  <2>2. CASE p # r
    <3>1. pc[p] \in Uploads => documents'[request[p].document] = None
      <4> SUFFICES ASSUME pc[p] \in Uploads PROVE documents'[request[p].document] = None
        OBVIOUS
      <4>1. request[p].document \in Document /\ documents[request[p].document] = None
        BY RequestFacts DEF UploadOK
      <4>2. request[p].document # d
        BY <1>1, <2>2, CasesAssumption DEF IInv, DocumentsApart
      <4> QED BY <1>8, <4>1, <4>2
    <3> QED BY <1>10, <1>25, <2>2, <3>1, RequestStill
  <2> QED BY <2>1, <2>2
<1>27. DocumentsApart'
  BY <1>10, IdleType DEF IInv, DocumentsApart
<1> QED
  BY <1>8, <1>9, <1>10, <1>11, <1>16, <1>20, <1>21, <1>22, <1>23, <1>24, <1>26, <1>27
     DEF IInv, CasesWhole, DocumentsFinite

LEMMA InsertDocumentOK ==
    ASSUME IInv, NEW r \in Request, InsertDocument(r) PROVE IInv'
<1> DEFINE q == request[r]
<1>1. pc[r] = "insert" /\ UNCHANGED <<history, companies, objects>>
  BY DEF InsertDocument
<1>2. CASE Conflicts(q)
  <2>1. /\ pc' = [pc EXCEPT ![r] = "refused"]
        /\ UNCHANGED <<history, companies, cases, documents, objects, request>>
    BY <1>1, <1>2 DEF InsertDocument
  <2>2. q \in RequestRecord /\ request' = [request EXCEPT ![r] = q] /\ UploadOK(r)
    BY <2>1 DEF IInv
  <2>3. pc'[r] = "refused"
    BY <2>1, RequestFacts
  <2>4. CreationOK(r)' /\ UploadOK(r)'
    BY <1>1, <2>1, <2>2, <2>3 DEF CreationOK, UploadOK, Uploads
  <2>5. objects \subseteq Document
    BY RequestFacts DEF TypeOK
  <2> QED BY <2>1, <2>2, <2>4, <2>5, RequestStep DEF Uploads
<1>3. CASE ~Conflicts(q)
  <2>1. PICK x \in {"EXTRACTED", "EMPTY", "UNSUPPORTED", "FAILED"} :
            /\ documents' = [documents EXCEPT ![q.document] =
                   [case |-> q.case, file |-> q.file, position |-> q.position,
                    extraction |-> x]]
            /\ cases' = [cases EXCEPT ![q.case].status = StatusAfter(q.status, @, x)]
    BY <1>3 DEF InsertDocument
  <2>2. pc' = [pc EXCEPT ![r] = "idle"] /\ request' = [request EXCEPT ![r] = Idle]
    BY <1>3 DEF InsertDocument
  <2> QED BY <1>1, <1>3, <2>1, <2>2, DocumentInserted
<1> QED BY <1>2, <1>3

-----------------------------------------------------------------------------
(* The invariant *)

LEMMA CollectionOK ==
    ASSUME IInv, HistoryNext, UNCHANGED <<caseTables, objects, requests>> PROVE IInv'
<1>1. /\ numbers' \in [Notice -> Histories]
      /\ current' = [n \in Notice |-> LastOf(numbers'[n])]
      /\ \A n \in Notice : DOMAIN numbers[n] \subseteq DOMAIN numbers'[n]
  BY CollectionKeeps
<1>2. UNCHANGED <<companies, cases, documents, objects, pc, request>>
  BY DEF caseTables, requests
<1>3. \A k \in Case : UNCHANGED <<DocumentsOf(k), PositionsOf(k)>>
  BY <1>2 DEF DocumentsOf, PositionsOf
<1>4. TablesGrow /\ DocumentsFinite' /\ BaselineDiffers' /\ DocumentsApart'
  BY <1>1, <1>2, <1>3 DEF TablesGrow, IInv, DocumentsFinite, BaselineDiffers, DocumentsApart
<1>5. ASSUME NEW r \in Request PROVE CreationOK(r)' /\ UploadOK(r)'
  <2>1. pc[r] \in Uploads => documents'[request[r].document] = None
    BY <1>2, RequestFacts DEF UploadOK
  <2> QED BY <1>2, <1>4, <2>1, RequestStill
<1>6. TypeOK'
  <2>1. ASSUME NEW k \in Case, cases[k] # None
        PROVE  {cases[k].current, cases[k].baseline} \subseteq
                   DOMAIN numbers'[cases[k].notice] \cup {None}
    <3>1. cases[k].notice \in Notice
      BY <2>1 DEF IInv, CasesWhole, TypeOK, PreflightCase
    <3>2. {cases[k].current, cases[k].baseline} \subseteq
              DOMAIN numbers[cases[k].notice] \cup {None}
      BY <2>1 DEF IInv, CasesWhole, TypeOK
    <3> QED BY <1>1, <3>1, <3>2
  <2> QED BY <1>1, <1>2, <2>1 DEF IInv, CasesWhole, TypeOK
<1>7. RowsHaveObjects' /\ PositionsConsecutive' /\ ReadyWithText'
  BY <1>2, <1>3 DEF IInv, CasesWhole, RowsHaveObjects, PositionsConsecutive, ReadyWithText
<1>8. DOMAIN numbers' = Notice
  BY <1>1
<1> QED BY <1>2, <1>4, <1>5, <1>6, <1>7, <1>8 DEF IInv, CasesWhole

LEMMA InitInv == Init => IInv
<1> SUFFICES ASSUME Init PROVE IInv
  OBVIOUS
<1> DEFINE none == {}
<1>1. /\ companies = Company /\ cases = [k \in Case |-> None]
      /\ documents = [d \in Document |-> None] /\ objects = {}
      /\ pc = [r \in Request |-> "idle"] /\ request = [r \in Request |-> Idle]
      /\ numbers = [n \in Notice |-> [o \in {} |-> 0]] /\ current = [n \in Notice |-> {}]
  BY DEF Init, HistoryInit
<1>2. \A k \in Case : DocumentsOf(k) = {} /\ PositionsOf(k) = {}
  BY <1>1 DEF DocumentsOf, PositionsOf
<1>3. [o \in {} |-> 0] \in Histories /\ LastOf([o \in {} |-> 0]) = {}
  <2>1. [o \in {} |-> 0] \in Numberings({})
    BY DEF Numberings
  <2>2. {} \in SUBSET Orders
    OBVIOUS
  <2> QED BY <2>1, <2>2 DEF Histories, LastOf
<1>4. DocumentsFinite /\ PositionsConsecutive
  <2>1. IsFiniteSet({}) /\ Cardinality({}) = 0 /\ 0..(0 - 1) = {}
    BY FS_EmptySet
  <2> QED BY <1>2, <2>1 DEF DocumentsFinite, PositionsConsecutive
<1>5. TypeOK
  BY <1>1, <1>3 DEF TypeOK
<1>6. RowsHaveObjects /\ ReadyWithText /\ BaselineDiffers
  BY <1>1 DEF RowsHaveObjects, ReadyWithText, BaselineDiffers
<1>7. \A r \in Request : CreationOK(r) /\ UploadOK(r)
  BY <1>1 DEF CreationOK, UploadOK, Uploads
<1>8. DocumentsApart
  BY <1>1, IdleType DEF DocumentsApart
<1>9. request \in [Request -> RequestRecord]
      /\ pc \in [Request -> {"idle", "baseline", "case"} \cup Uploads]
  BY <1>1, IdleType
<1> QED BY <1>1, <1>4, <1>5, <1>6, <1>7, <1>8, <1>9 DEF IInv, CasesWhole

LEMMA NextInv == IInv /\ [Next]_vars => IInv'
<1> SUFFICES ASSUME IInv, [Next]_vars PROVE IInv'
  OBVIOUS
<1>1. CASE HistoryNext /\ UNCHANGED <<caseTables, objects, requests>>
  BY <1>1, CollectionOK
<1>2. ASSUME NEW r \in Request,
             \/ ReadCurrent(r) \/ ReadBaseline(r) \/ InsertCase(r)
             \/ BeginUpload(r) \/ ReadPosition(r) \/ PutObject(r) \/ InsertDocument(r)
      PROVE  IInv'
  BY <1>2, ReadCurrentOK, ReadBaselineOK, InsertCaseOK, BeginUploadOK, ReadPositionOK,
     PutObjectOK, InsertDocumentOK
<1>3. ASSUME NEW r \in Request, Report(r) \/ Fail(r) PROVE IInv'
  <2>1. Answer(r) /\ UNCHANGED <<history, caseTables, objects>>
    BY <1>3 DEF Report, Fail
  <2> QED BY <2>1, Answered
<1>4. ASSUME NEW c \in Company, DeleteCompany(c) PROVE IInv'
  BY <1>4, DeleteCompanyOK
<1>5. CASE UNCHANGED vars
  <2>1. UNCHANGED <<numbers, current, companies, cases, documents, objects, pc, request>>
    BY <1>5 DEF vars, history, caseTables, requests
  <2>2. \A k \in Case : UNCHANGED <<DocumentsOf(k), PositionsOf(k)>>
    BY <2>1 DEF DocumentsOf, PositionsOf
  <2>3. CasesWhole'
    BY <2>1, <2>2 DEF IInv, CasesWhole, TypeOK, RowsHaveObjects, PositionsConsecutive,
                      ReadyWithText
  <2>4. BaselineDiffers' /\ DocumentsFinite' /\ DocumentsApart'
    BY <2>1, <2>2 DEF IInv, BaselineDiffers, DocumentsFinite, DocumentsApart
  <2>5. ASSUME NEW r \in Request PROVE CreationOK(r)' /\ UploadOK(r)'
    <3>1. CreationOK(r) /\ UploadOK(r)
      BY DEF IInv
    <3>2. UNCHANGED DocumentsOf(request[r].case)
      BY <2>1 DEF DocumentsOf
    <3> QED BY <2>1, <3>1, <3>2 DEF CreationOK, UploadOK
  <2> QED BY <2>1, <2>3, <2>4, <2>5 DEF IInv
<1> QED BY <1>1, <1>2, <1>3, <1>4, <1>5 DEF Next

\* The inductive invariant.
THEOREM Invariance == Spec => []IInv
<1> QED BY InitInv, NextInv, PTL DEF Spec

\* A case never follows changes from a version to itself: it holds although the versions
\* are renumbered between the reads of the two versions and the insert of the case.
THEOREM BaselineAlwaysDiffers == Spec => []BaselineDiffers
<1>1. IInv => BaselineDiffers
  BY DEF IInv
<1> QED BY <1>1, Invariance, PTL

\* The documents of each case have the positions 0, 1, 2, ..., an object each, and the
\* case is READY when and only when the text of one is there.
THEOREM CasesAreWhole == Spec => []CasesWhole
<1>1. IInv => CasesWhole
  BY DEF IInv
<1> QED BY <1>1, Invariance, PTL

===============================================================================
