---------------------------- MODULE CompanyProfile ----------------------------
(***************************************************************************)
(* Company profiles (routers/companies.py), the flags that say which parts *)
(* of a profile are complete, and the reading of a profile for a judgment  *)
(* (qualification/judgment.py).                                            *)
(*                                                                         *)
(* A request reads rows, validates what it was sent against them, and      *)
(* commits.  Nothing is locked in between.  The commit writes differences  *)
(* between what was read and what is wanted: changed columns, rows that    *)
(* come and rows that go.  The database refuses a commit that breaks a     *)
(* CHECK, a key or a reference, or that updates a row that is gone.        *)
(*                                                                         *)
(* Performances and certifications are facts of one shape: they begin, and *)
(* end on a date or, performances, in a year.  The list of experience      *)
(* fields of a performance is replaced as the list of staff roles is, and  *)
(* left out.                                                               *)
(***************************************************************************)
EXTENDS Integers, FiniteSets

CONSTANTS
    Request,
    Company,
    Number,        \* business registration numbers
    Code,          \* industry codes that are active
    StaffRole,     \* role names
    Headcount,
    Performance, Certification,
    Date,
    Year(_),       \* the year of a date
    Unset,         \* a field that the client does not send
    Deleted,       \* in place of a row that has been deleted: ids are not used again
    Absent

Fact == Performance \cup Certification
YearOf == {Year(d) : d \in Date}

ASSUME CompanyProfileAssumption ==
    /\ Date \subseteq Int /\ \A d \in Date : Year(d) \in Int
    /\ \A d, e \in Date : d <= e => Year(d) <= Year(e)
    /\ Headcount \subseteq Nat
    /\ Performance \cap Certification = {}
    /\ Cardinality({Unset, Deleted, Absent}) = 3
    /\ {Unset, Deleted, Absent} \cap
           (Company \cup Number \cup Fact \cup Date \cup YearOf \cup Headcount)
           = {}

VARIABLES
    companies,   \* the columns of each company and its staff, of which one is modelled
    industries,  \* company_industries: the codes of each company, marked verified or not
    roles,       \* company_staff_roles: headcount of each role
    facts,       \* company_performances, company_certifications
    flags,       \* company_qualification_profile_completeness
    pinned,      \* companies with judgments or users, which cannot be deleted
    pc,
    request,     \* what each request was sent and what it has read
    lived        \* history: the profiles that there were while a judgment read one

tables == <<companies, industries, roles, facts, flags>>
vars == <<tables, pinned, pc, request, lived>>

Row == [number : Number \cup {Absent}]
Dates == [company : Company, start : Date \cup {Absent}, end : Date \cup {Absent},
          year : YearOf \cup {Absent}]

\* What stands for no row is none.
ASSUME RowsAssumption == {Unset, Deleted, Absent} \cap (Row \cup Dates) = {}

\* The parts that are read for a judgment, one SELECT each, in this order.
Part == {"industries", "roles", "facts"}
Undeclared == [p \in Part |-> p = "industries"]

NoRows == [x \in {} |-> Absent]
Exists(c) == companies[c] \notin {Absent, Deleted}
Stored(f) == facts[f] \notin {Absent, Deleted}

FactsOf(c) == {f \in Fact : Stored(f) /\ facts[f].company = c}

Idle == [op |-> Absent, company |-> Absent, fact |-> Absent, payload |-> Absent, seen |-> Absent]

Init ==
    /\ companies = [c \in Company |-> Absent]
    /\ industries = [c \in Company |-> NoRows]
    /\ roles = [c \in Company |-> NoRows]
    /\ facts = [f \in Fact |-> Absent]
    /\ flags = [c \in Company |-> Absent]
    /\ pinned = {}
    /\ pc = [r \in Request |-> "idle"]
    /\ request = [r \in Request |-> Idle]
    /\ lived = [r \in Request |-> {}]

\* The request is answered.
Answer(r) ==
    /\ pc' = [pc EXCEPT ![r] = "idle"]
    /\ request' = [request EXCEPT ![r] = Idle]

\* The commit fails: a conflict (409), or an error that is not handled (500).
Refuse(r) ==
    /\ pc' = [pc EXCEPT ![r] = "refused"]
    /\ UNCHANGED <<tables, request, pinned>>

-----------------------------------------------------------------------------
(* What a flush does *)

\* An UPDATE of the columns in which new differs from what was read.
Flushed(row, seen, new) ==
    [k \in DOMAIN row |-> IF new[k] = seen[k] THEN row[k] ELSE new[k]]

Given(x, old) == IF x = Unset THEN old ELSE x

\* A slip: entries that are no longer wanted are not deleted.
KeptAll(have, was, want) == have

\* Rows that were read and are not wanted are deleted.
Kept(have, was, want) == have \ (was \ want)

\* A list is replaced: rows to insert must not be there.  Industries that were there
\* and stay are not touched.
IndustriesRefused(c, was, want) == (want \ was) \cap DOMAIN industries[c] # {}

Industries(c, was, want) ==
    LET kept == Kept(DOMAIN industries[c], was, want)
    IN  [k \in kept \cup (want \ was) |-> IF k \in kept THEN industries[c][k] ELSE FALSE]

\* Roles are new objects each time: a role that was there before is updated, and must
\* still be there.
RolesRefused(c, was, want) ==
    \/ (DOMAIN want \ was) \cap DOMAIN roles[c] # {}
    \/ ~(DOMAIN want \cap was \subseteq DOMAIN roles[c])

Roles(c, was, want) ==
    [k \in Kept(DOMAIN roles[c], was, DOMAIN want) \cup DOMAIN want |->
        IF k \in DOMAIN want THEN want[k] ELSE roles[c][k]]

Lists(S) == UNION {[T -> Headcount] : T \in SUBSET S}

-----------------------------------------------------------------------------
(* Companies *)

Taken(number, c) ==
    number # Absent /\ \E d \in Company \ {c} : Exists(d) /\ companies[d].number = number

\* create_company: the codes are active, the number is not taken.
CreateCompany(r, c) ==
    /\ pc[r] = "idle" /\ companies[c] = Absent
    /\ \E row \in Row, codes \in (SUBSET Code) \ {{}}, list \in Lists(StaffRole) :
        /\ ~Taken(row.number, c)
        /\ companies' = [companies EXCEPT ![c] = row]
        /\ industries' = [industries EXCEPT ![c] = [k \in codes |-> FALSE]]
        /\ roles' = [roles EXCEPT ![c] = list]
    /\ UNCHANGED <<facts, flags, pinned, pc, request>>

Profile(c) == [row |-> companies[c], industries |-> industries[c], roles |-> roles[c]]

\* What a PATCH of a company may hold; Absent is refused where it is not allowed.
CompanyUpdate ==
    [number : Number \cup {Absent, Unset},
     industries : ((SUBSET Code) \ {{}}) \cup {Unset}, roles : Lists(StaffRole) \cup {Unset}]

\* A request for a company: an update, the mark of an industry, or its deletion.
CompanyRequest(c) ==
    {<<"patch", p>> : p \in CompanyUpdate} \cup
    {<<"verify", p>> : p \in (DOMAIN industries[c]) \X BOOLEAN} \cup {<<"delete", Absent>>}

\* _load_company; 404 if it is not there.
LoadCompany(r) ==
    /\ pc[r] = "idle"
    /\ \E c \in Company :
        /\ Exists(c)
        /\ \E q \in CompanyRequest(c) : request' = [request EXCEPT ![r] =
               [Idle EXCEPT !.op = q[1], !.company = c, !.payload = q[2], !.seen = Profile(c)]]
    /\ pc' = [pc EXCEPT ![r] = "loaded"]
    /\ UNCHANGED <<tables, pinned>>

Ready(r, op) == pc[r] = "loaded" /\ request[r].op = op

Wanted(p, row) == [number |-> Given(p.number, row.number)]

UpdateRefused(c, p, seen) ==
    \/ ~Exists(c)
    \/ p.number \notin {Unset, seen.row.number} /\ Taken(p.number, c)
    \/ p.industries # Unset /\ IndustriesRefused(c, DOMAIN seen.industries, p.industries)
    \/ p.roles # Unset /\ RolesRefused(c, DOMAIN seen.roles, p.roles)

UpdateCompany(r) ==
    /\ Ready(r, "patch")
    /\ LET c == request[r].company  p == request[r].payload  seen == request[r].seen
       IN  IF UpdateRefused(c, p, seen)
           THEN Refuse(r)
           ELSE /\ companies' = [companies EXCEPT ![c] = Flushed(@, seen.row, Wanted(p, seen.row))]
                /\ industries' = [industries EXCEPT ![c] =
                       IF p.industries = Unset THEN @
                       ELSE Industries(c, DOMAIN seen.industries, p.industries)]
                /\ roles' = [roles EXCEPT ![c] =
                       IF p.roles = Unset THEN @ ELSE Roles(c, DOMAIN seen.roles, p.roles)]
                /\ Answer(r)
                /\ UNCHANGED <<facts, flags, pinned>>

\* set_company_industry_verification: the row is updated if the mark differs.
VerifyIndustry(r) ==
    /\ Ready(r, "verify")
    /\ LET c == request[r].company
           k == request[r].payload[1]
           mark == request[r].payload[2]
       IN  IF mark = request[r].seen.industries[k]
           THEN Answer(r) /\ UNCHANGED <<tables, pinned>>
           ELSE IF k \notin DOMAIN industries[c]
           THEN Refuse(r)
           ELSE /\ industries' = [industries EXCEPT ![c][k] = mark]
                /\ Answer(r)
                /\ UNCHANGED <<companies, roles, facts, flags, pinned>>

\* delete_company: what belongs to the company goes with it; judgments and users
\* forbid it.
DeleteCompany(r) ==
    /\ Ready(r, "delete")
    /\ LET c == request[r].company
       IN  IF c \in pinned
           THEN Refuse(r)
           ELSE /\ companies' = [companies EXCEPT ![c] = Deleted]
                /\ industries' = [industries EXCEPT ![c] = NoRows]
                /\ roles' = [roles EXCEPT ![c] = NoRows]
                /\ facts' = [f \in Fact |-> IF f \in FactsOf(c) THEN Deleted ELSE facts[f]]
                /\ flags' = [flags EXCEPT ![c] = Absent]
                /\ Answer(r)
                /\ UNCHANGED pinned

-----------------------------------------------------------------------------
(* Performances and certifications *)

\* A slip: the year in which the work began is not looked at.
InOrderByDate(f, d) ==
    /\ f \in Performance => (d.end = Absent) # (d.year = Absent)
    /\ d.start # Absent /\ d.end # Absent => d.start <= d.end

\* What the routers and the schemas validate.
InOrder(f, d) ==
    /\ f \in Performance => (d.end = Absent) # (d.year = Absent)
    /\ d.start # Absent /\ d.end # Absent => d.start <= d.end
    /\ d.start # Absent /\ d.year # Absent => Year(d.start) <= d.year

\* What the CHECKs of the tables demand.
Checked(f, d) ==
    IF f \in Performance
    THEN /\ d.end # Absent <=> d.year = Absent
         /\ d.start = Absent \/ d.end = Absent \/ d.start <= d.end
         /\ d.start = Absent \/ d.year = Absent \/ Year(d.start) <= d.year
    ELSE d.start = Absent \/ d.end = Absent \/ d.start <= d.end

\* A certification has no year.
DatesOf(f) == {d \in Dates : f \in Certification => d.year = Absent}

\* create_performance, create_certification: load the company, insert the fact.
LoadForCreate(r) ==
    /\ pc[r] = "idle"
    /\ \E f \in Fact : \E d \in DatesOf(f) :
        /\ facts[f] = Absent /\ \A q \in Request : request[q].fact # f
        /\ Exists(d.company) /\ InOrder(f, d)
        /\ request' = [request EXCEPT ![r] =
               [Idle EXCEPT !.op = "create", !.company = d.company, !.fact = f,
                            !.payload = d, !.seen = companies[d.company]]]
    /\ pc' = [pc EXCEPT ![r] = "loaded"]
    /\ UNCHANGED <<tables, pinned>>

CreateFact(r) ==
    /\ Ready(r, "create")
    /\ LET f == request[r].fact  d == request[r].payload
       IN  IF ~Exists(d.company) \/ ~Checked(f, d)
           THEN Refuse(r)
           ELSE /\ facts' = [facts EXCEPT ![f] = d]
                /\ Answer(r)
                /\ UNCHANGED <<companies, industries, roles, flags, pinned>>

FactUpdate(f) ==
    [start : Date \cup {Absent, Unset}, end : Date \cup {Absent, Unset},
     year : IF f \in Performance THEN YearOf \cup {Absent, Unset} ELSE {Unset}]

LoadFact(r) ==
    /\ pc[r] = "idle"
    /\ \E f \in Fact : \E p \in FactUpdate(f) :
        /\ Stored(f)
        /\ request' = [request EXCEPT ![r] =
               [Idle EXCEPT !.op = "fact", !.company = facts[f].company, !.fact = f,
                            !.payload = p, !.seen = facts[f]]]
    /\ pc' = [pc EXCEPT ![r] = "loaded"]
    /\ UNCHANGED <<tables, pinned>>

\* A date of completion replaces a year that is not sent, and a year a date.
Merged(p, seen) ==
    [seen EXCEPT
        !.start = Given(p.start, @),
        !.end  = IF p.end = Unset /\ p.year \notin {Unset, Absent} THEN Absent
                 ELSE Given(p.end, @),
        !.year = IF p.year = Unset /\ p.end \notin {Unset, Absent} THEN Absent
                 ELSE Given(p.year, @)]

Updated(f, p, seen) ==
    IF f \in Performance THEN Merged(p, seen)
    ELSE [seen EXCEPT !.start = Given(p.start, @), !.end = Given(p.end, @)]

\* The merged row is validated, the columns that change are written, and the table's
\* CHECKs see the row that comes of it.
UpdateFact(r) ==
    /\ Ready(r, "fact")
    /\ LET f == request[r].fact
           seen == request[r].seen
           new == Updated(f, request[r].payload, seen)
       IN  IF ~InOrder(f, new) \/ new = seen
           THEN Answer(r) /\ UNCHANGED <<tables, pinned>>
           ELSE IF ~Stored(f) \/ (Stored(f) /\ ~Checked(f, Flushed(facts[f], seen, new)))
           THEN Refuse(r)
           ELSE /\ facts' = [facts EXCEPT ![f] = Flushed(@, seen, new)]
                /\ Answer(r)
                /\ UNCHANGED <<companies, industries, roles, flags, pinned>>

DeleteFact(r) ==
    /\ Ready(r, "fact")
    /\ facts' = [facts EXCEPT ![request[r].fact] = Deleted]
    /\ Answer(r)
    /\ UNCHANGED <<companies, industries, roles, flags, pinned>>

-----------------------------------------------------------------------------
(* Completeness *)

Declared(record) == IF record = Absent THEN Undeclared ELSE record

LoadFlags(r) ==
    /\ pc[r] = "idle"
    /\ \E c \in Company, p \in [Part -> BOOLEAN \cup {Unset}] :
        /\ Exists(c)
        /\ request' = [request EXCEPT ![r] =
               [Idle EXCEPT !.op = "flags", !.company = c, !.payload = p, !.seen = flags[c]]]
    /\ pc' = [pc EXCEPT ![r] = "loaded"]
    /\ UNCHANGED <<tables, pinned>>

\* update_profile_completeness: a record that was not there is inserted with defaults.
UpdateFlags(r) ==
    /\ Ready(r, "flags")
    /\ LET c == request[r].company
           seen == request[r].seen
           new == [k \in Part |-> Given(request[r].payload[k], Declared(seen)[k])]
       IN  IF \/ ~Exists(c) /\ new # seen
              \/ seen = Absent /\ flags[c] # Absent
           THEN Refuse(r)
           ELSE /\ flags' = [flags EXCEPT ![c] =
                       IF seen = Absent THEN new
                       ELSE IF new = seen THEN @ ELSE Flushed(@, seen, new)]
                /\ Answer(r)
                /\ UNCHANGED <<companies, industries, roles, facts, pinned>>

-----------------------------------------------------------------------------
(* Judgments read a profile *)

\* All that a judgment wants to know of a company.
Whole(c) ==
    [industries |-> industries[c], roles |-> roles[c],
     facts |-> [f \in FactsOf(c) |-> facts[f]], flags |-> Declared(flags[c])]

BeginJudgment(r) ==
    /\ pc[r] = "idle"
    /\ \E c \in Company :
        /\ Exists(c)
        /\ request' = [request EXCEPT ![r] =
               [Idle EXCEPT !.op = "judge", !.company = c, !.seen = Whole(c)]]
    /\ pc' = [pc EXCEPT ![r] = "roles"]
    /\ UNCHANGED <<tables, pinned>>

\* A SELECT for each part, one after the other: industries, roles, facts, flags.
Following == [roles |-> "facts", facts |-> "flags", flags |-> "judged"]

ReadPart(r) ==
    /\ pc[r] \in DOMAIN Following
    /\ request' = [request EXCEPT ![r].seen[pc[r]] = Whole(request[r].company)[pc[r]]]
    /\ pc' = [pc EXCEPT ![r] = Following[pc[r]]]
    /\ UNCHANGED <<tables, pinned>>

\* The run refers to the company and keeps what has been read as its profile_snapshot.
StoreJudgment(r) ==
    /\ pc[r] = "judged"
    /\ IF Exists(request[r].company)
       THEN /\ pinned' = pinned \cup {request[r].company}
            /\ Answer(r)
            /\ UNCHANGED tables
       ELSE Refuse(r)

Report(r) == pc[r] = "refused" /\ Answer(r) /\ UNCHANGED <<tables, pinned>>

Step(r) ==
    \/ \E c \in Company : CreateCompany(r, c)
    \/ LoadCompany(r) \/ UpdateCompany(r) \/ VerifyIndustry(r) \/ DeleteCompany(r)
    \/ LoadForCreate(r) \/ CreateFact(r)
    \/ LoadFact(r) \/ UpdateFact(r) \/ DeleteFact(r)
    \/ LoadFlags(r) \/ UpdateFlags(r)
    \/ BeginJudgment(r) \/ ReadPart(r) \/ StoreJudgment(r)
    \/ Report(r)

Reading(r) == request[r].op = "judge"
Lives(r) == Whole(request[r].company)

Next ==
    /\ \E r \in Request : Step(r)
    /\ lived' = [r \in Request |->
           IF Reading(r)' THEN lived[r] \cup {Lives(r)'} ELSE {}]

Spec == Init /\ [][Next]_vars

-----------------------------------------------------------------------------
(* Properties *)

Marks == UNION {[S -> BOOLEAN] : S \in SUBSET Code}

\* The kinds of values the variables hold: the rows of facts are in order, and nothing
\* is left of a company that has been deleted.
TypeOK ==
    /\ companies \in [Company -> Row \cup {Absent, Deleted}]
    /\ industries \in [Company -> Marks]
    /\ roles \in [Company -> Lists(StaffRole)]
    /\ facts \in [Fact -> Dates \cup {Absent, Deleted}]
    /\ flags \in [Company -> [Part -> BOOLEAN] \cup {Absent}]
    /\ pinned \subseteq Company
    /\ \A c \in Company :
        /\ ~Exists(c) => industries[c] = NoRows /\ roles[c] = NoRows /\ flags[c] = Absent
        /\ c \in pinned => Exists(c)
    /\ \A f \in Fact : Stored(f) => Exists(facts[f].company) /\ Checked(f, facts[f])
    /\ pc \in [Request -> {"idle", "loaded", "refused", "judged"} \cup DOMAIN Following]

\* What a request has read is still there as it was.
Untouched(r) ==
    LET q == request[r]
    IN  CASE q.op \in {"patch", "verify", "delete"} -> q.seen = Profile(q.company)
          [] q.op = "create" -> Exists(q.company)
          [] q.op = "fact" -> q.seen = facts[q.fact]
          [] q.op = "flags" -> Exists(q.company) /\ q.seen = flags[q.company]
          [] q.op = "judge" -> Exists(q.company)

\* What the routers have validated the database does not refuse, unless another request
\* came in between, a number is taken, or the company cannot be deleted.
RefusedOnlyByRivals ==
    [][\A r \in Request : pc[r] # "refused" /\ pc'[r] = "refused" =>
        \/ ~Untouched(r)
        \/ request[r].op = "patch" /\ Taken(request[r].payload.number, request[r].company)
        \/ request[r].op = "delete" /\ request[r].company \in pinned]_vars

Accepted(r, op) == pc[r] = "loaded" /\ request[r].op = op /\ pc'[r] = "idle"

\* A list that nobody else has changed becomes the list that was sent, whatever else
\* goes on.
ListsAsSent(r) ==
    LET c == request[r].company  p == request[r].payload  seen == request[r].seen
    IN  /\ p.industries # Unset /\ seen.industries = industries[c] =>
               DOMAIN industries'[c] = p.industries
        /\ p.roles # Unset /\ seen.roles = roles[c] => roles'[c] = p.roles

\* Two requests that change different things of one fact both have their way: what a
\* request has not sent stays as it is in the table, also if it was read otherwise.
\* Only the end and the year of a performance go together.
UnsentStays(r) ==
    LET f == request[r].fact  p == request[r].payload
    IN  Stored(f) /\ facts'[f] # Deleted =>
            /\ p.start = Unset => facts'[f].start = facts[f].start
            /\ {p.end, p.year} = {Unset} =>
                   facts'[f].end = facts[f].end /\ facts'[f].year = facts[f].year

\* An edit changes what it was sent to change and nothing else, also beside others.
EditsAsSent ==
    [][\A r \in Request : /\ Accepted(r, "patch") => ListsAsSent(r)
                          /\ Accepted(r, "fact") => UnsentStays(r)]_vars

\* "What company data a judgment was computed from stays on record as a whole" (README,
\* database): the snapshot of a judgment is a profile that the company had.
SnapshotExisted ==
    [][\A r \in Request : pc[r] = "judged" /\ pc'[r] = "idle" =>
           request[r].seen \in lived[r]]_vars

\* "industry_codes must contain at least one code" (schemas.py:179).
AlwaysInAnIndustry == \A c \in Company : Exists(c) => DOMAIN industries[c] # {}
===============================================================================
