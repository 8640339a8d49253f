---------------------------- MODULE EligibilityProofs ----------------------------
(***************************************************************************)
(* What the eligibility of a company rests on.  CompanyProfile, for any    *)
(* requests, companies, codes, roles, facts and dates: its profile.  Then  *)
(* RequirementJudgment, for any requirement: what may be asked can be      *)
(* judged, whatever becomes of the profile, and what is judged stays so    *)
(* while the profile is completed; and OverallEligibility, for any         *)
(* requirements in any groups: how judgments add up.  Then ClauseReview,   *)
(* for any text and conditions: what is reported of terms.  Last           *)
(* NoticeReading, for any text and any answers of the model: what the      *)
(* text asks for, and who is eligible.                                     *)
(***************************************************************************)
EXTENDS CompanyProfile, NoticeReading, OverallEligibility, ClauseReview, FiniteSetTheorems,
        WellFoundedInduction, TLAPS

Field == {"op", "company", "fact", "payload", "seen"}

\* What a request about the row and the lists of a company has read.
SeenProfile(seen) ==
    /\ seen.row \in Row
    /\ seen.industries \in Marks
    /\ seen.roles \in Lists(StaffRole)

\* What a request holds that has read, and is about to write.
Loaded(q) ==
    /\ q.op \in {"patch", "verify", "delete", "create", "fact", "flags"}
    /\ q.company \in Company
    /\ q.op \in {"patch", "verify", "delete"} => SeenProfile(q.seen)
    /\ q.op = "patch" => q.payload \in CompanyUpdate
    /\ q.op = "verify" => /\ q.payload[1] \in DOMAIN q.seen.industries
                          /\ q.payload[2] \in BOOLEAN
    /\ q.op = "create" => /\ q.fact \in Fact /\ q.payload \in DatesOf(q.fact)
                          /\ q.payload.company = q.company
                          /\ InOrder(q.fact, q.payload)
    /\ q.op = "fact" => /\ q.fact \in Fact /\ q.payload \in FactUpdate(q.fact)
                        /\ q.seen \in Dates
    /\ q.op = "flags" => /\ q.payload \in [Part -> BOOLEAN \cup {Unset}]
                         /\ q.seen \in [Part -> BOOLEAN] \cup {Absent}

Judging == {"judged"} \cup DOMAIN Following

\* What each request holds at each step.
RequestsHold ==
    /\ request = [r \in Request |-> request[r]]
    /\ \A r \in Request :
        /\ DOMAIN request[r] = Field /\ request[r] = [k \in Field |-> request[r][k]]
        /\ pc[r] = "loaded" => Loaded(request[r])
        /\ pc[r] \in Judging => request[r].op = "judge" /\ request[r].company \in Company

\* A record of flags that a request has read is there as long as its company is: it goes
\* with the company only, and a company does not come again.
FlagsStay ==
    \A r \in Request :
        pc[r] = "loaded" /\ request[r].op = "flags"
            /\ request[r].seen \in [Part -> BOOLEAN] =>
                \/ flags[request[r].company] \in [Part -> BOOLEAN]
                \/ companies[request[r].company] = Deleted

\* TypeOK needs the requests to hold what fits their tables, and FlagsStay for the
\* update of a record that was read and may have gone.
IInv == TypeOK /\ RequestsHold /\ FlagsStay

-----------------------------------------------------------------------------
(* What the operators return *)

\* What stands for no value is told apart.
LEMMA Absences == Unset # Deleted /\ Unset # Absent /\ Deleted # Absent
<1>1. Cardinality({Unset, Deleted, Absent}) = 3
  BY CompanyProfileAssumption
<1>2. ASSUME NEW x, NEW y PROVE Cardinality({x, y}) <= 2
  <2>1. Cardinality({x}) = 1 /\ IsFiniteSet({x})
    BY FS_Singleton
  <2>2. Cardinality({x} \cup {y}) \in {1, 2}
    BY <2>1, FS_AddElement
  <2>3. {x} \cup {y} = {x, y}
    OBVIOUS
  <2> QED BY <2>2, <2>3
<1>3. CASE Unset = Deleted
  <2>1. {Unset, Deleted, Absent} = {Deleted, Absent}
    BY <1>3
  <2>2. Cardinality({Deleted, Absent}) <= 2
    BY <1>2
  <2> QED BY <1>1, <2>1, <2>2
<1>4. CASE Unset = Absent
  <2>1. {Unset, Deleted, Absent} = {Deleted, Absent}
    BY <1>4
  <2>2. Cardinality({Deleted, Absent}) <= 2
    BY <1>2
  <2> QED BY <1>1, <2>1, <2>2
<1>5. CASE Deleted = Absent
  <2>1. {Unset, Deleted, Absent} = {Unset, Absent}
    BY <1>5
  <2>2. Cardinality({Unset, Absent}) <= 2
    BY <1>2
  <2> QED BY <1>1, <2>1, <2>2
<1> QED BY <1>3, <1>4, <1>5

\* What is validated passes the CHECKs of its table.
LEMMA InOrderIsChecked ==
    ASSUME NEW f \in Fact, NEW d \in Dates, InOrder(f, d)
    PROVE  Checked(f, d)
  BY DEF InOrder, Checked

\* A row of a fact that is merged from what was read and what is sent is a row, of the
\* same company.
LEMMA UpdatedType ==
    ASSUME NEW f \in Fact, NEW p \in FactUpdate(f), NEW seen \in Dates
    PROVE  /\ Updated(f, p, seen) \in Dates
           /\ Updated(f, p, seen).company = seen.company
           /\ p.start = Unset => Updated(f, p, seen).start = seen.start
           /\ {p.end, p.year} = {Unset} => /\ Updated(f, p, seen).end = seen.end
                                           /\ Updated(f, p, seen).year = seen.year
<1>1. /\ p.start \in Date \cup {Absent, Unset} /\ p.end \in Date \cup {Absent, Unset}
      /\ f \in Performance => p.year \in YearOf \cup {Absent, Unset}
  BY DEF FactUpdate
<1>2. CASE f \in Performance
  <2>1. Updated(f, p, seen) = Merged(p, seen)
    BY <1>2 DEF Updated
  <2> QED BY <1>1, <1>2, <2>1 DEF Merged, Given, Dates
<1>3. CASE f \notin Performance
  <2>1. Updated(f, p, seen) = [seen EXCEPT !.start = Given(p.start, @), !.end = Given(p.end, @)]
    BY <1>3 DEF Updated
  <2> QED BY <1>1, <2>1 DEF Given, Dates
<1> QED BY <1>2, <1>3

\* A flush of a fact takes over the columns that were changed and no other; over what
\* was read it makes what is wanted.
LEMMA FlushedDates ==
    ASSUME NEW row \in Dates, NEW seen \in Dates, NEW new \in Dates,
           new.company = seen.company
    PROVE  /\ Flushed(row, seen, new) \in Dates
           /\ Flushed(row, seen, new).company = row.company
           /\ row = seen => Flushed(row, seen, new) = new
           /\ \A k \in {"start", "end", "year"} :
                  new[k] = seen[k] => Flushed(row, seen, new)[k] = row[k]
<1>1. DOMAIN row = {"company", "start", "end", "year"}
  BY DEF Dates
<1>2. Flushed(row, seen, new) = [k \in {"company", "start", "end", "year"} |->
                                    IF new[k] = seen[k] THEN row[k] ELSE new[k]]
  BY <1>1 DEF Flushed
<1> QED BY <1>2 DEF Dates

\* The same of the row of a company, and of a record of flags.
LEMMA FlushedRow ==
    ASSUME NEW row \in Row, NEW seen \in Row, NEW new \in Row
    PROVE  Flushed(row, seen, new) \in Row
  BY DEF Flushed, Row

LEMMA FlushedFlags ==
    ASSUME NEW row \in [Part -> BOOLEAN], NEW seen \in [Part -> BOOLEAN],
           NEW new \in [Part -> BOOLEAN]
    PROVE  Flushed(row, seen, new) \in [Part -> BOOLEAN]
  BY DEF Flushed

\* A set of codes that is sent gives a list of codes; if nobody has changed what was read,
\* they are the codes that were sent.
LEMMA IndustriesType ==
    ASSUME NEW c \in Company, industries[c] \in Marks,
           NEW was, NEW want \in SUBSET Code
    PROVE  /\ Industries(c, was, want) \in Marks
           /\ was = DOMAIN industries[c] => DOMAIN Industries(c, was, want) = want
<1>1. PICK S \in SUBSET Code : industries[c] \in [S -> BOOLEAN]
  BY DEF Marks
<1> DEFINE kept == S \ (was \ want)
           T == kept \cup (want \ was)
<1>2. Industries(c, was, want) = [k \in T |-> IF k \in kept THEN industries[c][k] ELSE FALSE]
  BY <1>1 DEF Industries, Kept
<1>3. T \in SUBSET Code /\ kept \subseteq S
  BY <1>1
<1>4. Industries(c, was, want) \in [T -> BOOLEAN]
  BY <1>1, <1>2, <1>3
<1>5. was = DOMAIN industries[c] => T = want
  BY <1>1
<1>6. DOMAIN Industries(c, was, want) = T
  BY <1>2
<1> HIDE DEF T
<1> QED BY <1>3, <1>4, <1>5, <1>6 DEF Marks

\* The same of a list of roles.
LEMMA RolesType ==
    ASSUME NEW c \in Company, roles[c] \in Lists(StaffRole),
           NEW was, NEW want \in Lists(StaffRole)
    PROVE  /\ Roles(c, was, want) \in Lists(StaffRole)
           /\ was = DOMAIN roles[c] => Roles(c, was, want) = want
<1>1. PICK S \in SUBSET StaffRole : roles[c] \in [S -> Headcount]
  BY DEF Lists
<1>2. PICK W \in SUBSET StaffRole : want \in [W -> Headcount]
  BY DEF Lists
<1> DEFINE T == (S \ (was \ W)) \cup W
<1>3. Roles(c, was, want) = [k \in T |-> IF k \in W THEN want[k] ELSE roles[c][k]]
  BY <1>1, <1>2 DEF Roles, Kept
<1>4. T \in SUBSET StaffRole
  BY <1>1, <1>2
<1>5. Roles(c, was, want) \in [T -> Headcount]
  BY <1>1, <1>2, <1>3
<1>6. ASSUME was = DOMAIN roles[c]
      PROVE  Roles(c, was, want) = want
  <2>1. T = W
    BY <1>1, <1>6
  <2> QED BY <1>2, <1>3, <2>1
<1> HIDE DEF T
<1> QED BY <1>4, <1>5, <1>6 DEF Lists

\* Nothing is a list of no codes and of no roles.
LEMMA NoRowsType == NoRows \in Marks /\ NoRows \in Lists(StaffRole) /\ DOMAIN NoRows = {}
<1>1. NoRows \in [{} -> BOOLEAN] /\ NoRows \in [{} -> Headcount]
  BY DEF NoRows
<1>2. {} \in SUBSET Code /\ {} \in SUBSET StaffRole
  OBVIOUS
<1>3. PICK W : W = {}
  OBVIOUS
<1>4. NoRows \in [W -> BOOLEAN] /\ NoRows \in [W -> Headcount]
      /\ W \in SUBSET Code /\ W \in SUBSET StaffRole
  BY <1>1, <1>2, <1>3
<1> QED BY <1>4 DEF Marks, Lists, NoRows

-----------------------------------------------------------------------------
(* Requests *)

\* The stages of a request.
Stage == {"idle", "loaded", "refused", "judged", "roles", "facts", "flags"}

LEMMA Stages == Stage = {"idle", "loaded", "refused", "judged"} \cup DOMAIN Following
                /\ Judging = {"judged", "roles", "facts", "flags"}
<1>1. DOMAIN Following = {"roles", "facts", "flags"}
  BY DEF Following
<1> QED BY <1>1 DEF Stage, Judging

\* A request that goes on to a stage with what that stage asks for leaves the others as
\* they are.
LEMMA GoesOn ==
    ASSUME TypeOK, RequestsHold, NEW r \in Request, NEW q, NEW stage \in Stage,
           request' = [request EXCEPT ![r] = q], pc' = [pc EXCEPT ![r] = stage],
           DOMAIN q = Field, q = [k \in Field |-> q[k]],
           stage = "loaded" => Loaded(q),
           stage \in Judging => q.op = "judge" /\ q.company \in Company
    PROVE  /\ RequestsHold' /\ pc' \in [Request -> Stage]
           /\ request'[r] = q /\ pc'[r] = stage
           /\ \A p \in Request \ {r} : request'[p] = request[p] /\ pc'[p] = pc[p]
<1>1. \A p \in Request : request'[p] = IF p = r THEN q ELSE request[p]
  BY DEF RequestsHold
<1>2. pc \in [Request -> Stage]
  BY Stages DEF TypeOK
<1>3. \A p \in Request : pc'[p] = IF p = r THEN stage ELSE pc[p]
  BY <1>2
<1>4. request' = [p \in Request |-> request'[p]]
  BY DEF RequestsHold
<1>5. ASSUME NEW p \in Request
      PROVE  /\ DOMAIN request'[p] = Field /\ request'[p] = [k \in Field |-> request'[p][k]]
             /\ pc'[p] = "loaded" => Loaded(request'[p])
             /\ pc'[p] \in Judging =>
                    request'[p].op = "judge" /\ request'[p].company \in Company
  <2>1. CASE p = r
    <3>1. request'[p] = q /\ pc'[p] = stage
      BY <1>1, <1>3, <2>1
    <3> QED BY <3>1
  <2>2. CASE p # r
    <3>1. request'[p] = request[p] /\ pc'[p] = pc[p]
      BY <1>1, <1>3, <2>2
    <3> QED BY <3>1 DEF RequestsHold
  <2> QED BY <2>1, <2>2
<1>6. RequestsHold'
  BY <1>4, <1>5 DEF RequestsHold, Loaded, SeenProfile, Judging
<1> QED BY <1>1, <1>2, <1>3, <1>6

\* A request that is answered or refused.
LEMMA Answers ==
    ASSUME TypeOK, RequestsHold, NEW r \in Request, Answer(r)
    PROVE  /\ RequestsHold' /\ pc' \in [Request -> Stage]
           /\ pc'[r] = "idle"
           /\ \A p \in Request \ {r} : request'[p] = request[p] /\ pc'[p] = pc[p]
<1>1. PICK idle : idle = Idle
  OBVIOUS
<1>2. DOMAIN idle = Field /\ idle = [k \in Field |-> idle[k]]
  BY <1>1 DEF Idle, Field
<1>3. request' = [request EXCEPT ![r] = idle] /\ pc' = [pc EXCEPT ![r] = "idle"]
  BY <1>1 DEF Answer
<1>4. "idle" \in Stage /\ "idle" \notin Judging /\ "idle" # "loaded"
  BY Stages DEF Stage
<1> QED BY <1>2, <1>3, <1>4, GoesOn

LEMMA Refuses ==
    ASSUME TypeOK, RequestsHold, NEW r \in Request, Refuse(r)
    PROVE  /\ RequestsHold' /\ pc' \in [Request -> Stage]
           /\ pc'[r] = "refused" /\ request' = request
           /\ \A p \in Request \ {r} : pc'[p] = pc[p]
<1>1. PICK q : q = request[r]
  OBVIOUS
<1>2. DOMAIN q = Field /\ q = [k \in Field |-> q[k]]
  BY <1>1 DEF RequestsHold
<1>3. request' = [request EXCEPT ![r] = q] /\ pc' = [pc EXCEPT ![r] = "refused"]
  BY <1>1 DEF Refuse, RequestsHold
<1>4. "refused" \in Stage /\ "refused" \notin Judging /\ "refused" # "loaded"
  BY Stages DEF Stage
<1>5. request' = request
  BY DEF Refuse
<1> QED BY <1>2, <1>3, <1>4, <1>5, GoesOn

\* Records of flags that others have read stay, if a step removes none but with its company.
LEMMA FlagsKept ==
    ASSUME RequestsHold, FlagsStay, NEW r \in Request,
           \A p \in Request \ {r} : request'[p] = request[p] /\ pc'[p] = pc[p],
           \A c \in Company :
               /\ companies[c] = Deleted => companies'[c] = Deleted
               /\ flags[c] \in [Part -> BOOLEAN] =>
                      flags'[c] \in [Part -> BOOLEAN] \/ companies'[c] = Deleted,
           pc'[r] = "loaded" /\ request'[r].op = "flags" =>
               /\ request'[r].company \in Company
               /\ request'[r].seen = flags'[request'[r].company]
    PROVE  FlagsStay'
<1> SUFFICES ASSUME NEW p \in Request, pc'[p] = "loaded", request'[p].op = "flags",
                    request'[p].seen \in [Part -> BOOLEAN]
             PROVE  \/ flags'[request'[p].company] \in [Part -> BOOLEAN]
                    \/ companies'[request'[p].company] = Deleted
  BY DEF FlagsStay
<1>1. CASE p = r
  BY <1>1
<1>2. CASE p # r
  <2>1. request'[p] = request[p] /\ pc'[p] = pc[p]
    BY <1>2
  <2>2. request[p].company \in Company
    BY <2>1 DEF RequestsHold, Loaded
  <2> QED BY <2>1, <2>2 DEF FlagsStay
<1> QED BY <1>1, <1>2

LEMMA TablesKept ==
    ASSUME TypeOK, UNCHANGED <<tables, pinned>>, pc' \in [Request -> Stage]
    PROVE  TypeOK'
<1>1. /\ companies' = companies /\ industries' = industries /\ roles' = roles
      /\ facts' = facts /\ flags' = flags /\ pinned' = pinned
  BY DEF tables
<1> QED BY <1>1, Stages DEF TypeOK, Exists, Stored

\* A step that reads, and a step that ends a request, change no table.
LEMMA Reads ==
    ASSUME IInv, NEW r \in Request, NEW q, NEW stage \in Stage,
           request' = [request EXCEPT ![r] = q], pc' = [pc EXCEPT ![r] = stage],
           UNCHANGED <<tables, pinned>>,
           DOMAIN q = Field, q = [k \in Field |-> q[k]],
           stage = "loaded" => Loaded(q),
           stage = "loaded" /\ q.op = "flags" => q.seen = flags[q.company],
           stage \in Judging => q.op = "judge" /\ q.company \in Company
    PROVE  IInv'
<1>1. /\ RequestsHold' /\ pc' \in [Request -> Stage]
      /\ request'[r] = q /\ pc'[r] = stage
      /\ \A p \in Request \ {r} : request'[p] = request[p] /\ pc'[p] = pc[p]
  BY GoesOn DEF IInv
<1>2. TypeOK'
  BY <1>1, TablesKept DEF IInv
<1>3. companies' = companies /\ flags' = flags
  BY DEF tables
<1>4. pc'[r] = "loaded" /\ request'[r].op = "flags" =>
          /\ request'[r].company \in Company
          /\ request'[r].seen = flags'[request'[r].company]
  BY <1>1, <1>3 DEF Loaded
<1>5. FlagsStay'
  BY <1>1, <1>3, <1>4, FlagsKept DEF IInv
<1> QED BY <1>1, <1>2, <1>5 DEF IInv

LEMMA Ends ==
    ASSUME IInv, NEW r \in Request, Answer(r) \/ Refuse(r), UNCHANGED <<tables, pinned>>
    PROVE  IInv'
<1>1. /\ RequestsHold' /\ pc' \in [Request -> Stage] /\ pc'[r] # "loaded"
      /\ \A p \in Request \ {r} : request'[p] = request[p] /\ pc'[p] = pc[p]
  BY Answers, Refuses DEF IInv
<1>2. TypeOK'
  BY <1>1, TablesKept DEF IInv
<1>3. companies' = companies /\ flags' = flags
  BY DEF tables
<1>4. FlagsStay'
  BY <1>1, <1>3, FlagsKept DEF IInv
<1> QED BY <1>1, <1>2, <1>4 DEF IInv

LEMMA RefusalHolds ==
    ASSUME IInv, NEW r \in Request, Refuse(r)
    PROVE  IInv'
<1>1. UNCHANGED <<tables, pinned>>
  BY DEF Refuse
<1> QED BY <1>1, Ends

\* A step that writes to some company's row, lists and flags, or to facts, and is answered.
LEMMA Writes ==
    ASSUME IInv, NEW r \in Request, Answer(r), TypeOK',
           \A c \in Company :
               /\ companies[c] = Deleted => companies'[c] = Deleted
               /\ flags[c] \in [Part -> BOOLEAN] =>
                      flags'[c] \in [Part -> BOOLEAN] \/ companies'[c] = Deleted
    PROVE  IInv'
<1>1. /\ RequestsHold' /\ pc'[r] # "loaded"
      /\ \A p \in Request \ {r} : request'[p] = request[p] /\ pc'[p] = pc[p]
  BY Answers DEF IInv
<1>2. FlagsStay'
  BY <1>1, FlagsKept DEF IInv
<1> QED BY <1>1, <1>2 DEF IInv

-----------------------------------------------------------------------------
(* Companies *)

LEMMA CreateCompanyHolds ==
    ASSUME IInv, NEW r \in Request, NEW c \in Company, CreateCompany(r, c)
    PROVE  IInv'
<1>1. PICK row \in Row, codes \in (SUBSET Code) \ {{}}, list \in Lists(StaffRole) :
          /\ companies' = [companies EXCEPT ![c] = row]
          /\ industries' = [industries EXCEPT ![c] = [k \in codes |-> FALSE]]
          /\ roles' = [roles EXCEPT ![c] = list]
  BY DEF CreateCompany
<1>2. /\ companies[c] = Absent
      /\ facts' = facts /\ flags' = flags /\ pinned' = pinned
      /\ pc' = pc /\ request' = request
  BY DEF CreateCompany
<1>3. row \notin {Absent, Deleted}
  BY RowsAssumption
<1>4. [k \in codes |-> FALSE] \in Marks
  BY DEF Marks
<1>5. PICK marks \in Marks : marks = [k \in codes |-> FALSE]
  BY <1>4
<1>6. /\ companies' \in [Company -> Row \cup {Absent, Deleted}]
      /\ industries' \in [Company -> Marks]
      /\ roles' \in [Company -> Lists(StaffRole)]
      /\ \A d \in Company \ {c} : /\ companies'[d] = companies[d]
                                  /\ industries'[d] = industries[d] /\ roles'[d] = roles[d]
      /\ companies'[c] = row
  BY <1>1, <1>5 DEF IInv, TypeOK
<1>7. \A d \in Company : Exists(d) => Exists(d)'
  BY <1>2, <1>3, <1>6 DEF Exists
<1>8. ASSUME NEW d \in Company
      PROVE  /\ ~Exists(d)' => industries'[d] = NoRows /\ roles'[d] = NoRows /\ flags'[d] = Absent
             /\ d \in pinned' => Exists(d)'
  <2>1. CASE d = c
    BY <1>3, <1>6, <2>1 DEF Exists
  <2>2. CASE d # c
    BY <1>2, <1>6, <1>7, <2>2 DEF IInv, TypeOK, Exists
  <2> QED BY <2>1, <2>2
<1>9. ASSUME NEW f \in Fact, Stored(f)'
      PROVE  (Exists(facts[f].company) /\ Checked(f, facts[f]))'
  <2>1. Stored(f) /\ facts'[f] = facts[f] /\ facts[f].company \in Company
    BY <1>2, <1>9 DEF IInv, TypeOK, Stored, Dates
  <2> QED BY <1>7, <2>1 DEF IInv, TypeOK
<1>a. TypeOK'
  BY <1>2, <1>6, <1>8, <1>9 DEF IInv, TypeOK
<1>b. \A d \in Company : companies[d] = Deleted => companies'[d] = Deleted
  BY <1>2, <1>6, Absences
<1>c. FlagsStay'
  BY <1>2, <1>b DEF IInv, FlagsStay, RequestsHold, Loaded
<1>d. RequestsHold'
  BY <1>2 DEF IInv, RequestsHold
<1> QED BY <1>a, <1>c, <1>d DEF IInv

LEMMA LoadCompanyHolds ==
    ASSUME IInv, NEW r \in Request, LoadCompany(r)
    PROVE  IInv'
<1>1. PICK c \in Company : Exists(c) /\ \E q \in CompanyRequest(c) :
          request' = [request EXCEPT ![r] =
              [Idle EXCEPT !.op = q[1], !.company = c, !.payload = q[2], !.seen = Profile(c)]]
  BY DEF LoadCompany
<1>2. PICK o \in CompanyRequest(c) : request' = [request EXCEPT ![r] =
          [Idle EXCEPT !.op = o[1], !.company = c, !.payload = o[2], !.seen = Profile(c)]]
  BY <1>1
<1>3. PICK q : q = [Idle EXCEPT !.op = o[1], !.company = c, !.payload = o[2],
                                !.seen = Profile(c)]
  OBVIOUS
<1>4. /\ DOMAIN q = Field /\ q = [k \in Field |-> q[k]]
      /\ q.op = o[1] /\ q.company = c /\ q.payload = o[2] /\ q.seen = Profile(c)
  BY <1>3 DEF Idle, Field
<1>5. SeenProfile(q.seen) /\ q.seen.industries = industries[c]
  <2>1. companies[c] \in Row
    BY <1>1 DEF IInv, TypeOK, Exists
  <2> QED BY <1>4, <2>1 DEF SeenProfile, Profile, IInv, TypeOK
<1>6. \/ o[1] = "patch" /\ o[2] \in CompanyUpdate
      \/ o[1] = "verify" /\ o[2] \in (DOMAIN industries[c]) \X BOOLEAN
      \/ o[1] = "delete"
  BY DEF CompanyRequest
<1>7. Loaded(q) /\ q.op # "flags"
  <2>1. CASE o[1] = "patch" /\ o[2] \in CompanyUpdate
    BY <1>4, <1>5, <2>1 DEF Loaded
  <2>2. CASE o[1] = "verify" /\ o[2] \in (DOMAIN industries[c]) \X BOOLEAN
    <3>1. q.payload[1] \in DOMAIN industries[c] /\ q.payload[2] \in BOOLEAN
      BY <1>4, <2>2
    <3> QED BY <1>4, <1>5, <2>2, <3>1 DEF Loaded
  <2>3. CASE o[1] = "delete"
    BY <1>4, <1>5, <2>3 DEF Loaded
  <2> QED BY <1>6, <2>1, <2>2, <2>3
<1>8. /\ request' = [request EXCEPT ![r] = q] /\ pc' = [pc EXCEPT ![r] = "loaded"]
      /\ UNCHANGED <<tables, pinned>>
  BY <1>2, <1>3 DEF LoadCompany
<1>9. "loaded" \in Stage /\ "loaded" \notin Judging
  BY Stages DEF Stage
<1> QED BY <1>4, <1>7, <1>8, <1>9, Reads

\* What UpdateCompany writes, when the database takes it.
LEMMA UpdateCompanyWrites ==
    ASSUME IInv, NEW r \in Request, UpdateCompany(r), ~Refuse(r),
           NEW c, c = request[r].company, NEW p, p = request[r].payload,
           NEW seen, seen = request[r].seen
    PROVE  /\ c \in Company /\ Exists(c) /\ p \in CompanyUpdate /\ SeenProfile(seen)
           /\ companies' = [companies EXCEPT ![c] = Flushed(@, seen.row, Wanted(p, seen.row))]
           /\ industries' = [industries EXCEPT ![c] =
                  IF p.industries = Unset THEN @
                  ELSE Industries(c, DOMAIN seen.industries, p.industries)]
           /\ roles' = [roles EXCEPT ![c] =
                  IF p.roles = Unset THEN @ ELSE Roles(c, DOMAIN seen.roles, p.roles)]
           /\ Answer(r)
           /\ UNCHANGED <<facts, flags, pinned>>
<1>1. Loaded(request[r]) /\ request[r].op = "patch"
  BY DEF UpdateCompany, Ready, IInv, RequestsHold
<1>2. c \in Company /\ p \in CompanyUpdate /\ SeenProfile(seen)
  BY <1>1 DEF Loaded
<1>3. ~UpdateRefused(c, p, seen)
  BY DEF UpdateCompany
<1>4. Exists(c)
  BY <1>3 DEF UpdateRefused
<1> QED BY <1>2, <1>3, <1>4 DEF UpdateCompany

\* The lists that come of it are lists.
LEMMA UpdatedLists ==
    ASSUME TypeOK, NEW c \in Company, NEW p \in CompanyUpdate, NEW seen, SeenProfile(seen)
    PROVE  /\ (IF p.industries = Unset THEN industries[c]
               ELSE Industries(c, DOMAIN seen.industries, p.industries)) \in Marks
           /\ (IF p.roles = Unset THEN roles[c]
               ELSE Roles(c, DOMAIN seen.roles, p.roles)) \in Lists(StaffRole)
           /\ Exists(c) => Flushed(companies[c], seen.row, Wanted(p, seen.row)) \in Row
<1>1. p.industries \in SUBSET Code \/ p.industries = Unset
  BY DEF CompanyUpdate
<1>2. p.roles \in Lists(StaffRole) \/ p.roles = Unset
  BY DEF CompanyUpdate
<1>3. p.number \in Number \cup {Absent, Unset}
  BY DEF CompanyUpdate
<1>4. Wanted(p, seen.row) \in Row /\ seen.row \in Row
  BY <1>3 DEF Wanted, Given, Row, SeenProfile
<1>5. Exists(c) => companies[c] \in Row
  BY DEF TypeOK, Exists
<1>6. industries[c] \in Marks /\ roles[c] \in Lists(StaffRole)
  BY DEF TypeOK
<1> QED BY <1>1, <1>2, <1>4, <1>5, <1>6, FlushedRow, IndustriesType, RolesType

LEMMA UpdateCompanyHolds ==
    ASSUME IInv, NEW r \in Request, UpdateCompany(r)
    PROVE  IInv'
<1>1. CASE Refuse(r)
  BY <1>1, RefusalHolds
<1>2. CASE ~Refuse(r)
  <2>1. PICK c, p, seen : /\ c = request[r].company /\ p = request[r].payload
                          /\ seen = request[r].seen
    OBVIOUS
  <2>2. /\ c \in Company /\ Exists(c) /\ p \in CompanyUpdate /\ SeenProfile(seen)
        /\ companies' = [companies EXCEPT ![c] = Flushed(@, seen.row, Wanted(p, seen.row))]
        /\ industries' = [industries EXCEPT ![c] =
               IF p.industries = Unset THEN @
               ELSE Industries(c, DOMAIN seen.industries, p.industries)]
        /\ roles' = [roles EXCEPT ![c] =
               IF p.roles = Unset THEN @ ELSE Roles(c, DOMAIN seen.roles, p.roles)]
        /\ Answer(r)
        /\ UNCHANGED <<facts, flags, pinned>>
    BY <1>2, <2>1, UpdateCompanyWrites
  <2>3. PICK row, marks, list :
          /\ row = Flushed(companies[c], seen.row, Wanted(p, seen.row))
          /\ marks = IF p.industries = Unset THEN industries[c]
                     ELSE Industries(c, DOMAIN seen.industries, p.industries)
          /\ list = IF p.roles = Unset THEN roles[c]
                    ELSE Roles(c, DOMAIN seen.roles, p.roles)
    OBVIOUS
  <2>4. row \in Row /\ marks \in Marks /\ list \in Lists(StaffRole)
    BY <2>2, <2>3, UpdatedLists DEF IInv
  <2>5. /\ companies' = [companies EXCEPT ![c] = row]
        /\ industries' = [industries EXCEPT ![c] = marks]
        /\ roles' = [roles EXCEPT ![c] = list]
    BY <2>2, <2>3
  <2>6. row \notin {Absent, Deleted}
    BY <2>4, RowsAssumption
  <2>7. \A d \in Company : Exists(d)' <=> Exists(d)
    BY <2>2, <2>5, <2>6 DEF Exists, IInv, TypeOK
  <2>8. /\ companies' \in [Company -> Row \cup {Absent, Deleted}]
        /\ industries' \in [Company -> Marks]
        /\ roles' \in [Company -> Lists(StaffRole)]
        /\ \A d \in Company \ {c} : industries'[d] = industries[d] /\ roles'[d] = roles[d]
    BY <2>4, <2>5 DEF IInv, TypeOK
  <2>9. ASSUME NEW d \in Company
        PROVE  /\ ~Exists(d)' =>
                     industries'[d] = NoRows /\ roles'[d] = NoRows /\ flags'[d] = Absent
               /\ d \in pinned' => Exists(d)'
    <3>1. CASE d = c
      BY <2>2, <2>7, <3>1
    <3>2. CASE d # c
      BY <2>2, <2>7, <2>8, <3>2 DEF IInv, TypeOK
    <3> QED BY <3>1, <3>2
  <2>a. ASSUME NEW f \in Fact, Stored(f)'
        PROVE  (Exists(facts[f].company) /\ Checked(f, facts[f]))'
    <3>1. Stored(f) /\ facts'[f] = facts[f] /\ facts[f].company \in Company
      BY <2>2, <2>a DEF IInv, TypeOK, Stored, Dates
    <3> QED BY <2>7, <3>1 DEF IInv, TypeOK
  <2>b. pc' \in [Request -> Stage]
    BY <2>2, Answers DEF IInv
  <2>c. TypeOK'
    BY <2>2, <2>8, <2>9, <2>a, <2>b, Stages DEF IInv, TypeOK
  <2>d. \A d \in Company : companies[d] = Deleted => companies'[d] = Deleted
    BY <2>2, <2>5 DEF Exists, IInv, TypeOK
  <2> QED BY <2>2, <2>c, <2>d, Writes
<1> QED BY <1>1, <1>2

LEMMA VerifyIndustryHolds ==
    ASSUME IInv, NEW r \in Request, VerifyIndustry(r)
    PROVE  IInv'
<1> DEFINE c == request[r].company
           k == request[r].payload[1]
           mark == request[r].payload[2]
<1>1. c \in Company /\ mark \in BOOLEAN
  BY DEF VerifyIndustry, Ready, IInv, RequestsHold, Loaded
<1>2. CASE Refuse(r)
  BY <1>2, RefusalHolds
<1>3. CASE Answer(r) /\ UNCHANGED <<tables, pinned>>
  BY <1>3, Ends
<1>4. CASE /\ k \in DOMAIN industries[c]
           /\ industries' = [industries EXCEPT ![c][k] = mark]
           /\ Answer(r)
           /\ UNCHANGED <<companies, roles, facts, flags, pinned>>
  <2>0. industries[c] \in Marks
    BY <1>1 DEF IInv, TypeOK
  <2>1. PICK S \in SUBSET Code : industries[c] \in [S -> BOOLEAN]
    BY <2>0 DEF Marks
  <2>2. PICK marks : marks = [industries[c] EXCEPT ![k] = mark]
    OBVIOUS
  <2>3. marks \in Marks
    BY <1>1, <2>1, <2>2 DEF Marks
  <2>4. industries' = [industries EXCEPT ![c] = marks]
    BY <1>4, <2>2
  <2>5. Exists(c)
    BY <1>1, <1>4, NoRowsType DEF IInv, TypeOK
  <2>6. industries' \in [Company -> Marks]
        /\ \A d \in Company : ~Exists(d) => industries'[d] = industries[d]
    BY <2>3, <2>4, <2>5 DEF IInv, TypeOK
  <2>7. pc' \in [Request -> Stage]
    BY <1>4, Answers DEF IInv
  <2>8. TypeOK'
    BY <1>4, <2>6, <2>7, Stages DEF IInv, TypeOK, Exists, Stored
  <2> QED BY <1>4, <2>8, Writes
<1> QED BY <1>2, <1>3, <1>4 DEF VerifyIndustry

LEMMA DeleteCompanyHolds ==
    ASSUME IInv, NEW r \in Request, DeleteCompany(r)
    PROVE  IInv'
<1>1. PICK c \in Company : c = request[r].company
  BY DEF DeleteCompany, Ready, IInv, RequestsHold, Loaded
<1>2. CASE Refuse(r)
  BY <1>2, RefusalHolds
<1>3. CASE ~Refuse(r)
  <2>1. /\ c \notin pinned
        /\ companies' = [companies EXCEPT ![c] = Deleted]
        /\ industries' = [industries EXCEPT ![c] = NoRows]
        /\ roles' = [roles EXCEPT ![c] = NoRows]
        /\ facts' = [f \in Fact |-> IF f \in FactsOf(c) THEN Deleted ELSE facts[f]]
        /\ flags' = [flags EXCEPT ![c] = Absent]
        /\ Answer(r)
        /\ pinned' = pinned
    BY <1>1, <1>3 DEF DeleteCompany
  <2>2. PICK none : none = NoRows
    OBVIOUS
  <2>3. none \in Marks /\ none \in Lists(StaffRole)
    BY <2>2, NoRowsType
  <2>4. /\ industries' = [industries EXCEPT ![c] = none] /\ roles' = [roles EXCEPT ![c] = none]
    BY <2>1, <2>2
  <2>5. /\ companies' \in [Company -> Row \cup {Absent, Deleted}]
        /\ industries' \in [Company -> Marks]
        /\ roles' \in [Company -> Lists(StaffRole)]
        /\ flags' \in [Company -> [Part -> BOOLEAN] \cup {Absent}]
    BY <2>1, <2>3, <2>4 DEF IInv, TypeOK
  <2>6. facts' \in [Fact -> Dates \cup {Absent, Deleted}]
    BY <2>1 DEF IInv, TypeOK
  <2>7. /\ companies'[c] = Deleted /\ industries'[c] = none /\ roles'[c] = none
        /\ flags'[c] = Absent
        /\ \A d \in Company \ {c} : /\ companies'[d] = companies[d] /\ roles'[d] = roles[d]
                                    /\ industries'[d] = industries[d] /\ flags'[d] = flags[d]
    BY <2>1, <2>4 DEF IInv, TypeOK
  <2>8. ASSUME NEW d \in Company
        PROVE  /\ ~Exists(d)' =>
                     industries'[d] = NoRows /\ roles'[d] = NoRows /\ flags'[d] = Absent
               /\ d \in pinned' => Exists(d)'
    <3>1. CASE d = c
      BY <2>1, <2>2, <2>7, <3>1
    <3>2. CASE d # c
      <4>1. Exists(d)' <=> Exists(d)
        BY <2>7, <3>2 DEF Exists
      <4> QED BY <2>1, <2>7, <3>2, <4>1 DEF IInv, TypeOK
    <3> QED BY <3>1, <3>2
  <2>9. ASSUME NEW f \in Fact, Stored(f)'
        PROVE  (Exists(facts[f].company) /\ Checked(f, facts[f]))'
    <3>1. f \notin FactsOf(c) /\ facts'[f] = facts[f]
      BY <2>1, <2>9 DEF Stored
    <3>2. Stored(f)
      BY <2>9, <3>1 DEF Stored
    <3>3. facts[f].company \in Company \ {c}
      BY <3>1, <3>2 DEF FactsOf, Stored, IInv, TypeOK, Dates
    <3>4. companies'[facts[f].company] = companies[facts[f].company]
      BY <2>7, <3>3
    <3> QED BY <3>1, <3>2, <3>4 DEF IInv, TypeOK, Exists
  <2>a. pc' \in [Request -> Stage]
    BY <2>1, Answers DEF IInv
  <2>b. TypeOK'
    BY <2>1, <2>5, <2>6, <2>8, <2>9, <2>a, Stages DEF IInv, TypeOK
  <2>c. \A d \in Company :
          /\ companies[d] = Deleted => companies'[d] = Deleted
          /\ flags[d] \in [Part -> BOOLEAN] =>
                 flags'[d] \in [Part -> BOOLEAN] \/ companies'[d] = Deleted
    BY <2>7
  <2> QED BY <2>1, <2>b, <2>c, Writes
<1> QED BY <1>2, <1>3

-----------------------------------------------------------------------------
(* Performances and certifications *)

LEMMA LoadForCreateHolds ==
    ASSUME IInv, NEW r \in Request, LoadForCreate(r)
    PROVE  IInv'
<1>1. PICK f \in Fact : \E x \in DatesOf(f) :
          /\ InOrder(f, x) /\ Exists(x.company)
          /\ request' = [request EXCEPT ![r] =
                 [Idle EXCEPT !.op = "create", !.company = x.company, !.fact = f,
                              !.payload = x, !.seen = companies[x.company]]]
  BY DEF LoadForCreate
<1>2. PICK d \in DatesOf(f) :
          /\ InOrder(f, d)
          /\ request' = [request EXCEPT ![r] =
                 [Idle EXCEPT !.op = "create", !.company = d.company, !.fact = f,
                              !.payload = d, !.seen = companies[d.company]]]
  BY <1>1
<1>3. PICK q : q = [Idle EXCEPT !.op = "create", !.company = d.company, !.fact = f,
                                !.payload = d, !.seen = companies[d.company]]
  OBVIOUS
<1>4. /\ DOMAIN q = Field /\ q = [k \in Field |-> q[k]]
      /\ q.op = "create" /\ q.company = d.company /\ q.fact = f /\ q.payload = d
  BY <1>3 DEF Idle, Field
<1>5. d.company \in Company
  BY <1>2 DEF DatesOf, Dates
<1>6. Loaded(q)
  BY <1>2, <1>4, <1>5 DEF Loaded
<1>7. /\ request' = [request EXCEPT ![r] = q] /\ pc' = [pc EXCEPT ![r] = "loaded"]
      /\ UNCHANGED <<tables, pinned>>
  BY <1>2, <1>3 DEF LoadForCreate
<1>8. "loaded" \in Stage /\ "loaded" \notin Judging
  BY Stages DEF Stage
<1> QED BY <1>4, <1>6, <1>7, <1>8, Reads

LEMMA LoadFactHolds ==
    ASSUME IInv, NEW r \in Request, LoadFact(r)
    PROVE  IInv'
<1>1. PICK f \in Fact : \E x \in FactUpdate(f) :
          /\ Stored(f)
          /\ request' = [request EXCEPT ![r] =
                 [Idle EXCEPT !.op = "fact", !.company = facts[f].company, !.fact = f,
                              !.payload = x, !.seen = facts[f]]]
  BY DEF LoadFact
<1>2. PICK p \in FactUpdate(f) :
          /\ Stored(f)
          /\ request' = [request EXCEPT ![r] =
                 [Idle EXCEPT !.op = "fact", !.company = facts[f].company, !.fact = f,
                              !.payload = p, !.seen = facts[f]]]
  BY <1>1
<1>3. PICK q : q = [Idle EXCEPT !.op = "fact", !.company = facts[f].company, !.fact = f,
                                !.payload = p, !.seen = facts[f]]
  OBVIOUS
<1>4. /\ DOMAIN q = Field /\ q = [k \in Field |-> q[k]] /\ q.op = "fact"
      /\ q.company = facts[f].company /\ q.fact = f /\ q.payload = p /\ q.seen = facts[f]
  BY <1>3 DEF Idle, Field
<1>5. facts[f] \in Dates /\ facts[f].company \in Company
  BY <1>2 DEF IInv, TypeOK, Stored, Dates
<1>6. Loaded(q)
  BY <1>2, <1>4, <1>5 DEF Loaded
<1>7. /\ request' = [request EXCEPT ![r] = q] /\ pc' = [pc EXCEPT ![r] = "loaded"]
      /\ UNCHANGED <<tables, pinned>>
  BY <1>2, <1>3 DEF LoadFact
<1>8. "loaded" \in Stage /\ "loaded" \notin Judging
  BY Stages DEF Stage
<1> QED BY <1>4, <1>6, <1>7, <1>8, Reads

\* A fact becomes dates that are in order, of a company that is there, or goes.
LEMMA WritesFact ==
    ASSUME IInv, NEW r \in Request, Answer(r), NEW f \in Fact,
           NEW d \in Dates \cup {Deleted},
           d \in Dates => Exists(d.company) /\ Checked(f, d),
           facts' = [facts EXCEPT ![f] = d],
           UNCHANGED <<companies, industries, roles, flags, pinned>>
    PROVE  IInv'
<1>1. /\ facts' \in [Fact -> Dates \cup {Absent, Deleted}]
      /\ facts'[f] = d /\ \A g \in Fact \ {f} : facts'[g] = facts[g]
  BY DEF IInv, TypeOK
<1>2. ASSUME NEW g \in Fact, Stored(g)'
      PROVE  (Exists(facts[g].company) /\ Checked(g, facts[g]))'
  <2>1. CASE g = f
    <3>1. d \in Dates
      BY <1>1, <1>2, <2>1 DEF Stored
    <3> QED BY <1>1, <2>1, <3>1 DEF Exists
  <2>2. CASE g # f
    <3>1. facts'[g] = facts[g] /\ Stored(g)
      BY <1>1, <1>2, <2>2 DEF Stored
    <3> QED BY <3>1 DEF IInv, TypeOK, Exists
  <2> QED BY <2>1, <2>2
<1>3. pc' \in [Request -> Stage]
  BY Answers DEF IInv
<1>4. TypeOK'
  BY <1>1, <1>2, <1>3, Stages DEF IInv, TypeOK, Exists
<1> QED BY <1>4, Writes

LEMMA CreateFactHolds ==
    ASSUME IInv, NEW r \in Request, CreateFact(r)
    PROVE  IInv'
<1>1. CASE Refuse(r)
  BY <1>1, RefusalHolds
<1>2. CASE ~Refuse(r)
  <2>1. PICK f, d : f = request[r].fact /\ d = request[r].payload
    OBVIOUS
  <2>2. f \in Fact /\ d \in Dates
    BY <2>1 DEF CreateFact, Ready, IInv, RequestsHold, Loaded, DatesOf
  <2>3. /\ Exists(d.company) /\ Checked(f, d)
        /\ facts' = [facts EXCEPT ![f] = d]
        /\ Answer(r) /\ UNCHANGED <<companies, industries, roles, flags, pinned>>
    BY <1>2, <2>1 DEF CreateFact
  <2> QED BY <2>2, <2>3, WritesFact
<1> QED BY <1>1, <1>2

\* What an update of a fact has read and what it wants.
LEMMA UpdateOfFact ==
    ASSUME IInv, NEW r \in Request, Ready(r, "fact"),
           NEW f, f = request[r].fact, NEW p, p = request[r].payload,
           NEW seen, seen = request[r].seen, NEW new, new = Updated(f, p, seen)
    PROVE  /\ f \in Fact /\ p \in FactUpdate(f) /\ seen \in Dates /\ new \in Dates
           /\ new.company = seen.company
           /\ Stored(f) => facts[f] \in Dates /\ Exists(facts[f].company)
<1>1. f \in Fact /\ p \in FactUpdate(f) /\ seen \in Dates
  BY DEF Ready, IInv, RequestsHold, Loaded
<1>2. new \in Dates /\ new.company = seen.company
  BY <1>1, UpdatedType
<1> QED BY <1>1, <1>2 DEF IInv, TypeOK, Stored

LEMMA UpdateFactHolds ==
    ASSUME IInv, NEW r \in Request, UpdateFact(r)
    PROVE  IInv'
<1>1. PICK f, p, seen, new : /\ f = request[r].fact /\ p = request[r].payload
                             /\ seen = request[r].seen /\ new = Updated(f, p, seen)
  OBVIOUS
<1>2. /\ f \in Fact /\ seen \in Dates /\ new \in Dates /\ new.company = seen.company
      /\ Stored(f) => facts[f] \in Dates /\ Exists(facts[f].company)
  BY <1>1, UpdateOfFact DEF UpdateFact
<1>3. CASE Refuse(r)
  BY <1>3, RefusalHolds
<1>4. CASE Answer(r) /\ UNCHANGED <<tables, pinned>>
  BY <1>4, Ends
<1>5. CASE /\ Stored(f) /\ Checked(f, Flushed(facts[f], seen, new))
           /\ facts' = [facts EXCEPT ![f] = Flushed(@, seen, new)]
           /\ Answer(r)
           /\ UNCHANGED <<companies, industries, roles, flags, pinned>>
  <2>1. PICK row : row = facts[f]
    OBVIOUS
  <2>2. PICK d : d = Flushed(row, seen, new)
    OBVIOUS
  <2>3. row \in Dates
    BY <1>2, <1>5, <2>1
  <2>4. d \in Dates /\ d.company = row.company
    BY <1>2, <2>2, <2>3, FlushedDates
  <2>5. Exists(d.company) /\ Checked(f, d) /\ facts' = [facts EXCEPT ![f] = d]
    BY <1>2, <1>5, <2>1, <2>2, <2>4
  <2> QED BY <1>2, <1>5, <2>4, <2>5, WritesFact
<1> QED BY <1>1, <1>3, <1>4, <1>5 DEF UpdateFact

LEMMA DeleteFactHolds ==
    ASSUME IInv, NEW r \in Request, DeleteFact(r)
    PROVE  IInv'
<1>1. PICK f \in Fact : f = request[r].fact
  BY DEF DeleteFact, Ready, IInv, RequestsHold, Loaded
<1>2. PICK d : d = Deleted
  OBVIOUS
<1>3. d \notin Dates
  BY <1>2, RowsAssumption
<1> QED BY <1>1, <1>2, <1>3, WritesFact DEF DeleteFact

-----------------------------------------------------------------------------
(* Completeness *)

LEMMA LoadFlagsHolds ==
    ASSUME IInv, NEW r \in Request, LoadFlags(r)
    PROVE  IInv'
<1>1. PICK c \in Company, p \in [Part -> BOOLEAN \cup {Unset}] :
          request' = [request EXCEPT ![r] =
              [Idle EXCEPT !.op = "flags", !.company = c, !.payload = p, !.seen = flags[c]]]
  BY DEF LoadFlags
<1>2. PICK q : q = [Idle EXCEPT !.op = "flags", !.company = c, !.payload = p,
                                !.seen = flags[c]]
  OBVIOUS
<1>3. /\ DOMAIN q = Field /\ q = [k \in Field |-> q[k]]
      /\ q.op = "flags" /\ q.company = c /\ q.payload = p /\ q.seen = flags[c]
  BY <1>2 DEF Idle, Field
<1>4. flags[c] \in [Part -> BOOLEAN] \cup {Absent}
  BY DEF IInv, TypeOK
<1>5. Loaded(q)
  BY <1>3, <1>4 DEF Loaded
<1>6. /\ request' = [request EXCEPT ![r] = q] /\ pc' = [pc EXCEPT ![r] = "loaded"]
      /\ UNCHANGED <<tables, pinned>>
  BY <1>1, <1>2 DEF LoadFlags
<1>7. "loaded" \in Stage /\ "loaded" \notin Judging
  BY Stages DEF Stage
<1> QED BY <1>3, <1>5, <1>6, <1>7, Reads

LEMMA UpdateFlagsHolds ==
    ASSUME IInv, NEW r \in Request, UpdateFlags(r)
    PROVE  IInv'
<1>1. CASE Refuse(r)
  BY <1>1, RefusalHolds
<1>2. CASE ~Refuse(r)
  <2>1. PICK c, p, seen : /\ c = request[r].company /\ p = request[r].payload
                          /\ seen = request[r].seen
    OBVIOUS
  <2>2. /\ c \in Company /\ p \in [Part -> BOOLEAN \cup {Unset}]
        /\ seen \in [Part -> BOOLEAN] \cup {Absent}
    BY <2>1 DEF UpdateFlags, Ready, IInv, RequestsHold, Loaded
  <2>3. PICK new : new = [k \in Part |-> Given(p[k], Declared(seen)[k])]
    OBVIOUS
  <2>4. new \in [Part -> BOOLEAN]
    <3>1. Declared(seen) \in [Part -> BOOLEAN]
      BY <2>2 DEF Declared, Undeclared
    <3> QED BY <2>2, <2>3, <3>1 DEF Given
  <2>5. PICK record : record = IF seen = Absent THEN new
                               ELSE IF new = seen THEN flags[c]
                               ELSE Flushed(flags[c], seen, new)
    OBVIOUS
  <2>6. /\ Exists(c) \/ new = seen
        /\ flags' = [flags EXCEPT ![c] = record]
        /\ Answer(r) /\ UNCHANGED <<companies, industries, roles, facts, pinned>>
    BY <1>2, <2>1, <2>3, <2>5 DEF UpdateFlags
  <2>7. /\ record \in [Part -> BOOLEAN] \cup {Absent}
        /\ flags[c] \in [Part -> BOOLEAN] => record \in [Part -> BOOLEAN]
        /\ ~Exists(c) => record = Absent
    <3>1. flags[c] \in [Part -> BOOLEAN] \cup {Absent} /\ (~Exists(c) => flags[c] = Absent)
      BY <2>2 DEF IInv, TypeOK
    <3>2. CASE seen = Absent
      BY <2>4, <2>5, <2>6, <3>2
    <3>3. CASE seen # Absent /\ new = seen
      BY <2>5, <3>1, <3>3
    <3>4. CASE seen # Absent /\ new # seen
      <4>1. Exists(c) /\ seen \in [Part -> BOOLEAN]
        BY <2>2, <2>6, <3>4
      <4>2. flags[c] \in [Part -> BOOLEAN]
        BY <2>1, <4>1 DEF UpdateFlags, Ready, IInv, FlagsStay, Exists
      <4> QED BY <2>4, <2>5, <3>4, <4>1, <4>2, FlushedFlags
    <3> QED BY <3>2, <3>3, <3>4
  <2>8. /\ flags' \in [Company -> [Part -> BOOLEAN] \cup {Absent}]
        /\ flags'[c] = record /\ \A d \in Company \ {c} : flags'[d] = flags[d]
    BY <2>2, <2>6, <2>7 DEF IInv, TypeOK
  <2>9. \A d \in Company : Exists(d)' <=> Exists(d)
    BY <2>6 DEF Exists
  <2>a. \A d \in Company : ~Exists(d)' => flags'[d] = Absent
    BY <2>7, <2>8, <2>9 DEF IInv, TypeOK
  <2>b. pc' \in [Request -> Stage]
    BY <2>6, Answers DEF IInv
  <2>c. TypeOK'
    BY <2>6, <2>8, <2>a, <2>b, Stages DEF IInv, TypeOK, Exists, Stored
  <2>d. \A d \in Company : flags[d] \in [Part -> BOOLEAN] => flags'[d] \in [Part -> BOOLEAN]
    BY <2>7, <2>8
  <2> QED BY <2>6, <2>c, <2>d, Writes
<1> QED BY <1>1, <1>2

-----------------------------------------------------------------------------
(* Judgments *)

LEMMA BeginJudgmentHolds ==
    ASSUME IInv, NEW r \in Request, BeginJudgment(r)
    PROVE  IInv'
<1>1. PICK c \in Company : request' = [request EXCEPT ![r] =
          [Idle EXCEPT !.op = "judge", !.company = c, !.seen = Whole(c)]]
  BY DEF BeginJudgment
<1>2. PICK q : q = [Idle EXCEPT !.op = "judge", !.company = c, !.seen = Whole(c)]
  OBVIOUS
<1>3. /\ DOMAIN q = Field /\ q = [k \in Field |-> q[k]] /\ q.op = "judge" /\ q.company = c
  BY <1>2 DEF Idle, Field
<1>4. /\ request' = [request EXCEPT ![r] = q] /\ pc' = [pc EXCEPT ![r] = "roles"]
      /\ UNCHANGED <<tables, pinned>>
  BY <1>1, <1>2 DEF BeginJudgment
<1>5. "roles" \in Stage /\ "roles" # "loaded"
  BY DEF Stage
<1> QED BY <1>3, <1>4, <1>5, Reads

LEMMA ReadPartHolds ==
    ASSUME IInv, NEW r \in Request, ReadPart(r)
    PROVE  IInv'
<1>1. pc[r] \in Judging /\ request[r].op = "judge" /\ request[r].company \in Company
      /\ DOMAIN request[r] = Field /\ request[r] = [k \in Field |-> request[r][k]]
  BY DEF ReadPart, Judging, IInv, RequestsHold
<1>2. PICK seen : seen = [request[r].seen EXCEPT ![pc[r]] =
                              Whole(request[r].company)[pc[r]]]
  OBVIOUS
<1>3. PICK q : q = [request[r] EXCEPT !.seen = seen]
  OBVIOUS
<1>4. /\ DOMAIN q = Field /\ q = [k \in Field |-> q[k]]
      /\ q.op = "judge" /\ q.company \in Company
  BY <1>1, <1>3 DEF Field
<1>5. PICK stage : stage = Following[pc[r]]
  OBVIOUS
<1>6. stage \in {"facts", "flags", "judged"}
  BY <1>5 DEF ReadPart, Following
<1>7. stage \in Stage /\ stage # "loaded"
  BY <1>6 DEF Stage
<1>8. /\ request' = [request EXCEPT ![r] = q] /\ pc' = [pc EXCEPT ![r] = stage]
      /\ UNCHANGED <<tables, pinned>>
  BY <1>2, <1>3, <1>5 DEF ReadPart
<1> QED BY <1>4, <1>7, <1>8, Reads

LEMMA StoreJudgmentHolds ==
    ASSUME IInv, NEW r \in Request, StoreJudgment(r)
    PROVE  IInv'
<1>1. CASE Refuse(r)
  BY <1>1, RefusalHolds
<1>2. CASE ~Refuse(r)
  <2>1. PICK c \in Company : c = request[r].company
    BY DEF StoreJudgment, Judging, IInv, RequestsHold
  <2>2. /\ Exists(c) /\ pinned' = pinned \cup {c} /\ Answer(r)
        /\ companies' = companies /\ industries' = industries /\ roles' = roles
        /\ facts' = facts /\ flags' = flags
    BY <1>2, <2>1 DEF StoreJudgment, tables
  <2>3. pc' \in [Request -> Stage]
    BY <2>2, Answers DEF IInv
  <2>4. TypeOK'
    BY <2>2, <2>3, Stages DEF IInv, TypeOK, Exists, Stored
  <2> QED BY <2>2, <2>4, Writes
<1> QED BY <1>1, <1>2

-----------------------------------------------------------------------------
(* The invariant *)

LEMMA InitHolds == ASSUME Init PROVE IInv
<1>1. PICK none : none = NoRows
  OBVIOUS
<1>2. none \in Marks /\ none \in Lists(StaffRole)
  BY <1>1, NoRowsType
<1>3. industries = [c \in Company |-> none] /\ roles = [c \in Company |-> none]
  BY <1>1 DEF Init
<1>4. TypeOK
  BY <1>1, <1>2, <1>3 DEF Init, TypeOK, Exists, Stored
<1>5. PICK idle : idle = Idle
  OBVIOUS
<1>6. DOMAIN idle = Field /\ idle = [k \in Field |-> idle[k]]
  BY <1>5 DEF Idle, Field
<1>7. request = [r \in Request |-> idle] /\ pc = [r \in Request |-> "idle"]
  BY <1>5 DEF Init
<1>8. RequestsHold
  BY <1>6, <1>7, Stages DEF RequestsHold
<1>9. FlagsStay
  BY <1>7 DEF FlagsStay
<1> QED BY <1>4, <1>8, <1>9 DEF IInv

LEMMA StepHolds ==
    ASSUME IInv, NEW r \in Request, Step(r)
    PROVE  IInv'
<1>1. CASE Report(r)
  BY <1>1, Ends DEF Report
<1> QED
  BY <1>1, CreateCompanyHolds, LoadCompanyHolds, UpdateCompanyHolds, VerifyIndustryHolds,
     DeleteCompanyHolds, LoadForCreateHolds, CreateFactHolds, LoadFactHolds, UpdateFactHolds,
     DeleteFactHolds, LoadFlagsHolds, UpdateFlagsHolds, BeginJudgmentHolds, ReadPartHolds,
     StoreJudgmentHolds DEF Step

\* Companies, their lists and facts, the flags and every request in flight hold the
\* inductive invariant: what a request has read fits the tables, however they have
\* changed since.
THEOREM Invariance == Spec => []IInv
<1>1. ASSUME IInv, [Next]_vars PROVE IInv'
  <2>1. CASE Next
    BY <1>1, <2>1, StepHolds DEF Next
  <2>2. CASE UNCHANGED vars
    <3>1. UNCHANGED <<companies, industries, roles, facts, flags, pinned, pc, request>>
      BY <2>2 DEF vars, tables
    <3> QED BY <1>1, <3>1 DEF IInv, TypeOK, RequestsHold, FlagsStay, Exists, Stored
  <2> QED BY <1>1, <2>1, <2>2
<1> QED BY <1>1, InitHolds, PTL DEF Spec

\* Nothing is left of a company that has been deleted, a company with judgments is there,
\* and the rows of facts are in order and of companies that are there, although the
\* routers check that before they commit, on rows that may have changed since.
THEOREM TypeCorrect == Spec => []TypeOK
<1>1. IInv => TypeOK
  BY DEF IInv
<1> QED BY <1>1, Invariance, PTL

-----------------------------------------------------------------------------
(* Who is refused *)

\* What RefusedOnlyByRivals excuses.
Excused(r) ==
    \/ ~Untouched(r)
    \/ request[r].op = "patch" /\ Taken(request[r].payload.number, request[r].company)
    \/ request[r].op = "delete" /\ request[r].company \in pinned

\* Only the actions that write refuse.
LEMMA WhoRefuses ==
    ASSUME IInv, NEW r \in Request, pc[r] # "refused", pc'[r] = "refused",
           NEW q \in Request, Step(q)
    PROVE  /\ q = r
           /\ \/ UpdateCompany(r) \/ VerifyIndustry(r) \/ DeleteCompany(r) \/ CreateFact(r)
              \/ UpdateFact(r) \/ UpdateFlags(r) \/ StoreJudgment(r)
<1>1. pc \in [Request -> Stage]
  BY Stages DEF IInv, TypeOK
<1>2. pc' # pc
  OBVIOUS
<1>3. ~\E s \in {"idle", "loaded", "roles", "facts", "flags", "judged"} :
          pc' = [pc EXCEPT ![q] = s]
  BY <1>1
<1>4. ~Answer(q)
  BY <1>3 DEF Answer
<1>6. /\ \A c \in Company : ~CreateCompany(q, c)
      /\ ~LoadCompany(q) /\ ~LoadForCreate(q) /\ ~LoadFact(q) /\ ~DeleteFact(q)
      /\ ~LoadFlags(q) /\ ~BeginJudgment(q) /\ ~Report(q)
  BY <1>2, <1>3, <1>4 DEF CreateCompany, LoadCompany, LoadForCreate, LoadFact, DeleteFact,
     LoadFlags, BeginJudgment, Report
<1>7. ~ReadPart(q)
  <2>1. ASSUME ReadPart(q) PROVE FALSE
    <3>1. Following[pc[q]] \in {"facts", "flags", "judged"}
      BY <2>1 DEF ReadPart, Following
    <3> QED BY <1>3, <2>1, <3>1 DEF ReadPart
  <2> QED BY <2>1
<1>8. \/ UpdateCompany(q) \/ VerifyIndustry(q) \/ DeleteCompany(q) \/ CreateFact(q)
      \/ UpdateFact(q) \/ UpdateFlags(q) \/ StoreJudgment(q)
  BY <1>6, <1>7 DEF Step
<1>9. Refuse(q)
  <2>1. CASE UpdateCompany(q) \/ VerifyIndustry(q) \/ DeleteCompany(q)
    BY <1>4, <2>1 DEF UpdateCompany, VerifyIndustry, DeleteCompany
  <2>2. CASE CreateFact(q) \/ UpdateFact(q)
    BY <1>4, <2>2 DEF CreateFact, UpdateFact
  <2>3. CASE UpdateFlags(q) \/ StoreJudgment(q)
    BY <1>4, <2>3 DEF UpdateFlags, StoreJudgment
  <2> QED BY <1>8, <2>1, <2>2, <2>3
<1>a. q = r
  BY <1>1, <1>9 DEF Refuse
<1> QED BY <1>8, <1>a

\* An update of a company whose row and lists nobody has touched fails on the number only.
LEMMA UpdateCompanyRefusal ==
    ASSUME IInv, NEW r \in Request, UpdateCompany(r), Refuse(r), Untouched(r)
    PROVE  Taken(request[r].payload.number, request[r].company)
<1>1. PICK c, p, seen : /\ c = request[r].company /\ p = request[r].payload
                        /\ seen = request[r].seen
  OBVIOUS
<1>2. request[r].op = "patch" /\ c \in Company /\ p \in CompanyUpdate /\ SeenProfile(seen)
  BY <1>1 DEF UpdateCompany, Ready, IInv, RequestsHold, Loaded
<1>3. seen = Profile(c)
  BY <1>1, <1>2 DEF Untouched
<1>4. seen.row = companies[c] /\ seen.industries = industries[c] /\ seen.roles = roles[c]
  BY <1>3 DEF Profile
<1>5. Exists(c)
  BY <1>2, <1>4, RowsAssumption DEF Exists, SeenProfile
<1>6. ~IndustriesRefused(c, DOMAIN seen.industries, p.industries)
  BY <1>4 DEF IndustriesRefused
<1>7. ~RolesRefused(c, DOMAIN seen.roles, p.roles)
  BY <1>4 DEF RolesRefused
<1>8. UpdateRefused(c, p, seen)
  <2>1. ~Answer(r)
    <3>1. pc'[r] = "refused"
      BY Refuses DEF IInv
    <3> QED BY <3>1, Answers DEF IInv
  <2> QED BY <1>1, <2>1 DEF UpdateCompany
<1> QED BY <1>1, <1>5, <1>6, <1>7, <1>8 DEF UpdateRefused

\* An update of a fact that nobody has touched does not fail.
LEMMA UpdateFactRefusal ==
    ASSUME IInv, NEW r \in Request, UpdateFact(r), Refuse(r)
    PROVE  ~Untouched(r)
<1> SUFFICES ASSUME Untouched(r) PROVE FALSE
  OBVIOUS
<1>1. PICK f, p, seen, new : /\ f = request[r].fact /\ p = request[r].payload
                             /\ seen = request[r].seen /\ new = Updated(f, p, seen)
  OBVIOUS
<1>2. /\ f \in Fact /\ seen \in Dates /\ new \in Dates /\ new.company = seen.company
  BY <1>1, UpdateOfFact DEF UpdateFact
<1>3. seen = facts[f]
  BY <1>1 DEF Untouched, UpdateFact, Ready
<1>4. Stored(f)
  BY <1>2, <1>3, RowsAssumption DEF Stored
<1>5. Flushed(facts[f], seen, new) = new
  BY <1>2, <1>3, FlushedDates
<1>6. ~Answer(r)
  <2>1. pc'[r] = "refused"
    BY Refuses DEF IInv
  <2> QED BY <2>1, Answers DEF IInv
<1>7. InOrder(f, new) /\ ~Checked(f, new)
  BY <1>1, <1>4, <1>5, <1>6 DEF UpdateFact
<1> QED BY <1>2, <1>7, InOrderIsChecked

\* The other requests that write, and judgments.
LEMMA OtherRefusals ==
    ASSUME IInv, NEW r \in Request, Refuse(r),
           \/ VerifyIndustry(r) \/ DeleteCompany(r) \/ CreateFact(r) \/ UpdateFlags(r)
           \/ StoreJudgment(r)
    PROVE  Excused(r)
<1>1. ~Answer(r)
  <2>1. pc'[r] = "refused"
    BY Refuses DEF IInv
  <2> QED BY <2>1, Answers DEF IInv
<1>2. CASE VerifyIndustry(r)
  <2>1. /\ request[r].op = "verify" /\ request[r].payload[1] \in DOMAIN request[r].seen.industries
        /\ request[r].payload[1] \notin DOMAIN industries[request[r].company]
    BY <1>1, <1>2 DEF VerifyIndustry, Ready, IInv, RequestsHold, Loaded
  <2>2. request[r].seen # Profile(request[r].company)
    BY <2>1 DEF Profile
  <2> QED BY <2>1, <2>2 DEF Excused, Untouched
<1>3. CASE DeleteCompany(r)
  BY <1>1, <1>3 DEF DeleteCompany, Ready, Excused
<1>4. CASE CreateFact(r)
  <2>1. PICK f, d : f = request[r].fact /\ d = request[r].payload
    OBVIOUS
  <2>2. /\ request[r].op = "create" /\ f \in Fact /\ d \in Dates /\ InOrder(f, d)
        /\ d.company = request[r].company
    BY <1>4, <2>1 DEF CreateFact, Ready, IInv, RequestsHold, Loaded, DatesOf
  <2>3. ~Exists(d.company) \/ ~Checked(f, d)
    BY <1>1, <1>4, <2>1 DEF CreateFact
  <2>4. ~Exists(request[r].company)
    BY <2>2, <2>3, InOrderIsChecked
  <2> QED BY <2>2, <2>4 DEF Excused, Untouched
<1>5. CASE UpdateFlags(r)
  <2>1. request[r].op = "flags"
    BY <1>5 DEF UpdateFlags, Ready
  <2>2. \/ ~Exists(request[r].company)
        \/ request[r].seen = Absent /\ flags[request[r].company] # Absent
    BY <1>1, <1>5 DEF UpdateFlags
  <2> QED BY <2>1, <2>2 DEF Excused, Untouched
<1>6. CASE StoreJudgment(r)
  <2>1. request[r].op = "judge"
    BY <1>6 DEF StoreJudgment, Judging, IInv, RequestsHold
  <2>2. ~Exists(request[r].company)
    BY <1>1, <1>6 DEF StoreJudgment
  <2> QED BY <2>1, <2>2 DEF Excused, Untouched
<1> QED BY <1>2, <1>3, <1>4, <1>5, <1>6

\* A refusal, as RefusedOnlyByRivals has it.
OnlyByRivals ==
    \A r \in Request : pc[r] # "refused" /\ pc'[r] = "refused" =>
        \/ ~Untouched(r)
        \/ request[r].op = "patch" /\ Taken(request[r].payload.number, request[r].company)
        \/ request[r].op = "delete" /\ request[r].company \in pinned

\* What the routers have validated the database refuses only if another request came in
\* between, the number is another company's, or the company has judgments or users.
THEOREM RefusalsHaveRivals == Spec => RefusedOnlyByRivals
<1>1. ASSUME IInv, Next PROVE OnlyByRivals
  <2> SUFFICES ASSUME NEW r \in Request, pc[r] # "refused", pc'[r] = "refused"
               PROVE  Excused(r)
    BY DEF OnlyByRivals, Excused
  <2>1. PICK q \in Request : Step(q)
    BY <1>1 DEF Next
  <2>2. \/ UpdateCompany(r) \/ VerifyIndustry(r) \/ DeleteCompany(r) \/ CreateFact(r)
        \/ UpdateFact(r) \/ UpdateFlags(r) \/ StoreJudgment(r)
    BY <1>1, <2>1, WhoRefuses
  <2>3. Refuse(r)
    <3>1. ~Answer(r)
      BY <1>1, Answers DEF IInv
    <3>2. CASE UpdateCompany(r) \/ VerifyIndustry(r) \/ DeleteCompany(r)
      BY <3>1, <3>2 DEF UpdateCompany, VerifyIndustry, DeleteCompany
    <3>3. CASE CreateFact(r) \/ UpdateFact(r)
      BY <3>1, <3>3 DEF CreateFact, UpdateFact
    <3>4. CASE UpdateFlags(r) \/ StoreJudgment(r)
      BY <3>1, <3>4 DEF UpdateFlags, StoreJudgment
    <3> QED BY <2>2, <3>2, <3>3, <3>4
  <2>4. CASE UpdateCompany(r)
    BY <1>1, <2>3, <2>4, UpdateCompanyRefusal DEF Excused, UpdateCompany, Ready
  <2>5. CASE UpdateFact(r)
    BY <1>1, <2>3, <2>5, UpdateFactRefusal DEF Excused
  <2> QED BY <1>1, <2>2, <2>3, <2>4, <2>5, OtherRefusals
<1>2. IInv /\ [Next]_vars => [OnlyByRivals]_vars
  BY <1>1
<1> QED BY <1>2, Invariance, PTL DEF Spec, RefusedOnlyByRivals, OnlyByRivals

-----------------------------------------------------------------------------
(* What edits do *)

\* A request that was loaded and is answered took a step that writes.
LEMMA WhoAccepts ==
    ASSUME IInv, NEW r \in Request, pc[r] = "loaded", pc'[r] = "idle",
           NEW q \in Request, Step(q)
    PROVE  /\ q = r
           /\ Answer(r)
           /\ \/ UpdateCompany(r) \/ VerifyIndustry(r) \/ DeleteCompany(r) \/ CreateFact(r)
              \/ UpdateFact(r) \/ DeleteFact(r) \/ UpdateFlags(r)
<1>1. pc \in [Request -> Stage]
  BY Stages DEF IInv, TypeOK
<1>2. ~\E s \in {"loaded", "refused", "roles", "facts", "flags", "judged"} :
          pc' = [pc EXCEPT ![q] = s]
  BY <1>1
<1>3. pc' # pc
  OBVIOUS
<1>4. /\ ~Refuse(q) /\ \A c \in Company : ~CreateCompany(q, c)
      /\ ~LoadCompany(q) /\ ~LoadForCreate(q) /\ ~LoadFact(q)
      /\ ~LoadFlags(q) /\ ~BeginJudgment(q)
  BY <1>2, <1>3 DEF Refuse, CreateCompany, LoadCompany, LoadForCreate, LoadFact,
     LoadFlags, BeginJudgment
<1>5. ~ReadPart(q)
  <2>1. ASSUME ReadPart(q) PROVE FALSE
    <3>1. Following[pc[q]] \in {"facts", "flags", "judged"}
      BY <2>1 DEF ReadPart, Following
    <3> QED BY <1>2, <2>1, <3>1 DEF ReadPart
  <2> QED BY <2>1
<1>6. \/ UpdateCompany(q) \/ VerifyIndustry(q) \/ DeleteCompany(q) \/ CreateFact(q)
      \/ UpdateFact(q) \/ DeleteFact(q) \/ UpdateFlags(q) \/ StoreJudgment(q) \/ Report(q)
  BY <1>4, <1>5 DEF Step
<1>7. Answer(q)
  <2>1. CASE UpdateCompany(q) \/ VerifyIndustry(q) \/ DeleteCompany(q)
    BY <1>4, <2>1 DEF UpdateCompany, VerifyIndustry, DeleteCompany
  <2>2. CASE CreateFact(q) \/ UpdateFact(q) \/ DeleteFact(q)
    BY <1>4, <2>2 DEF CreateFact, UpdateFact, DeleteFact
  <2>3. CASE UpdateFlags(q) \/ StoreJudgment(q) \/ Report(q)
    BY <1>4, <2>3 DEF UpdateFlags, StoreJudgment, Report
  <2> QED BY <1>6, <2>1, <2>2, <2>3
<1>8. q = r
  BY <1>1, <1>7 DEF Answer
<1>9. ~StoreJudgment(r) /\ ~Report(r)
  BY DEF StoreJudgment, Report
<1> QED BY <1>6, <1>7, <1>8, <1>9

LEMMA ListsBecome ==
    ASSUME IInv, NEW r \in Request, UpdateCompany(r), Answer(r)
    PROVE  ListsAsSent(r)
<1>1. PICK c, p, seen : /\ c = request[r].company /\ p = request[r].payload
                        /\ seen = request[r].seen
  OBVIOUS
<1>2. ~Refuse(r)
  <2>1. pc'[r] = "idle"
    BY Answers DEF IInv
  <2> QED BY <2>1, Refuses DEF IInv
<1>3. /\ c \in Company /\ p \in CompanyUpdate /\ SeenProfile(seen)
      /\ industries' = [industries EXCEPT ![c] =
             IF p.industries = Unset THEN @
             ELSE Industries(c, DOMAIN seen.industries, p.industries)]
      /\ roles' = [roles EXCEPT ![c] =
             IF p.roles = Unset THEN @ ELSE Roles(c, DOMAIN seen.roles, p.roles)]
  BY <1>1, <1>2, UpdateCompanyWrites
<1>4. ASSUME p.industries # Unset, seen.industries = industries[c]
      PROVE  DOMAIN industries'[c] = p.industries
  <2>1. p.industries \in SUBSET Code /\ industries[c] \in Marks
    BY <1>3, <1>4 DEF CompanyUpdate, IInv, TypeOK
  <2>2. DOMAIN Industries(c, DOMAIN industries[c], p.industries) = p.industries
    BY <1>3, <2>1, IndustriesType
  <2>3. industries'[c] = Industries(c, DOMAIN industries[c], p.industries)
    BY <1>3, <1>4 DEF IInv, TypeOK
  <2> QED BY <2>2, <2>3
<1>5. ASSUME p.roles # Unset, seen.roles = roles[c]
      PROVE  roles'[c] = p.roles
  <2>1. p.roles \in Lists(StaffRole) /\ roles[c] \in Lists(StaffRole)
    BY <1>3, <1>5 DEF CompanyUpdate, IInv, TypeOK
  <2>2. Roles(c, DOMAIN roles[c], p.roles) = p.roles
    BY <1>3, <2>1, RolesType
  <2>3. roles'[c] = Roles(c, DOMAIN roles[c], p.roles)
    BY <1>3, <1>5 DEF IInv, TypeOK
  <2> QED BY <2>2, <2>3
<1> QED BY <1>1, <1>4, <1>5 DEF ListsAsSent

LEMMA UnsentColumnsStay ==
    ASSUME IInv, NEW r \in Request, UpdateFact(r), Answer(r)
    PROVE  UnsentStays(r)
<1>1. PICK f, p, seen, new : /\ f = request[r].fact /\ p = request[r].payload
                             /\ seen = request[r].seen /\ new = Updated(f, p, seen)
  OBVIOUS
<1>2. /\ f \in Fact /\ p \in FactUpdate(f) /\ seen \in Dates /\ new \in Dates
      /\ new.company = seen.company
      /\ Stored(f) => facts[f] \in Dates
  BY <1>1, UpdateOfFact DEF UpdateFact
<1>3. /\ p.start = Unset => new.start = seen.start
      /\ {p.end, p.year} = {Unset} => new.end = seen.end /\ new.year = seen.year
  BY <1>1, <1>2, UpdatedType
<1>4. CASE UNCHANGED <<tables, pinned>>
  BY <1>1, <1>4 DEF tables, UnsentStays
<1>5. CASE ~UNCHANGED <<tables, pinned>>
  <2>1. ~Refuse(r)
    BY <1>5 DEF Refuse
  <2>2. Stored(f) /\ facts' = [facts EXCEPT ![f] = Flushed(@, seen, new)]
    BY <1>1, <1>5, <2>1 DEF UpdateFact
  <2>3. facts'[f] = Flushed(facts[f], seen, new)
    BY <1>2, <2>2 DEF IInv, TypeOK
  <2>4. \A k \in {"start", "end", "year"} : new[k] = seen[k] => facts'[f][k] = facts[f][k]
    BY <1>2, <2>2, <2>3, FlushedDates
  <2> QED BY <1>1, <1>3, <2>4 DEF UnsentStays
<1> QED BY <1>4, <1>5

\* An accepted edit, as EditsAsSent has it.
AsSent ==
    \A r \in Request : /\ Accepted(r, "patch") => ListsAsSent(r)
                       /\ Accepted(r, "fact") => UnsentStays(r)

\* A list that nobody else has changed becomes the list that was sent, and a column that
\* was not sent stays as it is in the table, also where another edit has changed it since
\* the request read it.
THEOREM EditsDoAsSent == Spec => EditsAsSent
<1>1. ASSUME IInv, Next PROVE AsSent
  <2>1. PICK q \in Request : Step(q)
    BY <1>1 DEF Next
  <2>2. ASSUME NEW r \in Request, Accepted(r, "patch")
        PROVE  ListsAsSent(r)
    <3>1. UpdateCompany(r) /\ Answer(r)
      BY <1>1, <2>1, <2>2, WhoAccepts DEF Accepted, VerifyIndustry, DeleteCompany,
         CreateFact, UpdateFact, DeleteFact, UpdateFlags, Ready
    <3> QED BY <1>1, <3>1, ListsBecome
  <2>3. ASSUME NEW r \in Request, Accepted(r, "fact")
        PROVE  UnsentStays(r)
    <3>1. Answer(r) /\ (UpdateFact(r) \/ DeleteFact(r))
      BY <1>1, <2>1, <2>3, WhoAccepts DEF Accepted, VerifyIndustry, DeleteCompany,
         CreateFact, UpdateCompany, UpdateFlags, Ready
    <3>2. CASE UpdateFact(r)
      BY <1>1, <3>1, <3>2, UnsentColumnsStay
    <3>3. CASE DeleteFact(r)
      <4>1. request[r].fact \in Fact /\ facts' = [facts EXCEPT ![request[r].fact] = Deleted]
        BY <1>1, <3>3 DEF DeleteFact, Ready, IInv, RequestsHold, Loaded
      <4>2. facts'[request[r].fact] = Deleted
        BY <1>1, <4>1 DEF IInv, TypeOK
      <4> QED BY <4>2 DEF UnsentStays
    <3> QED BY <3>1, <3>2, <3>3
  <2> QED BY <2>2, <2>3 DEF AsSent
<1>2. IInv /\ [Next]_vars => [AsSent]_vars
  BY <1>1
<1> QED BY <1>2, Invariance, PTL DEF Spec, EditsAsSent, AsSent

-----------------------------------------------------------------------------
(* RequirementJudgment *)

\* What an askable requirement is compared with is there.
LEMMA AskableCompares ==
    ASSUME Askable(rq), NEW observed
    PROVE  /\ rq.value # None /\ rq.operator # "RANGE"
           /\ rq.operator \in {">=", ">", "<=", "<", "=", "MATCH"}
           /\ Compare(observed, rq.operator, rq.value) \in {"yes", "no"}
           /\ ~Numeric(rq) => Matchable(rq)
<1>1. rq.value # None /\ rq.operator # "RANGE" /\ rq.operator \in AllowedOperators(rq)
  BY DEF Askable
<1>2. /\ rq.operator \in {">=", ">", "<=", "<", "=", "MATCH"}
      /\ ~Numeric(rq) => rq.operator \in {"MATCH", "="}
  BY <1>1 DEF AllowedOperators
<1>3. Compare(observed, rq.operator, rq.value) \in {"yes", "no"}
  BY <1>1, <1>2 DEF Compare
<1> QED BY <1>1, <1>2, <1>3 DEF Matchable

\* What a rule decides, or leaves open for want of facts, it can compare.
LEMMA Comparable ==
    ASSUME NEW matched, NEW complete, NEW basis
    PROVE  /\ Decided(matched, basis).reason # "UNSUPPORTED_REQUIREMENT"
           /\ FromProfile(matched, complete).reason # "UNSUPPORTED_REQUIREMENT"
           /\ Unknown.reason # "UNSUPPORTED_REQUIREMENT"
  BY DEF Decided, FromProfile, Unknown, Verdict

\* No rule calls an askable requirement unsupported, whatever the profile says.
LEMMA RulesCompare ==
    ASSUME Judged, Askable(rq), ~Disputable
    PROVE  JudgeByType(rq, profile, Day).reason # "UNSUPPORTED_REQUIREMENT"
<1>1. CASE rq.extension # None
  BY <1>1, Comparable DEF JudgeByType, JudgeExtension, Judged, Extension
<1>2. CASE rq.extension = None /\ rq.type = "REGION"
  <2>1. Matchable(rq)
    BY <1>2, AskableCompares DEF Numeric
  <2> QED BY <1>2, <2>1, Comparable DEF JudgeByType, JudgeRegion
<1>3. CASE rq.extension = None /\ rq.type = "COMPANY_SIZE"
  <2>1. Matchable(rq)
    BY <1>3, AskableCompares DEF Numeric
  <2> QED BY <1>3, <2>1, Comparable DEF JudgeByType, JudgeCompanySize
<1>4. CASE rq.extension = None /\ rq.type = "INDUSTRY"
  <2>1. Matchable(rq)
    BY <1>4, AskableCompares DEF Numeric
  <2> QED BY <1>4, <2>1, Comparable DEF JudgeByType, JudgeIndustry
<1>5. CASE rq.extension = None /\ rq.type = "EXPERIENCE_FIELD"
  <2>1. Matchable(rq)
    BY <1>5, AskableCompares DEF Numeric
  <2> QED BY <1>5, <2>1, Comparable DEF JudgeByType, JudgeExperienceField, FromPerformances
<1>6. CASE rq.extension = None /\ rq.type = "REGISTRATION_CERTIFICATION"
  <2>1. Matchable(rq)
    BY <1>6, AskableCompares DEF Numeric
  <2> QED BY <1>6, <2>1, Comparable DEF JudgeByType, JudgeCertification
<1>7. CASE rq.extension = None /\ rq.type = "STAFF"
  <2>1. \A n : Compare(n, rq.operator, rq.value) # "unclear"
    BY AskableCompares
  <2>2. PICK verdict : verdict = JudgeStaff(rq, profile)
    OBVIOUS
  <2>3. JudgeByType(rq, profile, Day) = verdict
    BY <1>7, <2>2 DEF JudgeByType
  <2>4. \/ verdict = Unknown
        \/ \E matched, complete : verdict = FromProfile(matched, complete)
    <3> HIDE DEF Unknown
    <3>1. CASE profile.staff = None
      BY <2>2, <3>1 DEF JudgeStaff
    <3>2. CASE profile.staff # None /\ rq.scope.role = {}
      BY <2>1, <2>2, <3>2 DEF JudgeStaff
    <3>3. CASE profile.staff # None /\ rq.scope.role # {}
      <4>1. PICK staff : staff = IF profile.staff = None THEN <<>> ELSE profile.staff.roles
        OBVIOUS
      <4>2. PICK matches : matches = {i \in DOMAIN staff : StringMatch(staff[i].name, rq.scope.role)}
        OBVIOUS
      <4>3. PICK first : first = staff[CHOOSE i \in matches : \A j \in matches : i <= j]
        OBVIOUS
      <4>4. PICK compared : compared = IF rq.operator = "MATCH" /\ rq.value # None
                                       THEN IF StringMatch(first.name, rq.value) THEN "yes" ELSE "no"
                                       ELSE Compare(first.headcount, rq.operator, rq.value)
        OBVIOUS
      <4>5. compared # "unclear"
        BY <2>1, <4>4
      <4>6. verdict = IF matches = {} THEN FromProfile(FALSE, profile.complete.roles)
                      ELSE IF compared = "unclear" THEN Unsupported
                      ELSE FromProfile(compared = "yes", profile.complete.roles)
        BY <2>2, <3>3, <4>1, <4>2, <4>3, <4>4, Zenon DEF JudgeStaff
      <4> QED BY <4>5, <4>6
    <3> QED BY <3>1, <3>2, <3>3
  <2> QED BY <2>3, <2>4, Comparable
<1>8. CASE rq.extension = None /\ rq.type = "PERFORMANCE_COUNT"
  <2>1. \A n : Compare(n, rq.operator, rq.value) # "unclear"
    BY AskableCompares
  <2> QED BY <1>8, <2>1, Comparable DEF JudgeByType, JudgePerformanceCount, FromPerformances
<1>9. CASE rq.extension = None /\ rq.type = "PERFORMANCE_AMOUNT"
  <2>1. \A n : Compare(n, rq.operator, rq.value) # "unclear"
    BY AskableCompares
  <2>2. rq.operator # "RANGE" /\ rq.scope.aggregation # "UNSPECIFIED"
    BY <1>9 DEF Disputable, Askable
  <2>3. PICK verdict, items, amount, compared :
          /\ verdict = JudgePerformanceAmount(rq, profile, Day)
          /\ items = Candidates(rq, profile, Day)
          /\ amount = IF rq.scope.aggregation = "SUM" THEN Total(items) ELSE Greatest(items)
          /\ compared = Compare(amount, rq.operator, rq.value)
    OBVIOUS
  <2>4. JudgeByType(rq, profile, Day) = verdict
    BY <1>9, <2>3 DEF JudgeByType
  <2>5. verdict = IF items = {} THEN FromPerformances(FALSE, rq, profile, Day)
                  ELSE IF compared = "unclear" THEN Unsupported
                  ELSE IF compared = "no" /\ Ambiguous(rq, profile, Day) THEN Unknown
                  ELSE FromPerformances(compared = "yes", rq, profile, Day)
    <3> HIDE DEF Unknown, Unsupported
    <3> QED BY <2>2, <2>3 DEF JudgePerformanceAmount
  <2>6. compared # "unclear"
    BY <2>1, <2>3
  <2>7. \/ verdict = Unknown
        \/ \E matched, complete : verdict = FromProfile(matched, complete)
    <3> HIDE DEF Unknown
    <3> QED BY <2>5, <2>6 DEF FromPerformances
  <2> QED BY <2>4, <2>7, Comparable
<1> QED BY <1>1, <1>2, <1>3, <1>4, <1>5, <1>6, <1>7, <1>8, <1>9 DEF Judged, RequirementType

\* What the user may be asked the rules can compare, whatever the profile (askability.py:35-105,
\* judgment.py).
THEOREM AskedIsAlwaysComparable == RuleSpec => []AskedIsComparable
<1>1. Judged /\ [UNCHANGED rq]_ruleVars => Judged'
  BY DEF Judged, ruleVars
<1>2. Judged => AskedIsComparable
  <2> SUFFICES ASSUME Judged, Askable(rq), ~Disputable
               PROVE  Judgment.reason # "UNSUPPORTED_REQUIREMENT"
    BY DEF AskedIsComparable
  <2>1. ~Guarded(rq)
    BY DEF Askable, Guarded
  <2> QED BY <2>1, RulesCompare, Comparable DEF Judgment, Judge
<1> QED BY <1>1, <1>2, PTL DEF RuleSpec, Judged

-----------------------------------------------------------------------------
(* OverallEligibility *)

GroupsTyped == reqs \in [Key -> RequirementRow] /\ status \in [Key -> JudgmentStatus]

\* A group has a first member.
LEMMA LeadIsMember ==
    ASSUME NEW G \in SUBSET Nat, G # {}
    PROVE  Lead(G) \in G
<1>1. PICK m \in G : \A k \in G : <<k, m>> \notin OpToRel(<, Nat)
  BY NatLessThanWellFounded, WFMin
<1>2. ASSUME NEW k \in G
      PROVE  m <= k
  <2>1. m \in Nat /\ k \in Nat
    BY <1>1, <1>2
  <2>2. ~(<<k, m>> \in OpToRel(<, Nat))
    BY <1>1, <1>2
  <2>3. ~(k < m)
    BY <2>1, <2>2 DEF OpToRel
  <2> QED BY <2>1, <2>3
<1> QED BY <1>1, <1>2 DEF Lead

\* Where a group agrees on its operator, its verdict depends on the judgments of its
\* members alone.
LEMMA VerdictOfGroup ==
    ASSUME GroupsTyped, NEW k \in Mandatory(reqs), Agreed(k),
           NEW G, G = GroupOf(reqs, k), NEW v, v = GroupVerdict(reqs, status, G)
    PROVE  /\ k \in G /\ G \subseteq Mandatory(reqs) /\ G \subseteq Key
           /\ \A j \in G : reqs[j].anyOf = reqs[k].anyOf /\ status[j] \in JudgmentStatus
           /\ reqs[k].anyOf =>
                  /\ v = "SATISFIED" <=> \E j \in G : status[j] = "SATISFIED"
                  /\ v = "UNSATISFIED" <=> \A j \in G : status[j] = "UNSATISFIED"
           /\ ~reqs[k].anyOf =>
                  /\ v = "SATISFIED" <=> \A j \in G : status[j] = "SATISFIED"
                  /\ v = "UNSATISFIED" <=> \E j \in G : status[j] = "UNSATISFIED"
<1>1. k \in G /\ G \subseteq Mandatory(reqs) /\ G \subseteq Key
  BY DEF GroupOf, Mandatory, GroupsTyped
<1>2. /\ \A j \in G : reqs[j].anyOf = reqs[k].anyOf /\ status[j] \in JudgmentStatus
      /\ reqs[k].anyOf \in BOOLEAN
  BY <1>1 DEF Agreed, GroupsTyped, RequirementRow
<1>3. Lead(G) \in G
  BY <1>1, LeadIsMember, KeyAssumption
<1>4. GroupStatuses(reqs, status, G) = {status[j] : j \in G}
  <2>1. {i \in G : reqs[i].anyOf # reqs[Lead(G)].anyOf} = {}
    BY <1>2, <1>3
  <2>2. \A j \in G : StatusOf(status, j) = status[j]
    BY <1>1 DEF StatusOf, GroupsTyped
  <2>3. PICK S, U : /\ S = {StatusOf(status, j) : j \in G}
                    /\ U = {"UNKNOWN" : j \in {i \in G : reqs[i].anyOf # reqs[Lead(G)].anyOf}}
    OBVIOUS
  <2>4. S = {status[j] : j \in G} /\ U = {}
    BY <2>1, <2>2, <2>3
  <2> QED BY <2>3, <2>4 DEF GroupStatuses
<1>5. PICK statuses : statuses = {status[j] : j \in G}
  OBVIOUS
<1>6. v = IF reqs[k].anyOf THEN Prevails(statuses, "SATISFIED", "UNSATISFIED")
                           ELSE Prevails(statuses, "UNSATISFIED", "SATISFIED")
  BY <1>2, <1>3, <1>4, <1>5 DEF GroupVerdict
<1>7. \A j \in G : status[j] \in {"SATISFIED", "UNSATISFIED", "UNKNOWN"}
  BY <1>2 DEF JudgmentStatus
<1>8. CASE reqs[k].anyOf
  BY <1>1, <1>2, <1>5, <1>6, <1>7, <1>8 DEF Prevails
<1>9. CASE ~reqs[k].anyOf
  BY <1>1, <1>2, <1>5, <1>6, <1>7, <1>9 DEF Prevails
<1> QED BY <1>1, <1>2, <1>8, <1>9

\* The overall result, by the verdicts of groups.
LEMMA ResultByVerdicts ==
    ASSUME NEW V, V = [k \in Mandatory(reqs) |-> GroupVerdict(reqs, status, GroupOf(reqs, k))],
           \A k \in Mandatory(reqs) : V[k] \in JudgmentStatus
    PROVE  /\ Result = "ineligible" <=> \E k \in Mandatory(reqs) : V[k] = "UNSATISFIED"
           /\ Result = "eligible" <=>
                  /\ Mandatory(reqs) # {} /\ analysisStatus = "SUCCEEDED"
                  /\ \A k \in Mandatory(reqs) : V[k] = "SATISFIED"
<1>1. PICK W : W = GroupVerdicts(reqs, status)
  OBVIOUS
<1>2. W = {V[k] : k \in Mandatory(reqs)}
  BY <1>1 DEF GroupVerdicts
<1>3. /\ "UNSATISFIED" \in W <=> \E k \in Mandatory(reqs) : V[k] = "UNSATISFIED"
      /\ "UNKNOWN" \in W <=> \E k \in Mandatory(reqs) : V[k] = "UNKNOWN"
      /\ W = {} <=> Mandatory(reqs) = {}
  BY <1>2
<1>4. Result = IF "UNSATISFIED" \in W THEN "ineligible"
               ELSE IF "UNKNOWN" \in W \/ W = {} \/ analysisStatus # "SUCCEEDED"
                    THEN "insufficient_data" ELSE "eligible"
  BY <1>1 DEF Result, DeriveOverallStatus
<1>5. \A k \in Mandatory(reqs) : V[k] \in {"SATISFIED", "UNSATISFIED", "UNKNOWN"}
  BY DEF JudgmentStatus
<1> QED BY <1>3, <1>4, <1>5

\* Open requirements may all turn out badly, or well.
LEMMA Extremes ==
    ASSUME GroupsTyped, NEW answer \in {"SATISFIED", "UNSATISFIED"},
           NEW s, s = [k \in Key |-> IF status[k] = "UNKNOWN" THEN answer ELSE status[k]]
    PROVE  s \in Completions
<1>1. DOMAIN status = Key /\ \A k \in Key : status[k] \in {"SATISFIED", "UNSATISFIED", "UNKNOWN"}
  BY DEF GroupsTyped, JudgmentStatus
<1>2. s \in [Key -> {"SATISFIED", "UNSATISFIED"}] /\ \A k \in Key : status[k] # "UNKNOWN" => s[k] = status[k]
  BY <1>1
<1> QED BY <1>1, <1>2 DEF Completions

\* The equivalences hold in every state of well-formed groups.
LEMMA DecidedNow == GroupsTyped => DecidedByWhatIsKnown
<1> SUFFICES ASSUME GroupsTyped, \A k \in Mandatory(reqs) : Agreed(k)
             PROVE  /\ Result = "eligible" <=>
                          /\ Mandatory(reqs) # {} /\ analysisStatus = "SUCCEEDED"
                          /\ \A s \in Completions : Met(s)
                    /\ Result = "ineligible" <=> \A s \in Completions : ~Met(s)
  BY DEF DecidedByWhatIsKnown
<1> DEFINE M == Mandatory(reqs)
           Of(k) == GroupOf(reqs, k)
<1>1. PICK V : V = [k \in M |-> GroupVerdict(reqs, status, Of(k))]
  OBVIOUS
<1>2. ASSUME NEW k \in M
      PROVE  /\ k \in Of(k) /\ Of(k) \subseteq M /\ Of(k) \subseteq Key
             /\ \A j \in Of(k) : /\ reqs[j].anyOf = reqs[k].anyOf
                                 /\ status[j] \in {"SATISFIED", "UNSATISFIED", "UNKNOWN"}
             /\ reqs[k].anyOf =>
                    /\ V[k] = "SATISFIED" <=> \E j \in Of(k) : status[j] = "SATISFIED"
                    /\ V[k] = "UNSATISFIED" <=> \A j \in Of(k) : status[j] = "UNSATISFIED"
             /\ ~reqs[k].anyOf =>
                    /\ V[k] = "SATISFIED" <=> \A j \in Of(k) : status[j] = "SATISFIED"
                    /\ V[k] = "UNSATISFIED" <=> \E j \in Of(k) : status[j] = "UNSATISFIED"
             /\ V[k] \in JudgmentStatus
  <2>1. PICK G, v : G = Of(k) /\ v = V[k]
    OBVIOUS
  <2>2. v = GroupVerdict(reqs, status, G) /\ Agreed(k)
    BY <1>1, <1>2, <2>1
  <2>3. v \in JudgmentStatus
    BY <2>2 DEF GroupVerdict, Prevails, JudgmentStatus
  <2> QED BY <1>2, <2>1, <2>2, <2>3, VerdictOfGroup DEF JudgmentStatus
<1> HIDE DEF M, Of
<1>3. /\ Result = "ineligible" <=> \E k \in M : V[k] = "UNSATISFIED"
      /\ Result = "eligible" <=> M # {} /\ analysisStatus = "SUCCEEDED" /\ \A k \in M : V[k] = "SATISFIED"
  BY <1>1, <1>2, ResultByVerdicts DEF M, Of
<1>4. \A s : Met(s) <=> \A k \in M : IF reqs[k].anyOf THEN \E j \in Of(k) : s[j] = "SATISFIED"
                                                    ELSE s[k] = "SATISFIED"
  BY DEF Met, M, Of
<1>5. \A s \in Completions : \A k \in Key : status[k] # "UNKNOWN" => s[k] = status[k]
  BY DEF Completions, GroupsTyped
<1>6. PICK bad : bad = [k \in Key |-> IF status[k] = "UNKNOWN" THEN "UNSATISFIED" ELSE status[k]]
  OBVIOUS
<1>7. PICK good : good = [k \in Key |-> IF status[k] = "UNKNOWN" THEN "SATISFIED" ELSE status[k]]
  OBVIOUS
<1>8. bad \in Completions /\ good \in Completions
  BY <1>6, <1>7, Extremes
<1>9. (\A k \in M : V[k] = "SATISFIED") <=> \A s \in Completions : Met(s)
  <2>1. ASSUME \A k \in M : V[k] = "SATISFIED", NEW s \in Completions PROVE Met(s)
    <3>1. ASSUME NEW k \in M, reqs[k].anyOf PROVE \E j \in Of(k) : s[j] = "SATISFIED"
      BY <1>2, <1>5, <2>1, <3>1
    <3>2. ASSUME NEW k \in M, ~reqs[k].anyOf PROVE s[k] = "SATISFIED"
      BY <1>2, <1>5, <2>1, <3>2
    <3> QED BY <1>4, <3>1, <3>2
  <2>2. ASSUME Met(bad), NEW k \in M PROVE V[k] = "SATISFIED"
    <3>1. \A j \in Key : bad[j] = "SATISFIED" => status[j] = "SATISFIED"
      BY <1>6
    <3>2. CASE reqs[k].anyOf
      BY <1>2, <1>4, <2>2, <3>1, <3>2
    <3>3. CASE ~reqs[k].anyOf
      <4>1. \A j \in Of(k) : j \in M /\ j \in Key /\ ~reqs[j].anyOf
        BY <1>2, <3>3
      <4>2. \A j \in Of(k) : status[j] = "SATISFIED"
        BY <1>4, <2>2, <3>1, <4>1
      <4> QED BY <1>2, <3>3, <4>2
    <3> QED BY <3>2, <3>3
  <2> QED BY <1>8, <2>1, <2>2
<1>a. (\E k \in M : V[k] = "UNSATISFIED") <=> \A s \in Completions : ~Met(s)
  <2>1. ASSUME NEW k \in M, V[k] = "UNSATISFIED", NEW s \in Completions PROVE ~Met(s)
    <3>1. CASE reqs[k].anyOf
      BY <1>2, <1>4, <1>5, <2>1, <3>1
    <3>2. CASE ~reqs[k].anyOf
      <4>1. PICK j \in Of(k) : status[j] = "UNSATISFIED"
        BY <1>2, <2>1, <3>2
      <4>2. j \in M /\ j \in Key /\ ~reqs[j].anyOf
        BY <1>2, <3>2, <4>1
      <4> QED BY <1>4, <1>5, <2>1, <4>1, <4>2
    <3> QED BY <3>1, <3>2
  <2>2. ASSUME \A k \in M : V[k] # "UNSATISFIED" PROVE Met(good)
    <3>1. \A j \in Key : status[j] \in {"SATISFIED", "UNKNOWN"} => good[j] = "SATISFIED"
      BY <1>7
    <3>2. ASSUME NEW k \in M, reqs[k].anyOf PROVE \E j \in Of(k) : good[j] = "SATISFIED"
      <4>1. PICK j \in Of(k) : status[j] # "UNSATISFIED"
        BY <1>2, <2>2, <3>2
      <4> QED BY <1>2, <3>1, <3>2, <4>1
    <3>3. ASSUME NEW k \in M, ~reqs[k].anyOf PROVE good[k] = "SATISFIED"
      <4>1. status[k] # "UNSATISFIED" /\ k \in Of(k) /\ k \in Key
        BY <1>2, <2>2, <3>3
      <4> QED BY <1>2, <3>1, <3>3, <4>1
    <3> QED BY <1>4, <3>2, <3>3
  <2> QED BY <1>8, <2>1, <2>2
<1> QED BY <1>3, <1>9, <1>a DEF M

\* A company is called eligible, or ineligible, exactly when no answer to what is open can
\* change that, for any requirements in any groups (derive_overall_status).
THEOREM AlwaysDecidedByWhatIsKnown == GroupSpec => []DecidedByWhatIsKnown
<1>1. GroupInit => GroupsTyped
  BY DEF GroupInit, GroupsTyped
<1>2. GroupsTyped /\ [GroupNext]_groupVars => GroupsTyped'
  BY DEF GroupsTyped, GroupNext, Resolve, groupVars, JudgmentStatus
<1> QED BY <1>1, <1>2, DecidedNow, PTL DEF GroupSpec
-----------------------------------------------------------------------------
(* RequirementJudgment, while the company completes its profile *)

\* A finite set has a least member in any strict order.
LEMMA Least ==
    ASSUME NEW S, IsFiniteSet(S), S # {}, NEW R,
           \A x \in S : <<x, x>> \notin R,
           \A x, y, z \in S : <<x, y>> \in R /\ <<y, z>> \in R => <<x, z>> \in R
    PROVE  \E x \in S : \A y \in S : <<y, x>> \notin R
<1> DEFINE Under(x) == {y \in S : <<y, x>> \in R}
           K == {Cardinality(Under(x)) : x \in S}
<1>1. \A x \in S : IsFiniteSet(Under(x)) /\ Cardinality(Under(x)) \in Nat
  BY FS_Subset, FS_CardinalityType
<1>a. K \subseteq Nat /\ K # {} /\ \A x \in S : Cardinality(Under(x)) \in K
  <2> HIDE DEF Under
  <2> QED BY <1>1
<1>2. PICK k \in K : \A l \in K : <<l, k>> \notin OpToRel(<, Nat)
  BY <1>a, NatLessThanWellFounded, WFMin
<1>3. PICK x \in S : k = Cardinality(Under(x))
  BY <1>2
<1>4. ASSUME NEW y \in S, <<y, x>> \in R PROVE FALSE
  <2>1. Under(y) \subseteq Under(x) /\ y \in Under(x) /\ y \notin Under(y)
    BY <1>3, <1>4
  <2>2. Cardinality(Under(y)) <= Cardinality(Under(x)) /\ Cardinality(Under(y)) # Cardinality(Under(x))
    BY <1>1, <1>3, <2>1, FS_Subset
  <2>3. /\ Cardinality(Under(y)) \in Nat /\ k \in Nat
        /\ ~(<<Cardinality(Under(y)), k>> \in OpToRel(<, Nat))
    BY <1>1, <1>a, <1>2, <1>3, <1>4
  <2>4. ~(Cardinality(Under(y)) < k)
    BY <2>3 DEF OpToRel
  <2>5. PICK m \in Nat, n \in Nat : m = Cardinality(Under(y)) /\ n = Cardinality(Under(x))
    BY <1>1, <1>4
  <2> QED BY <1>3, <2>2, <2>4, <2>5
<1> QED BY <1>3, <1>4

\* Sums are those of units: there are finitely many, and each amount is among them.
LEMMA UnitsFinite ==
    ASSUME NEW items \in SUBSET Performances, IsFiniteSet(items)
    PROVE  /\ IsFiniteSet(Units(items)) /\ Total(items) \in Nat
           /\ \A x \in items : x.amount \in Nat /\ x.amount <= Total(items)
<1> DEFINE Own(x) == {x.ref} \X (1..x.amount)
           T == {Own(x) : x \in items}
           f == [x \in items |-> Own(x)]
<1>1. \A x \in items : x.amount \in Nat
  BY ProfileAssumption DEF Performances, Performed
<1>2. f \in Surjection(items, T)
  BY DEF Surjection
<1>3. IsFiniteSet(T)
  <2> HIDE DEF f, T
  <2> QED BY <1>2, FS_Surjection
<1>4. ASSUME NEW x \in items
      PROVE  IsFiniteSet(Own(x)) /\ Cardinality(Own(x)) = x.amount
  <2>0. PICK n \in Nat : n = x.amount
    BY <1>1
  <2>1. IsFiniteSet(1..n) /\ Cardinality(1..n) = n
    BY FS_Interval
  <2>2. IsFiniteSet({x.ref}) /\ Cardinality({x.ref}) = 1
    BY FS_Singleton
  <2>3. PICK S, U : S = {x.ref} /\ U = 1..n
    OBVIOUS
  <2>4. IsFiniteSet(S \X U) /\ Cardinality(S \X U) = Cardinality(S) * Cardinality(U)
    BY <2>1, <2>2, <2>3, FS_Product
  <2> QED BY <2>0, <2>1, <2>2, <2>3, <2>4
<1>5. Units(items) = UNION T
  BY DEF Units
<1>6. IsFiniteSet(UNION T)
  <2>1. \A t \in T : IsFiniteSet(t)
    BY <1>4
  <2> HIDE DEF T
  <2> QED BY <1>3, <2>1, FS_UNION
<1>7. Total(items) \in Nat
  BY <1>5, <1>6, FS_CardinalityType DEF Total
<1>8. ASSUME NEW x \in items PROVE x.amount <= Total(items)
  <2>1. Own(x) \subseteq UNION T
    OBVIOUS
  <2> HIDE DEF Own, T
  <2> QED BY <1>4, <1>5, <1>6, <2>1, FS_Subset DEF Total
<1> QED BY <1>1, <1>5, <1>6, <1>7, <1>8

\* Every performance of one set is one of another, by its id and its amount.
Covers(A, B) == \A x \in A : \E y \in B : y.ref = x.ref /\ y.amount = x.amount

\* What is counted and what is added up grows with the performances.
LEMMA MoreCounts ==
    ASSUME NEW A \in SUBSET Performances, NEW B \in SUBSET Performances, IsFiniteSet(B),
           \A x, y \in A : x.ref = y.ref => x = y, Covers(A, B)
    PROVE  /\ IsFiniteSet(A) /\ Cardinality(A) \in Nat /\ Cardinality(B) \in Nat
           /\ Cardinality(A) <= Cardinality(B) /\ Total(A) <= Total(B)
<1> DEFINE f == [x \in A |-> CHOOSE y \in B : y.ref = x.ref /\ y.amount = x.amount]
<1>1. \A x \in A : f[x] \in B /\ f[x].ref = x.ref /\ f[x].amount = x.amount
  BY DEF Covers
<1>2. f \in [A -> B]
  BY <1>1
<1>3. f \in Injection(A, B)
  <2> HIDE DEF f
  <2> QED BY <1>1, <1>2 DEF Injection, IsInjective
<1>4. IsFiniteSet(A) /\ Cardinality(A) <= Cardinality(B)
  <2> HIDE DEF f
  <2> QED BY <1>3, FS_Injection
<1>5. Units(A) \subseteq Units(B)
  <2> SUFFICES ASSUME NEW x \in A, NEW u \in {x.ref} \X (1..x.amount) PROVE u \in Units(B)
    BY DEF Units
  <2>1. PICK y \in B : y.ref = x.ref /\ y.amount = x.amount
    BY DEF Covers
  <2> QED BY <2>1 DEF Units
<1>6. Total(A) <= Total(B)
  BY <1>5, UnitsFinite, FS_Subset DEF Total
<1> QED BY <1>4, <1>6, FS_CardinalityType

\* Among performances there is one with the greatest amount.
LEMMA GreatestAmount ==
    ASSUME NEW items \in SUBSET Performances, IsFiniteSet(items), items # {}
    PROVE  /\ Greatest(items) \in Nat
           /\ \E x \in items : Greatest(items) = x.amount
           /\ \A x \in items : x.amount <= Greatest(items)
<1> DEFINE R == {p \in items \X items : p[1].amount > p[2].amount}
<1>1. \A x \in items : x.amount \in Nat
  BY UnitsFinite
<1>2. /\ \A x \in items : <<x, x>> \notin R
      /\ \A x, y, z \in items : <<x, y>> \in R /\ <<y, z>> \in R => <<x, z>> \in R
  BY <1>1
<1>3. PICK m \in items : \A y \in items : <<y, m>> \notin R
  <2> HIDE DEF R
  <2> QED BY <1>2, Least
<1>4. \A y \in items : y.amount <= m.amount
  <2> SUFFICES ASSUME NEW y \in items PROVE y.amount <= m.amount
    OBVIOUS
  <2>1. ~(y.amount > m.amount)
    BY <1>3
  <2> QED BY <1>1, <1>3, <2>1
<1>5. PICK x : x = CHOOSE z \in items : \A y \in items : y.amount <= z.amount
  OBVIOUS
<1>6. x \in items /\ \A y \in items : y.amount <= x.amount
  BY <1>3, <1>4, <1>5
<1> QED BY <1>1, <1>5, <1>6 DEF Greatest

\* More performances, and the greatest of them.
LEMMA MoreAtMost ==
    ASSUME NEW A \in SUBSET Performances, NEW B \in SUBSET Performances, IsFiniteSet(A), IsFiniteSet(B),
           A # {}, Covers(A, B)
    PROVE  Greatest(A) <= Greatest(B)
<1>1. PICK x \in A : Greatest(A) = x.amount
  BY GreatestAmount
<1>2. PICK y \in B : y.amount = x.amount
  BY DEF Covers
<1> QED BY <1>1, <1>2, GreatestAmount

\* What is at least so much stays so when it grows.
LEMMA GrowthCompares ==
    ASSUME NEW a \in Nat, NEW b \in Nat, a <= b, NEW operator \in {">=", ">"},
           NEW expected \in Nat \cup {None}, Compare(a, operator, expected) = "yes"
    PROVE  Compare(b, operator, expected) = "yes"
  BY DEF Compare

\* A performance as it was, or with a date in its year.
SamePerformance(x, y) ==
    \/ y = x
    \/ /\ x.date = None
       /\ \E date \in OnDay : /\ FirstDay(x.year) <= date /\ date <= LastDay(x.year)
                              /\ y = [x EXCEPT !.date = date, !.year = None]

\* What one profile has that the other one had before it, if facts are only added.
Grows(p, q) ==
    /\ p.region # None =>
          /\ q.region \in RegionName
          /\ \/ p.region \subseteq q.region
             \/ IsPartOf(RegionKey(q.region), RegionKey(p.region))
    /\ p.size # None => q.size = p.size
    /\ p.affiliate # None => q.affiliate = p.affiliate
    /\ p.grade # None => q.grade = p.grade
    /\ p.industries \subseteq q.industries
    /\ p.certifications \subseteq q.certifications
    /\ p.staff # None =>
          /\ q.staff # None /\ q.staff.total = p.staff.total
          /\ \A i \in DOMAIN p.staff.roles : \E j \in DOMAIN q.staff.roles :
                q.staff.roles[j] = p.staff.roles[i]
    /\ \A x \in p.performances : \E y \in q.performances : SamePerformance(x, y)
    /\ \A a \in Area : p.complete[a] => q.complete[a]

\* The same, if nothing is added to an area that is complete.
Completes(p, q) ==
    /\ Grows(p, q)
    /\ p.complete["industries"] => q.industries = p.industries
    /\ p.complete["certifications"] => q.certifications = p.certifications
    /\ p.complete["roles"] /\ p.staff # None => q.staff = p.staff
    /\ p.complete["performances"] =>
          \A y \in q.performances : \E x \in p.performances : SamePerformance(x, y)

\* A date completes what a year says, and is neither inside nor outside against it.
LEMMA DateFitsYear ==
    ASSUME NEW r, r.period \in Nat \cup {None},
           NEW x \in Performances, NEW y \in Performances, SamePerformance(x, y)
    PROVE  /\ When(x, r, Day) \in {"inside", "outside", "ambiguous"}
           /\ When(x, r, Day) # "ambiguous" => When(y, r, Day) = When(x, r, Day)
           /\ y.ref = x.ref /\ y.amount = x.amount /\ y.names = x.names
           /\ y.client = x.client /\ y.institution = x.institution
<1>1. PICK from : from = IF r.period = None THEN 0 ELSE Day - r.period
  OBVIOUS
<1>2. from \in Int /\ Day \in Int
  BY <1>1, ProfileAssumption
<1>3. ASSUME NEW z \in Performances
      PROVE  \/ z.date \in OnDay
             \/ z.date = None /\ z.year \in InYear
  BY DEF Performances, Performed
<1>4. ASSUME NEW z \in Performances
      PROVE  When(z, r, Day) =
                IF z.date # None
                THEN IF z.date > Day \/ z.date < from THEN "outside" ELSE "inside"
                ELSE IF z.year = None THEN "ambiguous"
                ELSE IF FirstDay(z.year) > Day \/ LastDay(z.year) < from THEN "outside"
                ELSE IF LastDay(z.year) > Day \/ FirstDay(z.year) < from THEN "ambiguous"
                ELSE "inside"
  BY <1>1 DEF When
<1>5. When(x, r, Day) \in {"inside", "outside", "ambiguous"}
  BY <1>4
<1>6. CASE y = x
  BY <1>5, <1>6
<1>7. ASSUME x.date = None, NEW date \in OnDay, FirstDay(x.year) <= date, date <= LastDay(x.year),
             y = [x EXCEPT !.date = date, !.year = None]
      PROVE  /\ When(x, r, Day) # "ambiguous" => When(y, r, Day) = When(x, r, Day)
             /\ y.ref = x.ref /\ y.amount = x.amount /\ y.names = x.names
             /\ y.client = x.client /\ y.institution = x.institution
  <2>1. /\ y.date = date /\ y.ref = x.ref /\ y.amount = x.amount /\ y.names = x.names
        /\ y.client = x.client /\ y.institution = x.institution
    BY <1>7 DEF Performances, Performed
  <2>2. x.year \in InYear
    BY <1>3, <1>7, ProfileAssumption
  <2>3. PICK first, last : first = FirstDay(x.year) /\ last = LastDay(x.year)
    OBVIOUS
  <2>4. first \in Int /\ last \in Int /\ date \in Int /\ date # None /\ x.year # None
    BY <2>2, <2>3, ProfileAssumption DEF FirstDay, LastDay
  <2>5. When(y, r, Day) = IF date > Day \/ date < from THEN "outside" ELSE "inside"
    BY <1>4, <2>1, <2>4
  <2>6. When(x, r, Day) = IF first > Day \/ last < from THEN "outside"
                          ELSE IF last > Day \/ first < from THEN "ambiguous" ELSE "inside"
    BY <1>4, <1>7, <2>3, <2>4
  <2> QED BY <1>2, <1>7, <2>1, <2>3, <2>4, <2>5, <2>6
<1> QED BY <1>5, <1>6, <1>7 DEF SamePerformance

\* The candidates stay candidates, and where the list is complete and every date is clear,
\* no others come.
LEMMA CandidatesStay ==
    ASSUME NEW r, r.period \in Nat \cup {None},
           NEW p \in ProfileSnapshot, NEW q \in ProfileSnapshot, Completes(p, q)
    PROVE  /\ \A x \in Candidates(r, p, Day) : \E y \in Candidates(r, q, Day) : SamePerformance(x, y)
           /\ p.complete["performances"] /\ ~Ambiguous(r, p, Day) =>
                 /\ q.complete["performances"] /\ ~Ambiguous(r, q, Day)
                 /\ \A y \in Candidates(r, q, Day) : \E x \in Candidates(r, p, Day) :
                       SamePerformance(x, y)
<1>1. p.performances \subseteq Performances /\ q.performances \subseteq Performances
  BY DEF ProfileSnapshot
<1>2. ASSUME NEW x \in p.performances, NEW y \in q.performances, SamePerformance(x, y)
      PROVE  /\ x \in Considered(r, p) <=> y \in Considered(r, q)
             /\ When(x, r, Day) # "ambiguous" => When(y, r, Day) = When(x, r, Day)
             /\ When(x, r, Day) \in {"inside", "outside", "ambiguous"}
  <2>1. /\ y.names = x.names /\ y.client = x.client /\ y.institution = x.institution
        /\ When(x, r, Day) \in {"inside", "outside", "ambiguous"}
        /\ When(x, r, Day) # "ambiguous" => When(y, r, Day) = When(x, r, Day)
    BY <1>1, <1>2, DateFitsYear
  <2>2. InField(y, r.scope.field) <=> InField(x, r.scope.field)
    BY <2>1 DEF InField
  <2>3. OfClient(y, r) <=> OfClient(x, r)
    BY <2>1 DEF OfClient
  <2> QED BY <2>1, <2>2, <2>3 DEF Considered
<1>3. ASSUME NEW x \in Candidates(r, p, Day)
      PROVE  \E y \in Candidates(r, q, Day) : SamePerformance(x, y)
  <2>1. x \in p.performances /\ x \in Considered(r, p) /\ When(x, r, Day) = "inside"
    BY <1>3 DEF Candidates, Considered
  <2>2. PICK y \in q.performances : SamePerformance(x, y)
    BY <2>1 DEF Completes, Grows
  <2> QED BY <1>2, <2>1, <2>2 DEF Candidates
<1>4. ASSUME p.complete["performances"], ~Ambiguous(r, p, Day)
      PROVE  /\ q.complete["performances"] /\ ~Ambiguous(r, q, Day)
             /\ \A y \in Candidates(r, q, Day) : \E x \in Candidates(r, p, Day) :
                   SamePerformance(x, y)
  <2>1. q.complete["performances"]
    BY <1>4 DEF Completes, Grows, Area
  <2>2. ASSUME NEW y \in Considered(r, q)
        PROVE  \E x \in Considered(r, p) : /\ SamePerformance(x, y) /\ When(y, r, Day) = When(x, r, Day)
                                           /\ When(x, r, Day) # "ambiguous"
    <3>1. y \in q.performances
      BY <2>2 DEF Considered
    <3>2. PICK x \in p.performances : SamePerformance(x, y)
      BY <1>4, <3>1 DEF Completes, Grows
    <3>3. x \in Considered(r, p)
      BY <1>2, <2>2, <3>1, <3>2
    <3>4. When(x, r, Day) # "ambiguous"
      BY <1>4, <3>3 DEF Ambiguous
    <3> QED BY <1>2, <3>1, <3>2, <3>3, <3>4
  <2>3. ~Ambiguous(r, q, Day)
    BY <2>2 DEF Ambiguous
  <2>4. \A y \in Candidates(r, q, Day) : \E x \in Candidates(r, p, Day) : SamePerformance(x, y)
    BY <2>2 DEF Candidates
  <2> QED BY <2>1, <2>3, <2>4
<1> QED BY <1>3, <1>4

\* What counts of a requirement grows, and stays where the list is complete.
LEMMA CandidatesGrow ==
    ASSUME NEW r, r.period \in Nat \cup {None},
           NEW p \in ProfileSnapshot, NEW q \in ProfileSnapshot, Completes(p, q),
           NEW A, A = Candidates(r, p, Day), NEW B, B = Candidates(r, q, Day)
    PROVE  /\ A \in SUBSET Performances /\ B \in SUBSET Performances
           /\ IsFiniteSet(A) /\ IsFiniteSet(B)
           /\ Cardinality(A) \in Nat /\ Cardinality(B) \in Nat
           /\ Total(A) \in Nat /\ Total(B) \in Nat
           /\ Covers(A, B) /\ Cardinality(A) <= Cardinality(B) /\ Total(A) <= Total(B)
           /\ p.complete["performances"] /\ ~Ambiguous(r, p, Day) =>
                 /\ q.complete["performances"] /\ ~Ambiguous(r, q, Day)
                 /\ Covers(B, A) /\ Cardinality(A) = Cardinality(B) /\ Total(A) = Total(B)
<1>1. /\ A \subseteq p.performances /\ B \subseteq q.performances
      /\ p.performances \in SUBSET Performances /\ q.performances \in SUBSET Performances
      /\ IsFiniteSet(p.performances) /\ IsFiniteSet(q.performances)
      /\ \A x, y \in p.performances : x.ref = y.ref => x = y
      /\ \A x, y \in q.performances : x.ref = y.ref => x = y
  BY DEF ProfileSnapshot, Candidates, Considered
<1>2. /\ A \in SUBSET Performances /\ B \in SUBSET Performances
      /\ IsFiniteSet(A) /\ IsFiniteSet(B)
  BY <1>1, FS_Subset
<1>3. /\ Total(A) \in Nat /\ Total(B) \in Nat
      /\ Cardinality(A) \in Nat /\ Cardinality(B) \in Nat
  BY <1>2, UnitsFinite, FS_CardinalityType
<1>4. Covers(A, B)
  BY <1>2, CandidatesStay, DateFitsYear DEF Covers
<1>5. Cardinality(A) <= Cardinality(B) /\ Total(A) <= Total(B)
  BY <1>1, <1>2, <1>4, MoreCounts
<1>6. ASSUME p.complete["performances"], ~Ambiguous(r, p, Day)
      PROVE  /\ q.complete["performances"] /\ ~Ambiguous(r, q, Day)
             /\ Covers(B, A) /\ Cardinality(A) = Cardinality(B) /\ Total(A) = Total(B)
  <2>1. /\ q.complete["performances"] /\ ~Ambiguous(r, q, Day)
        /\ \A y \in B : \E x \in A : SamePerformance(x, y)
    BY <1>6, CandidatesStay
  <2>2. Covers(B, A)
    BY <1>2, <2>1, DateFitsYear DEF Covers
  <2>3. Cardinality(B) <= Cardinality(A) /\ Total(B) <= Total(A)
    BY <1>1, <1>2, <2>2, MoreCounts
  <2> QED BY <1>3, <1>5, <2>1, <2>2, <2>3
<1> QED BY <1>2, <1>3, <1>4, <1>5, <1>6

\* What matches goes on to match; and what is held against a company, while that part of
\* its profile is complete, remains so.
LEMMA DecisionStands ==
    ASSUME NEW matched, NEW complete, NEW later, NEW completed,
           matched => later, ~matched /\ complete => ~later /\ completed,
           FromProfile(matched, complete).status # "UNKNOWN"
    PROVE  FromProfile(later, completed).status = FromProfile(matched, complete).status
  BY DEF FromProfile, Decided, Unknown, Verdict

\* What matches is met; and nothing else is decided until that part is complete.
LEMMA DecidedIs ==
    /\ \A complete : FromProfile(TRUE, complete).status = "SATISFIED"
    /\ \A complete : complete => FromProfile(FALSE, complete).status = "UNSATISFIED"
    /\ \A complete : FromProfile(FALSE, complete).status # "UNKNOWN" => complete
  BY DEF FromProfile, Decided, Unknown, Verdict

\* What is left open is not decided.
LEMMA OpenIsUnknown == Unknown.status = "UNKNOWN" /\ Unsupported.status = "UNKNOWN"
  BY DEF Unknown, Unsupported, Verdict

\* The region matches by the words of its name, and is another one.
Loose(r, s) ==
    /\ r.value # None /\ s.region # None
    /\ StringMatch(s.region, r.value) /\ RegionKey(s.region) # RegionKey(r.value)

\* A company stays inside a region, or outside, when its own is narrowed to a part.
LEMMA RegionStands ==
    ASSUME NEW r, NEW p \in ProfileSnapshot, NEW q \in ProfileSnapshot, Completes(p, q),
           ~Loose(r, p), ~Loose(r, q),
           ~(p.region # None /\ p.region \subseteq q.region /\ q.region # p.region),
           JudgeRegion(r, p).status # "UNKNOWN"
    PROVE  JudgeRegion(r, q).status = JudgeRegion(r, p).status
<1> DEFINE Within(region) == RegionRelation(region, r.value) \in {"match", "contained"}
<1>1. /\ p.region # None /\ Matchable(r) /\ RegionRelation(p.region, r.value) # "too_coarse"
      /\ JudgeRegion(r, p) = FromProfile(Within(p.region), p.complete["region"])
  <2> HIDE DEF Unknown, Unsupported
  <2> QED BY OpenIsUnknown DEF JudgeRegion
<1>2. /\ p.region \in RegionName /\ q.region \in RegionName
      /\ q.region # None /\ p.region # {} /\ q.region # {} /\ r.value # None
      /\ \/ q.region = p.region
         \/ IsPartOf(RegionKey(q.region), RegionKey(p.region))
      /\ p.complete["region"] \in BOOLEAN /\ q.complete["region"] \in BOOLEAN
      /\ p.complete["region"] => q.complete["region"]
  <2>1. Grows(p, q) /\ p.region # None /\ r.value # None
    BY <1>1 DEF Completes, Matchable
  <2>2. p.region \in RegionName \cup {None} /\ "region" \in Area
        /\ p.complete \in [Area -> BOOLEAN] /\ q.complete \in [Area -> BOOLEAN]
    BY DEF ProfileSnapshot, Area
  <2>3. /\ q.region \in RegionName
        /\ p.region \subseteq q.region \/ IsPartOf(RegionKey(q.region), RegionKey(p.region))
        /\ p.complete["region"] => q.complete["region"]
    BY <2>1, <2>2 DEF Grows
  <2>4. None \notin RegionName /\ {} \notin RegionName
    BY ProfileAssumption
  <2>5. q.region = p.region \/ IsPartOf(RegionKey(q.region), RegionKey(p.region))
    BY <2>1, <2>3
  <2> QED BY <2>1, <2>2, <2>3, <2>4, <2>5
<1>3. RegionRelation(q.region, r.value) # "too_coarse" /\ (Within(q.region) <=> Within(p.region))
  <2>1. CASE q.region = p.region
    BY <1>1, <2>1
  <2>2. CASE r.value = {}
    BY <2>2 DEF RegionRelation
  <2>3. CASE r.value # {} /\ IsPartOf(RegionKey(q.region), RegionKey(p.region))
    <3>1. PICK here, part, there : /\ here = RegionKey(p.region) /\ part = RegionKey(q.region)
                                   /\ there = RegionKey(r.value)
      OBVIOUS
    <3>2. /\ part \in DOMAIN Parent /\ Parent[part] = here /\ here \notin DOMAIN Parent
          /\ there \in DOMAIN Parent => Parent[there] \notin DOMAIN Parent
      BY <2>3, <3>1, ProfileAssumption DEF IsPartOf
    <3>3. /\ StringMatch(p.region, r.value) => here = there
          /\ StringMatch(q.region, r.value) => part = there
      BY <1>1, <1>2, <3>1 DEF Loose
    <3>4. ~IsPartOf(here, there)
      BY <3>2 DEF IsPartOf
    <3>5. Within(p.region) <=> here = there
      BY <1>2, <2>3, <3>1, <3>3, <3>4 DEF RegionRelation
    <3>6. ~IsPartOf(there, here) \/ here = there
      BY <1>1, <1>2, <2>3, <3>1, <3>3, <3>4 DEF RegionRelation
    <3>7. part # there
      BY <3>2, <3>6 DEF IsPartOf
    <3>8. ~IsPartOf(there, part)
      BY <3>2 DEF IsPartOf
    <3>9. Within(q.region) <=> IsPartOf(part, there)
      BY <1>2, <2>3, <3>1, <3>3, <3>7, <3>8 DEF RegionRelation
    <3>a. RegionRelation(q.region, r.value) # "too_coarse"
      BY <3>1, <3>8 DEF RegionRelation
    <3>b. IsPartOf(part, there) <=> here = there
      BY <3>2 DEF IsPartOf
    <3> QED BY <3>5, <3>9, <3>a, <3>b
  <2> QED BY <1>2, <2>1, <2>2, <2>3
<1>4. JudgeRegion(r, q) = FromProfile(Within(q.region), q.complete["region"])
  <2> HIDE DEF Unknown, Unsupported
  <2> QED BY <1>1, <1>2, <1>3 DEF JudgeRegion
<1> QED BY <1>1, <1>2, <1>3, <1>4, DecisionStands

LEMMA CompanySizeStands ==
    ASSUME NEW r, NEW p \in ProfileSnapshot, NEW q \in ProfileSnapshot, Completes(p, q),
           JudgeCompanySize(r, p).status # "UNKNOWN"
    PROVE  JudgeCompanySize(r, q).status = JudgeCompanySize(r, p).status
<1> DEFINE asks == r.scope.affiliates = TRUE
<1>1. PICK matched \in BOOLEAN : matched <=> SizeMatches(p.size, r.value)
  OBVIOUS
<1>2. PICK bySize : bySize = IF r.scope.excludes THEN ~matched ELSE matched
  OBVIOUS
<1>3. bySize \in BOOLEAN
  BY <1>1, <1>2
<1>4. ASSUME NEW s, s.size = p.size, p.size # None, Matchable(r)
      PROVE  JudgeCompanySize(r, s) =
                IF bySize /\ r.scope.affiliates /\ s.affiliate = None THEN Unknown
                ELSE FromProfile(bySize /\ (r.scope.affiliates => ~s.affiliate), s.complete["size"])
  <2> HIDE DEF Unknown, Unsupported
  <2> QED BY <1>1, <1>2, <1>4 DEF JudgeCompanySize
<1>5. p.size # None /\ Matchable(r) /\ q.size = p.size
  <2>1. p.size # None /\ Matchable(r)
    <3> HIDE DEF Unknown, Unsupported
    <3> QED BY OpenIsUnknown DEF JudgeCompanySize
  <2> QED BY <2>1 DEF Completes, Grows
<1>6. /\ p.complete["size"] \in BOOLEAN /\ q.complete["size"] \in BOOLEAN
      /\ p.complete["size"] => q.complete["size"]
      /\ p.affiliate # None => q.affiliate = p.affiliate
  BY DEF Completes, Grows, ProfileSnapshot, Area
<1>7. PICK m \in BOOLEAN : m = (bySize /\ (r.scope.affiliates => ~p.affiliate))
  OBVIOUS
<1>8. PICK n \in BOOLEAN : n = (bySize /\ (r.scope.affiliates => ~q.affiliate))
  OBVIOUS
<1>9. ~(bySize /\ r.scope.affiliates /\ p.affiliate = None)
  BY <1>4, <1>5, OpenIsUnknown
<1>a. m = n /\ ~(bySize /\ r.scope.affiliates /\ q.affiliate = None)
  BY <1>3, <1>6, <1>7, <1>8, <1>9
<1>b. /\ JudgeCompanySize(r, p) = FromProfile(m, p.complete["size"])
      /\ JudgeCompanySize(r, q) = FromProfile(n, q.complete["size"])
  BY <1>4, <1>5, <1>7, <1>8, <1>9, <1>a
<1> QED BY <1>6, <1>a, <1>b, DecisionStands

LEMMA IndustryStands ==
    ASSUME NEW r, NEW p \in ProfileSnapshot, NEW q \in ProfileSnapshot, Completes(p, q),
           JudgeIndustry(r, p).status # "UNKNOWN"
    PROVE  JudgeIndustry(r, q).status = JudgeIndustry(r, p).status
<1>1. /\ p.complete["industries"] \in BOOLEAN /\ q.complete["industries"] \in BOOLEAN
      /\ p.complete["industries"] => q.complete["industries"] /\ q.industries = p.industries
      /\ p.industries \subseteq q.industries
  BY DEF Completes, Grows, ProfileSnapshot, Area
<1>2. Matchable(r)
  <2> HIDE DEF Unsupported
  <2> QED BY OpenIsUnknown DEF JudgeIndustry
<1> DEFINE In(s) == r.value \in s.industries
<1>3. \A s : JudgeIndustry(r, s) = FromProfile(In(s), s.complete["industries"])
  BY <1>2 DEF JudgeIndustry
<1>4. (In(p) => In(q)) /\ (p.complete["industries"] => (In(q) <=> In(p)))
  BY <1>1
<1> HIDE DEF In
<1> QED BY <1>1, <1>3, <1>4, DecisionStands

LEMMA CertificationStands ==
    ASSUME NEW r, NEW p \in ProfileSnapshot, NEW q \in ProfileSnapshot, Completes(p, q),
           JudgeCertification(r, p, Day).status # "UNKNOWN"
    PROVE  JudgeCertification(r, q, Day).status = JudgeCertification(r, p, Day).status
<1> DEFINE Held(s) == \E item \in s.certifications :
                         /\ \E name \in item.names : CertificationMatch(name, r.value)
                         /\ IssuedBy(item, r.scope.issuer) /\ ValidOn(item, Day)
<1>1. /\ p.complete["certifications"] \in BOOLEAN /\ q.complete["certifications"] \in BOOLEAN
      /\ p.complete["certifications"] =>
            q.complete["certifications"] /\ q.certifications = p.certifications
      /\ p.certifications \subseteq q.certifications
  BY DEF Completes, Grows, ProfileSnapshot, Area
<1>2. Matchable(r)
  <2> HIDE DEF Unsupported
  <2> QED BY OpenIsUnknown DEF JudgeCertification
<1>3. \A s : JudgeCertification(r, s, Day) = FromProfile(Held(s), s.complete["certifications"])
  BY <1>2 DEF JudgeCertification
<1>4. (Held(p) => Held(q)) /\ (p.complete["certifications"] => (Held(q) <=> Held(p)))
  BY <1>1
<1>5. Held(p) \in BOOLEAN /\ Held(q) \in BOOLEAN
  OBVIOUS
<1> HIDE DEF Held
<1> QED BY <1>1, <1>3, <1>4, <1>5, DecisionStands

\* The roles that a requirement may mean.
Meant(r, s) == {i \in DOMAIN s.staff.roles : StringMatch(s.staff.roles[i].name, r.scope.role)}

\* How the judgment of a role depends on the first one that is meant.
LEMMA RoleIsCompared ==
    ASSUME NEW r, r.scope.role # {}, NEW s, s.staff # None, Meant(r, s) # {},
           NEW first, first = s.staff.roles[CHOOSE i \in Meant(r, s) : \A j \in Meant(r, s) : i <= j],
           NEW compared,
           compared = IF r.operator = "MATCH" /\ r.value # None
                      THEN IF StringMatch(first.name, r.value) THEN "yes" ELSE "no"
                      ELSE Compare(first.headcount, r.operator, r.value)
    PROVE  JudgeStaff(r, s) = IF compared = "unclear" THEN Unsupported
                              ELSE FromProfile(compared = "yes", s.complete["roles"])
<1> HIDE DEF Unknown, Unsupported
<1> QED BY Zenon DEF JudgeStaff, Meant

\* The first of the roles that are meant is one of them.
LEMMA FirstMeant ==
    ASSUME NEW r, NEW s \in ProfileSnapshot, s.staff # None, Meant(r, s) # {}
    PROVE  (CHOOSE i \in Meant(r, s) : \A j \in Meant(r, s) : i <= j) \in Meant(r, s)
<1>1. s.staff.roles \in Seq([name : RoleName, headcount : People])
  BY DEF ProfileSnapshot, Staff
<1>2. Meant(r, s) \in SUBSET Nat
  BY <1>1 DEF Meant
<1> QED BY <1>2, LeadIsMember DEF Lead

\* Roles that are added do not come before the one that counted, unless there are two
\* that may be meant.
LEMMA StaffStands ==
    ASSUME NEW r, NEW p \in ProfileSnapshot, NEW q \in ProfileSnapshot, Completes(p, q),
           q.staff # None => ~(Cardinality(Meant(r, q)) > 1),
           JudgeStaff(r, p).status # "UNKNOWN"
    PROVE  JudgeStaff(r, q).status = JudgeStaff(r, p).status
<1>1. p.staff # None
  <2> HIDE DEF Unknown, Unsupported
  <2> QED BY OpenIsUnknown DEF JudgeStaff
<1>2. /\ q.staff # None /\ q.staff.total = p.staff.total
      /\ \A i \in DOMAIN p.staff.roles : \E j \in DOMAIN q.staff.roles :
            q.staff.roles[j] = p.staff.roles[i]
      /\ p.complete["roles"] => q.staff = p.staff /\ q.complete["roles"]
      /\ p.complete["total"] => q.complete["total"]
  BY <1>1 DEF Completes, Grows, Area
<1>3. CASE r.scope.role = {}
  <2>1. PICK total : total = Compare(p.staff.total, r.operator, r.value)
    OBVIOUS
  <2>2. ASSUME NEW s, s.staff # None, s.staff.total = p.staff.total
        PROVE  JudgeStaff(r, s) = IF total = "unclear" THEN Unsupported
                                  ELSE FromProfile(total = "yes", s.complete["total"])
    <3> HIDE DEF Unknown, Unsupported
    <3> QED BY <1>3, <2>1, <2>2, Zenon DEF JudgeStaff
  <2> QED BY <1>1, <1>2, <2>2, DecisionStands, OpenIsUnknown
<1>4. CASE r.scope.role # {} /\ Meant(r, p) = {}
  <2>1. ASSUME NEW s, s.staff # None, Meant(r, s) = {}
        PROVE  JudgeStaff(r, s) = FromProfile(FALSE, s.complete["roles"])
    <3> HIDE DEF Unknown, Unsupported
    <3> QED BY <1>4, <2>1, Zenon DEF JudgeStaff, Meant
  <2>2. JudgeStaff(r, p) = FromProfile(FALSE, p.complete["roles"])
    BY <1>1, <1>4, <2>1
  <2>3. p.complete["roles"]
    BY <2>2, OpenIsUnknown DEF FromProfile
  <2>4. Meant(r, q) = {}
    BY <1>2, <1>4, <2>3 DEF Meant
  <2>5. JudgeStaff(r, q) = FromProfile(FALSE, q.complete["roles"])
    BY <1>2, <2>1, <2>4
  <2> QED BY <1>2, <2>2, <2>3, <2>5, DecidedIs
<1>5. CASE r.scope.role # {} /\ Meant(r, p) # {}
  <2>1. PICK first : first = p.staff.roles[CHOOSE i \in Meant(r, p) : \A j \in Meant(r, p) : i <= j]
    OBVIOUS
  <2>2. PICK later : later = q.staff.roles[CHOOSE i \in Meant(r, q) : \A j \in Meant(r, q) : i <= j]
    OBVIOUS
  <2>3. PICK compared :
            compared = IF r.operator = "MATCH" /\ r.value # None
                       THEN IF StringMatch(first.name, r.value) THEN "yes" ELSE "no"
                       ELSE Compare(first.headcount, r.operator, r.value)
    OBVIOUS
  <2>4. PICK k \in Meant(r, p) : first = p.staff.roles[k]
    BY <1>1, <1>5, <2>1, FirstMeant
  <2>5. PICK j \in DOMAIN q.staff.roles : q.staff.roles[j] = first
    BY <1>2, <2>4 DEF Meant
  <2>6. j \in Meant(r, q)
    BY <2>4, <2>5 DEF Meant
  <2>7. later = first
    <3>1. PICK l \in Meant(r, q) : later = q.staff.roles[l]
      BY <1>2, <2>2, <2>6, FirstMeant
    <3>2. IsFiniteSet(Meant(r, q))
      <4>1. q.staff.roles \in Seq([name : RoleName, headcount : People])
        BY <1>2 DEF ProfileSnapshot, Staff
      <4>2. DOMAIN q.staff.roles = 1..Len(q.staff.roles) /\ Len(q.staff.roles) \in Nat
        BY <4>1
      <4>3. IsFiniteSet(DOMAIN q.staff.roles) /\ Meant(r, q) \in SUBSET (DOMAIN q.staff.roles)
        BY <4>2, FS_Interval DEF Meant
      <4> QED BY <4>3, FS_Subset
    <3>3. Cardinality(Meant(r, q)) = 1
      <4>1. PICK n \in Nat : n = Cardinality(Meant(r, q))
        BY <3>2, FS_CardinalityType
      <4>2. n # 0 /\ ~(n > 1)
        BY <1>2, <2>6, <3>2, <4>1, FS_EmptySet
      <4> QED BY <4>1, <4>2
    <3>4. l = j
      BY <2>6, <3>1, <3>2, <3>3, FS_Singleton
    <3> QED BY <2>5, <3>1, <3>4
  <2>8. JudgeStaff(r, p) = IF compared = "unclear" THEN Unsupported
                           ELSE FromProfile(compared = "yes", p.complete["roles"])
    BY <1>1, <1>5, <2>1, <2>3, RoleIsCompared
  <2>9. JudgeStaff(r, q) = IF compared = "unclear" THEN Unsupported
                           ELSE FromProfile(compared = "yes", q.complete["roles"])
    <3>1. Meant(r, q) # {}
      BY <2>6
    <3>2. first = q.staff.roles[CHOOSE i \in Meant(r, q) : \A n \in Meant(r, q) : i <= n]
      BY <2>2, <2>7
    <3> QED BY <1>2, <1>5, <2>3, <3>1, <3>2, RoleIsCompared
  <2> HIDE DEF Unsupported
  <2> QED BY <1>2, <2>8, <2>9, DecisionStands, OpenIsUnknown
<1> QED BY <1>3, <1>4, <1>5

\* An amount that is enough stays enough as performances are added and dated, and both
\* readings of a notice go on to agree.
LEMMA PerformanceAmountStands ==
    ASSUME NEW r, r.period \in Nat \cup {None}, r.operator \in {">=", ">"},
           r.value \in Nat \cup {None},
           NEW p \in ProfileSnapshot, NEW q \in ProfileSnapshot, Completes(p, q),
           JudgePerformanceAmount(r, p, Day).status # "UNKNOWN"
    PROVE  JudgePerformanceAmount(r, q, Day).status = JudgePerformanceAmount(r, p, Day).status
<1> DEFINE Clear(s) == s.complete["performances"] /\ ~Ambiguous(r, s, Day)
           Compared(items) ==
               Compare(IF r.scope.aggregation = "SUM" THEN Total(items) ELSE Greatest(items),
                       r.operator, r.value)
           Disputed(items) ==
               /\ r.scope.aggregation = "UNSPECIFIED" /\ Cardinality(items) > 1
               /\ Compare(Total(items), r.operator, r.value) # Compared(items)
<1>1. PICK A : A = Candidates(r, p, Day)
  OBVIOUS
<1>2. PICK B : B = Candidates(r, q, Day)
  OBVIOUS
<1>3. ASSUME NEW s, NEW items, items = Candidates(r, s, Day)
      PROVE  JudgePerformanceAmount(r, s, Day) =
                IF items = {} THEN FromProfile(FALSE, Clear(s))
                ELSE IF Compared(items) = "unclear" THEN Unsupported
                ELSE IF Compared(items) = "no" /\ Ambiguous(r, s, Day) THEN Unknown
                ELSE IF Disputed(items) THEN Unsupported
                ELSE FromProfile(Compared(items) = "yes", Clear(s))
  <2>1. r.operator # "RANGE"
    OBVIOUS
  <2> HIDE DEF Unknown, Unsupported
  <2> QED BY <1>3, <2>1 DEF JudgePerformanceAmount, FromPerformances
<1>4. /\ A \in SUBSET Performances /\ B \in SUBSET Performances
      /\ IsFiniteSet(A) /\ IsFiniteSet(B)
      /\ Cardinality(A) \in Nat /\ Cardinality(B) \in Nat
      /\ Total(A) \in Nat /\ Total(B) \in Nat
      /\ Covers(A, B) /\ Total(A) <= Total(B)
      /\ Clear(p) =>
            Clear(q) /\ Covers(B, A) /\ Cardinality(A) = Cardinality(B) /\ Total(A) = Total(B)
  BY <1>1, <1>2, CandidatesGrow
<1>5. ASSUME A # {}
      PROVE  /\ B # {} /\ Greatest(A) \in Nat /\ Greatest(B) \in Nat
             /\ Greatest(A) <= Greatest(B) /\ Greatest(B) <= Total(B)
             /\ Clear(p) => Greatest(A) = Greatest(B)
  <2>1. B # {}
    BY <1>4, <1>5 DEF Covers
  <2>2. Greatest(A) \in Nat /\ Greatest(B) \in Nat
    BY <1>4, <1>5, <2>1, GreatestAmount
  <2>3. Greatest(A) <= Greatest(B) /\ (Clear(p) => Greatest(B) <= Greatest(A))
    <3> HIDE DEF Clear
    <3> QED BY <1>4, <1>5, <2>1, MoreAtMost
  <2>4. PICK x \in B : Greatest(B) = x.amount
    BY <1>4, <2>1, GreatestAmount
  <2>5. x.amount <= Total(B)
    BY <1>4, <2>4, UnitsFinite
  <2> HIDE DEF Clear
  <2> QED BY <2>1, <2>2, <2>3, <2>4, <2>5
<1>6. JudgePerformanceAmount(r, p, Day) =
          IF A = {} THEN FromProfile(FALSE, Clear(p))
          ELSE IF Compared(A) = "unclear" THEN Unsupported
          ELSE IF Compared(A) = "no" /\ Ambiguous(r, p, Day) THEN Unknown
          ELSE IF Disputed(A) THEN Unsupported
          ELSE FromProfile(Compared(A) = "yes", Clear(p))
  <2> HIDE DEF Clear, Compared, Disputed, Unknown, Unsupported
  <2> QED BY <1>1, <1>3
<1>7. JudgePerformanceAmount(r, q, Day) =
          IF B = {} THEN FromProfile(FALSE, Clear(q))
          ELSE IF Compared(B) = "unclear" THEN Unsupported
          ELSE IF Compared(B) = "no" /\ Ambiguous(r, q, Day) THEN Unknown
          ELSE IF Disputed(B) THEN Unsupported
          ELSE FromProfile(Compared(B) = "yes", Clear(q))
  <2> HIDE DEF Clear, Compared, Disputed, Unknown, Unsupported
  <2> QED BY <1>2, <1>3
<1>8. CASE A = {}
  <2>1. JudgePerformanceAmount(r, p, Day) = FromProfile(FALSE, Clear(p))
    <3> HIDE DEF Unknown, Unsupported, Clear, Disputed, Compared
    <3> QED BY <1>6, <1>8
  <2>2. Clear(p)
    <3> HIDE DEF Clear, Unknown
    <3> QED BY <2>1, OpenIsUnknown DEF FromProfile
  <2>3. B = {} /\ Clear(q)
    BY <1>4, <1>8, <2>2 DEF Covers
  <2>4. JudgePerformanceAmount(r, q, Day) = FromProfile(FALSE, Clear(q))
    <3> HIDE DEF Unknown, Unsupported, Clear, Disputed, Compared
    <3> QED BY <1>7, <2>3
  <2> HIDE DEF Clear
  <2> QED BY <2>1, <2>2, <2>3, <2>4, DecidedIs
<1>9. CASE A # {} /\ Compared(A) = "yes"
  <2>1. B # {} /\ Compared(B) = "yes"
    <3>1. PICK a \in Nat, b \in Nat :
             /\ a = IF r.scope.aggregation = "SUM" THEN Total(A) ELSE Greatest(A)
             /\ b = IF r.scope.aggregation = "SUM" THEN Total(B) ELSE Greatest(B)
      BY <1>4, <1>5, <1>9
    <3>2. a <= b
      BY <1>4, <1>5, <1>9, <3>1
    <3> QED BY <1>5, <1>9, <3>1, <3>2, GrowthCompares
  <2>2. ~Disputed(B)
    <3> SUFFICES ASSUME r.scope.aggregation = "UNSPECIFIED"
                 PROVE  Compare(Total(B), r.operator, r.value) = "yes"
      BY <2>1
    <3>1. Compare(Greatest(B), r.operator, r.value) = "yes"
      <4>1. r.scope.aggregation # "SUM"
        OBVIOUS
      <4> QED BY <2>1, <4>1
    <3>2. PICK a \in Nat, b \in Nat : a = Greatest(B) /\ b = Total(B) /\ a <= b
      BY <1>4, <1>5, <1>9
    <3> QED BY <3>1, <3>2, GrowthCompares
  <2>3. JudgePerformanceAmount(r, q, Day) = FromProfile(TRUE, Clear(q))
    <3> HIDE DEF Unknown, Unsupported, Clear, Disputed, Compared
    <3> QED BY <1>7, <2>1, <2>2
  <2>4. JudgePerformanceAmount(r, p, Day) = FromProfile(TRUE, Clear(p))
    <3> HIDE DEF Unknown, Unsupported, Clear, Disputed, Compared
    <3> QED BY <1>6, <1>9, OpenIsUnknown
  <2> HIDE DEF Clear
  <2> QED BY <2>3, <2>4, DecidedIs
<1>a. CASE A # {} /\ Compared(A) # "yes"
  <2>1. /\ Compared(A) # "unclear" /\ ~Disputed(A) /\ ~(Compared(A) = "no" /\ Ambiguous(r, p, Day))
        /\ JudgePerformanceAmount(r, p, Day) = FromProfile(FALSE, Clear(p))
    <3> HIDE DEF Unknown, Unsupported, Clear, Disputed, Compared
    <3> QED BY <1>6, <1>a, OpenIsUnknown
  <2>2. Clear(p)
    <3> HIDE DEF Clear, Unknown
    <3> QED BY <2>1, OpenIsUnknown DEF FromProfile
  <2>3. /\ B # {} /\ Clear(q) /\ Greatest(B) = Greatest(A) /\ Total(B) = Total(A)
        /\ Cardinality(B) = Cardinality(A)
    BY <1>4, <1>5, <1>a, <2>2
  <2>4. Compared(B) = Compared(A) /\ (Disputed(B) <=> Disputed(A))
    BY <2>3
  <2>5. JudgePerformanceAmount(r, q, Day) = FromProfile(FALSE, Clear(q))
    <3>1. ~Ambiguous(r, q, Day)
      BY <2>3
    <3> HIDE DEF Unknown, Unsupported, Clear, Disputed, Compared
    <3> QED BY <1>7, <1>a, <2>1, <2>3, <2>4, <3>1
  <2> HIDE DEF Clear
  <2> QED BY <2>1, <2>2, <2>3, <2>5, DecidedIs
<1> QED BY <1>8, <1>9, <1>a

LEMMA PerformanceCountStands ==
    ASSUME NEW r, r.period \in Nat \cup {None}, r.operator \in {">=", ">"},
           r.value \in Nat \cup {None},
           NEW p \in ProfileSnapshot, NEW q \in ProfileSnapshot, Completes(p, q),
           JudgePerformanceCount(r, p, Day).status # "UNKNOWN"
    PROVE  JudgePerformanceCount(r, q, Day).status = JudgePerformanceCount(r, p, Day).status
<1> DEFINE Clear(s) == s.complete["performances"] /\ ~Ambiguous(r, s, Day)
           Compared(s) == Compare(Cardinality(Candidates(r, s, Day)), r.operator, r.value)
<1>1. ASSUME NEW s
      PROVE  JudgePerformanceCount(r, s, Day) =
                IF Compared(s) = "unclear" THEN Unsupported
                ELSE FromProfile(Compared(s) = "yes", Clear(s))
  <2> HIDE DEF Unsupported
  <2> QED BY DEF JudgePerformanceCount, FromPerformances
<1>2. PICK a \in Nat, b \in Nat : /\ a = Cardinality(Candidates(r, p, Day))
                                  /\ b = Cardinality(Candidates(r, q, Day))
                                  /\ a <= b /\ (Clear(p) => Clear(q) /\ a = b)
  BY CandidatesGrow
<1>3. /\ Compared(p) = "yes" => Compared(q) = "yes"
      /\ Clear(p) => Compared(q) = Compared(p) /\ Clear(q)
  BY <1>2, GrowthCompares
<1>4. Compared(p) # "unclear"
  <2> HIDE DEF Unsupported, Compared, Clear
  <2> QED BY <1>1, OpenIsUnknown
<1>5. Compared(q) # "unclear"
  BY <1>2, <1>4 DEF Compare
<1>6. /\ JudgePerformanceCount(r, p, Day) = FromProfile(Compared(p) = "yes", Clear(p))
      /\ JudgePerformanceCount(r, q, Day) = FromProfile(Compared(q) = "yes", Clear(q))
  <2> HIDE DEF Unsupported, Compared, Clear
  <2> QED BY <1>1, <1>4, <1>5
<1> DEFINE Enough(s) == Compared(s) = "yes"
<1>7. /\ JudgePerformanceCount(r, p, Day) = FromProfile(Enough(p), Clear(p))
      /\ JudgePerformanceCount(r, q, Day) = FromProfile(Enough(q), Clear(q))
      /\ Enough(p) => Enough(q)
      /\ ~Enough(p) /\ Clear(p) => ~Enough(q) /\ Clear(q)
  <2> HIDE DEF Compared, Clear
  <2> QED BY <1>3, <1>6
<1> HIDE DEF Enough, Clear
<1> QED BY <1>7, DecisionStands

LEMMA ExperienceFieldStands ==
    ASSUME NEW r, r.period \in Nat \cup {None},
           NEW p \in ProfileSnapshot, NEW q \in ProfileSnapshot, Completes(p, q),
           JudgeExperienceField(r, p, Day).status # "UNKNOWN"
    PROVE  JudgeExperienceField(r, q, Day).status = JudgeExperienceField(r, p, Day).status
<1> DEFINE Clear(s) == s.complete["performances"] /\ ~Ambiguous(r, s, Day)
           Shown(s) == \E item \in Candidates(r, s, Day) : InField(item, r.value)
<1>1. Matchable(r)
  <2> HIDE DEF Unsupported
  <2> QED BY OpenIsUnknown DEF JudgeExperienceField
<1>2. ASSUME NEW s
      PROVE  JudgeExperienceField(r, s, Day) = FromProfile(Shown(s), Clear(s))
  BY <1>1 DEF JudgeExperienceField, FromPerformances
<1>3. ASSUME NEW x \in Candidates(r, p, Day), NEW y \in Candidates(r, q, Day), SamePerformance(x, y)
      PROVE  InField(y, r.value) <=> InField(x, r.value)
  <2>1. x \in Performances /\ y \in Performances
    BY <1>3 DEF Candidates, Considered, ProfileSnapshot
  <2>2. y.names = x.names
    BY <1>3, <2>1, DateFitsYear
  <2> QED BY <2>2 DEF InField
<1>4. (Shown(p) => Shown(q)) /\ (Clear(p) => Clear(q) /\ (Shown(q) => Shown(p)))
  BY <1>3, CandidatesStay
<1> HIDE DEF Shown, Clear
<1> QED BY <1>2, <1>4, DecisionStands

LEMMA Concatenated ==
    ASSUME NEW E, NEW s, s \in Seq(E), NEW t, t \in Seq(E), NEW u, u = s \o t
    PROVE  /\ u \in Seq(E) /\ Len(u) = Len(s) + Len(t)
           /\ \A k \in 1..Len(s) : u[k] = s[k]
           /\ \A k \in 1..Len(t) : u[Len(s) + k] = t[k]
  OBVIOUS

\* A profile grows step by step.
LEMMA StepGrows ==
    ASSUME profile \in ProfileSnapshot, CompleteProfile,
           NEW p, p = profile, NEW q, q = profile'
    PROVE  q \in ProfileSnapshot /\ Grows(p, q) /\ rq' = rq
<1>0. /\ p \in [region : RegionName \cup {None}, size : Size \cup {None},
                affiliate : BOOLEAN \cup {None}, grade : People \cup {None},
                industries : SUBSET IndustryCode, staff : Staff \cup {None},
                performances : SUBSET Performances, certifications : SUBSET Certificate,
                complete : [Area -> BOOLEAN]]
      /\ IsFiniteSet(p.performances)
      /\ \A x, y \in p.performances : x.ref = y.ref => x = y
      /\ \A x \in p.performances : SamePerformance(x, x)
      /\ p.region # None => p.region \in RegionName
  BY DEF ProfileSnapshot, SamePerformance
<1>1. CASE LearnRegion
  <2>1. PICK r \in RegionName :
           /\ p.region # None => \/ p.region \subseteq r
                                 \/ IsPartOf(RegionKey(r), RegionKey(p.region))
           /\ q = [p EXCEPT !.region = r] /\ rq' = rq
    BY <1>1 DEF LearnRegion, Learn
  <2> QED BY <1>0, <2>1 DEF ProfileSnapshot, Grows
<1>2. CASE LearnSize
  <2>1. PICK size \in Size : p.size = None /\ q = [p EXCEPT !.size = size] /\ rq' = rq
    BY <1>2 DEF LearnSize, Learn
  <2> QED BY <1>0, <2>1 DEF ProfileSnapshot, Grows
<1>3. CASE LearnAffiliate
  <2>1. PICK b \in BOOLEAN : p.affiliate = None /\ q = [p EXCEPT !.affiliate = b] /\ rq' = rq
    BY <1>3 DEF LearnAffiliate, Learn
  <2> QED BY <1>0, <2>1 DEF ProfileSnapshot, Grows
<1>4. CASE LearnGrade
  <2>1. PICK n \in People : p.grade = None /\ q = [p EXCEPT !.grade = n] /\ rq' = rq
    BY <1>4 DEF LearnGrade, Learn
  <2> QED BY <1>0, <2>1 DEF ProfileSnapshot, Grows
<1>5. CASE AddIndustry
  <2>1. PICK i \in IndustryCode : /\ rq' = rq
                                  /\ q = [p EXCEPT !.industries = p.industries \cup {i}]
    BY <1>5 DEF AddIndustry, Learn
  <2> QED BY <1>0, <2>1 DEF ProfileSnapshot, Grows
<1>6. CASE LearnStaff
  <2>1. PICK n \in People : /\ p.staff = None /\ rq' = rq
                            /\ q = [p EXCEPT !.staff = [total |-> n, roles |-> <<>>]]
    BY <1>6 DEF LearnStaff, Learn
  <2>2. [total |-> n, roles |-> <<>>] \in Staff
    BY <2>1 DEF Staff
  <2> QED BY <1>0, <2>1, <2>2 DEF ProfileSnapshot, Grows
<1>7. CASE AddRole
  <2>1. PICK name \in RoleName, n \in People, i \in 1..(Len(p.staff.roles) + 1) :
           /\ p.staff # None /\ rq' = rq
           /\ q = [p EXCEPT !.staff = [p.staff EXCEPT !.roles =
                      InsertAt(@, i, [name |-> name, headcount |-> n])]]
    BY <1>7 DEF AddRole, Learn
  <2>2. PICK old : old = p.staff.roles
    OBVIOUS
  <2>3. PICK role : role = [name |-> name, headcount |-> n]
    OBVIOUS
  <2>4. PICK new : new = InsertAt(old, i, role)
    OBVIOUS
  <2>5. PICK E : E = [name : RoleName, headcount : People]
    OBVIOUS
  <2>6. p.staff \in Staff /\ old \in Seq(E) /\ role \in E
    BY <1>0, <2>1, <2>2, <2>3, <2>5 DEF Staff
  <2>7. /\ new \in Seq(E)
        /\ \A k \in DOMAIN old : \E j \in DOMAIN new : new[j] = old[k]
    <3>1. i \in 1..(Len(old) + 1) /\ Len(old) \in Nat
      BY <2>1, <2>2, <2>6
    <3>2. PICK before, after : /\ before = SubSeq(old, 1, i - 1) /\ after = SubSeq(old, i, Len(old))
                               /\ new = before \o <<role>> \o after
      BY <2>4 DEF InsertAt
    <3>3. /\ before \in Seq(E) /\ Len(before) = i - 1
          /\ \A k \in 1..(i - 1) : before[k] = old[k]
      BY <2>6, <3>1, <3>2
    <3>4. /\ after \in Seq(E) /\ Len(after) = Len(old) - i + 1
          /\ \A k \in 1..(Len(old) - i + 1) : after[k] = old[i + k - 1]
      BY <2>6, <3>1, <3>2
    <3>5. PICK upTo : upTo = before \o <<role>>
      OBVIOUS
    <3>6. /\ upTo \in Seq(E) /\ Len(upTo) = i
          /\ \A k \in 1..(i - 1) : upTo[k] = before[k]
      <4>1. <<role>> \in Seq(E) /\ Len(<<role>>) = 1
        BY <2>6
      <4> QED BY <3>1, <3>3, <3>5, <4>1, Concatenated
    <3>7. /\ new = upTo \o after /\ new \in Seq(E) /\ Len(new) = Len(old) + 1
          /\ \A k \in 1..i : new[k] = upTo[k]
          /\ \A k \in 1..(Len(old) - i + 1) : new[i + k] = after[k]
      <4>1. new = upTo \o after
        BY <3>2, <3>5
      <4>2. /\ new \in Seq(E) /\ Len(new) = Len(upTo) + Len(after)
            /\ \A k \in 1..Len(upTo) : new[k] = upTo[k]
            /\ \A k \in 1..Len(after) : new[Len(upTo) + k] = after[k]
        <5>1. upTo \in Seq(E) /\ after \in Seq(E)
          BY <3>4, <3>6
        <5> QED BY <4>1, <5>1, Concatenated
      <4> QED BY <3>1, <3>4, <3>6, <4>1, <4>2
    <3>8. ASSUME NEW k \in DOMAIN old
          PROVE  \E j \in DOMAIN new : new[j] = old[k]
      <4>1. k \in 1..Len(old) /\ DOMAIN new = 1..(Len(old) + 1)
        BY <2>6, <3>1, <3>7
      <4>2. CASE k <= i - 1
        <5>1. k \in 1..(i - 1) /\ k \in 1..i /\ k \in DOMAIN new
          BY <3>1, <4>1, <4>2
        <5> QED BY <3>3, <3>6, <3>7, <5>1
      <4>3. CASE k >= i
        <5>1. k - i + 1 \in 1..(Len(old) - i + 1) /\ k + 1 \in 1..(Len(old) + 1)
          BY <3>1, <4>1, <4>3
        <5>2. new[i + (k - i + 1)] = after[k - i + 1] /\ after[k - i + 1] = old[i + (k - i + 1) - 1]
          BY <3>4, <3>7, <5>1
        <5>3. i + (k - i + 1) = k + 1 /\ i + (k - i + 1) - 1 = k
          BY <3>1, <4>1
        <5> QED BY <4>1, <5>1, <5>2, <5>3
      <4> QED BY <3>1, <4>1, <4>2, <4>3
    <3> QED BY <3>7, <3>8
  <2>8. PICK staff : staff = [p.staff EXCEPT !.roles = new]
    OBVIOUS
  <2>9. /\ staff \in Staff /\ staff.total = p.staff.total /\ staff.roles = new
        /\ q = [p EXCEPT !.staff = staff]
    BY <2>1, <2>2, <2>3, <2>4, <2>5, <2>6, <2>7, <2>8 DEF Staff
  <2>a. staff # None
    BY <2>9, ProfileAssumption
  <2>b. /\ q.staff = staff /\ rq' = rq /\ q \in ProfileSnapshot
        /\ \A f \in {"region", "size", "affiliate", "grade", "industries", "performances",
                     "certifications", "complete"} : q[f] = p[f]
    BY <1>0, <2>1, <2>9 DEF ProfileSnapshot
  <2>c. /\ q.region = p.region /\ q.size = p.size /\ q.affiliate = p.affiliate
        /\ q.grade = p.grade /\ q.industries = p.industries
        /\ q.performances = p.performances /\ q.certifications = p.certifications
        /\ q.complete = p.complete
    BY <2>b
  <2>d. q.staff # None /\ q.staff.total = p.staff.total /\ q.staff.roles = new
    BY <2>9, <2>a, <2>b
  <2>e. \A x \in p.performances : \E y \in q.performances : SamePerformance(x, y)
    BY <1>0, <2>c
  <2> QED BY <1>0, <2>2, <2>7, <2>b, <2>c, <2>d, <2>e DEF Grows
<1>8. CASE AddPerformance
  <2>1. PICK x \in Performances : /\ rq' = rq
                                  /\ \A y \in p.performances : y.ref # x.ref
                                  /\ q = [p EXCEPT !.performances = p.performances \cup {x}]
    BY <1>8 DEF AddPerformance, Learn
  <2>2. IsFiniteSet(p.performances \cup {x})
    BY <1>0, FS_AddElement
  <2>3. PICK new : new = p.performances \cup {x}
    OBVIOUS
  <2>4. /\ new \subseteq Performances /\ \A a, b \in new : a.ref = b.ref => a = b
        /\ p.performances \subseteq new /\ q = [p EXCEPT !.performances = new]
    BY <1>0, <2>1, <2>3
  <2>5. /\ q.performances = new /\ q \in ProfileSnapshot
        /\ \A f \in {"region", "size", "affiliate", "grade", "industries", "staff",
                     "certifications", "complete"} : q[f] = p[f]
    BY <1>0, <2>2, <2>3, <2>4 DEF ProfileSnapshot
  <2> QED BY <1>0, <2>1, <2>4, <2>5 DEF Grows
<1>9. CASE DatePerformance
  <2>1. PICK x \in p.performances, date \in OnDay :
           /\ x.date = None /\ FirstDay(x.year) <= date /\ date <= LastDay(x.year) /\ rq' = rq
           /\ q = [p EXCEPT !.performances =
                      (p.performances \ {x}) \cup {[x EXCEPT !.date = date, !.year = None]}]
    BY <1>9 DEF DatePerformance, Learn
  <2>2. PICK y : y = [x EXCEPT !.date = date, !.year = None]
    OBVIOUS
  <2>3. y \in Performances /\ y.ref = x.ref /\ SamePerformance(x, y)
    <3>1. x \in Performances
      BY <1>0, <2>1
    <3>2. PICK ref \in Ref, work \in Work : \E d, year : x = Performed(ref, work, d, year)
      BY <3>1 DEF Performances
    <3>3. PICK d, year : x = Performed(ref, work, d, year)
      BY <3>2
    <3>4. y = Performed(ref, work, date, None) /\ y.ref = x.ref
      BY <2>2, <3>3 DEF Performed
    <3>5. y \in Performances
      BY <2>1, <3>2, <3>4 DEF Performances
    <3> QED BY <2>1, <2>2, <3>4, <3>5 DEF SamePerformance
  <2>4. PICK new : new = (p.performances \ {x}) \cup {y}
    OBVIOUS
  <2>5. q = [p EXCEPT !.performances = new]
    BY <2>1, <2>2, <2>4
  <2>6. IsFiniteSet(new)
    <3>1. IsFiniteSet(p.performances \ {x})
      BY <1>0, FS_RemoveElement
    <3> QED BY <2>4, <3>1, FS_AddElement
  <2>7. /\ new \subseteq Performances
        /\ \A a, b \in new : a.ref = b.ref => a = b
        /\ \A a \in p.performances : \E b \in new : SamePerformance(a, b)
        /\ \A b \in new : \E a \in p.performances : SamePerformance(a, b)
    BY <1>0, <2>1, <2>3, <2>4
  <2>8. /\ q.performances = new /\ q \in ProfileSnapshot
        /\ \A f \in {"region", "size", "affiliate", "grade", "industries", "staff",
                     "certifications", "complete"} : q[f] = p[f]
    BY <1>0, <2>5, <2>6, <2>7 DEF ProfileSnapshot
  <2> QED BY <1>0, <2>1, <2>7, <2>8 DEF Grows
<1>a. CASE AddCertification
  <2>1. PICK c \in Certificate : /\ rq' = rq
                                 /\ q = [p EXCEPT !.certifications = p.certifications \cup {c}]
    BY <1>a DEF AddCertification, Learn
  <2> QED BY <1>0, <2>1 DEF ProfileSnapshot, Grows
<1>b. CASE DeclareComplete
  <2>1. PICK a \in Area : /\ ~p.complete[a] /\ rq' = rq
                          /\ q = [p EXCEPT !.complete = [p.complete EXCEPT ![a] = TRUE]]
    BY <1>b DEF DeclareComplete, Learn
  <2>2. PICK new : new = [p.complete EXCEPT ![a] = TRUE]
    OBVIOUS
  <2>3. /\ new \in [Area -> BOOLEAN] /\ \A b \in Area : p.complete[b] => new[b]
        /\ q = [p EXCEPT !.complete = new]
    BY <1>0, <2>1, <2>2
  <2>4. /\ q.complete = new /\ q \in ProfileSnapshot
        /\ \A f \in {"region", "size", "affiliate", "grade", "industries", "staff",
                     "performances", "certifications"} : q[f] = p[f]
    BY <1>0, <2>3 DEF ProfileSnapshot
  <2> QED BY <1>0, <2>1, <2>3, <2>4 DEF Grows
<1> QED BY <1>1, <1>2, <1>3, <1>4, <1>5, <1>6, <1>7, <1>8, <1>9, <1>a, <1>b DEF CompleteProfile

\* A step that adds nothing to a complete area completes the profile.
LEMMA StepCompletes ==
    ASSUME NEW p, p = profile, NEW q, q = profile', ~Contradicts,
           p \in ProfileSnapshot, q \in ProfileSnapshot, Grows(p, q)
    PROVE  Completes(p, q)
<1>1. /\ p.complete["industries"] => q.industries = p.industries
      /\ p.complete["certifications"] => q.certifications = p.certifications
      /\ p.complete["roles"] /\ p.staff # None => q.staff = p.staff
      /\ p.complete["performances"] =>
            {x.ref : x \in q.performances} = {x.ref : x \in p.performances}
  BY DEF Contradicts
<1>2. /\ p.performances \subseteq Performances /\ q.performances \subseteq Performances
      /\ \A x, y \in q.performances : x.ref = y.ref => x = y
  BY DEF ProfileSnapshot
<1>3. ASSUME p.complete["performances"], NEW y \in q.performances
      PROVE  \E x \in p.performances : SamePerformance(x, y)
  <2>1. PICK x \in p.performances : x.ref = y.ref
    BY <1>1, <1>3
  <2>2. PICK z \in q.performances : SamePerformance(x, z)
    BY DEF Grows
  <2>3. z.ref = x.ref
    <3>1. \/ z = x
          \/ \E date \in OnDay : z = [x EXCEPT !.date = date, !.year = None]
      BY <2>2 DEF SamePerformance
    <3>2. PICK ref \in Ref, work \in Work : \E d, year : x = Performed(ref, work, d, year)
      BY <1>2 DEF Performances
    <3>3. PICK d, year : x = Performed(ref, work, d, year)
      BY <3>2
    <3> QED BY <3>1, <3>3 DEF Performed
  <2> QED BY <1>2, <2>1, <2>2, <2>3
<1> QED BY <1>1, <1>3 DEF Completes

\* No rule takes back what it has decided.
LEMMA RulesStand ==
    ASSUME NEW r, r.type \in RequirementType, r.extension \in Extension \cup {None},
           r.type \in {"PERFORMANCE_AMOUNT", "PERFORMANCE_COUNT"} =>
               r.value \in Nat \cup {None} /\ r.operator \in {">=", ">"},
           r.period \in Nat \cup {None},
           NEW p \in ProfileSnapshot, NEW q \in ProfileSnapshot, Completes(p, q),
           r.type = "STAFF" /\ q.staff # None => ~(Cardinality(Meant(r, q)) > 1),
           r.type = "REGION" =>
               /\ ~Loose(r, p) /\ ~Loose(r, q)
               /\ ~(p.region # None /\ p.region \subseteq q.region /\ q.region # p.region),
           JudgeByType(r, p, Day).status # "UNKNOWN"
    PROVE  JudgeByType(r, q, Day).status = JudgeByType(r, p, Day).status
<1>1. CASE r.extension # None
  <2>1. \A s : JudgeByType(r, s, Day) = JudgeExtension(r, s)
    BY <1>1 DEF JudgeByType
  <2>2. CASE r.extension = "sw_engineer_grade"
    <3>1. \A s : JudgeExtension(r, s) = IF s.grade = None THEN Unknown
                                       ELSE Decided(s.grade >= r.value, "USER_ANSWER")
      BY <2>2 DEF JudgeExtension
    <3>2. p.grade # None
      BY <2>1, <3>1, OpenIsUnknown
    <3> QED BY <2>1, <3>1, <3>2 DEF Completes, Grows
  <2>3. CASE r.extension = "conglomerate_affiliate"
    <3>1. \A s : JudgeExtension(r, s) = IF s.affiliate = None THEN Unknown
                                       ELSE Decided(~s.affiliate, "USER_ANSWER")
      BY <2>3 DEF JudgeExtension
    <3>2. p.affiliate # None
      BY <2>1, <3>1, OpenIsUnknown
    <3> QED BY <2>1, <3>1, <3>2 DEF Completes, Grows
  <2> QED BY <1>1, <2>2, <2>3 DEF Extension
<1>2. CASE r.extension = None /\ r.type = "REGION"
  BY <1>2, RegionStands DEF JudgeByType
<1>3. CASE r.extension = None /\ r.type = "COMPANY_SIZE"
  BY <1>3, CompanySizeStands DEF JudgeByType
<1>4. CASE r.extension = None /\ r.type = "INDUSTRY"
  BY <1>4, IndustryStands DEF JudgeByType
<1>5. CASE r.extension = None /\ r.type = "STAFF"
  BY <1>5, StaffStands DEF JudgeByType
<1>6. CASE r.extension = None /\ r.type = "PERFORMANCE_AMOUNT"
  BY <1>6, PerformanceAmountStands DEF JudgeByType
<1>7. CASE r.extension = None /\ r.type = "PERFORMANCE_COUNT"
  BY <1>7, PerformanceCountStands DEF JudgeByType
<1>8. CASE r.extension = None /\ r.type = "EXPERIENCE_FIELD"
  BY <1>8, ExperienceFieldStands DEF JudgeByType
<1>9. CASE r.extension = None /\ r.type = "REGISTRATION_CERTIFICATION"
  BY <1>9, CertificationStands DEF JudgeByType
<1> QED BY <1>1, <1>2, <1>3, <1>4, <1>5, <1>6, <1>7, <1>8, <1>9 DEF RequirementType

\* Nor does the guard of its clause.
LEMMA JudgmentStands ==
    ASSUME NEW r, NEW p, NEW q,
           JudgeByType(r, p, Day).status # "UNKNOWN" =>
               JudgeByType(r, q, Day).status = JudgeByType(r, p, Day).status,
           Judge(r, p, Day).status # "UNKNOWN"
    PROVE  Judge(r, q, Day).status = Judge(r, p, Day).status
<1> HIDE DEF Unknown, Unsupported
<1>1. ~Guarded(r)
  BY OpenIsUnknown DEF Judge
<1>2. Judge(r, p, Day) = JudgeByType(r, p, Day)
  BY <1>1, OpenIsUnknown DEF Judge
<1>3. JudgeByType(r, q, Day).status = JudgeByType(r, p, Day).status
  BY <1>2
<1>4. r.assessed /\ r.exception => JudgeByType(r, q, Day).status = "SATISFIED"
  BY <1>1, <1>3, OpenIsUnknown DEF Judge
<1> QED BY <1>1, <1>2, <1>3, <1>4 DEF Judge

\* The parts of a profile that are facts.
Facts == {"region", "size", "affiliate", "grade", "industries", "staff", "performances",
          "certifications"}

\* What is met is met whatever is said to be complete.
LEMMA MetAnyway ==
    ASSUME NEW r, r.type \in RequirementType, r.extension \in Extension \cup {None},
           NEW p, NEW q, \A f \in Facts : q[f] = p[f],
           JudgeByType(r, p, Day).status = "SATISFIED"
    PROVE  JudgeByType(r, q, Day).status = "SATISFIED"
<1>1. ASSUME NEW matched, NEW complete, NEW other,
             FromProfile(matched, complete).status = "SATISFIED"
      PROVE  FromProfile(matched, other).status = "SATISFIED"
  BY <1>1 DEF FromProfile, Decided, Unknown, Verdict
<1>2. Unknown.status # "SATISFIED" /\ Unsupported.status # "SATISFIED"
  BY OpenIsUnknown
<1>3. /\ q.region = p.region /\ q.size = p.size /\ q.affiliate = p.affiliate
      /\ q.grade = p.grade /\ q.industries = p.industries /\ q.staff = p.staff
      /\ q.performances = p.performances /\ q.certifications = p.certifications
  BY DEF Facts
<1>4. Considered(r, q) = Considered(r, p)
  BY <1>3 DEF Considered
<1>5. Candidates(r, q, Day) = Candidates(r, p, Day)
      /\ (Ambiguous(r, q, Day) <=> Ambiguous(r, p, Day))
  BY <1>4 DEF Candidates, Ambiguous
<1> HIDE DEF Unknown, Unsupported
<1>a. CASE r.extension # None
  BY <1>3, <1>a DEF JudgeByType, JudgeExtension, Extension
<1>b. CASE r.extension = None /\ r.type = "REGION"
  BY <1>1, <1>2, <1>3, <1>b DEF JudgeByType, JudgeRegion
<1>c. CASE r.extension = None /\ r.type = "COMPANY_SIZE"
  BY <1>1, <1>2, <1>3, <1>c DEF JudgeByType, JudgeCompanySize
<1>d. CASE r.extension = None /\ r.type = "INDUSTRY"
  BY <1>1, <1>2, <1>3, <1>d DEF JudgeByType, JudgeIndustry
<1>e. CASE r.extension = None /\ r.type = "STAFF"
  <2>1. JudgeStaff(r, p).status = "SATISFIED"
    BY <1>e DEF JudgeByType
  <2>2. p.staff # None
    BY <1>2, <2>1 DEF JudgeStaff
  <2>3. CASE r.scope.role = {}
    <3>1. PICK total : total = Compare(p.staff.total, r.operator, r.value)
      OBVIOUS
    <3>2. ASSUME NEW s, s.staff = p.staff
          PROVE  JudgeStaff(r, s) = IF total = "unclear" THEN Unsupported
                                    ELSE FromProfile(total = "yes", s.complete["total"])
      BY <2>2, <2>3, <3>1, <3>2, Zenon DEF JudgeStaff
    <3>3. JudgeStaff(r, q).status = "SATISFIED"
      BY <1>1, <1>2, <1>3, <2>1, <3>2
    <3> QED BY <1>e, <3>3 DEF JudgeByType
  <2>4. CASE r.scope.role # {} /\ Meant(r, p) = {}
    <3>1. JudgeStaff(r, p) = FromProfile(FALSE, p.complete["roles"])
      BY <2>2, <2>4, Zenon DEF JudgeStaff, Meant
    <3> QED BY <2>1, <3>1 DEF FromProfile, Decided, Unknown, Verdict
  <2>5. CASE r.scope.role # {} /\ Meant(r, p) # {}
    <3>1. PICK first : first = p.staff.roles[CHOOSE i \in Meant(r, p) : \A j \in Meant(r, p) : i <= j]
      OBVIOUS
    <3>2. PICK compared :
              compared = IF r.operator = "MATCH" /\ r.value # None
                         THEN IF StringMatch(first.name, r.value) THEN "yes" ELSE "no"
                         ELSE Compare(first.headcount, r.operator, r.value)
      OBVIOUS
    <3>3. Meant(r, q) = Meant(r, p)
      BY <1>3 DEF Meant
    <3>4. first = q.staff.roles[CHOOSE i \in Meant(r, q) : \A j \in Meant(r, q) : i <= j]
      BY <1>3, <3>1, <3>3
    <3>5. JudgeStaff(r, p) = IF compared = "unclear" THEN Unsupported
                             ELSE FromProfile(compared = "yes", p.complete["roles"])
      BY <2>2, <2>5, <3>1, <3>2, RoleIsCompared
    <3>6. JudgeStaff(r, q) = IF compared = "unclear" THEN Unsupported
                             ELSE FromProfile(compared = "yes", q.complete["roles"])
      BY <1>3, <2>2, <2>5, <3>2, <3>3, <3>4, RoleIsCompared
    <3>7. JudgeStaff(r, q).status = "SATISFIED"
      BY <1>1, <1>2, <2>1, <3>5, <3>6
    <3> QED BY <1>e, <3>7 DEF JudgeByType
  <2> QED BY <2>3, <2>4, <2>5
<1>6. ASSUME NEW matched, FromPerformances(matched, r, p, Day).status = "SATISFIED"
      PROVE  FromPerformances(matched, r, q, Day).status = "SATISFIED"
  BY <1>1, <1>6 DEF FromPerformances
<1>f. CASE r.extension = None /\ r.type = "PERFORMANCE_AMOUNT"
  <2> DEFINE Of(amount) == IF r.operator = "RANGE" THEN CompareRange(amount, r.scope)
                           ELSE Compare(amount, r.operator, r.value)
             Compared(A) == Of(IF r.scope.aggregation = "SUM" THEN Total(A) ELSE Greatest(A))
             Disputed(A) == /\ r.scope.aggregation = "UNSPECIFIED" /\ Cardinality(A) > 1
                            /\ Of(Total(A)) # Compared(A)
  <2>1. ASSUME NEW s, NEW A, A = Candidates(r, s, Day)
        PROVE  JudgePerformanceAmount(r, s, Day) =
                  IF A = {} THEN FromPerformances(FALSE, r, s, Day)
                  ELSE IF Compared(A) = "unclear" THEN Unsupported
                  ELSE IF Compared(A) = "no" /\ Ambiguous(r, s, Day) THEN Unknown
                  ELSE IF Disputed(A) THEN Unsupported
                  ELSE FromPerformances(Compared(A) = "yes", r, s, Day)
    <3>1. CASE r.operator = "RANGE"
      BY <2>1, <3>1 DEF JudgePerformanceAmount
    <3>2. CASE r.operator # "RANGE"
      BY <2>1, <3>2 DEF JudgePerformanceAmount
    <3> QED BY <3>1, <3>2
  <2> HIDE DEF Compared, Disputed
  <2>2. PICK A : A = Candidates(r, p, Day) /\ A = Candidates(r, q, Day)
    BY <1>5
  <2>3. JudgePerformanceAmount(r, p, Day).status = "SATISFIED"
    BY <1>f DEF JudgeByType
  <2>4. CASE A = {}
    <3>1. /\ JudgePerformanceAmount(r, p, Day) = FromPerformances(FALSE, r, p, Day)
          /\ JudgePerformanceAmount(r, q, Day) = FromPerformances(FALSE, r, q, Day)
      BY <2>1, <2>2, <2>4
    <3>2. JudgePerformanceAmount(r, q, Day).status = "SATISFIED"
      BY <1>6, <2>3, <3>1
    <3> QED BY <1>f, <3>2 DEF JudgeByType
  <2>5. CASE A # {}
    <3>1. /\ Compared(A) # "unclear" /\ ~Disputed(A)
          /\ ~(Compared(A) = "no" /\ Ambiguous(r, p, Day))
      BY <1>2, <2>1, <2>2, <2>3, <2>5
    <3>2. /\ JudgePerformanceAmount(r, p, Day) = FromPerformances(Compared(A) = "yes", r, p, Day)
          /\ JudgePerformanceAmount(r, q, Day) = FromPerformances(Compared(A) = "yes", r, q, Day)
      BY <1>5, <2>1, <2>2, <2>5, <3>1
    <3>3. JudgePerformanceAmount(r, q, Day).status = "SATISFIED"
      BY <1>6, <2>3, <3>2
    <3> QED BY <1>f, <3>3 DEF JudgeByType
  <2> QED BY <2>4, <2>5
<1>g. CASE r.extension = None /\ r.type = "PERFORMANCE_COUNT"
  BY <1>2, <1>5, <1>6, <1>g DEF JudgeByType, JudgePerformanceCount
<1>h. CASE r.extension = None /\ r.type = "EXPERIENCE_FIELD"
  <2>1. PICK shown \in BOOLEAN : shown <=> \E item \in Candidates(r, p, Day) : InField(item, r.value)
    OBVIOUS
  <2>2. ASSUME NEW s, Candidates(r, s, Day) = Candidates(r, p, Day)
        PROVE  JudgeExperienceField(r, s, Day) = IF ~Matchable(r) THEN Unsupported
                                                 ELSE FromPerformances(shown, r, s, Day)
    BY <2>1, <2>2 DEF JudgeExperienceField
  <2>3. JudgeExperienceField(r, q, Day).status = "SATISFIED"
    <3>1. JudgeExperienceField(r, p, Day).status = "SATISFIED"
      BY <1>h DEF JudgeByType
    <3> QED BY <1>2, <1>5, <1>6, <2>2, <3>1
  <2> QED BY <1>h, <2>3 DEF JudgeByType
<1>i. CASE r.extension = None /\ r.type = "REGISTRATION_CERTIFICATION"
  <2> DEFINE Held(c) == \E item \in c :
                           /\ \E name \in item.names : CertificationMatch(name, r.value)
                           /\ IssuedBy(item, r.scope.issuer) /\ ValidOn(item, Day)
  <2>1. \A s : JudgeCertification(r, s, Day) =
                 IF ~Matchable(r) THEN Unsupported
                 ELSE FromProfile(Held(s.certifications), s.complete["certifications"])
    BY DEF JudgeCertification
  <2> HIDE DEF Held
  <2>2. JudgeCertification(r, p, Day).status = "SATISFIED"
    BY <1>i DEF JudgeByType
  <2>3. Matchable(r)
    BY <1>2, <2>1, <2>2
  <2>4. FromProfile(Held(p.certifications), p.complete["certifications"]).status = "SATISFIED"
    BY <2>1, <2>2, <2>3
  <2>5. FromProfile(Held(p.certifications), q.complete["certifications"]).status = "SATISFIED"
    BY <1>1, <2>4
  <2>6. JudgeCertification(r, q, Day).status = "SATISFIED"
    BY <1>3, <2>1, <2>3, <2>5
  <2> QED BY <1>i, <2>6 DEF JudgeByType
<1> QED BY <1>a, <1>b, <1>c, <1>d, <1>e, <1>f, <1>g, <1>h, <1>i DEF RequirementType

Completing == Judged /\ ValueFits /\ profile \in ProfileSnapshot

\* Whatever a company adds to its profile, dates or declares complete, in whatever order:
\* what is met stays met, and what is held against it is overturned only by a fact of an
\* area that was said to be complete (judgment.py:386-712).
THEOREM FactsNeverOverturn == CompletionSpec => FactsOverturnNothing
<1> DEFINE A == rq # None /\ AsksForMore /\ ~RivalRoles' /\ ~LooseRegion /\ ~LooseRegion'
                    /\ ~Reworded =>
                       /\ Judgment.status = "SATISFIED" => Judgment'.status = "SATISFIED"
                       /\ Judgment.status = "UNSATISFIED" /\ ~Contradicts =>
                              Judgment'.status = "UNSATISFIED"
<1>1. ASSUME Completing, CompleteProfile
      PROVE  Completing' /\ A
  <2>1. PICK p : p = profile
    OBVIOUS
  <2>2. PICK q : q = profile'
    OBVIOUS
  <2>3. q \in ProfileSnapshot /\ Grows(p, q) /\ rq' = rq /\ p \in ProfileSnapshot
    BY <1>1, <2>1, <2>2, StepGrows DEF Completing
  <2>4. Completing'
    BY <1>1, <2>2, <2>3 DEF Completing, Judged, ValueFits
  <2>5. Judgment = Judge(rq, p, Day) /\ Judgment' = Judge(rq, q, Day)
    BY <2>1, <2>2, <2>3 DEF Judgment
  <2> SUFFICES ASSUME AsksForMore, ~RivalRoles', ~LooseRegion, ~LooseRegion', ~Reworded
               PROVE  /\ Judgment.status = "SATISFIED" => Judgment'.status = "SATISFIED"
                      /\ Judgment.status = "UNSATISFIED" /\ ~Contradicts =>
                             Judgment'.status = "UNSATISFIED"
    BY <2>4
  <2>6. rq.type = "STAFF" /\ q.staff # None => ~(Cardinality(Meant(rq, q)) > 1)
    BY <2>2, <2>3 DEF RivalRoles, Meant
  <2>7. ASSUME rq.type = "REGION"
        PROVE  /\ ~Loose(rq, p) /\ ~Loose(rq, q)
               /\ ~(p.region # None /\ p.region \subseteq q.region /\ q.region # p.region)
    BY <2>1, <2>2, <2>3, <2>7 DEF LooseRegion, Loose, Reworded
  <2>8. ASSUME NEW s \in ProfileSnapshot, Completes(s, q), s.region = p.region,
               JudgeByType(rq, s, Day).status # "UNKNOWN"
        PROVE  JudgeByType(rq, q, Day).status = JudgeByType(rq, s, Day).status
    <3>1. rq.type = "REGION" =>
             /\ ~Loose(rq, s) /\ ~Loose(rq, q)
             /\ ~(s.region # None /\ s.region \subseteq q.region /\ q.region # s.region)
      BY <2>7, <2>8 DEF Loose
    <3> QED BY <1>1, <2>3, <2>6, <2>8, <3>1, RulesStand
            DEF Completing, Judged, ValueFits, AsksForMore
  <2>9. ASSUME Judgment.status = "SATISFIED"
        PROVE  Judgment'.status = "SATISFIED"
    <3>1. PICK s : s = [p EXCEPT !.complete = [a \in Area |-> FALSE]]
      OBVIOUS
    <3>2. s \in ProfileSnapshot /\ s.complete = [a \in Area |-> FALSE]
          /\ \A f \in Facts : s[f] = p[f]
      BY <2>3, <3>1 DEF ProfileSnapshot, Facts
    <3>3. /\ s.region = p.region /\ s.size = p.size /\ s.affiliate = p.affiliate
          /\ s.grade = p.grade /\ s.industries = p.industries /\ s.staff = p.staff
          /\ s.performances = p.performances /\ s.certifications = p.certifications
      BY <3>2 DEF Facts
    <3>4. /\ ~s.complete["industries"] /\ ~s.complete["certifications"]
          /\ ~s.complete["roles"] /\ ~s.complete["performances"]
          /\ \A a \in Area : ~s.complete[a]
      BY <3>2 DEF Area
    <3>5. Completes(s, q)
      BY <2>3, <3>3, <3>4 DEF Completes, Grows
    <3>6. ~Guarded(rq) /\ JudgeByType(rq, p, Day).status = "SATISFIED"
      BY <2>5, <2>9, OpenIsUnknown DEF Judge
    <3>7. JudgeByType(rq, s, Day).status = "SATISFIED"
      BY <1>1, <3>2, <3>6, MetAnyway DEF Completing, Judged
    <3>8. JudgeByType(rq, q, Day).status = "SATISFIED"
      BY <2>8, <3>2, <3>3, <3>5, <3>7
    <3> QED BY <2>5, <3>6, <3>8 DEF Judge
  <2>a. ASSUME Judgment.status = "UNSATISFIED", ~Contradicts
        PROVE  Judgment'.status = "UNSATISFIED"
    <3>1. Completes(p, q)
      BY <2>1, <2>2, <2>3, <2>a, StepCompletes
    <3>2. JudgeByType(rq, p, Day).status # "UNKNOWN" =>
             JudgeByType(rq, q, Day).status = JudgeByType(rq, p, Day).status
      BY <2>3, <2>8, <3>1
    <3> QED BY <2>5, <2>a, <3>2, JudgmentStands
  <2> QED BY <2>9, <2>a
<1>2. ASSUME Completing, UNCHANGED ruleVars
      PROVE  Completing'
  BY <1>2 DEF Completing, Judged, ValueFits, ruleVars
<1>3. Completing /\ [CompleteProfile]_ruleVars => Completing' /\ [A]_ruleVars
  BY <1>1, <1>2
<1> QED BY <1>3, PTL DEF CompletionSpec, Completing, FactsOverturnNothing

-----------------------------------------------------------------------------
(* ClauseReview *)

\* The findings, by what they come from.
RuleFindings == {ReviewRule(r) : r \in Rule}
ShapeFindings ==
    UNION {{Finding("open_ended_scope", "NEEDS_REVIEW", i, form) :
                form \in DetectPatterns(chunks[i])} : i \in DOMAIN chunks}

\* What is reviewed is as it came, and the findings are those of the rules and shapes.
ReviewInv ==
    /\ chunks \in Seq(ChunkRow) /\ clauses \in Seq(ClauseRow)
    /\ findings # Nil => findings = (RuleFindings \ {Nil}) \cup ShapeFindings

\* What comes out for a rule depends on what is reviewed alone.
LEMMA SameText ==
    ASSUME UNCHANGED <<notice, chunks, clauses, similarity>>
    PROVE  RuleFindings' = RuleFindings /\ ShapeFindings' = ShapeFindings
<1>0. chunks' = chunks /\ similarity' = similarity
  OBVIOUS
<1>1. ASSUME NEW r PROVE ResolveStandard(r)' = ResolveStandard(r)
  <2>1. ScopeForNotice' = ScopeForNotice
    BY DEF ScopeForNotice
  <2>2. ASSUME NEW scope
        PROVE  {i \in DOMAIN clauses : clauses[i].rule = r /\ clauses[i].scope = scope}'
                 = {i \in DOMAIN clauses : clauses[i].rule = r /\ clauses[i].scope = scope}
    OBVIOUS
  <2> QED BY <2>1, <2>2, Zenon DEF ResolveStandard
<1>2. \A i, j : Before(i, j)' = Before(i, j)
  BY DEF Before, Score
<1>3. \A is : First(is)' = First(is)
  BY <1>2, Zenon DEF First
<1>4. \A is, n : MostSimilar(is, n)' = MostSimilar(is, n)
  BY <1>2, Zenon DEF MostSimilar
<1>5. \A r : CandidateChunks(r)' = CandidateChunks(r)
  BY DEF CandidateChunks
<1>6. \A is : MostRelevant(is)' = MostRelevant(is)
  BY <1>3, Zenon DEF MostRelevant
<1>7. \A r, standard : FirstTier(r, standard)' = FirstTier(r, standard)
  <2> SUFFICES ASSUME NEW r, NEW standard PROVE FirstTier(r, standard)' = FirstTier(r, standard)
    OBVIOUS
  <2>1. \A i : Finding(r, JudgeChunk(r, standard, chunks[i]), i, "REGEX")'
                 = Finding(r, JudgeChunk(r, standard, chunks[i]), i, "REGEX")
    BY <1>0, Zenon
  <2>2. {Finding(r, JudgeChunk(r, standard, chunks[i]), i, "REGEX") :
            i \in MostRelevant(CandidateChunks(r))}'
          = {Finding(r, JudgeChunk(r, standard, chunks[i]), i, "REGEX") :
                i \in MostRelevant(CandidateChunks(r))}
    BY <1>5, <1>6, <2>1
  <2>3. \A judged : Foremost(judged)' = Foremost(judged)
    BY <1>3, Zenon DEF Foremost, Gravest
  <2> QED BY <2>2, <2>3, Zenon DEF FirstTier
<1>8. \A r, standard : EmbeddingFallback(r, standard)' = EmbeddingFallback(r, standard)
  BY <1>3, <1>4, <1>5, Zenon DEF EmbeddingFallback
<1>9. \A r : ReviewRule(r)' = ReviewRule(r)
  BY <1>1, <1>7, <1>8, Zenon DEF ReviewRule
<1> QED BY <1>0, <1>9 DEF RuleFindings, ShapeFindings

\* Nothing changes what is reviewed.
LEMMA ReviewHolds == ReviewSpec => []ReviewInv
<1>1. ReviewInit => ReviewInv
  BY DEF ReviewInit, ReviewInv
<1>2. ReviewInv /\ [ReviewNext]_termVars => ReviewInv'
  <2> SUFFICES ASSUME ReviewInv, [ReviewNext]_termVars PROVE ReviewInv'
    OBVIOUS
  <2>1. UNCHANGED <<notice, chunks, clauses, similarity>>
    BY DEF ReviewNext, ReviewClauses, Store, termVars
  <2>2. CASE ReviewClauses
    <3>1. findings' = (RuleFindings \ {Nil}) \cup ShapeFindings
      BY <2>2 DEF ReviewClauses, RuleFindings, ShapeFindings
    <3> QED BY <2>1, <3>1, SameText DEF ReviewInv
  <2>3. CASE UNCHANGED findings
    BY <2>1, <2>3, SameText DEF ReviewInv
  <2> QED BY <2>2, <2>3 DEF ReviewNext, Store, termVars
<1> QED BY <1>1, <1>2, PTL DEF ReviewSpec

\* What a finite set is mapped to is finite.
LEMMA Mapped ==
    ASSUME NEW S, IsFiniteSet(S), NEW f, f = [x \in S |-> f[x]]
    PROVE  IsFiniteSet({f[x] : x \in S})
<1>1. f \in Surjection(S, {f[x] : x \in S})
  BY DEF Surjection
<1> QED BY <1>1, FS_Surjection

\* What is on a list is finite.
LEMMA ListFinite ==
    ASSUME NEW S, NEW q \in Seq(S)
    PROVE  IsFiniteSet(ToSet(q)) /\ ToSet(q) \subseteq S
<1>1. q = [n \in DOMAIN q |-> q[n]] /\ ToSet(q) = {q[n] : n \in DOMAIN q}
  BY DEF ToSet
<1>2. IsFiniteSet(DOMAIN q)
  <2>1. DOMAIN q = 1..Len(q) /\ Len(q) \in Nat
    OBVIOUS
  <2> QED BY <2>1, FS_Interval
<1> QED BY <1>1, <1>2, Mapped DEF ToSet

\* The most similar chunk is one of them.
LEMMA FirstIsOne ==
    ASSUME ReviewInv, NEW is \in SUBSET (DOMAIN chunks), is # {}
    PROVE  First(is) \in is
<1> DEFINE R == {p \in is \X is : Before(p[1], p[2])}
<1>0. /\ DOMAIN chunks = 1..Len(chunks) /\ Len(chunks) \in Nat
      /\ \A i \in DOMAIN chunks : chunks[i] \in ChunkRow
  BY DEF ReviewInv
<1>1. \A i \in is : i \in Nat /\ Score(i) \in Int
  BY <1>0 DEF Score, ChunkRow
<1>2. IsFiniteSet(is)
  <2>1. IsFiniteSet(DOMAIN chunks)
    BY <1>0, FS_Interval
  <2> QED BY <2>1, FS_Subset
<1>3. /\ \A x \in is : <<x, x>> \notin R
      /\ \A x, y, z \in is : <<x, y>> \in R /\ <<y, z>> \in R => <<x, z>> \in R
  BY <1>1 DEF Before
<1>4. PICK x \in is : \A y \in is : <<y, x>> \notin R
  BY <1>2, <1>3, Least
<1>5. \A y \in is \ {x} : Before(x, y)
  <2> SUFFICES ASSUME NEW y \in is, y # x PROVE Before(x, y)
    OBVIOUS
  <2>1. ~Before(y, x)
    BY <1>4
  <2> QED BY <1>1, <1>4, <2>1 DEF Before
<1> QED BY <1>5 DEF First

\* Among figures there is a greatest.
LEMMA GreatestValue ==
    ASSUME NEW c \in ChunkRow, NEW r \in Rule, ValuesFor(r, c) # {}
    PROVE  /\ ValuesFor(r, c) \subseteq Int
           /\ \E v \in ValuesFor(r, c) : \A w \in ValuesFor(r, c) : w <= v
<1> DEFINE V == ValuesFor(r, c)
           told == Relevant(r, c)
           g == [s \in told |-> ToSet(s.figures)]
           K == {f \in FiguresOf(r, c) : f.read[r] # Nil /\ f.unit = UnitOf(r)
                                           /\ (f.read[r] = Unread \/ HasSizeOf(r, f.read[r]))}
           h == [f \in K |-> f.read[r]]
           R == {p \in V \X V : p[1] > p[2]}
<1>1. IsFiniteSet(told) /\ told \subseteq SentenceRow
  <2>1. c.sentences \in Seq(SentenceRow)
    BY DEF ChunkRow
  <2>2. IsFiniteSet(ToSet(c.sentences)) /\ ToSet(c.sentences) \subseteq SentenceRow
    BY <2>1, ListFinite
  <2>3. told \subseteq ToSet(c.sentences)
    BY DEF Relevant
  <2> QED BY <2>2, <2>3, FS_Subset
<1>2. \A s \in told : IsFiniteSet(ToSet(s.figures)) /\ ToSet(s.figures) \subseteq FigureRow
  BY <1>1, ListFinite DEF SentenceRow
<1>3. IsFiniteSet(FiguresOf(r, c)) /\ FiguresOf(r, c) \subseteq FigureRow
  <2>1. FiguresOf(r, c) = UNION {g[s] : s \in told}
    BY DEF FiguresOf
  <2>2. g = [s \in told |-> g[s]] /\ \A s \in told : g[s] = ToSet(s.figures)
    OBVIOUS
  <2>3. IsFiniteSet({g[s] : s \in told})
    <3> HIDE DEF g, told
    <3> QED BY <1>1, <2>2, Mapped
  <2>4. \A T \in {g[s] : s \in told} : IsFiniteSet(T) /\ T \subseteq FigureRow
    BY <1>2, <2>2
  <2>5. IsFiniteSet(UNION {g[s] : s \in told})
    <3> HIDE DEF g, told
    <3> QED BY <2>3, <2>4, FS_UNION
  <2> QED BY <2>1, <2>4, <2>5
<1>4. V \subseteq Int
  BY <1>3 DEF ValuesFor, FigureRow
<1>5. IsFiniteSet(V)
  <2>1. V = {h[f] : f \in K}
    BY DEF ValuesFor
  <2>2. IsFiniteSet(K)
    BY <1>3, FS_Subset
  <2>3. h = [f \in K |-> h[f]]
    OBVIOUS
  <2>4. IsFiniteSet({h[f] : f \in K})
    <3> HIDE DEF h, K
    <3> QED BY <2>2, <2>3, Mapped
  <2> QED BY <2>1, <2>4
<1> HIDE DEF V
<1>6. /\ \A x \in V : <<x, x>> \notin R
      /\ \A x, y, z \in V : <<x, y>> \in R /\ <<y, z>> \in R => <<x, z>> \in R
  BY <1>4
<1>7. PICK x \in V : \A y \in V : <<y, x>> \notin R
  <2>1. V # {}
    BY DEF V
  <2> HIDE DEF R
  <2> QED BY <1>5, <1>6, <2>1, Least
<1>8. \A y \in V : y <= x
  <2> SUFFICES ASSUME NEW y \in V PROVE y <= x
    OBVIOUS
  <2>1. ~(y > x)
    BY <1>7
  <2> QED BY <1>4, <2>1
<1> QED BY <1>4, <1>7, <1>8 DEF V

\* A chunk that departs is judged so.
LEMMA DepartureIsJudged ==
    ASSUME NEW r \in Rule, NEW c \in ChunkRow, NEW standard, Departs(r, standard, c),
           r \notin TextRule => standard \in Nat
    PROVE  JudgeChunk(r, standard, c) = "NEEDS_REVIEW"
<1>1. PICK s \in ToSet(c.sentences) :
          /\ SentenceApplies(r, s)
          /\ IF r \in TextRule
             THEN DepartingWording[r] \in s.words /\ StandardWording[r] \notin s.words
             ELSE \E f \in ToSet(s.figures) :
                     /\ f.unit = UnitOf(r) /\ f.read[r] = f.figure
                     /\ HasSizeOf(r, f.figure) /\ f.figure > standard
  BY Zenon DEF Departs
<1>2. s \in Relevant(r, c)
  BY <1>1 DEF Relevant
<1>3. CASE r \in TextRule
  BY <1>1, <1>2, <1>3, Zenon DEF JudgeChunk, JudgeText
<1>4. CASE r \notin TextRule
  <2>1. s \in SentenceRow
    <3>1. c.sentences \in Seq(SentenceRow)
      BY DEF ChunkRow
    <3> QED BY <1>1, <3>1 DEF ToSet
  <2>2. s.figures \in Seq(FigureRow)
    BY <2>1 DEF SentenceRow
  <2>3. PICK f \in ToSet(s.figures) :
           /\ f.unit = UnitOf(r) /\ f.read[r] = f.figure
           /\ HasSizeOf(r, f.figure) /\ f.figure > standard
    BY <1>1, <1>4
  <2>4. f.figure \in Int /\ f.read[r] # Nil
    <3>1. f \in FigureRow
      BY <2>2, <2>3, ListFinite
    <3>2. f.figure \in Int
      BY <3>1 DEF FigureRow
    <3> QED BY <2>3, <3>2, NilAssumption
  <2>5. PICK values : values = ValuesFor(r, c)
    OBVIOUS
  <2>6. f.read[r] \in values
    <3>1. f \in FiguresOf(r, c)
      BY <1>2, <2>3 DEF FiguresOf
    <3> QED BY <2>3, <2>4, <2>5, <3>1 DEF ValuesFor
  <2>7. values \subseteq Int /\ \E v \in values : \A w \in values : w <= v
    BY <2>5, <2>6, GreatestValue
  <2>8. PICK most : most = CHOOSE v \in values : \A w \in values : w <= v
    OBVIOUS
  <2>9. most \in Int /\ f.read[r] <= most
    BY <2>6, <2>7, <2>8
  <2>a. standard \in Nat /\ f.read[r] > standard /\ f.read[r] \in Int
    BY <1>4, <2>3, <2>4
  <2>b. ~(values \subseteq {Unread}) /\ most > standard
    BY <2>6, <2>9, <2>a DEF Unread
  <2>c. JudgeChunk(r, standard, c) = AgainstStandard(most, standard)
    BY <1>4, <2>5, <2>8, <2>b, Zenon DEF JudgeChunk, JudgeNumeric
  <2> QED BY <2>b, <2>c DEF AgainstStandard
<1> QED BY <1>3, <1>4

\* What the first tier looks at are chunks of the notice.
LEMMA LooksAtChunks ==
    ASSUME ReviewInv, NEW r
    PROVE  MostRelevant(CandidateChunks(r)) \subseteq DOMAIN chunks
<1>1. CandidateChunks(r) \subseteq DOMAIN chunks
  BY DEF CandidateChunks
<1>2. PICK is, alike : /\ is = CandidateChunks(r)
                       /\ alike = {i \in is : chunks[i].score >= MinScore}
  OBVIOUS
<1>3. MostRelevant(is) = is \/ MostRelevant(is) = alike \/ (is # {} /\ MostRelevant(is) = {First(is)})
  <2>1. IsFiniteSet(is)
    <3>1. IsFiniteSet(DOMAIN chunks)
      <4>1. DOMAIN chunks = 1..Len(chunks) /\ Len(chunks) \in Nat
        BY DEF ReviewInv
      <4> QED BY <4>1, FS_Interval
    <3> QED BY <1>1, <1>2, <3>1, FS_Subset
  <2>2. is = {} => Cardinality(is) <= 1
    BY FS_EmptySet
  <2> QED BY <1>2, <2>2, Zenon DEF MostRelevant
<1> QED BY <1>1, <1>2, <1>3, FirstIsOne

\* A departure decides what the first tier finds.
LEMMA GravestStands ==
    ASSUME ReviewInv, NEW r, NEW standard, NEW i \in MostRelevant(CandidateChunks(r)),
           JudgeChunk(r, standard, chunks[i]) = "NEEDS_REVIEW"
    PROVE  \E j \in DOMAIN chunks :
               FirstTier(r, standard) = Finding(r, "NEEDS_REVIEW", j, "REGEX")
<1>1. PICK looked : looked = MostRelevant(CandidateChunks(r)) /\ looked \subseteq DOMAIN chunks
  BY LooksAtChunks
<1>2. PICK judged : judged = {Finding(r, JudgeChunk(r, standard, chunks[j]), j, "REGEX") : j \in looked}
  OBVIOUS
<1>3. PICK found : found = Finding(r, "NEEDS_REVIEW", i, "REGEX")
  OBVIOUS
<1>4. found \in judged
  BY <1>1, <1>2, <1>3
<1>5. VerdictPriority("NEEDS_REVIEW") = 1 /\ \A v : VerdictPriority(v) \in 1..3
      /\ \A w : VerdictPriority(w) <= 1 => w = "NEEDS_REVIEW"
  BY DEF VerdictPriority
<1>6. \A f \in judged : f.rule = r /\ f.via = "REGEX" /\ f.chunk \in DOMAIN chunks
                        /\ f = Finding(f.rule, f.verdict, f.chunk, f.via)
  BY <1>1, <1>2 DEF Finding
<1>7. found.verdict = "NEEDS_REVIEW" /\ found.chunk = i
  BY <1>3 DEF Finding
<1>8. found \in Gravest(judged) /\ \A f \in Gravest(judged) : f \in judged /\ f.verdict = "NEEDS_REVIEW"
  BY <1>4, <1>5, <1>7 DEF Gravest
<1>9. PICK at : at = {g.chunk : g \in Gravest(judged)}
  OBVIOUS
<1>a. at # {} /\ at \subseteq DOMAIN chunks
  BY <1>6, <1>8, <1>9
<1>b. First(at) \in at
  BY <1>a, FirstIsOne
<1>c. \E f \in Gravest(judged) : f.chunk = First(at)
  BY <1>9, <1>b
<1>d. PICK f : f = Foremost(judged)
  OBVIOUS
<1>e. f \in Gravest(judged)
  BY <1>9, <1>c, <1>d, Zenon DEF Foremost
<1>f. FirstTier(r, standard) = f
  BY <1>1, <1>2, <1>4, <1>d, Zenon DEF FirstTier
<1> QED BY <1>6, <1>8, <1>e, <1>f

\* A condition that could be read has a figure, where its rule is about figures.
LEMMA ReadConditions ==
    ASSUME ReviewInv, NEW r \in Rule, ResolveStandard(r).status = "ok", r \notin TextRule
    PROVE  ResolveStandard(r).value \in Nat
<1>1. PICK scope : scope = SelectVariant(r, ScopeForNotice)
  OBVIOUS
<1>2. PICK found : found = {i \in DOMAIN clauses : clauses[i].rule = r /\ clauses[i].scope = scope}
  OBVIOUS
<1>3. PICK first : first = clauses[CHOOSE i \in found : \A j \in found : i <= j]
  OBVIOUS
<1>4. ResolveStandard(r) = IF scope = Nil THEN [status |-> "out_of_scope", value |-> Nil]
                           ELSE IF found = {} THEN [status |-> "clause_missing", value |-> Nil]
                           ELSE [status |-> first.status, value |-> first.value]
  BY <1>1, <1>2, <1>3, Zenon DEF ResolveStandard
<1>5. found # {} /\ first.status = "ok" /\ ResolveStandard(r).value = first.value
  BY <1>4
<1>6. found \subseteq DOMAIN clauses /\ DOMAIN clauses \subseteq Nat
  BY <1>2 DEF ReviewInv
<1>7. (CHOOSE i \in found : \A j \in found : i <= j) \in found
  BY <1>5, <1>6, LeadIsMember DEF Lead
<1>8. first \in ClauseRow /\ first.rule = r
  BY <1>2, <1>3, <1>6, <1>7 DEF ReviewInv
<1> QED BY <1>5, <1>8 DEF ClauseRow

\* A departure is among the findings.
LEMMA DepartureIsFound ==
    ASSUME ReviewInv, findings # Nil, NEW r \in Rule, ResolveStandard(r).status = "ok",
           NEW i \in MostRelevant(CandidateChunks(r)), Departs(r, ResolveStandard(r).value, chunks[i])
    PROVE  \E f \in findings : f.rule = r /\ f.verdict = "NEEDS_REVIEW"
<1>1. PICK standard : standard = ResolveStandard(r)
  OBVIOUS
<1>2. i \in DOMAIN chunks /\ chunks[i] \in ChunkRow
  BY LooksAtChunks DEF ReviewInv
<1>3. JudgeChunk(r, standard.value, chunks[i]) = "NEEDS_REVIEW"
  BY <1>1, <1>2, ReadConditions, DepartureIsJudged
<1>4. PICK j \in DOMAIN chunks :
          FirstTier(r, standard.value) = Finding(r, "NEEDS_REVIEW", j, "REGEX")
  BY <1>3, GravestStands
<1>5. PICK f : f = Finding(r, "NEEDS_REVIEW", j, "REGEX")
  OBVIOUS
<1>6. /\ f.rule = r /\ f.verdict = "NEEDS_REVIEW"
      /\ f \in FindingRow
  <2>1. j \in Nat
    BY <1>4 DEF ReviewInv
  <2>2. f = [rule |-> r, verdict |-> "NEEDS_REVIEW", chunk |-> j, via |-> "REGEX"]
    BY <1>5 DEF Finding
  <2>3. f \in FindingRow
    BY <2>1, <2>2 DEF FindingRow
  <2> QED BY <2>2, <2>3
<1>7. f # Nil
  BY <1>6, NilAssumption
<1>8. ReviewRule(r) = f
  BY <1>1, <1>4, <1>5, <1>6, <1>7 DEF ReviewRule
<1> QED BY <1>6, <1>7, <1>8 DEF ReviewInv, RuleFindings

\* The shapes that are kept of a chunk are well defined: they are settled one after the
\* other.
LEMMA PatternsKept ==
    ASSUME NEW c
    PROVE  /\ DetectPatterns(c) \subseteq ToSet(Forms)
           /\ \A n \in DOMAIN Forms : KeepsFirst(c, DetectPatterns(c), n)
<1> DEFINE Clash(n, m) == Overlap(c.shapes[Forms[n]], c.shapes[Forms[m]])
<1>1. PICK k1 \in BOOLEAN : k1 <=> Fires(c, Forms[1])
  OBVIOUS
<1>2. PICK k2 \in BOOLEAN : k2 <=> Fires(c, Forms[2]) /\ ~(k1 /\ Clash(2, 1))
  OBVIOUS
<1>3. PICK k3 \in BOOLEAN : k3 <=> Fires(c, Forms[3]) /\ ~(k1 /\ Clash(3, 1)) /\ ~(k2 /\ Clash(3, 2))
  OBVIOUS
<1>4. PICK k4 \in BOOLEAN :
          k4 <=> /\ Fires(c, Forms[4])
                 /\ ~(k1 /\ Clash(4, 1)) /\ ~(k2 /\ Clash(4, 2)) /\ ~(k3 /\ Clash(4, 3))
  OBVIOUS
<1>5. PICK k5 \in BOOLEAN :
          k5 <=> /\ Fires(c, Forms[5]) /\ ~(k1 /\ Clash(5, 1)) /\ ~(k2 /\ Clash(5, 2))
                 /\ ~(k3 /\ Clash(5, 3)) /\ ~(k4 /\ Clash(5, 4))
  OBVIOUS
<1>6. /\ Forms[1] = "residual" /\ Forms[2] = "authority" /\ Forms[3] = "ancillary"
      /\ Forms[4] = "enumeration" /\ Forms[5] = "deferral" /\ DOMAIN Forms = 1..5
      /\ ToSet(Forms) = {"residual", "authority", "ancillary", "enumeration", "deferral"}
  BY DEF Forms, ToSet
<1>7. PICK kept \in SUBSET ToSet(Forms) :
          /\ Forms[1] \in kept <=> k1
          /\ Forms[2] \in kept <=> k2
          /\ Forms[3] \in kept <=> k3
          /\ Forms[4] \in kept <=> k4
          /\ Forms[5] \in kept <=> k5
  <2> WITNESS {f \in ToSet(Forms) :
                  \/ f = "residual" /\ k1
                  \/ f = "authority" /\ k2
                  \/ f = "ancillary" /\ k3
                  \/ f = "enumeration" /\ k4
                  \/ f = "deferral" /\ k5} \in SUBSET ToSet(Forms)
  <2> QED BY <1>6
<1>8. \A n \in DOMAIN Forms : KeepsFirst(c, kept, n)
  <2> HIDE DEF Clash
  <2>1. KeepsFirst(c, kept, 1)
    BY <1>1, <1>7 DEF KeepsFirst
  <2>2. KeepsFirst(c, kept, 2)
    BY <1>2, <1>7 DEF KeepsFirst, Clash
  <2>3. KeepsFirst(c, kept, 3)
    BY <1>3, <1>7 DEF KeepsFirst, Clash
  <2>4. KeepsFirst(c, kept, 4)
    BY <1>4, <1>7 DEF KeepsFirst, Clash
  <2>5. KeepsFirst(c, kept, 5)
    BY <1>5, <1>7 DEF KeepsFirst, Clash
  <2> QED BY <1>6, <2>1, <2>2, <2>3, <2>4, <2>5
<1> QED BY <1>8, Zenon DEF DetectPatterns

\* A shape that fires is among the findings, or one that it overlaps.
LEMMA ShapeIsFound ==
    ASSUME ReviewInv, findings # Nil, NEW i \in DOMAIN chunks, NEW form \in DOMAIN chunks[i].shapes,
           Fires(chunks[i], form)
    PROVE  \E f \in findings :
              /\ f.rule = "open_ended_scope" /\ f.chunk = i
              /\ f.via = form \/ Overlap(chunks[i].shapes[f.via], chunks[i].shapes[form])
<1>1. PICK c : c = chunks[i] /\ c \in ChunkRow
  BY DEF ReviewInv
<1>2. form \in ToSet(Forms) /\ c.shapes \in [ToSet(Forms) -> Span \cup {Nil}]
  BY <1>1 DEF ChunkRow
<1>3. PICK kept : kept = DetectPatterns(c)
  OBVIOUS
<1>4. kept \subseteq ToSet(Forms) /\ \A n \in DOMAIN Forms : KeepsFirst(c, kept, n)
  BY <1>3, PatternsKept
<1>5. \A k \in kept : \E f \in findings : f.rule = "open_ended_scope" /\ f.chunk = i /\ f.via = k
  <2> SUFFICES ASSUME NEW k \in kept
               PROVE  \E f \in findings : f.rule = "open_ended_scope" /\ f.chunk = i /\ f.via = k
    OBVIOUS
  <2>1. PICK f : f = Finding("open_ended_scope", "NEEDS_REVIEW", i, k)
    OBVIOUS
  <2>2. f \in ShapeFindings
    BY <1>1, <1>3, <2>1 DEF ShapeFindings
  <2>3. f.rule = "open_ended_scope" /\ f.chunk = i /\ f.via = k
    BY <2>1 DEF Finding
  <2> QED BY <2>2, <2>3 DEF ReviewInv
<1>6. CASE form \in kept
  BY <1>5, <1>6
<1>7. CASE form \notin kept
  <2>1. PICK n \in DOMAIN Forms : Forms[n] = form
    BY <1>2 DEF ToSet
  <2>2. n \in 1..5 /\ DOMAIN Forms = 1..5
    BY <2>1 DEF Forms
  <2>3. PICK m \in 1..(n - 1) : Forms[m] \in kept /\ Overlap(c.shapes[form], c.shapes[Forms[m]])
    BY <1>1, <1>4, <1>7, <2>1 DEF KeepsFirst
  <2>4. m \in DOMAIN Forms
    BY <2>2, <2>3
  <2>5. PICK k : k = Forms[m]
    OBVIOUS
  <2>6. k \in kept /\ k \in ToSet(Forms) /\ Fires(c, k) /\ Overlap(c.shapes[form], c.shapes[k])
    BY <1>4, <2>3, <2>4, <2>5 DEF KeepsFirst
  <2>7. c.shapes[k] \in Span /\ c.shapes[form] \in Span
    BY <1>1, <1>2, <2>6 DEF Fires
  <2>8. Overlap(c.shapes[k], c.shapes[form])
    BY <2>6, <2>7 DEF Overlap, Span
  <2> QED BY <1>1, <1>5, <2>6, <2>8
<1> QED BY <1>6, <1>7

\* Departures that a pattern points at are reported, and so is one of the shapes on each
\* span that leaves the scope of work open (detect_standard_diff, detect_patterns).
THEOREM DeparturesAreReported == ReviewSpec => []DeparturesReported
<1>1. ReviewInv => DeparturesReported
  BY DepartureIsFound, ShapeIsFound, Zenon DEF DeparturesReported
<1> QED BY <1>1, ReviewHolds, PTL
-----------------------------------------------------------------------------
(* NoticeReading: the chunks of a text *)

\* Induction, for a set of numbers.
LEMMA Successors ==
    ASSUME NEW S, 0 \in S, \A n \in Nat : n \in S => n + 1 \in S
    PROVE  Nat \subseteq S
<1> SUFFICES ASSUME NEW x \in Nat, x \notin S PROVE FALSE
  OBVIOUS
<1> DEFINE K == Nat \ S
<1>1. PICK m \in K : \A l \in K : <<l, m>> \notin OpToRel(<, Nat)
  BY NatLessThanWellFounded, WFMin
<1>2. m # 0 /\ m - 1 \in Nat /\ m - 1 < m /\ (m - 1) + 1 = m
  OBVIOUS
<1>3. m - 1 \notin K
  BY <1>1, <1>2 DEF OpToRel
<1> QED BY <1>2, <1>3

\* A chunk begins at a line, or goes on.
StartOf(s, i) ==
    IF \/ NewDocument(i)
       \/ text[i].rank # None
       \/ text[i].page /\ i - s[i - 1] >= MaxChunk
    THEN i ELSE s[i - 1]

\* The function by which chunks begin satisfies its own equation.
LEMMA ChunksBegin ==
    ASSUME text \in Seq(LineRow)
    PROVE  \A i \in DOMAIN text : ChunkStart[i] = StartOf(ChunkStart, i)
<1> DEFINE N == Len(text)
           Good(n, s) == /\ s \in [1..n -> Nat]
                         /\ \A i \in 1..n : s[i] = StartOf(s, i)
           S == {n \in Nat : n <= N => \E s : Good(n, s)}
<1>1. N \in Nat /\ DOMAIN text = 1..N
  OBVIOUS
<1>2. 0 \in S
  <2>1. Good(0, [i \in 1..0 |-> 0])
    OBVIOUS
  <2> QED BY <2>1
<1>3. ASSUME NEW n \in Nat, n \in S PROVE n + 1 \in S
  <2> SUFFICES ASSUME n + 1 <= N PROVE \E s : Good(n + 1, s)
    OBVIOUS
  <2>1. PICK s : Good(n, s)
    BY <1>1, <1>3
  <2> DEFINE t == [i \in 1..(n + 1) |-> IF i <= n THEN s[i] ELSE StartOf(s, i)]
  <2>2. \A i \in 1..(n + 1) : i = 1 \/ (i - 1 \in 1..n /\ t[i - 1] = s[i - 1])
    OBVIOUS
  <2>3. \A i \in 1..(n + 1) : StartOf(t, i) = StartOf(s, i)
    BY <2>2 DEF StartOf, NewDocument
  <2>4. StartOf(s, n + 1) \in Nat
    BY <2>1, <2>2 DEF StartOf, NewDocument
  <2>5. t \in [1..(n + 1) -> Nat]
    BY <2>1, <2>4
  <2>6. \A i \in 1..(n + 1) : t[i] = StartOf(t, i)
    BY <2>1, <2>3
  <2> QED BY <2>5, <2>6
<1>4. N \in S
  BY <1>1, <1>2, <1>3, Successors
<1>5. PICK s : Good(N, s)
  BY <1>1, <1>4
<1>6. s = [i \in DOMAIN text |-> StartOf(s, i)]
  BY <1>1, <1>5
<1>7. ChunkStart = [i \in DOMAIN text |-> StartOf(ChunkStart, i)]
  BY <1>6 DEF ChunkStart, StartOf
<1> QED BY <1>7

\* Chunks follow one another, and begin with every heading and document.
LEMMA ChunkOrder ==
    ASSUME text \in Seq(LineRow)
    PROVE  /\ \A i \in DOMAIN text :
                 /\ ChunkStart[i] \in 1..i
                 /\ NewDocument(i) \/ text[i].rank # None => ChunkStart[i] = i
                 /\ ChunkStart[i] # i => i - 1 \in DOMAIN text /\ ChunkStart[i] = ChunkStart[i - 1]
                 /\ ChunkStart[ChunkStart[i]] = ChunkStart[i]
           /\ \A i, j \in DOMAIN text : i <= j => ChunkStart[i] <= ChunkStart[j]
<1> DEFINE N == Len(text)
           C(i) == ChunkStart[i]
           S == {n \in Nat : \A i \in 1..N : i <= n =>
                               /\ C(i) \in 1..i /\ C(C(i)) = C(i)
                               /\ \A j \in 1..i : C(j) <= C(i)}
<1>1. N \in Nat /\ DOMAIN text = 1..N
  OBVIOUS
<1>2. \A i \in 1..N :
         /\ C(i) = i \/ (i - 1 \in 1..N /\ C(i) = C(i - 1))
         /\ NewDocument(i) \/ text[i].rank # None => C(i) = i
  <2>1. \A i \in 1..N : i = 1 \/ i - 1 \in 1..N
    BY <1>1
  <2> QED BY <1>1, <2>1, ChunksBegin DEF StartOf, NewDocument
<1>3. 0 \in S
  OBVIOUS
<1>4. ASSUME NEW n \in Nat, n \in S PROVE n + 1 \in S
  <2> SUFFICES ASSUME n + 1 \in 1..N
               PROVE  /\ C(n + 1) \in 1..(n + 1) /\ C(C(n + 1)) = C(n + 1)
                      /\ \A j \in 1..(n + 1) : C(j) <= C(n + 1)
    <3> HIDE DEF C
    <3> QED BY <1>4
  <2>1. CASE C(n + 1) = n + 1
    <3>1. \A j \in 1..n : C(j) \in 1..j
      <4> HIDE DEF C
      <4> QED BY <1>1, <1>4
    <3> HIDE DEF C
    <3> QED BY <2>1, <3>1
  <2>2. CASE n \in 1..N /\ C(n + 1) = C(n)
    <3>1. C(n) \in 1..n /\ C(C(n)) = C(n) /\ \A j \in 1..n : C(j) <= C(n)
      <4> HIDE DEF C
      <4> QED BY <1>1, <1>4, <2>2
    <3> HIDE DEF C
    <3> QED BY <2>2, <3>1
  <2>3. (n + 1) - 1 = n
    OBVIOUS
  <2> QED BY <1>2, <2>1, <2>2, <2>3
<1>5. Nat \subseteq S
  <2> HIDE DEF S
  <2> QED BY <1>3, <1>4, Successors
<1>6. \A i \in 1..N : C(i) \in 1..i /\ C(C(i)) = C(i) /\ \A j \in 1..i : C(j) <= C(i)
  <2> HIDE DEF C
  <2> QED BY <1>1, <1>5
<1>7. \A i, j \in 1..N : i <= j => C(i) <= C(j)
  <2> HIDE DEF C
  <2> QED BY <1>1, <1>6
<1> QED BY <1>1, <1>2, <1>6, <1>7

\* A set of numbers that is not empty has a least member.
LEMMA LeastNumber ==
    ASSUME NEW S \in SUBSET Nat, S # {}
    PROVE  Min(S) \in S /\ \A x \in S : Min(S) <= x
<1>1. PICK m \in S : \A l \in S : <<l, m>> \notin OpToRel(<, Nat)
  BY NatLessThanWellFounded, WFMin
<1>2. ASSUME NEW l \in S PROVE m <= l
  <2>1. l \in Nat /\ m \in Nat /\ ~(<<l, m>> \in OpToRel(<, Nat))
    BY <1>1
  <2> QED BY <2>1 DEF OpToRel
<1> QED BY <1>2 DEF Min

\* A chunk begins with an item.
LEMMA ItemsBegin ==
    ASSUME text \in Seq(LineRow), Plain, Uncut \/ Orderly, NEW c \in Chunks
    PROVE  c \in DOMAIN text /\ ChunkStart[c] = c /\ text[c].mark = "item"
<1>1. /\ Len(text) \in Nat /\ DOMAIN text = 1..Len(text)
      /\ c \in DOMAIN text /\ ChunkStart[c] = c
  BY ChunkOrder DEF Chunks
<1>2. NewDocument(c) \/ text[c].rank # None \/ text[c].page
  <2> SUFFICES ASSUME ~NewDocument(c), text[c].rank = None, ~text[c].page PROVE FALSE
    OBVIOUS
  <2>1. ChunkStart[c] = ChunkStart[c - 1]
    BY <1>1, ChunksBegin DEF StartOf
  <2>2. c - 1 \in DOMAIN text /\ c - 1 < c
    BY <1>1 DEF NewDocument
  <2>3. ChunkStart[c - 1] \in 1..(c - 1)
    BY <2>2, ChunkOrder
  <2> QED BY <1>1, <2>1, <2>2, <2>3
<1>3. CASE Uncut
  BY <1>1, <1>3 DEF Uncut, Plain
<1>4. CASE Orderly
  BY <1>1, <1>2, <1>4 DEF Orderly, Plain
<1> QED BY <1>1, <1>3, <1>4

\* No chunk begins in a clause.
LEMMA ClauseInChunk ==
    ASSUME text \in Seq(LineRow), Plain, Uncut \/ Orderly,
           NEW i \in DOMAIN text, NEW j \in ClauseFrom(i)
    PROVE  ChunkStart[j] = ChunkStart[i]
<1> DEFINE N == Len(text)
           S == {n \in Nat : i + n <= j => ChunkStart[i + n] = ChunkStart[i]}
<1>1. N \in Nat /\ DOMAIN text = 1..N /\ j \in i..N /\ i \in 1..N
  BY DEF ClauseFrom
<1>2. ASSUME NEW n \in Nat, n \in S PROVE n + 1 \in S
  <2> SUFFICES ASSUME i + n + 1 <= j PROVE ChunkStart[i + n + 1] = ChunkStart[i]
    OBVIOUS
  <2>1. PICK k \in DOMAIN text : k = i + n + 1 /\ k - 1 = i + n /\ k \in (i + 1)..j
    BY <1>1
  <2>2. text[k].mark # "item"
    BY <2>1 DEF ClauseFrom
  <2>3. ChunkStart[k] # k
    <3> SUFFICES ASSUME ChunkStart[k] = k PROVE FALSE
      OBVIOUS
    <3>1. k \in Chunks
      BY DEF Chunks
    <3> QED BY <2>2, <3>1, ItemsBegin
  <2>4. ChunkStart[k] = ChunkStart[k - 1]
    BY <2>3, ChunkOrder
  <2>5. ChunkStart[i + n] = ChunkStart[i]
    BY <1>1, <1>2
  <2> QED BY <2>1, <2>4, <2>5
<1>3. 0 \in S
  BY <1>1
<1>4. Nat \subseteq S
  <2> HIDE DEF S
  <2> QED BY <1>2, <1>3, Successors
<1>5. j - i \in Nat /\ i + (j - i) = j
  BY <1>1
<1> QED BY <1>4, <1>5

\* Lines with no new document between them are of one.
LEMMA SameDocument ==
    ASSUME text \in Seq(LineRow), NEW a \in DOMAIN text, NEW b \in DOMAIN text, a <= b,
           \A j \in (a + 1)..b : ~NewDocument(j)
    PROVE  text[b].doc = text[a].doc
<1> DEFINE S == {n \in Nat : a + n <= b => text[a + n].doc = text[a].doc}
<1>1. Len(text) \in Nat /\ DOMAIN text = 1..Len(text) /\ a \in Nat /\ b \in Nat
  OBVIOUS
<1>2. ASSUME NEW n \in Nat, n \in S PROVE n + 1 \in S
  <2> SUFFICES ASSUME a + n + 1 <= b PROVE text[a + n + 1].doc = text[a].doc
    OBVIOUS
  <2>1. PICK k : k = a + n + 1 /\ k - 1 = a + n /\ k \in (a + 1)..b
    BY <1>1
  <2>2. text[k].doc = text[k - 1].doc
    BY <2>1 DEF NewDocument
  <2>3. text[a + n].doc = text[a].doc
    BY <1>1, <1>2
  <2> QED BY <2>1, <2>2, <2>3
<1>3. 0 \in S
  BY <1>1
<1>4. b - a \in S
  <2> HIDE DEF S
  <2> QED BY <1>1, <1>2, <1>3, Successors
<1> QED BY <1>1, <1>4

\* What is said who may bid, behind a heading or with a word to be known by, is shown to
\* the model.
LEMMA ConditionsSelected ==
    ASSUME text \in Seq(LineRow), Plain, Uncut, NEW i \in Conditions,
           (\A h \in Headings : text[h].doc # text[i].doc) =>
               \E l \in Lines(ChunkStart[i]) : text[l].topic
    PROVE  ChunkStart[i] \in SelectChunks
<1> DEFINE c == ChunkStart[i]
           anchored == {text[a].doc : a \in Anchors}
           mentions(d) == \E k \in Lines(d) : text[k].topic \/ (Anchors = {} /\ text[k].anchor)
           found == (UNION {SectionOf(a) : a \in Anchors}) \cup
                    {d \in Chunks : text[d].doc \notin anchored /\ mentions(d)}
<1>0. \/ \E h \in Headings : i \in SectionFrom(h)
      \/ i \in DOMAIN text /\ \A h \in Headings : text[h].doc # text[i].doc
  BY DEF Conditions
<1>1. /\ Len(text) \in Nat /\ DOMAIN text = 1..Len(text) /\ i \in DOMAIN text
      /\ \A k \in DOMAIN text : text[k] \in LineRow
  <2>1. i \in DOMAIN text
    BY <1>0 DEF SectionFrom
  <2> QED BY <2>1
<1>2. c \in Chunks /\ c \in 1..i /\ ChunkStart[c] = c
  BY <1>1, ChunkOrder DEF Chunks
<1>3. SUFFICES c \in found
  BY DEF SelectChunks
<1>4. CASE \E h \in Headings : i \in SectionFrom(h)
  <2>1. PICK h \in Headings : i \in SectionFrom(h)
    BY <1>4
  <2>2. h \in DOMAIN text /\ text[h].rank # None /\ text[h].anchor /\ h < i /\ text[h].rank \in Nat
    BY <1>1, <2>1 DEF Headings, SectionFrom, LineRow
  <2>3. ChunkStart[h] = h /\ h <= c
    BY <1>1, <2>2, ChunkOrder
  <2>4. h \in Anchors
    BY <2>2, <2>3 DEF Anchors, Chunks, LabelRank
  <2>5. \A j \in (h + 1)..c :
           ~NewDocument(j) /\ (text[j].rank # None => text[j].rank > text[h].rank)
    BY <1>1, <1>2, <2>1, <2>2 DEF SectionFrom
  <2>6. text[c].doc = text[h].doc
    <3>1. PICK d : d = c
      OBVIOUS
    <3>2. d \in DOMAIN text /\ h \in DOMAIN text /\ h <= d
      BY <1>1, <1>2, <2>2, <2>3, <3>1
    <3>3. \A j \in (h + 1)..d : ~NewDocument(j)
      BY <2>5, <3>1
    <3>4. text[d].doc = text[h].doc
      BY <3>2, <3>3, SameDocument
    <3> QED BY <3>1, <3>4
  <2>7. ASSUME NEW d \in Chunks, h < d, d <= c PROVE ~EndsSection(h, d)
    <3>1. d \in DOMAIN text
      BY <1>1, ChunkOrder DEF Chunks
    <3>2. d \in (h + 1)..c
      BY <1>1, <1>2, <2>2, <2>7, <3>1
    <3>3. text[d].rank # None /\ text[d].rank > text[h].rank /\ text[d].rank \in Nat
      BY <1>1, <2>5, <3>1, <3>2 DEF Uncut, LineRow
    <3>4. LabelRank(d) = text[d].rank /\ LabelRank(h) = text[h].rank
      BY <2>2, <3>3 DEF LabelRank
    <3>5. PICK m \in Nat, n \in Nat : m = LabelRank(d) /\ n = LabelRank(h) /\ m > n
      BY <2>2, <3>3, <3>4
    <3> QED BY <3>5 DEF EndsSection
  <2> QED BY <1>2, <2>3, <2>4, <2>6, <2>7 DEF SectionOf
<1>5. CASE \A h \in Headings : text[h].doc # text[i].doc
  <2>1. ASSUME NEW j \in (c + 1)..i PROVE ~NewDocument(j)
    <3>1. ChunkStart[c] <= ChunkStart[j] /\ ChunkStart[j] <= ChunkStart[i] /\ j \in DOMAIN text
      BY <1>1, <1>2, ChunkOrder
    <3>2. ChunkStart[j] = c
      BY <1>1, <1>2, <3>1, ChunkOrder
    <3> QED BY <1>2, <3>1, <3>2, ChunkOrder
  <2>2. text[c].doc = text[i].doc
    BY <1>1, <1>2, <2>1, SameDocument
  <2>m. mentions(c)
    BY <1>5
  <2>3. text[c].doc \notin anchored
    <3> SUFFICES ASSUME NEW a \in Anchors, text[c].doc = text[a].doc PROVE FALSE
      OBVIOUS
    <3>1. a \in DOMAIN text /\ text[a].anchor
      BY <1>1, ChunkOrder DEF Anchors, Chunks
    <3>2. a \in Headings
      BY <3>1 DEF Plain, Headings
    <3> QED BY <1>5, <2>2, <3>2
  <2> HIDE DEF anchored, mentions
  <2> QED BY <1>2, <2>m, <2>3
<1> QED BY <1>0, <1>4, <1>5

-----------------------------------------------------------------------------
(* The clauses of a text *)

\* Where the clauses of a chunk begin, and how far they reach.
StartsIn(c) == {s \in KeptLines(c) : text[s].mark = "item" \/ s = Min(KeptLines(c))}
ClauseAt(c, s) == {x \in KeptLines(c) : x >= s /\ ~\E t \in StartsIn(c) : s < t /\ t <= x}

\* What a clause of the text is, is a clause of the chunk that it stands in.
LEMMA ChunkClause ==
    ASSUME text \in Seq(LineRow), Plain, Uncut \/ Orderly,
           NEW i \in DOMAIN text, text[i].mark = "item"
    PROVE  i \in StartsIn(ChunkStart[i]) /\ ClauseAt(ChunkStart[i], i) = ClauseFrom(i)
<1> DEFINE c == ChunkStart[i]
           starts == StartsIn(c)
           C == ClauseAt(c, i)
<1>1. /\ Len(text) \in Nat /\ DOMAIN text = 1..Len(text)
      /\ \A k \in DOMAIN text : text[k] \in LineRow
  OBVIOUS
<1>3. ASSUME NEW x \in ClauseFrom(i)
      PROVE  x \in Lines(c) /\ x \in KeptLines(c) /\ x \in i..Len(text)
  <2>1. x \in DOMAIN text /\ x \in i..Len(text)
    BY <1>1 DEF ClauseFrom
  <2>2. ChunkStart[x] = c
    BY ClauseInChunk
  <2>3. ~Continues(x)
    BY DEF ClauseFrom, Continues
  <2> QED BY <2>1, <2>2, <2>3 DEF Lines, KeptLines
<1>5. i \in ClauseFrom(i)
  BY <1>1 DEF ClauseFrom
<1>6. i \in starts
  BY <1>3, <1>5 DEF StartsIn
<1>7. KeptLines(c) \subseteq DOMAIN text /\ Min(KeptLines(c)) <= i
  <2>1. KeptLines(c) \subseteq DOMAIN text
    BY DEF KeptLines, Lines
  <2> QED BY <1>1, <1>3, <1>5, <2>1, LeastNumber
<1>8. ASSUME NEW x \in C PROVE x \in ClauseFrom(i)
  <2>1. x \in DOMAIN text /\ x \in i..Len(text) /\ x \in KeptLines(c) /\ ChunkStart[x] = c
    BY <1>1, <1>7 DEF ClauseAt, KeptLines, Lines
  <2>2. ~Continues(x)
    BY <2>1 DEF KeptLines, Plain
  <2>3. text[x].mark \in {"item", "wrap"}
    BY <1>1, <2>1, <2>2 DEF Continues, LineRow
  <2>4. ASSUME NEW k \in (i + 1)..x, text[k].mark = "item" PROVE FALSE
    <3>1. k \in DOMAIN text /\ i < k /\ k <= x /\ i <= k
      BY <1>1, <2>1
    <3>2. ChunkStart[k] = c
      <4>1. ChunkStart[i] <= ChunkStart[k] /\ ChunkStart[k] <= ChunkStart[x]
        BY <2>1, <3>1, ChunkOrder
      <4>2. ChunkStart[i] \in Int /\ ChunkStart[k] \in Int
        BY <1>1, <3>1, ChunkOrder
      <4> QED BY <2>1, <4>1, <4>2
    <3>3. k \in KeptLines(c)
      BY <2>4, <3>1, <3>2 DEF KeptLines, Lines, Continues
    <3>4. k \in starts
      BY <2>4, <3>3 DEF StartsIn
    <3> QED BY <3>1, <3>4 DEF ClauseAt
  <2> QED BY <2>1, <2>3, <2>4 DEF ClauseFrom
<1>9. ASSUME NEW x \in ClauseFrom(i) PROVE x \in C
  <2>1. x \in KeptLines(c) /\ x >= i /\ i \in Nat /\ x \in Nat
    BY <1>1, <1>3
  <2>2. ASSUME NEW t \in starts, i < t, t <= x PROVE FALSE
    <3>1. t \in Nat
      BY <1>1, <1>7 DEF StartsIn
    <3>2. t # Min(KeptLines(c))
      BY <1>7, <2>1, <2>2, <3>1
    <3>3. text[t].mark = "item" /\ t \in (i + 1)..x
      BY <2>1, <2>2, <3>1, <3>2 DEF StartsIn
    <3> QED BY <3>3 DEF ClauseFrom
  <2> QED BY <2>1, <2>2 DEF ClauseAt
<1>10. C = ClauseFrom(i)
  BY <1>8, <1>9
<1> QED BY <1>6, <1>10

\* A clause that prints a code is among those that are searched for codes.
LEMMA ClauseOfChunk ==
    ASSUME text \in Seq(LineRow), Plain, Announced, Uncut,
           NEW i \in ClauseStarts, CodesIn(ClauseFrom(i)) # {}
    PROVE  ClauseFrom(i) \in Clauses
<1>1. i \in Conditions /\ i \in DOMAIN text /\ text[i].mark = "item"
  BY DEF ClauseStarts, Conditions, SectionFrom
<1>2. ChunkStart[i] \in SelectChunks
  <2>1. ClauseFrom(i) \subseteq Lines(ChunkStart[i])
    <3>1. ClauseFrom(i) \subseteq DOMAIN text
      BY <1>1 DEF ClauseFrom
    <3> QED BY <1>1, <3>1, ClauseInChunk DEF Lines
  <2>2. (\A h \in Headings : text[h].doc # text[i].doc) =>
            \E l \in Lines(ChunkStart[i]) : text[l].topic
    BY <2>1 DEF Announced
  <2> QED BY <1>1, <2>2, ConditionsSelected
<1>3. ClauseFrom(i) \in ClausesOf(ChunkStart[i])
  <2>1. i \in StartsIn(ChunkStart[i]) /\ ClauseAt(ChunkStart[i], i) = ClauseFrom(i)
    BY <1>1, ChunkClause
  <2> QED BY <2>1 DEF ClausesOf, StartsIn, ClauseAt
<1> QED BY <1>2, <1>3 DEF Clauses

\* And every clause of a chunk is one of the text.
LEMMA ClauseOfText ==
    ASSUME text \in Seq(LineRow), Plain, Orderly, NEW C \in Clauses
    PROVE  \E i \in DOMAIN text : text[i].mark = "item" /\ C = ClauseFrom(i)
<1>1. PICK c \in SelectChunks : C \in ClausesOf(c)
  BY DEF Clauses
<1>2. c \in DOMAIN text /\ ChunkStart[c] = c /\ text[c].mark = "item"
  <2>1. c \in Chunks
    BY DEF SelectChunks, SectionOf
  <2> QED BY <2>1, ItemsBegin
<1>3. KeptLines(c) \in SUBSET Nat /\ KeptLines(c) \subseteq DOMAIN text /\ c \in KeptLines(c)
  BY <1>2 DEF KeptLines, Lines, Continues
<1>4. \A x \in KeptLines(c) : ChunkStart[x] = c /\ c <= x
  BY <1>2, <1>3, ChunkOrder DEF KeptLines, Lines
<1>5. Min(KeptLines(c)) = c
  <2>1. Min(KeptLines(c)) \in KeptLines(c) /\ Min(KeptLines(c)) <= c
    BY <1>3, LeastNumber
  <2> QED BY <1>3, <1>4, <2>1
<1>6. PICK i \in StartsIn(c) : C = ClauseAt(c, i)
  BY <1>1 DEF ClausesOf, StartsIn, ClauseAt
<1>7. i \in DOMAIN text /\ text[i].mark = "item" /\ c = ChunkStart[i]
  BY <1>2, <1>3, <1>4, <1>5 DEF StartsIn
<1>8. C = ClauseFrom(i)
  BY <1>6, <1>7, ChunkClause
<1> QED BY <1>7, <1>8

\* What a slot becomes: alternatives, or requirements of their own.
LEMMA SlotAtoms ==
    ASSUME NEW s, NEW r \in AdaptSlot(s)
    PROVE  \E type \in {"INDUSTRY", "REGISTRATION_CERTIFICATION"} : \E value :
              /\ r = Atom(type, value, s, Alternates(s.quote))
              /\ Alternates(s.quote) => type = "INDUSTRY" /\ value \in NamedIn(s.quote)
<1>1. Alternates(s.quote) \in BOOLEAN
  BY DEF Alternates
<1>2. CASE Alternates(s.quote)
  <2>1. AdaptSlot(s) = {Atom("INDUSTRY", c, s, TRUE) : c \in NamedIn(s.quote)}
    BY <1>2 DEF AdaptSlot
  <2>2. Alternates(s.quote) = TRUE
    BY <1>1, <1>2
  <2> HIDE DEF Alternates
  <2> QED BY <2>1, <2>2
<1>3. CASE ~Alternates(s.quote)
  <2>1. Alternates(s.quote) = FALSE
    BY <1>1, <1>3
  <2>2. \E type \in {"INDUSTRY", "REGISTRATION_CERTIFICATION"} : \E value :
           r = Atom(type, value, s, FALSE)
    BY <1>3 DEF AdaptSlot, Industry
  <2> QED BY <1>3, <2>1, <2>2
<1> QED BY <1>2, <1>3

\* Requirements that are of industries, and no names, stay when repeats are removed.
LEMMA IndustryStays ==
    ASSUME NEW rs, NEW r \in rs, r.type = "INDUSTRY", r.value \notin TradeName
    PROVE  /\ Deduplicated(rs) \subseteq rs
           /\ r.anyOf => r \in Deduplicated(rs)
           /\ ~r.anyOf => \E q \in Deduplicated(rs) :
                             ~q.anyOf /\ q.type = "INDUSTRY" /\ q.value = r.value
<1> DEFINE single == {q \in rs : ~q.anyOf}
           OneAlike(x) == CHOOSE q \in single : Identity(q) = x
<1>1. Distinct(rs) = (rs \ single) \cup {q \in single : q = OneAlike(Identity(q))}
  BY DEF Distinct
<1>2. ASSUME NEW q, q.type = "INDUSTRY", q.value \notin TradeName, NEW keeper
      PROVE  ~FoldsInto(q, keeper)
  BY <1>2 DEF FoldsInto
<1>3. CASE r.anyOf
  <2>1. r \in Distinct(rs)
    BY <1>1, <1>3
  <2> QED BY <1>1, <1>2, <1>3, <2>1 DEF Deduplicated
<1>4. CASE ~r.anyOf
  <2>1. PICK q : q = OneAlike(Identity(r))
    OBVIOUS
  <2>2. q \in single /\ Identity(q) = Identity(r)
    BY <1>4, <2>1
  <2>3. q.type = "INDUSTRY" /\ q.value = r.value /\ ~q.anyOf
    BY <2>2 DEF Identity
  <2>4. q \in Distinct(rs)
    <3> HIDE DEF OneAlike
    <3> QED BY <1>1, <2>1, <2>2
  <2> QED BY <1>1, <1>2, <1>4, <2>3, <2>4 DEF Deduplicated
<1> QED BY <1>3, <1>4

-----------------------------------------------------------------------------
(* What slots become *)

\* A finite quote prints finitely many codes ...
LEMMA CodesFinite ==
    ASSUME NEW Q, IsFiniteSet(Q)
    PROVE  IsFiniteSet(CodesIn(Q))
<1> DEFINE f == [i \in Q |-> text[i].code]
<1>1. IsFiniteSet({f[i] : i \in Q})
  BY Mapped
<1>2. CodesIn(Q) \subseteq {f[i] : i \in Q}
  BY DEF CodesIn
<1> HIDE DEF f
<1> QED BY <1>1, <1>2, FS_Subset

\* ... and what is read out of it for a slot is some of what it prints.
LEMMA SlotCodesFinite ==
    ASSUME NEW Q \in SUBSET DOMAIN text, text \in Seq(LineRow), IsFiniteSet(Q)
    PROVE  /\ IsFiniteSet(LabelledIn(Q)) /\ IsFiniteSet(SlotCodes(Q))
           /\ SlotCodes(Q) \subseteq CodesIn(Q) \cup ListedIn(Q)
<1> DEFINE f == [i \in Q |-> text[i].more]
           G == {f[i] : i \in Q}
<1>1. IsFiniteSet(G)
  BY Mapped
<1>2. \A x \in G : IsFiniteSet(x)
  <2>1. \A i \in DOMAIN text : text[i] \in LineRow
    OBVIOUS
  <2> QED BY <2>1 DEF LineRow
<1>3. ListedIn(Q) \subseteq UNION G
  BY DEF ListedIn
<1>4. IsFiniteSet(ListedIn(Q))
  <2> HIDE DEF G
  <2>1. IsFiniteSet(UNION G)
    BY <1>1, <1>2, FS_UNION
  <2> QED BY <1>3, <2>1, FS_Subset
<1>5. IsFiniteSet(CodesIn(Q))
  BY CodesFinite
<1>6. IsFiniteSet(CodesIn(Q) \cap Labelled) /\ IsFiniteSet(NamedIn(Q))
  BY <1>5, FS_Subset DEF NamedIn
<1>7. IsFiniteSet(LabelledIn(Q))
  BY <1>4, <1>6, FS_Union DEF LabelledIn
<1>8. SlotCodes(Q) \in {LabelledIn(Q), NamedIn(Q), {}}
  BY DEF SlotCodes
<1>9. IsFiniteSet(SlotCodes(Q))
  BY <1>6, <1>7, <1>8, FS_EmptySet
<1> QED BY <1>7, <1>8, <1>9 DEF LabelledIn, NamedIn

\* A quote becomes finitely many requirements.
LEMMA AtomsFinite ==
    ASSUME NEW s, IsFiniteSet(s.quote)
    PROVE  IsFiniteSet(AdaptSlot(s))
<1>1. CASE Alternates(s.quote)
  <2> DEFINE f == [c \in NamedIn(s.quote) |-> Atom("INDUSTRY", c, s, TRUE)]
  <2>1. AdaptSlot(s) = {f[c] : c \in NamedIn(s.quote)}
    BY <1>1 DEF AdaptSlot
  <2> HIDE DEF f
  <2>2. f = [c \in NamedIn(s.quote) |-> f[c]]
    BY DEF f
  <2>3. IsFiniteSet(NamedIn(s.quote))
    BY CodesFinite, FS_Subset DEF NamedIn
  <2> QED BY <2>1, <2>2, <2>3, Mapped
<1>2. CASE ~Alternates(s.quote)
  <2> DEFINE code == CHOOSE c \in SlotCodes(s.quote) : TRUE
             certificate == {Atom("REGISTRATION_CERTIFICATION", {s.name}, s, FALSE)}
  <2>1. AdaptSlot(s) \in {{}, Industry(code, s), Industry(s.name, s), certificate}
    <3> HIDE DEF certificate
    <3> QED BY <1>2 DEF AdaptSlot, certificate
  <2> HIDE DEF code
  <2>2. IsFiniteSet(Industry(code, s)) /\ IsFiniteSet(Industry(s.name, s))
    BY FS_Singleton DEF Industry
  <2>3. IsFiniteSet({}) /\ IsFiniteSet(certificate)
    BY FS_EmptySet, FS_Singleton
  <2> HIDE DEF certificate
  <2> QED BY <2>1, <2>2, <2>3
<1> QED BY <1>1, <1>2

\* A quote is cut out of a chunk that the model has been shown.
Cut(Q) == Squash(Q) = Q /\ \E c \in SelectChunks : StandsIn(Q, c)

\* What can be kept of an answer: a slot with such a quote, and a detail that is printed.
Quotable(s) == s \in SlotRow /\ Cut(s.quote) /\ (s.name = None \/ Printed(s.name, Target))

\* Slots with finite quotes.
Quoting(slots) == IsFiniteSet(slots) /\ \A s \in slots : IsFiniteSet(s.quote)

\* Finitely many slots become finitely many requirements.
LEMMA CanonicalFinite ==
    ASSUME NEW slots, Quoting(slots)
    PROVE  /\ IsFiniteSet(Canonical(slots))
           /\ Canonical(slots) \subseteq UNION {AdaptSlot(s) : s \in slots}
<1> DEFINE f == [s \in slots |-> AdaptSlot(s)]
           A == {AdaptSlot(s) : s \in slots}
<1>1. IsFiniteSet(A)
  <2>1. A = {f[s] : s \in slots} /\ f = [s \in slots |-> f[s]]
    OBVIOUS
  <2> HIDE DEF f, A
  <2> QED BY <2>1, Mapped DEF Quoting
<1>2. \A a \in A : IsFiniteSet(a)
  BY AtomsFinite DEF Quoting
<1>3. IsFiniteSet(UNION A)
  <2> HIDE DEF A
  <2> QED BY <1>1, <1>2, FS_UNION
<1>4. Canonical(slots) \subseteq UNION A
  <2> HIDE DEF A
  <2>1. \A rs : Deduplicated(rs) \subseteq rs
    BY DEF Deduplicated, Distinct
  <2>2. Canonical(slots) = Deduplicated(UNION A)
    BY DEF Canonical, A
  <2> QED BY <2>1, <2>2
<1> HIDE DEF A
<1>5. IsFiniteSet(Canonical(slots))
  BY <1>3, <1>4, FS_Subset
<1> QED BY <1>4, <1>5 DEF A

\* Finitely many clauses are salvaged.
LEMMA SalvagedQuoting ==
    ASSUME text \in Seq(LineRow), NEW covered
    PROVE  Quoting(Salvaged(covered))
<1> DEFINE D == DOMAIN text
           K == {c \in Clauses :
                    CodesIn(c) \ (covered \cup CodesIn({i \in Target : i < Min(c)})) # {}}
           f == [c \in K |-> [type |-> "industry", name |-> None, quote |-> c]]
<1>1. IsFiniteSet(D)
  <2>1. PICK n \in Nat : n = Len(text) /\ D = 1..n
    OBVIOUS
  <2> QED BY <2>1, FS_Interval
<1>2. Clauses \subseteq SUBSET D
  <2>1. \A c : ClausesOf(c) \subseteq SUBSET KeptLines(c)
    BY DEF ClausesOf
  <2>2. \A c : KeptLines(c) \subseteq D
    BY DEF KeptLines, Lines
  <2> QED BY <2>1, <2>2 DEF Clauses
<1>3. IsFiniteSet(SUBSET D)
  BY <1>1, FS_SUBSET
<1>4. IsFiniteSet(K)
  <2>1. K \subseteq SUBSET D
    BY <1>2
  <2> HIDE DEF K, D
  <2> QED BY <1>3, <2>1, FS_Subset
<1>5. Salvaged(covered) = {f[c] : c \in K}
  BY DEF Salvaged
<1>6. f = [c \in K |-> f[c]]
  OBVIOUS
<1>7. IsFiniteSet(Salvaged(covered))
  <2> HIDE DEF f, K
  <2> QED BY <1>4, <1>5, <1>6, Mapped
<1>8. ASSUME NEW s \in Salvaged(covered) PROVE IsFiniteSet(s.quote)
  <2>1. s.quote \in Clauses
    BY DEF Salvaged
  <2>2. s.quote \subseteq D
    BY <1>2, <2>1
  <2> QED BY <1>1, <2>2, FS_Subset
<1> QED BY <1>7, <1>8 DEF Quoting

\* A clause that is salvaged and can be reduced: what the model has not read out of it
\* is read out of its text, or there is a warning.
LEMMA SalvagedReads ==
    ASSUME text \in Seq(LineRow), NEW C \in SUBSET DOMAIN text, IsFiniteSet(C),
           NEW k \in CodesIn(C), SaysOr(C) = {}, ~Waives(C),
           CodesIn(C) \cap Labelled \in {{}, CodesIn(C)},
           NEW s, s = [type |-> "industry", name |-> None, quote |-> C]
    PROVE  Warns(s) \/ AdaptSlot(s) = {Atom("INDUSTRY", k, s, FALSE)}
<1>1. IsFiniteSet(CodesIn(C)) /\ IsFiniteSet(SlotCodes(C))
  BY CodesFinite, SlotCodesFinite
<1>2. ~Alternates(C)
  BY DEF Alternates
<1>3. UnsafeClauseReason(GuardReads(s)) = None
  <2>1. PICK cl : cl = GuardReads(s)
    OBVIOUS
  <2>2. cl.marks = {} /\ cl.codes = CodesIn(C)
    BY <2>1 DEF GuardReads, ClauseIn
  <2>3. Found(cl) = {}
    BY <2>2 DEF Found, StripDecorations
  <2>4. {n \in DOMAIN ComplexPatterns : Counts(cl, ComplexPatterns[n])} = {}
    BY <2>3 DEF Counts
  <2>5. cl.codes # {}
    BY <2>2
  <2> QED BY <2>1, <2>4, <2>5 DEF UnsafeClauseReason
<1>4. /\ SlotCodes(C) = {} \/ CodesIn(C) \subseteq SlotCodes(C)
      /\ SlotCodes(C) = {} => Cardinality(CodesIn(C)) # 1
  <2>1. CASE LabelledIn(C) # {}
    <3>1. CodesIn(C) \cap Labelled # {}
      <4> SUFFICES ASSUME CodesIn(C) \cap Labelled = {} PROVE FALSE
        OBVIOUS
      <4>1. PICK x \in C : Headed(x, C)
        BY <2>1 DEF LabelledIn, ListedIn
      <4>2. PICK h \in C : text[h].code \in Labelled
        BY <4>1 DEF Headed
      <4> QED BY <4>2, ExtractionAssumption DEF CodesIn
    <3> QED BY <2>1, <3>1 DEF SlotCodes, LabelledIn
  <2>2. CASE LabelledIn(C) = {}
    <3>1. NamedIn(C) = CodesIn(C)
      BY <2>2 DEF LabelledIn, NamedIn
    <3> QED BY <2>2, <3>1 DEF SlotCodes
  <2> QED BY <2>1, <2>2
<1>5. CASE SlotCodes(C) = {k}
  <2>2. SlotCodes(C) = {k} /\ Cardinality(SlotCodes(C)) = 1
    BY <1>5, FS_Singleton
  <2>3. s.type = "industry" /\ s.type # "registration" /\ s.type # "other" /\ s.quote = C
    OBVIOUS
  <2>a. ~(Cardinality(SlotCodes(C)) > 1) /\ SlotCodes(C) # {}
    BY <2>2
  <2>4. AdaptSlot(s) = Industry(CHOOSE c \in SlotCodes(C) : TRUE, s)
    BY <1>2, <1>3, <2>2, <2>3, <2>a, Zenon DEF AdaptSlot
  <2>5. (CHOOSE c \in SlotCodes(C) : TRUE) = k
    BY <2>2
  <2> QED BY <2>4, <2>5 DEF Industry
<1>6. CASE SlotCodes(C) # {k}
  <2>1. SlotCodes(C) = {} \/ k \in SlotCodes(C)
    BY <1>4
  <2>2. \/ SlotCodes(C) = {}
        \/ Cardinality(SlotCodes(C)) > 1
    <3> SUFFICES ASSUME SlotCodes(C) # {} PROVE Cardinality(SlotCodes(C)) > 1
      OBVIOUS
    <3>1. \A x : SlotCodes(C) # {x}
      BY <1>6, <2>1
    <3>2. Cardinality(SlotCodes(C)) \in Nat
      BY <1>1, FS_CardinalityType
    <3>3. Cardinality(SlotCodes(C)) # 0
      BY <1>1, FS_EmptySet
    <3>4. Cardinality(SlotCodes(C)) # 1
      BY <1>1, <3>1, FS_Singleton
    <3> QED BY <3>2, <3>3, <3>4
  <2>3. SlotCodes(C) = {} => Cardinality(SlotCodes(C)) = 0
    BY FS_EmptySet
  <2>4. AdaptSlot(s) = {}
    BY <1>2, <1>3, <2>2, <2>3 DEF AdaptSlot
  <2> QED BY <1>3, <2>4 DEF Warns
<1> QED BY <1>5, <1>6

\* A company that is judged to have an industry has it.
LEMMA HeldIfSatisfied ==
    ASSUME NEW r, r.type = "INDUSTRY", r.extension = None, NEW b
    PROVE  /\ Judge(r, ProfileOf(b), Day).status \in JudgmentStatus
           /\ Judge(r, ProfileOf(b), Day).status = "SATISFIED" => r.value \in b
<1> DEFINE p == ProfileOf(b)
           v == JudgeByType(r, p, Day)
<1>1. p.industries = b /\ p.complete.industries = TRUE
  BY DEF ProfileOf, Area
<1>2. v = JudgeIndustry(r, p)
  BY DEF JudgeByType
<1>3. v.status \in JudgmentStatus /\ (v.status = "SATISFIED" => r.value \in b)
  BY <1>1, <1>2 DEF JudgeIndustry, FromProfile, Decided, Verdict, Unsupported, JudgmentStatus
<1> HIDE DEF v
<1>4. Judge(r, p, Day) \in {Unsupported, Unknown, v}
  BY DEF Judge, v
<1>5. Unknown.status = "UNKNOWN" /\ Unsupported.status = "UNKNOWN"
  BY OpenIsUnknown
<1> QED BY <1>3, <1>4, <1>5 DEF JudgmentStatus

-----------------------------------------------------------------------------
(* What a step leaves as it is *)

\* What is read out of a text depends on it alone, and on the answer.
LEMMA SameReading ==
    ASSUME UNCHANGED text
    PROVE  /\ \A s : Quotable(s)' = Quotable(s)
           /\ UNCHANGED extraction => AnalysisResult' = AnalysisResult
<1>1. text' = text
  OBVIOUS
<1>2. /\ \A i : NewDocument(i)' = NewDocument(i) /\ Continues(i)' = Continues(i)
      /\ \A Q : /\ CodesIn(Q)' = CodesIn(Q) /\ NamesIn(Q)' = NamesIn(Q)
                /\ SaysOr(Q)' = SaysOr(Q) /\ Waives(Q)' = Waives(Q)
                /\ NamedIn(Q)' = NamedIn(Q)
      /\ \A i : NamedAt(i)' = NamedAt(i)
      /\ \A i, Q : Headed(i, Q)' = Headed(i, Q)
  BY DEF NewDocument, Continues, CodesIn, NamesIn, SaysOr, Waives, NamedIn, NamedAt, Headed
<1>2a. \A Q : ListedIn(Q)' = ListedIn(Q)
  BY <1>1, <1>2, Zenon DEF ListedIn
<1>2b. \A Q : LabelledIn(Q)' = LabelledIn(Q) /\ PrintedCodes(Q)' = PrintedCodes(Q)
  BY <1>1, <1>2, <1>2a, Zenon DEF LabelledIn, PrintedCodes
<1>3. ChunkStart' = ChunkStart
  BY <1>2 DEF ChunkStart
<1>4. /\ Chunks' = Chunks /\ \A c : Lines(c)' = Lines(c) /\ LabelRank(c)' = LabelRank(c)
  BY <1>3 DEF Chunks, Lines, LabelRank
<1>5. Anchors' = Anchors /\ \A a, c : EndsSection(a, c)' = EndsSection(a, c)
  BY <1>4 DEF Anchors, EndsSection
<1>6. \A a : SectionOf(a)' = SectionOf(a)
  BY <1>4, <1>5 DEF SectionOf
<1>7. SelectChunks' = SelectChunks
  <2> DEFINE anchored == {text[a].doc : a \in Anchors}
             mentions(c) == \E i \in Lines(c) : text[i].topic \/ (Anchors = {} /\ text[i].anchor)
             searched == {c \in Chunks : text[c].doc \notin anchored /\ mentions(c)}
             sections == UNION {SectionOf(a) : a \in Anchors}
  <2>1. anchored' = anchored
    BY <1>1, <1>5
  <2>2. \A c : mentions(c)' = mentions(c)
    BY <1>1, <1>4, <1>5
  <2>3. searched' = searched
    <3> HIDE DEF anchored, mentions
    <3> QED BY <1>1, <1>4, <2>1, <2>2
  <2>4. sections' = sections
    BY <1>5, <1>6, Zenon
  <2>5. SelectChunks = IF sections \cup searched = {} THEN Chunks ELSE sections \cup searched
    BY DEF SelectChunks
  <2>6. SelectChunks' = IF sections' \cup searched' = {} THEN Chunks' ELSE sections' \cup searched'
    BY DEF SelectChunks
  <2> HIDE DEF sections, searched
  <2> QED BY <1>4, <2>3, <2>4, <2>5, <2>6
<1>8. Target' = Target
  BY <1>4, <1>7, Zenon DEF Target
<1>9. \A Q : ClauseIn(Q)' = ClauseIn(Q) /\ Parts(Q)' = Parts(Q) /\ SlotCodes(Q)' = SlotCodes(Q)
  BY <1>2, <1>2b, Zenon DEF ClauseIn, Parts, SlotCodes
<1>9a. \A s : GuardReads(s)' = GuardReads(s)
  BY <1>2, <1>9, Zenon DEF GuardReads
<1>10. \A Q : Alternates(Q)' = Alternates(Q)
  BY <1>2, <1>9, Zenon DEF Alternates
<1>11. \A type, value, s, any : Atom(type, value, s, any)' = Atom(type, value, s, any)
  BY <1>9, Zenon DEF Atom
<1>12. \A s : AdaptSlot(s)' = AdaptSlot(s)
  BY <1>1, <1>2, <1>2b, <1>9, <1>9a, <1>10, <1>11, Zenon DEF AdaptSlot, Industry
<1>13. \A s : Warns(s)' = Warns(s)
  BY <1>9a, <1>12, Zenon DEF Warns
<1>14. \A r, q : FoldsInto(r, q)' = FoldsInto(r, q)
  BY <1>1, <1>2, <1>2b, <1>3, Zenon DEF FoldsInto
<1>15. \A rs : Deduplicated(rs)' = Deduplicated(rs)
  BY <1>14, Zenon DEF Deduplicated
<1>16. \A slots : Canonical(slots)' = Canonical(slots)
  BY <1>12, <1>15, Zenon DEF Canonical
<1>17. \A c : KeptLines(c)' = KeptLines(c)
  BY <1>2, <1>4 DEF KeptLines
<1>18. \A c : ClausesOf(c)' = ClausesOf(c)
  BY <1>17 DEF ClausesOf
<1>19. Clauses' = Clauses
  BY <1>7, <1>18, Zenon DEF Clauses
<1>20. \A covered : Salvaged(covered)' = Salvaged(covered)
  BY <1>2, <1>8, <1>19, Zenon DEF Salvaged
<1>21. \A i, c : Proviso(i, c)' = Proviso(i, c)
  BY <1>4, Zenon DEF Proviso
<1>22. GuardedCodes' = GuardedCodes
  BY <1>2, <1>3, <1>4, <1>8, <1>21, Zenon DEF GuardedCodes
<1>23. \A r : Guard(r)' = Guard(r)
  BY <1>22, Zenon DEF Guard
<1>24. ASSUME extraction' = extraction PROVE AnalysisResult' = AnalysisResult
  <2>1. \A slots, salvaged : AnalysisStatus(slots, salvaged)' = AnalysisStatus(slots, salvaged)
    BY <1>13, <1>24, Zenon DEF AnalysisStatus
  <2> QED BY <1>16, <1>20, <1>23, <1>24, <2>1, Zenon DEF AnalysisResult
<1>25. \A Q : Squash(Q)' = Squash(Q)
  BY <1>1 DEF Squash
<1>26. \A Q, c : StandsIn(Q, c)' = StandsIn(Q, c)
  BY <1>4, <1>25, Zenon DEF StandsIn
<1>27. \A Q : Cut(Q)' = Cut(Q)
  BY <1>7, <1>25, <1>26, Zenon DEF Cut
<1>28. \A n : Printed(n, Target)' = Printed(n, Target)
  BY <1>1, <1>8, <1>25 DEF Printed
<1>29. \A s : Quotable(s)' = Quotable(s)
  BY <1>27, <1>28, Zenon DEF Quotable
<1> QED BY <1>24, <1>29

-----------------------------------------------------------------------------
(* The invariant of the reading *)

\* The sequence that a finite set is listed in has all of it.
LEMMA ListsAll ==
    ASSUME NEW R, IsFiniteSet(R)
    PROVE  /\ DOMAIN SetToSeq(R) = 1..Cardinality(R) /\ Cardinality(R) \in Nat
           /\ \A i \in DOMAIN SetToSeq(R) : SetToSeq(R)[i] \in R
           /\ \A r \in R : \E i \in DOMAIN SetToSeq(R) : SetToSeq(R)[i] = r
<1> DEFINE D == 1..Cardinality(R)
<1>1. Cardinality(R) \in Nat /\ ExistsBijection(D, R)
  BY FS_CardinalityType
<1>2. \E f \in [D -> R] : IsInjective(f)
  <2>1. PICK f \in Bijection(D, R) : TRUE
    BY <1>1 DEF ExistsBijection
  <2>2. f \in [D -> R] /\ \A x, y \in D : f[x] = f[y] => x = y
    BY <2>1 DEF Bijection, Injection, IsInjective
  <2> QED BY <2>2 DEF IsInjective
<1>3. PICK f : f = SetToSeq(R)
  OBVIOUS
<1>4. f \in [D -> R] /\ IsInjective(f)
  BY <1>2, <1>3 DEF SetToSeq
<1>5. f \in Injection(D, R)
  BY <1>4 DEF Injection, IsInjective
<1>6. IsFiniteSet(D) /\ Cardinality(D) = Cardinality(R)
  <2>1. PICK n \in Nat : n = Cardinality(R)
    BY <1>1
  <2>2. IsFiniteSet(1..n) /\ Cardinality(1..n) = n
    BY FS_Interval
  <2> QED BY <2>1, <2>2
<1>7. f \in Surjection(D, R)
  <2> HIDE DEF D
  <2> QED BY <1>5, <1>6, FS_Injection
<1> QED BY <1>1, <1>3, <1>4, <1>7 DEF Surjection

\* Requirements that are all mandatory, and agree on their operator in each group: a
\* company that is eligible meets each of them, or another one of its group.
LEMMA EligibleMeetsGroups ==
    ASSUME NEW R, IsFiniteSet(R), \A r \in R : r.mandatory,
           \A q, r \in R : q.group = r.group => q.anyOf = r.anyOf,
           NEW S, S = [r \in R |-> S[r]], NEW rs, rs = SetToSeq(R), NEW a,
           DeriveOverallStatus(rs, [i \in DOMAIN rs |-> S[rs[i]]], a) = "eligible",
           NEW r \in R
    PROVE  /\ a = "SUCCEEDED"
           /\ r.anyOf => \E q \in R : q.group = r.group /\ S[q] = "SATISFIED"
           /\ ~r.anyOf /\ S[r] \in JudgmentStatus => S[r] = "SATISFIED"
<1> DEFINE st == [i \in DOMAIN rs |-> S[rs[i]]]
<1>1. /\ DOMAIN rs \subseteq Nat /\ \A i \in DOMAIN rs : rs[i] \in R
      /\ \E i \in DOMAIN rs : rs[i] = r
  BY ListsAll
<1>2. PICK k \in DOMAIN rs : rs[k] = r
  BY <1>1
<1>3. PICK G : G = GroupOf(rs, k)
  OBVIOUS
<1>4. k \in Mandatory(rs) /\ k \in G /\ G \subseteq DOMAIN rs
  BY <1>1, <1>2, <1>3 DEF Mandatory, GroupOf
<1>5. \A j \in G : rs[j].group = r.group /\ rs[j].anyOf = r.anyOf
  BY <1>1, <1>2, <1>3, <1>4 DEF GroupOf
<1>6. PICK v : v = GroupVerdict(rs, st, G)
  OBVIOUS
<1>7. v # "UNSATISFIED" /\ v # "UNKNOWN" /\ a = "SUCCEEDED"
  <2>1. v \in GroupVerdicts(rs, st)
    BY <1>3, <1>4, <1>6 DEF GroupVerdicts
  <2> HIDE DEF st
  <2> QED BY <2>1 DEF DeriveOverallStatus, st
<1>8. Lead(G) \in G
  BY <1>1, <1>4, LeadIsMember
<1>9. PICK statuses : statuses = GroupStatuses(rs, st, G)
  OBVIOUS
<1>10. v = IF r.anyOf THEN Prevails(statuses, "SATISFIED", "UNSATISFIED")
                      ELSE Prevails(statuses, "UNSATISFIED", "SATISFIED")
  BY <1>5, <1>6, <1>8, <1>9 DEF GroupVerdict
<1>11. \A j \in G : StatusOf(st, j) = S[rs[j]]
  BY <1>4 DEF StatusOf
<1>12. CASE r.anyOf
  <2>1. "SATISFIED" \in statuses
    BY <1>7, <1>10, <1>12 DEF Prevails
  <2>2. PICK j \in G : StatusOf(st, j) = "SATISFIED"
    BY <1>9, <2>1 DEF GroupStatuses
  <2>3. S[rs[j]] = "SATISFIED" /\ rs[j] \in R /\ rs[j].group = r.group
    BY <1>1, <1>4, <1>5, <1>11, <2>2
  <2> QED BY <1>7, <1>12, <2>3
<1>13. CASE ~r.anyOf
  <2>1. "UNSATISFIED" \notin statuses /\ "UNKNOWN" \notin statuses
    BY <1>7, <1>10, <1>13 DEF Prevails
  <2>2. S[r] \in statuses
    BY <1>2, <1>4, <1>9, <1>11 DEF GroupStatuses
  <2> QED BY <1>7, <1>13, <2>1, <2>2 DEF JudgmentStatus
<1> QED BY <1>12, <1>13

\* What the model answers, and what becomes of it.
ReadInv ==
    /\ text \in Seq(LineRow)
    /\ \A i, j \in DOMAIN text : i <= j => text[i].doc <= text[j].doc
    /\ extraction # None => Quoting(extraction.slots) /\ \A s \in extraction.slots : Quotable(s)
    /\ analysis # None => extraction # None /\ analysis = AnalysisResult

\* No step of the reading leads out of it.
LEMMA ReadHolds == ReadingSpec => []ReadInv
<1>1. ReadingInit => ReadInv
  BY DEF ReadingInit, ReadInv
<1>2. ReadInv /\ [ReadingNext]_extractionVars => ReadInv'
  <2> SUFFICES ASSUME ReadInv, [ReadingNext]_extractionVars PROVE ReadInv'
    OBVIOUS
  <2>1. text' = text
    BY DEF ReadingNext, CallFails, ModelAnswers, Analyse, extractionVars
  <2>2. CASE CallFails
    <3>1. extraction' = Extracted("failed", {}) /\ analysis' = None
      BY <2>2 DEF CallFails, ReadInv
    <3>2. Quoting({})
      BY FS_EmptySet DEF Quoting
    <3> QED BY <2>1, <3>1, <3>2 DEF Extracted, ReadInv, Quoting
  <2>3. ASSUME NEW answer \in SUBSET SlotRow, IsFiniteSet(answer), ModelAnswers(answer)
        PROVE  ReadInv'
    <3> DEFINE kept == {s \in answer : ValidSlot(s)}
               f == [s \in kept |-> Joined(s)]
               accepted == {f[s] : s \in kept}
    <3>1. accepted = {Joined(s) : s \in kept} /\ f = [s \in kept |-> f[s]]
      OBVIOUS
    <3>2. IsFiniteSet(accepted)
      <4>1. IsFiniteSet(kept)
        BY <2>3, FS_Subset
      <4> HIDE DEF f, kept
      <4> QED BY <3>1, <4>1, Mapped
    <3>3. ASSUME NEW s \in kept PROVE IsFiniteSet(Joined(s).quote)
      <4>1. s \in SlotRow
        OBVIOUS
      <4>2. Joined(s).quote = Squash(s.quote)
        BY <4>1 DEF Joined, SlotRow
      <4>3. Squash(s.quote) \subseteq DOMAIN text
        BY DEF ValidSlot, StandsIn, Squash, Lines
      <4>4. IsFiniteSet(DOMAIN text)
        <5>1. PICK n \in Nat : DOMAIN text = 1..n
          BY DEF ReadInv
        <5> QED BY <5>1, FS_Interval
      <4> QED BY <4>2, <4>3, <4>4, FS_Subset
    <3>9. ASSUME NEW s \in kept PROVE Quotable(Joined(s))
      <4>1. s \in SlotRow /\ ValidSlot(s)
        OBVIOUS
      <4>2. Joined(s).quote = Squash(s.quote) /\ Joined(s).name = s.name /\ Joined(s) \in SlotRow
        BY <4>1 DEF Joined, SlotRow, Squash
      <4>3. Squash(Squash(s.quote)) = Squash(s.quote)
        BY DEF Squash
      <4>4. Cut(Joined(s).quote)
        BY <4>1, <4>2, <4>3 DEF Cut, StandsIn, ValidSlot
      <4> QED BY <4>1, <4>2, <4>4 DEF Quotable, ValidSlot
    <3>10. \A t \in accepted : Quotable(t)
      BY <3>1, <3>9
    <3>4. Quoting(accepted) /\ Quoting({})
      <4>1. \A t \in accepted : IsFiniteSet(t.quote)
        BY <3>1, <3>3
      <4> HIDE DEF accepted
      <4> QED BY <3>2, <4>1, FS_EmptySet DEF Quoting
    <3>5. /\ extraction = None /\ analysis' = analysis
          /\ extraction' = extraction \/ \E outcome :
                extraction' \in {Extracted(outcome, accepted), Extracted(outcome, {})}
      <4> HIDE DEF f, accepted
      <4> QED BY <2>3, <3>1 DEF ModelAnswers
    <3> HIDE DEF accepted
    <3>6. analysis' = None
      BY <3>5 DEF ReadInv
    <3>7. extraction' # None => extraction'.slots \in {accepted, {}}
      BY <3>5 DEF Extracted
    <3>11. \A s : Quotable(s)' = Quotable(s)
      BY <2>1, SameReading
    <3>8. (extraction # None => Quoting(extraction.slots) /\ \A s \in extraction.slots : Quotable(s))'
      BY <3>4, <3>7, <3>10, <3>11 DEF Quoting
    <3> QED BY <2>1, <3>6, <3>8 DEF ReadInv
  <2>4. CASE Analyse
    <3>1. UNCHANGED <<text, extraction>> /\ extraction # None /\ analysis' = AnalysisResult
      BY <2>4 DEF Analyse
    <3> QED BY <3>1, SameReading DEF ReadInv, Quoting
  <2>5. CASE UNCHANGED extractionVars
    <3>1. UNCHANGED <<text, extraction>> /\ analysis' = analysis
      BY <2>5 DEF extractionVars
    <3> QED BY <3>1, SameReading DEF ReadInv, Quoting
  <2> QED BY <2>2, <2>3, <2>4, <2>5 DEF ReadingNext
<1> QED BY <1>1, <1>2, PTL DEF ReadingSpec

-----------------------------------------------------------------------------
(* No code is passed over *)

\* The model has been shown every clause.
LEMMA ClauseShown ==
    ASSUME NEW C \in Clauses
    PROVE  C \subseteq Target
<1>1. PICK c \in SelectChunks : C \in ClausesOf(c)
  BY DEF Clauses
<1>2. C \subseteq KeptLines(c)
  BY <1>1 DEF ClausesOf
<1> QED BY <1>1, <1>2 DEF KeptLines, Target

\* A clause of which a code has not become a requirement is salvaged: no other line prints
\* that code.
LEMMA PassedOver ==
    ASSUME text \in Seq(LineRow), Plain, Unshared, Announced, Uncut,
           NEW i \in ClauseStarts, NEW k \in CodesIn(ClauseFrom(i)),
           NEW covered, k \notin covered
    PROVE  [type |-> "industry", name |-> None, quote |-> ClauseFrom(i)] \in Salvaged(covered)
<1> DEFINE C == ClauseFrom(i)
<1>1. C \in Clauses
  BY ClauseOfChunk
<1>2. C \in SUBSET Nat /\ C # {} /\ C \subseteq DOMAIN text
  <2>1. i \in DOMAIN text /\ Len(text) \in Nat /\ DOMAIN text = 1..Len(text)
    BY DEF ClauseStarts, Conditions, SectionFrom
  <2> QED BY <2>1 DEF ClauseFrom, CodesIn
<1>3. PICK l \in C : text[l].code = k /\ k # None
  BY DEF CodesIn
<1>4. k \notin CodesIn({j \in Target : j < Min(C)})
  <2> SUFFICES ASSUME NEW j \in Target, j < Min(C), text[j].code = k PROVE FALSE
    BY DEF CodesIn
  <2>2. j = l
    BY <1>1, <1>3, ClauseShown DEF Unshared
  <2>3. Min(C) <= l /\ Min(C) \in Nat /\ l \in Nat
    BY <1>2, LeastNumber
  <2> QED BY <2>2, <2>3
<1>5. CodesIn(C) \ (covered \cup CodesIn({j \in Target : j < Min(C)})) # {}
  BY <1>4
<1> HIDE DEF C
<1> QED BY <1>1, <1>5 DEF Salvaged, C

\* Clauses that share a line are one.
LEMMA OneClause ==
    ASSUME text \in Seq(LineRow), NEW i \in DOMAIN text, NEW j \in DOMAIN text,
           text[i].mark = "item", text[j].mark = "item",
           NEW l \in ClauseFrom(i), l \in ClauseFrom(j)
    PROVE  i = j
<1>1. l \in Nat /\ i \in Nat /\ j \in Nat /\ i <= l /\ j <= l
  BY DEF ClauseFrom
<1>2. \A m \in (i + 1)..l : text[m].mark # "item"
  BY DEF ClauseFrom
<1>3. \A m \in (j + 1)..l : text[m].mark # "item"
  BY DEF ClauseFrom
<1> QED BY <1>1, <1>2, <1>3

\* What a requirement says that stays, and is guarded.
LEMMA Guarding ==
    ASSUME NEW type, NEW value, NEW s, NEW any, NEW r, r = Atom(type, value, s, any)
    PROVE  /\ r.type = type /\ r.value = value /\ r.group = s /\ r.anyOf = any
           /\ r.mandatory /\ r.extension = None
           /\ Guard(r).type = type /\ Guard(r).value = value /\ Guard(r).group = s
           /\ Guard(r).anyOf = any /\ Guard(r).mandatory /\ Guard(r).extension = None
<1>1. /\ r.type = type /\ r.value = value /\ r.group = s /\ r.anyOf = any
      /\ r.mandatory /\ r.extension = None
  BY DEF Atom
<1>2. Guard(r) \in {r, [r EXCEPT !.composite = TRUE, !.exception = TRUE]}
  BY DEF Guard
<1>3. LET g == [r EXCEPT !.composite = TRUE, !.exception = TRUE]
      IN  /\ g.type = r.type /\ g.value = r.value /\ g.group = r.group /\ g.anyOf = r.anyOf
          /\ (g.mandatory <=> r.mandatory) /\ g.extension = r.extension
  BY DEF Atom
<1> QED BY <1>1, <1>2, <1>3

\* The requirements of an analysis are finitely many atoms of the slots, and none is optional.
LEMMA AnalysisAtoms ==
    ASSUME ReadInv, analysis # None, NEW R, R = analysis.requirements
    PROVE  /\ IsFiniteSet(R)
           /\ \A r \in R : \E type, value, s :
                 /\ type \in {"INDUSTRY", "REGISTRATION_CERTIFICATION"}
                 /\ r.type = type /\ r.value = value /\ r.group = s /\ r.anyOf = Alternates(s.quote)
                 /\ r.mandatory /\ r.extension = None
                 /\ r.anyOf => r.type = "INDUSTRY" /\ r.value \in NamedIn(s.quote)
<1> DEFINE slots == extraction.slots
           salvaged == Salvaged(Reached(slots, Canonical(slots)))
           A == Canonical(slots) \cup Canonical(salvaged)
           f == [r \in A |-> Guard(r)]
<1>1. text \in Seq(LineRow) /\ Quoting(slots) /\ R = {Guard(r) : r \in A}
  <2>1. R = AnalysisResult.requirements
    BY DEF ReadInv
  <2> QED BY <2>1 DEF ReadInv, AnalysisResult
<1>2. Quoting(salvaged)
  BY <1>1, SalvagedQuoting
<1>3. /\ IsFiniteSet(A)
      /\ A \subseteq (UNION {AdaptSlot(s) : s \in slots})
                       \cup (UNION {AdaptSlot(s) : s \in salvaged})
  <2> HIDE DEF slots, salvaged
  <2>1. IsFiniteSet(Canonical(slots)) /\ IsFiniteSet(Canonical(salvaged))
    BY <1>1, <1>2, CanonicalFinite
  <2>2. Canonical(slots) \subseteq UNION {AdaptSlot(s) : s \in slots}
    BY <1>1, CanonicalFinite
  <2>3. Canonical(salvaged) \subseteq UNION {AdaptSlot(s) : s \in salvaged}
    BY <1>2, CanonicalFinite
  <2>4. IsFiniteSet(A)
    BY <2>1, FS_Union
  <2> QED BY <2>2, <2>3, <2>4
<1>4. IsFiniteSet(R)
  <2>1. R = {f[r] : r \in A} /\ f = [r \in A |-> f[r]]
    BY <1>1
  <2> HIDE DEF f, A
  <2> QED BY <1>3, <2>1, Mapped
<1>5. ASSUME NEW r \in R
      PROVE  \E type, value, s :
                 /\ type \in {"INDUSTRY", "REGISTRATION_CERTIFICATION"}
                 /\ r.type = type /\ r.value = value /\ r.group = s /\ r.anyOf = Alternates(s.quote)
                 /\ r.mandatory /\ r.extension = None
                 /\ r.anyOf => r.type = "INDUSTRY" /\ r.value \in NamedIn(s.quote)
  <2>1. PICK q \in A : r = Guard(q)
    BY <1>1
  <2>2. PICK s : q \in AdaptSlot(s)
    <3> HIDE DEF A, slots, salvaged
    <3> QED BY <1>3, <2>1
  <2>3. PICK type, value :
          /\ type \in {"INDUSTRY", "REGISTRATION_CERTIFICATION"}
          /\ q = Atom(type, value, s, Alternates(s.quote))
          /\ Alternates(s.quote) => type = "INDUSTRY" /\ value \in NamedIn(s.quote)
    BY <2>2, SlotAtoms
  <2>4. /\ r.type = type /\ r.value = value /\ r.group = s /\ r.anyOf = Alternates(s.quote)
        /\ r.mandatory /\ r.extension = None
    <3>1. PICK any : any = Alternates(s.quote)
      OBVIOUS
    <3>2. q = Atom(type, value, s, any)
      BY <2>3, <3>1
    <3> QED BY <2>1, <3>1, <3>2, Guarding
  <2> QED BY <2>3, <2>4
<1> QED BY <1>4, <1>5

\* An industry that has to be held by itself is held, of alternatives one is.
LEMMA EligibleHolds ==
    ASSUME ReadInv, analysis # None, NEW b, Eligibility(b) = "eligible"
    PROVE  /\ analysis.status = "SUCCEEDED"
           /\ \A r \in analysis.requirements : r.type = "INDUSTRY" =>
                 /\ ~r.anyOf => r.value \in b
                 /\ r.anyOf => NamedIn(r.group.quote) \cap b # {}
<1>1. PICK R : R = analysis.requirements
  OBVIOUS
<1>2. PICK rs : rs = SetToSeq(R)
  OBVIOUS
<1>3. PICK S : S = [r \in R |-> Judge(r, ProfileOf(b), Day).status]
  OBVIOUS
<1>4. DeriveOverallStatus(rs, [i \in DOMAIN rs |-> S[rs[i]]], analysis.status) = "eligible"
  <2>1. IsFiniteSet(R)
    BY <1>1, AnalysisAtoms
  <2>2. \A i \in DOMAIN rs : rs[i] \in R
    BY <1>2, <2>1, ListsAll
  <2>3. [i \in DOMAIN rs |-> S[rs[i]]] =
        [i \in DOMAIN rs |-> Judge(rs[i], ProfileOf(b), Day).status]
    BY <1>3, <2>2
  <2> QED BY <1>1, <1>2, <2>3 DEF Eligibility
<1>5. /\ IsFiniteSet(R) /\ \A r \in R : r.mandatory
      /\ \A q, r \in R : q.group = r.group => q.anyOf = r.anyOf
  BY <1>1, AnalysisAtoms
<1>6. ASSUME NEW r \in R
      PROVE  /\ analysis.status = "SUCCEEDED"
             /\ r.anyOf => \E q \in R : q.group = r.group /\ S[q] = "SATISFIED"
             /\ ~r.anyOf /\ S[r] \in JudgmentStatus => S[r] = "SATISFIED"
  BY <1>2, <1>3, <1>4, <1>5, EligibleMeetsGroups
<1>7. analysis.status = "SUCCEEDED"
  BY <1>4 DEF DeriveOverallStatus
<1>8. ASSUME NEW r \in R, r.type = "INDUSTRY", ~r.anyOf
      PROVE  r.value \in b
  <2>1. r.extension = None
    BY <1>1, AnalysisAtoms
  <2> QED BY <1>3, <1>6, <1>8, <2>1, HeldIfSatisfied
<1>9. ASSUME NEW r \in R, r.type = "INDUSTRY", r.anyOf
      PROVE  NamedIn(r.group.quote) \cap b # {}
  <2>1. PICK q \in R : q.group = r.group /\ S[q] = "SATISFIED"
    BY <1>6, <1>9
  <2>2. /\ q.anyOf
        /\ q.type = "INDUSTRY" /\ q.extension = None /\ q.value \in NamedIn(q.group.quote)
    <3>1. q.anyOf
      BY <1>5, <1>9, <2>1
    <3> QED BY <1>1, <3>1, AnalysisAtoms
  <2>3. q.value \in b
    BY <1>3, <2>1, <2>2, HeldIfSatisfied
  <2> QED BY <2>1, <2>2, <2>3
<1> QED BY <1>1, <1>7, <1>8, <1>9

\* What has become a requirement of its own, or one of alternatives, stays one behind the
\* guard.
LEMMA BecomesRequirement ==
    ASSUME ReadInv, analysis # None, NEW slots,
           \/ slots = extraction.slots
           \/ slots = Salvaged(Reached(extraction.slots, Canonical(extraction.slots))),
           NEW r \in Canonical(slots), r.type = "INDUSTRY"
    PROVE  \E s \in slots :
              /\ r \in AdaptSlot(s) /\ r.anyOf = Alternates(s.quote)
              /\ r.anyOf => r.value \in NamedIn(s.quote)
              /\ \E q \in analysis.requirements :
                    /\ q.type = "INDUSTRY" /\ q.value = r.value /\ q.anyOf = r.anyOf
                    /\ q.group = s
<1>1. text \in Seq(LineRow) /\ Quoting(extraction.slots)
  BY DEF ReadInv
<1>2. Quoting(slots)
  BY <1>1, SalvagedQuoting
<1>3. PICK s \in slots : r \in AdaptSlot(s)
  BY <1>2, CanonicalFinite
<1>4. PICK type, value :
          /\ r = Atom(type, value, s, Alternates(s.quote))
          /\ Alternates(s.quote) => type = "INDUSTRY" /\ value \in NamedIn(s.quote)
  BY <1>3, SlotAtoms
<1>5. PICK any : any = Alternates(s.quote)
  OBVIOUS
<1>6. r = Atom(type, value, s, any)
  BY <1>4, <1>5
<1>7. /\ r.type = type /\ r.value = value /\ r.anyOf = any
      /\ Guard(r).type = type /\ Guard(r).value = value /\ Guard(r).anyOf = any
      /\ Guard(r).group = s
  BY <1>6, Guarding
<1>8. Guard(r) \in analysis.requirements
  <2>1. analysis = AnalysisResult
    BY DEF ReadInv
  <2> QED BY <2>1 DEF AnalysisResult
<1>9. /\ r.anyOf = Alternates(s.quote)
      /\ r.anyOf => r.value \in NamedIn(s.quote)
      /\ Guard(r).type = "INDUSTRY" /\ Guard(r).value = r.value /\ Guard(r).anyOf = r.anyOf
      /\ Guard(r).group = s
  BY <1>4, <1>5, <1>7
<1> QED BY <1>3, <1>8, <1>9

\* Where there are alternatives, there are two lines with a named code.
LEMMA TwoCodes ==
    ASSUME NEW Q \in SUBSET Nat, IsFiniteSet(Q), Alternates(Q)
    PROVE  \E l, m \in Q : l # m /\ NamedAt(l) /\ NamedAt(m)
<1> DEFINE before(x) == Cardinality({y \in SaysOr(Q) : y < x})
           part(n) == {x \in Q : before(x) = n}
<1>1. SaysOr(Q) # {} /\ IsFiniteSet(SaysOr(Q))
  BY FS_Subset DEF Alternates, SaysOr
<1>2. Cardinality(SaysOr(Q)) \in Nat /\ Cardinality(SaysOr(Q)) # 0
  BY <1>1, FS_CardinalityType, FS_EmptySet
<1>3. 0 \in 0..Cardinality(SaysOr(Q)) /\ 1 \in 0..Cardinality(SaysOr(Q))
  BY <1>2
<1>4. ASSUME NEW n \in 0..Cardinality(SaysOr(Q))
      PROVE  \E x \in Q : before(x) = n /\ NamedAt(x)
  <2>1. part(n) \in Parts(Q)
    BY DEF Parts
  <2>2. Cardinality({x \in part(n) : NamedAt(x)}) = 1
    BY <2>1 DEF Alternates
  <2>3. {x \in part(n) : NamedAt(x)} # {}
    <3> HIDE DEF part
    <3> QED BY <2>2, FS_EmptySet
  <2> QED BY <2>3
<1> HIDE DEF before
<1> QED BY <1>3, <1>4

\* An "or" stands between any two of them.
LEMMA OrBetween ==
    ASSUME NEW Q \in SUBSET Nat, IsFiniteSet(Q), Alternates(Q),
           NEW l \in Q, NEW m \in Q, l < m, NamedAt(l), NamedAt(m)
    PROVE  \E o \in SaysOr(Q) : l <= o /\ o < m
<1> SUFFICES ASSUME \A o \in SaysOr(Q) : ~(l <= o /\ o < m) PROVE FALSE
  OBVIOUS
<1> DEFINE before(x) == Cardinality({y \in SaysOr(Q) : y < x})
           part(n) == {x \in Q : before(x) = n}
           printing(n) == {x \in part(n) : NamedAt(x)}
<1>1. IsFiniteSet(SaysOr(Q)) /\ SaysOr(Q) \subseteq Nat
  BY FS_Subset DEF SaysOr
<1>2. {y \in SaysOr(Q) : y < l} = {y \in SaysOr(Q) : y < m}
  BY <1>1
<1>3. PICK n : n = before(l) /\ n = before(m)
  BY <1>2
<1>4. n \in 0..Cardinality(SaysOr(Q))
  <2>1. {y \in SaysOr(Q) : y < l} \in SUBSET SaysOr(Q)
    OBVIOUS
  <2>2. n \in Nat /\ n <= Cardinality(SaysOr(Q)) /\ Cardinality(SaysOr(Q)) \in Nat
    BY <1>1, <1>3, <2>1, FS_Subset, FS_CardinalityType
  <2> QED BY <2>2
<1>5. part(n) \in Parts(Q)
  BY <1>4 DEF Parts
<1>6. Cardinality(printing(n)) = 1 /\ IsFiniteSet(printing(n))
  <2>1. printing(n) \subseteq Q
    OBVIOUS
  <2>2. Cardinality(printing(n)) = 1
    BY <1>5 DEF Alternates
  <2> HIDE DEF printing
  <2> QED BY <2>1, <2>2, FS_Subset
<1>7. l \in printing(n) /\ m \in printing(n) /\ l # m
  BY <1>3
<1> HIDE DEF printing
<1> QED BY <1>6, <1>7, FS_Singleton

\* Two named codes of a quote, with none between them, are codes of one clause.
LEMMA NextCode ==
    ASSUME text \in Seq(LineRow), Plain, Uncut, Enclosed,
           NEW Q, Cut(Q), IsFiniteSet(Q), Alternates(Q),
           NEW l \in Q, NEW m \in Q, l < m, NamedAt(l), NamedAt(m),
           \A x \in Q : l < x /\ x < m => ~NamedAt(x)
    PROVE  \E i \in DOMAIN text :
              /\ text[i].mark = "item" /\ l \in ClauseFrom(i) /\ m \in ClauseFrom(i)
              /\ SaysOr(ClauseFrom(i)) # {}
<1>0. PICK c \in SelectChunks : StandsIn(Q, c) /\ Squash(Q) = Q
  BY DEF Cut
<1>1. PICK first \in Squash(Lines(c)), last \in Squash(Lines(c)) :
         Q = {x \in Squash(Lines(c)) : first <= x /\ x <= last}
  BY <1>0 DEF StandsIn
<1>2. /\ Len(text) \in Nat /\ DOMAIN text = 1..Len(text) /\ Q \subseteq DOMAIN text
      /\ Squash(Lines(c)) \subseteq DOMAIN text /\ Q \subseteq Target
  BY <1>1 DEF Squash, Lines, Target
<1>3. PICK o \in SaysOr(Q) : l <= o /\ o < m
  BY <1>2, OrBetween
<1>4. o \in Q /\ o \in Target /\ text[o].or
  BY <1>2, <1>3 DEF SaysOr
<1>5. PICK i \in DOMAIN text :
         /\ text[i].mark = "item" /\ o \in ClauseFrom(i)
         /\ \E p, q \in ClauseFrom(i) :
               p <= o /\ o < q /\ NamedAt(p) /\ NamedAt(q)
  BY <1>4 DEF Enclosed
<1>6. PICK p \in ClauseFrom(i), q \in ClauseFrom(i) :
         p <= o /\ o < q /\ NamedAt(p) /\ NamedAt(q)
  BY <1>5
<1>7. /\ l \in Nat /\ m \in Nat /\ o \in Nat /\ p \in Nat /\ q \in Nat /\ i \in Nat
      /\ i <= p /\ first \in Nat /\ last \in Nat
      /\ q <= Len(text) /\ p \in DOMAIN text /\ q \in DOMAIN text
  BY <1>2, <1>4, <1>5, <1>6 DEF ClauseFrom
<1>8. ASSUME NEW x \in ClauseFrom(i), first <= x, x <= last PROVE x \in Q
  <2>0. x \in DOMAIN text
    BY <1>2, <1>7 DEF ClauseFrom
  <2>1. x \in DOMAIN text /\ ChunkStart[x] = ChunkStart[i] /\ ChunkStart[o] = ChunkStart[i]
    BY <1>5, <2>0, ClauseInChunk
  <2>2. ChunkStart[o] = c
    BY <1>1, <1>4 DEF Squash, Lines
  <2>3. text[x].mark # "number"
    BY DEF ClauseFrom
  <2> QED BY <1>1, <1>8, <2>1, <2>2, <2>3 DEF Squash, Lines
<1>9. first <= l /\ m <= last
  BY <1>1
<1>10. p <= l
  <2> SUFFICES ASSUME l < p PROVE FALSE
    BY <1>7
  <2>1. first <= p /\ p <= last /\ p < m
    BY <1>3, <1>6, <1>7, <1>9
  <2> QED BY <1>6, <1>8, <2>1
<1>11. m <= q
  <2> SUFFICES ASSUME q < m PROVE FALSE
    BY <1>7
  <2>1. first <= q /\ q <= last /\ l < q
    BY <1>3, <1>6, <1>7, <1>9
  <2> QED BY <1>6, <1>8, <2>1
<1>12. ASSUME NEW x \in {l, m} PROVE x \in ClauseFrom(i)
  <2>1. x \in i..Len(text) /\ x <= q /\ x \in Nat /\ x \in DOMAIN text /\ text[x].code # None
    BY <1>2, <1>3, <1>6, <1>7, <1>10, <1>11 DEF NamedAt
  <2>2. \A k \in (i + 1)..x : text[k].mark # "item"
    <3>1. \A k \in (i + 1)..q : text[k].mark # "item"
      BY <1>6 DEF ClauseFrom
    <3> QED BY <1>7, <2>1, <3>1
  <2>3. text[x].mark \in {"item", "wrap"}
    <3>1. text[x] \in LineRow /\ ~Continues(x)
      BY <2>1 DEF Plain
    <3> QED BY <3>1 DEF Continues, LineRow
  <2> QED BY <2>1, <2>2, <2>3 DEF ClauseFrom
<1>13. o \in SaysOr(ClauseFrom(i))
  BY <1>4, <1>5 DEF SaysOr
<1> QED BY <1>5, <1>12, <1>13

\* Alternatives are those of one clause, whatever else is quoted.
LEMMA AlternativesOfOneClause ==
    ASSUME text \in Seq(LineRow), Plain, Uncut, Enclosed,
           NEW Q, Cut(Q), IsFiniteSet(Q), Alternates(Q)
    PROVE  \E i \in DOMAIN text :
              /\ text[i].mark = "item" /\ SaysOr(ClauseFrom(i)) # {}
              /\ \A x \in Q : NamedAt(x) => x \in ClauseFrom(i)
<1> DEFINE K == {x \in Q : NamedAt(x)}
<1>1. Len(text) \in Nat /\ DOMAIN text = 1..Len(text) /\ Q \subseteq DOMAIN text
  BY DEF Cut, StandsIn, Squash, Lines
<1>2. K \in SUBSET Nat /\ Q \in SUBSET Nat
  BY <1>1
<1>3. PICK u \in K, v \in K : u # v
  BY <1>2, TwoCodes
<1>4. PICK l \in K : \A x \in K : l <= x
  <2>1. K # {}
    BY <1>3
  <2> HIDE DEF K
  <2> QED BY <1>2, <2>1, LeastNumber
<1>5. PICK m \in K : l < m /\ \A x \in K : l < x => m <= x
  <2> DEFINE above == {x \in K : l < x}
  <2>1. above # {} /\ above \in SUBSET Nat
    <3> HIDE DEF K
    <3>1. PICK w \in K : w # l
      BY <1>3
    <3>2. w \in Nat /\ l \in Nat /\ l <= w
      BY <1>2, <1>4
    <3>3. w \in above
      BY <3>1, <3>2
    <3>4. above \subseteq K
      OBVIOUS
    <3> QED BY <1>2, <3>3, <3>4
  <2>2. Min(above) \in above /\ \A x \in above : Min(above) <= x
    <3> HIDE DEF above
    <3> QED BY <2>1, LeastNumber
  <2> HIDE DEF K
  <2> QED BY <2>2
<1>6. PICK i \in DOMAIN text :
         /\ text[i].mark = "item" /\ l \in ClauseFrom(i) /\ m \in ClauseFrom(i)
         /\ SaysOr(ClauseFrom(i)) # {}
  <2>1. \A x \in Q : l < x /\ x < m => ~NamedAt(x)
    BY <1>2, <1>5
  <2> QED BY <1>5, <2>1, NextCode
<1>7. K \subseteq ClauseFrom(i)
  <2> DEFINE beyond == {x \in K : x \notin ClauseFrom(i)}
  <2> SUFFICES ASSUME beyond # {} PROVE FALSE
    OBVIOUS
  <2>1. PICK b \in beyond : \A x \in beyond : b <= x
    <3>1. beyond \in SUBSET Nat
      BY <1>2
    <3> HIDE DEF beyond
    <3> QED BY <3>1, LeastNumber
  <2> DEFINE under == {x \in K : x < b}
             R == {p \in under \X under : p[1] > p[2]}
  <2>2. PICK a \in under : \A x \in under : x <= a
    <3>1. IsFiniteSet(under) /\ under \in SUBSET Nat
      BY <1>2, FS_Subset
    <3>2. l \in under
      BY <1>2, <1>4, <1>6, <2>1
    <3>3. /\ \A x \in under : <<x, x>> \notin R
          /\ \A x, y, z \in under : <<x, y>> \in R /\ <<y, z>> \in R => <<x, z>> \in R
          /\ \A x, y \in under : <<y, x>> \notin R => y <= x
      <4> HIDE DEF under
      <4> QED BY <3>1
    <3>4. \E a \in under : \A x \in under : <<x, a>> \notin R
      <4> HIDE DEF under, R
      <4> QED BY <3>1, <3>2, <3>3, Least
    <3> QED BY <3>3, <3>4
  <2>3. a \in ClauseFrom(i)
    BY <1>2, <2>1, <2>2
  <2>4. \A x \in Q : a < x /\ x < b => ~NamedAt(x)
    <3> SUFFICES ASSUME NEW x \in Q, a < x, x < b, NamedAt(x) PROVE FALSE
      OBVIOUS
    <3>1. x \in under
      OBVIOUS
    <3>2. x <= a /\ x \in Nat /\ a \in Nat
      <4>1. under \subseteq Nat
        BY <1>2
      <4> HIDE DEF under
      <4> QED BY <2>2, <3>1, <4>1
    <3> HIDE DEF under, beyond
    <3> QED BY <3>2
  <2>5. PICK j \in DOMAIN text :
           text[j].mark = "item" /\ a \in ClauseFrom(j) /\ b \in ClauseFrom(j)
    BY <2>2, <2>4, NextCode
  <2>6. i = j
    BY <1>6, <2>3, <2>5, OneClause
  <2> QED BY <2>1, <2>5, <2>6
<1> QED BY <1>6, <1>7

\* Whoever is eligible holds a code of alternatives, and every code of another clause.
LEMMA ClauseIsMet ==
    ASSUME ReadInv, Analysed, Plain, Unshared, Announced, Uncut, Enclosed,
           NEW i \in ClauseStarts, Readable(i), NEW b, Eligibility(b) = "eligible"
    PROVE  HoldsCodes(b, i)
<1> DEFINE C == ClauseFrom(i)
           slots == extraction.slots
           reached == Reached(slots, Canonical(slots))
           salvaged == Salvaged(reached)
           sl == [type |-> "industry", name |-> None, quote |-> C]
<1>1. /\ text \in Seq(LineRow) /\ analysis # None /\ extraction # None
      /\ Quoting(slots) /\ Quoting(salvaged)
  BY SalvagedQuoting DEF ReadInv, Analysed
<1>2. i \in DOMAIN text /\ text[i].mark = "item" /\ C \subseteq DOMAIN text /\ IsFiniteSet(C)
  <2>1. i \in DOMAIN text /\ text[i].mark = "item"
    BY DEF ClauseStarts, Conditions, SectionFrom
  <2>2. PICK n \in Nat : n = Len(text) /\ DOMAIN text = 1..n /\ i \in 1..n
    BY <1>1, <2>1
  <2>3. C \subseteq 1..n
    BY <2>2 DEF ClauseFrom
  <2>4. IsFiniteSet(1..n)
    BY <2>2, FS_Interval
  <2> QED BY <2>1, <2>2, <2>3, <2>4, FS_Subset
<1>3. /\ analysis.status = "SUCCEEDED"
      /\ \A r \in analysis.requirements : r.type = "INDUSTRY" =>
            /\ ~r.anyOf => r.value \in b
            /\ r.anyOf => NamedIn(r.group.quote) \cap b # {}
  BY <1>1, EligibleHolds
<1>4. \A s \in slots \cup salvaged : ~Warns(s)
  <2>1. AnalysisStatus(slots, salvaged) = "SUCCEEDED"
    BY <1>1, <1>3 DEF ReadInv, AnalysisResult
  <2> HIDE DEF slots, salvaged
  <2> QED BY <2>1 DEF AnalysisStatus
\* What a requirement that the model has led to says of a code of the clause.
<1>5. ASSUME NEW k \in CodesIn(C), k \in reached
      PROVE  k \in b \/ (SaysOr(C) # {} /\ CodesIn(C) \cap b # {})
  <2>1. PICK r \in Canonical(slots) : r.type = "INDUSTRY" /\ r.value = k
    BY <1>5 DEF Reached
  <2>2. PICK s \in slots :
           /\ r.anyOf = Alternates(s.quote) /\ (r.anyOf => r.value \in NamedIn(s.quote))
           /\ \E q \in analysis.requirements :
                 q.type = "INDUSTRY" /\ q.value = r.value /\ q.anyOf = r.anyOf /\ q.group = s
    BY <1>1, <2>1, BecomesRequirement
  <2>3. PICK q \in analysis.requirements :
           q.type = "INDUSTRY" /\ q.value = r.value /\ q.anyOf = r.anyOf /\ q.group = s
    BY <2>2
  <2>4. CASE ~r.anyOf
    BY <1>3, <2>1, <2>3, <2>4
  <2>5. CASE r.anyOf
    <3>1. /\ Alternates(s.quote) /\ k \in NamedIn(s.quote)
          /\ Cut(s.quote) /\ IsFiniteSet(s.quote) /\ s.quote \subseteq Target
      <4>1. Cut(s.quote) /\ IsFiniteSet(s.quote)
        BY <1>1 DEF ReadInv, Quotable, Quoting
      <4>2. s.quote \subseteq Target
        BY <4>1 DEF Cut, StandsIn, Squash, Target
      <4> QED BY <2>1, <2>2, <2>5, <4>1, <4>2
    <3>2. PICK j \in DOMAIN text :
             /\ text[j].mark = "item" /\ SaysOr(ClauseFrom(j)) # {}
             /\ \A x \in s.quote : NamedAt(x) => x \in ClauseFrom(j)
      BY <1>1, <3>1, AlternativesOfOneClause
    <3>3. PICK l \in C, m \in s.quote : text[l].code = k /\ text[m].code = k /\ NamedAt(m)
      BY <3>1, <1>5 DEF CodesIn, NamedIn, NamedAt
    <3>3a. k # None
      BY <3>3 DEF NamedAt
    <3>4. l \in Target
      <4>1. C \in Clauses
        BY <1>1, <1>5, ClauseOfChunk
      <4> QED BY <4>1, ClauseShown
    <3>5. l = m
      BY <3>1, <3>3, <3>3a, <3>4 DEF Unshared
    <3>6. i = j
      BY <1>1, <1>2, <3>2, <3>3, <3>5, OneClause
    <3>7. NamedIn(s.quote) \subseteq CodesIn(C)
      BY <3>2, <3>6 DEF CodesIn, NamedIn, NamedAt
    <3>8. NamedIn(s.quote) \cap b # {}
      BY <1>3, <2>3, <2>5
    <3> QED BY <3>2, <3>6, <3>7, <3>8
  <2> QED BY <2>4, <2>5
<1>6. ASSUME NEW k \in CodesIn(C), k \notin reached
      PROVE  sl \in salvaged
  BY <1>1, <1>6, PassedOver
\* What has been salvaged becomes a requirement.
<1>7. ASSUME NEW r \in AdaptSlot(sl), sl \in salvaged, r.type = "INDUSTRY", r.value \in CodesIn(C)
      PROVE  \/ r.anyOf /\ CodesIn(C) \cap b # {}
             \/ ~r.anyOf /\ r.value \in b
  <2> DEFINE atoms == UNION {AdaptSlot(s) : s \in salvaged}
  <2>1. r \in atoms /\ Canonical(salvaged) = Deduplicated(atoms)
    BY <1>7 DEF Canonical
  <2>2. r.value \notin TradeName
    <3>1. PICK l \in C : text[l].code = r.value
      BY <1>7 DEF CodesIn
    <3> QED BY <1>2, <3>1 DEF Plain
  <2>3. /\ r.anyOf => r \in Canonical(salvaged)
        /\ ~r.anyOf => \E q \in Canonical(salvaged) :
                          ~q.anyOf /\ q.type = "INDUSTRY" /\ q.value = r.value
    <3> HIDE DEF atoms, salvaged
    <3> QED BY <1>7, <2>1, <2>2, IndustryStays
  <2>4. CASE r.anyOf
    <3>0. r \in Canonical(salvaged)
      BY <2>3, <2>4
    <3>1. PICK s \in salvaged :
             /\ r \in AdaptSlot(s) /\ r.anyOf = Alternates(s.quote)
             /\ r.anyOf => r.value \in NamedIn(s.quote)
             /\ \E q \in analysis.requirements :
                   q.type = "INDUSTRY" /\ q.value = r.value /\ q.anyOf = r.anyOf /\ q.group = s
      BY <1>1, <1>7, <3>0, BecomesRequirement
    <3>2. r.group = s /\ r.group = sl
      <4>1. PICK t1, v1, a1 : r = Atom(t1, v1, s, a1)
        BY <3>1, SlotAtoms
      <4>2. PICK t2, v2, a2 : r = Atom(t2, v2, sl, a2)
        BY <1>7, SlotAtoms
      <4>3. r.group = s
        BY <4>1, Guarding
      <4>4. r.group = sl
        BY <4>2, Guarding
      <4> QED BY <4>3, <4>4
    <3>3. NamedIn(sl.quote) \cap b # {}
      BY <1>3, <2>4, <3>1, <3>2
    <3>4. NamedIn(sl.quote) \subseteq CodesIn(C)
      BY DEF NamedIn
    <3> QED BY <2>4, <3>3, <3>4
  <2>5. CASE ~r.anyOf
    <3>1. PICK q \in Canonical(salvaged) : ~q.anyOf /\ q.type = "INDUSTRY" /\ q.value = r.value
      BY <2>3, <2>5
    <3>2. PICK p \in analysis.requirements :
             p.type = "INDUSTRY" /\ p.value = q.value /\ p.anyOf = q.anyOf
      BY <1>1, <3>1, BecomesRequirement
    <3> QED BY <1>3, <2>5, <3>1, <3>2
  <2> QED BY <2>4, <2>5
<1>8. CASE SaysOr(C) # {}
  <2>1. Alternates(C)
    BY <1>8 DEF Readable
  <2>2. AdaptSlot(sl) = {Atom("INDUSTRY", c, sl, TRUE) : c \in NamedIn(C)}
    BY <2>1 DEF AdaptSlot
  <2>3. PICK k : k \in NamedIn(C)
    <3>1. IsFiniteSet(SaysOr(C))
      BY <1>2, FS_Subset DEF SaysOr
    <3>2. Cardinality(SaysOr(C)) \in Nat
      BY <3>1, FS_CardinalityType
    <3>3. PICK part \in Parts(C) : part \subseteq C
      <4> DEFINE before(x) == Cardinality({y \in SaysOr(C) : y < x})
                 part(n) == {x \in C : before(x) = n}
      <4>1. 0 \in 0..Cardinality(SaysOr(C)) /\ part(0) \subseteq C
        BY <3>2
      <4>2. Parts(C) = {part(n) : n \in 0..Cardinality(SaysOr(C))}
        BY DEF Parts
      <4> HIDE DEF part
      <4> QED BY <4>1, <4>2
    <3>4. Cardinality({x \in part : NamedAt(x)}) = 1
      BY <2>1, <3>3 DEF Alternates
    <3>5. {x \in part : NamedAt(x)} # {}
      BY <3>4, FS_EmptySet
    <3> QED BY <3>3, <3>5 DEF CodesIn, NamedIn, NamedAt
  <2>3a. k \in CodesIn(C)
    BY <2>3 DEF NamedIn
  <2>4. CodesIn(C) \cap b # {}
    <3>1. CASE k \in reached
      BY <1>5, <2>3a, <3>1
    <3>2. CASE k \notin reached
      <4>1. sl \in salvaged
        BY <1>6, <2>3a, <3>2
      <4>2a. PICK any : any = TRUE
        OBVIOUS
      <4>2. PICK r : r = Atom("INDUSTRY", k, sl, any)
        OBVIOUS
      <4>3. r.type = "INDUSTRY" /\ r.value = k
        BY <4>2, Guarding
      <4>4. r \in AdaptSlot(sl)
        BY <2>2, <2>3, <4>2a, <4>2
      <4> QED BY <1>7, <2>3a, <4>1, <4>3, <4>4
    <3> QED BY <3>1, <3>2
  <2> QED BY <1>8, <2>4 DEF HoldsCodes
<1>9. CASE SaysOr(C) = {}
  <2>1. ASSUME NEW k \in CodesIn(C) PROVE k \in b
    <3>1. CASE k \in reached
      BY <1>5, <1>9, <3>1
    <3>2. CASE k \notin reached
      <4>1. sl \in salvaged
        BY <1>6, <3>2
      <4>2. ~Waives(C)
        BY <1>2 DEF Waives, Plain, ClauseFrom
      <4>3. CodesIn(C) \cap Labelled \in {{}, CodesIn(C)}
        BY DEF Readable
      <4>4. AdaptSlot(sl) = {Atom("INDUSTRY", k, sl, FALSE)}
        BY <1>1, <1>2, <1>4, <1>9, <4>1, <4>2, <4>3, SalvagedReads
      <4>5a. PICK any : any = FALSE
        OBVIOUS
      <4>5. PICK r : r = Atom("INDUSTRY", k, sl, any)
        OBVIOUS
      <4>6. r.type = "INDUSTRY" /\ r.value = k /\ r.anyOf = any
        BY <4>5, Guarding
      <4>7. r \in AdaptSlot(sl) /\ ~r.anyOf
        BY <4>4, <4>5a, <4>5, <4>6
      <4> QED BY <1>7, <4>1, <4>6, <4>7
    <3> QED BY <3>1, <3>2
  <2> QED BY <1>9, <2>1 DEF HoldsCodes
<1> QED BY <1>8, <1>9

\* Whatever the text, and whatever the model answers, repeats or leaves out
\* (code_salvage.py:12-22).
THEOREM NoCodeIsPassedOver == ReadingSpec => []EligibleMeetsText
<1>1. ReadInv => EligibleMeetsText
  BY ClauseIsMet DEF EligibleMeetsText
<1> QED BY <1>1, ReadHolds, PTL

-----------------------------------------------------------------------------
(* No bidder is excluded *)

\* A finite set of numbers that is not empty has a greatest member.
LEMMA GreatestNumber ==
    ASSUME NEW S \in SUBSET Nat, IsFiniteSet(S), S # {}
    PROVE  Max(S) \in S /\ \A x \in S : x <= Max(S)
<1> DEFINE R == {p \in S \X S : p[1] > p[2]}
<1>1. /\ \A x \in S : <<x, x>> \notin R
      /\ \A x, y, z \in S : <<x, y>> \in R /\ <<y, z>> \in R => <<x, z>> \in R
      /\ \A x, y \in S : <<y, x>> \notin R => x >= y
  OBVIOUS
<1>2. \E m \in S : \A x \in S : <<x, m>> \notin R
  <2> HIDE DEF R
  <2> QED BY <1>1, Least
<1>3. \E m \in S : \A x \in S : m >= x
  BY <1>1, <1>2
<1>4. Max(S) \in S /\ \A x \in S : Max(S) >= x
  BY <1>3 DEF Max
<1> QED BY <1>4

\* What the model is shown is what is said who may bid, and the headings of it.
LEMMA TargetSaid ==
    ASSUME text \in Seq(LineRow), Plain,
           \A i, j \in DOMAIN text : i <= j => text[i].doc <= text[j].doc,
           NEW x \in Target
    PROVE  x \in Conditions \cup Headings
<1> DEFINE anchored == {text[a].doc : a \in Anchors}
           mentions(d) == \E k \in Lines(d) : text[k].topic \/ (Anchors = {} /\ text[k].anchor)
           found == (UNION {SectionOf(a) : a \in Anchors}) \cup
                    {d \in Chunks : text[d].doc \notin anchored /\ mentions(d)}
<1>1. PICK c \in SelectChunks : x \in Lines(c)
  BY DEF Target
<1>2. /\ Len(text) \in Nat /\ DOMAIN text = 1..Len(text)
      /\ \A k \in DOMAIN text : text[k] \in LineRow
  OBVIOUS
<1>3. x \in DOMAIN text /\ ChunkStart[x] = c /\ c \in 1..x /\ c \in DOMAIN text /\ ChunkStart[c] = c
  <2>1. x \in DOMAIN text /\ ChunkStart[x] = c
    BY <1>1 DEF Lines
  <2>2. c \in 1..x /\ ChunkStart[c] = c
    BY <2>1, ChunkOrder
  <2> QED BY <1>2, <2>1, <2>2
<1>4. ASSUME NEW j \in (c + 1)..x PROVE ~NewDocument(j) /\ text[j].rank = None
  <2>1. j \in DOMAIN text /\ c < j /\ j <= x
    BY <1>2, <1>3
  <2>2. ChunkStart[j] <= c
    BY <1>3, <2>1, ChunkOrder
  <2>3. ChunkStart[j] # j
    BY <1>2, <1>3, <2>1, <2>2
  <2> QED BY <2>1, <2>3, ChunkOrder
<1>5. text[x].doc = text[c].doc
  BY <1>2, <1>3, <1>4, SameDocument
<1>6. \A h \in Headings : h \in Anchors /\ h \in SectionOf(h)
  <2> TAKE h \in Headings
  <2>1. h \in DOMAIN text /\ text[h].rank # None /\ text[h].anchor
    BY DEF Headings
  <2>2. h \in Chunks
    BY <2>1, ChunkOrder DEF Chunks
  <2>3. h \in Anchors
    BY <2>1, <2>2 DEF Anchors, LabelRank
  <2>4. h \in SectionOf(h)
    <3>1. h \in Nat /\ h >= h /\ \A d \in Chunks : ~(h < d /\ d <= h)
      <4>1. Chunks \subseteq Nat
        BY <1>2, ChunkOrder DEF Chunks
      <4> QED BY <2>2, <4>1
    <3> QED BY <2>2, <3>1 DEF SectionOf
  <2> QED BY <2>3, <2>4
<1>7. Anchors \subseteq Headings /\ Anchors \subseteq DOMAIN text
  <2>1. Anchors \subseteq DOMAIN text
    BY <1>2, ChunkOrder DEF Anchors, Chunks
  <2> QED BY <2>1 DEF Anchors, Plain, Headings
<1>8. SelectChunks = IF found = {} THEN Chunks ELSE found
  BY DEF SelectChunks
<1>9. CASE \E a \in Anchors : c \in SectionOf(a)
  <2>1. PICK a \in Anchors : c \in SectionOf(a)
    BY <1>9
  <2>2. a \in Headings /\ a \in DOMAIN text /\ c >= a /\ text[c].doc = text[a].doc
    BY <1>7, <2>1 DEF SectionOf
  <2>3. a <= x /\ a \in Nat /\ text[a].rank # None /\ text[a].rank \in Nat
    BY <1>2, <1>3, <2>2 DEF Headings, LineRow
  <2>4. ASSUME NEW j \in (a + 1)..x
        PROVE  ~NewDocument(j) /\ (text[j].rank # None => text[j].rank > text[a].rank)
    <3>1. j \in DOMAIN text /\ a < j /\ j <= x /\ j - 1 \in DOMAIN text /\ a <= j - 1 /\ j # 1
      BY <1>2, <1>3, <2>2, <2>3
    <3>2. CASE j > c
      <4>1. j \in (c + 1)..x
        BY <1>2, <1>3, <3>1, <3>2
      <4> QED BY <1>4, <4>1
    <3>3. CASE j <= c
      <4>0. \A k \in DOMAIN text : text[k].doc \in Nat
        BY <1>2 DEF LineRow
      <4>1. /\ text[a].doc <= text[j - 1].doc /\ text[j - 1].doc <= text[j].doc
            /\ text[j].doc <= text[c].doc
        <5>1. j - 1 <= j
          BY <1>2, <3>1
        <5> QED BY <1>3, <2>2, <3>1, <3>3, <5>1
      <4>2. text[j].doc = text[j - 1].doc
        BY <1>3, <2>2, <3>1, <4>0, <4>1
      <4>3. ~NewDocument(j)
        BY <3>1, <4>2 DEF NewDocument
      <4>4. ASSUME text[j].rank # None PROVE text[j].rank > text[a].rank
        <5>1. j \in Chunks
          BY <3>1, <4>4, ChunkOrder DEF Chunks
        <5>2. ~EndsSection(a, j)
          BY <2>1, <3>1, <3>3, <5>1 DEF SectionOf
        <5>3. LabelRank(j) = text[j].rank /\ LabelRank(a) = text[a].rank
          BY <2>3, <4>4 DEF LabelRank
        <5>4. PICK m \in Nat, n \in Nat : m = text[j].rank /\ n = text[a].rank
          BY <1>2, <2>3, <3>1, <4>4 DEF LineRow
        <5>5. ~(m <= n)
          BY <4>4, <5>2, <5>3, <5>4 DEF EndsSection
        <5> QED BY <5>4, <5>5
      <4> QED BY <4>3, <4>4
    <3> QED BY <1>2, <1>3, <3>1, <3>2, <3>3
  <2>5. x = a \/ x > a
    BY <1>2, <1>3, <2>3
  <2>6. x > a => x \in SectionFrom(a)
    BY <1>3, <2>4 DEF SectionFrom
  <2> QED BY <2>2, <2>5, <2>6 DEF Conditions
<1>10. CASE text[c].doc \notin anchored
  <2>1. \A h \in Headings : text[h].doc # text[x].doc
    BY <1>5, <1>6, <1>10
  <2> QED BY <1>3, <2>1 DEF Conditions
<1>11. CASE found = {}
  <2>1. Headings = {}
    <3> SUFFICES ASSUME NEW h \in Headings PROVE FALSE
      OBVIOUS
    <3>1. h \in UNION {SectionOf(a) : a \in Anchors}
      BY <1>6
    <3> HIDE DEF anchored, mentions
    <3> QED BY <1>11, <3>1
  <2> QED BY <1>3, <2>1 DEF Conditions
<1>12. \/ found = {}
       \/ \E a \in Anchors : c \in SectionOf(a)
       \/ text[c].doc \notin anchored
  <2> HIDE DEF anchored, mentions
  <2>1. CASE found # {}
    <3>1. c \in found
      BY <1>1, <1>8, <2>1
    <3> QED BY <3>1
  <2> QED BY <2>1
<1> QED BY <1>9, <1>10, <1>11, <1>12

\* What prints something, and is said who may bid or heads it, stands in a clause.
LEMMA InClause ==
    ASSUME text \in Seq(LineRow), Plain, Orderly, NEW x \in Conditions \cup Headings,
           text[x].mark \in {"item", "wrap"}, text[x].code # None \/ text[x].name # None
    PROVE  \E i \in ClauseStarts : x \in ClauseFrom(i)
<1> DEFINE S == {i \in 1..x : text[i].mark = "item"}
<1>1. /\ Len(text) \in Nat /\ DOMAIN text = 1..Len(text) /\ x \in DOMAIN text
      /\ \A k \in DOMAIN text : text[k] \in LineRow
  BY DEF Conditions, Headings, SectionFrom
<1>2. IsFiniteSet(S) /\ S \in SUBSET Nat /\ S # {}
  <2>1. IsFiniteSet(1..x)
    <3>1. PICK n \in Nat : n = x
      BY <1>1
    <3> QED BY <3>1, FS_Interval
  <2>2. 1 \in S
    BY <1>1 DEF Plain, NewDocument
  <2> QED BY <1>1, <2>1, <2>2, FS_Subset
<1>3. PICK i \in S : \A k \in S : k <= i
  <2> HIDE DEF S
  <2> QED BY <1>2, GreatestNumber
<1>4. i \in DOMAIN text /\ text[i].mark = "item" /\ i <= x /\ i \in Nat /\ x \in Nat
  BY <1>1
<1>5. ASSUME NEW k \in (i + 1)..x PROVE k \in DOMAIN text /\ text[k].mark # "item"
  <2>1. k \in 1..x /\ k > i
    BY <1>1, <1>4
  <2> QED BY <1>1, <1>3, <2>1
<1>6. x \in ClauseFrom(i)
  BY <1>1, <1>4, <1>5 DEF ClauseFrom
<1>7. i \notin Headings
  <2> SUFFICES ASSUME i \in Headings PROVE FALSE
    OBVIOUS
  <2>1. CodesIn(ClauseFrom(i)) = {} /\ NamesIn(ClauseFrom(i)) = {}
    BY DEF Orderly
  <2> QED BY <1>6, <2>1 DEF CodesIn, NamesIn
<1>8. ASSUME NEW h \in Headings, h <= x PROVE h < i
  <2>1. h \in DOMAIN text /\ text[h].mark = "item"
    BY DEF Headings, Plain
  <2>2. h \in S
    BY <1>1, <1>8, <2>1
  <2> QED BY <1>1, <1>3, <1>4, <1>7, <1>8, <2>1, <2>2
<1>9. CASE \E h \in Headings : x \in SectionFrom(h)
  <2>1. PICK h \in Headings : x \in SectionFrom(h)
    BY <1>9
  <2>2. h \in Nat /\ h < x
    BY <1>1, <2>1 DEF SectionFrom, Headings
  <2>3. h < i
    BY <1>4, <1>8, <2>2
  <2>4. \A j \in (h + 1)..i : j \in (h + 1)..x
    BY <1>4, <2>2
  <2>5. i \in SectionFrom(h)
    BY <1>4, <2>1, <2>3, <2>4 DEF SectionFrom
  <2> QED BY <1>4, <1>6, <2>1, <2>5 DEF ClauseStarts, Conditions
<1>10. CASE \A h \in Headings : text[h].doc # text[x].doc
  <2>1. \A j \in (i + 1)..x : ~NewDocument(j)
    BY <1>5 DEF Plain
  <2>2. text[x].doc = text[i].doc
    BY <1>1, <1>4, <2>1, SameDocument
  <2> QED BY <1>4, <1>6, <1>10, <2>2 DEF ClauseStarts, Conditions
<1>11. x \notin Headings
  <2> SUFFICES ASSUME x \in Headings PROVE FALSE
    OBVIOUS
  <2> QED BY <1>4, <1>8
<1> QED BY <1>9, <1>10, <1>11 DEF Conditions

\* What is salvaged is a clause of what is said who may bid.
LEMMA SalvagedWhole ==
    ASSUME text \in Seq(LineRow), Plain, Orderly,
           \A i, j \in DOMAIN text : i <= j => text[i].doc <= text[j].doc,
           NEW covered, NEW s \in Salvaged(covered)
    PROVE  /\ \E i \in ClauseStarts : s.quote = ClauseFrom(i)
           /\ s.quote \subseteq Target /\ s.name = None /\ s \in SlotRow
<1>1. PICK C \in Clauses :
         /\ s = [type |-> "industry", name |-> None, quote |-> C]
         /\ CodesIn(C) # {}
  BY DEF Salvaged
<1>2. PICK i \in DOMAIN text : text[i].mark = "item" /\ C = ClauseFrom(i)
  BY ClauseOfText
<1>3. PICK l \in C : text[l].code # None
  BY <1>1 DEF CodesIn
<1>4. C \subseteq Target
  BY ClauseShown
<1>5. l \in Conditions \cup Headings
  BY <1>3, <1>4, TargetSaid
<1>6. text[l].mark \in {"item", "wrap"}
  BY <1>2, <1>3 DEF ClauseFrom
<1>7. PICK j \in ClauseStarts : l \in ClauseFrom(j)
  BY <1>3, <1>5, <1>6, InClause
<1>8. j \in DOMAIN text /\ text[j].mark = "item"
  BY DEF ClauseStarts, Conditions, SectionFrom
<1>9. i = j
  BY <1>2, <1>3, <1>7, <1>8, OneClause
<1>10. C \in SUBSET Nat
  BY <1>2 DEF ClauseFrom
<1>11. s.quote = C /\ s.name = None /\ s \in SlotRow
  BY <1>1, <1>10 DEF SlotRow
<1> QED BY <1>2, <1>4, <1>7, <1>9, <1>11

\* The code that a proviso stands behind is guarded.
LEMMA WaivedIsGuarded ==
    ASSUME text \in Seq(LineRow), Plain, Orderly, NEW i \in ClauseStarts,
           ClauseFrom(i) \subseteq Target, WaivedClause(i)
    PROVE  /\ Max(ClauseFrom(i)) \in ClauseFrom(i)
           /\ text[Max(ClauseFrom(i))].code \in CodesIn(ClauseFrom(i)) \cap GuardedCodes
<1> DEFINE C == ClauseFrom(i)
<1>1. i \in DOMAIN text /\ text[i].mark = "item" /\ Len(text) \in Nat /\ DOMAIN text = 1..Len(text)
  BY DEF ClauseStarts, Conditions, SectionFrom
<1>2. C \in SUBSET Nat /\ C \subseteq DOMAIN text /\ i \in C /\ IsFiniteSet(C)
  <2>1. C \in SUBSET Nat /\ C \subseteq DOMAIN text /\ i \in C
    BY <1>1 DEF ClauseFrom
  <2>2. IsFiniteSet(DOMAIN text)
    BY <1>1, FS_Interval
  <2> HIDE DEF C
  <2> QED BY <2>1, <2>2, FS_Subset
<1>3. PICK m \in C : m = Max(C)
  <2> HIDE DEF C
  <2> QED BY <1>2, GreatestNumber
<1>4. m \in DOMAIN text /\ m + 1 \in DOMAIN text /\ text[m + 1].waives /\ m \in Nat
  <2>1. m + 1 \in Conditions /\ text[m + 1].waives
    BY <1>3 DEF WaivedClause
  <2>2. m + 1 \in DOMAIN text
    BY <2>1 DEF Conditions, SectionFrom
  <2> QED BY <1>1, <1>2, <2>1, <2>2
<1>5. text[m + 1].mark = "note" /\ Continues(m + 1) /\ ~Continues(m)
  <2>1. text[m + 1].mark = "note"
    BY <1>4 DEF Plain
  <2>2. text[m].mark \in {"item", "wrap"}
    BY DEF ClauseFrom
  <2> QED BY <2>1, <2>2 DEF Continues
<1>6. m + 1 \in Lines(ChunkStart[m])
  <2>1. ChunkStart[m + 1] # m + 1
    <3> SUFFICES ASSUME ChunkStart[m + 1] = m + 1 PROVE FALSE
      OBVIOUS
    <3>1. m + 1 \in Chunks
      BY <1>4 DEF Chunks
    <3> QED BY <1>5, <3>1, ItemsBegin
  <2>2. ChunkStart[m + 1] = ChunkStart[(m + 1) - 1]
    BY <1>4, <2>1, ChunkOrder
  <2>3. (m + 1) - 1 = m
    BY <1>4
  <2> QED BY <1>4, <2>2, <2>3 DEF Lines
<1>7. Waives(Proviso(m + 1, ChunkStart[m]))
  <2>1. m + 1 \in Proviso(m + 1, ChunkStart[m])
    <3>1. m + 1 >= m + 1 /\ (m + 1 + 1)..(m + 1) = {}
      BY <1>4
    <3> QED BY <1>6, <3>1 DEF Proviso
  <2> QED BY <1>4, <2>1 DEF Waives
<1>8. text[m].code # None
  BY <1>3 DEF Orderly
<1>9. text[m].code \in CodesIn(C)
  BY <1>8 DEF CodesIn
<1>10. m \in Target
  OBVIOUS
<1>11. text[m].code \in GuardedCodes
  BY <1>5, <1>6, <1>7, <1>8, <1>10 DEF GuardedCodes
<1> QED BY <1>3, <1>9, <1>11

\* What a company has, or what may be waived, is not held against it.
LEMMA NotHeldAgainst ==
    ASSUME NEW r, r.type = "INDUSTRY", r.extension = None, NEW b,
           r.value \in b \/ (r.assessed /\ r.exception)
    PROVE  Judge(r, ProfileOf(b), Day).status # "UNSATISFIED"
<1> DEFINE p == ProfileOf(b)
           v == JudgeByType(r, p, Day)
<1>1. p.industries = b
  BY DEF ProfileOf
<1>2. v = JudgeIndustry(r, p)
  BY DEF JudgeByType
<1>3. r.value \in b => v.status # "UNSATISFIED"
  BY <1>1, <1>2 DEF JudgeIndustry, FromProfile, Decided, Verdict, Unsupported
<1> HIDE DEF v
<1>4. Unknown.status = "UNKNOWN" /\ Unsupported.status = "UNKNOWN"
  BY OpenIsUnknown
<1>5. Judge(r, p, Day) = IF Guarded(r) THEN Unsupported
                         ELSE IF r.assessed /\ r.exception /\ v.status # "SATISFIED" THEN Unknown
                         ELSE v
  BY DEF Judge, v
<1> QED BY <1>3, <1>4, <1>5

\* Nor is a certificate that it has.
LEMMA CertificateHeld ==
    ASSUME NEW r, r.type = "REGISTRATION_CERTIFICATION", r.extension = None,
           NEW n, r.value = {n}, r.scope.issuer = {}, NEW b, n \in b
    PROVE  Judge(r, ProfileOf(b), Day).status # "UNSATISFIED"
<1> DEFINE p == ProfileOf(b)
           v == JudgeByType(r, p, Day)
           item == [names |-> {{n}}, issuer |-> {}, issued |-> None, expires |-> None]
<1>1. item \in p.certifications
  BY DEF ProfileOf
<1>2. v = JudgeCertification(r, p, Day)
  BY DEF JudgeByType
<1>3. \E name \in item.names : CertificationMatch(name, r.value)
  BY DEF CertificationMatch, StringMatch
<1>4. IssuedBy(item, r.scope.issuer) /\ ValidOn(item, Day)
  BY DEF IssuedBy, ValidOn
<1>5. \E x \in p.certifications :
         /\ \E name \in x.names : CertificationMatch(name, r.value)
         /\ IssuedBy(x, r.scope.issuer) /\ ValidOn(x, Day)
  <2> HIDE DEF item, p
  <2> QED BY <1>1, <1>3, <1>4
<1>6. v = Unsupported \/ v = Decided(TRUE, "PROFILE")
  <2> HIDE DEF p
  <2> QED BY <1>2, <1>5 DEF JudgeCertification, FromProfile, Decided
<1>7. Unknown.status = "UNKNOWN" /\ Unsupported.status = "UNKNOWN"
  BY OpenIsUnknown
<1>8. v.status # "UNSATISFIED"
  BY <1>6, <1>7 DEF Decided, Verdict
<1> HIDE DEF v
<1>9. Judge(r, p, Day) \in {Unsupported, Unknown, v}
  BY DEF Judge, v
<1> QED BY <1>7, <1>8, <1>9

\* What else stays behind the guard, and what the guard sets.
LEMMA GuardSets ==
    ASSUME NEW type, NEW value, NEW s, NEW any, NEW r, r = Atom(type, value, s, any)
    PROVE  /\ Guard(r).scope.issuer = {}
           /\ type = "INDUSTRY" /\ value \in GuardedCodes => Guard(r).assessed /\ Guard(r).exception
<1>1. r.scope.issuer = {} /\ r.assessed /\ r.type = type /\ r.value = value
  BY DEF Atom
<1> DEFINE g == [r EXCEPT !.composite = TRUE, !.exception = TRUE]
<1>2. g.scope = r.scope /\ (g.assessed <=> r.assessed) /\ g.exception
  BY DEF Atom
<1>3. Guard(r) = IF r.type = "INDUSTRY" /\ r.value \in GuardedCodes THEN g ELSE r
  BY DEF Guard
<1> HIDE DEF g
<1> QED BY <1>1, <1>2, <1>3

\* What is read out of a quote that prints a code to go by: one of its codes, or a detail
\* that is no trade.
LEMMA SlotReads ==
    ASSUME NEW s, text \in Seq(LineRow), s.quote \in SUBSET DOMAIN text,
           IsFiniteSet(s.quote), ~Alternates(s.quote), SlotCodes(s.quote) # {},
           NEW r \in AdaptSlot(s)
    PROVE  /\ UnsafeClauseReason(GuardReads(s)) = None
           /\ \/ \E code \in CodesIn(s.quote) \cup ListedIn(s.quote) : r = Atom("INDUSTRY", code, s, FALSE)
              \/ /\ s.name # None /\ s.name \notin TradeName
                 /\ r = Atom("REGISTRATION_CERTIFICATION", {s.name}, s, FALSE)
<1> DEFINE codes == SlotCodes(s.quote)
           code == CHOOSE c \in codes : TRUE
           named == s.name # None
           asIndustry == codes # {} /\ (s.type = "registration" \/ s.name \in TradeName)
           registers == \E i \in s.quote : text[i].registers
<1>1. codes \subseteq CodesIn(s.quote) \cup ListedIn(s.quote) /\ IsFiniteSet(codes)
  BY SlotCodesFinite
<1>2. code \in codes
  <2>1. codes # {}
    OBVIOUS
  <2> HIDE DEF codes
  <2> QED BY <2>1
<1>3. Cardinality(codes) \in Nat /\ Cardinality(codes) # 0
  <2> HIDE DEF codes
  <2> QED BY <1>1, FS_CardinalityType, FS_EmptySet DEF codes
<1>4. UnsafeClauseReason(GuardReads(s)) = None
  BY DEF AdaptSlot
<1>5. r \in CASE s.type \in {"industry", "registration"} /\ Cardinality(codes) > 1 -> {}
              [] s.type = "industry" /\ Cardinality(codes) = 1 -> Industry(code, s)
              [] s.type = "industry" /\ codes = {} ->
                    IF named THEN Industry(s.name, s) ELSE {}
              [] s.type = "other" ->
                    IF Cardinality(LabelledIn(s.quote)) = 1 /\ registers
                    THEN Industry(code, s) ELSE {}
              [] OTHER ->
                    IF asIndustry THEN Industry(code, s)
                    ELSE IF named THEN {Atom("REGISTRATION_CERTIFICATION", {s.name}, s, FALSE)}
                    ELSE {}
  BY <1>4 DEF AdaptSlot
<1> HIDE DEF code
<1>6. \/ r \in Industry(code, s)
      \/ named /\ ~asIndustry /\ r = Atom("REGISTRATION_CERTIFICATION", {s.name}, s, FALSE)
  <2> HIDE DEF asIndustry, codes, registers
  <2>1. codes # {}
    BY DEF codes
  <2> QED BY <1>3, <1>5, <2>1
<1>7. r \in Industry(code, s) => r = Atom("INDUSTRY", code, s, FALSE)
  BY DEF Industry
<1> QED BY <1>1, <1>2, <1>4, <1>6, <1>7

\* A clause that can be reduced says no "or".
LEMMA SafeSaysNoOr ==
    ASSUME NEW s, UnsafeClauseReason(GuardReads(s)) = None
    PROVE  SaysOr(s.quote) = {}
<1> SUFFICES ASSUME SaysOr(s.quote) # {} PROVE FALSE
  OBVIOUS
<1>0. PICK cl : cl = GuardReads(s)
  OBVIOUS
<1> DEFINE hits == {n \in DOMAIN ComplexPatterns : Counts(cl, ComplexPatterns[n])}
<1>1. cl.marks = {[reason |-> "ALTERNATIVE_OR_EXCEPTION_RULE", place |-> "text"]}
  BY <1>0 DEF GuardReads, ClauseIn
<1>2. "ALTERNATIVE_OR_EXCEPTION_RULE" \in Found(cl)
  <2>1. [reason |-> "ALTERNATIVE_OR_EXCEPTION_RULE", place |-> "text"] \in StripDecorations(cl)
    BY <1>1 DEF StripDecorations, Decorations
  <2> QED BY <2>1 DEF Found
<1>3. 4 \in hits
  BY <1>2 DEF Counts, ComplexPatterns
<1>4. hits \subseteq DOMAIN ComplexPatterns /\ DOMAIN ComplexPatterns = 1..7
  BY DEF ComplexPatterns
<1>5. PICK n \in hits : \A k \in hits : n <= k
  <2>1. hits \in SUBSET Nat /\ hits # {}
    BY <1>3, <1>4
  <2> HIDE DEF hits
  <2> QED BY <2>1, LeastNumber
<1>6. (CHOOSE m \in hits : \A k \in hits : m <= k) \in hits
  <2> HIDE DEF hits
  <2> QED BY <1>5
<1>7. \/ UnsafeClauseReason(cl) = ComplexPatterns[CHOOSE m \in hits : \A k \in hits : m <= k]
      \/ UnsafeClauseReason(cl) = ComplexPatterns[5]
  BY <1>3 DEF UnsafeClauseReason, ComplexPatterns
<1> HIDE DEF hits
<1>8. UnsafeClauseReason(cl) \in ToSet(ComplexPatterns)
  BY <1>4, <1>6, <1>7 DEF ToSet
<1> QED BY <1>0, <1>8, ReadingAssumption

\* Requirements that are all mandatory and in groups that agree on their operator: a company
\* that is ineligible fails one that has to be met, or all of a group.
LEMMA IneligibleFailsGroup ==
    ASSUME NEW R, IsFiniteSet(R), \A r \in R : r.mandatory /\ r.group # NoGroup,
           \A q, r \in R : q.group = r.group => q.anyOf = r.anyOf,
           NEW S, S = [r \in R |-> S[r]], NEW rs, rs = SetToSeq(R), NEW a,
           DeriveOverallStatus(rs, [i \in DOMAIN rs |-> S[rs[i]]], a) = "ineligible"
    PROVE  \/ \E r \in R : ~r.anyOf /\ S[r] = "UNSATISFIED"
           \/ \E r \in R : r.anyOf /\ \A q \in R : q.group = r.group =>
                                          S[q] # "SATISFIED" /\ S[q] # "UNKNOWN"
<1> DEFINE st == [i \in DOMAIN rs |-> S[rs[i]]]
<1>1. /\ DOMAIN rs \subseteq Nat /\ \A i \in DOMAIN rs : rs[i] \in R
      /\ \A r \in R : \E i \in DOMAIN rs : rs[i] = r
  BY ListsAll
<1>2. "UNSATISFIED" \in GroupVerdicts(rs, st)
  BY DEF DeriveOverallStatus
<1>3. PICK k \in Mandatory(rs) : GroupVerdict(rs, st, GroupOf(rs, k)) = "UNSATISFIED"
  <2> HIDE DEF st
  <2> QED BY <1>2 DEF GroupVerdicts
<1>4. PICK G : G = GroupOf(rs, k)
  OBVIOUS
<1>5. k \in DOMAIN rs /\ k \in G /\ G \subseteq DOMAIN rs
  BY <1>3, <1>4 DEF Mandatory, GroupOf
<1>6. PICK r \in R : r = rs[k]
  BY <1>1, <1>5
<1>7. \A j \in G : rs[j].group = r.group /\ rs[j].anyOf = r.anyOf
  BY <1>1, <1>4, <1>5, <1>6 DEF GroupOf
<1>8. \A j \in DOMAIN rs : rs[j].group = r.group => j \in G
  BY <1>1, <1>4, <1>5, <1>6 DEF GroupOf, Mandatory
<1>9. Lead(G) \in G
  BY <1>1, <1>5, LeadIsMember
<1>10. PICK statuses : statuses = GroupStatuses(rs, st, G)
  OBVIOUS
<1>11. IF r.anyOf THEN Prevails(statuses, "SATISFIED", "UNSATISFIED") = "UNSATISFIED"
                  ELSE Prevails(statuses, "UNSATISFIED", "SATISFIED") = "UNSATISFIED"
  BY <1>3, <1>4, <1>7, <1>9, <1>10 DEF GroupVerdict
<1>12. \A j \in G : StatusOf(st, j) = S[rs[j]]
  BY <1>5 DEF StatusOf
<1>13. CASE r.anyOf
  <2>1. "SATISFIED" \notin statuses /\ "UNKNOWN" \notin statuses
    BY <1>11, <1>13 DEF Prevails
  <2>2. ASSUME NEW q \in R, q.group = r.group PROVE S[q] \in statuses
    <3>1. PICK j \in DOMAIN rs : rs[j] = q
      BY <1>1
    <3>2. j \in G
      BY <1>8, <2>2, <3>1
    <3> QED BY <1>10, <1>12, <3>1, <3>2 DEF GroupStatuses
  <2> QED BY <1>13, <2>1, <2>2
<1>14. CASE ~r.anyOf
  <2>1. "UNSATISFIED" \in statuses
    BY <1>11, <1>14 DEF Prevails
  <2>2. PICK j \in G : StatusOf(st, j) = "UNSATISFIED"
    BY <1>10, <2>1 DEF GroupStatuses
  <2>3. S[rs[j]] = "UNSATISFIED" /\ rs[j] \in R /\ ~rs[j].anyOf
    BY <1>1, <1>5, <1>7, <1>12, <1>14, <2>2
  <2> QED BY <2>3
<1> QED BY <1>13, <1>14

\* A slot whose quote is a whole clause that the model has been shown.
WholeSlot(s) ==
    /\ s \in SlotRow /\ IsFiniteSet(s.quote) /\ s.quote \subseteq Target
    /\ s.name = None \/ Printed(s.name, Target)
    /\ \E i \in ClauseStarts : s.quote = ClauseFrom(i)

\* Where a requirement comes from, if the model quotes whole clauses.
LEMMA Origin ==
    ASSUME ReadInv, Analysed, Plain, Orderly, Faithful, NEW r \in analysis.requirements
    PROVE  \E slots : \E s \in slots : \E q \in AdaptSlot(s) :
              /\ r = Guard(q) /\ WholeSlot(s)
              /\ \A p \in Canonical(slots) : Guard(p) \in analysis.requirements
<1> DEFINE slots == extraction.slots
           salvaged == Salvaged(Reached(slots, Canonical(slots)))
<1>1. /\ text \in Seq(LineRow) /\ analysis = AnalysisResult
      /\ Quoting(slots) /\ Quoting(salvaged)
      /\ \A s \in slots : Quotable(s)
  BY SalvagedQuoting DEF ReadInv, Analysed
<1>2. analysis.requirements = {Guard(p) : p \in Canonical(slots) \cup Canonical(salvaged)}
  BY <1>1 DEF AnalysisResult
<1>3. ASSUME NEW s \in slots PROVE WholeSlot(s)
  <2>1. Quotable(s) /\ IsFiniteSet(s.quote)
    BY <1>1 DEF Quoting
  <2>2. s.quote \subseteq Target
    BY <2>1 DEF Quotable, Cut, StandsIn, Squash, Target
  <2> QED BY <2>1, <2>2 DEF WholeSlot, Quotable, Faithful
<1>4. ASSUME NEW s \in salvaged PROVE WholeSlot(s)
  <2>1. IsFiniteSet(s.quote)
    BY <1>1 DEF Quoting
  <2>2. /\ \E i \in ClauseStarts : s.quote = ClauseFrom(i)
        /\ s.quote \subseteq Target /\ s.name = None /\ s \in SlotRow
    <3> HIDE DEF slots
    <3> QED BY <1>1, SalvagedWhole DEF ReadInv
  <2> HIDE DEF salvaged
  <2> QED BY <2>1, <2>2 DEF WholeSlot
<1>5. PICK origin \in {slots, salvaged} : \E p \in Canonical(origin) : r = Guard(p)
  <2> HIDE DEF slots, salvaged
  <2> QED BY <1>2
<1>q. PICK q \in Canonical(origin) : r = Guard(q)
  BY <1>5
<1> HIDE DEF slots, salvaged
<1>6. PICK s \in origin : q \in AdaptSlot(s)
  BY <1>1, <1>q, CanonicalFinite
<1>7. WholeSlot(s)
  BY <1>3, <1>4
<1>8. \A p \in Canonical(origin) : Guard(p) \in analysis.requirements
  BY <1>2
<1> QED BY <1>q, <1>6, <1>7, <1>8

\* Each of the alternatives that a slot quotes becomes a requirement of its group.
LEMMA AlternativeStays ==
    ASSUME NEW slots, NEW s \in slots, Alternates(s.quote), NEW c \in NamedIn(s.quote),
           c \notin TradeName,
           \A p \in Canonical(slots) : Guard(p) \in analysis.requirements
    PROVE  \E q \in analysis.requirements :
              /\ q.group = s /\ q.type = "INDUSTRY" /\ q.value = c /\ q.extension = None
              /\ c \in GuardedCodes => q.assessed /\ q.exception
<1> DEFINE atoms == UNION {AdaptSlot(t) : t \in slots}
<1>1. PICK any : any = TRUE
  OBVIOUS
<1>2. PICK p : p = Atom("INDUSTRY", c, s, any)
  OBVIOUS
<1>3. p.type = "INDUSTRY" /\ p.value = c /\ p.anyOf = any
  BY <1>2, Guarding
<1>4. p \in AdaptSlot(s)
  <2>1. AdaptSlot(s) = {Atom("INDUSTRY", d, s, TRUE) : d \in NamedIn(s.quote)}
    BY DEF AdaptSlot
  <2> QED BY <1>1, <1>2, <2>1
<1>5. p \in Canonical(slots)
  <2>1. p \in atoms /\ Canonical(slots) = Deduplicated(atoms)
    BY <1>4 DEF Canonical
  <2>2. p.anyOf /\ p.value \notin TradeName
    BY <1>1, <1>3
  <2> HIDE DEF atoms
  <2>3. p.anyOf => p \in Deduplicated(atoms)
    BY <1>3, <2>1, <2>2, IndustryStays
  <2> QED BY <2>1, <2>2, <2>3
<1>6. /\ Guard(p).group = s /\ Guard(p).type = "INDUSTRY" /\ Guard(p).value = c
      /\ Guard(p).extension = None
  BY <1>2, Guarding
<1>7. c \in GuardedCodes => Guard(p).assessed /\ Guard(p).exception
  BY <1>2, GuardSets
<1> QED BY <1>5, <1>6, <1>7

\* No bidder that has what every clause asks for fails a requirement that has to be met, or
\* all of a group.
LEMMA RequirementIsFair ==
    ASSUME ReadInv, Analysed, Plain, Orderly, Faithful, NEW b,
           \A i \in ClauseStarts : ~WaivedClause(i) =>
               HoldsCodes(b, i) /\ HoldsLists(b, i) /\ HoldsNames(b, i),
           NEW S, S = [r \in analysis.requirements |-> Judge(r, ProfileOf(b), Day).status],
           NEW r \in analysis.requirements
    PROVE  /\ r.group # NoGroup
           /\ ~r.anyOf => S[r] # "UNSATISFIED"
           /\ r.anyOf => \E q \in analysis.requirements :
                            q.group = r.group /\ S[q] \in {"SATISFIED", "UNKNOWN"}
<1>1. PICK slots : \E s \in slots : \E q \in AdaptSlot(s) :
         /\ r = Guard(q) /\ WholeSlot(s)
         /\ \A p \in Canonical(slots) : Guard(p) \in analysis.requirements
  BY Origin
<1>2. PICK s \in slots : \E q \in AdaptSlot(s) :
         /\ r = Guard(q) /\ WholeSlot(s)
         /\ \A p \in Canonical(slots) : Guard(p) \in analysis.requirements
  BY <1>1
<1>3. PICK q \in AdaptSlot(s) : r = Guard(q)
  BY <1>2
<1>4. WholeSlot(s) /\ \A p \in Canonical(slots) : Guard(p) \in analysis.requirements
  BY <1>2
<1>5. PICK i \in ClauseStarts : s.quote = ClauseFrom(i)
  BY <1>4 DEF WholeSlot
<1> DEFINE C == ClauseFrom(i)
<1>6. /\ text \in Seq(LineRow) /\ IsFiniteSet(C) /\ C \subseteq Target /\ C \subseteq DOMAIN text
      /\ \A i1, j1 \in DOMAIN text : i1 <= j1 => text[i1].doc <= text[j1].doc
  <2>1. C \subseteq Target
    BY <1>4, <1>5 DEF WholeSlot
  <2>2. Target \subseteq DOMAIN text
    BY DEF Target, Lines
  <2> QED BY <1>4, <1>5, <2>1, <2>2 DEF WholeSlot, ReadInv
<1>7. WaivedClause(i) => text[Max(C)].code \in CodesIn(C) \cap GuardedCodes
  BY <1>6, WaivedIsGuarded
<1>8. PICK type, value :
          /\ q = Atom(type, value, s, Alternates(s.quote))
          /\ type \in {"INDUSTRY", "REGISTRATION_CERTIFICATION"}
  BY SlotAtoms
<1>9. PICK any : any = Alternates(s.quote)
  OBVIOUS
<1>10. q = Atom(type, value, s, any)
  BY <1>8, <1>9
<1>11. r.group = s /\ r.anyOf = any
  BY <1>3, <1>10, Guarding
<1>12. r.group # NoGroup
  BY <1>4, <1>11, ReadingAssumption DEF WholeSlot
<1>13. CASE Alternates(C)
  <2>1. \E c \in CodesIn(C) : c \in b \/ c \in GuardedCodes
    <3>1. CASE WaivedClause(i)
      BY <1>7, <3>1
    <3>2. CASE ~WaivedClause(i)
      <4>1. HoldsCodes(b, i) /\ SaysOr(C) # {}
        BY <1>13, <3>2 DEF Alternates
      <4> QED BY <4>1 DEF HoldsCodes
    <3> QED BY <3>1, <3>2
  <2>a. NamedIn(C) = CodesIn(C)
    <3>1. NamedIn(C) # {}
      <4>1. PICK l \in C : NamedAt(l)
        <5>1. C \in SUBSET Nat
          BY <1>6
        <5> QED BY <1>6, <1>13, <5>1, TwoCodes
      <4> QED BY <4>1 DEF NamedIn, NamedAt, CodesIn
    <3>2. CodesIn(C) \cap Labelled \in {{}, CodesIn(C)}
      BY <1>13 DEF Orderly, Alternates
    <3> QED BY <3>1, <3>2 DEF NamedIn
  <2>2. PICK c \in CodesIn(C) : c \in NamedIn(C) /\ (c \in b \/ c \in GuardedCodes)
    BY <2>1, <2>a
  <2>3. c \notin TradeName
    <3>1. PICK l \in C : text[l].code = c
      BY DEF CodesIn
    <3> QED BY <1>6, <3>1 DEF Plain
  <2>4. PICK p \in analysis.requirements :
           /\ p.group = s /\ p.type = "INDUSTRY" /\ p.value = c /\ p.extension = None
           /\ c \in GuardedCodes => p.assessed /\ p.exception
    <3> HIDE DEF C
    <3> QED BY <1>4, <1>5, <1>13, <2>2, <2>3, AlternativeStays DEF C
  <2>5. S[p] # "UNSATISFIED"
    BY <2>2, <2>4, NotHeldAgainst
  <2>6. S[p] \in {"SATISFIED", "UNSATISFIED", "UNKNOWN"}
    BY <2>4, HeldIfSatisfied DEF JudgmentStatus
  <2>7. r.anyOf
    BY <1>5, <1>9, <1>11, <1>13
  <2> QED BY <1>11, <1>12, <2>4, <2>5, <2>6, <2>7
<1>14. CASE ~Alternates(C)
  <2>2. UnsafeClauseReason(GuardReads(s)) = None
    BY <1>5, <1>14 DEF AdaptSlot
  <2>1. SaysOr(C) = {}
    BY <1>5, <2>2, SafeSaysNoOr
  <2>3. SaysOr(C) = {} /\ SlotCodes(C) # {}
    BY <2>1 DEF Orderly
  <2>4. \/ \E code \in CodesIn(C) \cup ListedIn(C) : q = Atom("INDUSTRY", code, s, FALSE)
        \/ /\ s.name # None /\ s.name \notin TradeName
           /\ q = Atom("REGISTRATION_CERTIFICATION", {s.name}, s, FALSE)
    BY <1>5, <1>6, <1>14, <2>3, SlotReads
  <2>5. ~r.anyOf
    BY <1>5, <1>9, <1>11, <1>14
  <2>6. PICK no : no = FALSE
    OBVIOUS
  <2>7. CASE \E code \in CodesIn(C) \cup ListedIn(C) : q = Atom("INDUSTRY", code, s, FALSE)
    <3>1. PICK code \in CodesIn(C) \cup ListedIn(C) : q = Atom("INDUSTRY", code, s, no)
      BY <2>6, <2>7
    <3>2. r.type = "INDUSTRY" /\ r.value = code /\ r.extension = None
      BY <1>3, <3>1, Guarding
    <3>3. code \in GuardedCodes => r.assessed /\ r.exception
      BY <1>3, <3>1, GuardSets
    <3>4. code \in b \/ code \in GuardedCodes
      <4>1. CASE WaivedClause(i)
        <5>1. CodesIn(C) = CodesIn({Max(C)}) /\ ListedIn(C) = {}
          BY <2>3, <4>1 DEF Orderly
        <5>2. code = text[Max(C)].code
          BY <5>1 DEF CodesIn
        <5> QED BY <1>7, <4>1, <5>2
      <4>2. CASE ~WaivedClause(i)
        <5>1. HoldsCodes(b, i) /\ HoldsLists(b, i)
          BY <4>2
        <5> QED BY <2>3, <5>1 DEF HoldsCodes, HoldsLists
      <4> QED BY <4>1, <4>2
    <3>5. S[r] # "UNSATISFIED"
      BY <3>2, <3>3, <3>4, NotHeldAgainst
    <3> QED BY <1>12, <2>5, <3>5
  <2>8. CASE /\ s.name # None /\ s.name \notin TradeName
             /\ q = Atom("REGISTRATION_CERTIFICATION", {s.name}, s, FALSE)
    <3>1. q = Atom("REGISTRATION_CERTIFICATION", {s.name}, s, no)
      BY <2>6, <2>8
    <3>2. /\ r.type = "REGISTRATION_CERTIFICATION" /\ r.value = {s.name} /\ r.extension = None
          /\ r.scope.issuer = {}
      BY <1>3, <3>1, Guarding, GuardSets
    <3>3. PICK x \in Target : text[x].mark # "number" /\ text[x].name = s.name
      BY <1>4, <2>8 DEF WholeSlot, Printed, Squash
    <3>4. x \in DOMAIN text /\ x \in Conditions \cup Headings
      <4>1. x \in DOMAIN text
        BY DEF Target, Lines
      <4> QED BY <1>6, <4>1, TargetSaid
    <3>5. text[x].mark \in {"item", "wrap"}
      <4>1. ~Continues(x) /\ text[x] \in LineRow
        BY <1>6, <2>8, <3>3, <3>4 DEF Orderly
      <4> QED BY <4>1 DEF Continues, LineRow
    <3>6. PICK j \in ClauseStarts : x \in ClauseFrom(j)
      BY <1>6, <2>8, <3>3, <3>4, <3>5, InClause
    <3>7. s.name \in NamesIn(ClauseFrom(j))
      BY <2>8, <3>3, <3>6 DEF NamesIn
    <3>8. ~WaivedClause(j)
      BY <3>7 DEF Orderly
    <3>9. HoldsNames(b, j)
      BY <3>8
    <3>10. s.name \in b
      BY <2>8, <3>7, <3>9 DEF HoldsNames
    <3>11. S[r] # "UNSATISFIED"
      BY <3>2, <3>10, CertificateHeld
    <3> QED BY <1>12, <2>5, <3>11
  <2> QED BY <2>4, <2>7, <2>8
<1> QED BY <1>13, <1>14

\* As long as the model quotes whole clauses, whatever else it leaves out, repeats or takes
\* for something else (deduplicate.py:18-20).
LEMMA NoneIsExcluded ==
    ASSUME ReadInv, Analysed, Plain, Orderly, Faithful, NEW b,
           \A i \in ClauseStarts : ~WaivedClause(i) =>
               HoldsCodes(b, i) /\ HoldsLists(b, i) /\ HoldsNames(b, i)
    PROVE  Eligibility(b) # "ineligible"
<1> SUFFICES ASSUME Eligibility(b) = "ineligible" PROVE FALSE
  OBVIOUS
<1>1. PICK R : R = analysis.requirements
  OBVIOUS
<1>2. PICK rs : rs = SetToSeq(R)
  OBVIOUS
<1>3. PICK S : S = [r \in R |-> Judge(r, ProfileOf(b), Day).status]
  OBVIOUS
<1>4. analysis # None
  BY DEF Analysed
<1>5. DeriveOverallStatus(rs, [i \in DOMAIN rs |-> S[rs[i]]], analysis.status) = "ineligible"
  <2>1. IsFiniteSet(R)
    BY <1>1, <1>4, AnalysisAtoms
  <2>2. \A i \in DOMAIN rs : rs[i] \in R
    BY <1>2, <2>1, ListsAll
  <2>3. [i \in DOMAIN rs |-> S[rs[i]]] =
        [i \in DOMAIN rs |-> Judge(rs[i], ProfileOf(b), Day).status]
    BY <1>3, <2>2
  <2> QED BY <1>1, <1>2, <2>3 DEF Eligibility
<1>6. /\ IsFiniteSet(R) /\ \A r \in R : r.mandatory
      /\ \A q, r \in R : q.group = r.group => q.anyOf = r.anyOf
  BY <1>1, <1>4, AnalysisAtoms
<1>7. ASSUME NEW r \in R
      PROVE  /\ r.group # NoGroup
             /\ ~r.anyOf => S[r] # "UNSATISFIED"
             /\ r.anyOf => \E q \in R : q.group = r.group /\ S[q] \in {"SATISFIED", "UNKNOWN"}
  <2>1. /\ r \in analysis.requirements
        /\ S = [q \in analysis.requirements |-> Judge(q, ProfileOf(b), Day).status]
    BY <1>1, <1>3
  <2>2. /\ r.group # NoGroup
        /\ ~r.anyOf => S[r] # "UNSATISFIED"
        /\ r.anyOf => \E q \in analysis.requirements :
                         q.group = r.group /\ S[q] \in {"SATISFIED", "UNKNOWN"}
    BY <2>1, RequirementIsFair
  <2> QED BY <1>1, <2>2
<1>8. \/ \E r \in R : ~r.anyOf /\ S[r] = "UNSATISFIED"
      \/ \E r \in R : r.anyOf /\ \A q \in R : q.group = r.group =>
                                     S[q] # "SATISFIED" /\ S[q] # "UNKNOWN"
  <2>1. S = [r \in R |-> S[r]]
    BY <1>3
  <2>2. \A r \in R : r.mandatory /\ r.group # NoGroup
    BY <1>6, <1>7
  <2> QED BY <1>2, <1>5, <1>6, <2>1, <2>2, IneligibleFailsGroup
<1> QED BY <1>7, <1>8

\* Of any text, and whatever the model answers with whole quotes (deduplicate.py:18-20).
THEOREM NoBidderIsExcluded == ReadingSpec => []IneligibleMissesText
<1>1. ReadInv => IneligibleMissesText
  BY NoneIsExcluded DEF IneligibleMissesText
<1> QED BY <1>1, ReadHolds, PTL
=============================================================================
