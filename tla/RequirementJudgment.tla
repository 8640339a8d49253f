--------------------------- MODULE RequirementJudgment ---------------------------
(***************************************************************************)
(* One requirement is judged, and perhaps asked about, while a company     *)
(* completes its profile.                                                  *)
(***************************************************************************)
EXTENDS Askability, SequencesExt

CONSTANTS
    Day,             \* the reference date
    RegionName,      \* the names that a company gives its region
    IndustryCode, RoleName,
    People,          \* headcounts
    Work,            \* what a performance is about, its client and its amount
    Ref,             \* the ids of performances
    OnDay, InYear,   \* the dates, or only the years, on which performances end
    Certificate

\* The areas of ProfileCompleteness.
Area == {"region", "size", "industries", "total", "roles", "performances", "certifications"}
\* The size NONE is judged like one that is not known.
Size == {"MICRO", "SMALL", "MEDIUM", "MID_SIZED", "LARGE"}
Staff == [total : People, roles : Seq([name : RoleName, headcount : People])]

Performed(ref, work, date, year) ==
    [ref |-> ref, names |-> work.names, client |-> work.client,
     institution |-> work.institution, amount |-> work.amount, date |-> date, year |-> year]

\* A performance has a date or a year, never both and never neither (models.py:147).
Performances ==
    {Performed(ref, work, date, None) : ref \in Ref, work \in Work, date \in OnDay}
    \cup {Performed(ref, work, None, year) : ref \in Ref, work \in Work, year \in InYear}

ProfileSnapshot ==
    {p \in [region : RegionName \cup {None}, size : Size \cup {None},
            affiliate : BOOLEAN \cup {None}, grade : People \cup {None},
            industries : SUBSET IndustryCode, staff : Staff \cup {None},
            performances : SUBSET Performances, certifications : SUBSET Certificate,
            complete : [Area -> BOOLEAN]] :
        /\ IsFiniteSet(p.performances)
        /\ \A x, y \in p.performances : x.ref = y.ref => x = y}

\* Regions that have been merged are not merged again (_REGION_PARENT).
ASSUME ProfileAssumption ==
    /\ Day \in Int /\ YearLength \in Int /\ OnDay \subseteq Int /\ InYear \subseteq Int
    /\ \A work \in Work : work.amount \in Nat
    /\ None \notin OnDay /\ None \notin InYear /\ None \notin RegionName /\ None \notin Staff
    /\ {} \notin RegionName
    /\ \A r \in DOMAIN Parent : Parent[r] \notin DOMAIN Parent

VARIABLES rq, profile

ruleVars == <<rq, profile>>

\* What the schema of a requirement admits: its type, and the specs of extensions.
RequirementType ==
    {"REGION", "COMPANY_SIZE", "INDUSTRY", "STAFF", "PERFORMANCE_AMOUNT", "PERFORMANCE_COUNT",
     "EXPERIENCE_FIELD", "REGISTRATION_CERTIFICATION"}
Extension == {"sw_engineer_grade", "conglomerate_affiliate"}

\* A value that is no number cannot be compared with one, and counts as none.
ValueFits ==
    /\ rq.type \in {"PERFORMANCE_AMOUNT", "PERFORMANCE_COUNT"} => rq.value \in Nat \cup {None}
    /\ rq.period \in Nat \cup {None}

Judgment == Judge(rq, profile, Day)

-----------------------------------------------------------------------------
(* What completes a profile.  CompanyProfile has the edits themselves.     *)

Learn(field, value) == profile' = [profile EXCEPT ![field] = value] /\ UNCHANGED rq

\* A region is set, narrowed to one that was merged into it, or written out more fully.
LearnRegion ==
    \E r \in RegionName :
        /\ profile.region # None => \/ profile.region \subseteq r
                                    \/ IsPartOf(RegionKey(r), RegionKey(profile.region))
        /\ Learn("region", r)

LearnSize == profile.size = None /\ \E size \in Size : Learn("size", size)

\* The answers of the user, for the extensions.  Their rules judge already, and no
\* code fills them in yet (extensions.py:28-33).
LearnAffiliate == profile.affiliate = None /\ \E b \in BOOLEAN : Learn("affiliate", b)
LearnGrade == profile.grade = None /\ \E n \in People : Learn("grade", n)

\* Facts are added whether their area is declared complete or not.
AddIndustry == \E i \in IndustryCode : Learn("industries", profile.industries \cup {i})

LearnStaff ==
    /\ profile.staff = None
    /\ \E n \in People : Learn("staff", [total |-> n, roles |-> <<>>])

\* The roles are sorted by name.
AddRole ==
    /\ profile.staff # None
    /\ \E name \in RoleName, n \in People, i \in 1..(Len(profile.staff.roles) + 1) :
          /\ \A j \in DOMAIN profile.staff.roles : profile.staff.roles[j].name # name
          /\ Learn("staff", [profile.staff EXCEPT !.roles =
                                InsertAt(@, i, [name |-> name, headcount |-> n])])

AddPerformance ==
    \E x \in Performances :
        /\ \A y \in profile.performances : y.ref # x.ref
        /\ Learn("performances", profile.performances \cup {x})

\* A date takes the place of a year.
DatePerformance ==
    \E x \in profile.performances :
        /\ x.date = None
        /\ \E date \in OnDay :
              /\ FirstDay(x.year) <= date /\ date <= LastDay(x.year)
              /\ Learn("performances", (profile.performances \ {x}) \cup
                                           {[x EXCEPT !.date = date, !.year = None]})

AddCertification ==
    \E c \in Certificate : Learn("certifications", profile.certifications \cup {c})

DeclareComplete ==
    \E a \in Area :
        ~profile.complete[a] /\ Learn("complete", [profile.complete EXCEPT ![a] = TRUE])

CompleteProfile ==
    \/ LearnRegion \/ LearnSize \/ LearnAffiliate \/ LearnGrade \/ AddIndustry \/ LearnStaff
    \/ AddRole \/ AddPerformance \/ DatePerformance \/ AddCertification \/ DeclareComplete

Judged == rq.type \in RequirementType /\ rq.extension \in Extension \cup {None}

CompletionSpec ==
    /\ Judged /\ ValueFits /\ profile \in ProfileSnapshot
    /\ [][CompleteProfile]_ruleVars

\* A requirement stays what it is; a profile may change in any way.
RuleSpec == Judged /\ [][UNCHANGED rq]_ruleVars

-----------------------------------------------------------------------------
\* Amounts add up, and performances: the requirement asks for at least so much of them.
AsksForMore ==
    rq.type \in {"PERFORMANCE_AMOUNT", "PERFORMANCE_COUNT"} => rq.operator \in {">=", ">"}

\* Not for one of two roles that it may mean.
RivalRoles ==
    /\ rq.type = "STAFF" /\ profile.staff # None
    /\ Cardinality({i \in DOMAIN profile.staff.roles :
                        StringMatch(profile.staff.roles[i].name, rq.scope.role)}) > 1

\* Not for a region that matches by the words of its name although it is another one ...
LooseRegion ==
    /\ rq.type = "REGION" /\ rq.value # None /\ profile.region # None
    /\ StringMatch(profile.region, rq.value) /\ RegionKey(profile.region) # RegionKey(rq.value)

\* ... nor for one whose name is written out: its new key is that of no region of Parent.
Reworded ==
    /\ rq.type = "REGION" /\ profile.region # None
    /\ profile.region \subseteq profile'.region /\ profile'.region # profile.region

\* The company adds a fact to an area that it has declared complete, or that counts as
\* complete by default (judgment.py:29-36).
Contradicts ==
    \/ profile.complete["industries"] /\ profile'.industries # profile.industries
    \/ profile.complete["roles"] /\ profile.staff # None /\ profile'.staff # profile.staff
    \/ profile.complete["certifications"] /\ profile'.certifications # profile.certifications
    \/ /\ profile.complete["performances"]
       /\ {x.ref : x \in profile'.performances} # {x.ref : x \in profile.performances}

\* What the company adds to its profile, a date that it completes and a flag that it sets
\* never take a requirement that is met away from it; and what is held against it is
\* overturned only by a fact of an area that was said to be complete, so that nothing has
\* been held against it that was only unknown (judgment.py:386-465, 658-712).
FactsOverturnNothing ==
    [][rq # None /\ AsksForMore /\ ~RivalRoles' /\ ~LooseRegion /\ ~LooseRegion' /\ ~Reworded =>
           /\ Judgment.status = "SATISFIED" => Judgment'.status = "SATISFIED"
           /\ Judgment.status = "UNSATISFIED" /\ ~Contradicts =>
                  Judgment'.status = "UNSATISFIED"]_ruleVars

\* Stronger claims, which the code does not keep: nothing that the company adds overturns
\* a decision, though industries count as complete unless it says otherwise; ...
NoFactOverturns ==
    [][rq # None /\ rq.type \in {"INDUSTRY", "REGISTRATION_CERTIFICATION"} =>
           (Judgment.status # "UNKNOWN" => Judgment'.status = Judgment.status)]_ruleVars

\* ... and a region that is written out, or narrowed, stays where it is.
RegionsStay ==
    [][rq # None /\ rq.type = "REGION" /\ Judgment.status # "UNKNOWN" =>
           Judgment'.status = Judgment.status]_ruleVars

\* The notice leaves open whether amounts add up.
Disputable == rq.type = "PERFORMANCE_AMOUNT" /\ rq.scope.aggregation = "UNSPECIFIED"

\* What the user is asked can be compared: no profile makes an askable requirement come
\* out as unsupported, so that an answer is not asked for in vain (askability.py:35-105).
AskedIsComparable ==
    rq # None /\ Askable(rq) /\ ~Disputable => Judgment.reason # "UNSUPPORTED_REQUIREMENT"
===============================================================================
