----------------------------- MODULE JudgmentRules -----------------------------
(***************************************************************************)
(* The judgment of a single requirement from the profile of a company      *)
(* (qualification/rules/judgment.py, ai/extensions.py).                    *)
(*                                                                         *)
(* A requirement is a record with the fields type, operator, value, scope, *)
(* composite (condition_complexity), assessed (scope.guard), exception     *)
(* (scope.guard_reason), clause (what its text says, for ClauseSafety),    *)
(* anyOf (group_operator), extension and period.  A profile has a field    *)
(* for each of its areas and the flags of ProfileCompleteness.             *)
(*                                                                         *)
(* A name is the set of its words, and a name is contained in another one  *)
(* if its words are.  Evidence, references to the profile and wording are  *)
(* left out.                                                               *)
(***************************************************************************)
EXTENDS ClauseSafety, Integers

CONSTANTS
    Digits,          \* the words that are numbers: the identity of a standard
    Adornment,      \* words beside the name of a region ("former", "area of")
    Parent,          \* _REGION_PARENT: the regions others have been merged into
    YearLength       \* dates are numbers; year y is the dates YearLength * y + 1 and on

Verdict(status, basis, reason) == [status |-> status, basis |-> basis, reason |-> reason]
Unknown == Verdict("UNKNOWN", "NONE", "INSUFFICIENT_DATA")
Unsupported == Verdict("UNKNOWN", "NONE", "UNSUPPORTED_REQUIREMENT")

Decided(matched, basis) ==
    IF matched THEN Verdict("SATISFIED", basis, "RULE_MATCH")
               ELSE Verdict("UNSATISFIED", basis, "RULE_MISMATCH")

\* A slip: what is missing counts as if the company did not have it.
MissingIsNegative(matched, complete) == Decided(matched, "PROFILE")

\* Nothing is held against a company while that part of its profile may be incomplete.
FromProfile(matched, complete) ==
    IF matched \/ complete THEN Decided(matched, "PROFILE") ELSE Unknown

-----------------------------------------------------------------------------
(* Comparisons *)

Compare(observed, operator, expected) ==
    IF expected = None THEN "unclear"
    ELSE CASE operator = ">=" -> IF observed >= expected THEN "yes" ELSE "no"
           [] operator = ">" -> IF observed > expected THEN "yes" ELSE "no"
           [] operator = "<=" -> IF observed <= expected THEN "yes" ELSE "no"
           [] operator = "<" -> IF observed < expected THEN "yes" ELSE "no"
           [] operator \in {"=", "MATCH"} -> IF observed = expected THEN "yes" ELSE "no"
           [] OTHER -> "unclear"

\* The lower bound comes first, and what it says, unless it is met, is said of the range.
CompareRange(observed, scope) ==
    LET lower == IF scope.min = None THEN "yes"
                 ELSE Compare(observed, scope.minOperator, scope.min)
        upper == IF scope.max = None THEN "yes"
                 ELSE Compare(observed, scope.maxOperator, scope.max)
    IN  IF scope.min = None /\ scope.max = None THEN "unclear"
        ELSE IF lower # "yes" THEN lower ELSE upper

StringMatch(a, b) == a # {} /\ b # {} /\ (a \subseteq b \/ b \subseteq a)

\* Names that differ in their separators: the number must be held, and a word shared.
CertificationMatch(held, required) ==
    \/ StringMatch(held, required)
    \/ /\ required \cap Digits # {}
       /\ required \cap Digits \subseteq held
       /\ (held \cap required) \ Digits # {}

\* The rules that compare texts need an operator and a value.
Matchable(rq) == rq.operator \in {"MATCH", "="} /\ rq.value # None

-----------------------------------------------------------------------------
(* Region and company size *)

\* A name without the decoration around it; one that is nothing else stays.
RegionKey(name) == IF name \subseteq Adornment THEN name ELSE name \ Adornment

\* Is the region of one key a part of that of another one?
IsPartOf(part, whole) == part \in DOMAIN Parent /\ Parent[part] = whole

\* A name that contains another one matches it, whatever the keys.
RegionRelation(observed, required) ==
    LET here == RegionKey(observed)
        there == RegionKey(required)
    IN  IF observed = {} \/ required = {} THEN "none"
        ELSE IF StringMatch(observed, required) \/ here = there THEN "match"
        ELSE IF IsPartOf(here, there) THEN "contained"
        ELSE IF IsPartOf(there, here) THEN "too_coarse"
        ELSE "none"

JudgeRegion(rq, profile) ==
    IF profile.region = None THEN Unknown
    ELSE IF ~Matchable(rq) THEN Unsupported
    ELSE LET relation == RegionRelation(profile.region, rq.value)
         IN  IF relation = "too_coarse" THEN Unknown
             ELSE FromProfile(relation \in {"match", "contained"}, profile.complete.region)

SizeAliases ==
    [micro |-> {"MICRO"}, small |-> {"MICRO", "SMALL"}, smaller |-> {"MICRO", "SMALL", "MEDIUM"},
     middle |-> {"MID_SIZED"}, large |-> {"LARGE"}]

\* A value that names none of the sizes is compared as a text.
SizeMatches(size, value) ==
    LET named == {alias \in DOMAIN SizeAliases : value = {alias}}
    IN  IF named = {} THEN StringMatch({size}, value)
        ELSE \E alias \in named : size \in SizeAliases[alias]

\* Whether the company belongs to a large business group is asked separately, and does
\* not help a company whose size is wrong.
JudgeCompanySize(rq, profile) ==
    LET matched == SizeMatches(profile.size, rq.value)
        bySize == IF rq.scope.excludes THEN ~matched ELSE matched
        asksGroup == rq.scope.affiliates
    IN  IF profile.size = None THEN Unknown
        ELSE IF ~Matchable(rq) THEN Unsupported
        ELSE IF bySize /\ asksGroup /\ profile.affiliate = None THEN Unknown
        ELSE FromProfile(bySize /\ (asksGroup => ~profile.affiliate), profile.complete.size)

-----------------------------------------------------------------------------
(* Industries and staff *)

JudgeIndustry(rq, profile) ==
    IF ~Matchable(rq) THEN Unsupported
    ELSE FromProfile(rq.value \in profile.industries, profile.complete.industries)

\* The roles are sorted by name, and the first one that matches is compared.
JudgeStaff(rq, profile) ==
    LET roles == IF profile.staff = None THEN <<>> ELSE profile.staff.roles
        matches == {i \in DOMAIN roles : StringMatch(roles[i].name, rq.scope.role)}
        first == roles[CHOOSE i \in matches : \A j \in matches : i <= j]
        compared == IF rq.operator = "MATCH" /\ rq.value # None
                    THEN IF StringMatch(first.name, rq.value) THEN "yes" ELSE "no"
                    ELSE Compare(first.headcount, rq.operator, rq.value)
        total == Compare(profile.staff.total, rq.operator, rq.value)
    IN  IF profile.staff = None THEN Unknown
        ELSE IF rq.scope.role = {}
        THEN IF total = "unclear" THEN Unsupported
             ELSE FromProfile(total = "yes", profile.complete.total)
        ELSE IF matches = {} THEN FromProfile(FALSE, profile.complete.roles)
        ELSE IF compared = "unclear" THEN Unsupported
        ELSE FromProfile(compared = "yes", profile.complete.roles)

-----------------------------------------------------------------------------
(* Performances *)

FirstDay(year) == YearLength * year + 1
LastDay(year) == YearLength * (year + 1)

\* Does the performance fall into the period that ends on the reference date?
When(item, rq, day) ==
    LET from == IF rq.period = None THEN 0 ELSE day - rq.period
    IN  IF item.date # None
        THEN IF item.date > day \/ item.date < from THEN "outside" ELSE "inside"
        ELSE IF item.year = None THEN "ambiguous"
        ELSE IF FirstDay(item.year) > day \/ LastDay(item.year) < from THEN "outside"
        ELSE IF LastDay(item.year) > day \/ FirstDay(item.year) < from THEN "ambiguous"
        ELSE "inside"

\* A client is the one that is named, or, where public institutions are asked for, one
\* that has the code of an institution.
OfClient(item, rq) ==
    \/ rq.scope.client = {}
    \/ StringMatch(item.client, rq.scope.client)
    \/ rq.scope.client = {"public"} /\ item.institution

InField(item, field) == \E name \in item.names : StringMatch(name, field)

Considered(rq, profile) ==
    {item \in profile.performances :
        (rq.scope.field = {} \/ InField(item, rq.scope.field)) /\ OfClient(item, rq)}

Candidates(rq, profile, day) ==
    {item \in Considered(rq, profile) : When(item, rq, day) = "inside"}

Ambiguous(rq, profile, day) ==
    \E item \in Considered(rq, profile) : When(item, rq, day) = "ambiguous"

\* A performance whose date is open may still be the one that counts.
FromPerformances(matched, rq, profile, day) ==
    FromProfile(matched, profile.complete.performances /\ ~Ambiguous(rq, profile, day))

\* The sum of the amounts, counted unit by unit; a performance has its ref to itself.
Units(items) == UNION {{item.ref} \X (1..item.amount) : item \in items}
Total(items) == Cardinality(Units(items))

Greatest(items) ==
    (CHOOSE x \in items : \A y \in items : y.amount <= x.amount).amount

\* If the notice does not say whether amounts add up, both readings must agree.
JudgePerformanceAmount(rq, profile, day) ==
    LET items == Candidates(rq, profile, day)
        result(amount) == IF rq.operator = "RANGE" THEN CompareRange(amount, rq.scope)
                                                   ELSE Compare(amount, rq.operator, rq.value)
        compared == result(IF rq.scope.aggregation = "SUM" THEN Total(items) ELSE Greatest(items))
        disputed == /\ rq.scope.aggregation = "UNSPECIFIED" /\ Cardinality(items) > 1
                    /\ result(Total(items)) # compared
    IN  IF items = {} THEN FromPerformances(FALSE, rq, profile, day)
        ELSE IF compared = "unclear" THEN Unsupported
        ELSE IF compared = "no" /\ Ambiguous(rq, profile, day) THEN Unknown
        ELSE IF disputed THEN Unsupported
        ELSE FromPerformances(compared = "yes", rq, profile, day)

JudgePerformanceCount(rq, profile, day) ==
    LET compared == Compare(Cardinality(Candidates(rq, profile, day)), rq.operator, rq.value)
    IN  IF compared = "unclear" THEN Unsupported
        ELSE FromPerformances(compared = "yes", rq, profile, day)

JudgeExperienceField(rq, profile, day) ==
    IF ~Matchable(rq) THEN Unsupported
    ELSE FromPerformances(\E item \in Candidates(rq, profile, day) : InField(item, rq.value),
                          rq, profile, day)

-----------------------------------------------------------------------------
(* Registrations, licences and certifications *)

ValidOn(item, day) ==
    /\ item.expires = None \/ (item.expires # None /\ item.expires >= day)
    /\ item.issued = None \/ (item.issued # None /\ item.issued <= day)

IssuedBy(item, issuer) == issuer = {} \/ StringMatch(item.issuer, issuer)

JudgeCertification(rq, profile, day) ==
    IF ~Matchable(rq) THEN Unsupported
    ELSE FromProfile(\E item \in profile.certifications :
                        /\ \E name \in item.names : CertificationMatch(name, rq.value)
                        /\ IssuedBy(item, rq.scope.issuer) /\ ValidOn(item, day),
                     profile.complete.certifications)

-----------------------------------------------------------------------------
(* Extensions: what is asked only where a notice asks for it *)

\* spec_for_requirement: engineers by grade, or membership in a business group where no
\* size is named beside it.  Both are known from answers only.
JudgeExtension(rq, profile) ==
    CASE rq.extension = "sw_engineer_grade" ->
            IF profile.grade = None THEN Unknown
            ELSE Decided(profile.grade >= rq.value, "USER_ANSWER")
      [] rq.extension = "conglomerate_affiliate" ->
            IF profile.affiliate = None THEN Unknown
            ELSE Decided(~profile.affiliate, "USER_ANSWER")

JudgeByType(rq, profile, day) ==
    IF rq.extension # None THEN JudgeExtension(rq, profile)
    ELSE CASE rq.type = "REGION" -> JudgeRegion(rq, profile)
           [] rq.type = "COMPANY_SIZE" -> JudgeCompanySize(rq, profile)
           [] rq.type = "INDUSTRY" -> JudgeIndustry(rq, profile)
           [] rq.type = "STAFF" -> JudgeStaff(rq, profile)
           [] rq.type = "PERFORMANCE_AMOUNT" -> JudgePerformanceAmount(rq, profile, day)
           [] rq.type = "PERFORMANCE_COUNT" -> JudgePerformanceCount(rq, profile, day)
           [] rq.type = "EXPERIENCE_FIELD" -> JudgeExperienceField(rq, profile, day)
           [] rq.type = "REGISTRATION_CERTIFICATION" -> JudgeCertification(rq, profile, day)

\* A clause that extraction has not assessed is read again.
Guarded(rq) ==
    \/ rq.composite /\ ~(rq.assessed /\ rq.exception)
    \/ ~rq.assessed /\ UnsafeClauseReason(rq.clause) # None

\* A code with an exception attached: who holds it is fine, the others may be excepted.
Judge(rq, profile, day) ==
    LET verdict == JudgeByType(rq, profile, day)
    IN  IF Guarded(rq) THEN Unsupported
        ELSE IF rq.assessed /\ rq.exception /\ verdict.status # "SATISFIED" THEN Unknown
        ELSE verdict
===============================================================================
