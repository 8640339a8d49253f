---------------------------- MODULE MCCompanyProfile ----------------------------
(* Small instances of CompanyProfile. *)
EXTENDS CompanyProfile, TLC

\* Two days to a year.
HalfYear(d) == d \div 2

Symmetric == Permutations(Request) \cup Permutations(Code)

\* Requests that are in flight at the same time are about the same tables.
About(op) ==
    CASE op \in {"create", "fact"} -> {"facts"}
      [] op = "flags" -> {"flags"}
      [] op \in {"patch", "verify"} -> {"company"}
      [] op = "judge" -> {"judge"}
      [] op = "delete" -> {"company", "facts", "flags", "judge"}

SameTables ==
    \A r, q \in Request :
        request[r].op # Absent /\ request[q].op # Absent =>
            About(request[r].op) \cap About(request[q].op) # {}

\* One part of a profile at a time is other than at first.
Used(c) ==
    {f \in Fact : facts[f] # Absent} \cup
    {t \in {"flags", "company", "judge"} :
        \/ t = "flags" /\ flags[c] # Absent
        \/ t = "company" /\ \/ roles[c] # NoRows
                            \/ \E k \in DOMAIN industries[c] : industries[c][k]
        \/ t = "judge" /\ c \in pinned}

OneConcern == SameTables /\ \A c \in Company : Cardinality(Used(c)) <= 1
==================================================================================
