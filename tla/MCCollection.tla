------------------------------ MODULE MCCollection ------------------------------
(***************************************************************************)
(* What is collected from the services of the procurement system, in       *)
(* windows and pages, by processes that die: the changes of notices by the *)
(* polling worker, codes by the two scripts.  The three share nothing but  *)
(* the file that both scripts write, so a behaviour belongs to one of them *)
(* ("part").                                                               *)
(***************************************************************************)
EXTENDS PollingWorker, CodeStore

VARIABLE part

TwoDatasets == [industry |-> 1, institution |-> 2]

ASSUME CodeAssumption == MasterAssumption /\ StoreAssumption

codeVars == <<masterVars, storeVars>>

CollectionInit ==
    /\ part \in {"notices", "licences", "catalogues"}
    /\ Init /\ MasterInit /\ StoreInit

CollectionNext ==
    /\ UNCHANGED part
    /\ \/ part = "notices" /\ Next /\ UNCHANGED codeVars
       \/ part = "licences" /\ MasterNext /\ UNCHANGED <<vars, storeVars>>
       \/ part = "catalogues" /\ StoreNext /\ UNCHANGED vars

CollectionSpec == CollectionInit /\ [][CollectionNext]_<<part, vars, codeVars>>

-----------------------------------------------------------------------------
(* Windows and jobs of the worker share the lock, the time of the cycle    *)
(* and the fate of the worker, and nothing else: what is left are          *)
(* behaviours that have either changes to collect or jobs to run.          *)

OneConcern == (published = {} /\ api = 0) \/ \A j \in Job : jobs[j] = None

\* Names are only compared with each other: the second entry has a new one, and so has
\* every change on the first day.  The first entry is a licence limit.
TwoNames ==
    /\ \A i \in DOMAIN listing : listing[i].name = IF i = 2 THEN "new" ELSE "old"
    /\ listing # <<>> => listing[1].code = 1 /\ listing[1].licensed
    /\ \A w \in Window : \A i \in DOMAIN catalogue[w] :
          /\ catalogue[w][i].name = IF catalogue[w][i].changed = 1 THEN "new" ELSE "old"
          /\ w[1] = "industry" => i = 1 /\ catalogue[w][i].code = 1
          /\ i = 1 /\ w[2] = 1 => catalogue[w][i].code = 1

Symmetry == Permutations(Worker) \cup Permutations(Job)
===============================================================================
