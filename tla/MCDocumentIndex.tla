---- MODULE MCDocumentIndex ----
\* TLC instance of DocumentIndex: requests of one kind are interchangeable, and the two indexes, which
\* share nothing but the documents, are explored one beside the documents at a time.  An object store
\* that has all its objects does what a directory does.
EXTENDS DocumentIndex, TLC

Symmetric == Permutations(Builder) \cup Permutations(Asker)

GenerationsUntouched == /\ \A b \in Builder : builder[b].phase = "idle"
                        /\ \A r \in Reader : reader[r].phase = "idle"
                        /\ Begun = {} /\ lock = Free
InPlaceUntouched == vectors = Absent /\ manifest = Absent /\ \A a \in Asker : asker[a].phase = "idle"
OneIndexAtATime == GenerationsUntouched \/ InPlaceUntouched
StoresDiffer == backend = "LOCAL" \/ \E d \in Doc : file[d] = "missing"
====
