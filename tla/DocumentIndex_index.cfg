SPECIFICATION FairSpec
CONSTANTS
    Documents = 2
    Extractor = {x1}
    Builder = {b1, b2}
    Reader = {r1}
    Asker = {a1, a2}
    MaxGeneration = 2
    MaxCrash = 1
INVARIANTS OneBuilder IndexWhole ReadyIsCurrent
PROPERTY EveryDocumentIsRead
CONSTRAINTS OneIndexAtATime StoresDiffer
