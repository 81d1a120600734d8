SPECIFICATION FairSpec
CONSTANTS
    Refs <- MCRefs
    Documents <- MCDocuments
INVARIANTS
    TypeOK
    PagesOnce
    OnlyReachableVisited
    VisitedIsReachable
    BoundedRecursion
    InheritedFromParent
PROPERTIES
    AnswersTheCatalogue
    Terminates
\* The walk stops when it has answered.
CHECK_DEADLOCK FALSE
