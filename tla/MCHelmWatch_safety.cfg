\* A release that keeps two revisions; five changes, two losses.
SPECIFICATION FairSpec
CONSTANTS
    Release = {web}
    web = web
    History = 2
    Redis = TRUE
    MaxChange = 5
    MaxDrop = 2
CHECK_DEADLOCK FALSE
INVARIANTS
    TypeOK
    
    OneLinkWhileShown
PROPERTIES
    RowsCatchUp
    ShownIsWatched
