CONSTANTS
    Accounts = {a1, a2}
    Names = {n1}
    Resources = {home, reposter}
    Reposters = {reposter}
    MAXLINKS = 1
SPECIFICATION FairSpec
INVARIANTS ToldAgrees
PROPERTIES ShownGetPosts MapCatchesUp
CHECK_DEADLOCK FALSE
