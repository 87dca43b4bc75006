SPECIFICATION FairSpec
CONSTANTS
    Job = job
    Refreshes = {refresh}
    PostInit = {TRUE, FALSE}
INVARIANTS TypeOK FlagMeansOutage
PROPERTIES AlertsAlternate StatusSettles
