SPECIFICATION FairSpec
CONSTANTS
    Tasks = {t1, t2}
    Hours = {0, 4}
INVARIANTS TypeOK MarkMeansJob ConfirmedHolds
PROPERTIES MarkClears
