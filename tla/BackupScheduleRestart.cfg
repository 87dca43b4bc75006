SPECIFICATION Spec
CONSTANTS
    Tasks = {t1}
    Hours = {4}
INVARIANT ScheduleSurvives
