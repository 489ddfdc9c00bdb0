SPECIFICATION Spec
CONSTANTS
    Calls = {c1}
    Gap = 0
    Cooldown = 0
    Interval = 1
    Listen = 0
    Reask = 0
    Grace = 0
    Late = 1
    Cap = 1
    MaxEvents = 2
    MaxRestarts = 1
INVARIANTS
    
    ArmedIsStored
PROPERTIES
    AnswerEndsQuestions
    RecordsSettle
CHECK_DEADLOCK FALSE
