SPECIFICATION TalkSpec
CONSTANTS
    N = 2
    Remote = TRUE
    Max = 2
PROPERTY PlaysItsSentence
CHECK_DEADLOCK FALSE
