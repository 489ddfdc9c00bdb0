SPECIFICATION TalkSpec
CONSTANTS
    N = 2
    Remote = TRUE
    Max = 2
INVARIANTS
    OneVoice
    
    DeafWhileSpeaking
PROPERTIES
    DialogueSettles
CHECK_DEADLOCK FALSE
