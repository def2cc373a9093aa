CONSTANTS
    s1 = s1
    s2 = s2
    Session = {s1, s2}
    NoSession = NoSession
    MaxLookups = 1
SPECIFICATION LiveSpec
INVARIANTS
    TypeOK
    NoCrossedCalls
PROPERTIES
    SpeaksAfterAnswer
    EndsTogether
