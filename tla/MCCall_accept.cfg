CONSTANTS
    s1 = s1
    s2 = s2
    s3 = s3
    Session = {s1, s2, s3}
    NoSession = NoSession
    EnableVideo = TRUE
    MaxLookups = 2
SPECIFICATION Spec
PROPERTY AcceptsSession
