CONSTANTS
    Ssrc = {audio, video}
    audio = audio
    video = video
    Half = 3
    FirstSeq = {0, 2}
    RocLimit = 2
SPECIFICATION Spec
INVARIANTS
    TypeOK
    StreamFollowsSink
    NearPacketsVerified
PROPERTY NonceFresh
