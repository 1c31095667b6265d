SPECIFICATION FairSpec
CONSTANTS
    MaxCalls = 2
    MaxGiven = 1
    Dicts = {{}, {"state"}}
    Topics <- MCTopics
INVARIANT TokenCarried
PROPERTY OnceAtMost
PROPERTY OthersSurvive
PROPERTY CallEnds
