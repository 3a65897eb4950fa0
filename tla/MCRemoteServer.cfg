SPECIFICATION FairSpec
CONSTANTS
    Clients = {c1, c2}
    NoClient = NoClient
    Kinds = {"active", "check", "old", "bad", "foreign"}
    Scenarios = {{"Copy", "TakeOwnership", "Shutdown"}, {"Open", "Close", "InitResolver"}, {"Copy", "Break"}, {"Query", "killReplay"}, {"acceptFails"}}
    AppCapture = AppCapture
    MaxCopies = 1
    MaxQueue = 1
CHECK_DEADLOCK FALSE
INVARIANTS RemoteServerTypeOK ThreadsAreKnown FilesFollowSessions AnswersMatch
PROPERTIES ServiceSpec ServerGoesOn
