CONSTANTS
    Worker = {w1}
    Screen = {u1}
    Profile = {p1, p2}
    Server = {m1, m2}
    Socket = {k1}
    NoSession = NoSession
    NoServer = NoServer
    NoProfile = NoProfile
    MaxReads = 1
SPECIFICATION FairSpec
INVARIANTS MInv OneReader NoOrphanedMutex SourcesAreNotWritten
PROPERTY MutexIsReturned
