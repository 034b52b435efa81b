SPECIFICATION FairSpec
CONSTANTS
    e = e
    m1 = m1
    m2 = m2
    r1 = r1
    r2 = r2
    Editors = {e}
    Mcps = {m1, m2}
    Requests = {r1, r2}
    Deployments <- MCDeployments
    MaxEdits = 1
    DiskErrors = TRUE
    NoServer = NoServer
    NoBuild = NoBuild
    Missing = Missing
INVARIANTS FreshOrReported SearchExact
PROPERTY Answered
