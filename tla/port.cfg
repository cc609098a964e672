SPECIFICATION FairSpec
CONSTANTS
    t1 = t1
    t2 = t2
    d1 = d1
    d2 = d2
    p = p
    q = q
    Nobody = Nobody
    Task <- MCTask
    Device <- MCDevice
    Param <- MCParam
    Inst <- MCInst
    Encodable <- MCEncodable
    Body <- MCBody
    Jobs <- MCJobs
    MaxJobs = 2
CHECK_DEADLOCK FALSE
INVARIANTS
    TypeOK
    LockDiscipline
    OwedReplies
    UnsupportedIsTrue
PROPERTIES
    BatchIsolation
    ImplementsService
    JobsEnd
