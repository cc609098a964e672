SPECIFICATION FairSpec
CONSTANTS
    a = a
    b = b
    x = x
    y = y
    tty = tty
    lent = lent
    Nobody = Nobody
    Absent = Absent
    Solo = Solo
    Task <- MCTask
    Name <- MCName
    Owned <- MCOwned
    Lent <- MCLent
    BusLent = {}
    Policy = "raise"
    Requests <- MCRequests
    MaxOps = 3
    MaxPolls = 0
CHECK_DEADLOCK FALSE
INVARIANT ControllersUsable
