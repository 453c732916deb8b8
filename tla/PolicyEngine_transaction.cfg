CONSTANTS
    r1 = r1
    r2 = r2
    p1 = p1
    p2 = p2
    home = home
    any = any
    absent = absent
    foreign = foreign
    nobody = nobody
    nothing = nothing
    Runs = {r1, r2}
    NoRun = nobody
    NoGoal = nothing
    Absent = absent
    Foreign = foreign
    Anywhere = any
    Operator = home
    Accepted = {p1, absent, foreign}
    Policies <- MCPolicies
    Ports <- MCPorts
    Sources <- MCSources
    SSHAllowed <- MCSSHAllowed
    ServicePorts <- MCServicePorts
    Jobs <- TransactionJobs
    Hosts <- TransactionHosts
SPECIFICATION FairSpec
INVARIANTS
    MutualExclusion
PROPERTIES
    OnlyCleanHolderChanges
    ImplementsTransaction
    LockIsReturned
