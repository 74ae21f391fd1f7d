SPECIFICATION Spec
CONSTANTS
    Parts = {"deployment"}
    j1 = j1
    j2 = j2
    t1 = t1
    t2 = t2
    t3 = t3
    AllStale = AllStale
    Job = {j1, j2}
    Task = {t1, t2, t3}
    JobOf <- MCJobOf
    StaleMin = 0
    Habits = {{j1, j2}, {AllStale}}
    MaxFailures = 1
    Pid <- MCPid
    Started <- MCStarted
    Operator = {o1, o2}
    Regular = {o1}
    Cycle <- MCCycle
    MaxFaults = 1
    Arbitrator = {devnet, mainnet}
    Seeded = devnet
    NoGuest = NoGuest
    MaxMishaps = 2
INVARIANT DemoProvesTheConfig
