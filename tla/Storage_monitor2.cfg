\* Two clients that both start and stop monitoring: a start between the
\* other caller's store of false and its joinable() test hands that stop a
\* thread that keeps running.
CONSTANTS
    c1 = c1  c2 = c2  n1 = n1  k1 = k1  k2 = k2  v1 = v1  v2 = v2  b1 = b1  s1 = s1
    Clients <- MCClients
    MonitorCallers = {c1, c2}
    Names <- MCNames
    Keys <- MCKeys
    Vals <- MCVals
    Size <- MCSize
    Backups = {b1}
    Snapshots = {s1}
    MaxCalls = 3
    SizeMod = 8
    Absent = Absent  Missing = Missing  Empty = Empty  NoRet = NoRet  NoThread = NoThread
SPECIFICATION Spec
PROPERTY StopReturns
