\* One client and one worker section, with a docker fault, an exit and a crash.
SPECIFICATION Spec
CONSTANTS
    c1 = c1
    w1 = w1
    i1 = i1
    i2 = i2
    Nil = Nil
    NoClient = NoClient
    Clients = {c1}
    Workers = {w1}
    Images = {i1, i2}
    MaxCount = 2
    Configs <- MCConfigs
    EmptyConfig <- MCEmpty
    MaxFaults = 1
    MaxExits = 1
    MaxCrashes = 1
INVARIANTS TypeOK WorkersStarted ClientsStarted OthersSwept NoSilentOrphan StopStops DeleteRemoves PanicKills
PROPERTIES WorkersReused DeletesSelected Answered
