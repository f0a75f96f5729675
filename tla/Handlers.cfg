\* Two workers, two requests at once.
SPECIFICATION Spec
CONSTANTS
    u1 = u1
    u2 = u2
    t1 = t1
    i1 = i1
    i2 = i2
    None = None
    AnyHost = AnyHost
    NoImage = NoImage
    Units = {u1, u2}
    Types = {t1}
    Hosts = {1, 2}
    Images = {i1, i2}
    Configs <- MCConfigs
    Sections <- MCSections
    Contents <- MCContents
    Handlers = {h1, h2}
    h1 = h1
    h2 = h2
    MaxBusy = 2
    MaxRequests = 3
SYMMETRY Renamed
CHECK_DEADLOCK FALSE
INVARIANTS CalmStartSettles LostOnlyToClean PageComplete PageIsOneList StatsAgree
