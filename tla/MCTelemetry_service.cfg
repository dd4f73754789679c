\* Liveness of the path in service, under the fairness of the threads and the clock.
SPECIFICATION ServiceSpec
CONSTANTS
    Objects = {o1, o2, o3}
    Readers = {bacnet}
    Bacnet = bacnet
    None = None
    Commands = {0}
    StaleTimeout = 0
    AgeCap = 1
    MaxBlock = 2
PROPERTIES
    FreshDataReachesClients
    LinkLossIsNoticed
