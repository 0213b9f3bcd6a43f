SPECIFICATION HubFairSpec
CONSTANTS
    c1 = c1
    server = server
    worker = worker
    Procs = {server, worker}
    Clients = {c1}
    Home <- AtServer
    RegisterCap = 1
    BroadcastCap = 2
    SendCap = 1
    MaxEvents = 3
INVARIANTS NoEcho
PROPERTIES EveryoneLeaves
CHECK_DEADLOCK FALSE
