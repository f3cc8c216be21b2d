SPECIFICATION HttpSpec
CONSTANTS
    Requests = {1, 2, 3}
    Kinds = {"ipc_only", "ipc_and_http", "http_ipc", "tcp", "tcp_shutdown"}
    NoOne = NoOne
    PortCallers = {"serve", "app"}
    Ports = {p1, p2}
    Polls = 2
    Threads <- MCThreads
    MaxPortCalls <- MCMaxPortCalls
    Cap = 1
    MaxAsks <- MCMaxAsks
INVARIANTS
    HttpTypeOK
    AloneGetsOwn
PROPERTIES
    PortIsOwn
    CallsEnd
CHECK_DEADLOCK FALSE
