SPECIFICATION SSHSpec
CONSTANTS
    a = a
    b = b
    ssh1 = ssh1
    ssh2 = ssh2
    ssh3 = ssh3
    Threads = {a, b}
    Processes = {ssh1, ssh2, ssh3}
    None = None
INVARIANTS
    SSHTypeOK
    NoReplyLeftOver
PROPERTIES
    ImplementsWorkerStream
    RequestsEnd
