SPECIFICATION MCSpec
CONSTANTS
    p1 = p1
    p2 = p2
    n1 = n1
    r1 = r1
    r2 = r2
    Peer = {p1, p2}
    Encrypted = {p2}
    Honest = {p1}
    MaxSize = 2
    Name = {n1}
    Req = {r1, r2}
    NameOf <- MCNameOf
    MaxRoot = 1
    None = None
    Conn = {p1, p2}
    Query = {q1, q2, q3}
INVARIANTS CompletedOnce NeverStale NoFreedPartUsed
PROPERTIES StoredCompleted ThreadEndsFirst ShutdownCompletes
