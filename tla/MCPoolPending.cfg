SPECIFICATION Spec
CONSTANTS
    p1 = p1
    p2 = p2
    n1 = n1
    r1 = r1
    r2 = r2
    Peer = {p1, p2}
    Encrypted = {}
    Honest = {p1, p2}
    MaxSize = 2
    Name = {n1}
    Req = {r1, r2}
    NameOf <- MCNameOf
    MaxRoot = 0
    None = None
PROPERTY RequestsCompleted
