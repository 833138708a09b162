SPECIFICATION Spec
CONSTANTS
    Todo <- TodoSizes
    TheirKey = "listed key"
    Keys = {"listed key", "another key"}
    MaxMessage = 1
    Rotation = 3
    Message <- PeerMessage
    MaxSent = 3
    MaxBody = 1
    Grace = 1
    Stall = 3
    PingEvery = 1
    HeadersLimit = 1
    VerackLimit = 0
    ProofLimit = 0
    BlockLimit = 3
    ResendLimit = 2
INVARIANTS SealsFresh Authenticated
           HandledInOrder
           NoStallForgiven AsksAgain
PROPERTIES ChannelSpec PromptKept
CHECK_DEADLOCK FALSE
