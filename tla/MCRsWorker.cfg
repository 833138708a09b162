CONSTANTS
    r1 = r1
    r2 = r2
    r3 = r3
    r4 = r4
    None = None
    Req <- MCReq
    AnyType <- MCAnyType
    Handle = {"rs_async", "rs_quit_async"}
    Thread = {t1, t2}
SPECIFICATION MCSpec
INVARIANTS OneOwner AssertionsHold NoLostWakeup
PROPERTIES AnsweredOnSocket ServiceSpec
CHECK_DEADLOCK FALSE
