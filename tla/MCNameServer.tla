---------------------------- MODULE MCNameServer ----------------------------
(* Questions about Handshake names, one of which has servers with nested    *)
(* names and one bad data, an ICANN name, a blacklisted name, the root and  *)
(* the synthetic zone, from clients that take many records or few; two      *)
(* requests at the pool at a time.                                          *)
EXTENDS NameServer, TLC

CONSTANTS r1, r2

MCReq == {r1, r2}

Symmetry == Permutations(MCReq)

Ask(labels, tld, host, type, caps, dnssec, room) ==
    [labels |-> labels, tld |-> tld, host |-> host, type |-> type,
     caps |-> caps, dirty |-> FALSE, dnssec |-> dnssec, room |-> room]

MCQuestion == {
    Ask(1, "a", "", "NS", FALSE, TRUE, 4), Ask(1, "a", "", "DS", TRUE, FALSE, 9),
    Ask(2, "a", "plain", "A", FALSE, TRUE, 9), Ask(2, "a", "plain", "TXT", TRUE, TRUE, 4),
    Ask(3, "a", "SRV", "SRV", FALSE, TRUE, 3),
    Ask(2, "b", "plain", "A", FALSE, TRUE, 3), Ask(2, "b", "plain", "A", FALSE, TRUE, 9),
    Ask(2, "c", "plain", "A", FALSE, FALSE, 9), Ask(2, "com", "plain", "A", FALSE, TRUE, 9),
    Ask(1, "eth", "", "NS", FALSE, TRUE, 4),
    [Ask(2, "eth", "plain", "A", FALSE, FALSE, 9) EXCEPT !.dirty = TRUE],
    Ask(0, "", "", "NS", FALSE, TRUE, 9),
    Ask(2, "_synth", "plain", "A", FALSE, TRUE, 9),
    Ask(2, "_synth", "ptr4", "A", FALSE, TRUE, 9),
    Ask(3, "_synth", "plain", "A", FALSE, TRUE, 9) }

Res(servers, ds, txt) == [servers |-> servers, ds |-> ds, txt |-> txt]

MCTld == {"a", "b", "c", "com", "_synth"}

MCValues == [t \in MCTld |->
    IF t = "a" THEN {Res(<<>>, 0, 1), Res(<<"NS", "GLUE4", "OUTER4">>, 1, 0)}
    ELSE IF t = "b" THEN {Res(<<"NS", "NEST4">>, 0, 0)}
    ELSE IF t = "c" THEN {Bad} ELSE IF t = "com" THEN {Empty} ELSE {Absent}]

MCIcann == [t \in {"com"} |-> Res(<<"NS", "GLUE6">>, 0, 0)]

\* The two questions that the clients of a behaviour ask, in any order and
\* any number.
VARIABLE asked

MCInit == Init /\ \E p, q \in Question : asked = {p, q}

MCNext == NsStep(asked) /\ UNCHANGED asked

MCSpec == MCInit /\ [][MCNext]_<<vars, asked>>

=============================================================================
