------------------------------- MODULE Seeds -------------------------------
(***************************************************************************)
(* hsk_pool_set_seeds of src/src/pool.c: the list of the --seeds option,   *)
(* cut at its commas, and the address manager it fills.  A list is the     *)
(* sequence of the texts between the commas.                               *)
(***************************************************************************)
EXTENDS Naturals, Sequences

CONSTANTS
    Usable,     \* texts that hsk_addr_from_string takes, as their addresses
    Useless     \* texts that it refuses, or that are longer than HSK_MAX_HOST

VARIABLE seeds  \* the list

Empty == "empty"
Text == Usable \cup Useless \cup {Empty}

ASSUME SeedAssumption ==
    /\ Usable \cap Useless = {}
    /\ Empty \notin Usable \cup Useless

\* A seed is parsed from all that lies between start and this comma; a text
\* with a comma in it is no address.
Parses(text) == Len(text) = 1 /\ text[1] \in Usable

\* hsk_addrman_add_addr: an address that is known already is refused, unless
\* it gains a reference by chance.
Added(a, known, lucky) == a \notin known \/ lucky

\* Mutation: the start of the next seed stays at that of the first.
NextPieceStuck(s, list, i, lucky) ==
    LET text == SubSeq(list, s.start, i)
    IN  IF text = <<Empty>>
        THEN [s EXCEPT !.start = i + 1]
        ELSE IF Parses(text) /\ Added(text[1], s.known, lucky)
        THEN [s EXCEPT !.known = @ \cup {text[1]}]
        ELSE s

\* The body of the loop, at the comma behind text number i.
NextPiece(s, list, i, lucky) ==
    LET text == SubSeq(list, s.start, i)
    IN  IF text = <<Empty>>
        THEN [s EXCEPT !.start = i + 1]
        ELSE IF Parses(text) /\ Added(text[1], s.known, lucky)
        THEN [start |-> i + 1, known |-> s.known \cup {text[1]}]
        ELSE s

\* The addresses known afterwards; luck holds the positions where a known
\* address gains a reference.
SetSeeds(list, known, luck) ==
    LET at[i \in 0..Len(list)] ==
            IF i = 0 THEN [start |-> 1, known |-> known]
            ELSE NextPiece(at[i - 1], list, i, i \in luck)
    IN  at[Len(list)].known

-----------------------------------------------------------------------------
\* Every list.
MoreSeeds == \E text \in Text : seeds' = Append(seeds, text)
SeedsSpec == seeds = <<>> /\ [][MoreSeeds]_seeds

\* The text cannot be added: it is no address, or one that is known already.
SeedRefused(list, known, luck, i) ==
    \/ list[i] \in Useless
    \/ /\ list[i] \in known \cup {list[j] : j \in 1..(i - 1)}
       /\ list[i] # Empty /\ i \notin luck

\* hsk_pool_set_seeds makes nothing known but seeds of the list, each read
\* between its own two commas, and forgets nothing.  A list in which no text is
\* refused is taken whole, however many commas follow each other and whatever
\* was known before.
SeedsTaken ==
    seeds # <<>> =>
    \A known \in SUBSET Usable, luck \in SUBSET (DOMAIN seeds) :
        LET given == {seeds[i] : i \in DOMAIN seeds} \cap Usable
            after == SetSeeds(seeds, known, luck)
        IN  /\ known \subseteq after /\ after \subseteq known \cup given
            /\ (\A i \in DOMAIN seeds : ~SeedRefused(seeds, known, luck, i))
                  => given \subseteq after

\* "--seeds <seed1,seed2,...> Extra seeds to connect to on the P2P network":
\* every usable seed of the list is known afterwards.
AllSeedsAdded ==
    seeds # <<>> =>
    \A known \in SUBSET Usable : \A i \in DOMAIN seeds :
        seeds[i] \in Usable => seeds[i] \in SetSeeds(seeds, known, {})

=============================================================================
