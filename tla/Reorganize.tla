----------------------------- MODULE Reorganize -----------------------------
(***************************************************************************)
(* hsk_chain_find_fork and hsk_chain_reorganize as their loops, which walk *)
(* from header to header through the prev_block field.  Module Chain has   *)
(* what they come to; ReorganizeAsCoded compares the two.                  *)
(*                                                                         *)
(* The loops run before the competitor b, of height n, is stored.          *)
(***************************************************************************)
EXTENDS Chain

\* hsk_map_get(&chain->hashes, c->prev_block), None for NULL.
Back(c) == IF Prev(c) \in hashes THEN Prev(c) ELSE None

\* The height field of a stored header or of the competitor.
Level(c, b, n) == IF c = b THEN n ELSE hgt[c]

\* hsk_chain_find_fork(tip, b): None when a walk runs off the map.
FindFork(b, n) ==
    LET from[r \in (hashes \cup {None}) \X (hashes \cup {b, None})] ==
            IF None \in {r[1], r[2]} THEN None
            ELSE IF r[1] = r[2] THEN r[1]
            ELSE IF Level(r[2], b, n) > hgt[r[1]] THEN from[<<r[1], Back(r[2])>>]
            ELSE from[<<Back(r[1]), r[2]>>]
    IN  from[<<tip, b>>]

\* The headers from c down to the fork, as hsk_chain_reorganize lists them.  A
\* walk that runs off the map, where the code asserts, lists None.
Downto(c, fork, b) ==
    LET list[d \in hashes \cup {b, None}] ==
            IF d = fork THEN {}
            ELSE {d} \cup (IF d = None THEN {} ELSE list[Back(d)])
    IN  list[c]

\* The heights of the disconnected headers are deleted, then those of the
\* connected ones are set; hsk_chain_insert sets that of the competitor.
Rewritten(b, n) ==
    LET fork    == FindFork(b, n)
        removed == {hgt[c] : c \in Downto(tip, fork, b)}
        added   == Downto(b, fork, b)
    IN  [i \in (DOMAIN heights \ removed) \cup {Level(c, b, n) : c \in added} |->
            IF \E c \in added : Level(c, b, n) = i
            THEN CHOOSE c \in added : Level(c, b, n) = i
            ELSE heights[i]]

\* Whenever the tip is replaced, the two walks of hsk_chain_find_fork meet in a
\* stored header, as hsk_chain_reorganize asserts, and the index of heights
\* becomes what the loops make of it.
ReorganizeAsCoded ==
    [][ tip' # tip =>
          /\ FindFork(tip', hgt'[tip']) \in hashes
          /\ heights' = Rewritten(tip', hgt'[tip']) ]_vars

=============================================================================
