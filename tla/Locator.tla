------------------------------ MODULE Locator ------------------------------
(***************************************************************************)
(* hsk_chain_get_locator: the heights whose hashes a getheaders message    *)
(* carries, ten or so near the tip and then ever sparser down to genesis.  *)
(***************************************************************************)
EXTENDS Integers, Sequences

CONSTANTS
    MaxHashes,   \* the hashes a getheaders message has room for (64)
    HashesSize   \* sizeof(msg->hashes): the room in bytes (2048)

\* The tip, ten steps of one and 33 that double cover every 32-bit height.
ASSUME LocatorAssumption == MaxHashes \in Nat /\ MaxHashes >= 44 /\ HashesSize \in Nat

VARIABLE tip     \* chain->height

\* Mutation: the step is never doubled.
NextStepFixed(step, i) == step

\* The step of the next iteration, when i hashes are written.
NextStep(step, i) == IF i > 10 THEN step * 2 ELSE step

\* The height that an iteration goes down to.
Down(h, step, i) == IF h - step < 0 \/ i = HashesSize - 1 THEN 0 ELSE h - step

\* The loop, from each triple of height, step and number of hashes written.
GetLocator(h) ==
    LET below[r \in (0..h) \X (Nat \ {0}) \X Nat] ==
            LET down == Down(r[1], r[2], r[3])
            IN  IF r[1] <= 0 THEN <<>>
                ELSE <<down>> \o below[<<down, NextStep(r[2], r[3]), r[3] + 1>>]
    IN  <<h>> \o below[<<h, 1, 1>>]

\* The locator of a chain of height h fits the message and walks strictly down
\* from the tip to the genesis header.
LocatorSound(h) ==
    LET loc == GetLocator(h)
        n   == Len(loc)
    IN  /\ n <= MaxHashes
        /\ loc[1] = h /\ loc[n] = 0
        /\ \A i \in 1..(n - 1) : loc[i] > loc[i + 1]

\* The locator fits the message, although the bound the loop tests is the
\* size of the array in bytes and never stops it, and it walks strictly down
\* from the tip to the genesis header, so a peer always finds a common header.
LocatorFits == LocatorSound(tip)

============================================================================
