------------------------------ MODULE TimeData ------------------------------
(***************************************************************************)
(* src/src/timedata.c: the clock offset taken from the version messages of *)
(* peers, as the median of one sample per address.  Samples, differences   *)
(* of 64-bit times, are unbounded integers here.                           *)
(***************************************************************************)
EXTENDS Integers, Sequences, FiniteSets

CONSTANTS
    Source,       \* addresses a version message can come from
    SampleLimit,  \* HSK_TIMEDATA_LIMIT (200)
    Enough,       \* samples before the first median (5)
    MaxOffset,    \* 70 minutes
    Near          \* 5 minutes

ASSUME TimeAssumption ==
    /\ {SampleLimit, Enough, MaxOffset, Near} \subseteq Nat \ {0}
    /\ Enough <= SampleLimit

VARIABLES
    samples,   \* td->samples, peer's time minus ours
    known,     \* td->known
    offset,    \* td->offset
    checked    \* td->checked: the warning has been given

tdvars == <<samples, known, offset, checked>>

Abs(n) == IF n < 0 THEN -n ELSE n

\* The binary search of hsk_timedata_insert, from <<start, end>> with indices
\* from 0: where an equal sample is, or else where the search ends.
Position(s, x) ==
    LET n == Len(s)
        search[r \in (0..n) \X (-1..(n - 1))] ==
            LET pos == (r[1] + r[2]) \div 2
            IN  IF r[1] > r[2] THEN r[1]
                ELSE IF s[pos + 1] = x THEN pos
                ELSE IF s[pos + 1] < x THEN search[<<pos + 1, r[2]>>]
                ELSE search[<<r[1], pos - 1>>]
    IN  search[<<0, n - 1>>]

\* Mutation: the samples are kept in the order in which they came.
InsertLast(s, x) == Append(s, x)

\* hsk_timedata_insert: the samples from there on move up by one.
Insert(s, x) ==
    LET i == Position(s, x)
    IN  [j \in 1..(Len(s) + 1) |-> IF j <= i THEN s[j] ELSE IF j = i + 1 THEN x ELSE s[j - 1]]

TdInit == samples = <<>> /\ known = {} /\ offset = 0 /\ checked = FALSE

\* The offset at an odd number of samples: the size of the median, or 0 and a
\* warning, unless some peer nearly agrees with us, when it is too large.
Evaluate(s) ==
    LET median == Abs(s[(Len(s) \div 2) + 1])
        match  == \E i \in DOMAIN s : s[i] # 0 /\ Abs(s[i]) < Near
    IN  /\ offset' = IF median >= MaxOffset THEN 0 ELSE median
        /\ checked' = (checked \/ (median >= MaxOffset /\ ~match))

\* hsk_timedata_add.
TdAdd(a, sample) ==
    IF Len(samples) >= SampleLimit \/ a \in known
    THEN UNCHANGED tdvars
    ELSE /\ known' = known \cup {a}
         /\ samples' = Insert(samples, sample)
         /\ IF Len(samples') >= Enough /\ Len(samples') % 2 = 1
            THEN Evaluate(samples')
            ELSE UNCHANGED <<offset, checked>>

-----------------------------------------------------------------------------
(* Properties.                                                             *)

\* One sample for each known address, in order, within the array
\* (hsk_timedata_insert asserts the last); the adjusted clock is never behind
\* ours, nor 70 minutes ahead of it.
TdTypeOK ==
    /\ samples \in Seq(Int) /\ known \subseteq Source /\ checked \in BOOLEAN
    /\ Len(samples) = Cardinality(known) /\ Len(samples) <= SampleLimit
    /\ offset \in 0..(MaxOffset - 1)

\* A minority cannot move the clock: however far off the samples of fewer than
\* half of the addresses are, and in whatever order the addresses come, the
\* offset is at most as large as the largest of the others, and still is one
\* address after the last median.
HonestMajority ==
    /\ TdTypeOK
    /\ \A d \in 0..MaxOffset :
          LET n   == Len(samples)
              bad == Cardinality({i \in 1..n : Abs(samples[i]) > d})
          IN  n >= Enough /\ 2 * bad < n - (1 - (n % 2)) => offset <= d
=============================================================================
