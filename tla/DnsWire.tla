------------------------------ MODULE DnsWire ------------------------------
(***************************************************************************)
(* Messages of src/src/dns.c on the wire: names with compression, written  *)
(* and read, the counts of the sections, and the truncation of a message   *)
(* to the size that the client takes.  The wire is a sequence of cells, a  *)
(* byte each but for the header and the fixed fields of a record; a label  *)
(* is one character.  Offsets count from zero, as in the code.             *)
(***************************************************************************)
EXTENDS Naturals, SequencesExt

CONSTANTS
    MaxPointers,  \* pointers followed in one name (10)
    PointerLimit  \* first offset that no pointer can hold (2^14)

Cell(k, v) == [k |-> k, v |-> v]
Absent == [ok |-> FALSE, name |-> <<>>, res |-> 0]

\* A message is four sequences of records; a record is [name, target], where
\* target is the name in its data, or None for other data.
None == <<"none">>
Section == 1..4

-----------------------------------------------------------------------------
(* Names.                                                                  *)

Suffix(name, i) == SubSeq(name, i, Len(name))

\* Mutation: the offset of a label is that of the label after it.
SerializeShifted(out, name) ==
    LET n == Len(name)
        known == {i \in 1..n : Suffix(name, i) \in DOMAIN out.map}
        stop  == Min(known \cup {n + 1})
        At(i) == Len(out.wire) + 2 * i
        fresh == {i \in 1..(stop - 1) : At(i) < PointerLimit}
        labels == FlattenSeq([i \in 1..(stop - 1) |->
                      <<Cell("len", 1), Cell("char", name[i])>>])
        ending == IF stop > n THEN <<Cell("len", 0)>>
                  ELSE LET p == out.map[Suffix(name, stop)]
                       IN  <<Cell("ptr", p), Cell("low", p)>>
    IN  [wire |-> out.wire \o labels \o ending,
         map  |-> [s \in DOMAIN out.map \cup {Suffix(name, i) : i \in fresh} |->
                      IF s \in DOMAIN out.map THEN out.map[s]
                      ELSE At(n + 1 - Len(s))]]

\* hsk_dns_name_serialize: labels up to the first suffix that is on the wire
\* already, which a pointer stands for; the new suffixes are remembered.
Serialize(out, name) ==
    LET n == Len(name)
        known == {i \in 1..n : Suffix(name, i) \in DOMAIN out.map}
        stop  == Min(known \cup {n + 1})
        At(i) == Len(out.wire) + 2 * (i - 1)
        fresh == {i \in 1..(stop - 1) : At(i) < PointerLimit}
        labels == FlattenSeq([i \in 1..(stop - 1) |->
                      <<Cell("len", 1), Cell("char", name[i])>>])
        ending == IF stop > n THEN <<Cell("len", 0)>>
                  ELSE LET p == out.map[Suffix(name, stop)]
                       IN  <<Cell("ptr", p), Cell("low", p)>>
    IN  [wire |-> out.wire \o labels \o ending,
         map  |-> [s \in DOMAIN out.map \cup {Suffix(name, i) : i \in fresh} |->
                      IF s \in DOMAIN out.map THEN out.map[s]
                      ELSE At(n + 1 - Len(s))]]

\* hsk_dns_name_parse from offset off, after ptr pointers; res is where the
\* name ends that began before the first of them.
RECURSIVE ParseName(_, _, _, _, _)
ParseName(wire, off, name, ptr, res) ==
    LET c == wire[off + 1]
    IN  IF off >= Len(wire) THEN Absent
        ELSE IF c.k = "len" /\ c.v = 0
        THEN [ok |-> TRUE, name |-> name, res |-> IF ptr = 0 THEN off + 1 ELSE res]
        ELSE IF c.k = "len"
        THEN IF off + 1 + c.v > Len(wire) THEN Absent
             ELSE ParseName(wire, off + 2, Append(name, wire[off + 2].v), ptr, res)
        ELSE IF c.k = "ptr" /\ off + 1 < Len(wire) /\ ptr < MaxPointers
        THEN ParseName(wire, c.v, name, ptr + 1, IF ptr = 0 THEN off + 2 ELSE res)
        ELSE Absent

NameAt(wire, off) == ParseName(wire, off, <<>>, 0, 0)

-----------------------------------------------------------------------------
(* Messages.                                                               *)

\* hsk_dns_qs_write and hsk_dns_rr_write; the data follows its length.
WriteRecord(s, out, r) ==
    LET named == Serialize(out, r.name)
        fixed == [named EXCEPT !.wire = Append(@, Cell("fixed", 0))]
        front == [fixed EXCEPT !.wire = Append(@, Cell("rdlen", 0))]
        data  == IF r.target = None
                 THEN [front EXCEPT !.wire = Append(@, Cell("data", 0))]
                 ELSE Serialize(front, r.target)
    IN  IF s = 1 THEN fixed
        ELSE [data EXCEPT !.wire[Len(front.wire)] =
                  Cell("rdlen", Len(data.wire) - Len(front.wire))]

\* hsk_dns_msg_write: the counts, and the sections in order.
Write(m) ==
    LET Put(s, out) == FoldLeft(LAMBDA o, r : WriteRecord(s, o, r), out, m[s])
        header == [wire |-> <<Cell("counts", [s \in Section |-> Len(m[s])])>>,
                   map  |-> <<>>]
    IN  FoldLeft(LAMBDA o, s : Put(s, o), header, <<1, 2, 3, 4>>).wire

\* hsk_dns_msg_size: without compression.
Uncompressed(m) ==
    LET Name(n) == 2 * Len(n) + 1
        Size(s, r) == Name(r.name) +
            (IF s = 1 THEN 1 ELSE 2 + (IF r.target = None THEN 1 ELSE Name(r.target)))
        Sum(s) == FoldLeft(LAMBDA n, r : n + Size(s, r), 0, m[s])
    IN  1 + Sum(1) + Sum(2) + Sum(3) + Sum(4)

\* The offset after the record at off, whose owner can be read.
After(wire, s, off) ==
    LET n == NameAt(wire, off)
    IN  IF s = 1 THEN n.res + 1 ELSE n.res + 2 + wire[n.res + 2].v

\* hsk_dns_qs_read and hsk_dns_rr_read.
RecordAt(wire, s, off) ==
    LET n == NameAt(wire, off)
        d == n.res + 2
        plain == s = 1 \/ wire[d + 1].k = "data"
        t == IF plain THEN [Absent EXCEPT !.ok = TRUE, !.name = None] ELSE NameAt(wire, d)
    IN  IF ~ n.ok THEN [ok |-> FALSE]
        ELSE [ok |-> t.ok, rr |-> [name |-> n.name, target |-> t.name]]

\* hsk_dns_msg_read: as many records as the counts say, while there is data.
RECURSIVE ReadSection(_, _, _, _)
ReadSection(wire, s, n, from) ==
    IF ~ from.ok \/ n = 0 \/ from.off = Len(wire) THEN from
    ELSE LET r == RecordAt(wire, s, from.off)
         IN  IF ~ r.ok THEN [from EXCEPT !.ok = FALSE]
             ELSE ReadSection(wire, s, n - 1,
                      [ok |-> TRUE, off |-> After(wire, s, from.off),
                       got |-> Append(from.got, r.rr)])

Unreadable == <<>>

Read(wire) ==
    LET Sec(s, from) == ReadSection(wire, s, wire[1].v[s], [from EXCEPT !.got = <<>>])
        qd == Sec(1, [ok |-> TRUE, off |-> 1, got |-> <<>>])
        an == Sec(2, qd)
        ns == Sec(3, an)
        ar == Sec(4, ns)
    IN  IF ar.ok THEN <<qd.got, an.got, ns.got, ar.got>> ELSE Unreadable

-----------------------------------------------------------------------------
(* hsk_dns_msg_truncate.                                                   *)

\* The loop over one section: at.last is where the last record that fits ends,
\* and j how many fit.
RECURSIVE Scan(_, _, _, _, _, _)
Scan(wire, max, s, n, i, at) ==
    IF ~ at.ok \/ at.pos > max THEN at
    ELSE IF i = n THEN [at EXCEPT !.last = at.pos, !.j = i]
    ELSE IF ~ NameAt(wire, at.pos).ok THEN [at EXCEPT !.ok = FALSE]
    ELSE Scan(wire, max, s, n, i + 1, [ok |-> TRUE, pos |-> After(wire, s, at.pos),
                                       last |-> at.pos, j |-> i])

Truncate(wire, max) ==
    LET counts == wire[1].v
        Sec(s, at) == Scan(wire, max, s, counts[s], 0, [at EXCEPT !.j = 0])
        qd == Sec(1, [ok |-> TRUE, pos |-> 1, last |-> 1, j |-> 0])
        an == Sec(2, qd)
        ns == Sec(3, an)
        ar == Sec(4, ns)
    IN  IF Len(wire) <= max THEN wire
        ELSE IF ~ ar.ok THEN Unreadable
        ELSE [SubSeq(wire, 1, ar.last) EXCEPT
                 ![1] = Cell("counts", <<qd.j, an.j, ns.j, ar.j>>)]
=============================================================================
