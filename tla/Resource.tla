------------------------------ MODULE Resource ------------------------------
(***************************************************************************)
(* The messages that src/src/resource.c makes of a name's records, of the  *)
(* root zone and of names of the synthetic zone, and what                  *)
(* src/src/req.c leaves of a message for its client.                       *)
(*                                                                         *)
(* A question is a record: the number of labels, the top-level label, what *)
(* the labels to its left are, the type, whether the name has capitals,    *)
(* whether it has characters hsk_dns_name_dirty objects to, whether the    *)
(* client asked for signatures, and for how many records behind the        *)
(* question the size it takes has room.  A message has a code, the AA flag *)
(* and three sections.  A section is a sequence of records <<type, data>>, *)
(* in the order hsk_dns_rrs_push got them, with <<"RRSIG", t>> for the     *)
(* signature of the records of type t.                                     *)
(*                                                                         *)
(* A resource has the records of a name that are on chain, as the loops    *)
(* over them pick them out: servers, the sequence of those that name a     *)
(* server, and the numbers ds and txt of the others.                       *)
(***************************************************************************)
EXTENDS Integers, Sequences

CONSTANTS
    Family        \* family of the address the server is reached at: A or AAAA

\* Records that name a server.  Glue has the name of a host, inside the zone
\* or outside; only the former is answered.  NEST4 is glue inside the zone whose
\* name ends a chain of more pointers than hsk_dns_name_parse follows.
ServerKind == {"NS", "GLUE4", "GLUE6", "OUTER4", "OUTER6", "NEST4",
               "SYNTH4", "SYNTH6"}

ResourceData == [servers : Seq(ServerKind), ds : Nat, txt : Nat]

DnssecType == {"DS", "DNSKEY", "RRSIG", "NSEC"}

Message(code, aa, an, ns, ar) ==
    [code |-> code, aa |-> aa, an |-> an, ns |-> ns, ar |-> ar]

-----------------------------------------------------------------------------
(* Sections.                                                               *)

\* The places of the records of one type.
OfType(rrs, t) == {i \in DOMAIN rrs : rrs[i][1] = t}

\* Mutation: the signature goes in front of the section.
SignFirst(rrs, t) ==
    IF OfType(rrs, t) = {} THEN rrs ELSE <<<<"RRSIG", t>>>> \o rrs

\* hsk_dnssec_sign_zsk, hsk_dnssec_sign_ksk: a signature for the records of
\* one type, if there are any, behind the section.
Sign(rrs, t) == IF OfType(rrs, t) = {} THEN rrs ELSE Append(rrs, <<"RRSIG", t>>)

HasNs(res) == res.servers # <<>>

\* hsk_resource_to_ns: one NS record for every record that names a server.
ToNs(res) == [i \in DOMAIN res.servers |-> <<"NS", res.servers[i]>>]

ToDs(res) == [i \in 1..res.ds |-> <<"DS", "chain">>]

ToTxt(res) == [i \in 1..res.txt |-> <<"TXT", "chain">>]

\* hsk_resource_to_glue.  hsk_dns_is_subdomain compares with the name as the
\* client wrote it, so a name with capitals gets no glue of its own zone.
ToGlue(res, caps) ==
    LET glued   == IF caps THEN {} ELSE {"GLUE4", "GLUE6", "NEST4"}
        used(k) == k \in glued \cup {"SYNTH4", "SYNTH6"}
        hosts   == SelectSeq(res.servers, used)
    IN  [i \in DOMAIN hosts |->
           <<IF hosts[i] \in {"SYNTH6", "GLUE6"} THEN "AAAA" ELSE "A", hosts[i]>>]

Soa == <<"SOA", "root">>

\* The denials, signed, and then the SOA, signed.
Denial(nsecs) == Sign(Append(Sign(nsecs, "NSEC"), Soa), "SOA")

\* hsk_resource_to_empty and hsk_resource_root_to_nsec, followed by the SOA.
EmptyProof(owner) == Denial(<<<<"NSEC", owner>>>>)

-----------------------------------------------------------------------------
(* Messages.                                                               *)

Servfail == Message("SERVFAIL", FALSE, <<>>, <<>>, <<>>)

\* hsk_resource_to_nx.
Nx == Message("NXDOMAIN", TRUE, <<>>,
              Denial(<<<<"NSEC", "root">>, <<"NSEC", "root">>>>), <<>>)

\* The referral of hsk_resource_to_dns, or the proof that there is none.
Referral(res, caps) ==
    IF HasNs(res)
    THEN Message("NOERROR", FALSE, <<>>,
                 Sign(ToNs(res) \o ToDs(res), IF res.ds > 0 THEN "DS" ELSE "NS"),
                 ToGlue(res, caps))
    ELSE Message("NOERROR", FALSE, <<>>, EmptyProof("tld"), <<>>)

\* hsk_resource_to_dns.
ToDns(res, q) ==
    LET an == IF q.type = "DS" THEN Sign(ToDs(res), "DS")
              ELSE IF q.type = "TXT" THEN Sign(ToTxt(res), "TXT") ELSE <<>>
        ns == IF q.type = "NS" THEN Sign(ToNs(res), "NS") ELSE <<>>
        ar == IF q.type = "NS" THEN ToGlue(res, q.caps) ELSE <<>>
    IN  IF q.labels > 1 \/ (an = <<>> /\ ns = <<>>)
        THEN Referral(res, q.caps)
        ELSE Message("NOERROR", an # <<>>, an, ns, ar)

\* hsk_resource_root.
Root(type) ==
    LET servers == Sign(<<<<"NS", "root">>>>, "NS")
        address == Sign(<<<<Family, "root">>>>, Family)
        keys    == <<<<"DNSKEY", "ksk">>, <<"DNSKEY", "zsk">>>>
    IN  IF type \in {"ANY", "NS"}
        THEN Message("NOERROR", TRUE, servers, <<>>, address)
        ELSE IF type = "SOA"
        THEN Message("NOERROR", TRUE, Sign(<<Soa>>, "SOA"), servers, address)
        ELSE IF type = "DNSKEY"
        THEN Message("NOERROR", TRUE, Sign(keys, "DNSKEY"), <<>>, <<>>)
        ELSE IF type = "DS"
        THEN Message("NOERROR", TRUE, Sign(<<<<"DS", "root">>>>, "DS"), <<>>, <<>>)
        ELSE Message("NOERROR", TRUE, <<>>, EmptyProof("root"), <<>>)

\* The synthesized part of hsk_ns_onrecv: the zone itself, an address that
\* the label encodes, or nothing for any other label.  The signature is made
\* over the additional section, which is empty.
Synthesize(q) ==
    LET family == IF q.host = "ptr4" THEN "A" ELSE "AAAA"
    IN  IF q.labels = 1
        THEN Message("NOERROR", FALSE, <<>>, EmptyProof("tld"), <<>>)
        ELSE IF q.host \notin {"ptr4", "ptr6"}
        THEN Message("NOERROR", FALSE, <<>>, <<>>, <<>>)
        ELSE IF q.type \in {"ANY", family}
        THEN Message("NOERROR", TRUE, <<<<family, q.host>>>>, <<>>,
                     Sign(<<>>, family))
        ELSE Message("NOERROR", FALSE, <<>>, EmptyProof("host"), <<>>)

-----------------------------------------------------------------------------
(* What the client gets.                                                   *)

\* hsk_dns_rrs_clean.
Clean(rrs, type) ==
    LET kept(rr) == rr[1] \notin DnssecType \/ rr[1] = type
    IN  SelectSeq(rrs, kept)

\* hsk_dns_msg_clean, for a client that did not ask for signatures.
Cleaned(msg, q) ==
    IF q.dnssec THEN msg
    ELSE [msg EXCEPT !.an = Clean(@, q.type), !.ns = Clean(@, q.type),
                     !.ar = Clean(@, q.type)]

\* hsk_dns_msg_decode, on a message that the server wrote itself: it does not
\* read the name of a NEST4 host, as a target or as an owner.
Decodes(msg) ==
    \A rrs \in {msg.ns, msg.ar} : \A i \in DOMAIN rrs : rrs[i][2] # "NEST4"

FirstOf(rrs, n) == SubSeq(rrs, 1, IF n < Len(rrs) THEN n ELSE Len(rrs))

\* hsk_dns_msg_truncate reads the owners of the records that fit, and of the
\* first that does not.
OwnersRead(msg, n) ==
    \A i \in DOMAIN msg.ar :
        Len(msg.an) + Len(msg.ns) + i <= n + 1 => msg.ar[i][2] # "NEST4"

NoMessage == [code |-> "none"]

\* hsk_dns_msg_truncate: the first n records, over the sections; no TC flag.
Truncate(msg, n) ==
    IF Len(msg.an) + Len(msg.ns) + Len(msg.ar) <= n THEN msg
    ELSE IF ~ OwnersRead(msg, n) THEN NoMessage
    ELSE [msg EXCEPT !.an = FirstOf(@, n),
                     !.ns = FirstOf(@, n - Len(msg.an)),
                     !.ar = FirstOf(@, n - Len(msg.an) - Len(msg.ns))]

\* hsk_dns_msg_finalize, but for the question, the flags and the EDNS record it
\* copies, and the signature of the whole message.
Finalize(msg, q) == Truncate(Cleaned(msg, q), q.room)

=============================================================================
