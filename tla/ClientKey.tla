----------------------------- MODULE ClientKey -----------------------------
(***************************************************************************)
(* Limiter.clientIP (internal/ratelimit/limiter.go): the bucket key of a   *)
(* request, from a header a proxy wrote or from the connection.            *)
(*                                                                         *)
(* An address is its family, its network and its host part; a text is an   *)
(* address as somebody wrote it, with the marks of that spelling.  The     *)
(* first bits of an IPv6 address, up to the prefix, are its network; both  *)
(* parts count with a prefix of 128.                                       *)
(***************************************************************************)
EXTENDS Naturals, Sequences, SequencesExt

\* "none" stands for a connection without an IP address.
Families == {"none", "v4", "v6"}
Addresses == [family : Families, net : Nat, host : Nat]

\* Marks: "port", "brackets" around the host, a "zone", and "mapped" for an
\* IPv4 address written as an IPv6 one.
Text(a, marks) == [address |-> a, marks |-> marks]

\* The spellings that net.JoinHostPort and netip.Addr.String produce.
Forms(a) ==
    CASE a.family = "v4" -> {{}, {"port"}, {"mapped"}, {"mapped", "brackets", "port"}}
      [] a.family = "v6" -> {{}, {"zone"}, {"brackets", "port"},
                             {"zone", "brackets", "port"}}
      [] OTHER -> {{}}

\* And one more that a proxy may write into its header: [2001:db8::1].
Bracketed(a) == Text(a, {"brackets"})

Blank == Text([family |-> "none", net |-> 0, host |-> 0], {"blank"})

\* WithIPv6Prefix ignores values outside 1 to 128; 128 is the default.
IPv6Prefix(bits) == IF bits \in 1..128 THEN bits ELSE 128

\* The last entry that is not blank.
LastHeaderValue(entries) ==
    LET said == {i \in DOMAIN entries : entries[i] # Blank}
    IN IF said = {} THEN Blank ELSE entries[Max(said)]

\* Mutant: the port is cut off and the brackets are left.
StripPortOnly(t) == Text(t.address, t.marks \ {"port"})

\* net.SplitHostPort takes a port off, and with it the brackets; without a
\* port it fails, and the text stays as it is.
StripPort(t) ==
    IF "port" \in t.marks THEN Text(t.address, t.marks \ {"port", "brackets"}) ELSE t

\* netip.ParseAddr reads an address alone, with or without a zone.
ParsesAddr(t) ==
    t.address.family # "none" /\ t.marks \cap {"port", "brackets"} = {}

WithoutZone(t) == Text(t.address, t.marks \ {"zone"})

\* Unmap turns a mapped address into the IPv4 address.
Unmap(t) == Text(t.address, t.marks \ {"mapped"})

Is4(t) == t.address.family = "v4" /\ "mapped" \notin t.marks

\* netip.Addr.Prefix zeroes the bits behind the prefix.
MaskedTo(prefix, t) ==
    IF prefix < 128 THEN [t EXCEPT !.address.host = 0] ELSE t

\* What is no address keys on itself, an address in brackets too.
NormalizeIP(bits, t) ==
    LET addr == Unmap(WithoutZone(t))
    IN CASE ~ ParsesAddr(t) -> t
         [] ParsesAddr(t) /\ Is4(addr) -> addr
         [] ParsesAddr(t) /\ ~ Is4(addr) -> MaskedTo(IPv6Prefix(bits), addr)

\* The header's lines are joined before the last entry is taken.
ClientIP(header, bits, remote, lines) ==
    LET entry == LastHeaderValue(FlattenSeq(lines))
    IN IF header /\ entry # Blank
       THEN NormalizeIP(bits, StripPort(entry))
       ELSE NormalizeIP(bits, StripPort(remote))
=============================================================================
