------------------------------ MODULE Addresses ------------------------------
(***************************************************************************)
(* Which networks are out of bounds, and why (netaddr/mod.rs).  An IPv4    *)
(* address is four digits of 8 bits, an IPv6 address eight of 16.          *)
(***************************************************************************)
EXTENDS Integers, Sequences

Bits(family) == IF family = "v4" THEN 8 ELSE 16
Width(family) == IF family = "v4" THEN 32 ELSE 128

(* What an address can be made of.                                         *)
Digits(family) == [1 .. Width(family) \div Bits(family) -> 0 .. 2 ^ Bits(family) - 1]

IsAddress(ip) ==
  ip.family \in {"v4", "v6"} /\ ip = [family |-> ip.family, digits |-> ip.digits]
    /\ ip.digits \in Digits(ip.family)

V4(a, b, c, d) == [family |-> "v4", digits |-> <<a, b, c, d>>]
V6(digits) == [family |-> "v6", digits |-> digits]

(* A digit of an IPv6 address, from its two bytes.                         *)
Word(high, low) == 256 * high + low

Cidr(ip, prefix) == [family |-> ip.family, base |-> ip.digits, prefix |-> prefix]

Row(ip, prefix, rule) == [cidr |-> Cidr(ip, prefix), rule |-> rule]

BuiltinV4 ==
  << Row(V4(0, 0, 0, 0), 8, "unspecified"),
     Row(V4(10, 0, 0, 0), 8, "private"),
     Row(V4(100, 64, 0, 0), 10, "cgnat"),
     Row(V4(127, 0, 0, 0), 8, "loopback"),
     Row(V4(169, 254, 0, 0), 16, "link_local"),
     Row(V4(172, 16, 0, 0), 12, "private"),
     Row(V4(192, 0, 0, 0), 24, "protocol_assignments"),
     Row(V4(192, 0, 2, 0), 24, "documentation"),
     Row(V4(192, 168, 0, 0), 16, "private"),
     Row(V4(198, 18, 0, 0), 15, "benchmarking"),
     Row(V4(198, 51, 100, 0), 24, "documentation"),
     Row(V4(203, 0, 113, 0), 24, "documentation"),
     Row(V4(224, 0, 0, 0), 4, "multicast"),
     Row(V4(240, 0, 0, 0), 4, "reserved") >>

Leading(s) == V6(s \o [i \in 1 .. 8 - Len(s) |-> 0])

BuiltinV6 ==
  << Row(Leading(<<>>), 128, "unspecified"),
     Row(V6(<<0, 0, 0, 0, 0, 0, 0, 1>>), 128, "loopback"),
     Row(Leading(<<Word(1, 0)>>), 64, "discard"),               \* 100::/64
     Row(Leading(<<Word(32, 1), Word(13, 184)>>), 32, "documentation"),
                                                                 \* 2001:db8::/32
     Row(Leading(<<Word(252, 0)>>), 7, "unique_local"),         \* fc00::/7
     Row(Leading(<<Word(254, 128)>>), 10, "link_local"),        \* fe80::/10
     Row(Leading(<<Word(255, 0)>>), 8, "multicast") >>          \* ff00::/8

-----------------------------------------------------------------------------
Clamp(n, most) == IF n < 0 THEN 0 ELSE IF n > most THEN most ELSE n

(* The weight of the lowest bit of a digit that a mask leaves standing.    *)
Unit(family, prefix, i) == 2 ^ (Bits(family) - Clamp(prefix - Bits(family) * (i - 1), Bits(family)))

(* A bug in which the mask of a prefix of zero is a shift by the full      *)
(* width, which the machine takes for a shift by nothing.                  *)
CoversWrapping(c, ip) ==
  /\ c.family = ip.family
  /\ \A i \in DOMAIN ip.digits :
       LET unit == Unit(c.family, IF c.prefix = 0 THEN Width(c.family) ELSE c.prefix, i)
       IN  ip.digits[i] \div unit = c.base[i] \div unit

(* The address and the base agree on the bits under the mask.              *)
Covers(c, ip) ==
  /\ c.family = ip.family
  /\ \A i \in DOMAIN ip.digits :
       LET unit == Unit(c.family, c.prefix, i)
       IN  ip.digits[i] \div unit = c.base[i] \div unit

High(digit) == digit \div 256
Low(digit) == digit % 256

(* The IPv4 address an IPv6 address carries: mapped, NAT64 or 6to4.        *)
Embedded(ip) ==
  LET d == ip.digits
      Pair(i) == V4(High(d[i]), Low(d[i]), High(d[i + 1]), Low(d[i + 1]))
  IN  CASE SubSeq(d, 1, 6) = <<0, 0, 0, 0, 0, Word(255, 255)>>              -> <<Pair(7)>>
        [] SubSeq(d, 1, 6) = <<Word(0, 100), Word(255, 155), 0, 0, 0, 0>>  -> <<Pair(7)>>
        [] d[1] = Word(32, 2)                                              -> <<Pair(2)>>
        [] OTHER                                                           -> <<>>

-----------------------------------------------------------------------------
(* What Cidr::parse makes of an entry of a policy list: an address with or *)
(* without a prefix, or a text that is no address.                         *)
EntryShape == {"address", "name", "blank"}

NoPrefix == -1

ParsesAsCidr(entry) ==
  /\ entry.shape = "address"
  /\ entry.prefix <= Width(entry.ip.family)

ParsedCidr(entry) ==
  Cidr(entry.ip, IF entry.prefix = NoPrefix THEN Width(entry.ip.family) ELSE entry.prefix)

(* IpDenyTable::compile(): the built-in rows, then deny_extra.             *)
DenyTableOk(extra) == \A i \in DOMAIN extra : ParsesAsCidr(extra[i])

DenyTable(extra) ==
  BuiltinV4 \o BuiltinV6
    \o [i \in DOMAIN extra |-> [cidr |-> ParsedCidr(extra[i]), rule |-> "deny_extra"]]

NoRule == "none"

FirstRule(table, ip) ==
  LET hits == {i \in DOMAIN table : Covers(table[i].cidr, ip)} IN
  IF hits = {} THEN NoRule
  ELSE table[CHOOSE i \in hits : \A j \in hits : i <= j].rule

(* IpDenyTable::classify(): an embedded address is unwrapped first.        *)
ForbiddenBy(table, ip) ==
  IF ip.family = "v6" /\ Embedded(ip) # <<>> THEN FirstRule(table, Embedded(ip)[1])
                                             ELSE FirstRule(table, ip)

(* AllowList::compile(): whatever is no address is a host name.            *)
AllowListOk(entries) ==
  \A i \in DOMAIN entries : ParsesAsCidr(entries[i]) \/ entries[i].shape # "blank"

AllowedNames(entries) ==
  {entries[i].name : i \in {j \in DOMAIN entries : ~ParsesAsCidr(entries[j])}}

AllowedCidrs(entries) ==
  {ParsedCidr(entries[i]) : i \in {j \in DOMAIN entries : ParsesAsCidr(entries[j])}}

AllowsHost(entries, name) == name \in AllowedNames(entries)
AllowsAddr(entries, ip) == \E c \in AllowedCidrs(entries) : Covers(c, ip)

-----------------------------------------------------------------------------
(* The same question asked of the bounds of the network instead of a mask. *)
Floor(c) ==
  [i \in DOMAIN c.base |->
     LET unit == Unit(c.family, c.prefix, i) IN (c.base[i] \div unit) * unit]

Ceiling(c) == [i \in DOMAIN c.base |-> Floor(c)[i] + Unit(c.family, c.prefix, i) - 1]

AtMost(s, t) ==
  \/ s = t
  \/ \E i \in DOMAIN s : s[i] < t[i] /\ \A j \in 1 .. i - 1 : s[j] = t[j]

Between(c, ip) ==
  c.family = ip.family /\ AtMost(Floor(c), ip.digits) /\ AtMost(ip.digits, Ceiling(c))
=============================================================================
