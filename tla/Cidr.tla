-------------------------------- MODULE Cidr --------------------------------
(***************************************************************************)
(* CIDR ranges of crates/ressrf-core/src/cidr.rs.                          *)
(*                                                                         *)
(* An address is a tuple of octets, four for IPv4 and sixteen for IPv6 in  *)
(* the program; the counts and the octet width are parameters here so that *)
(* TLC can enumerate a whole address space.  An octet is the set of its    *)
(* one-bits, counted from the most significant: AND is an intersection and *)
(* NOT a difference.  Every range is normalised to the IPv6 space, as in   *)
(* the program, and membership is decided octet by octet with a            *)
(* precomputed mask.                                                       *)
(*                                                                         *)
(* The text handed to the parsers is a record: how it is written ("form"), *)
(* the address it spells and the prefix length.  Only form "canonical" can *)
(* be parsed; the other forms are the rejections the parser knows.         *)
(***************************************************************************)
EXTENDS Integers, Sequences, FiniteSets, Functions

CONSTANTS
  OctetBits,    \* bits of an octet (8 in the program)
  Octets,       \* octets of an IPv6 address (16)
  V4Octets,     \* octets of an IPv4 address (4)
  MappedOnes    \* all-ones octets in front of a mapped IPv4 address (2)

ASSUME CidrAssumption ==
  /\ OctetBits \in Nat \ {0}
  /\ Octets \in Nat \ {0}
  /\ V4Octets \in 1 .. Octets
  /\ MappedOnes \in 0 .. (Octets - V4Octets)

Octet == SUBSET (1 .. OctetBits)
Ones  == 1 .. OctetBits

V6Bits  == OctetBits * Octets
V4Bits  == OctetBits * V4Octets
V4Shift == V6Bits - V4Bits                          \* 96 in the program

V4Addr == [fam : {"v4"}, octets : [1 .. V4Octets -> Octet]]
V6Addr == [fam : {"v6"}, octets : [1 .. Octets -> Octet]]
IpAddr == V4Addr \cup V6Addr

\* Where a range comes from, reported with a denial (error.rs, DataTier).
DataTier == {"iana", "override", "csp_metadata", "aws", "azure", "gcp",
             "user_deny", "user_allow"}

\* The rejections of the parsers, and the one form they accept.
TextForms == {"canonical", "zone_id", "no_slash", "bad_prefix",
              "empty_octet", "hex", "octal", "not_an_address"}

-----------------------------------------------------------------------------
\* compute_mask: whole octets of ones, one partial octet, zeros.
ComputeMask(prefix_len) ==
  LET full_bytes     == prefix_len \div OctetBits
      remaining_bits == prefix_len % OctetBits
  IN [i \in 1 .. Octets |->
        CASE i <= full_bytes -> Ones
          [] i = full_bytes + 1 /\ remaining_bits > 0 -> 1 .. remaining_bits
          [] OTHER -> {}]

\* Ipv4Addr::to_ipv6_mapped: zeros, then the all-ones octets, then the address.
ToMapped(octets) ==
  [i \in 1 .. Octets |->
     IF i > Octets - V4Octets THEN octets[i - (Octets - V4Octets)]
     ELSE IF i > Octets - V4Octets - MappedOnes THEN Ones ELSE {}]

Normalized(ip) == IF ip.fam = "v4" THEN ToMapped(ip.octets) ELSE ip.octets

\* normalize_to_ipv6: the largest prefix a family may have, and the prefix in
\* the IPv6 space.
MaxPrefix(fam)             == IF fam = "v4" THEN V4Bits ELSE V6Bits
\* Mutated form: an IPv4 prefix is not moved into the mapped space.
UnshiftedPrefix(fam, prefix) == prefix
AdjustedPrefix(fam, prefix) == IF fam = "v4" THEN prefix + V4Shift ELSE prefix

-----------------------------------------------------------------------------
\* Cidr::parse_loose succeeds.
ParsesLoose(text) ==
  /\ text.form = "canonical"
  /\ text.prefix <= MaxPrefix(text.ip.fam)

\* Cidr::parse also rejects an address with host bits set.
ParsesStrict(text) ==
  /\ ParsesLoose(text)
  /\ LET mask == ComputeMask(AdjustedPrefix(text.ip.fam, text.prefix))
         net  == Normalized(text.ip)
     IN \A i \in 1 .. Octets : net[i] \ mask[i] = {}

\* The range both parsers build (host bits are zeroed; parse has none to zero).
ParsedCidr(text, source) ==
  LET prefix == AdjustedPrefix(text.ip.fam, text.prefix)
      mask   == ComputeMask(prefix)
      net    == Normalized(text.ip)
  IN [network    |-> [i \in 1 .. Octets |-> net[i] \cap mask[i]],
      prefix_len |-> prefix,
      mask       |-> mask,
      original   |-> text,
      source     |-> source]

\* Cidr::contains.
CidrContains(cidr, ip) ==
  LET octets == Normalized(ip)
  IN \A i \in 1 .. Octets : octets[i] \cap cidr.mask[i] = cidr.network[i]

-----------------------------------------------------------------------------
\* CidrSet: ranges in insertion order; contains() returns the first match.
Matches(ranges, ip)   == {i \in DOMAIN ranges : CidrContains(ranges[i], ip)}
InSet(ranges, ip)     == Matches(ranges, ip) # {}
FirstMatch(ranges, ip) ==
  ranges[CHOOSE i \in Matches(ranges, ip) :
           \A j \in Matches(ranges, ip) : i <= j]

\* The elements of s at the positions in kept, in order.
KeepAt(s, kept) ==
  LET done[n \in 0 .. Len(s)] ==
        IF n = 0 THEN <<>>
        ELSE IF n \in kept THEN Append(done[n - 1], s[n]) ELSE done[n - 1]
  IN done[Len(s)]

\* The ranges of the texts that parse, in order; the others are skipped.
LooseCidrs(texts, source) ==
  KeepAt([i \in DOMAIN texts |-> ParsedCidr(texts[i], source)],
         {i \in DOMAIN texts : ParsesLoose(texts[i])})
StrictCidrs(texts, source) ==
  KeepAt([i \in DOMAIN texts |-> ParsedCidr(texts[i], source)],
         {i \in DOMAIN texts : ParsesStrict(texts[i])})

-----------------------------------------------------------------------------
\* What a text and a parsed range look like.
CidrText  == [form : TextForms, ip : IpAddr, prefix : 0 .. 255]
CidrRange == [network : [1 .. Octets -> Octet], prefix_len : 0 .. V6Bits,
              mask : [1 .. Octets -> Octet], original : CidrText,
              source : DataTier]

-----------------------------------------------------------------------------
(***************************************************************************)
(* Reference meaning of a range: the addresses that share its first bits,  *)
(* the address taken as one string of bits.  No masks and no lists.        *)
(***************************************************************************)

\* The one-bits of an address in the IPv6 space, counted from 1.
AddrBits(ip) ==
  IF ip.fam = "v4"
  THEN (V4Shift - OctetBits * MappedOnes + 1 .. V4Shift)
         \cup UNION {{V4Shift + OctetBits * (i - 1) + k : k \in ip.octets[i]} :
                       i \in 1 .. V4Octets}
  ELSE UNION {{OctetBits * (i - 1) + k : k \in ip.octets[i]} : i \in 1 .. Octets}

HostBits(text) == (IF text.ip.fam = "v4" THEN V4Bits ELSE V6Bits) - text.prefix

\* The bits the text fixes come first.
NetBits(text) == 1 .. (V6Bits - HostBits(text))

RefCovers(text, ip) ==
  /\ text.form = "canonical"
  /\ HostBits(text) >= 0
  /\ AddrBits(ip) \cap NetBits(text) = AddrBits(text.ip) \cap NetBits(text)
=============================================================================
