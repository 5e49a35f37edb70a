-------------------------- MODULE PolicyEngineProofs --------------------------
(***************************************************************************)
(* Theorems about PolicyEngine, for any address widths, texts, rules and   *)
(* questions that satisfy CallerAssumption, and behind them, under         *)
(* GoAssumption, about GoPolicyEngine, whose steps are steps of            *)
(* PolicyEngine and of the Go engine at once.                              *)
(*                                                                         *)
(* First the operators they are built from, for any address widths: what a *)
(* parsed range contains, what the loops over lists of texts keep (Cidr),  *)
(* what a path pattern matches (UrlRules).                                 *)
(***************************************************************************)
EXTENDS GoPolicyEngine, WellFoundedInduction, SequenceTheorems, FiniteSetTheorems, TLAPS

-----------------------------------------------------------------------------
(***************************************************************************)
(* Naturals: least elements and induction, both on sets of naturals, and   *)
(* products.                                                               *)
(***************************************************************************)
LessOnNat == {pair \in Nat \X Nat : pair[1] < pair[2]}

\* A set of naturals that is not empty has a least element.
LEMMA LeastNat ==
  ASSUME NEW T \in SUBSET Nat, T # {}
  PROVE  \E x \in T : \A y \in T : x <= y
  <1>1. IsWellFoundedOn(LessOnNat, Nat)
    BY NatLessThanWellFounded, Zenon DEF OpToRel, LessOnNat
  <1>2. PICK x \in T : \A y \in T : ~ (<<y, x>> \in LessOnNat)
    BY <1>1, WFMin, Zenon
  <1>3. ASSUME NEW y \in T PROVE x <= y
    <2>1. ~ (<<y, x>> \in LessOnNat) /\ x \in Nat /\ y \in Nat
      BY <1>2
    <2>2. y < x => <<y, x>> \in LessOnNat
      BY <2>1 DEF LessOnNat
    <2> QED BY <2>1, <2>2
  <1> QED BY <1>3

\* Induction, on a set of naturals.
LEMMA AllNat ==
  ASSUME NEW T \in SUBSET Nat, 0 \in T, \A n \in T : n + 1 \in T
  PROVE  T = Nat
  <1> SUFFICES ASSUME Nat \ T # {} PROVE FALSE
    OBVIOUS
  <1>1. PICK m \in Nat \ T : \A k \in Nat \ T : m <= k
    BY LeastNat
  <1>2. m # 0 /\ m - 1 \in Nat
    OBVIOUS
  <1>3. m - 1 \in T
    BY <1>1, <1>2
  <1> QED BY <1>1, <1>2, <1>3

\* Division with remainder.
LEMMA DivMod ==
  ASSUME NEW a \in Nat, NEW b \in Nat \ {0}
  PROVE  /\ a \div b \in Nat /\ a % b \in 0 .. (b - 1)
         /\ a = (b * (a \div b)) + (a % b)
  OBVIOUS

\* A product grows with its factor.
LEMMA TimesGrows ==
  ASSUME NEW b \in Nat, NEW i \in Nat, NEW j \in Nat, i <= j
  PROVE  b * i <= b * j
  OBVIOUS

-----------------------------------------------------------------------------
(***************************************************************************)
(* Masks and places of bits.                                               *)
(***************************************************************************)
\* The place of bit k of octet i in an address taken as one string of bits.
Place(i, k) == OctetBits * (i - 1) + k

\* compute_mask(p) has a one where the place of the bit is at most p.
LEMMA MaskBits ==
  ASSUME NEW p \in Nat, NEW i \in 1 .. Octets, NEW k \in Ones
  PROVE  k \in ComputeMask(p)[i] <=> Place(i, k) <= p
  <1> DEFINE full == p \div OctetBits
             rest == p % OctetBits
  <1>0. OctetBits \in Nat \ {0} /\ i \in Nat /\ k \in 1 .. OctetBits
    BY CidrAssumption DEF Ones
  <1>1. full \in Nat /\ rest \in 0 .. (OctetBits - 1) /\ p = (OctetBits * full) + rest
    BY <1>0, DivMod, Zenon
  <1>2. ComputeMask(p)[i] =
          CASE i <= full -> Ones
            [] i = full + 1 /\ rest > 0 -> 1 .. rest
            [] OTHER -> {}
    BY DEF ComputeMask
  <1> HIDE DEF full, rest
  <1>3. CASE i <= full
    <2>1. OctetBits * i <= OctetBits * full
      BY <1>0, <1>1, <1>3, TimesGrows
    <2>2. OctetBits * (i - 1) + k <= OctetBits * i
      BY <1>0, <1>1
    <2>3. Place(i, k) \in Int /\ Place(i, k) <= OctetBits * full /\ OctetBits * full \in Nat
      <3>1. OctetBits * full \in Nat /\ OctetBits * i \in Nat /\ OctetBits * (i - 1) \in Int
        BY <1>0, <1>1
      <3> QED BY <1>0, <2>1, <2>2, <3>1 DEF Place
    <2>4. ComputeMask(p)[i] = Ones
      BY <1>1, <1>2, <1>3
    <2> QED BY <1>1, <2>3, <2>4
  <1>4. CASE i = full + 1
    <2>1. Place(i, k) = (OctetBits * full) + k /\ OctetBits * full \in Nat
      BY <1>0, <1>1, <1>4 DEF Place
    <2>2. k \in ComputeMask(p)[i] <=> k <= rest
      BY <1>0, <1>1, <1>2, <1>4
    <2> QED BY <1>0, <1>1, <2>1, <2>2
  <1>5. CASE i > full + 1
    <2>1. OctetBits * (full + 1) <= OctetBits * (i - 1)
      BY <1>0, <1>1, <1>5, TimesGrows
    <2>2. OctetBits * (full + 1) = OctetBits * full + OctetBits
      BY <1>0, <1>1
    <2>3. OctetBits * full \in Nat /\ OctetBits * (i - 1) \in Nat
      BY <1>0, <1>1
    <2>4. Place(i, k) \in Int /\ Place(i, k) > (OctetBits * full) + OctetBits
      <3>1. Place(i, k) = OctetBits * (i - 1) + k
        BY Zenon DEF Place
      <3> QED BY <1>0, <2>1, <2>2, <2>3, <3>1
    <2>5. ComputeMask(p)[i] = {}
      BY <1>0, <1>1, <1>2, <1>5
    <2> QED BY <1>0, <1>1, <2>3, <2>4, <2>5
  <1> QED BY <1>0, <1>1, <1>3, <1>4, <1>5

\* What the assumption says of the sizes, products included.
LEMMA Sizes ==
  /\ OctetBits \in Nat \ {0} /\ Octets \in Nat \ {0} /\ V4Octets \in 1 .. Octets
  /\ MappedOnes \in 0 .. (Octets - V4Octets)
  /\ V6Bits \in Nat /\ V4Bits \in Nat /\ V4Shift \in Nat
  /\ V4Shift = OctetBits * (Octets - V4Octets)
  /\ OctetBits * MappedOnes \in 0 .. V4Shift
  <1>1. /\ OctetBits \in Nat \ {0} /\ Octets \in Nat \ {0} /\ V4Octets \in 1 .. Octets
        /\ MappedOnes \in 0 .. (Octets - V4Octets)
    BY CidrAssumption
  <1>2. V4Octets \in Nat /\ Octets - V4Octets \in Nat /\ MappedOnes \in Nat
    BY <1>1
  <1>3. OctetBits * Octets \in Nat /\ OctetBits * V4Octets \in Nat
    BY <1>1, <1>2
  <1>4. OctetBits * Octets - OctetBits * V4Octets = OctetBits * (Octets - V4Octets)
    BY <1>1, <1>2
  <1>5. OctetBits * (Octets - V4Octets) \in Nat
    BY <1>1, <1>2
  <1>6. OctetBits * MappedOnes <= OctetBits * (Octets - V4Octets) /\ OctetBits * MappedOnes \in Nat
    BY <1>1, <1>2, TimesGrows
  <1> QED BY <1>1, <1>3, <1>4, <1>5, <1>6 DEF V6Bits, V4Bits, V4Shift

\* The bits of octet i lie behind those of the octets before it.
LEMMA PlaceBounds ==
  ASSUME NEW i \in Nat \ {0}, NEW k \in Ones
  PROVE  Place(i, k) \in Nat /\ OctetBits * (i - 1) < Place(i, k) /\ Place(i, k) <= OctetBits * i
  <1>1. OctetBits \in Nat /\ i - 1 \in Nat /\ k \in 1 .. OctetBits
    BY Sizes DEF Ones
  <1>2. OctetBits * (i - 1) \in Nat /\ OctetBits * i = OctetBits * (i - 1) + OctetBits
    BY <1>1
  <1> QED BY <1>1, <1>2 DEF Place

\* A place is the place of one bit only.
LEMMA PlaceUnique ==
  ASSUME NEW i \in Nat \ {0}, NEW j \in Nat \ {0}, NEW k \in Ones, NEW l \in Ones,
         Place(i, k) = Place(j, l)
  PROVE  i = j /\ k = l
  <1>1. OctetBits \in Nat
    BY Sizes
  <1>2. ASSUME NEW a \in Nat \ {0}, NEW b \in Nat \ {0}, NEW m \in Ones, NEW n \in Ones, a < b
        PROVE  Place(a, m) < Place(b, n)
    <2>1. OctetBits * a <= OctetBits * (b - 1)
      BY <1>1, <1>2, TimesGrows
    <2>2. OctetBits * a \in Nat /\ OctetBits * (b - 1) \in Nat
      BY <1>1
    <2> QED BY <2>1, <2>2, PlaceBounds
  <1>3. Place(i, k) \in Nat
    BY PlaceBounds
  <1>4. ~ (i < j) /\ ~ (j < i)
    BY <1>2, <1>3
  <1>5. i = j
    BY <1>4
  <1>6. k \in Nat /\ l \in Nat /\ OctetBits * (i - 1) \in Int
    BY <1>1 DEF Ones
  <1> QED BY <1>5, <1>6 DEF Place

\* Each place belongs to a bit.
LEMMA PlaceExists ==
  ASSUME NEW n \in Nat, NEW b \in 1 .. (OctetBits * n)
  PROVE  \E i \in 1 .. n, k \in Ones : b = Place(i, k)
  <1> DEFINE q == (b - 1) \div OctetBits
             r == (b - 1) % OctetBits
  <1>1. OctetBits \in Nat \ {0} /\ b - 1 \in Nat /\ OctetBits * n \in Nat /\ b \in Nat
    BY Sizes
  <1>2. q \in Nat /\ r \in 0 .. (OctetBits - 1) /\ b - 1 = (OctetBits * q) + r
    BY <1>1, DivMod, Zenon
  <1> HIDE DEF q, r
  <1>3. q < n
    <2>1. CASE n <= q
      <3>1. OctetBits * n <= OctetBits * q
        BY <1>1, <1>2, <2>1, TimesGrows
      <3>2. OctetBits * q \in Nat
        BY <1>1, <1>2
      <3> QED BY <1>1, <1>2, <3>1, <3>2
    <2> QED BY <1>2, <2>1
  <1>4. q + 1 \in 1 .. n /\ r + 1 \in Ones
    BY <1>1, <1>2, <1>3 DEF Ones
  <1>5. (q + 1) - 1 = q
    BY <1>2
  <1>6. b = Place(q + 1, r + 1)
    <2>1. OctetBits * q \in Nat
      BY <1>1, <1>2
    <2> QED BY <1>1, <1>2, <1>5, <2>1 DEF Place
  <1> QED BY <1>4, <1>6

\* The IPv6 form of an address is a tuple of octets.
LEMMA NormalType ==
  ASSUME NEW ip \in IpAddr
  PROVE  Normalized(ip) \in [1 .. Octets -> Octet]
  <1>1. CASE ip \in V6Addr
    BY <1>1 DEF Normalized, V6Addr
  <1>2. CASE ip \in V4Addr
    <2>1. /\ ip.fam = "v4" /\ ip.octets \in [1 .. V4Octets -> Octet]
      BY <1>2 DEF V4Addr
    <2>2. ASSUME NEW i \in 1 .. Octets, i > Octets - V4Octets
          PROVE  ip.octets[i - (Octets - V4Octets)] \in Octet
      <3>1. i - (Octets - V4Octets) \in 1 .. V4Octets
        BY <2>2, Sizes
      <3> QED BY <2>1, <3>1
    <2>3. Ones \in Octet /\ {} \in Octet
      BY DEF Ones, Octet
    <2>4. ASSUME NEW i \in 1 .. Octets PROVE ToMapped(ip.octets)[i] \in Octet
      BY <2>2, <2>3, Sizes DEF ToMapped
    <2> QED BY <2>1, <2>4 DEF Normalized, ToMapped
  <1> QED BY <1>1, <1>2 DEF IpAddr

\* A mask is a tuple of octets.
LEMMA MaskType ==
  ASSUME NEW p \in Nat
  PROVE  ComputeMask(p) \in [1 .. Octets -> Octet]
  <1> DEFINE rest == p % OctetBits
  <1>1. OctetBits \in Nat \ {0}
    BY Sizes
  <1>2. rest \in 0 .. (OctetBits - 1)
    BY <1>1, DivMod, Zenon
  <1> HIDE DEF rest
  <1>3. 1 .. rest \in Octet /\ Ones \in Octet /\ {} \in Octet
    BY <1>1, <1>2 DEF Octet, Ones
  <1>4. ASSUME NEW i \in 1 .. Octets PROVE ComputeMask(p)[i] \in Octet
    BY <1>3 DEF ComputeMask, rest
  <1> QED BY <1>4 DEF ComputeMask

\* contains() compares the bits the prefix fixes.
LEMMA ContainsBits ==
  ASSUME NEW a \in [1 .. Octets -> Octet], NEW b \in [1 .. Octets -> Octet], NEW p \in Nat
  PROVE  (\A i \in 1 .. Octets : a[i] \cap ComputeMask(p)[i] = b[i] \cap ComputeMask(p)[i])
           <=> \A i \in 1 .. Octets, k \in Ones :
                 Place(i, k) <= p => (k \in a[i] <=> k \in b[i])
  <1>1. ASSUME NEW i \in 1 .. Octets
        PROVE  a[i] \cap ComputeMask(p)[i] = b[i] \cap ComputeMask(p)[i]
                 <=> \A k \in Ones : Place(i, k) <= p => (k \in a[i] <=> k \in b[i])
    <2>1. \A k \in Ones : k \in ComputeMask(p)[i] <=> Place(i, k) <= p
      BY MaskBits
    <2>2. a[i] \subseteq Ones /\ b[i] \subseteq Ones
      BY DEF Octet, Ones
    <2>3. a[i] \cap ComputeMask(p)[i] = b[i] \cap ComputeMask(p)[i]
            <=> \A k \in Ones : k \in ComputeMask(p)[i] => (k \in a[i] <=> k \in b[i])
      BY <2>2, Zenon
    <2> QED BY <2>1, <2>3, Zenon
  <1> QED BY <1>1, Zenon

\* The reference's string of bits is the one to_ipv6_mapped makes.
LEMMA BitsOf ==
  ASSUME NEW ip \in IpAddr, NEW i \in 1 .. Octets, NEW k \in Ones
  PROVE  Place(i, k) \in AddrBits(ip) <=> k \in Normalized(ip)[i]
  <1>1. i \in Nat \ {0} /\ \A j \in 1 .. Octets : j \in Nat \ {0}
    BY Sizes
  <1>2. CASE ip \in V6Addr
    <2>1. ip.fam # "v4" /\ ip.octets \in [1 .. Octets -> Octet]
      BY <1>2 DEF V6Addr
    <2>2. Place(i, k) \in AddrBits(ip)
            <=> \E j \in 1 .. Octets : \E l \in ip.octets[j] : Place(i, k) = Place(j, l)
      BY <2>1 DEF AddrBits, Place
    <2>3. \A j \in 1 .. Octets : ip.octets[j] \subseteq Ones
      BY <2>1 DEF Octet, Ones
    <2>4. Place(i, k) \in AddrBits(ip) <=> k \in ip.octets[i]
      BY <1>1, <2>2, <2>3, PlaceUnique
    <2> QED BY <2>1, <2>4 DEF Normalized
  <1>3. CASE ip \in V4Addr
    <2>1. ip.fam = "v4" /\ ip.octets \in [1 .. V4Octets -> Octet]
      BY <1>3 DEF V4Addr
    <2> DEFINE lead == Octets - V4Octets
    <2>2. \A j \in 1 .. V4Octets : ip.octets[j] \subseteq Ones
      BY <2>1 DEF Octet, Ones
    <2>3. lead \in Nat /\ \A j \in 1 .. V4Octets : j \in Nat /\ lead + j \in 1 .. Octets
      BY Sizes
    <2>4. ASSUME NEW j \in 1 .. V4Octets, NEW l \in Ones
          PROVE  V4Shift + OctetBits * (j - 1) + l = Place(lead + j, l)
      <3>1. OctetBits * ((lead + j) - 1) = OctetBits * lead + OctetBits * (j - 1)
        BY <2>3, Sizes
      <3>2. V4Shift = OctetBits * lead /\ OctetBits * lead \in Int /\ OctetBits * (j - 1) \in Int /\ l \in Int
        BY <2>3, Sizes DEF Ones
      <3>3. Place(lead + j, l) = OctetBits * ((lead + j) - 1) + l
        BY DEF Place
      <3> HIDE DEF lead
      <3> QED BY <3>1, <3>2, <3>3
    <2>5. Place(i, k) \in AddrBits(ip)
            <=> \/ Place(i, k) \in (V4Shift - OctetBits * MappedOnes + 1 .. V4Shift)
                \/ \E j \in 1 .. V4Octets : \E l \in ip.octets[j] :
                      Place(i, k) = V4Shift + OctetBits * (j - 1) + l
      BY <2>1 DEF AddrBits
    <2>6. (\E j \in 1 .. V4Octets : \E l \in ip.octets[j] :
             Place(i, k) = V4Shift + OctetBits * (j - 1) + l)
            <=> \E j \in 1 .. V4Octets : i = lead + j /\ k \in ip.octets[j]
      BY <1>1, <2>2, <2>3, <2>4, PlaceUnique
    <2>7. Place(i, k) \in (V4Shift - OctetBits * MappedOnes + 1 .. V4Shift)
            <=> i <= lead /\ i > lead - MappedOnes
      <3> DEFINE from == lead - MappedOnes
      <3>1. from \in Nat /\ MappedOnes \in Nat
        BY Sizes
      <3>2. V4Shift = OctetBits * lead /\ OctetBits * lead \in Nat /\ OctetBits * from \in Nat
        BY <2>3, <3>1, Sizes
      <3>3. V4Shift - OctetBits * MappedOnes = OctetBits * from
        BY <2>3, <3>1, Sizes
      <3> HIDE DEF lead, from
      <3>4. /\ Place(i, k) \in Nat /\ OctetBits * (i - 1) < Place(i, k)
            /\ Place(i, k) <= OctetBits * i
            /\ OctetBits * i \in Nat /\ OctetBits * (i - 1) \in Nat
        BY <1>1, PlaceBounds, Sizes
      <3>5. i <= lead => OctetBits * i <= OctetBits * lead
        BY <1>1, <2>3, Sizes, TimesGrows
      <3>6. i > lead => OctetBits * lead <= OctetBits * (i - 1)
        BY <1>1, <2>3, Sizes, TimesGrows
      <3>7. i <= from => OctetBits * i <= OctetBits * from
        BY <1>1, <3>1, Sizes, TimesGrows
      <3>8. i > from => OctetBits * from <= OctetBits * (i - 1)
        BY <1>1, <3>1, Sizes, TimesGrows
      <3>9. Place(i, k) > OctetBits * from <=> i > from
        BY <1>1, <3>1, <3>2, <3>4, <3>7, <3>8
      <3>10. Place(i, k) <= V4Shift <=> i <= lead
        BY <1>1, <2>3, <3>2, <3>4, <3>5, <3>6
      <3>11. Place(i, k) \in (V4Shift - OctetBits * MappedOnes + 1 .. V4Shift)
               <=> Place(i, k) > OctetBits * from /\ Place(i, k) <= V4Shift
        BY <3>2, <3>3, <3>4
      <3> QED BY <3>9, <3>10, <3>11 DEF from
    <2>8. Normalized(ip)[i] = ToMapped(ip.octets)[i]
      BY <2>1 DEF Normalized
    <2>9. CASE i <= lead - MappedOnes
      <3>1. ToMapped(ip.octets)[i] = {}
        BY <1>1, <2>3, <2>9, Sizes DEF ToMapped
      <3>2. i <= lead /\ ~ (i > lead - MappedOnes)
        BY <1>1, <2>3, <2>9, Sizes
      <3>3. \A j \in 1 .. V4Octets : i # lead + j
        BY <1>1, <2>3, <3>2
      <3> HIDE DEF lead
      <3> QED BY <2>5, <2>6, <2>7, <2>8, <3>1, <3>2, <3>3
    <2>10. CASE i > lead - MappedOnes /\ i <= lead
      BY <1>1, <2>3, <2>5, <2>7, <2>8, <2>10, Sizes DEF ToMapped
    <2>11. CASE i > lead
      <3>1. i - lead \in 1 .. V4Octets
        BY <1>1, <2>3, <2>11, Sizes
      <3>2. ToMapped(ip.octets)[i] = ip.octets[i - lead]
        BY <2>3, <2>11, Sizes DEF ToMapped
      <3>3. \A j \in 1 .. V4Octets : i = lead + j <=> j = i - lead
        BY <1>1, <2>3
      <3>4. ~ (i <= lead)
        BY <1>1, <2>3, <2>11
      <3>5. Place(i, k) \in AddrBits(ip) <=> k \in ip.octets[i - lead]
        <4> HIDE DEF lead
        <4> QED BY <2>5, <2>6, <2>7, <3>1, <3>3, <3>4
      <3> QED BY <2>8, <3>2, <3>5
    <2> QED BY <1>1, <2>3, <2>9, <2>10, <2>11, Sizes
  <1> QED BY <1>2, <1>3 DEF IpAddr

\* The bits of n octets are the first OctetBits * n.
LEMMA PlaceInside ==
  ASSUME NEW n \in Nat, NEW i \in 1 .. n, NEW k \in Ones
  PROVE  Place(i, k) \in 1 .. (OctetBits * n)
  <1>1. i \in Nat \ {0} /\ i - 1 \in Nat /\ i <= n /\ OctetBits \in Nat
    BY Sizes
  <1>2. OctetBits * i <= OctetBits * n
    BY <1>1, TimesGrows
  <1>3. OctetBits * (i - 1) \in Nat /\ OctetBits * i \in Nat /\ OctetBits * n \in Nat
    BY <1>1
  <1>4. Place(i, k) \in Nat /\ OctetBits * (i - 1) < Place(i, k) /\ Place(i, k) <= OctetBits * i
    BY <1>1, PlaceBounds
  <1> HIDE DEF Place
  <1> QED BY <1>2, <1>3, <1>4

\* An address has no bits but those of the IPv6 space.
LEMMA BitsInside ==
  ASSUME NEW ip \in IpAddr
  PROVE  AddrBits(ip) \subseteq 1 .. V6Bits
  <1>1. CASE ip \in V6Addr
    <2>1. ip.fam # "v4" /\ ip.octets \in [1 .. Octets -> Octet]
      BY <1>1 DEF V6Addr
    <2>2. \A j \in 1 .. Octets : ip.octets[j] \subseteq Ones
      BY <2>1 DEF Octet, Ones
    <2>3. ASSUME NEW b \in AddrBits(ip)
          PROVE  \E j \in 1 .. Octets : \E l \in Ones : b = Place(j, l)
      <3>1. PICK j \in 1 .. Octets : b \in {OctetBits * (j - 1) + l : l \in ip.octets[j]}
        BY <2>1, <2>3 DEF AddrBits
      <3>2. PICK l \in ip.octets[j] : b = OctetBits * (j - 1) + l
        BY <3>1
      <3> QED BY <2>2, <3>2 DEF Place
    <2> QED BY <2>3, PlaceInside, Sizes DEF V6Bits
  <1>2. CASE ip \in V4Addr
    <2>1. ip.fam = "v4" /\ ip.octets \in [1 .. V4Octets -> Octet]
      BY <1>2 DEF V4Addr
    <2>2. \A j \in 1 .. V4Octets : ip.octets[j] \subseteq Ones
      BY <2>1 DEF Octet, Ones
    <2>3. ASSUME NEW b \in AddrBits(ip)
          PROVE  \/ b \in V4Shift - OctetBits * MappedOnes + 1 .. V4Shift
                 \/ \E j \in 1 .. V4Octets : \E l \in Ones : b = V4Shift + OctetBits * (j - 1) + l
      BY <2>1, <2>2, <2>3 DEF AddrBits
    <2>4. V4Octets \in Nat /\ V6Bits = V4Shift + V4Bits
      BY Sizes DEF V4Shift
    <2>5. ASSUME NEW j \in 1 .. V4Octets, NEW l \in Ones
          PROVE  V4Shift + OctetBits * (j - 1) + l \in 1 .. V6Bits
      <3>1. Place(j, l) \in 1 .. V4Bits
        BY <2>4, PlaceInside DEF V4Bits
      <3>2. OctetBits * (j - 1) \in Int /\ l \in Int
        BY <2>4, Sizes DEF Ones
      <3>3. V4Shift + OctetBits * (j - 1) + l = V4Shift + Place(j, l)
        BY <3>2, Sizes DEF Place
      <3> QED BY <2>4, <3>1, <3>3, Sizes
    <2>6. V4Shift - OctetBits * MappedOnes + 1 .. V4Shift \subseteq 1 .. V6Bits
      BY <2>4, Sizes
    <2> QED BY <2>3, <2>5, <2>6
  <1> QED BY <1>1, <1>2 DEF IpAddr

\* The bits a text fixes are the first ones, up to the prefix the parsers compute.
LEMMA NetBitsAre ==
  ASSUME NEW text \in CidrText
  PROVE  /\ HostBits(text) >= 0 <=> text.prefix <= MaxPrefix(text.ip.fam)
         /\ AdjustedPrefix(text.ip.fam, text.prefix) \in Nat
         /\ NetBits(text) = 1 .. AdjustedPrefix(text.ip.fam, text.prefix)
         /\ HostBits(text) >= 0 => AdjustedPrefix(text.ip.fam, text.prefix) <= V6Bits
  <1>1. text.prefix \in Nat
    BY DEF CidrText
  <1>2. V4Shift \in Nat /\ V4Bits \in Nat /\ V6Bits \in Nat /\ V6Bits = V4Shift + V4Bits
    BY Sizes DEF V4Shift
  <1>3. CASE text.ip.fam = "v4"
    <2>1. /\ HostBits(text) = V4Bits - text.prefix
          /\ MaxPrefix(text.ip.fam) = V4Bits
          /\ AdjustedPrefix(text.ip.fam, text.prefix) = text.prefix + V4Shift
      BY <1>3 DEF HostBits, MaxPrefix, AdjustedPrefix
    <2> QED BY <1>1, <1>2, <2>1 DEF NetBits
  <1>4. CASE text.ip.fam # "v4"
    <2>1. /\ HostBits(text) = V6Bits - text.prefix
          /\ MaxPrefix(text.ip.fam) = V6Bits
          /\ AdjustedPrefix(text.ip.fam, text.prefix) = text.prefix
      BY <1>4 DEF HostBits, MaxPrefix, AdjustedPrefix
    <2> QED BY <1>1, <1>2, <2>1 DEF NetBits
  <1> QED BY <1>3, <1>4

\* Two strings of bits begin alike when the octets agree up to the place.
LEMMA SameFirstBits ==
  ASSUME NEW a \in IpAddr, NEW b \in IpAddr, NEW p \in 0 .. V6Bits
  PROVE  AddrBits(a) \cap (1 .. p) = AddrBits(b) \cap (1 .. p)
           <=> \A i \in 1 .. Octets, k \in Ones :
                 Place(i, k) <= p => (k \in Normalized(a)[i] <=> k \in Normalized(b)[i])
  <1>1. AddrBits(a) \cap (1 .. p) = AddrBits(b) \cap (1 .. p)
          <=> \A n \in 1 .. p : n \in AddrBits(a) <=> n \in AddrBits(b)
    OBVIOUS
  <1>2. \A i \in 1 .. Octets, k \in Ones : Place(i, k) \in 1 .. V6Bits
    BY PlaceInside, Sizes DEF V6Bits
  <1>3. \A n \in 1 .. V6Bits : \E i \in 1 .. Octets, k \in Ones : n = Place(i, k)
    BY PlaceExists, Sizes DEF V6Bits
  <1>4. \A n \in 1 .. p : n \in 1 .. V6Bits
    BY Sizes
  <1>5. (\A n \in 1 .. p : n \in AddrBits(a) <=> n \in AddrBits(b))
          <=> \A i \in 1 .. Octets, k \in Ones :
                Place(i, k) <= p => (Place(i, k) \in AddrBits(a) <=> Place(i, k) \in AddrBits(b))
    BY <1>2, <1>3, <1>4
  <1> QED BY <1>1, <1>5, BitsOf

\* contains() of a parsed range means what the text means.
LEMMA RangeCovers ==
  ASSUME NEW text \in CidrText, ParsesLoose(text), NEW source, NEW ip \in IpAddr
  PROVE  CidrContains(ParsedCidr(text, source), ip) <=> RefCovers(text, ip)
  <1> DEFINE p == AdjustedPrefix(text.ip.fam, text.prefix)
             a == Normalized(ip)
             b == Normalized(text.ip)
  <1>1. text.ip \in IpAddr /\ text.form = "canonical" /\ HostBits(text) >= 0
    BY NetBitsAre DEF CidrText, ParsesLoose
  <1>2. p \in 0 .. V6Bits /\ p \in Nat /\ NetBits(text) = 1 .. p
    BY <1>1, NetBitsAre, Sizes
  <1>3. a \in [1 .. Octets -> Octet] /\ b \in [1 .. Octets -> Octet]
    BY <1>1, NormalType
  <1>4. CidrContains(ParsedCidr(text, source), ip)
          <=> \A i \in 1 .. Octets : a[i] \cap ComputeMask(p)[i] = b[i] \cap ComputeMask(p)[i]
    BY DEF CidrContains, ParsedCidr
  <1>5. RefCovers(text, ip) <=> AddrBits(ip) \cap (1 .. p) = AddrBits(text.ip) \cap (1 .. p)
    BY <1>1, <1>2 DEF RefCovers
  <1> HIDE DEF p, a, b
  <1>6. (\A i \in 1 .. Octets : a[i] \cap ComputeMask(p)[i] = b[i] \cap ComputeMask(p)[i])
          <=> \A i \in 1 .. Octets, k \in Ones : Place(i, k) <= p => (k \in a[i] <=> k \in b[i])
    BY <1>2, <1>3, ContainsBits
  <1>7. AddrBits(ip) \cap (1 .. p) = AddrBits(text.ip) \cap (1 .. p)
          <=> \A i \in 1 .. Octets, k \in Ones : Place(i, k) <= p => (k \in a[i] <=> k \in b[i])
    BY <1>1, <1>2, SameFirstBits DEF a, b
  <1> QED BY <1>4, <1>5, <1>6, <1>7

\* A text that covers an address parses.
LEMMA CoversParses ==
  ASSUME NEW text \in CidrText, NEW ip, RefCovers(text, ip)
  PROVE  ParsesLoose(text)
  BY NetBitsAre DEF RefCovers, ParsesLoose

\* parse() refuses exactly the texts with a bit behind the prefix.
LEMMA StrictMeans ==
  ASSUME NEW text \in CidrText
  PROVE  ParsesStrict(text) <=> ParsesLoose(text) /\ AddrBits(text.ip) \subseteq NetBits(text)
  <1> DEFINE p == AdjustedPrefix(text.ip.fam, text.prefix)
             b == Normalized(text.ip)
  <1> SUFFICES ASSUME ParsesLoose(text)
               PROVE  (\A i \in 1 .. Octets : b[i] \ ComputeMask(p)[i] = {})
                        <=> AddrBits(text.ip) \subseteq NetBits(text)
    BY DEF ParsesStrict
  <1>1. text.ip \in IpAddr
    BY DEF CidrText
  <1>2. p \in Nat /\ NetBits(text) = 1 .. p
    BY NetBitsAre
  <1>3. \A i \in 1 .. Octets : b[i] \subseteq Ones
    BY <1>1, NormalType DEF Octet, Ones
  <1>4. \A i \in 1 .. Octets, k \in Ones : k \in ComputeMask(p)[i] <=> Place(i, k) <= p
    BY <1>2, MaskBits
  <1>5. \A i \in 1 .. Octets, k \in Ones : Place(i, k) \in AddrBits(text.ip) <=> k \in b[i]
    BY <1>1, BitsOf
  <1> HIDE DEF p, b
  <1>6. (\A i \in 1 .. Octets : b[i] \ ComputeMask(p)[i] = {})
          <=> \A i \in 1 .. Octets, k \in Ones : k \in b[i] => Place(i, k) <= p
    BY <1>3, <1>4
  <1>7. AddrBits(text.ip) \subseteq 1 .. V6Bits
    BY <1>1, BitsInside
  <1>8. \A n \in 1 .. V6Bits : \E i \in 1 .. Octets, k \in Ones : n = Place(i, k)
    BY PlaceExists, Sizes DEF V6Bits
  <1>9. AddrBits(text.ip) \subseteq 1 .. p <=> \A n \in AddrBits(text.ip) : n <= p
    BY <1>2, <1>7, Sizes
  <1>10. (\A n \in AddrBits(text.ip) : n <= p)
          <=> \A i \in 1 .. Octets, k \in Ones : k \in b[i] => Place(i, k) <= p
    BY <1>5, <1>7, <1>8
  <1> QED BY <1>2, <1>6, <1>9, <1>10

\* A text that parses becomes a range.
LEMMA ParsedType ==
  ASSUME NEW text \in CidrText, ParsesLoose(text), NEW source \in DataTier
  PROVE  ParsedCidr(text, source) \in CidrRange
  <1> DEFINE p == AdjustedPrefix(text.ip.fam, text.prefix)
             b == Normalized(text.ip)
  <1>1. p \in 0 .. V6Bits /\ p \in Nat
    BY NetBitsAre, Sizes DEF ParsesLoose
  <1>2. b \in [1 .. Octets -> Octet] /\ ComputeMask(p) \in [1 .. Octets -> Octet]
    BY <1>1, NormalType, MaskType DEF CidrText
  <1>3. [i \in 1 .. Octets |-> b[i] \cap ComputeMask(p)[i]] \in [1 .. Octets -> Octet]
    BY <1>2 DEF Octet
  <1> HIDE DEF p, b
  <1>4. [network |-> [i \in 1 .. Octets |-> b[i] \cap ComputeMask(p)[i]], prefix_len |-> p,
         mask |-> ComputeMask(p), original |-> text, source |-> source] \in CidrRange
    BY <1>1, <1>2, <1>3 DEF CidrRange
  <1> QED BY <1>4 DEF ParsedCidr, p, b

-----------------------------------------------------------------------------
(***************************************************************************)
(* Lists of texts.                                                         *)
(***************************************************************************)
\* One turn of the loop of KeepAt.
KeepTurn(s, kept, f, n) ==
  IF n = 0 THEN <<>>
  ELSE IF n \in kept THEN Append(f[n - 1], s[n]) ELSE f[n - 1]

\* The function KeepAt recurs on exists.
LEMMA KeepLoop ==
  ASSUME NEW s, NEW kept, Len(s) \in Nat
  PROVE  \E f : /\ \A n \in 0 .. Len(s) : f[n] = KeepTurn(s, kept, f, n)
                /\ KeepAt(s, kept) = f[Len(s)]
  <1> DEFINE Loop(m) == \E f : f = [n \in 0 .. m |-> KeepTurn(s, kept, f, n)]
             Good == {m \in Nat : Loop(m)}
  <1>1. Loop(0)
    <2>1. [n \in 0 .. 0 |-> <<>>] =
            [n \in 0 .. 0 |-> KeepTurn(s, kept, [k \in 0 .. 0 |-> <<>>], n)]
      BY DEF KeepTurn
    <2> QED BY <2>1
  <1>2. ASSUME NEW m \in Nat, Loop(m) PROVE Loop(m + 1)
    <2>1. PICK f : f = [n \in 0 .. m |-> KeepTurn(s, kept, f, n)]
      BY <1>2
    <2> DEFINE g == [n \in 0 .. (m + 1) |->
                       IF n <= m THEN f[n] ELSE KeepTurn(s, kept, f, m + 1)]
    <2>2. ASSUME NEW n \in 0 .. (m + 1) PROVE g[n] = KeepTurn(s, kept, g, n)
      <3>1. n # 0 => n - 1 \in 0 .. m /\ g[n - 1] = f[n - 1]
        OBVIOUS
      <3>2. n <= m => f[n] = KeepTurn(s, kept, f, n)
        BY <2>1
      <3>3. g[n] = KeepTurn(s, kept, f, n)
        BY <3>2
      <3> QED BY <3>1, <3>3 DEF KeepTurn
    <2>3. g = [n \in 0 .. (m + 1) |-> KeepTurn(s, kept, g, n)]
      BY <2>2
    <2> QED BY <2>3
  <1> HIDE DEF Loop
  <1>3. Good = Nat
    <2>1. Good \in SUBSET Nat /\ 0 \in Good
      BY <1>1
    <2>2. \A m \in Good : m + 1 \in Good
      BY <1>2
    <2> HIDE DEF Good
    <2> QED BY <2>1, <2>2, AllNat
  <1>4. Loop(Len(s))
    BY <1>3
  <1>5. \E f : /\ f = [n \in 0 .. Len(s) |-> KeepTurn(s, kept, f, n)]
               /\ KeepAt(s, kept) = f[Len(s)]
    BY <1>4 DEF KeepAt, KeepTurn, Loop
  <1> QED BY <1>5

\* The elements of s kept among the first n differ from each other.
KeptDiffer(s, kept, n) ==
  \A i, j \in 1 .. n : i \in kept /\ j \in kept /\ s[i] = s[j] => i = j

\* No element of out is another one too.
NoneTwice(out) == \A k, m \in 1 .. Len(out) : out[k] = out[m] => k = m

\* out holds the elements of s kept among the first n, and no others.
KeptFrom(S, s, kept, out, n) ==
  /\ out \in Seq(S)
  /\ \A k \in 1 .. Len(out) : \E i \in 1 .. n : i \in kept /\ out[k] = s[i]
  /\ \A i \in 1 .. n : i \in kept => \E k \in 1 .. Len(out) : out[k] = s[i]
  /\ Len(out) <= n
  /\ Len(out) = n <=> (\A i \in 1 .. n : i \in kept)
  /\ KeptDiffer(s, kept, n) => NoneTwice(out)

\* A turn of the loop that keeps an element.
LEMMA KeepOne ==
  ASSUME NEW S, NEW s, NEW kept, NEW n \in Nat, NEW old,
         KeptFrom(S, s, kept, old, n), n + 1 \in kept, s[n + 1] \in S
  PROVE  KeptFrom(S, s, kept, Append(old, s[n + 1]), n + 1)
  <1> DEFINE new == Append(old, s[n + 1])
  <1>1. /\ old \in Seq(S) /\ Len(old) \in Nat /\ Len(old) <= n
        /\ Len(old) = n <=> (\A i \in 1 .. n : i \in kept)
    BY DEF KeptFrom
  <1>2. /\ new \in Seq(S) /\ Len(new) = Len(old) + 1
        /\ \A k \in 1 .. Len(old) : new[k] = old[k]
        /\ new[Len(old) + 1] = s[n + 1]
    BY <1>1, AppendProperties
  <1> HIDE DEF new
  <1>3. \A k \in 1 .. Len(new) : k \in 1 .. Len(old) \/ k = Len(old) + 1
    BY <1>1, <1>2
  <1>4. \A i \in 1 .. (n + 1) : i \in 1 .. n \/ i = n + 1
    OBVIOUS
  <1>5. \A i \in 1 .. n : i \in 1 .. (n + 1)
    OBVIOUS
  <1>6. \A k \in 1 .. Len(new) : \E i \in 1 .. (n + 1) : i \in kept /\ new[k] = s[i]
    <2>1. \A k \in 1 .. Len(old) : \E i \in 1 .. n : i \in kept /\ old[k] = s[i]
      BY DEF KeptFrom
    <2>2. ASSUME NEW k \in 1 .. Len(new), k \in 1 .. Len(old)
          PROVE  \E i \in 1 .. (n + 1) : i \in kept /\ new[k] = s[i]
      <3>1. PICK i \in 1 .. n : i \in kept /\ old[k] = s[i]
        BY <2>1, <2>2
      <3>2. i \in 1 .. (n + 1) /\ new[k] = old[k]
        BY <1>2, <1>5, <2>2
      <3> QED BY <3>1, <3>2
    <2>3. n + 1 \in 1 .. (n + 1)
      OBVIOUS
    <2> QED BY <1>2, <1>3, <2>2, <2>3
  <1>7. \A i \in 1 .. (n + 1) : i \in kept => \E k \in 1 .. Len(new) : new[k] = s[i]
    <2>1. \A i \in 1 .. n : i \in kept => \E k \in 1 .. Len(old) : old[k] = s[i]
      BY DEF KeptFrom
    <2>2. \A k \in 1 .. Len(old) : k \in 1 .. Len(new)
      BY <1>1, <1>2
    <2>3. Len(old) + 1 \in 1 .. Len(new)
      BY <1>1, <1>2
    <2>4. ASSUME NEW i \in 1 .. n, i \in kept
          PROVE  \E k \in 1 .. Len(new) : new[k] = s[i]
      <3>1. PICK k \in 1 .. Len(old) : old[k] = s[i]
        BY <2>1, <2>4
      <3> QED BY <1>2, <2>2, <3>1
    <2> QED BY <1>2, <1>4, <2>3, <2>4
  <1>8. Len(new) <= n + 1
    BY <1>1, <1>2
  <1>9. Len(new) = n + 1 <=> (\A i \in 1 .. (n + 1) : i \in kept)
    <2>1. Len(new) = n + 1 <=> Len(old) = n
      BY <1>1, <1>2
    <2>2. (\A i \in 1 .. (n + 1) : i \in kept) <=> (\A i \in 1 .. n : i \in kept)
      BY <1>4, <1>5
    <2> QED BY <1>1, <2>1, <2>2
  <1>10. ASSUME KeptDiffer(s, kept, n + 1) PROVE NoneTwice(new)
    <2>1. NoneTwice(old)
      BY <1>5, <1>10 DEF KeptDiffer, KeptFrom
    <2>2. \A k \in 1 .. Len(old) : old[k] # s[n + 1]
      <3> SUFFICES ASSUME NEW k \in 1 .. Len(old), old[k] = s[n + 1] PROVE FALSE
        OBVIOUS
      <3>1. PICK i \in 1 .. n : i \in kept /\ old[k] = s[i]
        BY DEF KeptFrom
      <3>2. i \in 1 .. (n + 1) /\ n + 1 \in 1 .. (n + 1) /\ i # n + 1
        OBVIOUS
      <3> QED BY <1>10, <3>1, <3>2 DEF KeptDiffer
    <2>3. ASSUME NEW k \in 1 .. Len(new), NEW m \in 1 .. Len(new), new[k] = new[m]
          PROVE  k = m
      <3>1. CASE k \in 1 .. Len(old) /\ m \in 1 .. Len(old)
        BY <1>2, <2>1, <2>3, <3>1 DEF NoneTwice
      <3>2. CASE k = Len(old) + 1 /\ m \in 1 .. Len(old)
        BY <1>2, <2>2, <2>3, <3>2
      <3>3. CASE m = Len(old) + 1 /\ k \in 1 .. Len(old)
        BY <1>2, <2>2, <2>3, <3>3
      <3> QED BY <1>3, <3>1, <3>2, <3>3
    <2> QED BY <2>3 DEF NoneTwice
  <1> QED BY <1>2, <1>6, <1>7, <1>8, <1>9, <1>10 DEF KeptFrom, new

\* A turn of the loop that skips one.
LEMMA SkipOne ==
  ASSUME NEW S, NEW s, NEW kept, NEW n \in Nat, NEW old,
         KeptFrom(S, s, kept, old, n), n + 1 \notin kept
  PROVE  KeptFrom(S, s, kept, old, n + 1)
  <1>1. /\ old \in Seq(S) /\ Len(old) \in Nat /\ Len(old) <= n
    BY DEF KeptFrom
  <1>2. \A i \in 1 .. (n + 1) : i \in 1 .. n \/ i = n + 1
    OBVIOUS
  <1>3. \A i \in 1 .. n : i \in 1 .. (n + 1)
    OBVIOUS
  <1>4. \A k \in 1 .. Len(old) : \E i \in 1 .. (n + 1) : i \in kept /\ old[k] = s[i]
    BY <1>3 DEF KeptFrom
  <1>5. \A i \in 1 .. (n + 1) : i \in kept => \E k \in 1 .. Len(old) : old[k] = s[i]
    BY <1>2 DEF KeptFrom
  <1>6. Len(old) <= n + 1 /\ Len(old) # n + 1 /\ n + 1 \in 1 .. (n + 1)
    BY <1>1
  <1>7. KeptDiffer(s, kept, n + 1) => NoneTwice(old)
    BY <1>3 DEF KeptDiffer, KeptFrom
  <1> QED BY <1>1, <1>4, <1>5, <1>6, <1>7 DEF KeptFrom

\* What KeepAt returns.
LEMMA KeepAtIs ==
  ASSUME NEW S, NEW s, NEW kept, Len(s) \in Nat,
         \A i \in 1 .. Len(s) : i \in kept => s[i] \in S
  PROVE  KeptFrom(S, s, kept, KeepAt(s, kept), Len(s))
  <1>1. PICK f : /\ \A n \in 0 .. Len(s) : f[n] = KeepTurn(s, kept, f, n)
                 /\ KeepAt(s, kept) = f[Len(s)]
    BY KeepLoop
  <1> DEFINE Good == {n \in Nat : n <= Len(s) => KeptFrom(S, s, kept, f[n], n)}
  <1>2. 0 \in Good
    <2>1. f[0] = <<>>
      BY <1>1 DEF KeepTurn
    <2>2. Len(<<>>) = 0 /\ <<>> \in Seq(S)
      OBVIOUS
    <2>3. KeptFrom(S, s, kept, <<>>, 0)
      BY <2>2 DEF KeptFrom, NoneTwice
    <2> QED BY <2>1, <2>3
  <1>3. ASSUME NEW n \in Good PROVE n + 1 \in Good
    <2>1. n \in Nat /\ (n <= Len(s) => KeptFrom(S, s, kept, f[n], n))
      OBVIOUS
    <2>2. ASSUME n + 1 <= Len(s) PROVE KeptFrom(S, s, kept, f[n + 1], n + 1)
      <3>1. KeptFrom(S, s, kept, f[n], n) /\ n + 1 \in 1 .. Len(s)
        BY <2>1, <2>2
      <3>2. f[n + 1] = IF n + 1 \in kept THEN Append(f[n], s[n + 1]) ELSE f[n]
        <4>1. f[n + 1] = KeepTurn(s, kept, f, n + 1)
          BY <1>1, <3>1
        <4>2. n + 1 # 0 /\ (n + 1) - 1 = n
          BY <2>1
        <4> QED BY <4>1, <4>2 DEF KeepTurn
      <3> QED BY <2>1, <3>1, <3>2, KeepOne, SkipOne
    <2> QED BY <2>1, <2>2
  <1>4. Good = Nat
    <2>1. Good \in SUBSET Nat
      OBVIOUS
    <2> HIDE DEF Good
    <2> QED BY <1>2, <1>3, <2>1, AllNat
  <1> QED BY <1>1, <1>4

\* The ranges of one tier that a list of texts gives: the texts that parse,
\* none else.
GivesRanges(list, texts, good, source) ==
  /\ list \in Seq(CidrRange)
  /\ \A k \in 1 .. Len(list) :
       \E i \in 1 .. Len(texts) : i \in good /\ list[k] = ParsedCidr(texts[i], source)
  /\ \A i \in 1 .. Len(texts) :
       i \in good => \E k \in 1 .. Len(list) : list[k] = ParsedCidr(texts[i], source)
  /\ Len(list) <= Len(texts)
  /\ Len(list) = Len(texts) <=> (\A i \in 1 .. Len(texts) : i \in good)

\* What the loops over a list of texts return.
LEMMA KeptRanges ==
  ASSUME NEW texts \in Seq(CidrText), NEW source \in DataTier, NEW good,
         \A i \in 1 .. Len(texts) : i \in good => ParsesLoose(texts[i])
  PROVE  GivesRanges(KeepAt([i \in DOMAIN texts |-> ParsedCidr(texts[i], source)], good),
                     texts, good, source)
  <1> DEFINE all == [i \in DOMAIN texts |-> ParsedCidr(texts[i], source)]
  <1>1. Len(texts) \in Nat /\ DOMAIN texts = 1 .. Len(texts)
    OBVIOUS
  <1>2. Len(all) = Len(texts) /\ \A i \in 1 .. Len(texts) : all[i] = ParsedCidr(texts[i], source)
    BY <1>1
  <1>3. \A i \in 1 .. Len(texts) : i \in good => all[i] \in CidrRange
    BY <1>2, ParsedType
  <1> HIDE DEF all
  <1>4. KeptFrom(CidrRange, all, good, KeepAt(all, good), Len(all))
    BY <1>1, <1>2, <1>3, KeepAtIs
  <1>5. GivesRanges(KeepAt(all, good), texts, good, source)
    BY <1>2, <1>4 DEF KeptFrom, GivesRanges
  <1> QED BY <1>5 DEF all

\* from_texts and the builder's loops give the ranges of the texts that parse.
LEMMA LooseGives ==
  ASSUME NEW texts \in Seq(CidrText), NEW source \in DataTier
  PROVE  GivesRanges(LooseCidrs(texts, source), texts,
                     {i \in DOMAIN texts : ParsesLoose(texts[i])}, source)
  BY KeptRanges DEF LooseCidrs

\* default_deny_set gives the ranges of the texts without host bits.
LEMMA StrictGives ==
  ASSUME NEW texts \in Seq(CidrText), NEW source \in DataTier
  PROVE  GivesRanges(StrictCidrs(texts, source), texts,
                     {i \in DOMAIN texts : ParsesStrict(texts[i])}, source)
  <1>1. \A i \in 1 .. Len(texts) :
          i \in {j \in DOMAIN texts : ParsesStrict(texts[j])} => ParsesLoose(texts[i])
    BY DEF ParsesStrict
  <1> QED BY <1>1, KeptRanges DEF StrictCidrs

\* An address is in a list of ranges when one of them contains it.
LEMMA InSetIs ==
  ASSUME NEW list \in Seq(CidrRange), NEW ip
  PROVE  InSet(list, ip) <=> \E k \in 1 .. Len(list) : CidrContains(list[k], ip)
  <1>1. DOMAIN list = 1 .. Len(list)
    OBVIOUS
  <1> QED BY <1>1, Zenon DEF InSet, Matches

\* A list of texts covers what its texts cover.
LEMMA LooseCovers ==
  ASSUME NEW texts \in Seq(CidrText), NEW source \in DataTier, NEW ip \in IpAddr
  PROVE  InSet(LooseCidrs(texts, source), ip)
           <=> \E i \in 1 .. Len(texts) : RefCovers(texts[i], ip)
  <1> DEFINE good == {i \in DOMAIN texts : ParsesLoose(texts[i])}
             list == LooseCidrs(texts, source)
  <1>1. GivesRanges(list, texts, good, source)
    BY LooseGives
  <1> HIDE DEF list
  <1>2. InSet(list, ip) <=> \E k \in 1 .. Len(list) : CidrContains(list[k], ip)
    BY <1>1, InSetIs DEF GivesRanges
  <1>3. \A i \in 1 .. Len(texts) : texts[i] \in CidrText /\ (i \in good <=> ParsesLoose(texts[i]))
    OBVIOUS
  <1>4. \A i \in 1 .. Len(texts) :
          i \in good => (CidrContains(ParsedCidr(texts[i], source), ip) <=> RefCovers(texts[i], ip))
    BY <1>3, RangeCovers
  <1>5. \A i \in 1 .. Len(texts) : RefCovers(texts[i], ip) => i \in good
    BY <1>3, CoversParses
  <1> HIDE DEF good
  <1> QED BY <1>1, <1>2, <1>4, <1>5 DEF list, GivesRanges

\* Parsed strictly, it covers what its texts without host bits cover.
LEMMA StrictCovers ==
  ASSUME NEW texts \in Seq(CidrText), NEW source \in DataTier, NEW ip \in IpAddr
  PROVE  InSet(StrictCidrs(texts, source), ip)
           <=> \E i \in 1 .. Len(texts) :
                 RefCovers(texts[i], ip) /\ AddrBits(texts[i].ip) \subseteq NetBits(texts[i])
  <1> DEFINE good == {i \in DOMAIN texts : ParsesStrict(texts[i])}
             list == StrictCidrs(texts, source)
             whole(i) == AddrBits(texts[i].ip) \subseteq NetBits(texts[i])
  <1>1. GivesRanges(list, texts, good, source)
    BY StrictGives
  <1> HIDE DEF list
  <1>2. InSet(list, ip) <=> \E k \in 1 .. Len(list) : CidrContains(list[k], ip)
    BY <1>1, InSetIs DEF GivesRanges
  <1>3. \A i \in 1 .. Len(texts) :
          texts[i] \in CidrText /\ (i \in good <=> ParsesLoose(texts[i]) /\ whole(i))
    <2>1. \A i \in 1 .. Len(texts) : texts[i] \in CidrText /\ (i \in good <=> ParsesStrict(texts[i]))
      OBVIOUS
    <2>2. ASSUME NEW i \in 1 .. Len(texts)
          PROVE  ParsesStrict(texts[i]) <=> ParsesLoose(texts[i]) /\ whole(i)
      <3>1. texts[i] \in CidrText
        BY <2>1
      <3> QED BY <3>1, StrictMeans
    <2> HIDE DEF good, whole
    <2> QED BY <2>1, <2>2, Zenon
  <1>4. \A i \in 1 .. Len(texts) :
          i \in good => (CidrContains(ParsedCidr(texts[i], source), ip) <=> RefCovers(texts[i], ip))
    BY <1>3, RangeCovers
  <1>5. \A i \in 1 .. Len(texts) : RefCovers(texts[i], ip) /\ whole(i) => i \in good
    BY <1>3, CoversParses
  <1>6. \A i \in 1 .. Len(texts) : i \in good => whole(i)
    BY <1>3
  <1> HIDE DEF good, whole
  <1>7. InSet(list, ip) <=> \E i \in 1 .. Len(texts) : RefCovers(texts[i], ip) /\ whole(i)
    <2>1. /\ \A k \in 1 .. Len(list) :
               \E i \in 1 .. Len(texts) : i \in good /\ list[k] = ParsedCidr(texts[i], source)
          /\ \A i \in 1 .. Len(texts) :
               i \in good => \E k \in 1 .. Len(list) : list[k] = ParsedCidr(texts[i], source)
      BY <1>1 DEF GivesRanges
    <2> QED BY <1>2, <1>4, <1>5, <1>6, <2>1
  <1> QED BY <1>7 DEF list, whole

-----------------------------------------------------------------------------
(***************************************************************************)
(* URL rules.  The recursion of glob_match_segments decides whether the    *)
(* path can be cut as the pattern says: the cuts of the suffixes obey the  *)
(* equation that defines the recursion, and induction over what is left of *)
(* pattern and path does the rest.                                         *)
(***************************************************************************)

\* The answers for all suffixes, computed from one another.
GlobTurn(pattern, path, f, at) ==
  LET i == at[1]
      j == at[2]
  IN IF i > Len(pattern) THEN j > Len(path)
     ELSE IF pattern[i] = "**"
          THEN f[<<i + 1, j>>] \/ (j <= Len(path) /\ f[<<i, j + 1>>])
          ELSE /\ j <= Len(path)
               /\ pattern[i] \in {"*", path[j]}
               /\ f[<<i + 1, j + 1>>]

GlobTable(pattern, path, f) ==
  [at \in (1 .. Len(pattern) + 1) \X (1 .. Len(path) + 1) |-> GlobTurn(pattern, path, f, at)]

\* A cut of the path behind j - 1 into pieces for the pattern behind i - 1.
CutFrom(pattern, path, i, j, cut) ==
  /\ cut \in [i - 1 .. Len(pattern) -> 0 .. Len(path)]
  /\ cut[i - 1] = j - 1 /\ cut[Len(pattern)] = Len(path)
  /\ \A k \in i .. Len(pattern) :
       /\ cut[k - 1] <= cut[k]
       /\ pattern[k] # "**" =>
            /\ cut[k] = cut[k - 1] + 1
            /\ pattern[k] \in {"*", path[cut[k]]}

RefFrom(pattern, path, i, j) == \E cut : CutFrom(pattern, path, i, j, cut)

\* Nothing is left of the pattern.
LEMMA CutEnds ==
  ASSUME NEW pattern, NEW path, Len(pattern) \in Nat, Len(path) \in Nat,
         NEW j \in 1 .. Len(path) + 1
  PROVE  RefFrom(pattern, path, Len(pattern) + 1, j) <=> j = Len(path) + 1
  <1> DEFINE m == Len(pattern)
             n == Len(path)
             cut == [k \in m .. m |-> n]
  <1>1. (m + 1) - 1 = m /\ m .. m = {m} /\ (m + 1) .. m = {}
    OBVIOUS
  <1>2. ASSUME NEW c, CutFrom(pattern, path, m + 1, j, c) PROVE j = n + 1
    <2>1. c[(m + 1) - 1] = j - 1 /\ c[m] = n
      BY <1>2 DEF CutFrom
    <2>2. j - 1 = n
      BY <1>1, <2>1
    <2> QED BY <2>2
  <1>3. ASSUME j = n + 1 PROVE CutFrom(pattern, path, m + 1, j, cut)
    <2>1. cut \in [m .. m -> 0 .. n] /\ cut[m] = n
      BY <1>1
    <2> HIDE DEF cut
    <2>2. n = j - 1
      BY <1>3
    <2>3. /\ cut \in [(m + 1) - 1 .. m -> 0 .. n]
          /\ cut[(m + 1) - 1] = j - 1 /\ cut[m] = n
      BY <1>1, <2>1, <2>2
    <2> QED BY <1>1, <2>3 DEF CutFrom
  <1> HIDE DEF cut
  <1> QED BY <1>2, <1>3 DEF RefFrom

\* The first piece of the pattern takes the path up to t.
Takes(pattern, path, i, j, t) ==
  /\ j - 1 <= t
  /\ pattern[i] # "**" => t = j /\ pattern[i] \in {"*", path[t]}

\* A cut begins with the piece of the first segment of the pattern.
LEMMA CutBegins ==
  ASSUME NEW pattern, NEW path, Len(pattern) \in Nat, Len(path) \in Nat,
         NEW i \in 1 .. Len(pattern), NEW j \in 1 .. Len(path) + 1
  PROVE  RefFrom(pattern, path, i, j)
           <=> \E t \in 0 .. Len(path) : /\ Takes(pattern, path, i, j, t)
                                         /\ RefFrom(pattern, path, i + 1, t + 1)
  <1> DEFINE m == Len(pattern)
             n == Len(path)
  <1>1. (i + 1) - 1 = i /\ i \in i - 1 .. m /\ m \in i .. m /\ i - 1 \in i - 1 .. m
    OBVIOUS
  <1>2. ASSUME NEW cut, CutFrom(pattern, path, i, j, cut)
        PROVE  \E t \in 0 .. n : /\ Takes(pattern, path, i, j, t)
                                 /\ RefFrom(pattern, path, i + 1, t + 1)
    <2> DEFINE t == cut[i]
               rest == [k \in i .. m |-> cut[k]]
    <2>1. t \in 0 .. n
      BY <1>1, <1>2 DEF CutFrom
    <2>2. Takes(pattern, path, i, j, t)
      <3>1. /\ cut[i - 1] <= cut[i] /\ cut[i - 1] = j - 1
            /\ pattern[i] # "**" => cut[i] = cut[i - 1] + 1 /\ pattern[i] \in {"*", path[cut[i]]}
        BY <1>1, <1>2 DEF CutFrom
      <3> QED BY <3>1 DEF Takes
    <2>3. CutFrom(pattern, path, i + 1, t + 1, rest)
      <3>1. \A k \in i .. m : k \in i - 1 .. m /\ rest[k] = cut[k]
        OBVIOUS
      <3>2. rest \in [i .. m -> 0 .. n]
        BY <1>2, <3>1 DEF CutFrom
      <3>3. rest[i] = t /\ rest[m] = n
        BY <1>1, <1>2, <3>1 DEF CutFrom
      <3>4. \A k \in (i + 1) .. m : k \in i .. m /\ k - 1 \in i .. m
        OBVIOUS
      <3>5. \A k \in (i + 1) .. m :
              /\ rest[k - 1] <= rest[k]
              /\ pattern[k] # "**" => /\ rest[k] = rest[k - 1] + 1
                                      /\ pattern[k] \in {"*", path[rest[k]]}
        <4> HIDE DEF rest
        <4> QED BY <1>2, <3>1, <3>4 DEF CutFrom
      <3>6. (t + 1) - 1 = t
        BY <2>1
      <3> HIDE DEF rest, t
      <3> QED BY <1>1, <3>2, <3>3, <3>5, <3>6 DEF CutFrom
    <2> HIDE DEF t
    <2> QED BY <2>1, <2>2, <2>3 DEF RefFrom
  <1>3. ASSUME NEW t \in 0 .. n, Takes(pattern, path, i, j, t),
               NEW rest, CutFrom(pattern, path, i + 1, t + 1, rest)
        PROVE  CutFrom(pattern, path, i, j,
                       [k \in i - 1 .. m |-> IF k = i - 1 THEN j - 1 ELSE rest[k]])
    <2> DEFINE cut == [k \in i - 1 .. m |-> IF k = i - 1 THEN j - 1 ELSE rest[k]]
    <2>1. /\ rest \in [i .. m -> 0 .. n] /\ rest[i] = t /\ rest[m] = n
          /\ \A k \in (i + 1) .. m :
               /\ rest[k - 1] <= rest[k]
               /\ pattern[k] # "**" => /\ rest[k] = rest[k - 1] + 1
                                       /\ pattern[k] \in {"*", path[rest[k]]}
      <3>1. (t + 1) - 1 = t
        OBVIOUS
      <3> QED BY <1>1, <1>3, <3>1 DEF CutFrom
    <2>2. \A k \in i .. m : k \in i - 1 .. m /\ k # i - 1 /\ cut[k] = rest[k]
      OBVIOUS
    <2>3. cut[i - 1] = j - 1 /\ j - 1 \in 0 .. n
      BY <1>1
    <2>4. cut \in [i - 1 .. m -> 0 .. n]
      <3>1. \A k \in i - 1 .. m : k = i - 1 \/ k \in i .. m
        OBVIOUS
      <3> QED BY <2>1, <2>3, <3>1
    <2> HIDE DEF cut
    <2>5. cut[m] = n /\ cut[i] = t
      BY <1>1, <2>1, <2>2
    <2>6. ASSUME NEW k \in i .. m
          PROVE  /\ cut[k - 1] <= cut[k]
                 /\ pattern[k] # "**" => /\ cut[k] = cut[k - 1] + 1
                                         /\ pattern[k] \in {"*", path[cut[k]]}
      <3>1. CASE k = i
        BY <1>3, <2>3, <2>5, <3>1 DEF Takes
      <3>2. CASE k \in (i + 1) .. m
        <4>1. k - 1 \in i .. m
          BY <3>2
        <4>2. cut[k] = rest[k] /\ cut[k - 1] = rest[k - 1]
          BY <2>2, <4>1
        <4> QED BY <2>1, <3>2, <4>2
      <3> QED BY <3>1, <3>2
    <2> QED BY <2>3, <2>4, <2>5, <2>6 DEF CutFrom, cut
  <1> QED BY <1>2, <1>3 DEF RefFrom

\* The cuts of the suffixes obey the equation of the recursion.
LEMMA CutsObey ==
  ASSUME NEW pattern, NEW path, Len(pattern) \in Nat, Len(path) \in Nat,
         NEW i \in 1 .. Len(pattern), NEW j \in 1 .. Len(path) + 1
  PROVE  RefFrom(pattern, path, i, j) <=>
           IF pattern[i] = "**"
           THEN \/ RefFrom(pattern, path, i + 1, j)
                \/ j <= Len(path) /\ RefFrom(pattern, path, i, j + 1)
           ELSE /\ j <= Len(path)
                /\ pattern[i] \in {"*", path[j]}
                /\ RefFrom(pattern, path, i + 1, j + 1)
  <1> DEFINE n == Len(path)
             Rest(t) == RefFrom(pattern, path, i + 1, t + 1)
  <1>1. RefFrom(pattern, path, i, j) <=> \E t \in 0 .. n : Takes(pattern, path, i, j, t) /\ Rest(t)
    BY CutBegins
  <1>2. CASE pattern[i] = "**"
    <2>1. \A h : Takes(pattern, path, i, h, 0) <=> h - 1 <= 0
      BY <1>2 DEF Takes
    <2>2. \A h, t : Takes(pattern, path, i, h, t) <=> h - 1 <= t
      BY <1>2 DEF Takes
    <2>3. RefFrom(pattern, path, i, j) <=> \E t \in 0 .. n : j - 1 <= t /\ Rest(t)
      BY <1>1, <2>2
    <2>4. j <= n => (RefFrom(pattern, path, i, j + 1) <=> \E t \in 0 .. n : j <= t /\ Rest(t))
      <3> SUFFICES ASSUME j <= n
                   PROVE  RefFrom(pattern, path, i, j + 1) <=> \E t \in 0 .. n : j <= t /\ Rest(t)
        OBVIOUS
      <3>1. j + 1 \in 1 .. n + 1 /\ (j + 1) - 1 = j
        OBVIOUS
      <3>2. RefFrom(pattern, path, i, j + 1)
              <=> \E t \in 0 .. n : Takes(pattern, path, i, j + 1, t) /\ Rest(t)
        BY <3>1, CutBegins
      <3> QED BY <2>2, <3>1, <3>2
    <2>5. Rest(j - 1) <=> RefFrom(pattern, path, i + 1, j)
      <3>1. (j - 1) + 1 = j
        OBVIOUS
      <3> QED BY <3>1
    <2> HIDE DEF Rest
    <2>6. (\E t \in 0 .. n : j - 1 <= t /\ Rest(t))
            <=> Rest(j - 1) \/ (j <= n /\ \E t \in 0 .. n : j <= t /\ Rest(t))
      <3>1. \A t \in 0 .. n : j - 1 <= t <=> t = j - 1 \/ j <= t
        OBVIOUS
      <3>2. j - 1 \in 0 .. n /\ \A t \in 0 .. n : j <= t => j <= n
        OBVIOUS
      <3> QED BY <3>1, <3>2
    <2> QED BY <1>2, <2>3, <2>4, <2>5, <2>6
  <1>3. CASE pattern[i] # "**"
    <2>1. \A t : Takes(pattern, path, i, j, t)
                   <=> j - 1 <= t /\ t = j /\ pattern[i] \in {"*", path[t]}
      BY <1>3 DEF Takes
    <2>2. j - 1 <= j /\ (j \in 0 .. n <=> j <= n)
      OBVIOUS
    <2> HIDE DEF Rest
    <2>3. RefFrom(pattern, path, i, j) <=> j <= n /\ pattern[i] \in {"*", path[j]} /\ Rest(j)
      BY <1>1, <2>1, <2>2
    <2> QED BY <1>3, <2>3 DEF Rest
  <1> QED BY <1>2, <1>3

\* A table that obeys the equation tells where a cut exists.
LEMMA TableTells ==
  ASSUME NEW pattern, NEW path, Len(pattern) \in Nat, Len(path) \in Nat,
         NEW f, f = GlobTable(pattern, path, f)
  PROVE  \A i \in 1 .. Len(pattern) + 1, j \in 1 .. Len(path) + 1 :
            f[<<i, j>>] <=> RefFrom(pattern, path, i, j)
  <1> DEFINE m == Len(pattern)
             n == Len(path)
             left(i, j) == (m + 1 - i) + (n + 1 - j)
             Tells(i, j) == f[<<i, j>>] <=> RefFrom(pattern, path, i, j)
             Good == {d \in Nat : \A i \in 1 .. m + 1, j \in 1 .. n + 1 :
                                     left(i, j) <= d => Tells(i, j)}
  <1>1. ASSUME NEW i \in 1 .. m + 1, NEW j \in 1 .. n + 1
        PROVE  f[<<i, j>>] = GlobTurn(pattern, path, f, <<i, j>>)
    <2>1. <<i, j>> \in (1 .. m + 1) \X (1 .. n + 1)
      OBVIOUS
    <2> QED BY <2>1, Zenon DEF GlobTable
  <1>2. ASSUME NEW i \in 1 .. m + 1, NEW j \in 1 .. n + 1, i > m PROVE Tells(i, j)
    <2>1. i = m + 1
      BY <1>2
    <2>2. f[<<i, j>>] <=> j > n
      BY <1>1, <1>2 DEF GlobTurn
    <2>3. RefFrom(pattern, path, i, j) <=> j = n + 1
      BY <2>1, CutEnds
    <2> QED BY <2>2, <2>3
  <1>3. ASSUME NEW i \in 1 .. m + 1, NEW j \in 1 .. n + 1, i <= m,
               Tells(i + 1, j), j <= n => Tells(i, j + 1) /\ Tells(i + 1, j + 1)
        PROVE  Tells(i, j)
    <2>1. i \in 1 .. m
      BY <1>3
    <2>2. f[<<i, j>>] <=>
            IF pattern[i] = "**"
            THEN f[<<i + 1, j>>] \/ (j <= n /\ f[<<i, j + 1>>])
            ELSE j <= n /\ pattern[i] \in {"*", path[j]} /\ f[<<i + 1, j + 1>>]
      <3>1. ~ (i > m) /\ <<i, j>>[1] = i /\ <<i, j>>[2] = j
        BY <1>3
      <3>2. f[<<i, j>>] = GlobTurn(pattern, path, f, <<i, j>>)
        BY <1>1
      <3> QED BY <3>1, <3>2 DEF GlobTurn
    <2>3. RefFrom(pattern, path, i, j) <=>
           IF pattern[i] = "**"
           THEN \/ RefFrom(pattern, path, i + 1, j)
                \/ j <= Len(path) /\ RefFrom(pattern, path, i, j + 1)
           ELSE /\ j <= Len(path)
                /\ pattern[i] \in {"*", path[j]}
                /\ RefFrom(pattern, path, i + 1, j + 1)
      BY <2>1, CutsObey
    <2> QED BY <1>3, <2>2, <2>3
  <1>4. \A i \in 1 .. m + 1, j \in 1 .. n + 1 : left(i, j) \in Nat
    OBVIOUS
  <1>5. 0 \in Good
    <2>1. \A i \in 1 .. m + 1, j \in 1 .. n + 1 : left(i, j) <= 0 => i > m
      OBVIOUS
    <2> HIDE DEF left, Tells
    <2> QED BY <1>2, <2>1
  <1>6. ASSUME NEW d \in Good PROVE d + 1 \in Good
    <2>1. d \in Nat /\ \A i \in 1 .. m + 1, j \in 1 .. n + 1 : left(i, j) <= d => Tells(i, j)
      OBVIOUS
    <2>2. ASSUME NEW i \in 1 .. m + 1, NEW j \in 1 .. n + 1, left(i, j) <= d + 1
          PROVE  Tells(i, j)
      <3>1. CASE i > m
        BY <1>2, <3>1
      <3>2. CASE i <= m
        <4>1. i + 1 \in 1 .. m + 1 /\ left(i + 1, j) <= d
          BY <2>1, <2>2, <3>2
        <4>2. j <= n => /\ j + 1 \in 1 .. n + 1
                        /\ left(i, j + 1) <= d /\ left(i + 1, j + 1) <= d
          BY <2>1, <2>2, <3>2
        <4> HIDE DEF left, Tells
        <4> QED BY <1>3, <2>1, <3>2, <4>1, <4>2
      <3> QED BY <3>1, <3>2
    <2> HIDE DEF left, Tells
    <2>3. d + 1 \in Nat
      BY <2>1
    <2> QED BY <2>2, <2>3
  <1>7. Good = Nat
    <2>1. Good \in SUBSET Nat
      OBVIOUS
    <2> HIDE DEF Good
    <2> QED BY <1>5, <1>6, <2>1, AllNat
  <1>8. ASSUME NEW i \in 1 .. m + 1, NEW j \in 1 .. n + 1 PROVE Tells(i, j)
    <2>1. left(i, j) \in Good
      BY <1>4, <1>7
    <2>2. left(i, j) <= left(i, j)
      BY <1>4
    <2> HIDE DEF left, Tells
    <2> QED BY <2>1, <2>2
  <1> QED BY <1>8

\* glob_match_path matches the paths that can be cut as the pattern says.
LEMMA GlobMatchPathIs ==
  ASSUME NEW pattern, NEW path, Len(pattern) \in Nat, Len(path) \in Nat
  PROVE  GlobMatchPath(pattern, path) <=> RefPathMatch(pattern, path)
  <1> DEFINE m == Len(pattern)
             n == Len(path)
             S == (1 .. m + 1) \X (1 .. n + 1)
             ref == [at \in S |-> RefFrom(pattern, path, at[1], at[2])]
             match == CHOOSE f : f = GlobTable(pattern, path, f)
  <1>1. ref = GlobTable(pattern, path, ref)
    <2>1. ASSUME NEW at \in S PROVE ref[at] = GlobTurn(pattern, path, ref, at)
      <3>1. PICK i \in 1 .. m + 1, j \in 1 .. n + 1 : at = <<i, j>>
        OBVIOUS
      <3>2. at[1] = i /\ at[2] = j
        BY <3>1
      <3>3. \A h \in 1 .. m + 1, k \in 1 .. n + 1 :
               ref[<<h, k>>] = RefFrom(pattern, path, h, k)
        <4>1. ASSUME NEW h \in 1 .. m + 1, NEW k \in 1 .. n + 1
              PROVE  ref[<<h, k>>] = RefFrom(pattern, path, h, k)
          <5>1. <<h, k>> \in S /\ <<h, k>>[1] = h /\ <<h, k>>[2] = k
            OBVIOUS
          <5> QED BY <5>1, Zenon
        <4> QED BY <4>1
      <3> HIDE DEF ref
      <3>4. CASE i > m
        <4>1. RefFrom(pattern, path, i, j) <=> j > n
          <5>1. i = m + 1
            BY <3>4
          <5>2. RefFrom(pattern, path, i, j) <=> j = n + 1
            BY <5>1, CutEnds
          <5> QED BY <5>2
        <4>2. GlobTurn(pattern, path, ref, at) = (j > n)
          BY <3>2, <3>4 DEF GlobTurn
        <4>3. ref[at] = RefFrom(pattern, path, i, j)
          BY <3>1, <3>3
        <4>4. RefFrom(pattern, path, i, j) = (j > n)
          <5> DEFINE P == RefFrom(pattern, path, i, j)
                     Q == j > n
          <5>1. P \in BOOLEAN /\ Q \in BOOLEAN /\ (P <=> Q)
            BY <4>1 DEF RefFrom
          <5> HIDE DEF P, Q
          <5>2. P = Q
            BY <5>1
          <5> QED BY <5>2 DEF P, Q
        <4> QED BY <4>2, <4>3, <4>4
      <3>5. CASE i <= m
        <4>1. RefFrom(pattern, path, i, j) <=>
               IF pattern[i] = "**"
               THEN \/ RefFrom(pattern, path, i + 1, j)
                    \/ j <= n /\ RefFrom(pattern, path, i, j + 1)
               ELSE /\ j <= n
                    /\ pattern[i] \in {"*", path[j]}
                    /\ RefFrom(pattern, path, i + 1, j + 1)
          <5>1. i \in 1 .. m
            BY <3>5
          <5> QED BY <5>1, CutsObey
        <4>2. i + 1 \in 1 .. m + 1 /\ (j <= n => j + 1 \in 1 .. n + 1)
          BY <3>5
        <4>3. GlobTurn(pattern, path, ref, at) =
               IF pattern[i] = "**"
               THEN ref[<<i + 1, j>>] \/ (j <= n /\ ref[<<i, j + 1>>])
               ELSE /\ j <= n
                    /\ pattern[i] \in {"*", path[j]}
                    /\ ref[<<i + 1, j + 1>>]
          <5>1. ~ (i > m)
            BY <3>5
          <5> QED BY <3>2, <5>1 DEF GlobTurn
        <4>4. /\ ref[<<i + 1, j>>] = RefFrom(pattern, path, i + 1, j)
              /\ j <= n => /\ ref[<<i, j + 1>>] = RefFrom(pattern, path, i, j + 1)
                           /\ ref[<<i + 1, j + 1>>] = RefFrom(pattern, path, i + 1, j + 1)
              /\ ref[at] = RefFrom(pattern, path, i, j)
          BY <3>1, <3>3, <4>2
        <4>5. GlobTurn(pattern, path, ref, at) <=> RefFrom(pattern, path, i, j)
          BY <4>1, <4>3, <4>4
        <4> QED BY <4>3, <4>4, <4>5 DEF RefFrom
      <3> QED BY <3>4, <3>5
    <2>2. ref = [at \in S |-> GlobTurn(pattern, path, ref, at)]
      <3>1. ref = [at \in S |-> ref[at]]
        OBVIOUS
      <3> HIDE DEF ref
      <3> QED BY <2>1, <3>1
    <2> QED BY <2>2 DEF GlobTable
  <1> HIDE DEF ref
  <1>2. match = GlobTable(pattern, path, match)
    BY <1>1, Zenon
  <1>3. GlobMatchPath(pattern, path) = match[<<1, 1>>]
    BY Zenon DEF GlobMatchPath, GlobTurn, GlobTable
  <1> HIDE DEF match
  <1>4. match[<<1, 1>>] <=> RefFrom(pattern, path, 1, 1)
    <2>1. 1 \in 1 .. m + 1 /\ 1 \in 1 .. n + 1
      OBVIOUS
    <2> QED BY <1>2, <2>1, TableTells
  <1>5. RefFrom(pattern, path, 1, 1) <=> RefPathMatch(pattern, path)
    <2>1. 1 - 1 = 0
      OBVIOUS
    <2> QED BY <2>1 DEF RefFrom, CutFrom, RefPathMatch
  <1> QED BY <1>3, <1>4, <1>5

-----------------------------------------------------------------------------
(***************************************************************************)
(* Single addresses and lists of them.                                     *)
(***************************************************************************)

\* What decides a single address.
Open(c, ip) ==
  CASE c.preset = "None"         -> TRUE
    [] c.preset = "InternalOnly" -> InSet(c.allow_set, ip)
    [] c.preset = "ExternalOnly" -> InSet(c.allow_set, ip) \/ ~ InSet(c.deny_set, ip)

\* is_network_allowed passes a list exactly when it has an address and each of
\* its addresses is open.
LEMMA NetworkPasses ==
  ASSUME NEW c, c.preset \in Presets, NEW ips
  PROVE  Passed(IsNetworkAllowed(c, ips))
           <=> ips # <<>> /\ \A i \in DOMAIN ips : Open(c, ips[i])
  <1>1. ~ Passed(Blocked("DnsEmptyResponse")) /\ ~ Passed(Blocked("NotInAllowList"))
    BY DEF Passed, Blocked
  <1>2. Passed(Ok) /\ \A cidr : ~ Passed(BlockedByCidr(cidr))
    BY DEF Passed, Ok, BlockedByCidr
  <1>3. CASE ips = <<>>
    BY <1>1, <1>3 DEF IsNetworkAllowed
  <1>4. CASE ips # <<>> /\ c.preset = "None"
    BY <1>2, <1>4 DEF IsNetworkAllowed, Open
  <1>5. CASE ips # <<>> /\ c.preset = "InternalOnly"
    BY <1>1, <1>2, <1>5 DEF IsNetworkAllowed, InternalOnlyVerdict, Open
  <1>6. CASE ips # <<>> /\ c.preset = "ExternalOnly"
    <2> DEFINE denied == {i \in DOMAIN ips : /\ ~ InSet(c.allow_set, ips[i])
                                             /\ InSet(c.deny_set, ips[i])}
    <2>1. Passed(ExternalOnlyVerdict(c, ips)) <=> denied = {}
      BY <1>2, Zenon DEF ExternalOnlyVerdict
    <2>2. denied = {} <=> \A i \in DOMAIN ips : Open(c, ips[i])
      BY <1>6 DEF Open
    <2> QED BY <1>6, <2>1, <2>2 DEF IsNetworkAllowed
  <1> QED BY <1>3, <1>4, <1>5, <1>6 DEF Presets

\* One address alone.
LEMMA OnePasses ==
  ASSUME NEW c, c.preset \in Presets, NEW ip
  PROVE  Passed(IsNetworkAllowed(c, <<ip>>)) <=> Open(c, ip)
  <1>1. <<ip>> # <<>> /\ DOMAIN <<ip>> = {1} /\ <<ip>>[1] = ip
    OBVIOUS
  <1> QED BY <1>1, NetworkPasses

\* The reasons the questions can be answered with.
LEMMA ReasonsAreKnown ==
  ASSUME NEW c, c.preset \in Presets
  PROVE  /\ \A ips : IsNetworkAllowed(c, ips).reason \in Reasons
         /\ \A url, ips : IsRequestAllowed(c, url, ips).reason \in Reasons
         /\ \A host : HostVerdict(c, host).reason \in Reasons
                        \/ host.form \notin HostForms
         /\ \A names : ValidateHeaders(c, names).reason \in Reasons
         /\ \A scheme : ValidateScheme(c, scheme).reason \in Reasons
  <1>1. /\ Ok.reason \in Reasons
        /\ \A reason : Blocked(reason).reason = reason
        /\ \A cidr : BlockedByCidr(cidr).reason \in Reasons
    BY DEF Ok, Blocked, BlockedByCidr, Reasons
  <1>2. ASSUME NEW ips PROVE IsNetworkAllowed(c, ips).reason \in Reasons
    <2>1. ExternalOnlyVerdict(c, ips).reason \in Reasons
      BY <1>1, Zenon DEF ExternalOnlyVerdict
    <2>2. InternalOnlyVerdict(c, ips).reason \in Reasons
      BY <1>1 DEF InternalOnlyVerdict, Reasons
    <2> QED BY <1>1, <2>1, <2>2 DEF IsNetworkAllowed, Presets, Reasons
  <1>3. ASSUME NEW url, NEW ips PROVE IsRequestAllowed(c, url, ips).reason \in Reasons
    BY <1>1, <1>2 DEF IsRequestAllowed, Reasons
  <1>4. ASSUME NEW host, host.form \in HostForms
        PROVE  HostVerdict(c, host).reason \in Reasons
    BY <1>1, <1>4 DEF HostVerdict, HostForms, Reasons
  <1>5. ASSUME NEW names PROVE ValidateHeaders(c, names).reason \in Reasons
    BY <1>1 DEF ValidateHeaders, Reasons
  <1>6. ASSUME NEW scheme PROVE ValidateScheme(c, scheme).reason \in Reasons
    BY <1>1 DEF ValidateScheme, Reasons
  <1> QED BY <1>2, <1>3, <1>4, <1>5, <1>6

-----------------------------------------------------------------------------
\* validate_all_hosts answers Ok, or what it answers to the first host that
\* does not pass.
LEMMA HostsVerdict ==
  ASSUME NEW c, NEW hosts \in Seq([form : HostForms, ip : IpAddr])
  PROVE  \/ /\ ValidateAllHosts(c, hosts) = Ok
            /\ \A i \in DOMAIN hosts : Passed(HostVerdict(c, hosts[i]))
         \/ \E i \in DOMAIN hosts :
              /\ ValidateAllHosts(c, hosts) = HostVerdict(c, hosts[i])
              /\ ~ Passed(HostVerdict(c, hosts[i]))
  <1> DEFINE bad   == {i \in DOMAIN hosts : ~ Passed(HostVerdict(c, hosts[i]))}
             first == CHOOSE i \in bad : \A j \in bad : i <= j
  <1>1. CASE bad = {}
    BY <1>1, Zenon DEF ValidateAllHosts
  <1>2. CASE bad # {}
    <2>1. bad \in SUBSET Nat
      OBVIOUS
    <2>2. \E i \in bad : \A j \in bad : i <= j
      BY <1>2, <2>1, LeastNat
    <2>3. first \in bad
      BY <2>2, Zenon
    <2>4. ValidateAllHosts(c, hosts) = HostVerdict(c, hosts[first])
      BY <1>2, Zenon DEF ValidateAllHosts
    <2> QED BY <2>3, <2>4
  <1> QED BY <1>1, <1>2

-----------------------------------------------------------------------------
\* What the loops of the builder and default_deny_set return are ranges.
LEMMA LooseType ==
  ASSUME NEW texts \in Seq(CidrText), NEW source \in DataTier
  PROVE  LooseCidrs(texts, source) \in Seq(CidrRange)
  BY LooseGives DEF GivesRanges

\* The same of the strict parser.
LEMMA StrictType ==
  ASSUME NEW texts \in Seq(CidrText), NEW source \in DataTier
  PROVE  StrictCidrs(texts, source) \in Seq(CidrRange)
  BY StrictGives DEF GivesRanges

\* The four shipped lists.
LEMMA ShippedTexts ==
  /\ DefaultTexts.iana_v4 \in Seq(CidrText) /\ DefaultTexts.iana_v6 \in Seq(CidrText)
  /\ DefaultTexts.override \in Seq(CidrText) /\ DefaultTexts.csp_metadata \in Seq(CidrText)
  <1> DEFINE S == Seq(CidrText)
  <1>1. DefaultTexts \in [iana_v4 : S, iana_v6 : S, override : S, csp_metadata : S]
    BY CallerAssumption
  <1> HIDE DEF S
  <1>2. /\ DefaultTexts.iana_v4 \in S /\ DefaultTexts.iana_v6 \in S
        /\ DefaultTexts.override \in S /\ DefaultTexts.csp_metadata \in S
    BY ONLY <1>1
  <1> QED BY <1>2 DEF S

\* What the caller may pass, in the pieces the proofs use.
LEMMA ParsedTexts ==
  /\ \A texts \in TextLists, tier \in DataTier : LooseCidrs(texts, tier) \in Seq(CidrRange)
  /\ DefaultDenySet \in Seq(CidrRange)
  <1> DEFINE R == Seq(CidrRange)
  <1>1. ASSUME NEW texts \in TextLists, NEW tier \in DataTier
        PROVE  LooseCidrs(texts, tier) \in R
    BY CallerAssumption, LooseType
  <1>2. "iana" \in DataTier /\ "override" \in DataTier /\ "csp_metadata" \in DataTier
    BY DEF DataTier
  <1> DEFINE a == StrictCidrs(DefaultTexts.iana_v4, "iana")
             b == StrictCidrs(DefaultTexts.iana_v6, "iana")
             c == StrictCidrs(DefaultTexts.override, "override")
             d == StrictCidrs(DefaultTexts.csp_metadata, "csp_metadata")
  <1>3. a \in R /\ b \in R /\ c \in R /\ d \in R
    BY <1>2, ShippedTexts, StrictType
  <1>4. a \o b \o c \o d \in R
    <2> HIDE DEF a, b, c, d
    <2> QED BY <1>3
  <1> QED BY <1>1, <1>4 DEF DefaultDenySet

\* A new deny or allow list leaves the other fields alone.
LEMMA DenySetType ==
  ASSUME NEW c \in Config, NEW list \in Seq(CidrRange)
  PROVE  /\ [c EXCEPT !.deny_set = list] \in Config
         /\ [c EXCEPT !.deny_set = list].preset = c.preset
         /\ [c EXCEPT !.allow_set = list] \in Config
  <1> DEFINE S == Seq(CidrRange)
  <1>1. c \in [preset : Presets, deny_set : S, allow_set : S,
              header_rules : HeaderRuleArgs \cup {NoHeaderRules},
              protocol_rules : ProtocolArgs \cup {DefaultProtocolRules},
              cloud_modules : Seq(CloudNames), has_sink : BOOLEAN, url_ruleset : Ruleset]
    BY DEF Config
  <1>2. list \in S
    OBVIOUS
  <1> HIDE DEF S
  <1>3. [c EXCEPT !.deny_set = list].preset = c.preset
    BY ONLY <1>1
  <1>4. /\ [c EXCEPT !.deny_set = list] \in
              [preset : Presets, deny_set : S, allow_set : S,
               header_rules : HeaderRuleArgs \cup {NoHeaderRules},
               protocol_rules : ProtocolArgs \cup {DefaultProtocolRules},
               cloud_modules : Seq(CloudNames), has_sink : BOOLEAN, url_ruleset : Ruleset]
        /\ [c EXCEPT !.allow_set = list] \in
              [preset : Presets, deny_set : S, allow_set : S,
               header_rules : HeaderRuleArgs \cup {NoHeaderRules},
               protocol_rules : ProtocolArgs \cup {DefaultProtocolRules},
               cloud_modules : Seq(CloudNames), has_sink : BOOLEAN, url_ruleset : Ruleset]
    BY ONLY <1>1, <1>2
  <1> QED BY <1>3, <1>4 DEF Config, S

\* So does a new list of cloud names.
LEMMA CloudModulesType ==
  ASSUME NEW c \in Config, NEW list \in Seq(CloudNames)
  PROVE  [c EXCEPT !.cloud_modules = list] \in Config
  <1> DEFINE S == Seq(CloudNames)
             R == Seq(CidrRange)
  <1>1. c \in [preset : Presets, deny_set : R, allow_set : R,
              header_rules : HeaderRuleArgs \cup {NoHeaderRules},
              protocol_rules : ProtocolArgs \cup {DefaultProtocolRules},
              cloud_modules : S, has_sink : BOOLEAN, url_ruleset : Ruleset]
    BY DEF Config
  <1>2. list \in S
    OBVIOUS
  <1> HIDE DEF S, R
  <1>3. [c EXCEPT !.cloud_modules = list] \in
              [preset : Presets, deny_set : R, allow_set : R,
               header_rules : HeaderRuleArgs \cup {NoHeaderRules},
               protocol_rules : ProtocolArgs \cup {DefaultProtocolRules},
               cloud_modules : S, has_sink : BOOLEAN, url_ruleset : Ruleset]
    BY ONLY <1>1, <1>2
  <1> QED BY <1>3 DEF Config, S, R

\* What build() does to the fields keeps their types.
LEMMA DefaultsType ==
  ASSUME NEW c \in Config
  PROVE  WithDefaults(c) \in Config /\ WithDefaults(c).preset = c.preset
  <1>1. CASE c.preset = "ExternalOnly"
    <2>1. c.deny_set \o DefaultDenySet \in Seq(CidrRange)
      <3>1. c.deny_set \in Seq(CidrRange)
        BY DEF Config
      <3> QED BY <3>1, ParsedTexts
    <2>2. WithDefaults(c) = [c EXCEPT !.deny_set = c.deny_set \o DefaultDenySet]
      BY <1>1 DEF WithDefaults
    <2> QED BY <2>1, <2>2, DenySetType
  <1>2. CASE c.preset # "ExternalOnly"
    BY <1>2 DEF WithDefaults
  <1> QED BY <1>1, <1>2

\* What build adds keeps the type.
LEMMA FinalisedType ==
  ASSUME NEW c \in Config
  PROVE  Finalised(c) \in Config /\ Finalised(c).preset = c.preset
  <1>2. ASSUME NEW d \in Config
        PROVE  WithCompiledRules(d) \in Config /\ WithCompiledRules(d).preset = d.preset
    <2>1. Compiled(d.url_ruleset) \in Ruleset
      BY DEF Config, Ruleset, Compiled
    <2> QED BY <2>1 DEF WithCompiledRules, Config
  <1> QED BY <1>2, DefaultsType DEF Finalised

\* A rule more leaves a ruleset a ruleset.
LEMMA AddedRuleType ==
  ASSUME NEW rs \in Ruleset, NEW rule \in UrlRuleArgs
  PROVE  AddAllowRule(rs, rule) \in Ruleset /\ AddDenyRule(rs, rule) \in Ruleset
  <1> DEFINE S == Seq(UrlRuleArgs)
  <1>1. rs \in [allow : S, deny : S, compiled_allow : S, compiled_deny : S]
    BY DEF Ruleset
  <1>2. Append(rs.allow, rule) \in S /\ Append(rs.deny, rule) \in S
    BY DEF Ruleset
  <1> HIDE DEF S
  <1>3. /\ [rs EXCEPT !.allow = Append(rs.allow, rule)]
             \in [allow : S, deny : S, compiled_allow : S, compiled_deny : S]
        /\ [rs EXCEPT !.deny = Append(rs.deny, rule)]
             \in [allow : S, deny : S, compiled_allow : S, compiled_deny : S]
    BY ONLY <1>1, <1>2
  <1> QED BY <1>3 DEF AddAllowRule, AddDenyRule, Ruleset, S

\* The event build() emits.
LEMMA EventType ==
  ASSUME NEW c \in Config
  PROVE  PolicyCreated(c) \in Seq(Event)
  <1> DEFINE event == [kind |-> "PolicyCreated", preset |-> c.preset,
                       cloud_modules |-> c.cloud_modules,
                       deny_count |-> Len(c.deny_set), allow_count |-> Len(c.allow_set)]
  <1>1. /\ c.preset \in Presets /\ c.cloud_modules \in Seq(CloudNames)
        /\ Len(c.deny_set) \in Nat /\ Len(c.allow_set) \in Nat
    BY DEF Config
  <1>2. event \in Event
    BY <1>1 DEF Event
  <1>3. PolicyCreated(c) = IF c.has_sink THEN <<event>> ELSE <<>>
    BY DEF PolicyCreated
  <1> HIDE DEF event
  <1>4. <<event>> \in Seq(Event) /\ <<>> \in Seq(Event)
    BY <1>2
  <1> QED BY <1>3, <1>4

\* A builder call keeps the types if the fields it leaves behind have them.
LEMMA BuilderCallType ==
  ASSUME TypeOK, NEW op \in {"deny", "allow", "other"}, NEW texts \in TextLists \cup {<<>>},
         NEW new \in Config, BuilderCall(op, texts, new)
  PROVE  TypeOK'
  <1>1. [op |-> op, texts |-> texts] \in Call
    BY DEF Call
  <1> QED BY <1>1 DEF BuilderCall, TypeOK

\* An answer keeps the types if its reason is known.
LEMMA AskType ==
  ASSUME TypeOK, NEW kind, NEW url, NEW subject, NEW verdict,
         verdict.reason \in Reasons, Ask(kind, url, subject, verdict)
  PROVE  TypeOK'
  BY DEF Ask, TypeOK

\* Every step keeps the type.
LEMMA TypeIsInductive == TypeOK /\ [Next]_vars => TypeOK'
  <1> SUFFICES ASSUME TypeOK, [Next]_vars PROVE TypeOK'
    OBVIOUS
  <1>0. cfg \in Config /\ cfg.preset \in Presets
    BY DEF TypeOK, Config
  <1>1. ASSUME NEW texts \in TextLists, AddDenied(texts) \/ AddAllowed(texts)
        PROVE  TypeOK'
    <2>1. /\ LooseCidrs(texts, "user_deny") \in Seq(CidrRange)
          /\ LooseCidrs(texts, "user_allow") \in Seq(CidrRange)
      BY ParsedTexts DEF DataTier
    <2>2. /\ cfg.deny_set \o LooseCidrs(texts, "user_deny") \in Seq(CidrRange)
          /\ cfg.allow_set \o LooseCidrs(texts, "user_allow") \in Seq(CidrRange)
      <3>1. cfg.deny_set \in Seq(CidrRange) /\ cfg.allow_set \in Seq(CidrRange)
        BY <1>0 DEF Config
      <3> QED BY ONLY <2>1, <3>1
    <2>3. /\ [cfg EXCEPT !.deny_set = @ \o LooseCidrs(texts, "user_deny")] \in Config
          /\ [cfg EXCEPT !.allow_set = @ \o LooseCidrs(texts, "user_allow")] \in Config
      BY <1>0, <2>2, DenySetType
    <2> QED BY <1>1, <2>3, BuilderCallType DEF AddDenied, AddAllowed
  <1>2. ASSUME NEW texts \in TextLists, NEW name \in CloudNames, WithCloudDeny(name, texts)
        PROVE  TypeOK'
    <2>1. LooseCidrs(texts, CloudTier(name)) \in Seq(CidrRange)
      BY ParsedTexts DEF CloudTier, DataTier
    <2>2. /\ cfg.deny_set \in Seq(CidrRange)
          /\ cfg.cloud_modules \in Seq(CloudNames)
      BY <1>0 DEF Config
    <2>3. /\ cfg.deny_set \o LooseCidrs(texts, CloudTier(name)) \in Seq(CidrRange)
          /\ Append(cfg.cloud_modules, name) \in Seq(CloudNames)
      BY ONLY <2>1, <2>2, name \in CloudNames
    <2> DEFINE deny == cfg.deny_set \o LooseCidrs(texts, CloudTier(name))
               names == Append(cfg.cloud_modules, name)
               d == [cfg EXCEPT !.deny_set = deny]
    <2>4. d \in Config
      BY <1>0, <2>3, DenySetType
    <2>5. [cfg EXCEPT !.cloud_modules = names, !.deny_set = deny] = [d EXCEPT !.cloud_modules = names]
      <3> HIDE DEF deny, names
      <3> QED BY <1>0 DEF Config
    <2>6. [d EXCEPT !.cloud_modules = names] \in Config
      <3> HIDE DEF d, names
      <3> QED BY <2>3, <2>4, CloudModulesType DEF names
    <2> QED BY <1>2, <2>5, <2>6, BuilderCallType DEF WithCloudDeny
  <1>3. ASSUME ConfigureRules PROVE TypeOK'
    <2>1. ASSUME NEW rules \in HeaderRuleArgs, SetHeaderRules(rules) PROVE TypeOK'
      <3>1. [cfg EXCEPT !.header_rules = rules] \in Config
        BY <1>0 DEF Config
      <3> QED BY <2>1, <3>1, BuilderCallType DEF SetHeaderRules
    <2>2. ASSUME NEW rules \in ProtocolArgs, SetProtocolRules(rules) PROVE TypeOK'
      <3>1. [cfg EXCEPT !.protocol_rules = rules] \in Config
        BY <1>0 DEF Config
      <3> QED BY <2>2, <3>1, BuilderCallType DEF SetProtocolRules
    <2>3. ASSUME SetAuditSink PROVE TypeOK'
      <3>1. [cfg EXCEPT !.has_sink = TRUE] \in Config
        BY <1>0 DEF Config
      <3> QED BY <2>3, <3>1, BuilderCallType DEF SetAuditSink
    <2>4. ASSUME NEW rule \in UrlRuleArgs, UrlAllow(rule) \/ UrlDeny(rule) PROVE TypeOK'
      <3>1. /\ AddAllowRule(cfg.url_ruleset, rule) \in Ruleset
            /\ AddDenyRule(cfg.url_ruleset, rule) \in Ruleset
        BY <1>0, AddedRuleType DEF Config
      <3>2. /\ [cfg EXCEPT !.url_ruleset = AddAllowRule(@, rule)] \in Config
            /\ [cfg EXCEPT !.url_ruleset = AddDenyRule(@, rule)] \in Config
        BY <1>0, <3>1 DEF Config
      <3> QED BY <2>4, <3>2, BuilderCallType DEF UrlAllow, UrlDeny
    <2>5. ASSUME NEW ruleset \in RulesetArgs, SetUrlRuleset(ruleset) PROVE TypeOK'
      <3>1. [cfg EXCEPT !.url_ruleset = ruleset] \in Config
        BY <1>0, CallerAssumption DEF Config
      <3> QED BY <2>5, <3>1, BuilderCallType DEF SetUrlRuleset
    <2> QED BY <1>3, <2>1, <2>2, <2>3, <2>4, <2>5 DEF ConfigureRules
  <1>4. CASE Build
    <2> DEFINE c == Finalised(cfg)
    <2>1. c \in Config
      BY <1>0, FinalisedType
    <2>2. PolicyCreated(c) \in Seq(Event)
      BY <2>1, EventType
    <2>3. cfg' = c /\ audit' = audit \o PolicyCreated(c)
      BY <1>4 DEF Build
    <2>4. audit \in Seq(Event)
      BY DEF TypeOK
    <2> HIDE DEF c
    <2>5. audit' \in Seq(Event)
      BY <2>2, <2>3, <2>4
    <2> QED BY <1>4, <2>1, <2>3, <2>5 DEF Build, TypeOK
  <1>5. CASE BuildFails("panicked") \/ BuildFails("failed")
    BY <1>5 DEF BuildFails, TypeOK
  <1>6. ASSUME Query PROVE TypeOK'
    <2>1. ASSUME NEW hosts \in HostLists, AskHosts(hosts) PROVE TypeOK'
      <3>1. hosts \in Seq([form : HostForms, ip : IpAddr])
        BY CallerAssumption
      <3>2. Ok.reason \in Reasons
        BY DEF Ok, Reasons
      <3>3. ASSUME NEW i \in DOMAIN hosts
            PROVE  HostVerdict(cfg, hosts[i]).reason \in Reasons
        <4>1. hosts[i] \in [form : HostForms, ip : IpAddr]
          <5> DEFINE S == [form : HostForms, ip : IpAddr]
          <5>1. hosts \in Seq(S) /\ i \in DOMAIN hosts
            BY <3>1
          <5> HIDE DEF S
          <5>2. hosts[i] \in S
            BY ONLY <5>1
          <5> QED BY <5>2 DEF S
        <4>2. hosts[i].form \in HostForms
          BY <4>1
        <4> QED BY <1>0, <4>2, ReasonsAreKnown
      <3>4. ValidateAllHosts(cfg, hosts).reason \in Reasons
        BY <3>1, <3>2, <3>3, HostsVerdict
      <3> QED BY <2>1, <3>4, AskType DEF AskHosts
    <2> QED BY <1>0, <1>6, <2>1, AskType, ReasonsAreKnown
            DEF Query, AskRequest, AskNetwork, AskHeaders, AskScheme
  <1>7. CASE UNCHANGED vars
    BY <1>7 DEF vars, TypeOK
  <1> QED BY <1>1, <1>2, <1>3, <1>4, <1>5, <1>6, <1>7 DEF Next, ConfigureRanges, Finish

\* The engine's state keeps its type.
THEOREM TypeCorrect == Spec => []TypeOK
  <1>1. Init => TypeOK
    <2> SUFFICES ASSUME Init PROVE TypeOK
      OBVIOUS
    <2>1. PICK preset \in Presets : cfg = NewBuilder(preset)
      BY DEF Init
    <2>2. EmptyRuleset \in Ruleset
      BY DEF EmptyRuleset, Ruleset
    <2>3. cfg \in Config
      BY <2>1, <2>2 DEF NewBuilder, Config
    <2> QED BY <2>3 DEF Init, TypeOK, NoAnswer, Ok, Reasons
  <1> QED BY <1>1, TypeIsInductive, PTL DEF Spec

-----------------------------------------------------------------------------
\* is_network_allowed decides a list address by address.
THEOREM ListDecidedByAddress == Spec => []ListIsConjunction
  <1>1. TypeOK => ListIsConjunction
    <2> SUFFICES ASSUME TypeOK, NEW ips \in IpLists
                 PROVE  Passed(IsNetworkAllowed(cfg, ips))
                          <=> /\ ips # <<>>
                              /\ \A i \in DOMAIN ips :
                                    Passed(IsNetworkAllowed(cfg, <<ips[i]>>))
      BY DEF ListIsConjunction
    <2>1. cfg.preset \in Presets
      BY DEF TypeOK, Config
    <2> QED BY <2>1, NetworkPasses, OnePasses
  <1> QED BY <1>1, TypeCorrect, PTL

\* Hosts that are IP literals are decided like the addresses they spell.
THEOREM HostsDecidedLikeAddresses == Spec => []HostsAgreeWithNetwork
  <1>1. TypeOK => HostsAgreeWithNetwork
    <2> SUFFICES ASSUME TypeOK, NEW ips \in IpLists, ips # <<>>
                 PROVE  Passed(ValidateAllHosts(cfg,
                                 [i \in DOMAIN ips |-> [form |-> "ip", ip |-> ips[i]]]))
                          <=> Passed(IsNetworkAllowed(cfg, ips))
      BY DEF HostsAgreeWithNetwork
    <2> DEFINE hosts == [i \in DOMAIN ips |-> [form |-> "ip", ip |-> ips[i]]]
               Host  == [form : HostForms, ip : IpAddr]
    <2>1. cfg.preset \in Presets
      BY DEF TypeOK, Config
    <2>2. ips \in Seq(IpAddr)
      BY CallerAssumption
    <2>3. hosts \in Seq(Host)
      <3>1. \A ip \in IpAddr : [form |-> "ip", ip |-> ip] \in Host
        BY DEF HostForms
      <3> HIDE DEF Host
      <3>2. \A i \in DOMAIN ips : [form |-> "ip", ip |-> ips[i]] \in Host
        BY <2>2, <3>1
      <3>3. Len(ips) \in Nat /\ DOMAIN ips = 1 .. Len(ips)
        BY <2>2
      <3>4. hosts \in [1 .. Len(ips) -> Host]
        BY <3>2, <3>3
      <3> QED BY <3>3, <3>4
    <2>4. \A i \in DOMAIN hosts :
             Passed(HostVerdict(cfg, hosts[i])) <=> Passed(IsNetworkAllowed(cfg, <<ips[i]>>))
      <3> SUFFICES ASSUME NEW i \in DOMAIN ips
                   PROVE  Passed(HostVerdict(cfg, [form |-> "ip", ip |-> ips[i]]))
                            <=> Passed(IsNetworkAllowed(cfg, <<ips[i]>>))
        OBVIOUS
      <3>1. Passed(Ok) /\ ~ Passed(Blocked("MultiHostFallbackDenied"))
        BY DEF Passed, Ok, Blocked
      <3>2. HostVerdict(cfg, [form |-> "ip", ip |-> ips[i]])
              = IF Passed(IsNetworkAllowed(cfg, <<ips[i]>>))
                THEN Ok ELSE Blocked("MultiHostFallbackDenied")
        BY DEF HostVerdict
      <3> QED BY <3>1, <3>2
    <2>5. Passed(Ok)
      BY DEF Passed, Ok
    <2> HIDE DEF Host
    <2>6. DOMAIN hosts = DOMAIN ips
      OBVIOUS
    <2> HIDE DEF hosts
    <2>7. Passed(ValidateAllHosts(cfg, hosts))
            <=> \A i \in DOMAIN hosts : Passed(HostVerdict(cfg, hosts[i]))
      BY <2>3, <2>5, HostsVerdict DEF Host
    <2> QED BY <2>1, <2>4, <2>6, <2>7, NetworkPasses, OnePasses DEF hosts
  <1> QED BY <1>1, TypeCorrect, PTL

-----------------------------------------------------------------------------
\* A list put behind another matches what either matches.
LEMMA InSetConcat ==
  ASSUME NEW s \in Seq(CidrRange), NEW t \in Seq(CidrRange), NEW ip
  PROVE  InSet(s \o t, ip) <=> InSet(s, ip) \/ InSet(t, ip)
  <1>1. \A r \in Seq(CidrRange) :
           InSet(r, ip) <=> \E i \in 1 .. Len(r) : CidrContains(r[i], ip)
    BY InSetIs
  <1>2. /\ s \o t \in Seq(CidrRange) /\ Len(s \o t) = Len(s) + Len(t)
        /\ Len(s) \in Nat /\ Len(t) \in Nat
        /\ \A i \in 1 .. Len(s) : (s \o t)[i] = s[i]
        /\ \A i \in 1 .. Len(t) : (s \o t)[Len(s) + i] = t[i]
    OBVIOUS
  <1>3. ASSUME NEW i \in 1 .. Len(s \o t), CidrContains((s \o t)[i], ip)
        PROVE  \/ \E j \in 1 .. Len(s) : CidrContains(s[j], ip)
               \/ \E j \in 1 .. Len(t) : CidrContains(t[j], ip)
    <2>1. CASE i \in 1 .. Len(s)
      BY <1>2, <1>3, <2>1
    <2>2. CASE i - Len(s) \in 1 .. Len(t)
      <3>1. (s \o t)[i] = t[i - Len(s)]
        <4>1. i = Len(s) + (i - Len(s))
          BY <1>2
        <4> QED BY <1>2, <2>2, <4>1
      <3> QED BY <1>3, <2>2, <3>1
    <2> QED BY <1>2, <2>1, <2>2
  <1>4. ASSUME NEW j \in 1 .. Len(s), CidrContains(s[j], ip)
        PROVE  \E i \in 1 .. Len(s \o t) : CidrContains((s \o t)[i], ip)
    BY <1>2, <1>4
  <1>5. ASSUME NEW j \in 1 .. Len(t), CidrContains(t[j], ip)
        PROVE  \E i \in 1 .. Len(s \o t) : CidrContains((s \o t)[i], ip)
    <2>1. Len(s) + j \in 1 .. Len(s \o t)
      BY <1>2
    <2> QED BY <1>2, <1>5, <2>1
  <1> QED BY <1>1, <1>2, <1>3, <1>4, <1>5
-----------------------------------------------------------------------------
\* The lists of a configuration, and what compiling the rules leaves alone.
LEMMA DenyListType ==
  ASSUME NEW c \in Config
  PROVE  /\ c.deny_set \in Seq(CidrRange) /\ c.allow_set \in Seq(CidrRange)
         /\ c.deny_set \o DefaultDenySet \in Seq(CidrRange)
  <1>1. c.deny_set \in Seq(CidrRange) /\ c.allow_set \in Seq(CidrRange)
    BY DEF Config
  <1> QED BY <1>1, ParsedTexts

\* Compiling rules leaves their other fields alone.
LEMMA CompiledRulesFields ==
  ASSUME NEW c \in Config
  PROVE  /\ WithCompiledRules(c).preset = c.preset
         /\ WithCompiledRules(c).allow_set = c.allow_set
         /\ WithCompiledRules(c).deny_set = c.deny_set
         /\ WithCompiledRules(c).has_sink = c.has_sink
  <1>1. \/ WithCompiledRules(c) = c
        \/ WithCompiledRules(c) = [c EXCEPT !.url_ruleset = Compiled(c.url_ruleset)]
    BY DEF WithCompiledRules
  <1> DEFINE rs == Compiled(c.url_ruleset)
  <1> HIDE DEF rs
  <1> QED BY <1>1 DEF Config, rs

\* A step that changes the fields of a frozen policy froze it.
LEMMA BuiltIsFrozen ==
  ASSUME TypeOK, [Next]_vars, cfg' # cfg, phase' = "built"
  PROVE  cfg' = Finalised(cfg)
  <1>1. ASSUME NEW op, NEW texts, NEW new, BuilderCall(op, texts, new)
        PROVE  phase' # "built"
    BY <1>1 DEF BuilderCall
  <1>2. ~ ConfigureRanges /\ ~ ConfigureRules
    BY <1>1 DEF ConfigureRanges, ConfigureRules, AddDenied, AddAllowed, WithCloudDeny,
                SetHeaderRules, SetProtocolRules, SetAuditSink, UrlAllow, UrlDeny,
                SetUrlRuleset
  <1>3. CASE Finish
    BY <1>3 DEF Finish, Build, BuildFails
  <1>4. CASE Query \/ UNCHANGED vars
    BY <1>4 DEF Query, AskRequest, AskNetwork, AskHosts, AskHeaders, AskScheme, Ask, vars
  <1> QED BY <1>2, <1>3, <1>4 DEF Next

\* What build() adds to the deny list, and what it leaves alone.
LEMMA FinalisedCovers ==
  ASSUME NEW c \in Config, NEW ip
  PROVE  /\ Finalised(c).preset = c.preset
         /\ Finalised(c).allow_set = c.allow_set
         /\ Finalised(c).deny_set \in Seq(CidrRange)
         /\ InSet(Finalised(c).deny_set, ip)
              <=> \/ InSet(c.deny_set, ip)
                  \/ c.preset = "ExternalOnly" /\ InSet(DefaultDenySet, ip)
  <1> DEFINE d == WithDefaults(c)
  <1>1. /\ Finalised(c).preset = d.preset
        /\ Finalised(c).allow_set = d.allow_set
        /\ Finalised(c).deny_set = d.deny_set
    <2>1. d = c \/ d = [c EXCEPT !.deny_set = c.deny_set \o DefaultDenySet]
      BY DEF WithDefaults
    <2>2. d \in Config
      BY <2>1, FinalisedType, DenySetType, ParsedTexts, DenyListType
    <2> HIDE DEF d
    <2>3. Finalised(c) = WithCompiledRules(d)
      BY DEF Finalised, d
    <2> QED BY <2>2, <2>3, CompiledRulesFields
  <1>2. c.deny_set \in Seq(CidrRange) /\ DefaultDenySet \in Seq(CidrRange)
    BY ParsedTexts, DenyListType
  <1>3. CASE c.preset = "ExternalOnly"
    <2>1. d = [c EXCEPT !.deny_set = c.deny_set \o DefaultDenySet]
      BY <1>3 DEF WithDefaults
    <2>2. d.preset = c.preset /\ d.allow_set = c.allow_set
      BY <2>1 DEF Config
    <2>3. d.deny_set = c.deny_set \o DefaultDenySet
      BY <2>1 DEF Config
    <2>4. c.deny_set \o DefaultDenySet \in Seq(CidrRange)
      BY ONLY <1>2
    <2> QED BY <1>1, <1>2, <1>3, <2>2, <2>3, <2>4, InSetConcat
  <1>4. CASE c.preset # "ExternalOnly"
    BY <1>1, <1>2, <1>4 DEF WithDefaults
  <1> QED BY <1>3, <1>4

\* The lists build() leaves.
LEMMA FinalisedLists ==
  ASSUME NEW c \in Config
  PROVE  /\ Finalised(c).preset = c.preset
         /\ Finalised(c).allow_set = c.allow_set
         /\ Finalised(c).deny_set = IF c.preset = "ExternalOnly"
                                    THEN c.deny_set \o DefaultDenySet ELSE c.deny_set
  <1> DEFINE list == c.deny_set \o DefaultDenySet
             d == WithDefaults(c)
  <1>1. d = IF c.preset = "ExternalOnly" THEN [c EXCEPT !.deny_set = list] ELSE c
    BY DEF WithDefaults
  <1>2. d \in Config
    BY DefaultsType
  <1>3. Finalised(c) = WithCompiledRules(d)
    BY DEF Finalised
  <1> HIDE DEF list, d
  <1>4. /\ d.preset = c.preset /\ d.allow_set = c.allow_set
        /\ d.deny_set = IF c.preset = "ExternalOnly" THEN list ELSE c.deny_set
    BY <1>1 DEF Config
  <1> QED BY <1>2, <1>3, <1>4, CompiledRulesFields DEF list

\* The addresses a policy would let pass alone if it were frozen now.
LEMMA PermittedIsOpen ==
  ASSUME NEW c \in Config
  PROVE  Permitted(c) =
           {ip \in IpAddr :
              CASE c.preset = "None"         -> TRUE
                [] c.preset = "InternalOnly" -> InSet(c.allow_set, ip)
                [] c.preset = "ExternalOnly" ->
                     \/ InSet(c.allow_set, ip)
                     \/ ~ (InSet(c.deny_set, ip) \/ InSet(DefaultDenySet, ip))}
  <1>1. c.preset \in Presets
    BY DEF Config
  <1>2. \A ip \in IpAddr :
          Passed(IsNetworkAllowed(Finalised(c), <<ip>>)) <=> Open(Finalised(c), ip)
    BY <1>1, FinalisedCovers, OnePasses
  <1>3. ASSUME NEW ip \in IpAddr
        PROVE  Open(Finalised(c), ip) <=>
              CASE c.preset = "None"         -> TRUE
                [] c.preset = "InternalOnly" -> InSet(c.allow_set, ip)
                [] c.preset = "ExternalOnly" ->
                     \/ InSet(c.allow_set, ip)
                     \/ ~ (InSet(c.deny_set, ip) \/ InSet(DefaultDenySet, ip))
    BY <1>1, FinalisedCovers DEF Open, Presets
  <1> QED BY <1>2, <1>3 DEF Permitted

\* Each list only ever grows at its end.
Grows(old, new) == \E more \in Seq(CidrRange) : new = old \o more

\* A call that denies: the deny list grows, the rest of what decides stays.
LEMMA DenyCall ==
  ASSUME TypeOK, NEW texts \in TextLists,
         AddDenied(texts) \/ \E name \in CloudNames : WithCloudDeny(name, texts)
  PROVE  /\ cfg'.preset = cfg.preset /\ cfg'.allow_set = cfg.allow_set
         /\ cfg'.url_ruleset = cfg.url_ruleset
         /\ Grows(cfg.deny_set, cfg'.deny_set)
         /\ phase = "building" /\ phase' = phase /\ answer' = answer
  <1>0. cfg \in Config
    BY DEF TypeOK
  <1>1. CASE AddDenied(texts)
    <2> DEFINE more == LooseCidrs(texts, "user_deny")
               list == cfg.deny_set \o more
    <2>1. more \in Seq(CidrRange)
      BY ParsedTexts DEF DataTier
    <2>2. /\ cfg' = [cfg EXCEPT !.deny_set = list]
          /\ phase = "building" /\ phase' = phase /\ answer' = answer
      BY <1>1 DEF AddDenied, BuilderCall
    <2>3. Grows(cfg.deny_set, list)
      BY <2>1 DEF Grows
    <2> HIDE DEF list
    <2> QED BY <1>0, <2>2, <2>3 DEF Config
  <1>2. ASSUME NEW name \in CloudNames, WithCloudDeny(name, texts)
        PROVE  /\ cfg'.preset = cfg.preset /\ cfg'.allow_set = cfg.allow_set
               /\ cfg'.url_ruleset = cfg.url_ruleset
               /\ Grows(cfg.deny_set, cfg'.deny_set)
               /\ phase = "building" /\ phase' = phase /\ answer' = answer
    <2> DEFINE more == LooseCidrs(texts, CloudTier(name))
               list == cfg.deny_set \o more
               names == Append(cfg.cloud_modules, name)
    <2>1. more \in Seq(CidrRange)
      BY ParsedTexts DEF CloudTier, DataTier
    <2>2. /\ cfg' = [cfg EXCEPT !.cloud_modules = names, !.deny_set = list]
          /\ phase = "building" /\ phase' = phase /\ answer' = answer
      BY <1>2 DEF WithCloudDeny, BuilderCall
    <2>3. Grows(cfg.deny_set, list)
      BY <2>1 DEF Grows
    <2> HIDE DEF list, names
    <2> QED BY <1>0, <2>2, <2>3 DEF Config
  <1> QED BY <1>1, <1>2

\* A call that allows: the allow list grows, the rest of what decides stays.
LEMMA AllowCall ==
  ASSUME TypeOK, NEW texts \in TextLists, AddAllowed(texts)
  PROVE  /\ cfg'.preset = cfg.preset /\ cfg'.deny_set = cfg.deny_set
         /\ cfg'.url_ruleset = cfg.url_ruleset
         /\ Grows(cfg.allow_set, cfg'.allow_set)
         /\ phase = "building" /\ phase' = phase /\ answer' = answer
  <1> DEFINE more == LooseCidrs(texts, "user_allow")
             list == cfg.allow_set \o more
  <1>0. cfg \in Config
    BY DEF TypeOK
  <1>1. more \in Seq(CidrRange)
    BY ParsedTexts DEF DataTier
  <1>2. /\ cfg' = [cfg EXCEPT !.allow_set = list]
        /\ phase = "building" /\ phase' = phase /\ answer' = answer
    BY DEF AddAllowed, BuilderCall
  <1>3. Grows(cfg.allow_set, list)
    BY <1>1 DEF Grows
  <1> HIDE DEF list
  <1> QED BY <1>0, <1>2, <1>3 DEF Config

\* A call that changes rules leaves the ranges alone.
LEMMA RulesCall ==
  ASSUME TypeOK, ConfigureRules
  PROVE  /\ cfg'.preset = cfg.preset
         /\ cfg'.allow_set = cfg.allow_set /\ cfg'.deny_set = cfg.deny_set
         /\ phase = "building" /\ phase' = phase /\ answer' = answer
  <1>0. cfg \in Config
    BY DEF TypeOK
  <1> QED BY <1>0 DEF ConfigureRules, SetHeaderRules, SetProtocolRules, SetAuditSink,
                      UrlAllow, UrlDeny, SetUrlRuleset, BuilderCall, Config

\* A step freezes the policy, or each of its lists stays or grows.
LEMMA StepGrowsLists ==
  ASSUME TypeOK, [Next]_vars
  PROVE  /\ cfg'.preset = cfg.preset
         /\ cfg' # Finalised(cfg) =>
              /\ cfg'.deny_set = cfg.deny_set \/ Grows(cfg.deny_set, cfg'.deny_set)
              /\ cfg'.allow_set = cfg.allow_set \/ Grows(cfg.allow_set, cfg'.allow_set)
  <1>0. cfg \in Config
    BY DEF TypeOK
  <1>1. CASE ConfigureRanges
    BY <1>1, DenyCall, AllowCall DEF ConfigureRanges
  <1>2. CASE ConfigureRules
    BY <1>2, RulesCall
  <1>3. CASE Build
    BY <1>0, <1>3, FinalisedType DEF Build
  <1>4. CASE BuildFails("panicked") \/ BuildFails("failed")
    BY <1>4 DEF BuildFails
  <1>5. CASE Query \/ UNCHANGED vars
    BY <1>5 DEF Query, AskRequest, AskNetwork, AskHosts, AskHeaders, AskScheme, Ask, vars
  <1> QED BY <1>1, <1>2, <1>3, <1>4, <1>5 DEF Next, Finish

\* A list that grows matches at least what it matched.
LEMMA GrowingListCovers ==
  ASSUME NEW old \in Seq(CidrRange), NEW new, Grows(old, new), NEW ip, InSet(old, ip)
  PROVE  InSet(new, ip)
  BY InSetConcat DEF Grows

\* A call opens addresses or closes them, never both, and freezing does neither.
THEOREM BuilderMovesOneWay == Spec => CallsMoveOneWay
  <1> DEFINE Move ==
        /\ cfg'.allow_set = cfg.allow_set => Permitted(cfg') \subseteq Permitted(cfg)
        /\ cfg'.deny_set = cfg.deny_set => Permitted(cfg) \subseteq Permitted(cfg')
        /\ phase' = "built" => Permitted(cfg') = Permitted(cfg)
  <1>1. TypeOK /\ TypeOK' /\ [Next]_vars => [Move]_cfg
    <2> SUFFICES ASSUME TypeOK, TypeOK', [Next]_vars, cfg' # cfg PROVE Move
      OBVIOUS
    <2>0. cfg \in Config /\ cfg' \in Config
      BY DEF TypeOK
    <2>1. /\ cfg.deny_set \in Seq(CidrRange) /\ cfg.allow_set \in Seq(CidrRange)
          /\ cfg.preset \in Presets
      BY <2>0, DenyListType DEF Config
    <2>2. CASE cfg' = Finalised(cfg)
      <3>1. /\ cfg'.preset = cfg.preset /\ cfg'.allow_set = cfg.allow_set
            /\ \A ip : InSet(cfg'.deny_set, ip)
                         <=> \/ InSet(cfg.deny_set, ip)
                             \/ cfg.preset = "ExternalOnly" /\ InSet(DefaultDenySet, ip)
        BY <2>0, <2>2, FinalisedCovers
      <3>2. Permitted(cfg') = Permitted(cfg)
        BY <2>0, <2>1, <3>1, PermittedIsOpen DEF Presets
      <3> QED BY <3>2
    <2>3. CASE cfg' # Finalised(cfg)
      <3>1. /\ cfg'.preset = cfg.preset
            /\ cfg'.deny_set = cfg.deny_set \/ Grows(cfg.deny_set, cfg'.deny_set)
            /\ cfg'.allow_set = cfg.allow_set \/ Grows(cfg.allow_set, cfg'.allow_set)
        BY <2>3, StepGrowsLists
      <3>2. /\ \A ip : InSet(cfg.deny_set, ip) => InSet(cfg'.deny_set, ip)
            /\ \A ip : InSet(cfg.allow_set, ip) => InSet(cfg'.allow_set, ip)
        BY <2>1, <3>1, GrowingListCovers
      <3>3. cfg'.allow_set = cfg.allow_set => Permitted(cfg') \subseteq Permitted(cfg)
        BY <2>0, <2>1, <3>1, <3>2, PermittedIsOpen DEF Presets
      <3>4. cfg'.deny_set = cfg.deny_set => Permitted(cfg) \subseteq Permitted(cfg')
        BY <2>0, <2>1, <3>1, <3>2, PermittedIsOpen DEF Presets
      <3>5. phase' = "built" => Permitted(cfg') = Permitted(cfg)
        <4>1. phase' # "built"
          BY <2>3, BuiltIsFrozen
        <4> QED BY <4>1
      <3> QED BY <3>3, <3>4, <3>5
    <2> QED BY <2>2, <2>3
  <1> QED BY <1>1, TypeCorrect, PTL DEF Spec, CallsMoveOneWay

-----------------------------------------------------------------------------
(***************************************************************************)
(* The verdict is the caller's.  A frozen deny list is the caller's ranges *)
(* and behind them the shipped ones; the invariant says what each part     *)
(* covers, in terms of the texts of the calls.                             *)
(***************************************************************************)
ShippedTiers == {"iana", "override", "csp_metadata"}

\* Each range contains nothing that its text does not cover.
Faithful(list) ==
  \A k \in 1 .. Len(list) : \A ip \in IpAddr :
     CidrContains(list[k], ip) => RefCovers(list[k].original, ip)

\* The ranges of one list of texts: faithful, and of the tier they were read as.
LEMMA LooseFaithful ==
  ASSUME NEW texts \in Seq(CidrText), NEW source \in DataTier
  PROVE  /\ Faithful(LooseCidrs(texts, source))
         /\ \A k \in 1 .. Len(LooseCidrs(texts, source)) :
               LooseCidrs(texts, source)[k].source = source
  <1> DEFINE list == LooseCidrs(texts, source)
             good == {i \in DOMAIN texts : ParsesLoose(texts[i])}
  <1>1. GivesRanges(list, texts, good, source)
    BY LooseGives
  <1> HIDE DEF list
  <1>2. ASSUME NEW k \in 1 .. Len(list)
        PROVE  /\ list[k].source = source
               /\ \A ip \in IpAddr : CidrContains(list[k], ip) => RefCovers(list[k].original, ip)
    <2>1. PICK i \in 1 .. Len(texts) : i \in good /\ list[k] = ParsedCidr(texts[i], source)
      BY <1>1 DEF GivesRanges
    <2>2. texts[i] \in CidrText /\ ParsesLoose(texts[i])
      BY <2>1
    <2>3. list[k].source = source /\ list[k].original = texts[i]
      BY <2>1 DEF ParsedCidr
    <2>4. \A ip \in IpAddr : CidrContains(ParsedCidr(texts[i], source), ip)
                               <=> RefCovers(texts[i], ip)
      BY <2>2, RangeCovers
    <2> QED BY <2>1, <2>3, <2>4
  <1> QED BY <1>2 DEF Faithful, list

\* The ranges of the texts the strict parser takes mean what the texts mean.
LEMMA StrictFaithful ==
  ASSUME NEW texts \in Seq(CidrText), NEW source \in DataTier
  PROVE  Faithful(StrictCidrs(texts, source))
  <1> DEFINE list == StrictCidrs(texts, source)
             good == {i \in DOMAIN texts : ParsesStrict(texts[i])}
  <1>1. GivesRanges(list, texts, good, source)
    BY StrictGives
  <1> HIDE DEF list
  <1>2. ASSUME NEW k \in 1 .. Len(list)
        PROVE  \A ip \in IpAddr : CidrContains(list[k], ip) => RefCovers(list[k].original, ip)
    <2>1. PICK i \in 1 .. Len(texts) : i \in good /\ list[k] = ParsedCidr(texts[i], source)
      BY <1>1 DEF GivesRanges
    <2>2. texts[i] \in CidrText /\ ParsesLoose(texts[i])
      BY <2>1 DEF ParsesStrict
    <2>3. list[k].original = texts[i]
      BY <2>1 DEF ParsedCidr
    <2>4. \A ip \in IpAddr : CidrContains(ParsedCidr(texts[i], source), ip)
                               <=> RefCovers(texts[i], ip)
      BY <2>2, RangeCovers
    <2> QED BY <2>1, <2>3, <2>4
  <1> QED BY <1>2 DEF Faithful, list

\* A list put behind another is faithful when both are.
LEMMA FaithfulConcat ==
  ASSUME NEW s \in Seq(CidrRange), NEW t \in Seq(CidrRange), Faithful(s), Faithful(t)
  PROVE  Faithful(s \o t)
  <1>1. /\ Len(s \o t) = Len(s) + Len(t) /\ Len(s) \in Nat /\ Len(t) \in Nat
        /\ \A k \in 1 .. Len(s) : (s \o t)[k] = s[k]
        /\ \A k \in 1 .. Len(t) : (s \o t)[Len(s) + k] = t[k]
    OBVIOUS
  <1>2. ASSUME NEW k \in 1 .. Len(s \o t), NEW ip \in IpAddr, CidrContains((s \o t)[k], ip)
        PROVE  RefCovers((s \o t)[k].original, ip)
    <2>1. CASE k \in 1 .. Len(s)
      BY <1>1, <1>2, <2>1 DEF Faithful
    <2>2. CASE k - Len(s) \in 1 .. Len(t)
      <3>1. (s \o t)[k] = t[k - Len(s)]
        <4>1. k = Len(s) + (k - Len(s))
          BY <1>1
        <4> QED BY <1>1, <2>2, <4>1
      <3> QED BY <1>2, <2>2, <3>1 DEF Faithful
    <2> QED BY <1>1, <2>1, <2>2
  <1> QED BY <1>2 DEF Faithful

\* The shipped list covers what its texts cover, and is faithful.
LEMMA ShippedIs ==
  /\ Faithful(DefaultDenySet)
  /\ \A ip \in IpAddr : InSet(DefaultDenySet, ip) <=> ShippedCovers(ip)
  <1> DEFINE a == StrictCidrs(DefaultTexts.iana_v4, "iana")
             b == StrictCidrs(DefaultTexts.iana_v6, "iana")
             c == StrictCidrs(DefaultTexts.override, "override")
             d == StrictCidrs(DefaultTexts.csp_metadata, "csp_metadata")
             Tells(texts, ip) == \E k \in 1 .. Len(texts) :
                /\ RefCovers(texts[k], ip)
                /\ AddrBits(texts[k].ip) \subseteq NetBits(texts[k])
             R == Seq(CidrRange)
  <1>1. "iana" \in DataTier /\ "override" \in DataTier /\ "csp_metadata" \in DataTier
    BY DEF DataTier
  <1>2. a \in R /\ b \in R /\ c \in R /\ d \in R
    BY <1>1, ShippedTexts, StrictType
  <1>3. Faithful(a) /\ Faithful(b) /\ Faithful(c) /\ Faithful(d)
    BY <1>1, ShippedTexts, StrictFaithful
  <1>4. ASSUME NEW ip \in IpAddr
        PROVE  /\ InSet(a, ip) <=> Tells(DefaultTexts.iana_v4, ip)
               /\ InSet(b, ip) <=> Tells(DefaultTexts.iana_v6, ip)
               /\ InSet(c, ip) <=> Tells(DefaultTexts.override, ip)
               /\ InSet(d, ip) <=> Tells(DefaultTexts.csp_metadata, ip)
    BY <1>1, ShippedTexts, StrictCovers
  <1>5. ASSUME NEW ip
        PROVE  ShippedCovers(ip) <=> \/ Tells(DefaultTexts.iana_v4, ip)
                                     \/ Tells(DefaultTexts.iana_v6, ip)
                                     \/ Tells(DefaultTexts.override, ip)
                                     \/ Tells(DefaultTexts.csp_metadata, ip)
    <2> DEFINE S == Seq(CidrText)
               Told(list) == \E k \in DOMAIN list :
                  RefCovers(list[k], ip) /\ AddrBits(list[k].ip) \subseteq NetBits(list[k])
    <2>1. DefaultTexts \in [iana_v4 : S, iana_v6 : S, override : S, csp_metadata : S]
      BY CallerAssumption
    <2>2. \A list \in S : Told(list) <=> Tells(list, ip)
      OBVIOUS
    <2>3. ShippedCovers(ip) <=> \E list \in Range(DefaultTexts) : Told(list)
      BY DEF ShippedCovers
    <2> HIDE DEF Told, Tells
    <2>4. Range(DefaultTexts) = {DefaultTexts.iana_v4, DefaultTexts.iana_v6,
                                 DefaultTexts.override, DefaultTexts.csp_metadata}
      <3> HIDE DEF S
      <3> QED BY ONLY <2>1 DEF Range
    <2> QED BY <2>2, <2>3, <2>4, ShippedTexts
  <1> HIDE DEF a, b, c, d, Tells, R
  <1>6. a \o b \in R /\ (a \o b) \o c \in R
    BY <1>2 DEF R
  <1>7. Faithful(((a \o b) \o c) \o d)
    BY <1>2, <1>3, <1>6, FaithfulConcat DEF R
  <1>8. \A ip : InSet(((a \o b) \o c) \o d, ip)
                  <=> InSet(a, ip) \/ InSet(b, ip) \/ InSet(c, ip) \/ InSet(d, ip)
    BY <1>2, <1>6, InSetConcat DEF R
  <1>9. DefaultDenySet = ((a \o b) \o c) \o d
    BY DEF DefaultDenySet, a, b, c, d
  <1> QED BY <1>4, <1>5, <1>7, <1>8, <1>9

\* The caller's part of the deny list.
CallersDeny(own) ==
  /\ own \in Seq(CidrRange)
  /\ Faithful(own)
  /\ \A k \in 1 .. Len(own) : own[k].source \notin ShippedTiers
  /\ \A ip \in IpAddr : InSet(own, ip) <=> CallerCovers("deny", ip)

DefaultsAppended == phase = "built" /\ cfg.preset = "ExternalOnly"

\* The lists are what the calls said.
ListsKeepCalls ==
  /\ \A ip \in IpAddr : InSet(cfg.allow_set, ip) <=> CallerCovers("allow", ip)
  /\ \E own : /\ CallersDeny(own)
              /\ cfg.deny_set = IF DefaultsAppended THEN own \o DefaultDenySet ELSE own

\* What a call adds to what the caller's texts cover.
LEMMA CallCovers ==
  ASSUME calls \in Seq(Call), NEW op, NEW texts,
         calls' = Append(calls, [op |-> op, texts |-> texts])
  PROVE  \A kind, ip :
           CallerCovers(kind, ip)'
             <=> \/ CallerCovers(kind, ip)
                 \/ kind = op /\ \E k \in DOMAIN texts : RefCovers(texts[k], ip)
  <1> DEFINE Says(call, kind, ip) ==
               call.op = kind /\ \E k \in DOMAIN call.texts : RefCovers(call.texts[k], ip)
             call == [op |-> op, texts |-> texts]
  <1>1. \A kind, ip : CallerCovers(kind, ip) <=> \E i \in DOMAIN calls : Says(calls[i], kind, ip)
    BY DEF CallerCovers
  <1>2. \A kind, ip :
          CallerCovers(kind, ip)' <=> \E i \in DOMAIN calls' : Says(calls'[i], kind, ip)
    BY DEF CallerCovers
  <1>3. \A kind, ip : Says(call, kind, ip)
                        <=> kind = op /\ \E k \in DOMAIN texts : RefCovers(texts[k], ip)
    OBVIOUS
  <1> HIDE DEF Says, call
  <1>4. calls' = Append(calls, call)
    BY DEF call
  <1>5. /\ Len(calls) \in Nat /\ DOMAIN calls = 1 .. Len(calls)
        /\ DOMAIN calls' = 1 .. (Len(calls) + 1)
        /\ \A i \in 1 .. Len(calls) : calls'[i] = calls[i]
        /\ calls'[Len(calls) + 1] = call
    BY <1>4
  <1>6. DOMAIN calls' = DOMAIN calls \cup {Len(calls) + 1}
    BY <1>5
  <1>7. \A kind, ip : (\E i \in DOMAIN calls' : Says(calls'[i], kind, ip))
                        <=> (\E i \in DOMAIN calls : Says(calls[i], kind, ip))
                              \/ Says(call, kind, ip)
    BY <1>5, <1>6
  <1> QED BY <1>1, <1>2, <1>3, <1>7

\* A call that denies puts its ranges behind the caller's.
LEMMA DenyKeepsCalls ==
  ASSUME TypeOK, ListsKeepCalls, NEW texts \in TextLists, NEW tier \in DataTier \ ShippedTiers,
         phase = "building", phase' = "building",
         cfg'.deny_set = cfg.deny_set \o LooseCidrs(texts, tier),
         cfg'.allow_set = cfg.allow_set,
         calls' = Append(calls, [op |-> "deny", texts |-> texts])
  PROVE  ListsKeepCalls'
  <1>1. PICK own : CallersDeny(own) /\ cfg.deny_set = own
    BY DEF ListsKeepCalls, DefaultsAppended
  <1> DEFINE more == LooseCidrs(texts, tier)
             new  == own \o more
  <1>2. texts \in Seq(CidrText) /\ tier \in DataTier
    BY CallerAssumption
  <1>3. /\ more \in Seq(CidrRange) /\ Faithful(more)
        /\ \A k \in 1 .. Len(more) : more[k].source = tier
        /\ \A ip \in IpAddr : InSet(more, ip)
                                <=> \E i \in 1 .. Len(texts) : RefCovers(texts[i], ip)
    BY <1>2, LooseType, LooseFaithful, LooseCovers
  <1>4. DOMAIN texts = 1 .. Len(texts)
    BY <1>2
  <1>5. \A kind, ip :
           CallerCovers(kind, ip)'
             <=> \/ CallerCovers(kind, ip)
                 \/ kind = "deny" /\ \E k \in DOMAIN texts : RefCovers(texts[k], ip)
    <2>1. calls \in Seq(Call)
      BY DEF TypeOK
    <2> QED BY <2>1, CallCovers
  <1> HIDE DEF more
  <1>6. own \in Seq(CidrRange) /\ Faithful(own)
    BY <1>1 DEF CallersDeny
  <1>7. new \in Seq(CidrRange) /\ Faithful(new)
    BY <1>3, <1>6, FaithfulConcat
  <1>8. \A k \in 1 .. Len(new) : new[k].source \notin ShippedTiers
    <2>1. /\ Len(new) = Len(own) + Len(more) /\ Len(own) \in Nat /\ Len(more) \in Nat
          /\ \A k \in 1 .. Len(own) : new[k] = own[k]
          /\ \A k \in 1 .. Len(more) : new[Len(own) + k] = more[k]
      BY <1>3, <1>6
    <2>2. \A k \in 1 .. Len(own) : own[k].source \notin ShippedTiers
      BY <1>1 DEF CallersDeny
    <2> HIDE DEF new
    <2>3. ASSUME NEW k \in 1 .. Len(new) PROVE new[k].source \notin ShippedTiers
      <3>1. CASE k \in 1 .. Len(own)
        BY <2>1, <2>2, <3>1
      <3>2. CASE k - Len(own) \in 1 .. Len(more)
        <4>1. k = Len(own) + (k - Len(own))
          BY <2>1
        <4>2. new[k] = more[k - Len(own)]
          BY <2>1, <3>2, <4>1
        <4> QED BY <1>3, <3>2, <4>2
      <3> QED BY <2>1, <3>1, <3>2
    <2> QED BY <2>3
  <1>9. \A ip \in IpAddr : InSet(new, ip) <=> CallerCovers("deny", ip)'
    <2>1. \A ip \in IpAddr : InSet(own, ip) <=> CallerCovers("deny", ip)
      BY <1>1 DEF CallersDeny
    <2> QED BY <1>3, <1>4, <1>5, <1>6, <2>1, InSetConcat
  <1>10. \A ip \in IpAddr : InSet(cfg'.allow_set, ip) <=> CallerCovers("allow", ip)'
    BY <1>5 DEF ListsKeepCalls
  <1>11. cfg'.deny_set = new /\ ~ DefaultsAppended'
    BY <1>1 DEF more, DefaultsAppended
  <1>12. CallersDeny(new)'
    BY <1>7, <1>8, <1>9 DEF CallersDeny, Faithful
  <1> QED BY <1>10, <1>11, <1>12 DEF ListsKeepCalls

\* A call that allows puts its ranges behind the allowed ones.
LEMMA AllowKeepsCalls ==
  ASSUME TypeOK, ListsKeepCalls, NEW texts \in TextLists,
         phase = "building", phase' = "building",
         cfg'.allow_set = cfg.allow_set \o LooseCidrs(texts, "user_allow"),
         cfg'.deny_set = cfg.deny_set,
         calls' = Append(calls, [op |-> "allow", texts |-> texts])
  PROVE  ListsKeepCalls'
  <1>1. PICK own : CallersDeny(own) /\ cfg.deny_set = own
    BY DEF ListsKeepCalls, DefaultsAppended
  <1> DEFINE more == LooseCidrs(texts, "user_allow")
  <1>2. texts \in Seq(CidrText) /\ "user_allow" \in DataTier
    BY CallerAssumption DEF DataTier
  <1>3. /\ more \in Seq(CidrRange)
        /\ \A ip \in IpAddr : InSet(more, ip)
                                <=> \E i \in 1 .. Len(texts) : RefCovers(texts[i], ip)
    BY <1>2, LooseType, LooseCovers
  <1>4. DOMAIN texts = 1 .. Len(texts)
    BY <1>2
  <1>5. \A kind, ip :
           CallerCovers(kind, ip)'
             <=> \/ CallerCovers(kind, ip)
                 \/ kind = "allow" /\ \E k \in DOMAIN texts : RefCovers(texts[k], ip)
    <2>1. calls \in Seq(Call)
      BY DEF TypeOK
    <2> QED BY <2>1, CallCovers
  <1>6. cfg.allow_set \in Seq(CidrRange)
    BY DenyListType DEF TypeOK
  <1>7. \A ip \in IpAddr : InSet(cfg'.allow_set, ip) <=> CallerCovers("allow", ip)'
    <2> HIDE DEF more
    <2>1. \A ip \in IpAddr : InSet(cfg.allow_set, ip) <=> CallerCovers("allow", ip)
      BY DEF ListsKeepCalls
    <2>2. cfg'.allow_set = cfg.allow_set \o more
      BY DEF more
    <2>3. ASSUME NEW ip \in IpAddr
          PROVE  InSet(cfg'.allow_set, ip) <=> CallerCovers("allow", ip)'
      <3>1. InSet(cfg'.allow_set, ip) <=> InSet(cfg.allow_set, ip) \/ InSet(more, ip)
        <4>1. /\ more \in Seq(CidrRange) /\ cfg.allow_set \in Seq(CidrRange)
              /\ cfg'.allow_set = cfg.allow_set \o more
          BY <1>3, <1>6, <2>2
        <4>2. InSet(cfg.allow_set \o more, ip) <=> InSet(cfg.allow_set, ip) \/ InSet(more, ip)
          BY <4>1, InSetConcat
        <4> QED BY <4>1, <4>2
      <3>2. InSet(more, ip) <=> \E k \in DOMAIN texts : RefCovers(texts[k], ip)
        BY <1>3, <1>4
      <3>3. CallerCovers("allow", ip)'
              <=> \/ CallerCovers("allow", ip)
                  \/ \E k \in DOMAIN texts : RefCovers(texts[k], ip)
        BY <1>5
      <3> QED BY <2>1, <3>1, <3>2, <3>3
    <2> QED BY <2>3
  <1>8. CallersDeny(own)'
    BY <1>1, <1>5 DEF CallersDeny, Faithful
  <1>9. cfg'.deny_set = own /\ ~ DefaultsAppended'
    BY <1>1 DEF DefaultsAppended
  <1> QED BY <1>7, <1>8, <1>9 DEF ListsKeepCalls

\* The lists are what the calls said, in every state.
LEMMA ListsKeepCallsHolds == Spec => []ListsKeepCalls
  <1>1. Init => ListsKeepCalls
    <2> SUFFICES ASSUME Init PROVE ListsKeepCalls
      OBVIOUS
    <2>1. PICK preset \in Presets : cfg = NewBuilder(preset)
      BY DEF Init
    <2>2. cfg.deny_set = <<>> /\ cfg.allow_set = <<>> /\ ~ DefaultsAppended
      BY <2>1 DEF Init, NewBuilder, DefaultsAppended
    <2>3. <<>> \in Seq(CidrRange) /\ Len(<<>>) = 0 /\ \A ip : ~ InSet(<<>>, ip)
      BY DEF InSet, Matches
    <2>4. \A kind, ip : ~ CallerCovers(kind, ip)
      BY DEF Init, CallerCovers
    <2>5. CallersDeny(<<>>)
      BY <2>3, <2>4 DEF CallersDeny, Faithful
    <2> QED BY <2>2, <2>3, <2>4, <2>5 DEF ListsKeepCalls
  <1>2. TypeOK /\ ListsKeepCalls /\ [Next]_vars => ListsKeepCalls'
    <2> SUFFICES ASSUME TypeOK, ListsKeepCalls, [Next]_vars PROVE ListsKeepCalls'
      OBVIOUS
    <2>0. cfg \in Config /\ calls \in Seq(Call)
      BY DEF TypeOK
    <2>1. ASSUME NEW texts \in TextLists, AddDenied(texts) PROVE ListsKeepCalls'
      <3> DEFINE list == cfg.deny_set \o LooseCidrs(texts, "user_deny")
      <3>1. /\ cfg' = [cfg EXCEPT !.deny_set = list]
            /\ phase = "building" /\ phase' = "building"
            /\ calls' = Append(calls, [op |-> "deny", texts |-> texts])
        BY <2>1 DEF AddDenied, BuilderCall
      <3>2. cfg'.deny_set = list /\ cfg'.allow_set = cfg.allow_set
        <4> HIDE DEF list
        <4> QED BY <2>0, <3>1 DEF Config
      <3>3. "user_deny" \in DataTier \ ShippedTiers
        BY DEF DataTier, ShippedTiers
      <3> QED BY <3>1, <3>2, <3>3, DenyKeepsCalls
    <2>2. ASSUME NEW texts \in TextLists, NEW name \in CloudNames, WithCloudDeny(name, texts)
          PROVE  ListsKeepCalls'
      <3> DEFINE list == cfg.deny_set \o LooseCidrs(texts, CloudTier(name))
                 names == Append(cfg.cloud_modules, name)
      <3>1. /\ cfg' = [cfg EXCEPT !.cloud_modules = names, !.deny_set = list]
            /\ phase = "building" /\ phase' = "building"
            /\ calls' = Append(calls, [op |-> "deny", texts |-> texts])
        BY <2>2 DEF WithCloudDeny, BuilderCall
      <3>2. cfg'.deny_set = list /\ cfg'.allow_set = cfg.allow_set
        <4> HIDE DEF list, names
        <4> QED BY <2>0, <3>1 DEF Config
      <3>3. CloudTier(name) \in DataTier \ ShippedTiers
        BY DEF CloudTier, DataTier, ShippedTiers
      <3> QED BY <3>1, <3>2, <3>3, DenyKeepsCalls
    <2>3. ASSUME NEW texts \in TextLists, AddAllowed(texts) PROVE ListsKeepCalls'
      <3> DEFINE list == cfg.allow_set \o LooseCidrs(texts, "user_allow")
      <3>1. /\ cfg' = [cfg EXCEPT !.allow_set = list]
            /\ phase = "building" /\ phase' = "building"
            /\ calls' = Append(calls, [op |-> "allow", texts |-> texts])
        BY <2>3 DEF AddAllowed, BuilderCall
      <3>2. cfg'.allow_set = list /\ cfg'.deny_set = cfg.deny_set
        <4> HIDE DEF list
        <4> QED BY <2>0, <3>1 DEF Config
      <3> QED BY <3>1, <3>2, AllowKeepsCalls
    <2>4. ASSUME ConfigureRules PROVE ListsKeepCalls'
      <3>1. PICK texts : calls' = Append(calls, [op |-> "other", texts |-> texts])
        BY <2>4 DEF ConfigureRules, SetHeaderRules, SetProtocolRules, SetAuditSink,
                    UrlAllow, UrlDeny, SetUrlRuleset, BuilderCall
      <3>2. \A ip : /\ CallerCovers("deny", ip)' <=> CallerCovers("deny", ip)
                    /\ CallerCovers("allow", ip)' <=> CallerCovers("allow", ip)
        BY <2>0, <3>1, CallCovers
      <3>3. /\ cfg'.deny_set = cfg.deny_set /\ cfg'.allow_set = cfg.allow_set
            /\ phase = "building" /\ phase' = "building"
        BY <2>4, RulesCall
      <3>4. PICK own : CallersDeny(own) /\ cfg.deny_set = own
        BY <3>3 DEF ListsKeepCalls, DefaultsAppended
      <3>5. CallersDeny(own)'
        BY <3>2, <3>4 DEF CallersDeny, Faithful
      <3>6. ~ DefaultsAppended'
        BY <3>3 DEF DefaultsAppended
      <3> QED BY <3>2, <3>3, <3>4, <3>5, <3>6 DEF ListsKeepCalls
    <2>5. CASE Build
      <3>1. /\ phase = "building" /\ phase' = "built" /\ calls' = calls
            /\ cfg' = Finalised(cfg)
        BY <2>5 DEF Build
      <3>2. /\ cfg'.preset = cfg.preset /\ cfg'.allow_set = cfg.allow_set
            /\ cfg'.deny_set = IF cfg.preset = "ExternalOnly"
                               THEN cfg.deny_set \o DefaultDenySet ELSE cfg.deny_set
        BY <2>0, <3>1, FinalisedLists
      <3>3. PICK own : CallersDeny(own) /\ cfg.deny_set = own
        BY <3>1 DEF ListsKeepCalls, DefaultsAppended
      <3>4. \A kind, ip : CallerCovers(kind, ip)' <=> CallerCovers(kind, ip)
        BY <3>1 DEF CallerCovers
      <3>5. CallersDeny(own)'
        BY <3>3, <3>4 DEF CallersDeny, Faithful
      <3>6. cfg'.deny_set = IF DefaultsAppended' THEN own \o DefaultDenySet ELSE own
        BY <3>1, <3>2, <3>3 DEF DefaultsAppended
      <3>7. \A ip \in IpAddr : InSet(cfg'.allow_set, ip) <=> CallerCovers("allow", ip)'
        BY <3>2, <3>4 DEF ListsKeepCalls
      <3> QED BY <3>5, <3>6, <3>7 DEF ListsKeepCalls
    <2>6. CASE cfg' = cfg /\ calls' = calls /\ (phase' = "built" <=> phase = "built")
      <3>1. \A kind, ip : CallerCovers(kind, ip)' <=> CallerCovers(kind, ip)
        BY <2>6 DEF CallerCovers
      <3>2. PICK own : /\ CallersDeny(own)
                       /\ cfg.deny_set = IF DefaultsAppended THEN own \o DefaultDenySet ELSE own
        BY DEF ListsKeepCalls
      <3>3. CallersDeny(own)'
        BY <3>1, <3>2 DEF CallersDeny, Faithful
      <3>4. DefaultsAppended' <=> DefaultsAppended
        BY <2>6 DEF DefaultsAppended
      <3> QED BY <2>6, <3>1, <3>2, <3>3, <3>4 DEF ListsKeepCalls
    <2>7. CASE BuildFails("panicked") \/ BuildFails("failed")
      BY <2>6, <2>7 DEF BuildFails
    <2>8. CASE Query \/ UNCHANGED vars
      BY <2>6, <2>8 DEF Query, AskRequest, AskNetwork, AskHosts, AskHeaders, AskScheme, Ask, vars
    <2> QED BY <2>1, <2>2, <2>3, <2>4, <2>5, <2>7, <2>8 DEF Next, ConfigureRanges, Finish
  <1> QED BY <1>1, <1>2, TypeCorrect, PTL DEF Spec

\* What the caller permits is what is open.
LEMMA PermitsIsOpen ==
  ASSUME TypeOK, ListsKeepCalls, phase = "built", NEW ip \in IpAddr
  PROVE  CallerPermits(ip) <=> Open(cfg, ip)
  <1>1. cfg.preset \in Presets
    BY DEF TypeOK, Config
  <1>2. InSet(cfg.allow_set, ip) <=> CallerCovers("allow", ip)
    BY DEF ListsKeepCalls
  <1>3. PICK own : /\ CallersDeny(own)
                   /\ cfg.deny_set = IF DefaultsAppended THEN own \o DefaultDenySet ELSE own
    BY DEF ListsKeepCalls
  <1>4. CASE cfg.preset = "ExternalOnly"
    <2>1. cfg.deny_set = own \o DefaultDenySet
      BY <1>3, <1>4 DEF DefaultsAppended
    <2>2. own \in Seq(CidrRange) /\ (InSet(own, ip) <=> CallerCovers("deny", ip))
      BY <1>3 DEF CallersDeny
    <2>3. InSet(own \o DefaultDenySet, ip) <=> InSet(own, ip) \/ InSet(DefaultDenySet, ip)
      BY <2>2, ParsedTexts, InSetConcat
    <2>4. InSet(DefaultDenySet, ip) <=> ShippedCovers(ip)
      BY ShippedIs
    <2> QED BY <1>2, <1>4, <2>1, <2>2, <2>3, <2>4 DEF CallerPermits, Open
  <1>5. CASE cfg.preset # "ExternalOnly"
    BY <1>1, <1>2, <1>5 DEF CallerPermits, Open, Presets
  <1> QED BY <1>4, <1>5

\* The verdict on an address is the one the caller's texts call for.
THEOREM VerdictIsTheCallers == Spec => []VerdictKeepsCallerIntent
  <1>1. TypeOK /\ ListsKeepCalls => VerdictKeepsCallerIntent
    <2> SUFFICES ASSUME TypeOK, ListsKeepCalls, phase = "built", NEW ip \in IpAddr
                 PROVE  Passed(IsNetworkAllowed(cfg, <<ip>>)) <=> CallerPermits(ip)
      BY DEF VerdictKeepsCallerIntent
    <2>1. cfg.preset \in Presets
      BY DEF TypeOK, Config
    <2> QED BY <2>1, PermitsIsOpen, OnePasses
  <1> QED BY <1>1, TypeCorrect, ListsKeepCallsHolds, PTL

\* The first range of a list that contains an address.
LEMMA FirstMatchIs ==
  ASSUME NEW list \in Seq(CidrRange), NEW ip, InSet(list, ip)
  PROVE  \E k \in 1 .. Len(list) :
            /\ FirstMatch(list, ip) = list[k]
            /\ CidrContains(list[k], ip)
            /\ \A j \in 1 .. Len(list) : CidrContains(list[j], ip) => k <= j
  <1> DEFINE found == Matches(list, ip)
             k == CHOOSE i \in found : \A j \in found : i <= j
  <1>1. found \in SUBSET Nat /\ found # {}
    BY DEF InSet, Matches
  <1>2. \A i : i \in found <=> i \in 1 .. Len(list) /\ CidrContains(list[i], ip)
    BY DEF Matches
  <1>3. FirstMatch(list, ip) = list[k]
    BY DEF FirstMatch
  <1> HIDE DEF found
  <1>4. \E i \in found : \A j \in found : i <= j
    BY <1>1, LeastNat
  <1>5. k \in found /\ \A j \in found : k <= j
    BY <1>4, Zenon
  <1> QED BY <1>2, <1>3, <1>5

\* When the answer is InDenyCidr, it names the first range that contains the
\* first address that is not open.
LEMMA DenialIs ==
  ASSUME NEW c, c.preset \in Presets, NEW ips \in Seq(IpAddr),
         IsNetworkAllowed(c, ips).reason = "InDenyCidr"
  PROVE  /\ c.preset = "ExternalOnly"
         /\ \E i \in DOMAIN ips :
              /\ IsNetworkAllowed(c, ips).cidr = <<FirstMatch(c.deny_set, ips[i])>>
              /\ InSet(c.deny_set, ips[i])
              /\ ~ Open(c, ips[i])
              /\ \A j \in 1 .. (i - 1) : Open(c, ips[j])
  <1> DEFINE denied == {i \in DOMAIN ips : /\ ~ InSet(c.allow_set, ips[i])
                                           /\ InSet(c.deny_set, ips[i])}
             first  == CHOOSE i \in denied : \A j \in denied : i <= j
             range  == FirstMatch(c.deny_set, ips[first])
  <1>1. Ok.reason # "InDenyCidr" /\ \A reason : Blocked(reason).reason = reason
    BY DEF Ok, Blocked
  <1>2. ips # <<>>
    BY <1>1 DEF IsNetworkAllowed
  <1>3. c.preset = "ExternalOnly"
    BY <1>1, <1>2 DEF IsNetworkAllowed, InternalOnlyVerdict, Presets
  <1>4. IsNetworkAllowed(c, ips) = ExternalOnlyVerdict(c, ips)
    BY <1>2, <1>3 DEF IsNetworkAllowed
  <1>5. ExternalOnlyVerdict(c, ips) = IF denied = {} THEN Ok ELSE BlockedByCidr(range)
    BY Zenon DEF ExternalOnlyVerdict
  <1>6. denied # {} /\ IsNetworkAllowed(c, ips) = BlockedByCidr(range)
    BY <1>1, <1>4, <1>5
  <1>7. IsNetworkAllowed(c, ips).cidr = <<range>>
    BY <1>6 DEF BlockedByCidr
  <1>8. denied \in SUBSET Nat
    OBVIOUS
  <1>9. \E i \in denied : \A j \in denied : i <= j
    BY <1>6, <1>8, LeastNat
  <1>10. first \in denied /\ \A j \in denied : first <= j
    BY <1>9, Zenon
  <1>11. /\ first \in DOMAIN ips /\ InSet(c.deny_set, ips[first])
         /\ ~ InSet(c.allow_set, ips[first])
    BY <1>10
  <1>12. ASSUME NEW j \in 1 .. (first - 1) PROVE Open(c, ips[j])
    <2>1. j \in DOMAIN ips /\ ~ (first <= j)
      BY <1>11
    <2>2. j \notin denied
      BY <1>10, <2>1
    <2> QED BY <1>3, <2>1, <2>2 DEF Open
  <1>13. ~ Open(c, ips[first])
    BY <1>3, <1>11 DEF Open
  <1> HIDE DEF first
  <1> QED BY <1>3, <1>7, <1>11, <1>12, <1>13

\* The range a denial names belongs to the first address that does not pass,
\* and is the caller's if one of the caller's covers it.
THEOREM DenialNamesTheOffender == Spec => []DenialNamesTheFirstOffender
  <1>1. TypeOK /\ ListsKeepCalls => DenialNamesTheFirstOffender
    <2> SUFFICES ASSUME TypeOK, ListsKeepCalls, phase = "built", NEW ips \in IpLists,
                        IsNetworkAllowed(cfg, ips).reason = "InDenyCidr"
                 PROVE  LET verdict == IsNetworkAllowed(cfg, ips)
                        IN \E i \in DOMAIN ips :
                             /\ \A j \in 1 .. (i - 1) : CallerPermits(ips[j])
                             /\ ~ CallerPermits(ips[i])
                             /\ RefCovers(verdict.cidr[1].original, ips[i])
                             /\ verdict.cidr[1].source \in {"iana", "override", "csp_metadata"}
                                  => ~ CallerCovers("deny", ips[i])
      BY DEF DenialNamesTheFirstOffender
    <2>1. cfg.preset \in Presets /\ ips \in Seq(IpAddr)
      BY CallerAssumption DEF TypeOK, Config
    <2>2. cfg.preset = "ExternalOnly"
      BY <2>1, DenialIs
    <2>3. PICK i \in DOMAIN ips :
             /\ IsNetworkAllowed(cfg, ips).cidr = <<FirstMatch(cfg.deny_set, ips[i])>>
             /\ InSet(cfg.deny_set, ips[i])
             /\ ~ Open(cfg, ips[i])
             /\ \A j \in 1 .. (i - 1) : Open(cfg, ips[j])
      BY <2>1, DenialIs
    <2>4. ips[i] \in IpAddr /\ \A j \in 1 .. (i - 1) : ips[j] \in IpAddr
      BY <2>1
    <2>5. PICK own : CallersDeny(own) /\ cfg.deny_set = own \o DefaultDenySet
      BY <2>2 DEF ListsKeepCalls, DefaultsAppended
    <2>6. /\ own \in Seq(CidrRange) /\ DefaultDenySet \in Seq(CidrRange)
          /\ own \o DefaultDenySet \in Seq(CidrRange)
      BY <2>5, ParsedTexts DEF CallersDeny
    <2>7. Faithful(cfg.deny_set)
      BY <2>5, <2>6, ShippedIs, FaithfulConcat DEF CallersDeny
    <2>8. PICK k \in 1 .. Len(cfg.deny_set) :
             /\ FirstMatch(cfg.deny_set, ips[i]) = cfg.deny_set[k]
             /\ CidrContains(cfg.deny_set[k], ips[i])
             /\ \A j \in 1 .. Len(cfg.deny_set) :
                   CidrContains(cfg.deny_set[j], ips[i]) => k <= j
      BY <2>3, <2>5, <2>6, FirstMatchIs
    <2> DEFINE named == IsNetworkAllowed(cfg, ips).cidr[1]
    <2>9. named = cfg.deny_set[k]
      BY <2>3, <2>8
    <2>10. RefCovers(named.original, ips[i])
      BY <2>4, <2>7, <2>8, <2>9 DEF Faithful
    <2>11. ASSUME named.source \in ShippedTiers PROVE ~ CallerCovers("deny", ips[i])
      <3>1. /\ Len(own) \in Nat /\ Len(cfg.deny_set) = Len(own) + Len(DefaultDenySet)
            /\ Len(DefaultDenySet) \in Nat
            /\ \A j \in 1 .. Len(own) : cfg.deny_set[j] = own[j]
        BY <2>5, <2>6
      <3>2. k \notin 1 .. Len(own)
        BY <2>5, <2>9, <2>11, <3>1 DEF CallersDeny
      <3>3. \A j \in 1 .. Len(own) : ~ CidrContains(own[j], ips[i])
        BY <2>8, <3>1, <3>2
      <3>4. ~ InSet(own, ips[i])
        BY <2>6, <3>3, InSetIs
      <3> QED BY <2>4, <2>5, <3>4 DEF CallersDeny
    <2>12. ~ CallerPermits(ips[i]) /\ \A j \in 1 .. (i - 1) : CallerPermits(ips[j])
      BY <2>3, <2>4, PermitsIsOpen
    <2> HIDE DEF named
    <2> QED BY <2>10, <2>11, <2>12 DEF ShippedTiers, named
  <1> QED BY <1>1, TypeCorrect, ListsKeepCallsHolds, PTL

-----------------------------------------------------------------------------
\* What the URL rules may say, and when a request passes.
LEMMA DecisionKnown ==
  ASSUME NEW c, NEW url
  PROVE  UrlRulesDecision(c, url) \in {"Denied", "Allowed", "AllowedBypassIp", "NoMatch"}
  BY DEF UrlRulesDecision, Evaluate

\* A request passes as its decision and its address say.
LEMMA RequestPasses ==
  ASSUME NEW c, NEW url, NEW ips
  PROVE  Passed(IsRequestAllowed(c, url, ips))
           <=> /\ UrlRulesDecision(c, url) # "Denied"
               /\ \/ UrlRulesDecision(c, url) = "AllowedBypassIp"
                  \/ Passed(IsNetworkAllowed(c, ips))
  <1>1. Passed(Ok) /\ ~ Passed(Blocked("UrlRuleDenied"))
    BY DEF Passed, Ok, Blocked
  <1> DEFINE decision == UrlRulesDecision(c, url)
  <1>2. CASE decision = "Denied"
    BY <1>1, <1>2 DEF IsRequestAllowed
  <1>3. CASE decision = "AllowedBypassIp"
    BY <1>1, <1>3 DEF IsRequestAllowed
  <1>4. CASE decision \notin {"Denied", "AllowedBypassIp"}
    BY <1>4 DEF IsRequestAllowed
  <1> QED BY <1>2, <1>3, <1>4

\* The decision of the URL rules depends on the rules alone, and compiling them
\* again changes nothing.
LEMMA SameRules ==
  ASSUME NEW c \in Config, NEW d \in Config, c.url_ruleset = d.url_ruleset
  PROVE  \A url : UrlRulesDecision(WithCompiledRules(c), url)
                    = UrlRulesDecision(WithCompiledRules(d), url)
  <1>1. WithCompiledRules(c).url_ruleset = WithCompiledRules(d).url_ruleset
    <2> DEFINE rs == c.url_ruleset
               compiled == Compiled(rs)
    <2>1. CASE RulesetIsEmpty(rs)
      BY <2>1 DEF WithCompiledRules
    <2>2. CASE ~ RulesetIsEmpty(rs)
      <3>1. /\ WithCompiledRules(c) = [c EXCEPT !.url_ruleset = compiled]
            /\ WithCompiledRules(d) = [d EXCEPT !.url_ruleset = compiled]
        BY <2>2 DEF WithCompiledRules
      <3> HIDE DEF compiled
      <3> QED BY <3>1 DEF Config
    <2> QED BY <2>1, <2>2
  <1> QED BY <1>1 DEF UrlRulesDecision

\* Compiling rules twice is compiling them once.
LEMMA CompiledTwice ==
  ASSUME NEW c \in Config
  PROVE  WithCompiledRules(WithCompiledRules(c)) = WithCompiledRules(c)
  <1> DEFINE rs == c.url_ruleset
             compiled == Compiled(rs)
             d == [c EXCEPT !.url_ruleset = compiled]
  <1>1. CASE RulesetIsEmpty(rs)
    BY <1>1 DEF WithCompiledRules
  <1>2. CASE ~ RulesetIsEmpty(rs)
    <2>1. WithCompiledRules(c) = d
      BY <1>2 DEF WithCompiledRules
    <2>2. rs \in Ruleset
      BY DEF Config
    <2>3. compiled \in Ruleset /\ ~ RulesetIsEmpty(compiled) /\ Compiled(compiled) = compiled
      BY <1>2, <2>2 DEF Compiled, RulesetIsEmpty, Ruleset
    <2> HIDE DEF compiled
    <2>4. d.url_ruleset = compiled /\ [d EXCEPT !.url_ruleset = compiled] = d
      BY DEF Config
    <2>5. WithCompiledRules(d) = [d EXCEPT !.url_ruleset = Compiled(compiled)]
      <3> HIDE DEF d
      <3> QED BY <2>3, <2>4 DEF WithCompiledRules
    <2> QED BY <2>1, <2>3, <2>4, <2>5
  <1> QED BY <1>1, <1>2

\* A frozen policy has its rules compiled.
RulesReady == phase = "built" => WithCompiledRules(cfg) = cfg

\* RulesReady holds in every state.
LEMMA RulesReadyHolds == Spec => []RulesReady
  <1>1. Init => RulesReady
    BY DEF Init, RulesReady
  <1>2. TypeOK /\ RulesReady /\ [Next]_vars => RulesReady'
    <2> SUFFICES ASSUME TypeOK, RulesReady, [Next]_vars, phase' = "built"
                 PROVE  WithCompiledRules(cfg') = cfg'
      BY DEF RulesReady
    <2>1. CASE cfg' = Finalised(cfg)
      <3>1. WithDefaults(cfg) \in Config
        BY DefaultsType DEF TypeOK
      <3> QED BY <2>1, <3>1, CompiledTwice DEF Finalised
    <2>2. CASE cfg' # Finalised(cfg)
      <3>1. cfg' = cfg /\ ~ ConfigureRanges /\ ~ ConfigureRules /\ ~ Build
        <4>1. cfg' = cfg
          BY <2>2, BuiltIsFrozen
        <4>2. ~ Build
          BY <2>2 DEF Build
        <4> QED BY <4>1, <4>2, DenyCall, AllowCall, RulesCall DEF ConfigureRanges
      <3>2. phase = "built"
        BY <3>1 DEF Next, Finish, BuildFails, Query, AskRequest, AskNetwork, AskHosts,
                    AskHeaders, AskScheme, Ask, vars
      <3> QED BY <3>1, <3>2 DEF RulesReady
    <2> QED BY <2>1, <2>2
  <1> QED BY <1>1, <1>2, TypeCorrect, PTL DEF Spec

-----------------------------------------------------------------------------
\* rule_matches means what RefRuleMatches says.
LEMMA RuleMatchesIs ==
  ASSUME NEW rule \in UrlRuleArgs, NEW url \in Urls
  PROVE  RuleMatches(rule, url) <=> RefRuleMatches(rule, url)
  <1>1. CASE rule.regex # {}
    BY <1>1 DEF RuleMatches, RefRuleMatches
  <1>2. CASE rule.regex = {}
    <2>1. /\ \A s, t \in rule.scheme : s = t
          /\ rule.host \subseteq Seq(STRING) /\ rule.path \subseteq Seq(STRING)
          /\ url.host \in Seq(STRING) /\ url.path \in Seq(STRING)
      BY CallerAssumption
    <2>2. (\A s \in rule.scheme : url.scheme = {s}) <=> rule.scheme \in {{}, url.scheme}
      <3>1. CASE rule.scheme = {}
        BY <3>1
      <3>2. ASSUME NEW s \in rule.scheme
            PROVE  (\A t \in rule.scheme : url.scheme = {t}) <=> rule.scheme \in {{}, url.scheme}
        <4>1. rule.scheme = {s}
          BY <2>1
        <4> QED BY <4>1
      <3> QED BY <3>1, <3>2
    <2>3. ASSUME NEW h \in rule.host
          PROVE  GlobMatchHost(h, url.host) <=>
                   /\ Len(h) = Len(url.host)
                   /\ {i \in DOMAIN h : h[i] # url.host[i]} \subseteq {i \in DOMAIN h : h[i] = "*"}
      BY DEF GlobMatchHost
    <2>4. ASSUME NEW p \in rule.path
          PROVE  GlobMatchPath(p, url.path) <=> RefPathMatch(p, url.path)
      <3>1. Len(p) \in Nat /\ Len(url.path) \in Nat
        BY <2>1
      <3> QED BY <3>1, GlobMatchPathIs
    <2> QED BY <1>2, <2>2, <2>3, <2>4 DEF RuleMatches, MatchesParts, RefRuleMatches
  <1> QED BY <1>1, <1>2

\* The rule of the first match decides whether the addresses are asked about.
LEMMA FirstAllowIs ==
  ASSUME NEW rules \in Seq(UrlRuleArgs), NEW url, AnyMatches(rules, url)
  PROVE  \E k \in 1 .. Len(rules) :
            /\ FirstAllow(rules, url) = rules[k]
            /\ RuleMatches(rules[k], url)
            /\ \A j \in 1 .. Len(rules) : RuleMatches(rules[j], url) => k <= j
  <1> DEFINE found == {i \in 1 .. Len(rules) : RuleMatches(rules[i], url)}
             First(i) == /\ RuleMatches(rules[i], url)
                         /\ \A j \in DOMAIN rules : RuleMatches(rules[j], url) => i <= j
             k == CHOOSE i \in DOMAIN rules : First(i)
  <1>1. DOMAIN rules = 1 .. Len(rules)
    OBVIOUS
  <1>2. found \in SUBSET Nat /\ found # {}
    BY <1>1 DEF AnyMatches
  <1>3. PICK i \in found : \A j \in found : i <= j
    BY <1>2, LeastNat
  <1>4. i \in DOMAIN rules /\ First(i)
    BY <1>1, <1>3
  <1>5. k \in DOMAIN rules /\ First(k)
    <2> HIDE DEF First
    <2> QED BY <1>4, Zenon
  <1>6. FirstAllow(rules, url) = rules[k]
    BY DEF FirstAllow
  <1> HIDE DEF k
  <1> QED BY <1>1, <1>5, <1>6

\* The lists evaluate() reads are the rules as given.
LEMMA RulesInForce ==
  ASSUME TypeOK, RulesReady, phase = "built"
  PROVE  \/ cfg.url_ruleset.allow = <<>> /\ cfg.url_ruleset.deny = <<>>
         \/ /\ cfg.url_ruleset.compiled_allow = cfg.url_ruleset.allow
            /\ cfg.url_ruleset.compiled_deny = cfg.url_ruleset.deny
            /\ ~ RulesetIsEmpty(cfg.url_ruleset)
  <1> DEFINE rs == cfg.url_ruleset
             compiled == Compiled(rs)
  <1>1. cfg \in Config /\ rs \in Ruleset
    BY DEF TypeOK, Config
  <1>2. CASE RulesetIsEmpty(rs)
    BY <1>2 DEF RulesetIsEmpty
  <1>3. CASE ~ RulesetIsEmpty(rs)
    <2>1. [cfg EXCEPT !.url_ruleset = compiled] = cfg
      BY <1>3 DEF RulesReady, WithCompiledRules
    <2>2. rs = compiled
      <3> HIDE DEF compiled
      <3> QED BY <1>1, <2>1 DEF Config
    <2>3. /\ compiled.compiled_allow = rs.allow /\ compiled.compiled_deny = rs.deny
      BY <1>1 DEF Compiled, Ruleset
    <2> QED BY <1>3, <2>2, <2>3
  <1> QED BY <1>2, <1>3

\* The decision of the rules in force, in terms of which of them match.
LEMMA DecisionIs ==
  ASSUME TypeOK, RulesReady, phase = "built", NEW url \in Urls
  PROVE  LET rs      == cfg.url_ruleset
             hits(s) == {i \in DOMAIN s : RefRuleMatches(s[i], url)}
             bypass  == \E i \in hits(rs.allow) :
                           /\ rs.allow[i].bypass_ip_check
                           /\ hits(rs.allow) \cap 1 .. (i - 1) = {}
         IN /\ UrlRulesDecision(cfg, url) # "Denied"
                 <=> hits(rs.deny) = {} /\ (rs.allow = <<>> \/ hits(rs.allow) # {})
            /\ UrlRulesDecision(cfg, url) = "AllowedBypassIp"
                 <=> hits(rs.deny) = {} /\ bypass
  <1> DEFINE rs      == cfg.url_ruleset
             hits(s) == {i \in DOMAIN s : RefRuleMatches(s[i], url)}
             bypass  == \E i \in hits(rs.allow) :
                           /\ rs.allow[i].bypass_ip_check
                           /\ hits(rs.allow) \cap 1 .. (i - 1) = {}
             decision == UrlRulesDecision(cfg, url)
  <1>1. rs.allow \in Seq(UrlRuleArgs) /\ rs.deny \in Seq(UrlRuleArgs)
    BY DEF TypeOK, Config, Ruleset
  <1>2. ASSUME NEW s \in Seq(UrlRuleArgs)
        PROVE  hits(s) = {i \in 1 .. Len(s) : RuleMatches(s[i], url)}
    <2>1. DOMAIN s = 1 .. Len(s) /\ \A i \in 1 .. Len(s) : s[i] \in UrlRuleArgs
      OBVIOUS
    <2> QED BY <2>1, RuleMatchesIs
  <1>3. ASSUME NEW s \in Seq(UrlRuleArgs) PROVE AnyMatches(s, url) <=> hits(s) # {}
    <2>1. DOMAIN s = 1 .. Len(s)
      OBVIOUS
    <2> QED BY <1>2, <2>1 DEF AnyMatches
  <1>4. CASE rs.allow = <<>> /\ rs.deny = <<>>
    <2>1. decision = "NoMatch"
      BY <1>4 DEF UrlRulesDecision, RulesetIsEmpty
    <2>2. hits(rs.allow) = {} /\ hits(rs.deny) = {}
      BY <1>4
    <2> HIDE DEF hits, decision
    <2> QED BY <1>4, <2>1, <2>2 DEF decision, hits
  <1>5. CASE /\ rs.compiled_allow = rs.allow /\ rs.compiled_deny = rs.deny
             /\ ~ RulesetIsEmpty(rs)
    <2>1. decision = IF AnyMatches(rs.deny, url) THEN "Denied"
                     ELSE IF rs.allow = <<>> THEN "NoMatch"
                     ELSE IF ~ AnyMatches(rs.allow, url) THEN "Denied"
                     ELSE IF FirstAllow(rs.allow, url).bypass_ip_check
                          THEN "AllowedBypassIp" ELSE "Allowed"
      BY <1>5 DEF UrlRulesDecision, Evaluate
    <2>2. AnyMatches(rs.allow, url) =>
            (FirstAllow(rs.allow, url).bypass_ip_check <=> bypass)
      <3> SUFFICES ASSUME AnyMatches(rs.allow, url)
                   PROVE  FirstAllow(rs.allow, url).bypass_ip_check <=> bypass
        OBVIOUS
      <3>1. PICK k \in 1 .. Len(rs.allow) :
               /\ FirstAllow(rs.allow, url) = rs.allow[k]
               /\ RuleMatches(rs.allow[k], url)
               /\ \A j \in 1 .. Len(rs.allow) : RuleMatches(rs.allow[j], url) => k <= j
        BY <1>1, FirstAllowIs
      <3>2. hits(rs.allow) = {i \in 1 .. Len(rs.allow) : RuleMatches(rs.allow[i], url)}
        BY <1>1, <1>2
      <3> HIDE DEF hits, rs
      <3>3. k \in hits(rs.allow) /\ \A j \in hits(rs.allow) : k <= j /\ j \in Nat
        BY <3>1, <3>2
      <3>4. hits(rs.allow) \cap 1 .. (k - 1) = {}
        BY <3>3
      <3>5. \A i \in hits(rs.allow) : hits(rs.allow) \cap 1 .. (i - 1) = {} => i = k
        <4> SUFFICES ASSUME NEW i \in hits(rs.allow), hits(rs.allow) \cap 1 .. (i - 1) = {}
                     PROVE  i = k
          OBVIOUS
        <4>1. k \notin 1 .. (i - 1) /\ k <= i /\ i \in Nat /\ k \in 1 .. Len(rs.allow)
          BY <3>3
        <4> QED BY <4>1
      <3> QED BY <3>1, <3>3, <3>4, <3>5
    <2>3. rs.allow = <<>> => hits(rs.allow) = {}
      BY <1>1
    <2>4. /\ AnyMatches(rs.allow, url) <=> hits(rs.allow) # {}
          /\ AnyMatches(rs.deny, url) <=> hits(rs.deny) # {}
      BY <1>1, <1>3
    <2>5. bypass => hits(rs.allow) # {}
      OBVIOUS
    <2> HIDE DEF hits, bypass, decision
    <2>6. /\ decision # "Denied"
               <=> hits(rs.deny) = {} /\ (rs.allow = <<>> \/ hits(rs.allow) # {})
          /\ decision = "AllowedBypassIp" <=> hits(rs.deny) = {} /\ bypass
      BY <2>1, <2>2, <2>3, <2>4, <2>5
    <2> QED BY <2>6 DEF hits, bypass, decision
  <1> HIDE DEF hits, bypass, decision
  <1> QED BY <1>4, <1>5, RulesInForce DEF hits, bypass, decision

\* A request passes as the rules in force and its addresses say.
THEOREM UrlRulesDecideRequests == Spec => []UrlVerdictPromise
  <1>1. TypeOK /\ RulesReady => UrlVerdictPromise
    <2> SUFFICES ASSUME TypeOK, RulesReady, phase = "built", NEW url \in Urls, NEW ips \in IpLists
                 PROVE  LET rs      == cfg.url_ruleset
                            hits(s) == {i \in DOMAIN s : RefRuleMatches(s[i], url)}
                            bypass  == \E i \in hits(rs.allow) :
                                          /\ rs.allow[i].bypass_ip_check
                                          /\ hits(rs.allow) \cap 1 .. (i - 1) = {}
                        IN Passed(IsRequestAllowed(cfg, url, ips))
                             <=> /\ hits(rs.deny) = {}
                                 /\ rs.allow = <<>> \/ hits(rs.allow) # {}
                                 /\ bypass \/ Passed(IsNetworkAllowed(cfg, ips))
      BY DEF UrlVerdictPromise
    <2> DEFINE rs      == cfg.url_ruleset
               hits(s) == {i \in DOMAIN s : RefRuleMatches(s[i], url)}
               bypass  == \E i \in hits(rs.allow) :
                             /\ rs.allow[i].bypass_ip_check
                             /\ hits(rs.allow) \cap 1 .. (i - 1) = {}
    <2>1. /\ UrlRulesDecision(cfg, url) # "Denied"
               <=> hits(rs.deny) = {} /\ (rs.allow = <<>> \/ hits(rs.allow) # {})
          /\ UrlRulesDecision(cfg, url) = "AllowedBypassIp" <=> hits(rs.deny) = {} /\ bypass
      BY DecisionIs
    <2>2. Passed(IsRequestAllowed(cfg, url, ips))
            <=> /\ UrlRulesDecision(cfg, url) # "Denied"
                /\ \/ UrlRulesDecision(cfg, url) = "AllowedBypassIp"
                   \/ Passed(IsNetworkAllowed(cfg, ips))
      BY RequestPasses
    <2> HIDE DEF hits, bypass, rs
    <2>3. Passed(IsRequestAllowed(cfg, url, ips))
            <=> /\ hits(rs.deny) = {}
                /\ rs.allow = <<>> \/ hits(rs.allow) # {}
                /\ bypass \/ Passed(IsNetworkAllowed(cfg, ips))
      BY <2>1, <2>2
    <2> QED BY <2>3 DEF hits, bypass, rs
  <1> QED BY <1>1, TypeCorrect, RulesReadyHolds, PTL

-----------------------------------------------------------------------------
\* The lists of questions the promise decides, in the engine's terms.
LEMMA AddressMaps ==
  ASSUME TypeOK, NEW ip \in IpAddr
  PROVE  Promise!AddressOpen(ip) <=> Passed(IsNetworkAllowed(cfg, <<ip>>))
  <1>1. cfg.preset \in Presets
    BY DEF TypeOK, Config
  <1>2. Promise!AddressOpen(ip) <=> Open(cfg, ip)
    BY <1>1 DEF Promise!AddressOpen, Open, Covered, Presets
  <1> QED BY <1>1, <1>2, OnePasses

\* A question about a list maps to a decision of the promise.
LEMMA NetworkMaps ==
  ASSUME TypeOK, NEW ips \in Seq(IpAddr)
  PROVE  Promise!NetworkOpen(ips) <=> Passed(IsNetworkAllowed(cfg, ips))
  <1>1. cfg.preset \in Presets
    BY DEF TypeOK, Config
  <1>2. \A i \in DOMAIN ips : ips[i] \in IpAddr
    OBVIOUS
  <1>3. \A i \in DOMAIN ips : Promise!AddressOpen(ips[i]) <=> Open(cfg, ips[i])
    BY <1>1, <1>2, AddressMaps, OnePasses
  <1> QED BY <1>1, <1>3, NetworkPasses DEF Promise!NetworkOpen

\* So does a question about hosts.
LEMMA HostsMap ==
  ASSUME TypeOK, NEW hosts \in HostLists
  PROVE  Promise!HostsOpen(hosts) <=> Passed(ValidateAllHosts(cfg, hosts))
  <1> DEFINE Host == [form : HostForms, ip : IpAddr]
  <1>1. hosts \in Seq(Host)
    BY CallerAssumption
  <1>2. Passed(Ok) /\ \A reason \in Reasons \ {"Allowed"} : ~ Passed(Blocked(reason))
    BY DEF Passed, Ok, Blocked
  <1>3. Passed(ValidateAllHosts(cfg, hosts))
          <=> \A i \in DOMAIN hosts : Passed(HostVerdict(cfg, hosts[i]))
    BY <1>1, <1>2, HostsVerdict
  <1>4. ASSUME NEW i \in DOMAIN hosts
        PROVE  Passed(HostVerdict(cfg, hosts[i]))
                 <=> /\ hosts[i].form # "ambiguous"
                     /\ hosts[i].form = "ip" => Promise!NetworkOpen(<<hosts[i].ip>>)
    <2> DEFINE host == hosts[i]
    <2>1. host \in Host
      <3> HIDE DEF Host
      <3>1. hosts \in Seq(Host) /\ i \in DOMAIN hosts
        BY <1>1
      <3> QED BY ONLY <3>1
    <2>2. host.form \in HostForms /\ host.ip \in IpAddr
      BY <2>1
    <2> HIDE DEF host
    <2>3. Promise!NetworkOpen(<<host.ip>>) <=> Passed(IsNetworkAllowed(cfg, <<host.ip>>))
      <3>1. <<host.ip>> \in Seq(IpAddr)
        BY <2>2
      <3> QED BY <3>1, NetworkMaps
    <2>4. Passed(HostVerdict(cfg, host))
            <=> /\ host.form # "ambiguous"
                /\ host.form = "ip" => Passed(IsNetworkAllowed(cfg, <<host.ip>>))
      <3>1. /\ ~ Passed(Blocked("AmbiguousIpEncoding"))
            /\ ~ Passed(Blocked("MultiHostFallbackDenied"))
        BY <1>2 DEF Reasons
      <3>2. CASE host.form = "ambiguous"
        BY <3>1, <3>2 DEF HostVerdict
      <3>3. CASE host.form = "name"
        BY <1>2, <3>3 DEF HostVerdict
      <3>4. CASE host.form = "ip"
        BY <1>2, <3>1, <3>4 DEF HostVerdict
      <3> QED BY <2>2, <3>2, <3>3, <3>4 DEF HostForms
    <2> QED BY <2>3, <2>4 DEF host
  <1> QED BY <1>3, <1>4 DEF Promise!HostsOpen

\* Questions map to replies.
LEMMA QueryMaps ==
  ASSUME TypeOK, RulesReady, Query
  PROVE  Promise!Decide \/ Promise!DecideOther
  <1>0. cfg \in Config
    BY DEF TypeOK
  <1>1. ASSUME NEW kind, NEW url, NEW subject, NEW verdict,
               Ask(kind, url, subject, verdict)
        PROVE  /\ phase = "built" /\ WithCompiledRules(cfg) = cfg
               /\ Promise!Reply(kind, url, subject, Passed(verdict))
    <2>1. /\ phase = "built" /\ phase' = phase /\ cfg' = cfg
          /\ answer' = [ask |-> kind, url |-> url, subject |-> subject, verdict |-> verdict]
      BY <1>1 DEF Ask
    <2> QED BY <2>1 DEF RulesReady, Promise!Reply
  <1>2. ASSUME NEW url \in Urls, NEW ips \in IpLists, AskRequest(url, ips)
        PROVE  Promise!Decide
    <2>1. ips \in Seq(IpAddr)
      BY CallerAssumption
    <2>2. /\ WithCompiledRules(cfg) = cfg
          /\ Promise!Reply("request", url, ips, Passed(IsRequestAllowed(cfg, url, ips)))
      BY <1>1, <1>2 DEF AskRequest
    <2>3. Promise!RequestOpen(url, ips) <=> Passed(IsRequestAllowed(cfg, url, ips))
      BY <2>1, <2>2, NetworkMaps, RequestPasses DEF Promise!RequestOpen
    <2>4. Promise!RequestOpen(url, ips) = Passed(IsRequestAllowed(cfg, url, ips))
      BY <2>3 DEF Promise!RequestOpen, Passed
    <2> QED BY <2>2, <2>4 DEF Promise!Decide
  <1>3. ASSUME NEW ips \in IpLists, AskNetwork(ips) PROVE Promise!Decide
    <2>1. ips \in Seq(IpAddr)
      BY CallerAssumption
    <2>2. Promise!Reply("network", <<>>, ips, Passed(IsNetworkAllowed(cfg, ips)))
      BY <1>1, <1>3 DEF AskNetwork
    <2>3. Promise!NetworkOpen(ips) = Passed(IsNetworkAllowed(cfg, ips))
      BY <2>1, NetworkMaps DEF Promise!NetworkOpen, Passed
    <2> QED BY <2>2, <2>3 DEF Promise!Decide
  <1>4. ASSUME NEW hosts \in HostLists, AskHosts(hosts) PROVE Promise!Decide
    <2>1. Promise!Reply("hosts", <<>>, hosts, Passed(ValidateAllHosts(cfg, hosts)))
      BY <1>1, <1>4 DEF AskHosts
    <2>2. Promise!HostsOpen(hosts) = Passed(ValidateAllHosts(cfg, hosts))
      BY HostsMap DEF Promise!HostsOpen, Passed
    <2> QED BY <2>1, <2>2 DEF Promise!Decide
  <1>5. ASSUME NEW kind \in {"headers", "scheme"}, NEW subject, NEW verdict,
               Ask(kind, <<>>, subject, verdict)
        PROVE  Promise!DecideOther
    BY <1>5 DEF Ask, Promise!DecideOther
  <1> QED BY <1>2, <1>3, <1>4, <1>5 DEF Query, AskHeaders, AskScheme

\* A call, a freeze or a failure maps to the promise's.
LEMMA DenyMaps ==
  ASSUME TypeOK, TypeOK', NEW texts \in TextLists,
         AddDenied(texts) \/ \E name \in CloudNames : WithCloudDeny(name, texts)
  PROVE  Promise!Deny
  <1>1. cfg \in Config /\ cfg' \in Config
    BY DEF TypeOK
  <1>2. /\ cfg'.preset = cfg.preset /\ cfg'.allow_set = cfg.allow_set
        /\ cfg'.url_ruleset = cfg.url_ruleset
        /\ Grows(cfg.deny_set, cfg'.deny_set)
        /\ phase = "building" /\ phase' = phase /\ answer' = answer
    BY DenyCall
  <1>3. Covered(cfg.deny_set) \subseteq Covered(cfg'.deny_set)
    BY <1>1, <1>2, DenyListType, GrowingListCovers DEF Covered
  <1>4. \A url : UrlRulesDecision(WithCompiledRules(cfg'), url)
                   = UrlRulesDecision(WithCompiledRules(cfg), url)
    BY <1>1, <1>2, SameRules
  <1> QED BY <1>2, <1>3, <1>4 DEF Promise!Deny

\* A call that allows ranges maps to Allow.
LEMMA AllowMaps ==
  ASSUME TypeOK, TypeOK', NEW texts \in TextLists, AddAllowed(texts)
  PROVE  Promise!Allow
  <1>1. cfg \in Config /\ cfg' \in Config
    BY DEF TypeOK
  <1>2. /\ cfg'.preset = cfg.preset /\ cfg'.deny_set = cfg.deny_set
        /\ cfg'.url_ruleset = cfg.url_ruleset
        /\ Grows(cfg.allow_set, cfg'.allow_set)
        /\ phase = "building" /\ phase' = phase /\ answer' = answer
    BY AllowCall
  <1>3. Covered(cfg.allow_set) \subseteq Covered(cfg'.allow_set)
    BY <1>1, <1>2, DenyListType, GrowingListCovers DEF Covered
  <1>4. \A url : UrlRulesDecision(WithCompiledRules(cfg'), url)
                   = UrlRulesDecision(WithCompiledRules(cfg), url)
    BY <1>1, <1>2, SameRules
  <1> QED BY <1>2, <1>3, <1>4 DEF Promise!Allow

\* A call about rules maps to ChangeRules.
LEMMA RulesMap ==
  ASSUME TypeOK, ConfigureRules
  PROVE  Promise!ChangeRules
  BY RulesCall, DecisionKnown DEF Promise!ChangeRules, Promise!Decisions

\* build maps to Freeze.
LEMMA BuildMaps ==
  ASSUME TypeOK, Build
  PROVE  Promise!Freeze
  <1>1. cfg \in Config
    BY DEF TypeOK
  <1>2. /\ phase = "building" /\ phase' = "built"
        /\ cfg' = Finalised(cfg) /\ answer' = answer
    BY DEF Build
  <1>3. cfg'.preset = cfg.preset /\ cfg'.allow_set = cfg.allow_set
    BY <1>1, <1>2, FinalisedCovers
  <1>4. Covered(cfg'.deny_set)
          = IF cfg.preset = "ExternalOnly"
            THEN Covered(cfg.deny_set) \cup Covered(DefaultDenySet) ELSE Covered(cfg.deny_set)
    BY <1>1, <1>2, FinalisedCovers DEF Covered
  <1>5. \A url : UrlRulesDecision(WithCompiledRules(cfg'), url)
                   = UrlRulesDecision(WithCompiledRules(cfg), url)
    <2>1. WithDefaults(cfg) \in Config /\ WithDefaults(cfg).url_ruleset = cfg.url_ruleset
      <3>1. \/ WithDefaults(cfg) = cfg
            \/ WithDefaults(cfg) = [cfg EXCEPT !.deny_set = cfg.deny_set \o DefaultDenySet]
        BY DEF WithDefaults
      <3> QED BY <1>1, <3>1, DefaultsType DEF Config
    <2>2. WithCompiledRules(cfg') = WithCompiledRules(WithDefaults(cfg))
      BY <1>2, <2>1, CompiledTwice DEF Finalised
    <2> QED BY <1>1, <2>1, <2>2, SameRules
  <1> QED BY <1>2, <1>3, <1>4, <1>5 DEF Promise!Freeze

\* The engine keeps every promise.
THEOREM EngineImplementsPromise == Spec => ImplementsPromise
  <1>1. Init => Promise!PromiseInit
    <2> SUFFICES ASSUME Init PROVE Promise!PromiseInit
      OBVIOUS
    <2>1. PICK preset \in Presets : cfg = NewBuilder(preset)
      BY DEF Init
    <2>2. /\ cfg.preset = preset /\ cfg.deny_set = <<>> /\ cfg.allow_set = <<>>
          /\ cfg.url_ruleset = EmptyRuleset
      BY <2>1 DEF NewBuilder
    <2>3. Covered(<<>>) = {}
      BY DEF Covered, InSet, Matches
    <2>4. \A url : UrlRulesDecision(WithCompiledRules(cfg), url) = "NoMatch"
      BY <2>2 DEF WithCompiledRules, UrlRulesDecision, RulesetIsEmpty, EmptyRuleset
    <2>5. phase = "building" /\ answer = NoAnswer /\ Passed(Ok)
      BY DEF Init, Passed, Ok
    <2> QED BY <2>2, <2>3, <2>4, <2>5 DEF Promise!PromiseInit, Presets, NoAnswer
  <1>2. TypeOK /\ TypeOK' /\ RulesReady /\ [Next]_vars
          => [Promise!PromiseNext]_(Promise!promiseVars)
    <2> SUFFICES ASSUME TypeOK, TypeOK', RulesReady, [Next]_vars
                 PROVE  [Promise!PromiseNext]_(Promise!promiseVars)
      OBVIOUS
    <2>1. CASE BuildFails("panicked") \/ BuildFails("failed")
      BY <2>1 DEF BuildFails, Promise!PromiseNext, Promise!Fail
    <2>2. CASE UNCHANGED vars
      BY <2>2 DEF vars, Promise!promiseVars
    <2> QED BY <2>1, <2>2, DenyMaps, AllowMaps, RulesMap, BuildMaps, QueryMaps
            DEF Next, ConfigureRanges, Finish, Promise!PromiseNext
  <1> QED BY <1>1, <1>2, TypeCorrect, RulesReadyHolds, PTL
          DEF Spec, ImplementsPromise, Promise!PromiseSpec

-----------------------------------------------------------------------------
(***************************************************************************)
(* The native Go engine.                                                   *)
(***************************************************************************)
GoTiers  == DataTier \cup CloudNames
GoFields == [addr : [1 .. Octets -> Octet], bits : 0 .. V6Bits, original : CidrText,
             source : GoTiers]
\* The bits behind the prefix are cleared.
GoRange  == {range \in GoFields : \A i \in 1 .. Octets, k \in Ones :
                                     k \in range.addr[i] => Place(i, k) <= range.bits}

\* What parseCIDR gives: the prefix is within the address, and the bits behind
\* it are cleared.
LEMMA GoRangeType ==
  ASSUME NEW text \in CidrText, ParsesLoose(text), NEW tier \in GoTiers
  PROVE  /\ ParseCIDRLoose(text, tier) \in GoRange
         /\ PrefixBits(text) \in 0 .. V6Bits
         /\ text.ip.fam = "v4" => V4Shift <= PrefixBits(text)
  <1>1. text.ip \in IpAddr /\ text.prefix \in Nat
    BY DEF CidrText
  <1>2. PrefixBits(text) = AdjustedPrefix(text.ip.fam, text.prefix)
    BY DEF PrefixBits, AdjustedPrefix
  <1>3. AdjustedPrefix(text.ip.fam, text.prefix) \in 0 .. V6Bits
    BY <1>1, NetBitsAre DEF ParsesLoose
  <1>4. Normalized(text.ip) \in [1 .. Octets -> Octet]
    BY <1>1, NormalType
  <1>5. MaskedOctets(Normalized(text.ip), PrefixBits(text)) \in [1 .. Octets -> Octet]
    <2> DEFINE a == Normalized(text.ip)
               n == PrefixBits(text)
    <2>1. a \in [1 .. Octets -> Octet]
      BY <1>4
    <2> HIDE DEF a, n
    <2>2. MaskedOctets(a, n) \in [1 .. Octets -> Octet]
      BY <2>1 DEF MaskedOctets, Octet
    <2> QED BY <2>2 DEF a, n
  <1>6. text.ip.fam = "v4" => V4Shift <= PrefixBits(text)
    BY <1>1, Sizes DEF PrefixBits
  <1>7. ParseCIDRLoose(text, tier) \in GoFields
    BY <1>2, <1>3, <1>5 DEF ParseCIDRLoose, GoFields
  <1>8. \A i \in 1 .. Octets, k \in Ones :
           k \in MaskedOctets(Normalized(text.ip), PrefixBits(text))[i]
             => Place(i, k) <= PrefixBits(text)
    <2>1. DOMAIN Normalized(text.ip) = 1 .. Octets
      BY <1>4
    <2> QED BY <2>1 DEF MaskedOctets, Within, Place
  <1>9. /\ ParseCIDRLoose(text, tier).addr = MaskedOctets(Normalized(text.ip), PrefixBits(text))
        /\ ParseCIDRLoose(text, tier).bits = PrefixBits(text)
    BY DEF ParseCIDRLoose
  <1> QED BY <1>2, <1>3, <1>6, <1>7, <1>8, <1>9 DEF GoRange

\* Contains compares the bits in front of the prefix.
LEMMA GoContainsIs ==
  ASSUME NEW a \in [1 .. Octets -> Octet], NEW b \in [1 .. Octets -> Octet], NEW n \in Nat
  PROVE  SharesBits(MaskedOctets(a, n), b, n)
           <=> \A i \in 1 .. Octets, k \in Ones : Place(i, k) <= n => (k \in a[i] <=> k \in b[i])
  <1>1. DOMAIN MaskedOctets(a, n) = 1 .. Octets
    BY DEF MaskedOctets
  <1>2. ASSUME NEW i \in 1 .. Octets, NEW k \in Ones, Place(i, k) <= n
        PROVE  k \in MaskedOctets(a, n)[i] <=> k \in a[i]
    BY <1>2 DEF MaskedOctets, Within, Place
  <1> QED BY <1>1, <1>2 DEF SharesBits, Within, Place

\* A Go range covers the addresses its text covers.
LEMMA GoTextCovers ==
  ASSUME NEW text \in CidrText, ParsesLoose(text), NEW tier, NEW ip \in IpAddr
  PROVE  GoContains(ParseCIDRLoose(text, tier), ip) <=> RefCovers(text, ip)
  <1> DEFINE a == Normalized(ip)
             b == Normalized(text.ip)
             p == AdjustedPrefix(text.ip.fam, text.prefix)
  <1>1. text.ip \in IpAddr
    BY DEF CidrText
  <1>2. p \in Nat /\ PrefixBits(text) = p
    BY <1>1, NetBitsAre DEF PrefixBits, AdjustedPrefix, CidrText
  <1>3. a \in [1 .. Octets -> Octet] /\ b \in [1 .. Octets -> Octet]
    BY <1>1, NormalType
  <1>4. GoContains(ParseCIDRLoose(text, tier), ip) <=> SharesBits(MaskedOctets(b, p), a, p)
    BY <1>2 DEF GoContains, ParseCIDRLoose
  <1>5. CidrContains(ParsedCidr(text, "iana"), ip)
          <=> \A i \in 1 .. Octets : a[i] \cap ComputeMask(p)[i] = b[i] \cap ComputeMask(p)[i]
    BY DEF CidrContains, ParsedCidr
  <1> HIDE DEF a, b, p
  <1>6. SharesBits(MaskedOctets(b, p), a, p)
          <=> \A i \in 1 .. Octets, k \in Ones : Place(i, k) <= p => (k \in b[i] <=> k \in a[i])
    BY <1>2, <1>3, GoContainsIs
  <1>7. (\A i \in 1 .. Octets : a[i] \cap ComputeMask(p)[i] = b[i] \cap ComputeMask(p)[i])
          <=> \A i \in 1 .. Octets, k \in Ones : Place(i, k) <= p => (k \in a[i] <=> k \in b[i])
    <2>1. p \in Nat
      BY <1>2
    <2> QED BY ONLY <2>1, <1>3, ContainsBits
  <1>8. CidrContains(ParsedCidr(text, "iana"), ip) <=> RefCovers(text, ip)
    BY RangeCovers
  <1> QED BY <1>4, <1>5, <1>6, <1>7, <1>8

\* The ranges of a list of texts that all parse, each of a tier of its own.
LEMMA GoListIs ==
  ASSUME NEW texts \in Seq(CidrText), NEW list, DOMAIN list = DOMAIN texts,
         list = [i \in DOMAIN list |-> list[i]],
         \A i \in 1 .. Len(texts) :
            /\ ParsesLoose(texts[i])
            /\ \E tier \in GoTiers : list[i] = ParseCIDRLoose(texts[i], tier)
  PROVE  /\ list \in Seq(GoRange) /\ Len(list) = Len(texts)
         /\ \A ip \in IpAddr :
              GoInSet(list, ip) <=> \E i \in 1 .. Len(texts) : RefCovers(texts[i], ip)
  <1>1. DOMAIN texts = 1 .. Len(texts) /\ Len(texts) \in Nat
    OBVIOUS
  <1>2. \A i \in 1 .. Len(texts) : texts[i] \in CidrText
    OBVIOUS
  <1>3. ASSUME NEW i \in 1 .. Len(texts)
        PROVE  /\ list[i] \in GoRange
               /\ \A ip \in IpAddr : GoContains(list[i], ip) <=> RefCovers(texts[i], ip)
    <2>1. PICK tier \in GoTiers : list[i] = ParseCIDRLoose(texts[i], tier)
      OBVIOUS
    <2>2. texts[i] \in CidrText /\ ParsesLoose(texts[i])
      BY <1>2
    <2>3. ParseCIDRLoose(texts[i], tier) \in GoRange
      BY <2>2, GoRangeType
    <2>4. ASSUME NEW ip \in IpAddr
          PROVE  GoContains(ParseCIDRLoose(texts[i], tier), ip) <=> RefCovers(texts[i], ip)
      BY <2>2, GoTextCovers
    <2> QED BY <2>1, <2>3, <2>4
  <1>4. list \in Seq(GoRange) /\ Len(list) = Len(texts) /\ DOMAIN list = 1 .. Len(texts)
    BY <1>1, <1>3
  <1> QED BY <1>3, <1>4 DEF GoInSet, GoMatches

\* A list of ranges behind another.
LEMMA GoConcat ==
  ASSUME NEW s \in Seq(GoRange), NEW t \in Seq(GoRange), NEW ip
  PROVE  GoInSet(s \o t, ip) <=> GoInSet(s, ip) \/ GoInSet(t, ip)
  <1>1. \A r \in Seq(GoRange) :
           GoInSet(r, ip) <=> \E i \in 1 .. Len(r) : GoContains(r[i], ip)
    BY DEF GoInSet, GoMatches
  <1>2. /\ s \o t \in Seq(GoRange) /\ Len(s \o t) = Len(s) + Len(t)
        /\ Len(s) \in Nat /\ Len(t) \in Nat
        /\ \A i \in 1 .. Len(s) : (s \o t)[i] = s[i]
        /\ \A i \in 1 .. Len(t) : (s \o t)[Len(s) + i] = t[i]
    OBVIOUS
  <1>3. ASSUME NEW i \in 1 .. Len(s \o t), GoContains((s \o t)[i], ip)
        PROVE  \/ \E j \in 1 .. Len(s) : GoContains(s[j], ip)
               \/ \E j \in 1 .. Len(t) : GoContains(t[j], ip)
    <2>1. CASE i \in 1 .. Len(s)
      BY <1>2, <1>3, <2>1
    <2>2. CASE i - Len(s) \in 1 .. Len(t)
      <3>1. (s \o t)[i] = t[i - Len(s)]
        <4>1. i = Len(s) + (i - Len(s))
          BY <1>2
        <4> QED BY <1>2, <2>2, <4>1
      <3> QED BY <1>3, <2>2, <3>1
    <2> QED BY <1>2, <2>1, <2>2
  <1>4. ASSUME NEW j \in 1 .. Len(s), GoContains(s[j], ip)
        PROVE  \E i \in 1 .. Len(s \o t) : GoContains((s \o t)[i], ip)
    BY <1>2, <1>4
  <1>5. ASSUME NEW j \in 1 .. Len(t), GoContains(t[j], ip)
        PROVE  \E i \in 1 .. Len(s \o t) : GoContains((s \o t)[i], ip)
    <2>1. Len(s) + j \in 1 .. Len(s \o t)
      BY <1>2
    <2> QED BY <1>2, <1>5, <2>1
  <1> QED BY <1>1, <1>2, <1>3, <1>4, <1>5

\* The two lists of shipped ranges have the same length and cover the same.
LEMMA ShippedAlike ==
  /\ GoDefaultDenySet \in Seq(GoRange) /\ Len(GoDefaultDenySet) = Len(DefaultDenySet)
  /\ \A ip \in IpAddr : GoInSet(GoDefaultDenySet, ip) <=> InSet(DefaultDenySet, ip)
  <1> DEFINE tier(texts, name) == [i \in DOMAIN texts |-> ParseCIDRLoose(texts[i], name)]
             R == Seq(CidrRange)
             G == Seq(GoRange)
  <1>1. ASSUME NEW texts \in Seq(CidrText), NEW source \in DataTier,
               \A i \in 1 .. Len(texts) : ParsesStrict(texts[i])
        PROVE  /\ tier(texts, source) \in G /\ StrictCidrs(texts, source) \in R
               /\ Len(tier(texts, source)) = Len(StrictCidrs(texts, source))
               /\ \A ip \in IpAddr : GoInSet(tier(texts, source), ip)
                                       <=> InSet(StrictCidrs(texts, source), ip)
    <2> DEFINE good == {i \in DOMAIN texts : ParsesStrict(texts[i])}
               list == StrictCidrs(texts, source)
    <2>1. GivesRanges(list, texts, good, source)
      BY StrictGives
    <2>2. DOMAIN texts = 1 .. Len(texts) /\ \A i \in 1 .. Len(texts) : texts[i] \in CidrText
      OBVIOUS
    <2>3. \A i \in 1 .. Len(texts) : i \in good
      BY <1>1, <2>2
    <2> HIDE DEF good, list
    <2>4. list \in R /\ Len(list) = Len(texts)
      BY <2>1, <2>3 DEF GivesRanges
    <2>5. \A i \in 1 .. Len(texts) : /\ ParsesLoose(texts[i])
                                     /\ AddrBits(texts[i].ip) \subseteq NetBits(texts[i])
      BY <1>1, <2>2, StrictMeans
    <2>6. source \in GoTiers
      BY DEF GoTiers
    <2>7. /\ tier(texts, source) \in G /\ Len(tier(texts, source)) = Len(texts)
          /\ \A ip \in IpAddr :
               GoInSet(tier(texts, source), ip)
                 <=> \E i \in 1 .. Len(texts) : RefCovers(texts[i], ip)
      <3> DEFINE ranges == tier(texts, source)
      <3>1. /\ DOMAIN ranges = DOMAIN texts
            /\ ranges = [i \in DOMAIN ranges |-> ranges[i]]
            /\ \A i \in 1 .. Len(texts) : ranges[i] = ParseCIDRLoose(texts[i], source)
        BY <2>2
      <3> HIDE DEF ranges
      <3>2. /\ ranges \in Seq(GoRange) /\ Len(ranges) = Len(texts)
            /\ \A ip \in IpAddr :
                 GoInSet(ranges, ip) <=> \E i \in 1 .. Len(texts) : RefCovers(texts[i], ip)
        BY <3>1, <2>5, <2>6, GoListIs
      <3> QED BY <3>2 DEF ranges
    <2>8. \A ip \in IpAddr : InSet(list, ip) <=>
             \E i \in 1 .. Len(texts) :
                RefCovers(texts[i], ip) /\ AddrBits(texts[i].ip) \subseteq NetBits(texts[i])
      BY StrictCovers DEF list
    <2> HIDE DEF tier
    <2> QED BY <2>4, <2>5, <2>7, <2>8 DEF list
  <1>2. "iana" \in DataTier /\ "override" \in DataTier /\ "csp_metadata" \in DataTier
    BY DEF DataTier
  <1>3. /\ \A i \in 1 .. Len(DefaultTexts.iana_v4) : ParsesStrict(DefaultTexts.iana_v4[i])
        /\ \A i \in 1 .. Len(DefaultTexts.iana_v6) : ParsesStrict(DefaultTexts.iana_v6[i])
        /\ \A i \in 1 .. Len(DefaultTexts.override) : ParsesStrict(DefaultTexts.override[i])
        /\ \A i \in 1 .. Len(DefaultTexts.csp_metadata) :
              ParsesStrict(DefaultTexts.csp_metadata[i])
    <2> DEFINE S == Seq(CidrText)
    <2>1. DefaultTexts \in [iana_v4 : S, iana_v6 : S, override : S, csp_metadata : S]
      BY CallerAssumption
    <2>2. {DefaultTexts.iana_v4, DefaultTexts.iana_v6,
           DefaultTexts.override, DefaultTexts.csp_metadata} \subseteq Range(DefaultTexts)
      <3> HIDE DEF S
      <3> QED BY ONLY <2>1 DEF Range
    <2>3. \A list \in Range(DefaultTexts) : \A i \in DOMAIN list : ParsesStrict(list[i])
      BY GoAssumption
    <2>4. \A list \in S : DOMAIN list = 1 .. Len(list)
      OBVIOUS
    <2> QED BY <2>2, <2>3, <2>4, ShippedTexts
  <1> DEFINE a == StrictCidrs(DefaultTexts.iana_v4, "iana")
             b == StrictCidrs(DefaultTexts.iana_v6, "iana")
             c == StrictCidrs(DefaultTexts.override, "override")
             d == StrictCidrs(DefaultTexts.csp_metadata, "csp_metadata")
             ga == tier(DefaultTexts.iana_v4, "iana")
             gb == tier(DefaultTexts.iana_v6, "iana")
             gc == tier(DefaultTexts.override, "override")
             gd == tier(DefaultTexts.csp_metadata, "csp_metadata")
  <1>4. /\ a \in R /\ b \in R /\ c \in R /\ d \in R
        /\ ga \in G /\ gb \in G /\ gc \in G /\ gd \in G
        /\ Len(ga) = Len(a) /\ Len(gb) = Len(b) /\ Len(gc) = Len(c) /\ Len(gd) = Len(d)
        /\ \A ip \in IpAddr : /\ GoInSet(ga, ip) <=> InSet(a, ip)
                              /\ GoInSet(gb, ip) <=> InSet(b, ip)
                              /\ GoInSet(gc, ip) <=> InSet(c, ip)
                              /\ GoInSet(gd, ip) <=> InSet(d, ip)
    <2> HIDE DEF tier, R, G
    <2> QED BY <1>1, <1>2, <1>3, ShippedTexts
  <1>5. GoDefaultDenySet = ga \o gb \o gc \o gd /\ DefaultDenySet = a \o b \o c \o d
    BY DEF GoDefaultDenySet, DefaultDenySet
  <1> HIDE DEF a, b, c, d, ga, gb, gc, gd, tier
  <1>6. /\ a \o b \in R /\ a \o b \o c \in R /\ a \o b \o c \o d \in R
        /\ Len(a \o b \o c \o d) = Len(a) + Len(b) + Len(c) + Len(d)
    BY <1>4
  <1>7. /\ ga \o gb \in G /\ ga \o gb \o gc \in G /\ ga \o gb \o gc \o gd \in G
        /\ Len(ga \o gb \o gc \o gd) = Len(ga) + Len(gb) + Len(gc) + Len(gd)
    <2> HIDE DEF R
    <2>1. ga \in G /\ gb \in G /\ gc \in G /\ gd \in G
      BY <1>4
    <2>2. ga \o gb \in G /\ Len(ga \o gb) = Len(ga) + Len(gb)
      BY ONLY <2>1
    <2>3. ga \o gb \o gc \in G /\ Len(ga \o gb \o gc) = Len(ga \o gb) + Len(gc)
      BY ONLY <2>1, <2>2
    <2>4. ga \o gb \o gc \o gd \in G
          /\ Len(ga \o gb \o gc \o gd) = Len(ga \o gb \o gc) + Len(gd)
      BY ONLY <2>1, <2>3
    <2> QED BY <2>2, <2>3, <2>4
  <1>8. \A ip : InSet(a \o b \o c \o d, ip)
                  <=> InSet(a, ip) \/ InSet(b, ip) \/ InSet(c, ip) \/ InSet(d, ip)
    BY <1>4, <1>6, InSetConcat
  <1>9. \A ip : GoInSet(ga \o gb \o gc \o gd, ip)
                  <=> GoInSet(ga, ip) \/ GoInSet(gb, ip) \/ GoInSet(gc, ip) \/ GoInSet(gd, ip)
    BY <1>4, <1>7, GoConcat
  <1> QED BY <1>4, <1>5, <1>6, <1>7, <1>8, <1>9

-----------------------------------------------------------------------------
\* A list of ranges beside the texts it was made of: it covers what they cover,
\* and has lost none exactly when each of them parses.
Pairs(list, texts) ==
  /\ list \in Seq(CidrRange) /\ texts \in Seq(CidrText)
  /\ Len(list) <= Len(texts)
  /\ Len(list) = Len(texts) <=> \A i \in 1 .. Len(texts) : ParsesLoose(texts[i])
  /\ \A ip \in IpAddr : InSet(list, ip) <=> \E i \in 1 .. Len(texts) : RefCovers(texts[i], ip)

\* What the Rust builder makes of a list of texts stands beside it.
LEMMA LoosePairs ==
  ASSUME NEW texts \in Seq(CidrText), NEW source \in DataTier
  PROVE  Pairs(LooseCidrs(texts, source), texts)
  <1> DEFINE good == {i \in DOMAIN texts : ParsesLoose(texts[i])}
             list == LooseCidrs(texts, source)
  <1>1. GivesRanges(list, texts, good, source)
    BY LooseGives
  <1>2. \A i \in 1 .. Len(texts) : i \in good <=> ParsesLoose(texts[i])
    OBVIOUS
  <1>3. \A ip \in IpAddr : InSet(list, ip) <=> \E i \in 1 .. Len(texts) : RefCovers(texts[i], ip)
    BY LooseCovers
  <1> HIDE DEF good, list
  <1>4. Pairs(list, texts)
    BY <1>1, <1>2, <1>3 DEF Pairs, GivesRanges
  <1> QED BY <1>4 DEF list

\* What holds of some text of a list behind another.
LEMMA SomeInConcat ==
  ASSUME NEW s \in Seq(CidrText), NEW t \in Seq(CidrText), NEW T
  PROVE  (\E i \in 1 .. Len(s \o t) : (s \o t)[i] \in T)
           <=> (\E i \in 1 .. Len(s) : s[i] \in T) \/ (\E i \in 1 .. Len(t) : t[i] \in T)
  <1>1. /\ Len(s \o t) = Len(s) + Len(t)
        /\ Len(s) \in Nat /\ Len(t) \in Nat
        /\ \A i \in 1 .. Len(s) : (s \o t)[i] = s[i]
        /\ \A i \in 1 .. Len(t) : (s \o t)[Len(s) + i] = t[i]
    OBVIOUS
  <1>2. ASSUME NEW i \in 1 .. Len(s \o t), (s \o t)[i] \in T
        PROVE  (\E j \in 1 .. Len(s) : s[j] \in T) \/ (\E j \in 1 .. Len(t) : t[j] \in T)
    <2>1. CASE i \in 1 .. Len(s)
      BY <1>1, <1>2, <2>1
    <2>2. CASE i - Len(s) \in 1 .. Len(t)
      <3>1. i = Len(s) + (i - Len(s))
        BY <1>1
      <3>2. (s \o t)[i] = t[i - Len(s)]
        BY <1>1, <2>2, <3>1
      <3> QED BY <1>2, <2>2, <3>2
    <2> QED BY <1>1, <2>1, <2>2
  <1>3. ASSUME NEW j \in 1 .. Len(s), s[j] \in T
        PROVE  \E i \in 1 .. Len(s \o t) : (s \o t)[i] \in T
    BY <1>1, <1>3
  <1>4. ASSUME NEW j \in 1 .. Len(t), t[j] \in T
        PROVE  \E i \in 1 .. Len(s \o t) : (s \o t)[i] \in T
    <2>1. Len(s) + j \in 1 .. Len(s \o t)
      BY <1>1
    <2> QED BY <1>1, <1>4, <2>1
  <1> QED BY <1>2, <1>3, <1>4

\* Two lists, each beside its texts, put behind one another.
LEMMA PairsConcat ==
  ASSUME NEW s, NEW texts, Pairs(s, texts), NEW t, NEW more, Pairs(t, more)
  PROVE  Pairs(s \o t, texts \o more)
  <1>1. /\ s \in Seq(CidrRange) /\ t \in Seq(CidrRange)
        /\ texts \in Seq(CidrText) /\ more \in Seq(CidrText)
    BY DEF Pairs
  <1>2. /\ s \o t \in Seq(CidrRange) /\ Len(s \o t) = Len(s) + Len(t)
        /\ Len(s) \in Nat /\ Len(t) \in Nat
    BY ONLY <1>1
  <1>3. /\ texts \o more \in Seq(CidrText) /\ Len(texts \o more) = Len(texts) + Len(more)
        /\ Len(texts) \in Nat /\ Len(more) \in Nat
    BY ONLY <1>1
  <1>4. ASSUME NEW ip \in IpAddr
        PROVE  InSet(s \o t, ip)
                 <=> \E i \in 1 .. Len(texts \o more) : RefCovers((texts \o more)[i], ip)
    <2> DEFINE T == {text \in CidrText : RefCovers(text, ip)}
    <2>1. \A list \in Seq(CidrText) : (\E i \in 1 .. Len(list) : RefCovers(list[i], ip))
                                        <=> \E i \in 1 .. Len(list) : list[i] \in T
      OBVIOUS
    <2> HIDE DEF T
    <2>3. (\E i \in 1 .. Len(texts \o more) : (texts \o more)[i] \in T)
            <=> (\E i \in 1 .. Len(texts) : texts[i] \in T)
                  \/ (\E i \in 1 .. Len(more) : more[i] \in T)
      BY <1>1, SomeInConcat
    <2>4. InSet(s \o t, ip) <=> InSet(s, ip) \/ InSet(t, ip)
      BY <1>1, InSetConcat
    <2>5. /\ InSet(s, ip) <=> \E i \in 1 .. Len(texts) : RefCovers(texts[i], ip)
          /\ InSet(t, ip) <=> \E i \in 1 .. Len(more) : RefCovers(more[i], ip)
      BY DEF Pairs
    <2>6. /\ InSet(s, ip) <=> \E i \in 1 .. Len(texts) : texts[i] \in T
          /\ InSet(t, ip) <=> \E i \in 1 .. Len(more) : more[i] \in T
      BY <1>1, <2>1, <2>5
    <2>7. (\E i \in 1 .. Len(texts \o more) : RefCovers((texts \o more)[i], ip))
             <=> \E i \in 1 .. Len(texts \o more) : (texts \o more)[i] \in T
      BY <1>3, <2>1
    <2> QED BY <2>3, <2>4, <2>6, <2>7
  <1>5. (\A i \in 1 .. Len(texts \o more) : ParsesLoose((texts \o more)[i]))
          <=> /\ \A i \in 1 .. Len(texts) : ParsesLoose(texts[i])
              /\ \A i \in 1 .. Len(more) : ParsesLoose(more[i])
    <2> DEFINE T == {text \in CidrText : ~ ParsesLoose(text)}
    <2>1. \A list \in Seq(CidrText) : (\A i \in 1 .. Len(list) : ParsesLoose(list[i]))
                                        <=> ~ \E i \in 1 .. Len(list) : list[i] \in T
      OBVIOUS
    <2> HIDE DEF T
    <2>3. (\E i \in 1 .. Len(texts \o more) : (texts \o more)[i] \in T)
            <=> (\E i \in 1 .. Len(texts) : texts[i] \in T)
                  \/ (\E i \in 1 .. Len(more) : more[i] \in T)
      BY <1>1, SomeInConcat
    <2>4. /\ (\A i \in 1 .. Len(texts) : ParsesLoose(texts[i]))
               <=> ~ \E i \in 1 .. Len(texts) : texts[i] \in T
          /\ (\A i \in 1 .. Len(more) : ParsesLoose(more[i]))
               <=> ~ \E i \in 1 .. Len(more) : more[i] \in T
      BY <1>1, <2>1
    <2>5. (\A i \in 1 .. Len(texts \o more) : ParsesLoose((texts \o more)[i]))
             <=> ~ \E i \in 1 .. Len(texts \o more) : (texts \o more)[i] \in T
      BY <1>3, <2>1
    <2> QED BY <2>3, <2>4, <2>5
  <1>6. /\ Len(s) <= Len(texts) /\ Len(t) <= Len(more)
        /\ Len(s) = Len(texts) <=> \A i \in 1 .. Len(texts) : ParsesLoose(texts[i])
        /\ Len(t) = Len(more) <=> \A i \in 1 .. Len(more) : ParsesLoose(more[i])
    BY DEF Pairs
  <1>7. Len(s \o t) <= Len(texts \o more)
    BY <1>2, <1>3, <1>6
  <1>8. Len(s \o t) = Len(texts \o more) <=> Len(s) = Len(texts) /\ Len(t) = Len(more)
    <2>1. \A a, b, c, d \in Nat :
             a <= c /\ b <= d => (a + b = c + d <=> a = c /\ b = d)
      OBVIOUS
    <2>2. Len(s \o t) = Len(texts \o more) <=> Len(s) + Len(t) = Len(texts) + Len(more)
      BY <1>2, <1>3
    <2> QED BY ONLY <1>2, <1>3, <1>6, <2>1, <2>2
  <1> DEFINE list == s \o t
             all  == texts \o more
  <1>9. Len(list) = Len(all) <=> \A i \in 1 .. Len(all) : ParsesLoose(all[i])
    BY <1>5, <1>6, <1>8
  <1>10. \A ip \in IpAddr : InSet(list, ip) <=> \E i \in 1 .. Len(all) : RefCovers(all[i], ip)
    BY <1>4
  <1>11. list \in Seq(CidrRange) /\ all \in Seq(CidrText) /\ Len(list) <= Len(all)
    BY ONLY <1>2, <1>3, <1>7
  <1> HIDE DEF list, all
  <1>12. Pairs(list, all)
    BY <1>9, <1>10, <1>11 DEF Pairs
  <1> QED BY <1>12 DEF list, all

-----------------------------------------------------------------------------
\* A step of both engines is a step of the Rust engine.
LEMMA BothStep == [BothNext]_bothVars => [Next]_vars
  <1> SUFFICES ASSUME [BothNext]_bothVars PROVE [Next]_vars
    OBVIOUS
  <1>1. \A name \in CloudNames : CloudTexts[name] \in TextLists
    BY GoAssumption
  <1>2. ASSUME BothConfigure PROVE [Next]_vars
    <2>1. CASE \E written \in DOMAIN ToLower :
                  LET name == ToLower[written]
                  IN AddCloudProviderDenies(written) /\ WithCloudDeny(name, CloudTexts[name])
      BY <1>1, <2>1 DEF AddCloudProviderDenies, Next, ConfigureRanges
    <2>2. CASE \E written \in DOMAIN ToLower : IgnoreCloudProvider(written) /\ UNCHANGED vars
      BY <2>2
    <2> QED BY <1>2, <2>1, <2>2 DEF BothConfigure, Next, ConfigureRanges, ConfigureRules
  <1>3. ASSUME BothBuild PROVE Next
    BY <1>3 DEF BothBuild, Next, Finish
  <1>4. ASSUME BothAsk PROVE Next
    BY <1>4 DEF BothAsk, Next, Query
  <1>5. CASE UNCHANGED bothVars
    BY <1>5 DEF bothVars
  <1> QED BY <1>2, <1>3, <1>4, <1>5 DEF BothNext

\* So what holds of the Rust engine holds of it beside the Go engine.
LEMMA BothRunsRust == BothSpec => Spec
  <1>1. BothInit => Init
    BY DEF BothInit
  <1> QED BY <1>1, BothStep, PTL DEF BothSpec, Spec

\* The fields of the Go builder.
GoEntry   == [cidr : CidrText, tier : GoTiers]
GoRules   == [allow : Seq(UrlRuleArgs), deny : Seq(UrlRuleArgs)]
GoBuilder == [preset : Presets, denyCIDRs : Seq(GoEntry), allowCIDRs : Seq(CidrText),
              cloudModules : Seq(CloudNames), sink : BOOLEAN, ruleset : GoRules]

\* The texts to deny, without their tiers.
DenyTexts(b) == [i \in DOMAIN b.denyCIDRs |-> b.denyCIDRs[i].cidr]

\* Both builders got the same calls.
SameCalls ==
  /\ goBuilder \in GoBuilder
  /\ goBuilder.preset = cfg.preset
  /\ goBuilder.cloudModules = cfg.cloud_modules
  /\ goBuilder.sink = cfg.has_sink
  /\ goBuilder.ruleset.allow = cfg.url_ruleset.allow
  /\ goBuilder.ruleset.deny = cfg.url_ruleset.deny
  /\ Pairs(cfg.allow_set, goBuilder.allowCIDRs)
  /\ \E own : /\ Pairs(own, DenyTexts(goBuilder))
              /\ cfg.deny_set = IF DefaultsAppended THEN own \o DefaultDenySet ELSE own

\* Where the two stand.
SamePhase ==
  /\ phase \in {"building", "built"}
  /\ phase = "building" => goPhase = "building" /\ audit = <<>> /\ goEvents = <<>>
  /\ phase = "built" => /\ goPhase = IF GoTextsParse(goBuilder) THEN "built" ELSE "refused"
                        /\ audit = PolicyCreated(cfg)
  /\ goPhase # "built" => goEvents = <<>>
  /\ goPhase = "built" => goPolicy = GoBuilt(goBuilder)
  /\ \E S : goEvents \in Seq(S)
  /\ goPhase = "built" /\ goBuilder.sink => goEvents # <<>>
  /\ goEvents # <<>> => goBuilder.sink /\ goEvents[1] = GoPolicyCreated(goPolicy)

SameAnswer == answer.ask = "network" => goAnswer.reason = answer.verdict.reason

\* A call on the Go builder that names the texts to deny leaves its other fields
\* alone.
LEMMA GoDenyCall ==
  ASSUME NEW b \in GoBuilder, NEW list \in Seq(GoEntry), NEW new,
         new = [b EXCEPT !.denyCIDRs = list]
  PROVE  /\ new \in GoBuilder
         /\ new.denyCIDRs = list /\ new.allowCIDRs = b.allowCIDRs
         /\ new.preset = b.preset /\ new.cloudModules = b.cloudModules
         /\ new.sink = b.sink /\ new.ruleset = b.ruleset
  <1> DEFINE E == Seq(GoEntry)
             T == Seq(CidrText)
             N == Seq(CloudNames)
             R == GoRules
  <1>1. /\ b \in [preset : Presets, denyCIDRs : E, allowCIDRs : T, cloudModules : N,
                  sink : BOOLEAN, ruleset : R]
        /\ new = [b EXCEPT !.denyCIDRs = list]
        /\ list \in E
    BY DEF GoBuilder
  <1> HIDE DEF E, T, N, R
  <1>2. /\ new \in [preset : Presets, denyCIDRs : E, allowCIDRs : T,
                    cloudModules : N, sink : BOOLEAN, ruleset : R]
        /\ new.denyCIDRs = list /\ new.allowCIDRs = b.allowCIDRs
        /\ new.preset = b.preset /\ new.cloudModules = b.cloudModules
        /\ new.sink = b.sink /\ new.ruleset = b.ruleset
    BY ONLY <1>1
  <1> QED BY <1>2 DEF GoBuilder, E, T, N, R

\* A call that names the texts to allow leaves its other fields alone.
LEMMA GoAllowCall ==
  ASSUME NEW b \in GoBuilder, NEW list \in Seq(CidrText), NEW new,
         new = [b EXCEPT !.allowCIDRs = list]
  PROVE  /\ new \in GoBuilder
         /\ new.denyCIDRs = b.denyCIDRs /\ new.allowCIDRs = list
         /\ new.preset = b.preset /\ new.cloudModules = b.cloudModules
         /\ new.sink = b.sink /\ new.ruleset = b.ruleset
  <1> DEFINE E == Seq(GoEntry)
             T == Seq(CidrText)
             N == Seq(CloudNames)
             R == GoRules
  <1>1. /\ b \in [preset : Presets, denyCIDRs : E, allowCIDRs : T, cloudModules : N,
                  sink : BOOLEAN, ruleset : R]
        /\ new = [b EXCEPT !.allowCIDRs = list]
        /\ list \in T
    BY DEF GoBuilder
  <1> HIDE DEF E, T, N, R
  <1>2. /\ new \in [preset : Presets, denyCIDRs : E, allowCIDRs : T,
                    cloudModules : N, sink : BOOLEAN, ruleset : R]
        /\ new.denyCIDRs = b.denyCIDRs /\ new.allowCIDRs = list
        /\ new.preset = b.preset /\ new.cloudModules = b.cloudModules
        /\ new.sink = b.sink /\ new.ruleset = b.ruleset
    BY ONLY <1>1
  <1> QED BY <1>2 DEF GoBuilder, E, T, N, R

\* A call that names a provider leaves its other fields alone.
LEMMA GoNamesCall ==
  ASSUME NEW b \in GoBuilder, NEW names \in Seq(CloudNames), NEW new,
         new = [b EXCEPT !.cloudModules = names]
  PROVE  /\ new \in GoBuilder
         /\ new.denyCIDRs = b.denyCIDRs /\ new.allowCIDRs = b.allowCIDRs
         /\ new.preset = b.preset /\ new.cloudModules = names
         /\ new.sink = b.sink /\ new.ruleset = b.ruleset
  <1> DEFINE E == Seq(GoEntry)
             T == Seq(CidrText)
             N == Seq(CloudNames)
             R == GoRules
  <1>1. /\ b \in [preset : Presets, denyCIDRs : E, allowCIDRs : T, cloudModules : N,
                  sink : BOOLEAN, ruleset : R]
        /\ new = [b EXCEPT !.cloudModules = names]
        /\ names \in N
    BY DEF GoBuilder
  <1> HIDE DEF E, T, N, R
  <1>2. /\ new \in [preset : Presets, denyCIDRs : E, allowCIDRs : T,
                    cloudModules : N, sink : BOOLEAN, ruleset : R]
        /\ new.denyCIDRs = b.denyCIDRs /\ new.allowCIDRs = b.allowCIDRs
        /\ new.preset = b.preset /\ new.cloudModules = names
        /\ new.sink = b.sink /\ new.ruleset = b.ruleset
    BY ONLY <1>1
  <1> QED BY <1>2 DEF GoBuilder, E, T, N, R

\* A call that sets the URL rules leaves its other fields alone.
LEMMA GoRulesCall ==
  ASSUME NEW b \in GoBuilder, NEW rules \in GoRules, NEW new,
         new = [b EXCEPT !.ruleset = rules]
  PROVE  /\ new \in GoBuilder
         /\ new.denyCIDRs = b.denyCIDRs /\ new.allowCIDRs = b.allowCIDRs
         /\ new.preset = b.preset /\ new.cloudModules = b.cloudModules
         /\ new.sink = b.sink /\ new.ruleset = rules
  <1> DEFINE E == Seq(GoEntry)
             T == Seq(CidrText)
             N == Seq(CloudNames)
             R == GoRules
  <1>1. /\ b \in [preset : Presets, denyCIDRs : E, allowCIDRs : T, cloudModules : N,
                  sink : BOOLEAN, ruleset : R]
        /\ new = [b EXCEPT !.ruleset = rules]
        /\ rules \in R
    BY DEF GoBuilder
  <1> HIDE DEF E, T, N, R
  <1>2. /\ new \in [preset : Presets, denyCIDRs : E, allowCIDRs : T,
                    cloudModules : N, sink : BOOLEAN, ruleset : R]
        /\ new.denyCIDRs = b.denyCIDRs /\ new.allowCIDRs = b.allowCIDRs
        /\ new.preset = b.preset /\ new.cloudModules = b.cloudModules
        /\ new.sink = b.sink /\ new.ruleset = rules
    BY ONLY <1>1
  <1> QED BY <1>2 DEF GoBuilder, E, T, N, R

\* A call that sets the event sink leaves its other fields alone.
LEMMA GoSinkCall ==
  ASSUME NEW b \in GoBuilder, NEW new,
         new = [b EXCEPT !.sink = TRUE]
  PROVE  /\ new \in GoBuilder
         /\ new.denyCIDRs = b.denyCIDRs /\ new.allowCIDRs = b.allowCIDRs
         /\ new.preset = b.preset /\ new.cloudModules = b.cloudModules
         /\ new.sink = TRUE /\ new.ruleset = b.ruleset
  <1> DEFINE E == Seq(GoEntry)
             T == Seq(CidrText)
             N == Seq(CloudNames)
             R == GoRules
  <1>1. /\ b \in [preset : Presets, denyCIDRs : E, allowCIDRs : T, cloudModules : N,
                  sink : BOOLEAN, ruleset : R]
        /\ new = [b EXCEPT !.sink = TRUE]
    BY DEF GoBuilder
  <1> HIDE DEF E, T, N, R
  <1>2. /\ new \in [preset : Presets, denyCIDRs : E, allowCIDRs : T,
                    cloudModules : N, sink : BOOLEAN, ruleset : R]
        /\ new.denyCIDRs = b.denyCIDRs /\ new.allowCIDRs = b.allowCIDRs
        /\ new.preset = b.preset /\ new.cloudModules = b.cloudModules
        /\ new.sink = TRUE /\ new.ruleset = b.ruleset
    BY ONLY <1>1
  <1> QED BY <1>2 DEF GoBuilder, E, T, N, R

\* The lists of the Go builder that hold typed texts.
LEMMA GoLists ==
  ASSUME NEW b \in GoBuilder
  PROVE  /\ b.denyCIDRs \in Seq(GoEntry) /\ b.allowCIDRs \in Seq(CidrText)
         /\ b.cloudModules \in Seq(CloudNames) /\ b.preset \in Presets
         /\ b.ruleset \in GoRules /\ b.sink \in BOOLEAN
  <1> DEFINE E == Seq(GoEntry)
             T == Seq(CidrText)
             N == Seq(CloudNames)
             R == GoRules
  <1>1. b \in [preset : Presets, denyCIDRs : E, allowCIDRs : T, cloudModules : N,
               sink : BOOLEAN, ruleset : R]
    BY DEF GoBuilder
  <1> HIDE DEF E, T, N, R
  <1>2. /\ b.denyCIDRs \in E /\ b.allowCIDRs \in T /\ b.cloudModules \in N
        /\ b.preset \in Presets /\ b.ruleset \in R /\ b.sink \in BOOLEAN
    BY ONLY <1>1
  <1> QED BY <1>2 DEF E, T, N, R

\* The texts of a list of entries.
LEMMA CidrsOf ==
  ASSUME NEW list \in Seq(GoEntry)
  PROVE  LET texts == [i \in DOMAIN list |-> list[i].cidr]
         IN /\ texts \in Seq(CidrText) /\ Len(texts) = Len(list)
            /\ \A i \in 1 .. Len(list) : texts[i] = list[i].cidr /\ list[i].tier \in GoTiers
  <1>1. DOMAIN list = 1 .. Len(list) /\ Len(list) \in Nat
    OBVIOUS
  <1>2. \A i \in 1 .. Len(list) : list[i].cidr \in CidrText /\ list[i].tier \in GoTiers
    <2>1. \A i \in 1 .. Len(list) : list[i] \in GoEntry
      OBVIOUS
    <2> QED BY <2>1 DEF GoEntry
  <1> QED BY <1>1, <1>2

\* Texts put behind the entries, all of one tier.
LEMMA EntriesGrow ==
  ASSUME NEW b \in GoBuilder, NEW texts \in Seq(CidrText), NEW tier \in GoTiers
  PROVE  LET list == b.denyCIDRs \o Tiered(texts, tier)
         IN /\ list \in Seq(GoEntry)
            /\ [i \in DOMAIN list |-> list[i].cidr] = DenyTexts(b) \o texts
  <1> DEFINE old  == b.denyCIDRs
             more == Tiered(texts, tier)
             list == old \o more
  <1>1. old \in Seq(GoEntry)
    BY GoLists
  <1>2. /\ more \in Seq(GoEntry) /\ Len(more) = Len(texts)
        /\ \A i \in 1 .. Len(texts) : more[i].cidr = texts[i]
    <2>1. DOMAIN texts = 1 .. Len(texts) /\ Len(texts) \in Nat
          /\ \A i \in 1 .. Len(texts) : texts[i] \in CidrText
      OBVIOUS
    <2> QED BY <2>1 DEF Tiered, GoEntry
  <1>3. /\ DenyTexts(b) \in Seq(CidrText) /\ Len(DenyTexts(b)) = Len(old)
        /\ \A i \in 1 .. Len(old) : DenyTexts(b)[i] = old[i].cidr
    BY <1>1, CidrsOf DEF DenyTexts
  <1> DEFINE all   == DenyTexts(b) \o texts
             cidrs == [i \in DOMAIN list |-> list[i].cidr]
  <1> HIDE DEF old, more
  <1>4. /\ list \in Seq(GoEntry) /\ Len(list) = Len(old) + Len(texts)
        /\ Len(old) \in Nat /\ Len(texts) \in Nat /\ Len(more) = Len(texts)
        /\ \A i \in 1 .. Len(old) : list[i] = old[i]
        /\ \A i \in 1 .. Len(more) : list[Len(old) + i] = more[i]
    <2>1. more \in Seq(GoEntry) /\ Len(more) = Len(texts)
      BY <1>2
    <2>2. texts \in Seq(CidrText)
      OBVIOUS
    <2> QED BY ONLY <1>1, <2>1, <2>2
  <1>5. /\ all \in Seq(CidrText) /\ Len(all) = Len(old) + Len(texts)
        /\ \A i \in 1 .. Len(old) : all[i] = DenyTexts(b)[i]
        /\ \A i \in 1 .. Len(texts) : all[Len(old) + i] = texts[i]
    <2> DEFINE first == DenyTexts(b)
    <2>1. first \in Seq(CidrText) /\ Len(first) = Len(old)
      BY <1>3
    <2>2. texts \in Seq(CidrText)
      OBVIOUS
    <2> HIDE DEF first
    <2>3. /\ first \o texts \in Seq(CidrText) /\ Len(first \o texts) = Len(old) + Len(texts)
          /\ \A i \in 1 .. Len(old) : (first \o texts)[i] = first[i]
          /\ \A i \in 1 .. Len(texts) : (first \o texts)[Len(old) + i] = texts[i]
      BY ONLY <2>1, <2>2
    <2> QED BY <2>3 DEF first
  <1>6. /\ cidrs \in Seq(CidrText) /\ Len(cidrs) = Len(list)
        /\ \A i \in 1 .. Len(list) : cidrs[i] = list[i].cidr
    BY <1>4, CidrsOf
  <1> HIDE DEF list, all, cidrs
  <1>7. ASSUME NEW i \in 1 .. Len(cidrs) PROVE cidrs[i] = all[i]
    <2>1. CASE i \in 1 .. Len(old)
      BY <1>3, <1>4, <1>5, <1>6, <2>1
    <2>2. CASE i - Len(old) \in 1 .. Len(texts)
      <3>1. i = Len(old) + (i - Len(old))
        BY <1>4, <1>6
      <3>2. list[i] = more[i - Len(old)] /\ all[i] = texts[i - Len(old)]
        BY <1>4, <1>5, <2>2, <3>1
      <3> QED BY <1>2, <1>6, <2>2, <3>2
    <2> QED BY <1>4, <1>6, <2>1, <2>2
  <1>8. cidrs = all
    BY <1>4, <1>5, <1>6, <1>7
  <1> QED BY <1>4, <1>8 DEF list, all, cidrs, old, more

\* A call that denies texts denies them on both sides.
LEMMA DenyAlike ==
  ASSUME SameCalls, NEW texts \in TextLists, NEW source \in DataTier, NEW tier \in GoTiers,
         phase = "building", phase' = "building",
         goBuilder' \in GoBuilder,
         goBuilder'.denyCIDRs = goBuilder.denyCIDRs \o Tiered(texts, tier),
         goBuilder'.allowCIDRs = goBuilder.allowCIDRs,
         goBuilder'.preset = goBuilder.preset, goBuilder'.sink = goBuilder.sink,
         goBuilder'.ruleset = goBuilder.ruleset, goBuilder'.cloudModules = cfg'.cloud_modules,
         cfg'.deny_set = cfg.deny_set \o LooseCidrs(texts, source),
         cfg'.allow_set = cfg.allow_set, cfg'.preset = cfg.preset,
         cfg'.has_sink = cfg.has_sink, cfg'.url_ruleset = cfg.url_ruleset
  PROVE  SameCalls'
  <1>1. PICK own : Pairs(own, DenyTexts(goBuilder)) /\ cfg.deny_set = own
    BY DEF SameCalls, DefaultsAppended
  <1>2. texts \in Seq(CidrText)
    BY CallerAssumption
  <1>3. Pairs(own \o LooseCidrs(texts, source), DenyTexts(goBuilder) \o texts)
    BY <1>1, <1>2, LoosePairs, PairsConcat
  <1>4. goBuilder \in GoBuilder
    BY DEF SameCalls
  <1>5. DenyTexts(goBuilder)' = DenyTexts(goBuilder) \o texts
    <2>1. LET list == goBuilder.denyCIDRs \o Tiered(texts, tier)
          IN [i \in DOMAIN list |-> list[i].cidr] = DenyTexts(goBuilder) \o texts
      BY <1>2, <1>4, EntriesGrow
    <2>2. DenyTexts(goBuilder)' = [i \in DOMAIN goBuilder'.denyCIDRs |->
                                     goBuilder'.denyCIDRs[i].cidr]
      BY DEF DenyTexts
    <2> QED BY <2>1, <2>2
  <1>6. cfg'.deny_set = own \o LooseCidrs(texts, source) /\ ~ DefaultsAppended'
    BY <1>1 DEF DefaultsAppended
  <1>7. Pairs(cfg.allow_set, goBuilder.allowCIDRs)'
    BY DEF SameCalls
  <1>8. \E new : /\ Pairs(new, DenyTexts(goBuilder))'
                 /\ cfg'.deny_set = IF DefaultsAppended' THEN new \o DefaultDenySet ELSE new
    BY <1>3, <1>5, <1>6
  <1> QED BY <1>7, <1>8 DEF SameCalls

\* A call that allows texts allows them on both sides.
LEMMA AllowAlike ==
  ASSUME SameCalls, NEW texts \in TextLists,
         phase = "building", phase' = "building",
         goBuilder' \in GoBuilder,
         goBuilder'.allowCIDRs = goBuilder.allowCIDRs \o texts,
         goBuilder'.denyCIDRs = goBuilder.denyCIDRs,
         goBuilder'.preset = goBuilder.preset, goBuilder'.sink = goBuilder.sink,
         goBuilder'.ruleset = goBuilder.ruleset,
         goBuilder'.cloudModules = goBuilder.cloudModules,
         cfg'.allow_set = cfg.allow_set \o LooseCidrs(texts, "user_allow"),
         cfg'.deny_set = cfg.deny_set, cfg'.preset = cfg.preset,
         cfg'.cloud_modules = cfg.cloud_modules,
         cfg'.has_sink = cfg.has_sink, cfg'.url_ruleset = cfg.url_ruleset
  PROVE  SameCalls'
  <1>1. PICK own : Pairs(own, DenyTexts(goBuilder)) /\ cfg.deny_set = own
    BY DEF SameCalls, DefaultsAppended
  <1>2. texts \in Seq(CidrText) /\ "user_allow" \in DataTier
    BY CallerAssumption DEF DataTier
  <1>3. Pairs(cfg.allow_set \o LooseCidrs(texts, "user_allow"), goBuilder.allowCIDRs \o texts)
    <2>1. Pairs(cfg.allow_set, goBuilder.allowCIDRs)
      BY DEF SameCalls
    <2> QED BY <1>2, <2>1, LoosePairs, PairsConcat
  <1>4. DenyTexts(goBuilder)' = DenyTexts(goBuilder)
    BY DEF DenyTexts
  <1>5. cfg'.deny_set = own /\ ~ DefaultsAppended'
    BY <1>1 DEF DefaultsAppended
  <1>6. \E new : /\ Pairs(new, DenyTexts(goBuilder))'
                 /\ cfg'.deny_set = IF DefaultsAppended' THEN new \o DefaultDenySet ELSE new
    BY <1>1, <1>4, <1>5
  <1> QED BY <1>3, <1>6 DEF SameCalls

\* A step that leaves the lists alone.
LEMMA ListsAlike ==
  ASSUME SameCalls, goBuilder' \in GoBuilder,
         DefaultsAppended' <=> DefaultsAppended,
         goBuilder'.allowCIDRs = goBuilder.allowCIDRs,
         goBuilder'.denyCIDRs = goBuilder.denyCIDRs,
         goBuilder'.preset = goBuilder.preset,
         goBuilder'.cloudModules = goBuilder.cloudModules,
         cfg'.allow_set = cfg.allow_set, cfg'.deny_set = cfg.deny_set,
         cfg'.preset = cfg.preset, cfg'.cloud_modules = cfg.cloud_modules,
         goBuilder'.sink = cfg'.has_sink,
         goBuilder'.ruleset.allow = cfg'.url_ruleset.allow,
         goBuilder'.ruleset.deny = cfg'.url_ruleset.deny
  PROVE  SameCalls'
  <1>1. PICK own : /\ Pairs(own, DenyTexts(goBuilder))
                   /\ cfg.deny_set = IF DefaultsAppended THEN own \o DefaultDenySet ELSE own
    BY DEF SameCalls
  <1>2. DenyTexts(goBuilder)' = DenyTexts(goBuilder)
    BY DEF DenyTexts
  <1>3. \E new : /\ Pairs(new, DenyTexts(goBuilder))'
                 /\ cfg'.deny_set = IF DefaultsAppended' THEN new \o DefaultDenySet ELSE new
    BY <1>1, <1>2
  <1>4. Pairs(cfg.allow_set, goBuilder.allowCIDRs)'
    BY DEF SameCalls
  <1> QED BY <1>3, <1>4 DEF SameCalls

\* The fields of the Rust builder that a call sets.
LEMMA RustFields ==
  ASSUME NEW c \in Config
  PROVE  /\ \A list : LET new == [c EXCEPT !.deny_set = list]
                      IN /\ new.deny_set = list /\ new.allow_set = c.allow_set
                         /\ new.preset = c.preset /\ new.cloud_modules = c.cloud_modules
                         /\ new.has_sink = c.has_sink /\ new.url_ruleset = c.url_ruleset
         /\ \A list : LET new == [c EXCEPT !.allow_set = list]
                      IN /\ new.allow_set = list /\ new.deny_set = c.deny_set
                         /\ new.preset = c.preset /\ new.cloud_modules = c.cloud_modules
                         /\ new.has_sink = c.has_sink /\ new.url_ruleset = c.url_ruleset
         /\ \A names, list :
              LET new == [c EXCEPT !.cloud_modules = names, !.deny_set = list]
              IN /\ new.deny_set = list /\ new.allow_set = c.allow_set
                 /\ new.preset = c.preset /\ new.cloud_modules = names
                 /\ new.has_sink = c.has_sink /\ new.url_ruleset = c.url_ruleset
         /\ \A rules : LET new == [c EXCEPT !.url_ruleset = rules]
                       IN /\ new.deny_set = c.deny_set /\ new.allow_set = c.allow_set
                          /\ new.preset = c.preset /\ new.cloud_modules = c.cloud_modules
                          /\ new.has_sink = c.has_sink /\ new.url_ruleset = rules
         /\ LET new == [c EXCEPT !.has_sink = TRUE]
            IN /\ new.deny_set = c.deny_set /\ new.allow_set = c.allow_set
               /\ new.preset = c.preset /\ new.cloud_modules = c.cloud_modules
               /\ new.has_sink = TRUE /\ new.url_ruleset = c.url_ruleset
  BY DEF Config

\* A rule on both sides.
LEMMA RuleAlike ==
  ASSUME TypeOK, SameCalls, NEW rule \in UrlRuleArgs, phase = "building", phase' = "building",
         \/ /\ cfg' = [cfg EXCEPT !.url_ruleset = AddAllowRule(@, rule)]
            /\ goBuilder' = [goBuilder EXCEPT !.ruleset.allow = Append(@, rule)]
         \/ /\ cfg' = [cfg EXCEPT !.url_ruleset = AddDenyRule(@, rule)]
            /\ goBuilder' = [goBuilder EXCEPT !.ruleset.deny = Append(@, rule)]
  PROVE  SameCalls'
  <1> DEFINE S  == Seq(UrlRuleArgs)
             rs == cfg.url_ruleset
             g  == goBuilder.ruleset
  <1>1. cfg \in Config /\ rs \in [allow : S, deny : S, compiled_allow : S, compiled_deny : S]
    BY DEF TypeOK, Config, Ruleset
  <1>2. goBuilder \in GoBuilder /\ g \in [allow : S, deny : S]
    BY GoLists DEF SameCalls, GoRules
  <1>3. /\ g.allow = rs.allow /\ g.deny = rs.deny /\ goBuilder.sink = cfg.has_sink
    BY DEF SameCalls
  <1>4. Append(rs.allow, rule) \in S /\ Append(rs.deny, rule) \in S
    <2>1. rs.allow \in S /\ rs.deny \in S
      BY DEF TypeOK, Config, Ruleset
    <2> QED BY <2>1
  <1> DEFINE moreAllow == Append(rs.allow, rule)
             moreDeny  == Append(rs.deny, rule)
             rsNew == cfg'.url_ruleset
  <1>5. ~ DefaultsAppended' /\ ~ DefaultsAppended
    BY DEF DefaultsAppended
  <1>6. \E rules :
           /\ cfg' = [cfg EXCEPT !.url_ruleset = rules]
           /\ goBuilder' = [goBuilder EXCEPT !.ruleset = [allow |-> rules.allow,
                                                          deny |-> rules.deny]]
           /\ [allow |-> rules.allow, deny |-> rules.deny] \in GoRules
    <2>1. CASE /\ cfg' = [cfg EXCEPT !.url_ruleset = AddAllowRule(@, rule)]
               /\ goBuilder' = [goBuilder EXCEPT !.ruleset.allow = Append(@, rule)]
      <3> DEFINE rules == [rs EXCEPT !.allow = moreAllow]
      <3>1. /\ cfg' = [cfg EXCEPT !.url_ruleset = rules]
            /\ goBuilder' = [goBuilder EXCEPT !.ruleset = [g EXCEPT !.allow = moreAllow]]
        BY <2>1, <1>3 DEF AddAllowRule
      <3>2. moreAllow \in S
        BY <1>4
      <3> HIDE DEF S, moreAllow, g, rs
      <3>3. /\ [g EXCEPT !.allow = moreAllow] = [allow |-> rules.allow, deny |-> rules.deny]
            /\ [allow |-> rules.allow, deny |-> rules.deny] \in [allow : S, deny : S]
        BY <1>1, <1>2, <1>3, <3>2
      <3> HIDE DEF rules
      <3> QED BY <3>1, <3>3 DEF S, GoRules, g, rs
    <2>2. CASE /\ cfg' = [cfg EXCEPT !.url_ruleset = AddDenyRule(@, rule)]
               /\ goBuilder' = [goBuilder EXCEPT !.ruleset.deny = Append(@, rule)]
      <3> DEFINE rules == [rs EXCEPT !.deny = moreDeny]
      <3>1. /\ cfg' = [cfg EXCEPT !.url_ruleset = rules]
            /\ goBuilder' = [goBuilder EXCEPT !.ruleset = [g EXCEPT !.deny = moreDeny]]
        BY <2>2, <1>3 DEF AddDenyRule
      <3>2. moreDeny \in S
        BY <1>4
      <3> HIDE DEF S, moreDeny, g, rs
      <3>3. /\ [g EXCEPT !.deny = moreDeny] = [allow |-> rules.allow, deny |-> rules.deny]
            /\ [allow |-> rules.allow, deny |-> rules.deny] \in [allow : S, deny : S]
        BY <1>1, <1>2, <1>3, <3>2
      <3> HIDE DEF rules
      <3> QED BY <3>1, <3>3 DEF S, GoRules, g, rs
    <2> QED BY <2>1, <2>2
  <1>7. PICK rules :
           /\ cfg' = [cfg EXCEPT !.url_ruleset = rules]
           /\ goBuilder' = [goBuilder EXCEPT !.ruleset = [allow |-> rules.allow,
                                                          deny |-> rules.deny]]
           /\ [allow |-> rules.allow, deny |-> rules.deny] \in GoRules
    BY <1>6
  <1>8. /\ cfg'.allow_set = cfg.allow_set /\ cfg'.deny_set = cfg.deny_set
        /\ cfg'.preset = cfg.preset /\ cfg'.cloud_modules = cfg.cloud_modules
        /\ cfg'.has_sink = cfg.has_sink /\ cfg'.url_ruleset = rules
    BY <1>1, <1>7, RustFields
  <1>9. /\ goBuilder' \in GoBuilder
        /\ goBuilder'.allowCIDRs = goBuilder.allowCIDRs
        /\ goBuilder'.denyCIDRs = goBuilder.denyCIDRs
        /\ goBuilder'.preset = goBuilder.preset
        /\ goBuilder'.cloudModules = goBuilder.cloudModules
        /\ goBuilder'.sink = goBuilder.sink
        /\ goBuilder'.ruleset = [allow |-> rules.allow, deny |-> rules.deny]
    <2> DEFINE new == [allow |-> rules.allow, deny |-> rules.deny]
    <2>1. new \in GoRules /\ goBuilder' = [goBuilder EXCEPT !.ruleset = new]
      BY <1>7
    <2> HIDE DEF new
    <2>2. /\ goBuilder' \in GoBuilder
          /\ goBuilder'.allowCIDRs = goBuilder.allowCIDRs
          /\ goBuilder'.denyCIDRs = goBuilder.denyCIDRs
          /\ goBuilder'.preset = goBuilder.preset
          /\ goBuilder'.cloudModules = goBuilder.cloudModules
          /\ goBuilder'.sink = goBuilder.sink
          /\ goBuilder'.ruleset = new
      BY <1>2, <2>1, GoRulesCall
    <2> QED BY <2>2 DEF new
  <1>10. /\ goBuilder'.ruleset.allow = cfg'.url_ruleset.allow
         /\ goBuilder'.ruleset.deny = cfg'.url_ruleset.deny
    BY <1>8, <1>9
  <1> QED BY <1>3, <1>5, <1>8, <1>9, <1>10, ListsAlike

\* What freezing leaves as it was.
LEMMA FinalisedKeeps ==
  ASSUME NEW c \in Config
  PROVE  /\ Finalised(c).cloud_modules = c.cloud_modules
         /\ Finalised(c).has_sink = c.has_sink
         /\ Finalised(c).url_ruleset.allow = c.url_ruleset.allow
         /\ Finalised(c).url_ruleset.deny = c.url_ruleset.deny
  <1> DEFINE d     == WithDefaults(c)
             list  == c.deny_set \o DefaultDenySet
             rules == Compiled(c.url_ruleset)
  <1>1. /\ d.cloud_modules = c.cloud_modules /\ d.has_sink = c.has_sink
        /\ d.url_ruleset = c.url_ruleset
    <2>1. d = c \/ d = [c EXCEPT !.deny_set = list]
      BY DEF WithDefaults
    <2> HIDE DEF d, list
    <2> QED BY <2>1 DEF Config
  <1>2. d \in Config
    BY DefaultsType
  <1>3. Finalised(c) = d \/ Finalised(c) = [d EXCEPT !.url_ruleset = rules]
    BY <1>1 DEF Finalised, WithCompiledRules
  <1>4. rules.allow = c.url_ruleset.allow /\ rules.deny = c.url_ruleset.deny
    BY DEF Config, Ruleset, Compiled
  <1> HIDE DEF d, rules
  <1> QED BY <1>1, <1>2, <1>3, <1>4 DEF Config

\* Both builders get the same calls, in every state.
LEMMA SameCallsStep == TypeOK /\ SameCalls /\ [BothNext]_bothVars => SameCalls'
  <1> SUFFICES ASSUME TypeOK, SameCalls, [BothNext]_bothVars PROVE SameCalls'
    OBVIOUS
  <1>1. cfg \in Config /\ goBuilder \in GoBuilder
    BY DEF TypeOK, SameCalls
  <1>2. /\ goBuilder.denyCIDRs \in Seq(GoEntry) /\ goBuilder.allowCIDRs \in Seq(CidrText)
        /\ goBuilder.cloudModules \in Seq(CloudNames) /\ goBuilder.ruleset \in GoRules
    BY <1>1, GoLists
  <1>3. "user_deny" \in DataTier /\ "user_deny" \in GoTiers /\ TextLists \subseteq Seq(CidrText)
    BY CallerAssumption DEF DataTier, GoTiers
  <1>4. ASSUME NEW texts \in TextLists, AddDenied(texts), AddDeniedCIDRs(texts)
        PROVE  SameCalls'
    <2> DEFINE ranges  == cfg.deny_set \o LooseCidrs(texts, "user_deny")
               entries == goBuilder.denyCIDRs \o Tiered(texts, "user_deny")
    <2>1. /\ cfg' = [cfg EXCEPT !.deny_set = ranges]
          /\ phase = "building" /\ phase' = "building"
          /\ goBuilder' = [goBuilder EXCEPT !.denyCIDRs = entries]
      BY <1>4 DEF AddDenied, BuilderCall, AddDeniedCIDRs, GoCall
    <2>2. entries \in Seq(GoEntry)
      BY <1>1, <1>3, EntriesGrow
    <2>3. /\ cfg'.deny_set = ranges /\ cfg'.allow_set = cfg.allow_set
          /\ cfg'.preset = cfg.preset /\ cfg'.cloud_modules = cfg.cloud_modules
          /\ cfg'.has_sink = cfg.has_sink /\ cfg'.url_ruleset = cfg.url_ruleset
      <3> HIDE DEF ranges
      <3> QED BY <1>1, <2>1 DEF Config
    <2>4. /\ goBuilder' \in GoBuilder
          /\ goBuilder'.denyCIDRs = entries /\ goBuilder'.allowCIDRs = goBuilder.allowCIDRs
          /\ goBuilder'.preset = goBuilder.preset
          /\ goBuilder'.cloudModules = goBuilder.cloudModules
          /\ goBuilder'.sink = goBuilder.sink /\ goBuilder'.ruleset = goBuilder.ruleset
      <3> HIDE DEF entries
      <3> QED BY <1>1, <2>1, <2>2, GoDenyCall
    <2>5. goBuilder'.cloudModules = cfg'.cloud_modules
      BY <2>3, <2>4 DEF SameCalls
    <2> QED BY <1>3, <2>1, <2>3, <2>4, <2>5, DenyAlike
  <1>5. ASSUME NEW texts \in TextLists, AddAllowed(texts), AddAllowedCIDRs(texts)
        PROVE  SameCalls'
    <2> DEFINE ranges  == cfg.allow_set \o LooseCidrs(texts, "user_allow")
               entries == goBuilder.allowCIDRs \o texts
    <2>1. /\ cfg' = [cfg EXCEPT !.allow_set = ranges]
          /\ phase = "building" /\ phase' = "building"
          /\ goBuilder' = [goBuilder EXCEPT !.allowCIDRs = entries]
      BY <1>5 DEF AddAllowed, BuilderCall, AddAllowedCIDRs, GoCall
    <2>2. entries \in Seq(CidrText)
      <3>1. texts \in Seq(CidrText)
        BY <1>3
      <3> QED BY ONLY <1>2, <3>1
    <2>3. /\ cfg'.allow_set = ranges /\ cfg'.deny_set = cfg.deny_set
          /\ cfg'.preset = cfg.preset /\ cfg'.cloud_modules = cfg.cloud_modules
          /\ cfg'.has_sink = cfg.has_sink /\ cfg'.url_ruleset = cfg.url_ruleset
      <3> HIDE DEF ranges
      <3> QED BY <1>1, <2>1 DEF Config
    <2>4. /\ goBuilder' \in GoBuilder
          /\ goBuilder'.denyCIDRs = goBuilder.denyCIDRs /\ goBuilder'.allowCIDRs = entries
          /\ goBuilder'.preset = goBuilder.preset
          /\ goBuilder'.cloudModules = goBuilder.cloudModules
          /\ goBuilder'.sink = goBuilder.sink /\ goBuilder'.ruleset = goBuilder.ruleset
      <3> HIDE DEF entries
      <3> QED BY <1>1, <2>1, <2>2, GoAllowCall
    <2> QED BY <2>1, <2>3, <2>4, AllowAlike
  <1>6. ASSUME NEW written \in DOMAIN ToLower, AddCloudProviderDenies(written),
               WithCloudDeny(ToLower[written], CloudTexts[ToLower[written]])
        PROVE  SameCalls'
    <2>   DEFINE name == ToLower[written]
    <2>0. name \in CloudNames
      BY <1>6 DEF AddCloudProviderDenies
    <2> DEFINE texts   == CloudTexts[name]
               ranges  == cfg.deny_set \o LooseCidrs(texts, CloudTier(name))
               names   == Append(cfg.cloud_modules, name)
               goNames == Append(goBuilder.cloudModules, name)
               entries == goBuilder.denyCIDRs \o Tiered(texts, name)
    <2>1. /\ cfg' = [cfg EXCEPT !.cloud_modules = names, !.deny_set = ranges]
          /\ phase = "building" /\ phase' = "building"
          /\ goBuilder' = [goBuilder EXCEPT !.cloudModules = goNames, !.denyCIDRs = entries]
      BY <1>6 DEF WithCloudDeny, BuilderCall, AddCloudProviderDenies, GoCall
    <2>   HIDE DEF name
    <2>2. texts \in TextLists /\ CloudTier(name) \in DataTier /\ name \in GoTiers
      BY <2>0, GoAssumption DEF CloudTier, DataTier, GoTiers
    <2>3. entries \in Seq(GoEntry) /\ goNames \in Seq(CloudNames)
      <3>1. entries \in Seq(GoEntry)
        BY <1>1, <1>3, <2>2, EntriesGrow
      <3>2. goNames \in Seq(CloudNames)
        BY <1>2, <2>0
      <3> QED BY <3>1, <3>2
    <2>4. /\ cfg'.deny_set = ranges /\ cfg'.allow_set = cfg.allow_set
          /\ cfg'.preset = cfg.preset /\ cfg'.cloud_modules = names
          /\ cfg'.has_sink = cfg.has_sink /\ cfg'.url_ruleset = cfg.url_ruleset
      <3> HIDE DEF ranges, names
      <3> QED BY <1>1, <2>1 DEF Config
    <2>5. /\ goBuilder' \in GoBuilder
          /\ goBuilder'.denyCIDRs = entries /\ goBuilder'.allowCIDRs = goBuilder.allowCIDRs
          /\ goBuilder'.preset = goBuilder.preset
          /\ goBuilder'.cloudModules = goNames
          /\ goBuilder'.sink = goBuilder.sink /\ goBuilder'.ruleset = goBuilder.ruleset
      <3> DEFINE mid == [goBuilder EXCEPT !.cloudModules = goNames]
      <3>1. goBuilder' = [mid EXCEPT !.denyCIDRs = entries]
        BY <2>1
      <3>2. goBuilder \in GoBuilder /\ goNames \in Seq(CloudNames) /\ entries \in Seq(GoEntry)
        BY <1>1, <2>3
      <3> HIDE DEF entries, goNames
      <3>3. /\ mid \in GoBuilder
            /\ mid.denyCIDRs = goBuilder.denyCIDRs /\ mid.allowCIDRs = goBuilder.allowCIDRs
            /\ mid.preset = goBuilder.preset /\ mid.cloudModules = goNames
            /\ mid.sink = goBuilder.sink /\ mid.ruleset = goBuilder.ruleset
        BY <3>2, GoNamesCall
      <3> HIDE DEF mid
      <3>4. /\ goBuilder' \in GoBuilder
            /\ goBuilder'.denyCIDRs = entries /\ goBuilder'.allowCIDRs = mid.allowCIDRs
            /\ goBuilder'.preset = mid.preset /\ goBuilder'.cloudModules = mid.cloudModules
            /\ goBuilder'.sink = mid.sink /\ goBuilder'.ruleset = mid.ruleset
        BY <3>1, <3>2, <3>3, GoDenyCall
      <3> QED BY <3>3, <3>4
    <2>6. goBuilder'.cloudModules = cfg'.cloud_modules
      BY <2>4, <2>5 DEF SameCalls
    <2> HIDE DEF texts
    <2> QED BY <2>1, <2>2, <2>4, <2>5, <2>6, DenyAlike
  <1>7. ASSUME NEW rule \in UrlRuleArgs,
               \/ UrlAllow(rule) /\ AddURLAllow(rule)
               \/ UrlDeny(rule) /\ AddURLDeny(rule)
        PROVE  SameCalls'
    BY <1>7, RuleAlike DEF UrlAllow, UrlDeny, AddURLAllow, AddURLDeny, BuilderCall, GoCall
  <1>8. ASSUME SetAuditSink, GoSetAuditSink PROVE SameCalls'
    <2>1. /\ cfg' = [cfg EXCEPT !.has_sink = TRUE]
          /\ phase = "building" /\ phase' = "building"
          /\ goBuilder' = [goBuilder EXCEPT !.sink = TRUE]
      BY <1>8 DEF SetAuditSink, BuilderCall, GoSetAuditSink, GoCall
    <2>2. /\ cfg'.deny_set = cfg.deny_set /\ cfg'.allow_set = cfg.allow_set
          /\ cfg'.preset = cfg.preset /\ cfg'.cloud_modules = cfg.cloud_modules
          /\ cfg'.has_sink = TRUE /\ cfg'.url_ruleset = cfg.url_ruleset
      BY <1>1, <2>1 DEF Config
    <2>3. /\ goBuilder' \in GoBuilder
          /\ goBuilder'.denyCIDRs = goBuilder.denyCIDRs
          /\ goBuilder'.allowCIDRs = goBuilder.allowCIDRs
          /\ goBuilder'.preset = goBuilder.preset
          /\ goBuilder'.cloudModules = goBuilder.cloudModules
          /\ goBuilder'.sink = TRUE /\ goBuilder'.ruleset = goBuilder.ruleset
      BY <1>1, <2>1, GoSinkCall
    <2>4. ~ DefaultsAppended /\ ~ DefaultsAppended'
      BY <2>1 DEF DefaultsAppended
    <2>5. /\ goBuilder'.ruleset.allow = cfg'.url_ruleset.allow
          /\ goBuilder'.ruleset.deny = cfg'.url_ruleset.deny
      BY <2>2, <2>3 DEF SameCalls
    <2> QED BY <2>2, <2>3, <2>4, <2>5, ListsAlike
  <1>9. ASSUME BothBuild PROVE SameCalls'
    <2>1. /\ phase = "building" /\ phase' = "built" /\ cfg' = Finalised(cfg)
          /\ goBuilder' = goBuilder
      BY <1>9 DEF BothBuild, Build, GoBuild, GoBuildFails
    <2>2. /\ cfg'.preset = cfg.preset /\ cfg'.allow_set = cfg.allow_set
          /\ cfg'.deny_set = IF cfg.preset = "ExternalOnly"
                             THEN cfg.deny_set \o DefaultDenySet ELSE cfg.deny_set
      BY <1>1, <2>1, FinalisedLists
    <2>3. /\ cfg'.cloud_modules = cfg.cloud_modules /\ cfg'.has_sink = cfg.has_sink
          /\ cfg'.url_ruleset.allow = cfg.url_ruleset.allow
          /\ cfg'.url_ruleset.deny = cfg.url_ruleset.deny
      BY <1>1, <2>1, FinalisedKeeps
    <2>4. PICK own : Pairs(own, DenyTexts(goBuilder)) /\ cfg.deny_set = own
      BY <2>1 DEF SameCalls, DefaultsAppended
    <2>5. DenyTexts(goBuilder)' = DenyTexts(goBuilder)
      BY <2>1
    <2>6. cfg'.deny_set = IF DefaultsAppended' THEN own \o DefaultDenySet ELSE own
      BY <2>1, <2>2, <2>4 DEF DefaultsAppended
    <2>7. \E new : /\ Pairs(new, DenyTexts(goBuilder))'
                   /\ cfg'.deny_set = IF DefaultsAppended' THEN new \o DefaultDenySet ELSE new
      BY <2>4, <2>5, <2>6
    <2>8. Pairs(cfg.allow_set, goBuilder.allowCIDRs)'
      BY <2>1, <2>2 DEF SameCalls
    <2> QED BY <2>1, <2>2, <2>3, <2>7, <2>8 DEF SameCalls
  <1>10. ASSUME cfg' = cfg, goBuilder' = goBuilder, phase' = phase PROVE SameCalls'
    <2>1. DefaultsAppended' <=> DefaultsAppended
      BY <1>10 DEF DefaultsAppended
    <2> QED BY <1>10, <2>1 DEF SameCalls
  <1>11. ASSUME BothAsk PROVE SameCalls'
    BY <1>10, <1>11 DEF BothAsk, AskNetwork, Ask, GoAskNetwork
  <1>12. CASE UNCHANGED bothVars
    BY <1>10, <1>12 DEF bothVars, vars, goVars
  <1>13. ASSUME NEW written \in DOMAIN ToLower, IgnoreCloudProvider(written), UNCHANGED vars
         PROVE  SameCalls'
    BY <1>10, <1>13 DEF IgnoreCloudProvider, GoCall, vars
  <1>14. ASSUME BothConfigure PROVE SameCalls'
    BY <1>4, <1>5, <1>6, <1>7, <1>8, <1>13, <1>14 DEF BothConfigure
  <1> QED BY <1>9, <1>11, <1>12, <1>14 DEF BothNext

\* Go parses what parse_loose parses.
LEMMA GoParsesIs ==
  ASSUME SameCalls
  PROVE  GoTextsParse(goBuilder)
           <=> /\ \A i \in 1 .. Len(DenyTexts(goBuilder)) : ParsesLoose(DenyTexts(goBuilder)[i])
               /\ \A i \in 1 .. Len(goBuilder.allowCIDRs) : ParsesLoose(goBuilder.allowCIDRs[i])
  <1> DEFINE deny  == goBuilder.denyCIDRs
             allow == goBuilder.allowCIDRs
             texts == DenyTexts(goBuilder)
  <1>1. \A text : GoParses(text) <=> ParsesLoose(text)
    BY DEF GoParses, ParsesLoose, MaxPrefix
  <1>2. deny \in Seq(GoEntry) /\ allow \in Seq(CidrText)
    BY GoLists DEF SameCalls
  <1>3. Len(texts) = Len(deny) /\ \A i \in 1 .. Len(deny) : texts[i] = deny[i].cidr
    BY <1>2, CidrsOf DEF DenyTexts
  <1>4. DOMAIN deny = 1 .. Len(deny) /\ DOMAIN allow = 1 .. Len(allow)
    BY <1>2
  <1>5. GoTextsParse(goBuilder) <=> /\ \A i \in DOMAIN deny : GoParses(deny[i].cidr)
                                    /\ \A i \in DOMAIN allow : GoParses(allow[i])
    BY DEF GoTextsParse
  <1> HIDE DEF deny, allow, texts
  <1>6. GoTextsParse(goBuilder) <=> /\ \A i \in 1 .. Len(deny) : ParsesLoose(texts[i])
                                    /\ \A i \in 1 .. Len(allow) : ParsesLoose(allow[i])
    BY <1>1, <1>3, <1>4, <1>5
  <1> QED BY <1>3, <1>6 DEF deny, allow, texts

\* What holds of two policies made by the same calls.
AlikePolicies(p, c) ==
  /\ p.preset = c.preset /\ p.cloudModules = c.cloud_modules
  /\ p.ruleset.allow = c.url_ruleset.allow /\ p.ruleset.deny = c.url_ruleset.deny
  /\ p.denySet \in Seq(GoRange) /\ p.allowSet \in Seq(GoRange)
  /\ Len(p.denySet) = Len(c.deny_set) /\ Len(p.allowSet) = Len(c.allow_set)
  /\ \A ip \in IpAddr : /\ GoInSet(p.denySet, ip) <=> InSet(c.deny_set, ip)
                        /\ GoInSet(p.allowSet, ip) <=> InSet(c.allow_set, ip)

\* If every text parses, Build gives the policy the Rust engine gives.
LEMMA BuiltAlike ==
  ASSUME SameCalls, phase = "built", GoTextsParse(goBuilder)
  PROVE  AlikePolicies(GoBuilt(goBuilder), cfg)
  <1> DEFINE deny   == goBuilder.denyCIDRs
             allow  == goBuilder.allowCIDRs
             texts  == DenyTexts(goBuilder)
             dlist  == [i \in DOMAIN deny |-> ParseCIDRLoose(deny[i].cidr, deny[i].tier)]
             alist  == [i \in DOMAIN allow |-> ParseCIDRLoose(allow[i], "user_allow")]
             ext    == goBuilder.preset = "ExternalOnly"
             front  == IF ext THEN GoDefaultDenySet ELSE <<>>
             built  == GoBuilt(goBuilder)
  <1>1. goBuilder \in GoBuilder
    BY DEF SameCalls
  <1>2. deny \in Seq(GoEntry) /\ allow \in Seq(CidrText)
    BY <1>1, GoLists
  <1>3. /\ texts \in Seq(CidrText) /\ Len(texts) = Len(deny)
        /\ \A i \in 1 .. Len(deny) : texts[i] = deny[i].cidr /\ deny[i].tier \in GoTiers
    BY <1>2, CidrsOf DEF DenyTexts
  <1>4. /\ \A i \in 1 .. Len(texts) : ParsesLoose(texts[i])
        /\ \A i \in 1 .. Len(allow) : ParsesLoose(allow[i])
    BY GoParsesIs
  <1>5. PICK own : /\ Pairs(own, texts)
                   /\ cfg.deny_set = IF DefaultsAppended THEN own \o DefaultDenySet ELSE own
    BY DEF SameCalls
  <1>6. ext <=> DefaultsAppended
    BY DEF SameCalls, DefaultsAppended
  <1>7. /\ built.denySet = front \o dlist /\ built.allowSet = alist
        /\ built.preset = goBuilder.preset /\ built.cloudModules = goBuilder.cloudModules
        /\ built.ruleset = goBuilder.ruleset
    <2> HIDE DEF dlist, alist, front
    <2>1. built = [preset |-> goBuilder.preset, denySet |-> front \o dlist, allowSet |-> alist,
                   cloudModules |-> goBuilder.cloudModules, ruleset |-> goBuilder.ruleset]
      BY DEF GoBuilt, front, dlist, alist
    <2> HIDE DEF built
    <2> QED BY <2>1
  <1>8. DOMAIN deny = 1 .. Len(deny) /\ DOMAIN allow = 1 .. Len(allow)
        /\ DOMAIN texts = 1 .. Len(deny)
    BY <1>2, <1>3
  <1>9. /\ dlist \in Seq(GoRange) /\ Len(dlist) = Len(texts)
        /\ \A ip \in IpAddr :
             GoInSet(dlist, ip) <=> \E i \in 1 .. Len(texts) : RefCovers(texts[i], ip)
    <2>1. /\ DOMAIN dlist = DOMAIN texts
          /\ dlist = [i \in DOMAIN dlist |-> dlist[i]]
          /\ \A i \in 1 .. Len(texts) : /\ dlist[i] = ParseCIDRLoose(texts[i], deny[i].tier)
                                        /\ deny[i].tier \in GoTiers
      BY <1>3, <1>8
    <2> HIDE DEF dlist, texts, deny
    <2> QED BY <1>3, <1>4, <2>1, GoListIs
  <1>10. /\ alist \in Seq(GoRange) /\ Len(alist) = Len(allow)
         /\ \A ip \in IpAddr :
              GoInSet(alist, ip) <=> \E i \in 1 .. Len(allow) : RefCovers(allow[i], ip)
    <2>1. /\ DOMAIN alist = DOMAIN allow
          /\ alist = [i \in DOMAIN alist |-> alist[i]]
          /\ \A i \in 1 .. Len(allow) : alist[i] = ParseCIDRLoose(allow[i], "user_allow")
      BY <1>8
    <2>2. "user_allow" \in GoTiers
      BY DEF GoTiers, DataTier
    <2> HIDE DEF alist, allow
    <2> QED BY <1>2, <1>4, <2>1, <2>2, GoListIs
  <1>11. /\ own \in Seq(CidrRange) /\ Len(own) = Len(texts)
         /\ \A ip \in IpAddr : InSet(own, ip) <=> \E i \in 1 .. Len(texts) : RefCovers(texts[i], ip)
    BY <1>4, <1>5 DEF Pairs
  <1>12. /\ cfg.allow_set \in Seq(CidrRange) /\ Len(cfg.allow_set) = Len(allow)
         /\ \A ip \in IpAddr :
              InSet(cfg.allow_set, ip) <=> \E i \in 1 .. Len(allow) : RefCovers(allow[i], ip)
    <2>1. Pairs(cfg.allow_set, allow)
      BY DEF SameCalls
    <2> HIDE DEF allow
    <2> QED BY <1>4, <2>1 DEF Pairs
  <1>13. /\ front \o dlist \in Seq(GoRange)
         /\ Len(front \o dlist) = Len(cfg.deny_set)
         /\ \A ip \in IpAddr : GoInSet(front \o dlist, ip) <=> InSet(cfg.deny_set, ip)
    <2> HIDE DEF dlist, texts
    <2>1. CASE ext
      <3>1. cfg.deny_set = own \o DefaultDenySet /\ front = GoDefaultDenySet
        BY <1>5, <1>6, <2>1
      <3>2. /\ GoDefaultDenySet \in Seq(GoRange) /\ DefaultDenySet \in Seq(CidrRange)
            /\ Len(GoDefaultDenySet) = Len(DefaultDenySet)
        BY ShippedAlike, ParsedTexts
      <3>3. /\ GoDefaultDenySet \o dlist \in Seq(GoRange)
            /\ Len(GoDefaultDenySet \o dlist) = Len(GoDefaultDenySet) + Len(dlist)
            /\ Len(GoDefaultDenySet) \in Nat /\ Len(dlist) \in Nat
        BY ONLY <1>9, <3>2
      <3>4. Len(own \o DefaultDenySet) = Len(own) + Len(DefaultDenySet)
        BY ONLY <1>11, <3>2
      <3>5. Len(GoDefaultDenySet \o dlist) = Len(own \o DefaultDenySet)
        BY ONLY <1>9, <1>11, <3>2, <3>3, <3>4
      <3>6. ASSUME NEW ip \in IpAddr
            PROVE  GoInSet(GoDefaultDenySet \o dlist, ip) <=> InSet(own \o DefaultDenySet, ip)
        <4>1. GoInSet(GoDefaultDenySet \o dlist, ip)
                <=> GoInSet(GoDefaultDenySet, ip) \/ GoInSet(dlist, ip)
          BY <1>9, <3>2, GoConcat
        <4>2. InSet(own \o DefaultDenySet, ip) <=> InSet(own, ip) \/ InSet(DefaultDenySet, ip)
          BY <1>11, <3>2, InSetConcat
        <4>3. GoInSet(GoDefaultDenySet, ip) <=> InSet(DefaultDenySet, ip)
          BY ShippedAlike
        <4> QED BY <1>9, <1>11, <4>1, <4>2, <4>3
      <3> QED BY <3>1, <3>3, <3>5, <3>6
    <2>2. CASE ~ ext
      <3>1. cfg.deny_set = own /\ front = <<>>
        BY <1>5, <1>6, <2>2
      <3>2. <<>> \o dlist = dlist
        BY <1>9
      <3> QED BY <1>9, <1>11, <3>1, <3>2
    <2> QED BY <2>1, <2>2
  <1>14. /\ goBuilder.preset = cfg.preset /\ goBuilder.cloudModules = cfg.cloud_modules
         /\ goBuilder.ruleset.allow = cfg.url_ruleset.allow
         /\ goBuilder.ruleset.deny = cfg.url_ruleset.deny
    BY DEF SameCalls
  <1> HIDE DEF built, front, dlist, alist, texts, allow, deny
  <1>15. AlikePolicies(built, cfg)
    BY <1>7, <1>10, <1>12, <1>13, <1>14 DEF AlikePolicies
  <1> QED BY <1>15 DEF built

\* No text was skipped exactly when the Go engine gives a policy.
LEMMA SkippedIs ==
  ASSUME SameCalls, phase = "built"
  PROVE  Skipped = 0 <=> GoTextsParse(goBuilder)
  <1> DEFINE deny  == goBuilder.denyCIDRs
             allow == goBuilder.allowCIDRs
             texts == DenyTexts(goBuilder)
  <1>1. deny \in Seq(GoEntry) /\ allow \in Seq(CidrText)
    BY GoLists DEF SameCalls
  <1>2. texts \in Seq(CidrText) /\ Len(texts) = Len(deny)
    BY <1>1, CidrsOf DEF DenyTexts
  <1>3. PICK own : /\ Pairs(own, texts)
                   /\ cfg.deny_set = IF DefaultsAppended THEN own \o DefaultDenySet ELSE own
    BY DEF SameCalls
  <1>4. Pairs(cfg.allow_set, allow)
    BY DEF SameCalls
  <1> DEFINE shipped == IF DefaultsAppended THEN Len(GoDefaultDenySet) ELSE 0
  <1>5. Skipped = (((Len(deny) + Len(allow)) + shipped) - Len(cfg.deny_set)) - Len(cfg.allow_set)
    BY DEF Skipped, DefaultsAppended
  <1> HIDE DEF deny, allow, texts
  <1>6. own \in Seq(CidrRange) /\ Len(own) \in Nat /\ Len(cfg.allow_set) \in Nat
        /\ Len(own) <= Len(deny) /\ Len(cfg.allow_set) <= Len(allow)
        /\ Len(deny) \in Nat /\ Len(allow) \in Nat
    BY <1>1, <1>2, <1>3, <1>4 DEF Pairs
  <1>7. Len(cfg.deny_set) = Len(own) + shipped /\ shipped \in Nat
    <2>1. CASE DefaultsAppended
      <3>1. /\ DefaultDenySet \in Seq(CidrRange) /\ GoDefaultDenySet \in Seq(GoRange)
            /\ Len(GoDefaultDenySet) = Len(DefaultDenySet)
        BY ParsedTexts, ShippedAlike
      <3>2. Len(own \o DefaultDenySet) = Len(own) + Len(DefaultDenySet)
        BY ONLY <1>6, <3>1
      <3> QED BY <1>3, <2>1, <3>1, <3>2
    <2>2. CASE ~ DefaultsAppended
      BY <1>3, <1>6, <2>2
    <2> QED BY <2>1, <2>2
  <1> HIDE DEF shipped
  <1>8. Skipped = 0 <=> Len(own) = Len(deny) /\ Len(cfg.allow_set) = Len(allow)
    BY <1>5, <1>6, <1>7
  <1>9. /\ Len(own) = Len(deny) <=> \A i \in 1 .. Len(texts) : ParsesLoose(texts[i])
        /\ Len(cfg.allow_set) = Len(allow) <=> \A i \in 1 .. Len(allow) : ParsesLoose(allow[i])
    BY <1>2, <1>3, <1>4 DEF Pairs
  <1> QED BY <1>8, <1>9, GoParsesIs DEF deny, allow, texts

\* Policies alike answer with the same reason.
LEMMA VerdictsAlike ==
  ASSUME NEW p, NEW c \in Config, AlikePolicies(p, c), NEW ips \in Seq(IpAddr)
  PROVE  GoNetworkVerdict(p, ips).reason = IsNetworkAllowed(c, ips).reason
  <1>1. \A i \in DOMAIN ips : ips[i] \in IpAddr
    OBVIOUS
  <1>2. \A i \in DOMAIN ips : /\ GoInSet(p.allowSet, ips[i]) <=> InSet(c.allow_set, ips[i])
                              /\ GoInSet(p.denySet, ips[i]) <=> InSet(c.deny_set, ips[i])
    BY <1>1 DEF AlikePolicies
  <1>3. p.preset = c.preset /\ c.preset \in Presets
    BY DEF AlikePolicies, Config
  <1>4. CASE ips = <<>>
    BY <1>4 DEF GoNetworkVerdict, IsNetworkAllowed
  <1>5. CASE ips # <<>> /\ c.preset = "None"
    BY <1>3, <1>5 DEF GoNetworkVerdict, IsNetworkAllowed
  <1>6. CASE ips # <<>> /\ c.preset = "InternalOnly"
    <2>1. (\E i \in DOMAIN ips : ~ GoInSet(p.allowSet, ips[i]))
            <=> ~ \A i \in DOMAIN ips : InSet(c.allow_set, ips[i])
      BY <1>2
    <2>2. /\ GoNetworkVerdict(p, ips) = IF \E i \in DOMAIN ips : ~ GoInSet(p.allowSet, ips[i])
                                        THEN Blocked("NotInAllowList") ELSE Ok
          /\ IsNetworkAllowed(c, ips) = IF \A i \in DOMAIN ips : InSet(c.allow_set, ips[i])
                                        THEN Ok ELSE Blocked("NotInAllowList")
      BY <1>3, <1>6 DEF GoNetworkVerdict, IsNetworkAllowed, InternalOnlyVerdict
    <2> QED BY <2>1, <2>2
  <1>7. CASE ips # <<>> /\ c.preset = "ExternalOnly"
    <2> DEFINE goDenied == {i \in DOMAIN ips : /\ ~ GoInSet(p.allowSet, ips[i])
                                               /\ GoInSet(p.denySet, ips[i])}
               denied == {i \in DOMAIN ips : /\ ~ InSet(c.allow_set, ips[i])
                                             /\ InSet(c.deny_set, ips[i])}
    <2>1. goDenied = denied
      BY <1>2
    <2>2. /\ GoNetworkVerdict(p, ips) = GoExternalOnly(p, ips)
          /\ IsNetworkAllowed(c, ips) = ExternalOnlyVerdict(c, ips)
      BY <1>3, <1>7 DEF GoNetworkVerdict, IsNetworkAllowed
    <2>3. /\ \A cidr : BlockedByCidr(cidr).reason = "InDenyCidr"
          /\ Ok.reason = "Allowed"
      BY DEF BlockedByCidr, Ok
    <2>4. GoExternalOnly(p, ips).reason = IF goDenied = {} THEN "Allowed" ELSE "InDenyCidr"
      <3>1. CASE goDenied = {}
        BY <2>3, <3>1, Zenon DEF GoExternalOnly
      <3>2. CASE goDenied # {}
        <4>1. \E cidr : GoExternalOnly(p, ips) = BlockedByCidr(cidr)
          BY <3>2, Zenon DEF GoExternalOnly
        <4> QED BY <2>3, <3>2, <4>1
      <3> QED BY <3>1, <3>2
    <2>5. ExternalOnlyVerdict(c, ips).reason = IF denied = {} THEN "Allowed" ELSE "InDenyCidr"
      <3>1. CASE denied = {}
        BY <2>3, <3>1, Zenon DEF ExternalOnlyVerdict
      <3>2. CASE denied # {}
        <4>1. \E cidr : ExternalOnlyVerdict(c, ips) = BlockedByCidr(cidr)
          BY <3>2, Zenon DEF ExternalOnlyVerdict
        <4> QED BY <2>3, <3>2, <4>1
      <3> QED BY <3>1, <3>2
    <2> HIDE DEF goDenied, denied
    <2> QED BY <2>1, <2>2, <2>4, <2>5
  <1> QED BY <1>3, <1>4, <1>5, <1>6, <1>7 DEF Presets

\* A rule matches the same URLs on both sides.
LEMMA GoRuleIs ==
  ASSUME NEW rule \in UrlRuleArgs, NEW url
  PROVE  GoRuleMatches(rule, url) <=> RuleMatches(rule, url)
  <1>1. CASE rule.regex # {}
    BY <1>1 DEF GoRuleMatches, RuleMatches
  <1>2. CASE rule.regex = {}
    <2>1. \A s, t \in rule.scheme : s = t
      BY CallerAssumption
    <2>2. (\A s \in rule.scheme : url.scheme = {s}) <=> rule.scheme = {} \/ rule.scheme = url.scheme
      <3>1. CASE rule.scheme = {}
        BY <3>1
      <3>2. ASSUME NEW s \in rule.scheme
            PROVE  (\A t \in rule.scheme : url.scheme = {t}) <=> rule.scheme = url.scheme
        <4>1. rule.scheme = {s}
          BY <2>1
        <4> QED BY <4>1
      <3> QED BY <3>1, <3>2
    <2> QED BY <1>2, <2>2 DEF GoRuleMatches, RuleMatches, MatchesParts
  <1> QED BY <1>1, <1>2

\* Policies alike come to the same decision on a URL.
LEMMA UrlsAlike ==
  ASSUME TypeOK, RulesReady, phase = "built", NEW p, AlikePolicies(p, cfg), NEW url
  PROVE  GoUrlDecision(p, url) = UrlRulesDecision(cfg, url)
  <1> DEFINE allow == p.ruleset.allow
             deny  == p.ruleset.deny
             rs    == cfg.url_ruleset
             hits(rules) == {i \in DOMAIN rules : GoRuleMatches(rules[i], url)}
             found == hits(allow)
             first == CHOOSE i \in found : \A j \in found : i <= j
  <1>1. /\ allow = rs.allow /\ deny = rs.deny
    BY DEF AlikePolicies
  <1>2. allow \in Seq(UrlRuleArgs) /\ deny \in Seq(UrlRuleArgs)
    BY <1>1 DEF TypeOK, Config, Ruleset
  <1>3. ASSUME NEW rules \in Seq(UrlRuleArgs)
        PROVE  hits(rules) = {i \in 1 .. Len(rules) : RuleMatches(rules[i], url)}
    <2>1. DOMAIN rules = 1 .. Len(rules) /\ \A i \in 1 .. Len(rules) : rules[i] \in UrlRuleArgs
      OBVIOUS
    <2> QED BY <2>1, GoRuleIs
  <1>4. ASSUME NEW rules \in Seq(UrlRuleArgs) PROVE AnyMatches(rules, url) <=> hits(rules) # {}
    <2>1. DOMAIN rules = 1 .. Len(rules)
      OBVIOUS
    <2> QED BY <1>3, <2>1 DEF AnyMatches
  <1>5. GoUrlDecision(p, url) =
          IF hits(deny) # {} THEN "Denied"
          ELSE IF allow = <<>> THEN "NoMatch"
          ELSE IF found = {} THEN "Denied"
          ELSE IF allow[first].bypass_ip_check THEN "AllowedBypassIp" ELSE "Allowed"
    BY DEF GoUrlDecision
  <1>6. CASE rs.allow = <<>> /\ rs.deny = <<>>
    <2>1. UrlRulesDecision(cfg, url) = "NoMatch"
      BY <1>6 DEF UrlRulesDecision, RulesetIsEmpty
    <2>2. hits(deny) = {}
      BY <1>1, <1>6
    <2> QED BY <1>1, <1>5, <1>6, <2>1, <2>2
  <1>7. CASE /\ rs.compiled_allow = rs.allow /\ rs.compiled_deny = rs.deny
             /\ ~ RulesetIsEmpty(rs)
    <2>1. UrlRulesDecision(cfg, url) =
            IF AnyMatches(deny, url) THEN "Denied"
            ELSE IF allow = <<>> THEN "NoMatch"
            ELSE IF ~ AnyMatches(allow, url) THEN "Denied"
            ELSE IF FirstAllow(allow, url).bypass_ip_check
                 THEN "AllowedBypassIp" ELSE "Allowed"
      BY <1>1, <1>7 DEF UrlRulesDecision, Evaluate
    <2>2. AnyMatches(allow, url) => FirstAllow(allow, url) = allow[first]
      <3> SUFFICES ASSUME AnyMatches(allow, url) PROVE FirstAllow(allow, url) = allow[first]
        OBVIOUS
      <3> HIDE DEF allow
      <3>1. PICK k \in 1 .. Len(allow) :
               /\ FirstAllow(allow, url) = allow[k]
               /\ RuleMatches(allow[k], url)
               /\ \A j \in 1 .. Len(allow) : RuleMatches(allow[j], url) => k <= j
        BY <1>2, FirstAllowIs
      <3>2. found = {i \in 1 .. Len(allow) : RuleMatches(allow[i], url)}
        BY <1>2, <1>3
      <3> HIDE DEF hits, found, first
      <3>3. k \in found /\ k \in Nat /\ \A j \in found : k <= j /\ j \in Nat
        BY <3>1, <3>2
      <3>4. first \in found /\ \A j \in found : first <= j
        BY <3>3, Zenon DEF first
      <3>5. first = k
        BY <3>3, <3>4
      <3> QED BY <3>1, <3>5
    <2>3. /\ AnyMatches(deny, url) <=> hits(deny) # {}
          /\ AnyMatches(allow, url) <=> found # {}
      BY <1>2, <1>4
    <2> HIDE DEF hits, found, first, allow, deny
    <2> QED BY <1>5, <2>1, <2>2, <2>3
  <1> QED BY <1>6, <1>7, RulesInForce

\* Both sinks are told the same when the policy is made.
LEMMA CreatedAlike ==
  ASSUME NEW p, NEW c, AlikePolicies(p, c), c.has_sink
  PROVE  PolicyCreated(c) = <<GoPolicyCreated(p)>>
  BY DEF AlikePolicies, PolicyCreated, GoPolicyCreated

\* An event more leaves the first event first.
LEMMA FirstEventStays ==
  ASSUME NEW S, NEW s \in Seq(S), NEW event
  PROVE  /\ \E T : Append(s, event) \in Seq(T)
         /\ Append(s, event) # <<>>
         /\ s # <<>> => Append(s, event)[1] = s[1]
         /\ s = <<>> => Append(s, event)[1] = event
  <1> DEFINE T == S \cup {event}
  <1>1. s \in Seq(T) /\ event \in T
    OBVIOUS
  <1> HIDE DEF T
  <1>2. Append(s, event) \in Seq(T)
    BY <1>1
  <1>3. /\ Append(s, event) # <<>>
        /\ s # <<>> => Append(s, event)[1] = s[1]
        /\ s = <<>> => Append(s, event)[1] = event
    <2>1. /\ Len(Append(s, event)) = Len(s) + 1 /\ Len(s) \in Nat
          /\ \A i \in 1 .. Len(s) : Append(s, event)[i] = s[i]
          /\ Append(s, event)[Len(s) + 1] = event
      BY ONLY <1>1, AppendProperties
    <2>2. s # <<>> => 1 \in 1 .. Len(s)
      BY ONLY <1>1
    <2>3. Len(<<>>) = 0
      OBVIOUS
    <2>4. s = <<>> => Append(s, event)[1] = event
      OBVIOUS
    <2>5. Append(s, event) # <<>>
      BY ONLY <2>1, <2>3
    <2>6. s # <<>> => Append(s, event)[1] = s[1]
      BY ONLY <2>1, <2>2
    <2> QED BY <2>4, <2>5, <2>6
  <1> QED BY <1>2, <1>3

\* A builder call leaves both engines where they stand.
LEMMA ConfigureKeeps ==
  ASSUME BothConfigure
  PROVE  /\ goPhase = "building" /\ phase' = phase /\ goPhase' = goPhase
         /\ audit' = audit /\ answer' = answer
         /\ goEvents' = goEvents /\ goAnswer' = goAnswer
  <1> DEFINE Kept == /\ goPhase = "building" /\ phase' = phase /\ goPhase' = goPhase
                     /\ audit' = audit /\ answer' = answer
                     /\ goEvents' = goEvents /\ goAnswer' = goAnswer
  <1>1. ASSUME NEW texts \in TextLists,
               \/ AddDenied(texts) /\ AddDeniedCIDRs(texts)
               \/ AddAllowed(texts) /\ AddAllowedCIDRs(texts)
        PROVE  Kept
    BY <1>1 DEF AddDenied, AddAllowed, BuilderCall, AddDeniedCIDRs, AddAllowedCIDRs, GoCall
  <1>2. ASSUME NEW written \in DOMAIN ToLower, AddCloudProviderDenies(written),
               WithCloudDeny(ToLower[written], CloudTexts[ToLower[written]])
        PROVE  Kept
    BY <1>2 DEF WithCloudDeny, BuilderCall, AddCloudProviderDenies, GoCall
  <1>3. ASSUME NEW written \in DOMAIN ToLower, IgnoreCloudProvider(written), UNCHANGED vars
        PROVE  Kept
    BY <1>3 DEF IgnoreCloudProvider, GoCall, vars
  <1>4. ASSUME NEW rule \in UrlRuleArgs,
               \/ UrlAllow(rule) /\ AddURLAllow(rule)
               \/ UrlDeny(rule) /\ AddURLDeny(rule)
        PROVE  Kept
    BY <1>4 DEF UrlAllow, UrlDeny, AddURLAllow, AddURLDeny, BuilderCall, GoCall
  <1>5. ASSUME SetAuditSink, GoSetAuditSink PROVE Kept
    BY <1>5 DEF SetAuditSink, GoSetAuditSink, BuilderCall, GoCall
  <1> QED BY <1>1, <1>2, <1>3, <1>4, <1>5 DEF BothConfigure

\* Where the two engines stand, in every state.
LEMMA SamePhaseStep ==
  TypeOK /\ SameCalls /\ SamePhase /\ [BothNext]_bothVars => SamePhase'
  <1> SUFFICES ASSUME TypeOK, SameCalls, SamePhase, [BothNext]_bothVars PROVE SamePhase'
    OBVIOUS
  <1>1. ASSUME BothConfigure PROVE SamePhase'
    <2>1. /\ phase = "building" /\ phase' = "building" /\ goPhase' = goPhase
          /\ audit' = audit /\ goEvents' = goEvents
      BY <1>1, ConfigureKeeps DEF SamePhase
    <2> QED BY <2>1 DEF SamePhase
  <1>2. ASSUME BothBuild PROVE SamePhase'
    <2>1. /\ phase = "building" /\ phase' = "built"
          /\ cfg' = Finalised(cfg) /\ audit' = audit \o PolicyCreated(Finalised(cfg))
          /\ goBuilder' = goBuilder
      BY <1>2 DEF BothBuild, Build, GoBuild, GoBuildFails
    <2>2. audit = <<>> /\ goEvents = <<>>
      BY <2>1 DEF SamePhase
    <2>3. audit' = PolicyCreated(cfg)'
      <3>1. PolicyCreated(Finalised(cfg)) \in Seq(Event)
        BY FinalisedType, EventType DEF TypeOK
      <3>2. audit' = PolicyCreated(cfg')
        BY ONLY <2>1, <2>2, <3>1
      <3> QED BY <3>2 DEF PolicyCreated
    <2>4. GoTextsParse(goBuilder)' <=> GoTextsParse(goBuilder)
      BY <2>1 DEF GoTextsParse
    <2>5. CASE GoBuild
      <3>1. /\ goPhase' = "built" /\ GoTextsParse(goBuilder)
            /\ goPolicy' = GoBuilt(goBuilder)
            /\ goEvents' = IF goBuilder.sink THEN Append(goEvents, GoPolicyCreated(goPolicy'))
                           ELSE goEvents
        BY <2>5 DEF GoBuild
      <3>2. goPolicy' = GoBuilt(goBuilder)'
        BY <2>1, <3>1
      <3>3. (GoPolicyCreated(goPolicy))' = GoPolicyCreated(goPolicy')
        BY DEF GoPolicyCreated
      <3> DEFINE event == GoPolicyCreated(goPolicy')
      <3> HIDE DEF event
      <3>4. /\ \E S : goEvents' \in Seq(S)
            /\ goEvents' # <<>> => goBuilder'.sink /\ goEvents'[1] = event
        <4>1. <<>> \in Seq({})
          OBVIOUS
        <4>2. /\ \E S : Append(<<>>, event) \in Seq(S)
              /\ Append(<<>>, event)[1] = event
          BY <4>1, FirstEventStays
        <4> QED BY <2>1, <2>2, <3>1, <4>1, <4>2 DEF event
      <3> QED BY <2>1, <2>3, <2>4, <3>1, <3>2, <3>3, <3>4 DEF SamePhase, event
    <2>6. CASE GoBuildFails
      <3>1. /\ goPhase' = "refused" /\ ~ GoTextsParse(goBuilder) /\ goEvents' = goEvents
        BY <2>6 DEF GoBuildFails
      <3> QED BY <2>1, <2>2, <2>3, <2>4, <3>1 DEF SamePhase
    <2> QED BY <1>2, <2>5, <2>6 DEF BothBuild
  <1>3. ASSUME BothAsk PROVE SamePhase'
    <2>1. /\ phase = "built" /\ phase' = "built" /\ cfg' = cfg /\ audit' = audit
          /\ goPhase = "built" /\ goPhase' = "built" /\ goBuilder' = goBuilder
          /\ goPolicy' = goPolicy
      BY <1>3 DEF BothAsk, AskNetwork, Ask, GoAskNetwork
    <2>2. \E event : goEvents' = IF goBuilder.sink THEN Append(goEvents, event) ELSE goEvents
      BY <1>3 DEF BothAsk, GoAskNetwork
    <2>3. /\ \E S : goEvents' \in Seq(S)
          /\ goBuilder.sink => goEvents' # <<>>
          /\ goEvents' # <<>> => goBuilder.sink /\ goEvents'[1] = GoPolicyCreated(goPolicy)
      <3>1. PICK event : goEvents' = IF goBuilder.sink THEN Append(goEvents, event) ELSE goEvents
        BY <2>2
      <3>2. PICK S : goEvents \in Seq(S)
        BY DEF SamePhase
      <3>3. goBuilder.sink => goEvents # <<>>
        BY <2>1 DEF SamePhase
      <3>4. goEvents # <<>> => goBuilder.sink /\ goEvents[1] = GoPolicyCreated(goPolicy)
        BY DEF SamePhase
      <3> QED BY <3>1, <3>2, <3>3, <3>4, FirstEventStays
    <2>4. /\ GoTextsParse(goBuilder)' <=> GoTextsParse(goBuilder)
          /\ PolicyCreated(cfg)' = PolicyCreated(cfg)
          /\ (GoPolicyCreated(goPolicy))' = GoPolicyCreated(goPolicy)
          /\ GoBuilt(goBuilder)' = GoBuilt(goBuilder)
      BY <2>1 DEF GoTextsParse, PolicyCreated, GoPolicyCreated
    <2> QED BY <2>1, <2>3, <2>4 DEF SamePhase
  <1>4. CASE UNCHANGED bothVars
    <2>1. /\ phase' = phase /\ cfg' = cfg /\ audit' = audit /\ goPhase' = goPhase
          /\ goBuilder' = goBuilder /\ goPolicy' = goPolicy /\ goEvents' = goEvents
      BY <1>4 DEF bothVars, vars, goVars
    <2>2. /\ GoTextsParse(goBuilder)' <=> GoTextsParse(goBuilder)
          /\ PolicyCreated(cfg)' = PolicyCreated(cfg)
          /\ (GoPolicyCreated(goPolicy))' = GoPolicyCreated(goPolicy)
          /\ GoBuilt(goBuilder)' = GoBuilt(goBuilder)
      BY <2>1 DEF GoTextsParse, PolicyCreated, GoPolicyCreated
    <2> QED BY <2>1, <2>2 DEF SamePhase
  <1> QED BY <1>1, <1>2, <1>3, <1>4 DEF BothNext

\* Both engines answer with the same reason, in every state.
LEMMA SameAnswerStep ==
  TypeOK /\ SameCalls /\ SamePhase /\ SameAnswer /\ [BothNext]_bothVars => SameAnswer'
  <1> SUFFICES ASSUME TypeOK, SameCalls, SamePhase, SameAnswer, [BothNext]_bothVars
               PROVE  SameAnswer'
    OBVIOUS
  <1>1. ASSUME answer' = answer, goAnswer' = goAnswer PROVE SameAnswer'
    BY <1>1 DEF SameAnswer
  <1>2. ASSUME BothConfigure PROVE SameAnswer'
    BY <1>1, <1>2, ConfigureKeeps DEF SamePhase
  <1>3. ASSUME BothBuild PROVE SameAnswer'
    BY <1>1, <1>3 DEF BothBuild, Build, GoBuild, GoBuildFails
  <1>4. ASSUME BothAsk PROVE SameAnswer'
    <2>1. PICK ips \in IpLists : AskNetwork(ips) /\ GoAskNetwork(ips)
      BY <1>4 DEF BothAsk
    <2>2. /\ phase = "built" /\ goPhase = "built"
          /\ answer'.verdict = IsNetworkAllowed(cfg, ips)
          /\ goAnswer' = GoNetworkVerdict(goPolicy, ips)
      BY <2>1 DEF AskNetwork, Ask, GoAskNetwork
    <2>3. GoTextsParse(goBuilder) /\ goPolicy = GoBuilt(goBuilder)
      BY <2>2 DEF SamePhase
    <2>4. AlikePolicies(goPolicy, cfg)
      BY <2>2, <2>3, BuiltAlike
    <2>5. cfg \in Config /\ ips \in Seq(IpAddr)
      BY CallerAssumption DEF TypeOK
    <2>6. GoNetworkVerdict(goPolicy, ips).reason = IsNetworkAllowed(cfg, ips).reason
      BY <2>4, <2>5, VerdictsAlike
    <2> QED BY <2>2, <2>6 DEF SameAnswer
  <1>5. CASE UNCHANGED bothVars
    BY <1>1, <1>5 DEF bothVars, vars, goVars
  <1> QED BY <1>2, <1>3, <1>4, <1>5 DEF BothNext

\* The two engines side by side: the same calls, the same stage, the same answers.
SideBySide == SameCalls /\ SamePhase /\ SameAnswer

\* They stay side by side.
LEMMA SideBySideHolds == BothSpec => []SideBySide
  <1>1. BothInit => SideBySide
    <2> SUFFICES ASSUME BothInit PROVE SideBySide
      OBVIOUS
    <2>1. PICK preset \in Presets : cfg = NewBuilder(preset)
      BY DEF BothInit, Init
    <2>2. /\ phase = "building" /\ audit = <<>> /\ answer = NoAnswer
          /\ goPhase = "building" /\ goEvents = <<>>
          /\ goBuilder = [preset |-> cfg.preset, denyCIDRs |-> <<>>, allowCIDRs |-> <<>>,
                          cloudModules |-> <<>>, sink |-> FALSE,
                          ruleset |-> [allow |-> <<>>, deny |-> <<>>]]
      BY DEF BothInit, Init, GoInit
    <2>3. /\ cfg.preset = preset /\ cfg.deny_set = <<>> /\ cfg.allow_set = <<>>
          /\ cfg.cloud_modules = <<>> /\ cfg.has_sink = FALSE
          /\ cfg.url_ruleset.allow = <<>> /\ cfg.url_ruleset.deny = <<>>
      BY <2>1 DEF NewBuilder, EmptyRuleset
    <2>4. Pairs(<<>>, <<>>)
      <3>1. <<>> \in Seq(CidrRange) /\ <<>> \in Seq(CidrText) /\ Len(<<>>) = 0
        OBVIOUS
      <3>2. \A ip : ~ InSet(<<>>, ip)
        BY DEF InSet, Matches
      <3> QED BY <3>1, <3>2 DEF Pairs
    <2>5. goBuilder \in GoBuilder
      <3> DEFINE E == Seq(GoEntry)
                 T == Seq(CidrText)
                 N == Seq(CloudNames)
                 R == GoRules
      <3>1. <<>> \in E /\ <<>> \in T /\ <<>> \in N
        OBVIOUS
      <3>2. [allow |-> <<>>, deny |-> <<>>] \in R
        BY DEF GoRules
      <3> HIDE DEF E, T, N, R
      <3>3. goBuilder \in [preset : Presets, denyCIDRs : E, allowCIDRs : T, cloudModules : N,
                           sink : BOOLEAN, ruleset : R]
        BY <2>2, <2>3, <3>1, <3>2
      <3> QED BY <3>3 DEF GoBuilder, E, T, N, R
    <2>6. DenyTexts(goBuilder) = <<>>
      <3>1. goBuilder.denyCIDRs = <<>>
        BY <2>2
      <3> QED BY <3>1 DEF DenyTexts
    <2>7. ~ DefaultsAppended
      BY <2>2 DEF DefaultsAppended
    <2>8. SameCalls
      <3>1. \E own : /\ Pairs(own, DenyTexts(goBuilder))
                     /\ cfg.deny_set = IF DefaultsAppended THEN own \o DefaultDenySet ELSE own
        BY <2>3, <2>4, <2>6, <2>7
      <3>2. /\ goBuilder.preset = cfg.preset /\ goBuilder.cloudModules = <<>>
            /\ goBuilder.sink = FALSE /\ goBuilder.allowCIDRs = <<>>
            /\ goBuilder.ruleset.allow = <<>> /\ goBuilder.ruleset.deny = <<>>
        BY <2>2
      <3> QED BY <2>3, <2>4, <2>5, <3>1, <3>2 DEF SameCalls
    <2>9. SamePhase
      <3>1. <<>> \in Seq({})
        OBVIOUS
      <3> QED BY <2>2, <3>1 DEF SamePhase
    <2>10. SameAnswer
      BY <2>2 DEF SameAnswer, NoAnswer
    <2> QED BY <2>8, <2>9, <2>10 DEF SideBySide
  <1>2. TypeOK /\ SideBySide /\ [BothNext]_bothVars => SideBySide'
    BY SameCallsStep, SamePhaseStep, SameAnswerStep DEF SideBySide
  <1>3. BothSpec => []TypeOK
    BY BothRunsRust, TypeCorrect, PTL
  <1> QED BY <1>1, <1>2, <1>3, PTL DEF BothSpec

\* The Go engine gives a policy exactly when the Rust engine skipped no text,
\* and then the two decide alike.
THEOREM EnginesDecideAlike == BothSpec => []EnginesAgree
  <1>1. TypeOK /\ RulesReady /\ SideBySide => EnginesAgree
    <2> SUFFICES ASSUME TypeOK, RulesReady, SideBySide, phase = "built" PROVE EnginesAgree
      BY DEF EnginesAgree
    <2>1. SameCalls /\ SamePhase /\ SameAnswer
      BY DEF SideBySide
    <2>2. goPhase = "built" <=> Skipped = 0
      BY <2>1, SkippedIs DEF SamePhase
    <2>3. ASSUME goPhase = "built" PROVE AlikePolicies(goPolicy, cfg)
      <3>1. GoTextsParse(goBuilder) /\ goPolicy = GoBuilt(goBuilder)
        BY <2>1, <2>3 DEF SamePhase
      <3> QED BY <2>1, <3>1, BuiltAlike
    <2>4. ASSUME goPhase = "built", NEW ip \in IpAddr
          PROVE  Passed(GoNetworkVerdict(goPolicy, <<ip>>))
                   <=> Passed(IsNetworkAllowed(cfg, <<ip>>))
      <3>1. cfg \in Config /\ <<ip>> \in Seq(IpAddr)
        BY DEF TypeOK
      <3> QED BY <2>3, <2>4, <3>1, VerdictsAlike DEF Passed
    <2>5. ASSUME goPhase = "built", NEW url
          PROVE  GoUrlDecision(goPolicy, url) = UrlRulesDecision(cfg, url)
      BY <2>3, <2>5, UrlsAlike
    <2>6. ASSUME goPhase = "built", goEvents # <<>> PROVE audit = <<goEvents[1]>>
      <3>1. /\ audit = PolicyCreated(cfg) /\ goBuilder.sink
            /\ goEvents[1] = GoPolicyCreated(goPolicy) /\ cfg.has_sink
        BY <2>1, <2>6 DEF SamePhase, SameCalls
      <3> QED BY <2>3, <2>6, <3>1, CreatedAlike
    <2> QED BY <2>1, <2>2, <2>4, <2>5, <2>6 DEF EnginesAgree, SameAnswer
  <1>2. BothSpec => [](TypeOK /\ RulesReady)
    BY BothRunsRust, TypeCorrect, RulesReadyHolds, PTL
  <1> QED BY <1>1, <1>2, SideBySideHolds, PTL
-----------------------------------------------------------------------------
\* The octets of an IPv4 address are the last ones.
V4Part(octets) == SubSeq(octets, Octets - V4Octets + 1, Octets)

\* The positions of the octets before them.
Front == 1 .. (Octets - V4Octets)

\* The IPv4 part has V4Octets octets, the last ones of the address in order.
LEMMA PartIs ==
  ASSUME NEW a \in [1 .. Octets -> Octet]
  PROVE  /\ DOMAIN V4Part(a) = 1 .. V4Octets
         /\ \A i \in 1 .. V4Octets : V4Part(a)[i] = a[(Octets - V4Octets) + i]
  <1>1. Octets \in Nat /\ V4Octets \in 1 .. Octets
    BY CidrAssumption
  <1>2. a \in Seq(Octet) /\ Len(a) = Octets
    BY <1>1
  <1>3. Octets - V4Octets + 1 \in 1 .. (Octets + 1)
    BY <1>1
  <1>4. (Octets - (Octets - V4Octets + 1)) + 1 = V4Octets
    BY <1>1
  <1>5. /\ SubSeq(a, Octets - V4Octets + 1, Octets) \in Seq(Octet)
        /\ Len(SubSeq(a, Octets - V4Octets + 1, Octets)) = V4Octets
        /\ \A i \in 1 .. V4Octets :
              SubSeq(a, Octets - V4Octets + 1, Octets)[i] = a[(Octets - V4Octets) + i]
    BY <1>1, <1>2
  <1> QED BY <1>5 DEF V4Part

\* A bit of the IPv4 part stands V4Shift places further in the whole address.
LEMMA PartPlace ==
  ASSUME NEW i \in 1 .. V4Octets, NEW k \in Ones
  PROVE  /\ Place((Octets - V4Octets) + i, k) = V4Shift + Place(i, k)
         /\ Place(i, k) \in Nat
         /\ (Octets - V4Octets) + i \in 1 .. Octets
  <1>1. OctetBits \in Nat /\ Octets \in Nat /\ V4Octets \in 1 .. Octets /\ k \in Nat
    BY CidrAssumption DEF Ones
  <1> DEFINE s == Octets - V4Octets
             m == i - 1
  <1>2. s \in Nat /\ m \in Nat /\ (s + i) - 1 = s + m
    BY <1>1
  <1> HIDE DEF s, m
  <1>3. OctetBits * (s + m) = OctetBits * s + OctetBits * m
    BY <1>1, <1>2
  <1>4. OctetBits * s \in Nat /\ OctetBits * m \in Nat
    BY <1>1, <1>2
  <1>5. Place(s + i, k) = (OctetBits * s + OctetBits * m) + k
    BY <1>2, <1>3 DEF Place
  <1>6. Place(i, k) = OctetBits * m + k
    BY DEF Place, m
  <1>7. V4Shift = OctetBits * s
    BY Sizes DEF s
  <1>8. Place(s + i, k) = V4Shift + Place(i, k)
    BY <1>1, <1>4, <1>5, <1>6, <1>7
  <1>9. s + i \in 1 .. Octets
    BY <1>1 DEF s
  <1> QED BY <1>1, <1>4, <1>6, <1>8, <1>9 DEF s

\* The bits of the octets in front are the first V4Shift.
LEMMA FrontPlace ==
  ASSUME NEW i \in Front, NEW k \in Ones
  PROVE  Place(i, k) <= V4Shift /\ Place(i, k) \in Nat /\ i \in 1 .. Octets
  <1>1. OctetBits \in Nat /\ Octets \in Nat /\ V4Octets \in 1 .. Octets
    BY CidrAssumption
  <1>2. i \in Nat \ {0} /\ i <= Octets - V4Octets /\ Octets - V4Octets \in Nat
    BY <1>1 DEF Front
  <1>3. OctetBits * i <= OctetBits * (Octets - V4Octets)
    BY <1>1, <1>2, TimesGrows
  <1>4. V4Shift = OctetBits * (Octets - V4Octets) /\ V4Shift \in Nat
    BY Sizes
  <1>5. Place(i, k) \in Nat /\ Place(i, k) <= OctetBits * i /\ OctetBits * i \in Nat
    BY <1>1, <1>2, PlaceBounds
  <1>6. i \in 1 .. Octets
    BY <1>1, <1>2
  <1> QED BY <1>3, <1>4, <1>5, <1>6

\* A masked range that reads as a mapped address fixes all the bits in front.
LEMMA MappedPrefix ==
  ASSUME NEW range \in GoRange, Is4In6(range.addr)
  PROVE  V4Shift <= range.bits
  <1>1. OctetBits \in Nat \ {0} /\ Octets \in Nat /\ V4Octets \in 1 .. Octets
        /\ MappedOnes \in 0 .. (Octets - V4Octets) /\ MappedOnes # 0
    BY CidrAssumption, GoAssumption
  <1> DEFINE last == Octets - V4Octets
  <1>2. last \in Nat \ {0} /\ last \in Front /\ ~ (last <= last - MappedOnes)
    BY <1>1 DEF Front
  <1>3. range.addr[last] = Ones
    BY <1>2 DEF Is4In6, Front
  <1>4. OctetBits \in Ones
    BY <1>1 DEF Ones
  <1>5. Place(last, OctetBits) <= range.bits
    <2>1. last \in 1 .. Octets
      BY <1>2, <1>4, FrontPlace
    <2> HIDE DEF last
    <2> QED BY <1>3, <1>4, <2>1 DEF GoRange
  <1>6. Place(last, OctetBits) = V4Shift
    <2> DEFINE m == last - 1
    <2>1. m \in Nat /\ last = m + 1
      BY <1>2
    <2>2. V4Shift = OctetBits * last
      BY Sizes
    <2> HIDE DEF last, m
    <2>3. OctetBits * (m + 1) = OctetBits * m + OctetBits
      BY <1>1, <2>1
    <2>4. Place(last, OctetBits) = OctetBits * m + OctetBits
      BY DEF Place, m
    <2> QED BY <2>1, <2>2, <2>3, <2>4
  <1> QED BY <1>5, <1>6

\* The native prefix of a range covers what the range covers, and is a prefix of
\* its own family.
LEMMA NativeIs ==
  ASSUME NEW range \in GoRange
  PROVE  LET p == NativePrefix(range)
         IN /\ p.bits \in 0 .. (IF p.fam = "v4" THEN V4Bits ELSE V6Bits)
            /\ \A ip \in IpAddr : GoContains(range, ip) <=> NativeCovers(p, ip)
  <1> DEFINE p == NativePrefix(range)
             a == range.addr
             n == range.bits
  <1>1. a \in [1 .. Octets -> Octet] /\ n \in 0 .. V6Bits
    BY DEF GoRange, GoFields
  <1>2. V6Bits \in Nat /\ V4Bits \in Nat /\ V4Shift \in Nat /\ V4Shift = V6Bits - V4Bits
    BY Sizes DEF V4Shift
  <1>3. CASE ~ Is4In6(a)
    <2>1. p = [fam |-> "v6", octets |-> a, bits |-> n]
      BY <1>3 DEF NativePrefix
    <2>2. p.fam # "v4" /\ p.octets = a /\ p.bits = n
      BY <2>1
    <2> HIDE DEF p
    <2>3. \A ip : GoContains(range, ip) <=> NativeCovers(p, ip)
      BY <2>2 DEF GoContains, NativeCovers
    <2> QED BY <1>1, <2>2, <2>3 DEF p
  <1>4. CASE Is4In6(a)
    <2>1. p = [fam |-> "v4", octets |-> V4Part(a), bits |-> n - V4Shift]
      BY <1>4 DEF NativePrefix, V4Part
    <2>2. p.fam = "v4" /\ p.octets = V4Part(a) /\ p.bits = n - V4Shift
      BY <2>1
    <2>3. V4Shift <= n
      BY <1>4, MappedPrefix
    <2>4. p.bits \in 0 .. V4Bits
      BY <1>1, <1>2, <2>2, <2>3
    <2> HIDE DEF p
    <2>5. ASSUME NEW ip \in IpAddr
          PROVE  GoContains(range, ip) <=> NativeCovers(p, ip)
      <3> DEFINE b == Normalized(ip)
      <3>1. b \in [1 .. Octets -> Octet]
        BY NormalType
      <3> HIDE DEF a, n, b
      <3>2. GoContains(range, ip) <=>
              \A i \in 1 .. Octets, k \in Ones :
                 Place(i, k) <= n => (k \in a[i] <=> k \in b[i])
        <4>1. DOMAIN a = 1 .. Octets
          BY <1>1
        <4>2. GoContains(range, ip) <=> SharesBits(a, b, n)
          BY DEF GoContains, a, b, n
        <4> QED BY <4>1, <4>2 DEF SharesBits, Within, Place
      <3>3. NativeCovers(p, ip) <=>
              /\ Is4In6(b)
              /\ \A i \in 1 .. V4Octets, k \in Ones :
                    Place(i, k) <= n - V4Shift => (k \in V4Part(a)[i] <=> k \in V4Part(b)[i])
        <4>1. DOMAIN V4Part(a) = 1 .. V4Octets
          BY <1>1, PartIs
        <4>2. NativeCovers(p, ip) <=> Is4In6(b) /\ SharesBits(V4Part(a), V4Part(b), n - V4Shift)
          BY <2>2 DEF NativeCovers, b, V4Part
        <4> QED BY <4>1, <4>2 DEF SharesBits, Within, Place
      <3>4. ASSUME GoContains(range, ip) PROVE NativeCovers(p, ip)
        <4>1. ASSUME NEW i \in Front PROVE b[i] = a[i]
          <5>1. i \in 1 .. Octets
            <6>1. Octets \in Nat /\ V4Octets \in 1 .. Octets
              BY CidrAssumption
            <6> QED BY <6>1 DEF Front
          <5>2. \A k \in Ones : k \in a[i] <=> k \in b[i]
            <6>1. ASSUME NEW k \in Ones PROVE k \in a[i] <=> k \in b[i]
              <7>1. Place(i, k) <= V4Shift /\ Place(i, k) \in Nat
                BY FrontPlace
              <7>2. Place(i, k) <= n
                BY <1>1, <1>2, <2>3, <7>1
              <7> QED BY <3>2, <3>4, <5>1, <7>2
            <6> QED BY <6>1
          <5>3. a[i] \subseteq Ones /\ b[i] \subseteq Ones
            BY <1>1, <3>1, <5>1 DEF Octet, Ones
          <5> QED BY <5>2, <5>3
        <4>2. Is4In6(b)
          BY <1>4, <4>1 DEF Is4In6, Front
        <4>3. ASSUME NEW i \in 1 .. V4Octets, NEW k \in Ones, Place(i, k) <= n - V4Shift
              PROVE  k \in V4Part(a)[i] <=> k \in V4Part(b)[i]
          <5> DEFINE j == (Octets - V4Octets) + i
          <5>1. Place(j, k) = V4Shift + Place(i, k) /\ Place(i, k) \in Nat /\ j \in 1 .. Octets
            BY PartPlace
          <5>2. V4Part(a)[i] = a[j] /\ V4Part(b)[i] = b[j]
            BY <1>1, <3>1, PartIs
          <5> HIDE DEF j
          <5>3. Place(j, k) <= n
            BY <1>1, <1>2, <4>3, <5>1
          <5> QED BY <3>2, <3>4, <5>1, <5>2, <5>3
        <4> QED BY <3>3, <4>2, <4>3
      <3>5. ASSUME NativeCovers(p, ip) PROVE GoContains(range, ip)
        <4>1. ASSUME NEW i \in 1 .. Octets, NEW k \in Ones, Place(i, k) <= n
              PROVE  k \in a[i] <=> k \in b[i]
          <5>0. Octets \in Nat /\ V4Octets \in 1 .. Octets
            BY CidrAssumption
          <5>1. CASE i \in Front
            BY <1>4, <3>3, <3>5, <5>1 DEF Is4In6, Front
          <5>2. CASE i \notin Front
            <6> DEFINE m == i - (Octets - V4Octets)
            <6>1. m \in 1 .. V4Octets /\ i = (Octets - V4Octets) + m
              BY <5>0, <5>2 DEF Front
            <6> HIDE DEF m
            <6>2. Place(i, k) = V4Shift + Place(m, k) /\ Place(m, k) \in Nat
              BY <6>1, PartPlace
            <6>3. V4Part(a)[m] = a[i] /\ V4Part(b)[m] = b[i]
              BY <1>1, <3>1, <6>1, PartIs
            <6>4. Place(m, k) <= n - V4Shift
              BY <1>1, <1>2, <4>1, <6>2
            <6> QED BY <3>3, <3>5, <6>1, <6>3, <6>4
          <5> QED BY <5>1, <5>2
        <4> QED BY <3>2, <4>1
      <3> QED BY <3>4, <3>5
    <2> QED BY <2>2, <2>4, <2>5 DEF p
  <1> QED BY <1>3, <1>4

\* A list none of whose elements comes twice has as many elements as its range.
LEMMA LenIsCardinality ==
  ASSUME NEW S, NEW s \in Seq(S), NoneTwice(s)
  PROVE  Len(s) = Cardinality(Range(s))
  <1> DEFINE T == Range(s)
             n == Len(s)
  <1>1. n \in Nat /\ DOMAIN s = 1 .. n /\ s = [i \in 1 .. n |-> s[i]]
    OBVIOUS
  <1>2. T = {s[i] : i \in 1 .. n}
    BY <1>1 DEF Range
  <1>3. \A k, m \in 1 .. n : s[k] = s[m] => k = m
    BY DEF NoneTwice
  <1> HIDE DEF T, n
  <1>4. s \in [1 .. n -> T]
    BY <1>1, <1>2
  <1>5. s \in Bijection(1 .. n, T)
    BY <1>2, <1>3, <1>4 DEF Bijection, Injection, Surjection, IsInjective
  <1>6. ExistsBijection(1 .. n, T)
    BY <1>5 DEF ExistsBijection
  <1> QED BY <1>1, <1>6, FS_CountingElements DEF T, n

\* DenyPrefixes keeps each native prefix once.
LEMMA PrefixesAre ==
  ASSUME NEW p, p.denySet \in Seq(GoRange)
  PROVE  /\ Len(DenyPrefixes(p)) = Cardinality(Range(DenyPrefixes(p)))
         /\ Range(DenyPrefixes(p)) = {NativePrefix(p.denySet[i]) : i \in 1 .. Len(p.denySet)}
  <1> DEFINE ranges == p.denySet
             S      == {NativePrefix(range) : range \in GoRange}
             native == [i \in DOMAIN ranges |-> NativePrefix(ranges[i])]
             kept   == {i \in DOMAIN native : \A j \in 1 .. (i - 1) : native[j] # native[i]}
             out    == DenyPrefixes(p)
             n      == Len(ranges)
  <1>1. n \in Nat /\ DOMAIN ranges = 1 .. n /\ \A i \in 1 .. n : ranges[i] \in GoRange
    OBVIOUS
  <1>2. /\ DOMAIN native = 1 .. n /\ Len(native) = n
        /\ \A i \in 1 .. n : native[i] = NativePrefix(ranges[i])
    BY <1>1
  <1>3. out = KeepAt(native, kept)
    BY DEF DenyPrefixes
  <1>4. \A i \in 1 .. n : native[i] \in S
    BY <1>1, <1>2
  <1>5. \A i : i \in kept <=> i \in 1 .. n /\ \A j \in 1 .. (i - 1) : native[j] # native[i]
    BY <1>2
  <1> HIDE DEF native, kept, out, n, S
  <1>6. KeptFrom(S, native, kept, out, n)
    BY <1>1, <1>2, <1>3, <1>4, KeepAtIs
  <1>7. KeptDiffer(native, kept, n)
    <2> SUFFICES ASSUME NEW i \in 1 .. n, NEW j \in 1 .. n, i \in kept, j \in kept,
                        native[i] = native[j]
                 PROVE  i = j
      BY DEF KeptDiffer
    <2>1. i \notin 1 .. (j - 1) /\ j \notin 1 .. (i - 1)
      BY <1>5
    <2> QED BY <1>1, <2>1
  <1>8. out \in Seq(S) /\ NoneTwice(out)
    BY <1>6, <1>7 DEF KeptFrom
  <1>9. Len(out) = Cardinality(Range(out))
    BY <1>8, LenIsCardinality
  <1>10. DOMAIN out = 1 .. Len(out)
    BY <1>8
  <1>11. ASSUME NEW q \in Range(out) PROVE \E i \in 1 .. n : q = native[i]
    <2>1. PICK k \in 1 .. Len(out) : q = out[k]
      BY <1>10 DEF Range
    <2> QED BY <1>6, <2>1 DEF KeptFrom
  <1>12. ASSUME NEW i \in 1 .. n PROVE native[i] \in Range(out)
    <2> DEFINE same == {j \in 1 .. n : native[j] = native[i]}
    <2>1. same \in SUBSET Nat /\ same # {}
      BY <1>1
    <2>2. PICK j \in same : \A m \in same : j <= m
      BY <2>1, LeastNat
    <2>3. j \in kept
      <3>1. ASSUME NEW m \in 1 .. (j - 1) PROVE native[m] # native[j]
        <4>1. m \in 1 .. n /\ ~ (j <= m)
          BY <1>1, <2>2
        <4> QED BY <2>2, <4>1
      <3> QED BY <1>5, <2>2, <3>1
    <2>4. PICK k \in 1 .. Len(out) : out[k] = native[j]
      BY <1>6, <2>2, <2>3 DEF KeptFrom
    <2> QED BY <1>10, <2>2, <2>4 DEF Range
  <1>13. Range(out) = {NativePrefix(ranges[i]) : i \in 1 .. n}
    <2>1. Range(out) = {native[i] : i \in 1 .. n}
      BY <1>11, <1>12
    <2> QED BY <1>2, <2>1
  <1> QED BY <1>9, <1>13 DEF out, n

\* The native prefixes of the deny set cover what the set matches, in every state.
THEOREM DenyPrefixesBlockTheSame == BothSpec => []DenyPrefixesTellTheSet
  <1>1. SideBySide => DenyPrefixesTellTheSet
    <2> SUFFICES ASSUME SideBySide, goPhase = "built" PROVE DenyPrefixesTellTheSet
      BY DEF DenyPrefixesTellTheSet
    <2> DEFINE ranges == goPolicy.denySet
               out    == Range(DenyPrefixes(goPolicy))
    <2>1. ranges \in Seq(GoRange)
      <3>1. phase = "built" /\ GoTextsParse(goBuilder) /\ goPolicy = GoBuilt(goBuilder)
        BY DEF SideBySide, SamePhase
      <3> QED BY <3>1, BuiltAlike DEF SideBySide, AlikePolicies
    <2>2. /\ Len(DenyPrefixes(goPolicy)) = Cardinality(out)
          /\ out = {NativePrefix(ranges[i]) : i \in 1 .. Len(ranges)}
      BY <2>1, PrefixesAre
    <2>3. DOMAIN ranges = 1 .. Len(ranges) /\ \A i \in 1 .. Len(ranges) : ranges[i] \in GoRange
      BY <2>1
    <2> HIDE DEF out, ranges
    <2>4. ASSUME NEW p \in out
          PROVE  p.bits \in 0 .. (IF p.fam = "v4" THEN V4Bits ELSE V6Bits)
      BY <2>2, <2>3, NativeIs
    <2>5. ASSUME NEW ip \in IpAddr
          PROVE  GoInSet(ranges, ip) <=> \E p \in out : NativeCovers(p, ip)
      <3>1. \A i \in 1 .. Len(ranges) :
               GoContains(ranges[i], ip) <=> NativeCovers(NativePrefix(ranges[i]), ip)
        BY <2>3, NativeIs
      <3>2. GoInSet(ranges, ip) <=> \E i \in 1 .. Len(ranges) : GoContains(ranges[i], ip)
        BY <2>3 DEF GoInSet, GoMatches
      <3> QED BY <2>2, <3>1, <3>2
    <2> QED BY <2>2, <2>4, <2>5 DEF DenyPrefixesTellTheSet, out, ranges
  <1> QED BY <1>1, SideBySideHolds, PTL
=============================================================================
