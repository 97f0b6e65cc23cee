---------------------------- MODULE PolicyProofs ----------------------------
(***************************************************************************)
(* Proofs about what is only observed: the three lists of addresses nobody *)
(* may be sent to, and vpn-admin doctor.                                   *)
(*                                                                         *)
(* The lists are compared on every IPv4 and every IPv6 address: a range is *)
(* reduced to the octets or segments that decide it.                       *)
(*                                                                         *)
(* The doctor is judged on every host.  Each check is shown to fail for    *)
(* its own defects and no others; reports are appended, so the whole       *)
(* report fails exactly when one of the checks does.                       *)
(***************************************************************************)
EXTENDS Observations, FiniteSetTheorems, SequenceTheorems, TLAPS

-----------------------------------------------------------------------------
(* The lists of addresses.                                                 *)

(* The elements of addresses, and the addresses: four octets or eight      *)
(* segments.                                                               *)
Octet == {x \in Nat : x < 256}
Segment == {x \in Nat : x < 65536}
Ipv4 == {s \in Seq(Octet) : Len(s) = 4}
Ipv6 == {s \in Seq(Segment) : Len(s) = 8}

(* One element of an address and of a prefix agree in their first n bits.  *)
Same(x, y, w, n) ==
    n > 0 => LET unit == IF n >= w THEN 1 ELSE Pow2[w - n] IN x \div unit = y \div unit

(* Which bits an element shares with a prefix, for the prefix lengths the  *)
(* lists use.                                                              *)
LEMMA SameBits ==
    ASSUME NEW w \in {8, 16}, NEW x \in Nat, NEW y \in Nat
    PROVE  /\ \A n \in Int : n <= 0 => Same(x, y, w, n)
           /\ \A n \in Int : n >= w => (Same(x, y, w, n) <=> x = y)
           /\ Same(x, y, w, w - 1) <=> x \div 2 = y \div 2
           /\ Same(x, y, w, w - 4) <=> x \div 16 = y \div 16
           /\ Same(x, y, w, w - 6) <=> x \div 64 = y \div 64
           /\ Same(x, y, 16, 8) <=> x \div 256 = y \div 256
           /\ Same(x, y, 16, 7) <=> x \div 512 = y \div 512
<1>1. Pow2[1] = 2 /\ Pow2[4] = 16 /\ Pow2[6] = 64 /\ Pow2[8] = 256 /\ Pow2[9] = 512
  BY DEF Pow2
<1>2. x \div 1 = x /\ y \div 1 = y
  OBVIOUS
<1>3. \A n \in Int : n <= 0 => Same(x, y, w, n)
  BY DEF Same
<1>4. \A n \in Int : n >= w => (Same(x, y, w, n) <=> x = y)
  BY <1>2 DEF Same
<1>5. \A k \in {1, 4, 6} : w - k > 0 /\ ~(w - k >= w) /\ w - (w - k) = k
  OBVIOUS
<1>6. \A k \in {1, 4, 6} : Same(x, y, w, w - k) <=> x \div Pow2[k] = y \div Pow2[k]
  BY <1>5 DEF Same
<1>7. /\ Same(x, y, w, w - 1) <=> x \div 2 = y \div 2
      /\ Same(x, y, w, w - 4) <=> x \div 16 = y \div 16
      /\ Same(x, y, w, w - 6) <=> x \div 64 = y \div 64
  BY <1>1, <1>6
<1>8. 8 > 0 /\ ~(8 >= 16) /\ 16 - 8 = 8 /\ 7 > 0 /\ ~(7 >= 16) /\ 16 - 7 = 9
  OBVIOUS
<1>9. /\ Same(x, y, 16, 8) <=> x \div 256 = y \div 256
      /\ Same(x, y, 16, 7) <=> x \div 512 = y \div 512
  BY <1>1, <1>8 DEF Same
<1> QED
  BY <1>3, <1>4, <1>7, <1>9

(* An element of an address is of its set.                                 *)
LEMMA Element ==
    ASSUME NEW S, NEW v \in Seq(S), NEW i \in 1..Len(v)
    PROVE  v[i] \in S
OBVIOUS

(* So are the eight segments of an IPv6 address.                           *)
LEMMA EightElements ==
    ASSUME NEW S, NEW v \in Seq(S), Len(v) = 8
    PROVE  /\ v[1] \in S /\ v[2] \in S /\ v[3] \in S /\ v[4] \in S
           /\ v[5] \in S /\ v[6] \in S /\ v[7] \in S /\ v[8] \in S
<1>1. \A i \in 1..Len(v) : v[i] \in S
  BY Element, Zenon
<1>2. \A i \in {1, 2, 3, 4, 5, 6, 7, 8} : i \in 1..8
  BY SMT
<1> QED
  BY <1>1, <1>2, Zenon

(* An IPv4 address is four octets.                                         *)
LEMMA Octets ==
    ASSUME NEW v \in Ipv4
    PROVE  /\ DOMAIN v = 1..4 /\ Len(v) = 4
           /\ v[1] \in Octet /\ v[2] \in Octet /\ v[3] \in Octet /\ v[4] \in Octet
<1>1. v \in Seq(Octet) /\ Len(v) = 4
  BY Zenon DEF Ipv4
<1>2. DOMAIN v = 1..4
  BY <1>1
<1>3. \A i \in 1..Len(v) : v[i] \in Octet
  BY <1>1, Element, Zenon
<1>4. 1 \in 1..4 /\ 2 \in 1..4 /\ 3 \in 1..4 /\ 4 \in 1..4
  OBVIOUS
<1> QED
  BY <1>1, <1>2, <1>3, <1>4, Zenon

(* An IPv6 address is eight segments.                                      *)
LEMMA Segments ==
    ASSUME NEW v \in Ipv6
    PROVE  /\ DOMAIN v = 1..8 /\ Len(v) = 8
           /\ v[1] \in Segment /\ v[2] \in Segment /\ v[3] \in Segment /\ v[4] \in Segment
           /\ v[5] \in Segment /\ v[6] \in Segment /\ v[7] \in Segment /\ v[8] \in Segment
<1>1. v \in Seq(Segment) /\ Len(v) = 8
  BY Zenon DEF Ipv6
<1>2. DOMAIN v = 1..8
  BY <1>1
<1> QED
  BY <1>1, <1>2, EightElements, Zenon

(* An IPv4 prefix is matched octet by octet.                               *)
LEMMA Match4 ==
    ASSUME NEW v \in Ipv4, NEW a, NEW b, NEW c, NEW bits \in Nat
    PROVE  In4(v, a, b, c, bits) <=> /\ Same(v[1], a, 8, bits) /\ Same(v[2], b, 8, bits - 8)
                                     /\ Same(v[3], c, 8, bits - 16) /\ Same(v[4], 0, 8, bits - 24)
<1> DEFINE base == <<a, b, c, 0>>
<1>1. base[1] = a /\ base[2] = b /\ base[3] = c /\ base[4] = 0
  OBVIOUS
<1>2. DOMAIN v = {1, 2, 3, 4}
  BY Octets
<1>3. InPrefix(v, 8, base, bits) <=> \A i \in DOMAIN v : Same(v[i], base[i], 8, bits - 8 * (i - 1))
  BY Zenon DEF InPrefix, Same
<1>4. In4(v, a, b, c, bits) <=> \A i \in {1, 2, 3, 4} : Same(v[i], base[i], 8, bits - 8 * (i - 1))
  BY <1>2, <1>3, Zenon DEF In4
<1> HIDE DEF base
<1>5. /\ bits - 8 * (1 - 1) = bits /\ bits - 8 * (2 - 1) = bits - 8
      /\ bits - 8 * (3 - 1) = bits - 16 /\ bits - 8 * (4 - 1) = bits - 24
  OBVIOUS
<1> QED
  BY <1>1, <1>4, <1>5, Zenon

(* What In4 asks of the octets, for every prefix length of the IPv4 lists. *)
LEMMA Prefix4 ==
    ASSUME NEW v \in Ipv4, NEW a \in Octet, NEW b \in Octet, NEW c \in Octet
    PROVE  /\ In4(v, a, b, c, 8) <=> v[1] = a
           /\ In4(v, a, b, c, 16) <=> v[1] = a /\ v[2] = b
           /\ In4(v, a, b, c, 24) <=> v[1] = a /\ v[2] = b /\ v[3] = c
           /\ In4(v, a, b, c, 4) <=> v[1] \div 16 = a \div 16
           /\ In4(v, a, b, c, 12) <=> v[1] = a /\ v[2] \div 16 = b \div 16
           /\ In4(v, a, b, c, 10) <=> v[1] = a /\ v[2] \div 64 = b \div 64
           /\ In4(v, a, b, c, 15) <=> v[1] = a /\ v[2] \div 2 = b \div 2
<1>1. /\ v[1] \in Nat /\ v[2] \in Nat /\ v[3] \in Nat /\ v[4] \in Nat
      /\ a \in Nat /\ b \in Nat /\ c \in Nat /\ 0 \in Nat
  BY Octets DEF Octet
<1>2. ASSUME NEW x \in Nat, NEW y \in Nat
      PROVE  /\ Same(x, y, 8, 24) <=> x = y
             /\ Same(x, y, 8, 16) <=> x = y
             /\ Same(x, y, 8, 15) <=> x = y
             /\ Same(x, y, 8, 12) <=> x = y
             /\ Same(x, y, 8, 10) <=> x = y
             /\ Same(x, y, 8, 8) <=> x = y
             /\ \A n \in Int : n <= 0 => Same(x, y, 8, n)
  BY SameBits
<1>3. ASSUME NEW x \in Nat, NEW y \in Nat
      PROVE  /\ Same(x, y, 8, 7) <=> x \div 2 = y \div 2
             /\ Same(x, y, 8, 4) <=> x \div 16 = y \div 16
             /\ Same(x, y, 8, 2) <=> x \div 64 = y \div 64
  <2>1. 8 - 1 = 7 /\ 8 - 4 = 4 /\ 8 - 6 = 2
    OBVIOUS
  <2> QED
    BY <2>1, SameBits
<1>a. In4(v, a, b, c, 8) <=> Same(v[1], a, 8, 8)
  BY <1>1, <1>2, Match4
<1>b. In4(v, a, b, c, 16) <=> Same(v[1], a, 8, 16) /\ Same(v[2], b, 8, 8)
  BY <1>1, <1>2, Match4
<1>c. In4(v, a, b, c, 24) <=> Same(v[1], a, 8, 24) /\ Same(v[2], b, 8, 16) /\ Same(v[3], c, 8, 8)
  BY <1>1, <1>2, Match4
<1>d. In4(v, a, b, c, 4) <=> Same(v[1], a, 8, 4)
  BY <1>1, <1>2, Match4
<1>e. In4(v, a, b, c, 12) <=> Same(v[1], a, 8, 12) /\ Same(v[2], b, 8, 4)
  BY <1>1, <1>2, Match4
<1>f. In4(v, a, b, c, 10) <=> Same(v[1], a, 8, 10) /\ Same(v[2], b, 8, 2)
  BY <1>1, <1>2, Match4
<1>g. In4(v, a, b, c, 15) <=> Same(v[1], a, 8, 15) /\ Same(v[2], b, 8, 7)
  BY <1>1, <1>2, Match4
<1>h. In4(v, a, b, c, 8) <=> v[1] = a
  BY <1>1, <1>2, <1>a
<1>i. In4(v, a, b, c, 16) <=> v[1] = a /\ v[2] = b
  BY <1>1, <1>2, <1>b
<1>j. In4(v, a, b, c, 24) <=> v[1] = a /\ v[2] = b /\ v[3] = c
  BY <1>1, <1>2, <1>c
<1>k. In4(v, a, b, c, 4) <=> v[1] \div 16 = a \div 16
  BY <1>1, <1>2, <1>3, <1>d, Zenon
<1>l. In4(v, a, b, c, 12) <=> v[1] = a /\ v[2] \div 16 = b \div 16
  BY <1>1, <1>2, <1>3, <1>e, ZenonT(30)
<1>m. In4(v, a, b, c, 10) <=> v[1] = a /\ v[2] \div 64 = b \div 64
  BY <1>1, <1>2, <1>3, <1>f, ZenonT(30)
<1>n. In4(v, a, b, c, 15) <=> v[1] = a /\ v[2] \div 2 = b \div 2
  BY <1>1, <1>2, <1>3, <1>g, Zenon
<1> QED
  BY <1>h, <1>i, <1>j, <1>k, <1>l, <1>m, <1>n, Zenon

(* ssrf_guard.rs and deployment.rs refuse the same IPv4 addresses: their   *)
(* lists differ in wording and order only.                                 *)
LEMMA Guards4 ==
    ASSUME NEW v
    PROVE  classify_v4(v) # "none" <=> relay_target_denied_v4(v)
BY SMTT(30) DEF classify_v4, relay_target_denied_v4

(* The ranges of the three IPv4 lists, by the octets that decide them.     *)
LEMMA Ranges4 ==
    ASSUME NEW v \in Ipv4
    PROVE  /\ is_private(v) <=> \/ v[1] = 10
                                \/ v[1] = 172 /\ v[2] \div 16 = 1
                                \/ v[1] = 192 /\ v[2] = 168
           /\ is_documentation(v) <=> \/ v[1] = 192 /\ v[2] = 0 /\ v[3] = 2
                                      \/ v[1] = 198 /\ v[2] = 51 /\ v[3] = 100
                                      \/ v[1] = 203 /\ v[2] = 0 /\ v[3] = 113
           /\ In4(v, 127, 0, 0, 8) <=> v[1] = 127
           /\ In4(v, 10, 0, 0, 8) <=> v[1] = 10
           /\ In4(v, 0, 0, 0, 8) <=> v[1] = 0
           /\ In4(v, 169, 254, 0, 16) <=> v[1] = 169 /\ v[2] = 254
           /\ In4(v, 224, 0, 0, 4) <=> v[1] \div 16 = 14
           /\ In4(v, 240, 0, 0, 4) <=> v[1] \div 16 = 15
           /\ In4(v, 100, 64, 0, 10) <=> v[1] = 100 /\ v[2] \div 64 = 1
           /\ In4(v, 198, 18, 0, 15) <=> v[1] = 198 /\ v[2] \div 2 = 9
           /\ In4(v, 192, 0, 0, 24) <=> v[1] = 192 /\ v[2] = 0 /\ v[3] = 0
<1>1. \A x \in {0, 2, 10, 16, 18, 51, 64, 100, 113, 127, 168, 169, 172, 192, 198, 203, 224, 240, 254} : x \in Octet
  BY DEF Octet
<1>2. 224 \div 16 = 14 /\ 240 \div 16 = 15 /\ 64 \div 64 = 1 /\ 18 \div 2 = 9 /\ 16 \div 16 = 1
  OBVIOUS
<1>3. /\ In4(v, 10, 0, 0, 8) <=> v[1] = 10
      /\ In4(v, 127, 0, 0, 8) <=> v[1] = 127
      /\ In4(v, 0, 0, 0, 8) <=> v[1] = 0
  BY <1>1, Prefix4
<1>4. /\ In4(v, 192, 168, 0, 16) <=> v[1] = 192 /\ v[2] = 168
      /\ In4(v, 169, 254, 0, 16) <=> v[1] = 169 /\ v[2] = 254
  BY <1>1, Prefix4
<1>5. In4(v, 172, 16, 0, 12) <=> v[1] = 172 /\ v[2] \div 16 = 1
  BY <1>1, <1>2, Prefix4
<1>6. /\ In4(v, 192, 0, 2, 24) <=> v[1] = 192 /\ v[2] = 0 /\ v[3] = 2
      /\ In4(v, 198, 51, 100, 24) <=> v[1] = 198 /\ v[2] = 51 /\ v[3] = 100
      /\ In4(v, 203, 0, 113, 24) <=> v[1] = 203 /\ v[2] = 0 /\ v[3] = 113
      /\ In4(v, 192, 0, 0, 24) <=> v[1] = 192 /\ v[2] = 0 /\ v[3] = 0
  BY <1>1, Prefix4
<1>7. /\ In4(v, 224, 0, 0, 4) <=> v[1] \div 16 = 14
      /\ In4(v, 240, 0, 0, 4) <=> v[1] \div 16 = 15
  BY <1>1, <1>2, Prefix4
<1>8. In4(v, 100, 64, 0, 10) <=> v[1] = 100 /\ v[2] \div 64 = 1
  BY <1>1, <1>2, Prefix4
<1>9. In4(v, 198, 18, 0, 15) <=> v[1] = 198 /\ v[2] \div 2 = 9
  BY <1>1, <1>2, Prefix4
<1>10. /\ is_private(v) <=> \/ v[1] = 10
                            \/ v[1] = 172 /\ v[2] \div 16 = 1
                            \/ v[1] = 192 /\ v[2] = 168
       /\ is_documentation(v) <=> \/ v[1] = 192 /\ v[2] = 0 /\ v[3] = 2
                                  \/ v[1] = 198 /\ v[2] = 51 /\ v[3] = 100
                                  \/ v[1] = 203 /\ v[2] = 0 /\ v[3] = 113
  BY <1>3, <1>4, <1>5, <1>6 DEF is_private, is_documentation
<1> QED
  BY <1>3, <1>4, <1>6, <1>7, <1>8, <1>9, <1>10, ZenonT(30)

(* The octets of an address that is written out.                           *)
LEMMA Quad ==
    ASSUME NEW v \in Ipv4, NEW a, NEW b, NEW c, NEW e, v = <<a, b, c, e>>
    PROVE  v[1] = a /\ v[2] = b /\ v[3] = c /\ v[4] = e
OBVIOUS

(* What the C-16 rules reject among IPv4 addresses.                        *)
LEMMA Isolated4 ==
    ASSUME NEW v \in Ipv4
    PROVE  C16_DENY_IPV4_CIDRS(v) <=>
              \/ v[1] \in {0, 10, 127}
              \/ v[1] = 100 /\ v[2] \div 64 = 1
              \/ v[1] = 169 /\ v[2] = 254
              \/ v[1] = 198 /\ v[2] \div 2 = 9
              \/ v[1] = 192 /\ v[2] = 0 /\ v[3] = 0
              \/ v[1] \div 16 = 14 \/ v[1] \div 16 = 15
              \/ is_private(v) \/ is_documentation(v)
<1>1. (\E a \in {0, 10, 127} : In4(v, a, 0, 0, 8)) <=> v[1] \in {0, 10, 127}
  BY Ranges4
<1>2. is_private(v) <=> In4(v, 10, 0, 0, 8) \/ In4(v, 172, 16, 0, 12) \/ In4(v, 192, 168, 0, 16)
  BY Zenon DEF is_private
<1>3. is_documentation(v) <=>
         In4(v, 192, 0, 2, 24) \/ In4(v, 198, 51, 100, 24) \/ In4(v, 203, 0, 113, 24)
  BY Zenon DEF is_documentation
<1>4. C16_DENY_IPV4_CIDRS(v) <=>
         \/ \E a \in {0, 10, 127} : In4(v, a, 0, 0, 8)
         \/ In4(v, 100, 64, 0, 10) \/ In4(v, 169, 254, 0, 16) \/ In4(v, 198, 18, 0, 15)
         \/ In4(v, 192, 0, 0, 24) \/ In4(v, 224, 0, 0, 4) \/ In4(v, 240, 0, 0, 4)
         \/ is_private(v) \/ is_documentation(v)
  <2>1. In4(v, 10, 0, 0, 8) => \E a \in {0, 10, 127} : In4(v, a, 0, 0, 8)
    BY Zenon
  <2> QED
    BY <1>2, <1>3, <2>1 DEF C16_DENY_IPV4_CIDRS
<1> HIDE DEF C16_DENY_IPV4_CIDRS
<1> QED
  BY <1>1, <1>4, Ranges4

(* C-16 rejects what the guard refuses, and beyond that only 192.0.0.0/24  *)
(* and 240.0.0.0/4.                                                        *)
LEMMA Agree4 ==
    ASSUME NEW v \in Ipv4
    PROVE  /\ classify_v4(v) # "none" => C16_DENY_IPV4_CIDRS(v)
           /\ C16_DENY_IPV4_CIDRS(v) /\ classify_v4(v) = "none" => In4(v, 192, 0, 0, 24) \/ v[1] >= 240
<1>1. v[1] \in 0..255 /\ v[2] \in 0..255 /\ v[3] \in 0..255
  BY SMTT(30), Octets DEF Octet
<1>2. /\ v = <<169, 254, 169, 254>> => v[1] = 169 /\ v[2] = 254
      /\ v = <<0, 0, 0, 0>> => v[1] = 0
      /\ v = <<255, 255, 255, 255>> => v[1] = 255
  BY Quad
<1>3. /\ v[1] = 255 => v[1] \div 16 = 15
      /\ v[2] \div 64 = 1 <=> v[2] \in 64..127
      /\ v[2] \div 2 = 9 <=> v[2] \in {18, 19}
      /\ v[1] \div 16 = 15 => v[1] >= 240
  BY SMTT(30), <1>1
<1>4. relay_target_denied_v4(v) =>
         \/ v[1] \in {0, 127, 255} \/ (v[1] = 169 /\ v[2] = 254)
         \/ is_private(v) \/ is_documentation(v)
         \/ v[1] \div 16 = 14
         \/ v[1] = 100 /\ v[2] \in 64..127
         \/ v[1] = 198 /\ v[2] \in {18, 19}
  BY <1>2, Ranges4 DEF relay_target_denied_v4
<1>5. ~relay_target_denied_v4(v) =>
         /\ v[1] \notin {0, 127} /\ ~(v[1] = 169 /\ v[2] = 254)
         /\ ~is_private(v) /\ ~is_documentation(v)
         /\ v[1] \div 16 # 14
         /\ ~(v[1] = 100 /\ v[2] \in 64..127)
         /\ ~(v[1] = 198 /\ v[2] \in {18, 19})
  BY Ranges4 DEF relay_target_denied_v4
<1>6. v[1] = 10 => is_private(v)
  BY Ranges4
<1>7. relay_target_denied_v4(v) => C16_DENY_IPV4_CIDRS(v)
  BY <1>3, <1>4, Isolated4
<1>8. C16_DENY_IPV4_CIDRS(v) /\ ~relay_target_denied_v4(v) => In4(v, 192, 0, 0, 24) \/ v[1] >= 240
  BY SMTT(30), <1>3, <1>5, <1>6, Isolated4, Ranges4
<1> QED
  BY <1>7, <1>8, Guards4, Zenon

(* An IPv6 prefix is matched segment by segment: whole ones first, then at *)
(* most one in part.                                                       *)
LEMMA Leading6 ==
    ASSUME NEW v \in Ipv6, NEW p \in Seq(Nat), Len(p) = 8, NEW bits \in Nat
    PROVE  InPrefix(v, 16, p, bits) <=>
              \A i \in 1..8 :
                 /\ bits >= 16 * i => v[i] = p[i]
                 /\ bits > 16 * (i - 1) /\ bits < 16 * i => Same(v[i], p[i], 16, bits - 16 * (i - 1))
<1>1. InPrefix(v, 16, p, bits) <=> \A i \in 1..8 : Same(v[i], p[i], 16, bits - 16 * (i - 1))
  BY Segments, Zenon DEF InPrefix, Same
<1>2. ASSUME NEW i \in 1..8
      PROVE  Same(v[i], p[i], 16, bits - 16 * (i - 1)) <=>
                 /\ bits >= 16 * i => v[i] = p[i]
                 /\ bits > 16 * (i - 1) /\ bits < 16 * i => Same(v[i], p[i], 16, bits - 16 * (i - 1))
  <2>1. v[i] \in Nat /\ p[i] \in Nat
    <3>1. \A x \in Segment : x \in Nat
      BY SMT DEF Segment
    <3>2. v \in Seq(Segment) /\ Len(v) = 8
      BY Zenon DEF Ipv6
    <3> QED
      BY <3>1, <3>2, Element, Zenon
  <2> DEFINE n == bits - 16 * (i - 1)
  <2>2. /\ n \in Int
        /\ bits >= 16 * i <=> n >= 16
        /\ bits > 16 * (i - 1) /\ bits < 16 * i <=> n > 0 /\ ~(n >= 16)
        /\ n > 0 \/ n <= 0
        /\ n >= 16 => n > 0
    BY SMT
  <2> HIDE DEF n
  <2>3. /\ n <= 0 => Same(v[i], p[i], 16, n)
        /\ n >= 16 => (Same(v[i], p[i], 16, n) <=> v[i] = p[i])
    BY <2>1, <2>2, SameBits, SMT
  <2>4. Same(v[i], p[i], 16, n) <=>
           /\ n >= 16 => v[i] = p[i]
           /\ n > 0 /\ ~(n >= 16) => Same(v[i], p[i], 16, n)
    BY <2>2, <2>3, Zenon
  <2> QED
    BY <2>2, <2>4, Zenon DEF n
<1> QED
  BY <1>1, <1>2, Zenon

(* What In6 asks of the segments, for the prefix lengths of the IPv6       *)
(* lists.                                                                  *)
LEMMA Prefix6 ==
    ASSUME NEW v \in Ipv6, NEW a \in Nat, NEW b \in Nat
    PROVE  /\ In6(v, a, b, 8) <=> v[1] \div 256 = a \div 256
           /\ In6(v, a, b, 7) <=> v[1] \div 512 = a \div 512
           /\ In6(v, a, b, 10) <=> v[1] \div 64 = a \div 64
           /\ In6(v, a, b, 32) <=> v[1] = a /\ v[2] = b
           /\ InPrefix(v, 16, <<0, 0, 0, 0, 0, 65535, 0, 0>>, 96) <=>
                 (\A i \in 1..5 : v[i] = 0) /\ v[6] = 65535
<1>1. v[1] \in Nat
  <2>1. \A x \in Segment : x \in Nat
    BY SMT DEF Segment
  <2> QED
    BY <2>1, Segments, SMT
<1>3. ASSUME NEW x \in Nat, NEW y \in Nat
      PROVE  /\ Same(x, y, 16, 8) <=> x \div 256 = y \div 256
             /\ Same(x, y, 16, 7) <=> x \div 512 = y \div 512
             /\ Same(x, y, 16, 10) <=> x \div 64 = y \div 64
  <2>1. 16 - 6 = 10
    BY SMT
  <2> QED
    BY <2>1, SameBits, SMT
<1> DEFINE base == <<a, b, 0, 0, 0, 0, 0, 0>>
           mapped == <<0, 0, 0, 0, 0, 65535, 0, 0>>
<1>4. /\ base \in Seq(Nat) /\ Len(base) = 8
      /\ base[1] = a /\ base[2] = b /\ base[3] = 0 /\ base[4] = 0
      /\ base[5] = 0 /\ base[6] = 0 /\ base[7] = 0 /\ base[8] = 0
  BY SMT
<1>5. /\ mapped \in Seq(Nat) /\ Len(mapped) = 8
      /\ mapped[1] = 0 /\ mapped[2] = 0 /\ mapped[3] = 0 /\ mapped[4] = 0
      /\ mapped[5] = 0 /\ mapped[6] = 65535 /\ mapped[7] = 0 /\ mapped[8] = 0
  BY SMT
<1>6. \A bits : In6(v, a, b, bits) <=> InPrefix(v, 16, base, bits)
  BY SMT DEF In6
<1> HIDE DEF base, mapped
<1>7. ASSUME NEW bits \in 1..15
      PROVE  InPrefix(v, 16, base, bits) <=> Same(v[1], base[1], 16, bits)
  <2>1. InPrefix(v, 16, base, bits) <=>
           \A i \in 1..8 :
              /\ bits >= 16 * i => v[i] = base[i]
              /\ bits > 16 * (i - 1) /\ bits < 16 * i => Same(v[i], base[i], 16, bits - 16 * (i - 1))
    BY <1>4, Leading6, SMT
  <2>2. ASSUME NEW i \in 1..8
        PROVE  ~(bits >= 16 * i) /\ (bits > 16 * (i - 1) /\ bits < 16 * i <=> i = 1)
    BY SMT
  <2>3. bits - 16 * (1 - 1) = bits /\ 1 \in 1..8
    BY SMT
  <2> QED
    BY <2>1, <2>2, <2>3, Zenon
<1>a. In6(v, a, b, 8) <=> Same(v[1], a, 16, 8)
  BY <1>4, <1>6, <1>7, SMT
<1>b. In6(v, a, b, 7) <=> Same(v[1], a, 16, 7)
  BY <1>4, <1>6, <1>7, SMT
<1>c. In6(v, a, b, 10) <=> Same(v[1], a, 16, 10)
  BY <1>4, <1>6, <1>7, SMT
<1>d. In6(v, a, b, 32) <=> v[1] = a /\ v[2] = b
  <2>1. InPrefix(v, 16, base, 32) <=>
           \A i \in 1..8 :
              /\ 32 >= 16 * i => v[i] = base[i]
              /\ 32 > 16 * (i - 1) /\ 32 < 16 * i => Same(v[i], base[i], 16, 32 - 16 * (i - 1))
    BY <1>4, Leading6, SMT
  <2>2. ASSUME NEW i \in 1..8
        PROVE  (32 >= 16 * i <=> i = 1 \/ i = 2) /\ ~(32 > 16 * (i - 1) /\ 32 < 16 * i)
    BY SMT
  <2>3. 1 \in 1..8 /\ 2 \in 1..8
    BY SMT
  <2>4. InPrefix(v, 16, base, 32) <=> v[1] = base[1] /\ v[2] = base[2]
    BY <2>1, <2>2, <2>3, Zenon
  <2> QED
    BY <1>4, <1>6, <2>4, SMT
<1>e. InPrefix(v, 16, mapped, 96) <=> (\A i \in 1..5 : v[i] = 0) /\ v[6] = 65535
  <2>1. InPrefix(v, 16, mapped, 96) <=>
           v[1] = 0 /\ v[2] = 0 /\ v[3] = 0 /\ v[4] = 0 /\ v[5] = 0 /\ v[6] = 65535
    <3>1. InPrefix(v, 16, mapped, 96) <=>
             \A i \in 1..8 :
                /\ 96 >= 16 * i => v[i] = mapped[i]
                /\ 96 > 16 * (i - 1) /\ 96 < 16 * i => Same(v[i], mapped[i], 16, 96 - 16 * (i - 1))
      BY <1>5, Leading6, SMTT(30)
    <3>2. ASSUME NEW i \in 1..8
          PROVE  (96 >= 16 * i <=> i \in 1..6) /\ ~(96 > 16 * (i - 1) /\ 96 < 16 * i)
      BY SMT
    <3>3. \A i \in 1..6 : i \in 1..8
      BY SMT
    <3>4. InPrefix(v, 16, mapped, 96) <=> \A i \in 1..6 : v[i] = mapped[i]
      BY <3>1, <3>2, <3>3, SMT
    <3> QED
      BY <1>5, <3>4, SMT
  <2>2. (\A i \in 1..5 : v[i] = 0) <=> v[1] = 0 /\ v[2] = 0 /\ v[3] = 0 /\ v[4] = 0 /\ v[5] = 0
    BY SMT
  <2> QED
    BY <2>1, <2>2, SMT
<1>f. /\ In6(v, a, b, 8) <=> v[1] \div 256 = a \div 256
      /\ In6(v, a, b, 7) <=> v[1] \div 512 = a \div 512
      /\ In6(v, a, b, 10) <=> v[1] \div 64 = a \div 64
  BY <1>1, <1>3, <1>a, <1>b, <1>c, SMT
<1> QED
  BY <1>d, <1>e, <1>f, SMT DEF mapped

(* The IPv4 address inside ::ffff:0:0/96, and inside no other address.     *)
LEMMA Mapped ==
    ASSUME NEW v \in Ipv6
    PROVE  /\ to_ipv4_mapped(v) # <<>> <=> (\A i \in 1..5 : v[i] = 0) /\ v[6] = 65535
           /\ to_ipv4_mapped(v) # <<>> => to_ipv4_mapped(v) \in Ipv4
<1> DEFINE quad == <<v[7] \div 256, v[7] % 256, v[8] \div 256, v[8] % 256>>
<1>1. v[7] \in Segment /\ v[8] \in Segment
  BY Segments, SMT
<1>2. \A x \in Segment : x \div 256 \in Octet /\ x % 256 \in Octet
  <2>1. ASSUME NEW x \in Nat, x < 65536 PROVE x \div 256 \in 0..255
    BY <2>1, SMT
  <2>2. ASSUME NEW x \in Nat PROVE x % 256 \in 0..255
    BY SMT
  <2>3. \A x \in Segment : x \in Nat /\ x < 65536
    BY SMT DEF Segment
  <2> QED
    BY <2>1, <2>2, <2>3, SMT DEF Octet
<1>3. quad \in Seq(Octet) /\ Len(quad) = 4
  BY <1>1, <1>2, SMT
<1>4. quad # <<>>
  BY <1>3, SMT
<1>5. quad \in Ipv4
  BY <1>3, SMT DEF Ipv4
<1>6. to_ipv4_mapped(v) = IF (\A i \in 1..5 : v[i] = 0) /\ v[6] = 65535 THEN quad ELSE <<>>
  BY SMT DEF to_ipv4_mapped
<1> HIDE DEF quad
<1> QED
  BY <1>4, <1>5, <1>6, SMT

(* ssrf_guard.rs and deployment.rs refuse the same IPv6 addresses.         *)
LEMMA Guards6 ==
    ASSUME NEW v \in Ipv6
    PROVE  classify_v6(v) # "none" <=> relay_target_denied_v6(v)
BY SMT DEF classify_v6, relay_target_denied_v6

(* What the C-16 rules reject among IPv6 addresses: what deployment.rs     *)
(* refuses, mapped addresses, NAT64 and the discard prefix.                *)
LEMMA Isolated6 ==
    ASSUME NEW v \in Ipv6
    PROVE  C16_DENY_IPV6_CIDRS(v) <=>
              relay_target_denied_v6(v) \/ to_ipv4_mapped(v) # <<>>
              \/ In6(v, 100, 65435, 96) \/ In6(v, 256, 0, 64)
<1>1. \A k \in {64, 512} : v[1] \div k \in Int
  <2>1. \A x \in Segment : x \in Nat
    BY SMT DEF Segment
  <2>2. v[1] \in Nat
    BY <2>1, Segments, SMT
  <2> QED
    BY <2>2, SMT
<1>2. /\ In6(v, 8193, 3512, 32) <=> v[1] = 8193 /\ v[2] = 3512
      /\ InPrefix(v, 16, <<0, 0, 0, 0, 0, 65535, 0, 0>>, 96) <=> to_ipv4_mapped(v) # <<>>
  BY Prefix6, Mapped, SMTT(30)
<1>3. In6(v, 64512, 0, 7) <=> (v[1] \div 512) * 512 = 64512
  <2>1. In6(v, 64512, 0, 7) <=> v[1] \div 512 = 64512 \div 512
    BY Prefix6, SMT
  <2>2. 64512 \div 512 = 126
    BY SMT
  <2>3. \A q \in Int : q = 126 <=> q * 512 = 64512
    BY SMT
  <2> QED
    BY <1>1, <2>1, <2>2, <2>3, SMT
<1>4. In6(v, 65152, 0, 10) <=> (v[1] \div 64) * 64 = 65152
  <2>1. In6(v, 65152, 0, 10) <=> v[1] \div 64 = 65152 \div 64
    BY Prefix6, SMT
  <2>2. 65152 \div 64 = 1018
    BY SMT
  <2>3. \A q \in Int : q = 1018 <=> q * 64 = 65152
    BY SMT
  <2> QED
    BY <1>1, <2>1, <2>2, <2>3, SMT
<1> QED
  BY <1>2, <1>3, <1>4, SMT DEF C16_DENY_IPV6_CIDRS, relay_target_denied_v6

(* A mapped address is in none of the refused IPv6 ranges: it is judged by *)
(* the address it maps.                                                    *)
LEMMA MappedIsNoOther ==
    ASSUME NEW v \in Ipv6, to_ipv4_mapped(v) # <<>>
    PROVE  ~relay_target_denied_v6(v)
<1>1. v[1] = 0 /\ v[6] = 65535
  BY Mapped, SMT
<1>2. v # <<0, 0, 0, 0, 0, 0, 0, 0>> /\ v # <<0, 0, 0, 0, 0, 0, 0, 1>>
  BY <1>1, SMT
<1>3. ~In6(v, 65280, 0, 8)
  <2>1. In6(v, 65280, 0, 8) <=> v[1] \div 256 = 65280 \div 256
    BY Prefix6, SMT
  <2> QED
    BY <1>1, <2>1, SMT
<1>4. (v[1] \div 64) * 64 # 65152 /\ (v[1] \div 512) * 512 # 64512 /\ v[1] # 8193
  BY <1>1, SMT
<1> QED
  BY <1>2, <1>3, <1>4, SMT DEF relay_target_denied_v6

(* The three address policies of the code agree on every address there is. *)
(* The agent's guard, the relay-target check and the C-16 rules agree on   *)
(* every IPv4 and every IPv6 address.                                      *)
THEOREM OneAddressPolicy == \A ip \in Ipv4 \cup Ipv6 : PoliciesAgree(ip)
<1>1. ASSUME NEW ip \in Ipv4 PROVE PoliciesAgree(ip)
  <2>1. Len(ip) = 4
    BY Octets, SMT
  <2>2. /\ classify_denied(ip) = classify_v4(ip)
        /\ classify_relay_target_denied(ip) = relay_target_denied_v4(ip)
        /\ c16_denied(ip) = C16_DENY_IPV4_CIDRS(ip)
    BY <2>1, SMT DEF classify_denied, classify_relay_target_denied, c16_denied
  <2>3. classify_denied(ip) # "none" <=> classify_relay_target_denied(ip)
    BY <2>2, Guards4, SMT
  <2> QED
    BY <2>1, <2>2, <2>3, Agree4, SMT DEF PoliciesAgree
<1>2. ASSUME NEW ip \in Ipv6 PROVE PoliciesAgree(ip)
  <2>1. Len(ip) # 4
    BY Segments, SMT
  <2>2. c16_denied(ip) = C16_DENY_IPV6_CIDRS(ip)
    BY <2>1, SMT DEF c16_denied
  <2>3. CASE to_ipv4_mapped(ip) = <<>>
    <3>1. classify_denied(ip) = classify_v6(ip)
      BY <2>1, <2>3, SMT DEF classify_denied
    <3>2. classify_relay_target_denied(ip) <=> relay_target_denied_v6(ip)
      BY <2>1, <2>3, SMT DEF classify_relay_target_denied
    <3>3. classify_denied(ip) # "none" <=> classify_relay_target_denied(ip)
      BY <3>1, <3>2, Guards6, SMT
    <3> QED
      BY <2>1, <2>2, <3>1, <3>3, Guards6, Isolated6, SMT DEF PoliciesAgree
  <2>4. CASE to_ipv4_mapped(ip) # <<>>
    <3>1. classify_denied(ip) # "none" <=> classify_v4(to_ipv4_mapped(ip)) # "none"
      BY <2>1, <2>4, SMT DEF classify_denied
    <3>2. classify_relay_target_denied(ip) <=> relay_target_denied_v4(to_ipv4_mapped(ip))
      BY <2>1, <2>4, MappedIsNoOther, SMT DEF classify_relay_target_denied
    <3>3. classify_denied(ip) # "none" <=> classify_relay_target_denied(ip)
      BY <2>4, <3>1, <3>2, Guards4, Mapped, SMT
    <3>4. c16_denied(ip)
      BY <2>2, <2>4, Isolated6, SMT
    <3> QED
      BY <2>1, <2>4, <3>3, <3>4, SMT DEF PoliciesAgree
  <2> QED
    BY <2>3, <2>4, SMT
<1> QED
  BY <1>1, <1>2, SMT

-----------------------------------------------------------------------------
(* The report of vpn-admin doctor.                                         *)

(* What the surface check maps a socket to that it prints nothing about; a *)
(* line of the report; a report that counts against the exit status.       *)
Skip == Found("skip", FALSE)
Findings == {Ok, Info, Warn, Fail, Skip}
Fails(s) == \E i \in DOMAIN s : s[i].counted

(* Only a [FAIL] is counted, and only a [FAIL] is printed as one.          *)
LEMMA FindingFacts ==
    /\ ~Ok.counted /\ ~Info.counted /\ ~Warn.counted /\ Fail.counted /\ ~Skip.counted
    /\ Ok.status # "Fail" /\ Info.status # "Fail" /\ Warn.status # "Fail" /\ Fail.status = "Fail"
    /\ Skip.status # "Fail"
BY DEF Ok, Info, Warn, Fail, Skip, Found

(* A report of one line fails when the line does.                          *)
LEMMA Single ==
    ASSUME NEW f \in Findings
    PROVE  <<f>> \in Seq(Findings) /\ (Fails(<<f>>) <=> f.counted)
<1>1. <<f>> \in Seq(Findings) /\ DOMAIN <<f>> = {1} /\ <<f>>[1] = f
  OBVIOUS
<1> QED
  BY <1>1, Zenon DEF Fails

(* The reports of one line, and the empty one.                             *)
LEMMA Singles ==
    /\ <<>> \in Seq(Findings) /\ ~Fails(<<>>)
    /\ <<Ok>> \in Seq(Findings) /\ ~Fails(<<Ok>>)
    /\ <<Info>> \in Seq(Findings) /\ ~Fails(<<Info>>)
    /\ <<Warn>> \in Seq(Findings) /\ ~Fails(<<Warn>>)
    /\ <<Fail>> \in Seq(Findings) /\ Fails(<<Fail>>)
<1>1. <<>> \in Seq(Findings) /\ ~Fails(<<>>)
  BY DEF Fails
<1>2. Ok \in Findings /\ Info \in Findings /\ Warn \in Findings /\ Fail \in Findings
  BY Zenon DEF Findings
<1> QED
  BY <1>1, <1>2, Single, FindingFacts, Zenon

(* Reports are printed one after the other: nothing is lost and nothing is *)
(* hidden by what follows.                                                 *)
LEMMA Joined ==
    ASSUME NEW a \in Seq(Findings), NEW b \in Seq(Findings)
    PROVE  a \o b \in Seq(Findings) /\ (Fails(a \o b) <=> Fails(a) \/ Fails(b))
<1>1. /\ a \o b \in Seq(Findings) /\ Len(a) \in Nat /\ Len(b) \in Nat
      /\ DOMAIN a = 1..Len(a) /\ DOMAIN b = 1..Len(b) /\ DOMAIN (a \o b) = 1..(Len(a) + Len(b))
  OBVIOUS
<1>2. ASSUME NEW i \in DOMAIN a PROVE i \in DOMAIN (a \o b) /\ (a \o b)[i] = a[i]
  BY <1>1
<1>3. ASSUME NEW i \in DOMAIN b PROVE Len(a) + i \in DOMAIN (a \o b) /\ (a \o b)[Len(a) + i] = b[i]
  BY <1>1
<1>4. ASSUME NEW i \in DOMAIN (a \o b)
      PROVE  \/ i \in DOMAIN a /\ (a \o b)[i] = a[i]
             \/ i - Len(a) \in DOMAIN b /\ (a \o b)[i] = b[i - Len(a)]
  BY <1>1
<1> QED
  BY <1>1, <1>2, <1>3, <1>4, Zenon DEF Fails

(* report_installed_file_policy fails for a wrong owner, group or mode; an *)
(* absent file is another check's business.                                *)
LEMMA Policy ==
    ASSUME NEW state
    PROVE  /\ report_installed_file_policy(state) \in Seq(Findings)
           /\ Fails(report_installed_file_policy(state)) <=> state = "bad"
BY Singles DEF report_installed_file_policy

(* report_cert_expiry fails for a certificate that ran out, and for no     *)
(* other.                                                                  *)
LEMMA CertFails ==
    ASSUME NEW cert, cert.state = "read" => cert.left \in Int
    PROVE  /\ report_cert_expiry(cert) \in Seq(Findings)
           /\ Fails(report_cert_expiry(cert)) <=> Expired(cert)
<1>1. CASE cert.state # "read"
  BY <1>1, Singles DEF report_cert_expiry, Expired
<1>2. CASE cert.state = "read"
  <2>1. cert.left \in Int
    BY <1>2
  <2>2. cert_expiry_days(cert.left) < 0 <=> cert.left <= -HalfDays
    BY <2>1 DEF cert_expiry_days, HalfDays
  <2> QED
    BY <1>2, <2>2, Singles DEF report_cert_expiry, Expired
<1> QED
  BY <1>1, <1>2

(* When check_binary_and_config fails.                                     *)
LEMMA BinaryFails ==
    ASSUME NEW h
    PROVE  /\ check_binary_and_config(h) \in Seq(Findings)
           /\ Fails(check_binary_and_config(h)) <=>
                 ~h.binary \/ (h.conf # "absent" /\ h.files["config"] = "bad")
                 \/ h.conf \in {"invalid", "garbled"}
<1> DEFINE p == report_installed_file_policy(h.files["config"])
           c == IF h.conf \in {"invalid", "garbled"} THEN <<Fail>> ELSE <<Ok>>
<1>1. p \in Seq(Findings) /\ (Fails(p) <=> h.files["config"] = "bad")
  BY Policy, Zenon
<1>2. c \in Seq(Findings) /\ (Fails(c) <=> h.conf \in {"invalid", "garbled"})
  BY Singles, Zenon
<1>3. <<Ok, Warn>> = <<Ok>> \o <<Warn>>
  OBVIOUS
<1>4. check_binary_and_config(h) = IF ~h.binary THEN <<Fail>>
                                   ELSE IF h.conf = "absent" THEN <<Ok>> \o <<Warn>> ELSE (<<Ok>> \o p) \o c
  BY <1>3, Zenon DEF check_binary_and_config
<1> HIDE DEF p, c
<1>5. <<Ok>> \o <<Warn>> \in Seq(Findings) /\ ~Fails(<<Ok>> \o <<Warn>>)
  BY Singles, Joined, Zenon
<1>6. <<Ok>> \o p \in Seq(Findings) /\ (Fails(<<Ok>> \o p) <=> Fails(p))
  BY <1>1, Singles, Joined, Zenon
<1>7. (<<Ok>> \o p) \o c \in Seq(Findings) /\ (Fails((<<Ok>> \o p) \o c) <=> Fails(p) \/ Fails(c))
  BY <1>2, <1>6, Joined, Zenon
<1>8. h.conf = "absent" => h.conf \notin {"invalid", "garbled"}
  OBVIOUS
<1> QED
  BY <1>1, <1>2, <1>4, <1>5, <1>7, <1>8, Singles, Zenon

(* When check_reality_keys fails.                                          *)
LEMMA KeysFail ==
    ASSUME NEW h
    PROVE  /\ check_reality_keys(h) \in Seq(Findings)
           /\ Fails(check_reality_keys(h)) <=>
                 \/ h.files["private"] \in {"bad", "absent"} \/ h.files["public"] \in {"bad", "absent"}
                 \/ h.files["short_id"] = "bad" \/ ~h.pair
<1> DEFINE pol(f) == report_installed_file_policy(h.files[f])
           a == IF h.files["private"] = "absent" THEN <<Fail>> ELSE pol("private")
           c == IF h.files["private"] # "absent" /\ h.pair THEN <<Ok>> ELSE <<Fail>>
           b == IF h.files["public"] = "absent" THEN <<Fail>> ELSE pol("public") \o pol("short_id") \o c
<1>1. check_reality_keys(h) = a \o b
  BY Zenon DEF check_reality_keys
<1>2. \A f : pol(f) \in Seq(Findings) /\ (Fails(pol(f)) <=> h.files[f] = "bad")
  BY Policy, Zenon
<1>3. c \in Seq(Findings) /\ (Fails(c) <=> h.files["private"] = "absent" \/ ~h.pair)
  BY Singles, Zenon
<1> HIDE DEF pol, c
<1>4. a \in Seq(Findings) /\ (Fails(a) <=> h.files["private"] \in {"bad", "absent"})
  BY <1>2, Singles, Zenon
<1>5. /\ pol("public") \o pol("short_id") \in Seq(Findings)
      /\ Fails(pol("public") \o pol("short_id")) <=> h.files["public"] = "bad" \/ h.files["short_id"] = "bad"
  BY <1>2, Joined, Zenon
<1>6. /\ pol("public") \o pol("short_id") \o c \in Seq(Findings)
      /\ Fails(pol("public") \o pol("short_id") \o c) <=>
            \/ h.files["public"] = "bad" \/ h.files["short_id"] = "bad"
            \/ h.files["private"] = "absent" \/ ~h.pair
  BY <1>3, <1>5, Joined, Zenon
<1>7. CASE h.files["public"] = "absent"
  <2>1. b = <<Fail>>
    BY <1>7, Zenon
  <2> HIDE DEF a, b
  <2>2. a \o b \in Seq(Findings) /\ Fails(a \o b)
    BY <1>4, <2>1, Joined, Singles, Zenon
  <2> QED
    BY <1>1, <1>7, <2>2, Zenon
<1>8. CASE h.files["public"] # "absent"
  <2>1. b = pol("public") \o pol("short_id") \o c
    BY <1>8, Zenon
  <2> HIDE DEF a, b
  <2>2. b \in Seq(Findings)
    BY <1>6, <2>1, Zenon
  <2>3. a \o b \in Seq(Findings) /\ (Fails(a \o b) <=> Fails(a) \/ Fails(b))
    BY <1>4, <2>2, Joined, Zenon
  <2> QED
    BY <1>1, <1>4, <1>6, <1>8, <2>1, <2>3, Zenon
<1> QED
  BY <1>7, <1>8, Zenon

(* When check_user_store fails.                                            *)
LEMMA StoreFails ==
    ASSUME NEW h
    PROVE  /\ check_user_store(h) \in Seq(Findings)
           /\ Fails(check_user_store(h)) <=> h.files["users"] = "bad" \/ ~h.store
<1> DEFINE p == report_installed_file_policy(h.files["users"])
           c == IF h.store THEN <<Ok>> ELSE <<Fail>>
<1>1. p \in Seq(Findings) /\ (Fails(p) <=> h.files["users"] = "bad")
  BY Policy, Zenon
<1>2. c \in Seq(Findings) /\ (Fails(c) <=> ~h.store)
  BY Singles, Zenon
<1>3. check_user_store(h) = p \o c
  BY Zenon DEF check_user_store
<1> HIDE DEF p, c
<1> QED
  BY <1>1, <1>2, <1>3, Joined, Zenon

(* When check_hysteria_material fails: the expiry of an absent certificate *)
(* is not asked.                                                           *)
LEMMA MaterialFails ==
    ASSUME NEW h, h.hycert.left \in Int
    PROVE  /\ check_hysteria_material(h) \in Seq(Findings)
           /\ Fails(check_hysteria_material(h)) <=>
                 \/ h.files["cert"] = "bad" \/ h.files["key"] = "bad" \/ h.files["obfs"] = "bad"
                 \/ Expired(h.hycert) /\ h.files["cert"] # "absent"
<1> DEFINE pol(f) == report_installed_file_policy(h.files[f])
           cert == IF h.files["cert"] = "absent" THEN [state |-> "absent"] ELSE h.hycert
           x == report_cert_expiry(cert)
           o == IF h.files["obfs"] = "absent" THEN <<Warn>> ELSE pol("obfs") \o <<Ok>>
<1>1. check_hysteria_material(h) = pol("cert") \o pol("key") \o x \o o
  BY Zenon DEF check_hysteria_material
<1>2. \A f : pol(f) \in Seq(Findings) /\ (Fails(pol(f)) <=> h.files[f] = "bad")
  BY Policy, Zenon
<1>3. x \in Seq(Findings) /\ (Fails(x) <=> Expired(h.hycert) /\ h.files["cert"] # "absent")
  <2>1. CASE h.files["cert"] = "absent"
    <3>1. cert.state # "read" /\ ~Expired(cert)
      BY <2>1 DEF Expired
    <3> HIDE DEF cert
    <3> QED
      BY <2>1, <3>1, CertFails, Zenon
  <2>2. CASE h.files["cert"] # "absent"
    <3>1. cert = h.hycert
      BY <2>2, Zenon
    <3> HIDE DEF cert
    <3> QED
      BY <2>2, <3>1, CertFails, Zenon
  <2> QED
    BY <2>1, <2>2, Zenon
<1> HIDE DEF pol, x
<1>4. o \in Seq(Findings) /\ (Fails(o) <=> h.files["obfs"] = "bad")
  <2>1. pol("obfs") \o <<Ok>> \in Seq(Findings) /\ (Fails(pol("obfs") \o <<Ok>>) <=> h.files["obfs"] = "bad")
    BY <1>2, Singles, Joined, Zenon
  <2> QED
    BY <2>1, Singles, Zenon
<1> HIDE DEF o
<1>5. /\ pol("cert") \o pol("key") \in Seq(Findings)
      /\ Fails(pol("cert") \o pol("key")) <=> h.files["cert"] = "bad" \/ h.files["key"] = "bad"
  BY <1>2, Joined, Zenon
<1>6. /\ pol("cert") \o pol("key") \o x \in Seq(Findings)
      /\ Fails(pol("cert") \o pol("key") \o x) <=>
            h.files["cert"] = "bad" \/ h.files["key"] = "bad" \/ Fails(x)
  BY <1>3, <1>5, Joined, Zenon
<1>7. /\ pol("cert") \o pol("key") \o x \o o \in Seq(Findings)
      /\ Fails(pol("cert") \o pol("key") \o x \o o) <=>
            h.files["cert"] = "bad" \/ h.files["key"] = "bad" \/ Fails(x) \/ Fails(o)
  BY <1>4, <1>6, Joined, Zenon
<1> QED
  BY <1>1, <1>3, <1>4, <1>7, Zenon

(* check_service fails for a unit that is there and does not run.          *)
LEMMA ServiceFails ==
    ASSUME NEW state \in {"active"} \cup Units
    PROVE  check_service(state) \in Seq(Findings) /\ (Fails(check_service(state)) <=> state \in {"failed", "inactive"})
BY Singles DEF check_service, Units

(* check_reconcile fails for a failed last run or a stopped timer.         *)
LEMMA ReconcileFails ==
    ASSUME NEW h, h.timer \in Timers
    PROVE  /\ check_reconcile(h) \in Seq(Findings)
           /\ Fails(check_reconcile(h)) <=> h.reconcile = "failed" \/ h.timer = "inactive"
<1> DEFINE a == CASE h.reconcile = "missing" -> <<Warn>>
                  [] h.reconcile = "failed"  -> <<Fail>>
                  [] OTHER                   -> <<Ok>>
           b == CASE h.timer = "missing" -> <<>>
                  [] h.timer = "active"  -> <<Ok>>
                  [] OTHER               -> <<Fail>>
<1>1. a \in Seq(Findings) /\ (Fails(a) <=> h.reconcile = "failed")
  BY Singles
<1>2. b \in Seq(Findings) /\ (Fails(b) <=> h.timer = "inactive")
  BY Singles DEF Timers
<1>3. check_reconcile(h) = a \o b
  BY Zenon DEF check_reconcile
<1> HIDE DEF a, b
<1> QED
  BY <1>1, <1>2, <1>3, Joined, Zenon

(* Only the word Fail is counted.                                          *)
LEMMA Tally ==
    ASSUME NEW status \in {"Ok", "Info", "Warn", "Fail", "skip"}
    PROVE  Tallied(status) \in Findings /\ (Tallied(status).counted <=> status = "Fail")
<1>1. CASE status = "Fail"
  BY <1>1, FindingFacts, Zenon DEF Tallied, Findings, Fail, Found
<1>2. CASE status # "Fail"
  <2>1. Tallied(status) = Found(status, FALSE)
    BY <1>2, Zenon DEF Tallied
  <2>2. Tallied(status) \in {Ok, Info, Warn, Skip}
    BY <1>2, <2>1, Zenon DEF Ok, Info, Warn, Skip
  <2> QED
    BY <1>2, <2>2, FindingFacts, Zenon DEF Findings
<1> QED
  BY <1>1, <1>2, Zenon

(* check_firewall fails when the recorded firewall is off, and nothing     *)
(* else guards the host.                                                   *)
LEMMA FirewallFails ==
    ASSUME NEW h
    PROVE  /\ check_firewall(h) \in Seq(Findings)
           /\ Fails(check_firewall(h)) <=>
                 /\ h.recorded \in {"firewalld", "none"} /\ h.firewalld = "inactive"
                 /\ ~(h.recorded = "none" /\ h.ufw = "active")
<1> DEFINE r == firewall_backend_report(h.recorded, h.firewalld, h.ufw)
<1>1. /\ r \in {"Ok", "Info", "Warn", "Fail", "skip"}
      /\ r = "Fail" <=> /\ h.recorded \in {"firewalld", "none"} /\ h.firewalld = "inactive"
                        /\ ~(h.recorded = "none" /\ h.ufw = "active")
  BY DEF firewall_backend_report
<1>2. check_firewall(h) = <<Tallied(r)>>
  BY Zenon DEF check_firewall
<1> HIDE DEF r
<1>3. Tallied(r) \in Findings /\ (Tallied(r).counted <=> r = "Fail")
  BY <1>1, Tally, Zenon
<1> QED
  BY <1>1, <1>2, <1>3, Single, Zenon

(* check_listeners fails for a missing listener, when ss could be asked.   *)
LEMMA ListenersFail ==
    ASSUME NEW h
    PROVE  /\ check_listeners(h) \in Seq(Findings)
           /\ Fails(check_listeners(h)) <=>
                 h.ss /\ (\/ ~listener_reported_by_ss(h, RealityPort, FALSE)
                          \/ ~listener_reported_by_ss(h, HysteriaPort, TRUE))
<1> DEFINE one(port, udp) == IF ~h.ss THEN <<Warn>>
                             ELSE IF listener_reported_by_ss(h, port, udp) THEN <<Ok>> ELSE <<Fail>>
<1>1. check_listeners(h) = one(RealityPort, FALSE) \o one(HysteriaPort, TRUE)
  BY Zenon DEF check_listeners
<1>2. /\ one(RealityPort, FALSE) \in Seq(Findings)
      /\ Fails(one(RealityPort, FALSE)) <=> h.ss /\ ~listener_reported_by_ss(h, RealityPort, FALSE)
  BY Singles, Zenon
<1>3. /\ one(HysteriaPort, TRUE) \in Seq(Findings)
      /\ Fails(one(HysteriaPort, TRUE)) <=> h.ss /\ ~listener_reported_by_ss(h, HysteriaPort, TRUE)
  BY Singles, Zenon
<1> HIDE DEF one
<1> QED
  BY <1>1, <1>2, <1>3, Joined, Zenon

(* UDP egress is refuted only when some resolver was tried and none        *)
(* answered.                                                               *)
LEMMA Resolvers ==
    ASSUME NEW answers, answers \subseteq {"yes", "no"}
    PROVE  run_udp_probe_candidates(answers) = "no" <=> answers = {"no"}
BY Zenon DEF run_udp_probe_candidates

(* check_udp_egress fails when hysteria2 listens and no datagram comes     *)
(* back.                                                                   *)
LEMMA EgressFails ==
    ASSUME NEW h, h.udp4 \subseteq {"yes", "no"}
    PROVE  /\ check_udp_egress(h) \in Seq(Findings)
           /\ Fails(check_udp_egress(h)) <=>
                 h.ss /\ listener_reported_by_ss(h, HysteriaPort, TRUE) /\ h.udp4 = {"no"}
<1> DEFINE heard == h.ss /\ listener_reported_by_ss(h, HysteriaPort, TRUE)
           run == run_udp_probe_candidates(h.udp4)
           c == CASE run = "yes" -> <<Ok>> [] run = "no" -> <<Fail>> [] OTHER -> <<Warn>>
<1>1. run = "no" <=> h.udp4 = {"no"}
  BY Resolvers, Zenon
<1>2. check_udp_egress(h) = IF ~heard THEN <<>> ELSE c
  BY DEF check_udp_egress
<1> HIDE DEF heard, run
<1>3. c \in Seq(Findings) /\ (Fails(c) <=> run = "no")
  BY Singles
<1> HIDE DEF c
<1>4. check_udp_egress(h) \in Seq(Findings) /\ (Fails(check_udp_egress(h)) <=> heard /\ run = "no")
  BY <1>2, <1>3, Singles, Zenon
<1> QED
  BY <1>1, <1>4, Zenon DEF heard

(* declared_inbounds lists a port for UDP exactly when an inbound takes    *)
(* it.                                                                     *)
LEMMA Declared ==
    ASSUME NEW inbounds, NEW port
    PROVE  <<TRUE, port>> \in declared_inbounds(inbounds) <=> TakesUdp(inbounds, port)
<1> DEFINE pairs(i) == CASE i.type \in {"hysteria", "hysteria2", "tuic", "naive"} -> {<<TRUE, i.port>>}
                         [] i.type \in {"vless", "vmess", "trojan", "http"} -> {<<FALSE, i.port>>}
                         [] OTHER -> {<<TRUE, i.port>>, <<FALSE, i.port>>}
<1>1. ASSUME NEW i
      PROVE  <<TRUE, port>> \in pairs(i) <=> i.port = port /\ i.type \notin {"vless", "vmess", "trojan", "http"}
  <2>1. <<TRUE, port>> = <<TRUE, i.port>> <=> i.port = port
    OBVIOUS
  <2>2. <<TRUE, port>> # <<FALSE, i.port>>
    OBVIOUS
  <2>3. CASE i.type \in {"hysteria", "hysteria2", "tuic", "naive"}
    <3>1. pairs(i) = {<<TRUE, i.port>>} /\ i.type \notin {"vless", "vmess", "trojan", "http"}
      BY <2>3, Zenon
    <3> HIDE DEF pairs
    <3> QED
      BY <2>1, <3>1, Zenon
  <2>4. CASE i.type \in {"vless", "vmess", "trojan", "http"}
    <3>1. pairs(i) = {<<FALSE, i.port>>}
      BY <2>4
    <3> HIDE DEF pairs
    <3> QED
      BY <2>2, <2>4, <3>1, Zenon
  <2>5. CASE i.type \notin {"hysteria", "hysteria2", "tuic", "naive"} /\ i.type \notin {"vless", "vmess", "trojan", "http"}
    <3>1. pairs(i) = {<<TRUE, i.port>>, <<FALSE, i.port>>}
      BY <2>5, Zenon
    <3> HIDE DEF pairs
    <3> QED
      BY <2>1, <2>2, <2>5, <3>1, Zenon
  <2> QED
    BY <2>3, <2>4, <2>5, Zenon
<1>2. declared_inbounds(inbounds) = UNION {pairs(i) : i \in inbounds}
  BY Zenon DEF declared_inbounds
<1> HIDE DEF pairs
<1> QED
  BY <1>1, <1>2, Zenon DEF TakesUdp

(* A public socket of our own programs fails unless it can be the local    *)
(* end of a flow: in the ephemeral range, and not a declared inbound.      *)
LEMMA OwnSocketFails ==
    ASSUME NEW h, NEW l
    PROVE  /\ OwnSocket(h, l) \in {"Ok", "Info", "Warn", "Fail", "skip"}
           /\ OwnSocket(h, l) = "Fail" <=>
                 (l.udp /\ l.port \in Ephemeral =>
                   /\ h.conf \notin {"absent", "garbled"}
                   /\ TakesUdp(h.inbounds, l.port))
<1> DEFINE flow == l.udp /\ l.port \in Ephemeral
           own == <<TRUE, l.port>> \in declared_inbounds(h.inbounds)
           parses == h.conf \notin {"absent", "garbled"}
<1>1. OwnSocket(h, l) = IF ~flow THEN "Fail" ELSE IF ~parses THEN "Warn" ELSE IF own THEN "Fail" ELSE "Info"
  BY Zenon DEF OwnSocket, ConfigParses
<1>2. own <=> TakesUdp(h.inbounds, l.port)
  BY Declared, Zenon
<1> HIDE DEF own, flow, parses
<1>3. OwnSocket(h, l) \in {"Ok", "Info", "Warn", "Fail", "skip"} /\ (OwnSocket(h, l) = "Fail" <=> (flow => parses /\ own))
  BY <1>1
<1> QED
  BY <1>2, <1>3, Zenon DEF flow, parses

(* classify_public_surface fails for the sockets that Exposed names.       *)
LEMMA SurfaceFails ==
    ASSUME NEW h, NEW l
    PROVE  /\ classify_public_surface(h, l) \in {"Ok", "Info", "Warn", "Fail", "skip"}
           /\ classify_public_surface(h, l) = "Fail" <=> Exposed(h, l)
<1> DEFINE want == {e \in expected_singbox_vpn_ports : e.udp = l.udp /\ e.port = l.port}
           backend == ~l.udp /\ l.port = BackendPort
           ssh == ~l.udp /\ l.port = detect_ssh_port(h)
           fits == l.owner = "unknown" \/ \E e \in want : e.owner = l.owner
           own == is_singbox_vpn_process(l.owner)
           dhcp == l.udp /\ l.port = 68 /\ l.owner = "systemd-network" /\ l.dev
           s == OwnSocket(h, l)
<1>1. classify_public_surface(h, l) =
         IF backend THEN IF l.lo THEN "Ok" ELSE "Fail"
         ELSE IF ssh THEN "Ok"
         ELSE IF want # {} THEN IF fits THEN "Ok" ELSE "Fail"
         ELSE IF l.lo THEN "skip" ELSE IF own THEN s ELSE IF dhcp THEN "Info" ELSE "Warn"
  BY Zenon DEF classify_public_surface
<1>2. Exposed(h, l) <=>
         IF backend THEN ~l.lo
         ELSE IF ssh THEN FALSE
         ELSE IF want # {} THEN \A e \in want : l.owner \notin {"unknown", e.owner}
         ELSE ~l.lo /\ own /\ s = "Fail"
  BY OwnSocketFails, Zenon DEF Exposed, is_singbox_vpn_process
<1>3. want # {} => (~fits <=> \A e \in want : l.owner \notin {"unknown", e.owner})
  BY Zenon
<1>4. s \in {"Ok", "Info", "Warn", "Fail", "skip"}
  BY OwnSocketFails, Zenon
<1> HIDE DEF want, backend, ssh, fits, own, dhcp, s
<1>5. CASE backend
  BY <1>1, <1>2, <1>5
<1>6. CASE ~backend /\ ssh
  BY <1>1, <1>2, <1>6
<1>7. CASE ~backend /\ ~ssh /\ want # {}
  BY <1>1, <1>2, <1>3, <1>7
<1>8. CASE ~backend /\ ~ssh /\ want = {}
  BY <1>1, <1>2, <1>4, <1>8
<1> QED
  BY <1>5, <1>6, <1>7, <1>8, Zenon

(* check_expected_public_surface judges every socket that ss lists, in     *)
(* whatever order.                                                         *)
LEMMA PublicFails ==
    ASSUME NEW h, h.sockets \in Seq(Socket)
    PROVE  /\ check_expected_public_surface(h) \in Seq(Findings)
           /\ Fails(check_expected_public_surface(h)) <=>
                 h.ss /\ \E i \in DOMAIN h.sockets : Exposed(h, h.sockets[i])
<1> DEFINE st(i) == classify_public_surface(h, h.sockets[i])
           skipped == \A i \in DOMAIN h.sockets : st(i) = "skip"
           all == [i \in DOMAIN h.sockets |-> Tallied(st(i))]
           a == IF detect_ssh_port(h) = 0 THEN <<Info>> ELSE <<>>
           b == IF skipped THEN <<Warn>> ELSE all
<1>1. check_expected_public_surface(h) = IF ~h.ss THEN <<Warn>> ELSE a \o b
  BY Zenon DEF check_expected_public_surface
<1>2. a \in Seq(Findings) /\ ~Fails(a)
  BY Singles, Zenon
<1>3. \A i : /\ st(i) \in {"Ok", "Info", "Warn", "Fail", "skip"}
             /\ st(i) = "Fail" <=> Exposed(h, h.sockets[i])
  BY SurfaceFails, Zenon
<1> HIDE DEF st
<1>4. \A i : Tallied(st(i)) \in Findings /\ (Tallied(st(i)).counted <=> st(i) = "Fail")
  BY <1>3, Tally, Zenon
<1>5. DOMAIN h.sockets = 1..Len(h.sockets) /\ Len(h.sockets) \in Nat
  OBVIOUS
<1>6. all \in Seq(Findings)
  BY <1>4, <1>5
<1>7. Fails(all) <=> \E i \in DOMAIN h.sockets : st(i) = "Fail"
  <2>1. DOMAIN all = DOMAIN h.sockets /\ \A i \in DOMAIN h.sockets : all[i] = Tallied(st(i))
    BY Zenon
  <2> HIDE DEF all
  <2> QED
    BY <1>4, <2>1, Zenon DEF Fails
<1>8. skipped => ~\E i \in DOMAIN h.sockets : st(i) = "Fail"
  OBVIOUS
<1> HIDE DEF a, all, skipped
<1>9. b \in Seq(Findings) /\ (Fails(b) <=> \E i \in DOMAIN h.sockets : st(i) = "Fail")
  BY <1>6, <1>7, <1>8, Singles, Zenon
<1> HIDE DEF b
<1>10. a \o b \in Seq(Findings) /\ (Fails(a \o b) <=> Fails(b))
  BY <1>2, <1>9, Joined, Zenon
<1> QED
  BY <1>1, <1>3, <1>9, <1>10, Singles, Zenon

(* The checks that inform or warn and never fail.                          *)
LEMMA ReportsOnly ==
    ASSUME NEW h
    PROVE  /\ check_watchdog(h) \in Seq(Findings) /\ ~Fails(check_watchdog(h))
           /\ own_address_egress_rule_report(h) \in Seq(Findings) /\ ~Fails(own_address_egress_rule_report(h))
           /\ classify_host_ipv6(h.ipv6) \in Seq(Findings) /\ ~Fails(classify_host_ipv6(h.ipv6))
           /\ singbox_version_consistency_report(h.versions) \in Seq(Findings)
           /\ ~Fails(singbox_version_consistency_report(h.versions))
           /\ check_firewall_zone_and_ownership \in Seq(Findings) /\ ~Fails(check_firewall_zone_and_ownership)
<1>1. check_watchdog(h) \in {<<Ok>>, <<Warn>>}
  BY Zenon DEF check_watchdog
<1>2. own_address_egress_rule_report(h) \in {<<>>, <<Ok>>, <<Warn>>}
  BY Zenon DEF own_address_egress_rule_report
<1>3. classify_host_ipv6(h.ipv6) \in {<<Info>>, <<Ok>>, <<Warn>>}
  BY DEF classify_host_ipv6
<1>4. singbox_version_consistency_report(h.versions) \in {<<>>, <<Ok>>, <<Warn>>}
  BY Zenon DEF singbox_version_consistency_report
<1>5. check_firewall_zone_and_ownership = <<Info>> \o <<Info>>
  BY DEF check_firewall_zone_and_ownership
<1>6. <<Info>> \o <<Info>> \in Seq(Findings) /\ ~Fails(<<Info>> \o <<Info>>)
  BY Singles, Joined, Zenon
<1> QED
  BY <1>1, <1>2, <1>3, <1>4, <1>5, <1>6, Singles, Zenon

(* check_host_egress_isolation_table fails for a table that lets the       *)
(* isolated ranges through.                                                *)
LEMMA TableFails ==
    ASSUME NEW h
    PROVE  /\ check_host_egress_isolation_table(h) \in Seq(Findings)
           /\ Fails(check_host_egress_isolation_table(h)) <=> h.table = "negated"
<1> DEFINE r == classify_egress_isolation_table(h.table)
<1>1. r \in {"Ok", "Info", "Warn", "Fail", "skip"} /\ (r = "Fail" <=> h.table = "negated")
  BY DEF classify_egress_isolation_table
<1>2. check_host_egress_isolation_table(h) = <<Tallied(r)>>
  BY Zenon DEF check_host_egress_isolation_table
<1> HIDE DEF r
<1>3. Tallied(r) \in Findings /\ (Tallied(r).counted <=> r = "Fail")
  BY <1>1, Tally, Zenon
<1> QED
  BY <1>1, <1>2, <1>3, Single, Zenon

(* resolve_hostname_with_retry answers with the first attempt that found   *)
(* an address, and with nothing when none did.                             *)
LEMMA Resolved ==
    ASSUME NEW answers
    PROVE  LET res == resolve_hostname_with_retry(answers)
           IN  /\ res.addrs = {} <=> \A i \in 1..Attempts : answers[i] = {}
               /\ "v6" \in res.addrs <=>
                     \E i \in 1..Attempts : "v6" \in answers[i] /\ \A j \in 1..(i - 1) : answers[j] = {}
<1> DEFINE good == {i \in 1..Attempts : answers[i] # {}}
           n == CHOOSE i \in good : \A j \in good : i <= j
           res == resolve_hostname_with_retry(answers)
<1>1. 1..Attempts = {1, 2, 3}
  BY DEF Attempts
<1>2. CASE good = {}
  <2>1. res = [addrs |-> {}, attempts |-> Attempts]
    BY <1>2, Zenon DEF resolve_hostname_with_retry
  <2>2. res.addrs = {}
    BY <2>1
  <2>3. \A i \in 1..Attempts : answers[i] = {}
    BY <1>2, Zenon
  <2> HIDE DEF res, good
  <2> QED
    BY <2>2, <2>3, Zenon DEF res
<1>3. CASE good # {}
  <2>1. \E i \in good : \A j \in good : i <= j
    <3>1. good \subseteq {1, 2, 3}
      BY <1>1, Zenon
    <3> HIDE DEF good
    <3>2. CASE 1 \in good
      BY <3>1, <3>2
    <3>3. CASE 1 \notin good /\ 2 \in good
      BY <3>1, <3>3
    <3>4. CASE 1 \notin good /\ 2 \notin good
      <4>1. 3 \in good
        BY <1>3, <3>1, <3>4, Zenon
      <4> QED
        BY <3>1, <3>4, <4>1
    <3> QED
      BY <3>2, <3>3, <3>4, Zenon
  <2>2. n \in good /\ \A j \in good : n <= j
    BY <2>1, Zenon
  <2>3. res = [addrs |-> answers[n], attempts |-> n]
    BY <1>3, Zenon DEF resolve_hostname_with_retry
  <2> HIDE DEF n, res
  <2>4. res.addrs = answers[n]
    BY <2>3
  <2>5. n \in 1..Attempts /\ answers[n] # {} /\ \A j \in 1..Attempts : answers[j] # {} => n <= j
    BY <2>2, Zenon
  <2>6. \A j \in 1..(n - 1) : answers[j] = {}
    BY <1>1, <2>5
  <2>7. ASSUME NEW i \in 1..Attempts, "v6" \in answers[i], \A j \in 1..(i - 1) : answers[j] = {}
        PROVE  i = n
    <3>1. n <= i
      BY <2>5, <2>7, Zenon
    <3>2. ~(n <= i - 1)
      BY <1>1, <2>5, <2>7
    <3> QED
      BY <1>1, <2>5, <3>1, <3>2
  <2>8. "v6" \in answers[n] <=>
           \E i \in 1..Attempts : "v6" \in answers[i] /\ \A j \in 1..(i - 1) : answers[j] = {}
    BY <2>5, <2>6, <2>7, Zenon
  <2>9. res.addrs # {} /\ ~\A i \in 1..Attempts : answers[i] = {}
    BY <2>4, <2>5, Zenon
  <2> QED
    BY <2>4, <2>8, <2>9, Zenon DEF res
<1> QED
  BY <1>2, <1>3, Zenon

(* check_public_hostname_and_ipv6_policy fails for a name that does not    *)
(* resolve, or one that promises IPv6 where UDP over IPv6 does not pass.   *)
LEMMA HostnameFails ==
    ASSUME NEW h, h.udp6 \subseteq {"yes", "no"}
    PROVE  /\ check_public_hostname_and_ipv6_policy(h) \in Seq(Findings)
           /\ Fails(check_public_hostname_and_ipv6_policy(h)) <=>
                 \/ \A i \in 1..Attempts : h.dns[i] = {}
                 \/ /\ h.udp6 = {"no"}
                    /\ \E i \in 1..Attempts : "v6" \in h.dns[i] /\ \A j \in 1..(i - 1) : h.dns[j] = {}
<1> DEFINE res == resolve_hostname_with_retry(h.dns)
           six == "v6" \in res.addrs
           p == ipv6_posture_report(classify_ipv6_posture(six, run_udp_probe_candidates(h.udp6)))
           a == IF res.attempts > 1 THEN <<Info>> ELSE <<>>
           b == IF "v4" \notin res.addrs THEN <<Warn>> ELSE <<>>
<1>1. check_public_hostname_and_ipv6_policy(h) =
         IF res.addrs = {} THEN <<Fail>> ELSE a \o <<Ok>> \o b \o <<p>>
  BY Zenon DEF check_public_hostname_and_ipv6_policy
<1>2. a \in Seq(Findings) /\ ~Fails(a) /\ b \in Seq(Findings) /\ ~Fails(b)
  BY Singles, Zenon
<1>3. /\ res.addrs = {} <=> \A i \in 1..Attempts : h.dns[i] = {}
      /\ six <=> \E i \in 1..Attempts : "v6" \in h.dns[i] /\ \A j \in 1..(i - 1) : h.dns[j] = {}
  BY Resolved
<1>4. res.addrs = {} => ~six
  BY Zenon
<1> HIDE DEF a, b, six
<1>5. p \in Findings /\ (p.counted <=> six /\ h.udp6 = {"no"})
  <2> DEFINE run == run_udp_probe_candidates(h.udp6)
             c == classify_ipv6_posture(six, run)
  <2>1. run = "no" <=> h.udp6 = {"no"}
    BY Resolvers, Zenon
  <2> HIDE DEF run
  <2>2. c = "AaaaEgressBroken" <=> six /\ run = "no"
    BY DEF classify_ipv6_posture
  <2> HIDE DEF c
  <2>3. /\ c = "AaaaEgressBroken" => ipv6_posture_report(c) = Fail
        /\ c # "AaaaEgressBroken" => ipv6_posture_report(c) \in {Info, Ok, Warn}
    BY DEF ipv6_posture_report
  <2> QED
    BY <2>1, <2>2, <2>3, FindingFacts, Zenon DEF Findings, c, run
<1> HIDE DEF p, res
<1>6. a \o <<Ok>> \in Seq(Findings) /\ ~Fails(a \o <<Ok>>)
  BY <1>2, Singles, Joined, Zenon
<1>7. a \o <<Ok>> \o b \in Seq(Findings) /\ ~Fails(a \o <<Ok>> \o b)
  BY <1>2, <1>6, Joined, Zenon
<1>8. a \o <<Ok>> \o b \o <<p>> \in Seq(Findings) /\ (Fails(a \o <<Ok>> \o b \o <<p>>) <=> p.counted)
  BY <1>5, <1>7, Single, Joined, Zenon
<1> QED
  BY <1>1, <1>3, <1>4, <1>5, <1>8, Singles, Zenon

(* The two pressure checks only warn.                                      *)
LEMMA PressureFails ==
    ASSUME NEW h
    PROVE  /\ check_conntrack_pressure(h) \in Seq(Findings) /\ ~Fails(check_conntrack_pressure(h))
           /\ check_udp_memory_pressure(h) \in Seq(Findings) /\ ~Fails(check_udp_memory_pressure(h))
<1> DEFINE of(s) == IF s = {} THEN <<Info>> ELSE conntrack_pressure_report(CHOOSE p \in s : TRUE)
<1>1. \A s : of(s) \in {<<Info>>, <<Warn>>, <<Ok>>}
  BY Zenon DEF conntrack_pressure_report
<1>2. \A s : of(s) \in Seq(Findings) /\ ~Fails(of(s))
  <2> HIDE DEF of
  <2> QED
    BY <1>1, Singles, Zenon
<1>3. <<Info, Info>> = <<Info>> \o <<Info>>
  OBVIOUS
<1>4. /\ check_conntrack_pressure(h) = of(h.conntrack) \o (<<Info>> \o <<Info>>)
      /\ check_udp_memory_pressure(h) = of(h.udpmem) \o <<Info>>
  <2>1. check_conntrack_pressure(h) = of(h.conntrack) \o <<Info, Info>>
    BY DEF check_conntrack_pressure
  <2>2. check_udp_memory_pressure(h) = of(h.udpmem) \o <<Info>>
    BY DEF check_udp_memory_pressure
  <2> HIDE DEF of
  <2> QED
    BY <1>3, <2>1, <2>2, Zenon
<1> HIDE DEF of
<1>5. <<Info>> \o <<Info>> \in Seq(Findings) /\ ~Fails(<<Info>> \o <<Info>>)
  BY Singles, Joined, Zenon
<1>6. of(h.conntrack) \o (<<Info>> \o <<Info>>) \in Seq(Findings) /\ ~Fails(of(h.conntrack) \o (<<Info>> \o <<Info>>))
  BY <1>2, <1>5, Joined, Zenon
<1>7. of(h.udpmem) \o <<Info>> \in Seq(Findings) /\ ~Fails(of(h.udpmem) \o <<Info>>)
  BY <1>2, Singles, Joined, ZenonT(30)
<1> QED
  BY <1>4, <1>6, <1>7, Zenon

(* evaluate_release only informs and warns.                                *)
LEMMA ReleaseReported ==
    ASSUME NEW r
    PROVE  <<evaluate_release(r), Info>> \in Seq(Findings) /\ ~Fails(<<evaluate_release(r), Info>>)
<1> DEFINE e == evaluate_release(r)
<1>1. e \in {Warn, Info, Ok}
  BY Zenon DEF evaluate_release
<1> HIDE DEF e
<1>2. <<e>> \in Seq(Findings) /\ ~Fails(<<e>>)
  BY <1>1, Singles, Zenon
<1>3. <<e, Info>> = <<e>> \o <<Info>>
  OBVIOUS
<1>4. <<Info>> \in Seq(Findings) /\ ~Fails(<<Info>>)
  BY Singles, Zenon
<1>5. <<e>> \o <<Info>> \in Seq(Findings) /\ ~Fails(<<e>> \o <<Info>>)
  BY <1>2, <1>4, Joined, Zenon
<1>6. <<e, Info>> \in Seq(Findings) /\ ~Fails(<<e, Info>>)
  BY <1>3, <1>5, Zenon
<1> QED
  BY <1>6, Zenon DEF e

(* When check_l4_subscription_coherence fails; without the keys or the     *)
(* user store it has nothing to compare.                                   *)
LEMMA CoherenceFails ==
    ASSUME NEW h, h.conf \in Confs
    PROVE  /\ check_l4_subscription_coherence(h) \in Seq(Findings)
           /\ Fails(check_l4_subscription_coherence(h)) <=>
                 /\ LoadsReality(h) /\ h.store
                 /\ ~h.renders \/ ~h.policy \/ h.spoof = "incapable" \/ h.conf \in {"stale", "invalid"}
<1> DEFINE v == IF h.verbose THEN <<Warn>> ELSE <<>>
           t == report_tls_spoof_capability(h.spoof)
           e == IF h.policy THEN <<>> ELSE <<Fail>>
           g == CASE h.egress = "declared" -> <<Info>> [] h.egress = "undeclared6" -> <<Warn>> [] OTHER -> <<>>
           o == IF h.policy THEN Ok ELSE Fail
           u == IF h.unpaired THEN <<Warn>> ELSE <<>>
           r == IF h.role = "exit" THEN e \o g ELSE <<o>> \o u
           c == CASE ~ConfigParses(h) -> <<Warn>> [] h.conf = "fresh" -> <<Ok>> [] OTHER -> <<Fail>>
<1>1. check_l4_subscription_coherence(h) =
         IF ~LoadsReality(h) \/ ~h.store THEN <<Warn>>
         ELSE IF ~h.renders THEN <<Fail>> ELSE v \o t \o r \o <<Ok>> \o c
  BY Zenon DEF check_l4_subscription_coherence, report_role_policy
<1>2. v \in Seq(Findings) /\ ~Fails(v) /\ u \in Seq(Findings) /\ ~Fails(u)
  BY Singles, Zenon
<1>3. t \in Seq(Findings) /\ (Fails(t) <=> h.spoof = "incapable")
  BY Singles DEF report_tls_spoof_capability
<1>4. e \in Seq(Findings) /\ (Fails(e) <=> ~h.policy)
  BY Singles, Zenon
<1>5. g \in Seq(Findings) /\ ~Fails(g)
  <2>1. g \in {<<Info>>, <<Warn>>, <<>>}
    OBVIOUS
  <2> HIDE DEF g
  <2> QED
    BY <2>1, Singles, Zenon
<1>6. <<o>> \in Seq(Findings) /\ (Fails(<<o>>) <=> ~h.policy)
  BY Singles, Zenon
<1>7. c \in Seq(Findings) /\ (Fails(c) <=> h.conf \in {"stale", "invalid"})
  BY Singles DEF ConfigParses, Confs
<1> HIDE DEF v, t, e, g, o, u, c
<1>8. r \in Seq(Findings) /\ (Fails(r) <=> ~h.policy)
  <2>1. e \o g \in Seq(Findings) /\ (Fails(e \o g) <=> ~h.policy)
    BY <1>4, <1>5, Joined, Zenon
  <2>2. <<o>> \o u \in Seq(Findings) /\ (Fails(<<o>> \o u) <=> ~h.policy)
    BY <1>2, <1>6, Joined, Zenon
  <2> QED
    BY <2>1, <2>2, Zenon
<1> HIDE DEF r
<1>9. /\ v \o t \o r \o <<Ok>> \o c \in Seq(Findings)
      /\ Fails(v \o t \o r \o <<Ok>> \o c) <=>
            h.spoof = "incapable" \/ ~h.policy \/ h.conf \in {"stale", "invalid"}
  <2>0. <<Ok>> \in Seq(Findings) /\ ~Fails(<<Ok>>)
    BY Singles, Zenon
  <2>1. v \o t \in Seq(Findings) /\ (Fails(v \o t) <=> Fails(t))
    BY <1>2, <1>3, Joined, Zenon
  <2>2. v \o t \o r \in Seq(Findings) /\ (Fails(v \o t \o r) <=> Fails(t) \/ Fails(r))
    BY <2>1, <1>8, Joined, Zenon
  <2>3. v \o t \o r \o <<Ok>> \in Seq(Findings) /\ (Fails(v \o t \o r \o <<Ok>>) <=> Fails(t) \/ Fails(r))
    BY <2>0, <2>2, Joined, Zenon
  <2>4. /\ v \o t \o r \o <<Ok>> \o c \in Seq(Findings)
        /\ Fails(v \o t \o r \o <<Ok>> \o c) <=> Fails(t) \/ Fails(r) \/ Fails(c)
    BY <1>7, <2>3, Joined, Zenon
  <2> QED
    BY <1>3, <1>7, <1>8, <2>4, Zenon
<1> QED
  BY <1>1, <1>9, Singles, Zenon

(* check_l4_live_subscription_process_state fails when the running process *)
(* serves another state.                                                   *)
LEMMA LiveFails ==
    ASSUME NEW h
    PROVE  /\ check_l4_live_subscription_process_state(h) \in Seq(Findings)
           /\ Fails(check_l4_live_subscription_process_state(h)) <=> LoadsReality(h) /\ h.live = "stale"
<1> DEFINE c == CASE h.live = "same" -> <<Ok>> [] h.live = "stale" -> <<Fail>> [] OTHER -> <<Warn>>
<1>1. c \in Seq(Findings) /\ (Fails(c) <=> h.live = "stale")
  BY Singles
<1>2. check_l4_live_subscription_process_state(h) = IF ~LoadsReality(h) THEN <<Warn>> ELSE c
  BY Zenon DEF check_l4_live_subscription_process_state
<1> HIDE DEF c
<1> QED
  BY <1>1, <1>2, Singles, Zenon

(* The first four layers fail exactly when one of their checks does.       *)
LEMMA ChecksJoined ==
    ASSUME NEW h, IsHost(h)
    PROVE  /\ l1_l4_checks(h) \in Seq(Findings)
           /\ Fails(l1_l4_checks(h)) <=>
                 \/ Fails(check_binary_and_config(h))
                 \/ Fails(check_reality_keys(h))
                 \/ Fails(check_user_store(h))
                 \/ Fails(check_hysteria_material(h))
                 \/ Fails(report_cert_expiry(h.webcert))
                 \/ Fails(check_service(h.singbox))
                 \/ Fails(check_service(h.subscription))
                 \/ Fails(check_reconcile(h))
                 \/ Fails(check_firewall(h))
                 \/ Fails(check_listeners(h))
                 \/ Fails(check_udp_egress(h))
                 \/ Fails(check_expected_public_surface(h))
                 \/ Fails(check_host_egress_isolation_table(h))
                 \/ Fails(check_l4_subscription_coherence(h))
                 \/ Fails(check_l4_live_subscription_process_state(h))
                 \/ Fails(check_public_hostname_and_ipv6_policy(h))
<1>h. /\ h.conf \in Confs
      /\ h.singbox \in {"active"} \cup Units /\ h.subscription \in {"active"} \cup Units
      /\ h.timer \in Timers
      /\ h.hycert.left \in Int /\ h.webcert.left \in Int
      /\ h.udp4 \subseteq {"yes", "no"} /\ h.udp6 \subseteq {"yes", "no"}
      /\ h.sockets \in Seq(Socket)
  BY Zenon DEF IsHost
<1> DEFINE c1 == check_binary_and_config(h)
           c2 == c1 \o check_reality_keys(h)
           c3 == c2 \o check_user_store(h)
           c4 == c3 \o check_hysteria_material(h)
           c5 == c4 \o report_cert_expiry(h.webcert)
           c6 == c5 \o check_service(h.singbox)
           c7 == c6 \o check_service(h.subscription)
           c8 == c7 \o check_reconcile(h)
           c9 == c8 \o check_watchdog(h)
           c10 == c9 \o check_firewall(h)
           c11 == c10 \o check_listeners(h)
           c12 == c11 \o check_udp_egress(h)
           c13 == c12 \o own_address_egress_rule_report(h)
           c14 == c13 \o check_expected_public_surface(h)
           c15 == c14 \o classify_host_ipv6(h.ipv6)
           c16 == c15 \o check_host_egress_isolation_table(h)
           c17 == c16 \o check_firewall_zone_and_ownership
           c18 == c17 \o check_l4_subscription_coherence(h)
           c19 == c18 \o check_l4_live_subscription_process_state(h)
           c20 == c19 \o check_public_hostname_and_ipv6_policy(h)
           c21 == c20 \o check_conntrack_pressure(h)
           c22 == c21 \o check_udp_memory_pressure(h)
           c23 == c22 \o singbox_version_consistency_report(h.versions)
           c24 == c23 \o <<evaluate_release(h.release), Info>>
<1>e. l1_l4_checks(h) = c24
  BY DEF l1_l4_checks
<1> HIDE DEF c2, c3, c4, c5, c6, c7, c8, c9, c10, c11, c12, c13, c14, c15, c16, c17, c18, c19, c20, c21, c22, c23, c24
<1>1. c1 \in Seq(Findings)
  BY BinaryFails, Zenon
<1>2. c2 \in Seq(Findings) /\ (Fails(c2) <=> Fails(c1) \/ Fails(check_reality_keys(h)))
  <2>1. check_reality_keys(h) \in Seq(Findings)
    BY KeysFail, Zenon
  <2> QED
    BY <1>1, <2>1, Joined, Zenon DEF c2
<1>3. c3 \in Seq(Findings) /\ (Fails(c3) <=> Fails(c2) \/ Fails(check_user_store(h)))
  <2>1. check_user_store(h) \in Seq(Findings)
    BY StoreFails, Zenon
  <2> QED
    BY <1>2, <2>1, Joined, Zenon DEF c3
<1>4. c4 \in Seq(Findings) /\ (Fails(c4) <=> Fails(c3) \/ Fails(check_hysteria_material(h)))
  <2>1. check_hysteria_material(h) \in Seq(Findings)
    BY <1>h, MaterialFails, Zenon
  <2> QED
    BY <1>3, <2>1, Joined, Zenon DEF c4
<1>5. c5 \in Seq(Findings) /\ (Fails(c5) <=> Fails(c4) \/ Fails(report_cert_expiry(h.webcert)))
  <2>1. report_cert_expiry(h.webcert) \in Seq(Findings)
    BY <1>h, CertFails, Zenon
  <2> QED
    BY <1>4, <2>1, Joined, Zenon DEF c5
<1>6. c6 \in Seq(Findings) /\ (Fails(c6) <=> Fails(c5) \/ Fails(check_service(h.singbox)))
  <2>1. check_service(h.singbox) \in Seq(Findings)
    BY <1>h, ServiceFails, Zenon
  <2> QED
    BY <1>5, <2>1, Joined, Zenon DEF c6
<1>7. c7 \in Seq(Findings) /\ (Fails(c7) <=> Fails(c6) \/ Fails(check_service(h.subscription)))
  <2>1. check_service(h.subscription) \in Seq(Findings)
    BY <1>h, ServiceFails, Zenon
  <2> QED
    BY <1>6, <2>1, Joined, Zenon DEF c7
<1>8. c8 \in Seq(Findings) /\ (Fails(c8) <=> Fails(c7) \/ Fails(check_reconcile(h)))
  <2>1. check_reconcile(h) \in Seq(Findings)
    BY <1>h, ReconcileFails, Zenon
  <2> QED
    BY <1>7, <2>1, Joined, Zenon DEF c8
<1>9. c9 \in Seq(Findings) /\ (Fails(c9) <=> Fails(c8))
  <2>1. check_watchdog(h) \in Seq(Findings) /\ ~Fails(check_watchdog(h))
    BY ReportsOnly, Zenon
  <2> QED
    BY <1>8, <2>1, Joined, Zenon DEF c9
<1>10. c10 \in Seq(Findings) /\ (Fails(c10) <=> Fails(c9) \/ Fails(check_firewall(h)))
  <2>1. check_firewall(h) \in Seq(Findings)
    BY FirewallFails, Zenon
  <2> QED
    BY <1>9, <2>1, Joined, Zenon DEF c10
<1>11. c11 \in Seq(Findings) /\ (Fails(c11) <=> Fails(c10) \/ Fails(check_listeners(h)))
  <2>1. check_listeners(h) \in Seq(Findings)
    BY ListenersFail, Zenon
  <2> QED
    BY <1>10, <2>1, Joined, Zenon DEF c11
<1>12. c12 \in Seq(Findings) /\ (Fails(c12) <=> Fails(c11) \/ Fails(check_udp_egress(h)))
  <2>1. check_udp_egress(h) \in Seq(Findings)
    BY <1>h, EgressFails, Zenon
  <2> QED
    BY <1>11, <2>1, Joined, Zenon DEF c12
<1>13. c13 \in Seq(Findings) /\ (Fails(c13) <=> Fails(c12))
  <2>1. own_address_egress_rule_report(h) \in Seq(Findings) /\ ~Fails(own_address_egress_rule_report(h))
    BY ReportsOnly, Zenon
  <2> QED
    BY <1>12, <2>1, Joined, Zenon DEF c13
<1>14. c14 \in Seq(Findings) /\ (Fails(c14) <=> Fails(c13) \/ Fails(check_expected_public_surface(h)))
  <2>1. check_expected_public_surface(h) \in Seq(Findings)
    BY <1>h, PublicFails, Zenon
  <2> QED
    BY <1>13, <2>1, Joined, Zenon DEF c14
<1>15. c15 \in Seq(Findings) /\ (Fails(c15) <=> Fails(c14))
  <2>1. classify_host_ipv6(h.ipv6) \in Seq(Findings) /\ ~Fails(classify_host_ipv6(h.ipv6))
    BY ReportsOnly, Zenon
  <2> QED
    BY <1>14, <2>1, Joined, Zenon DEF c15
<1>16. c16 \in Seq(Findings) /\ (Fails(c16) <=> Fails(c15) \/ Fails(check_host_egress_isolation_table(h)))
  <2>1. check_host_egress_isolation_table(h) \in Seq(Findings)
    BY TableFails, Zenon
  <2> QED
    BY <1>15, <2>1, Joined, Zenon DEF c16
<1>17. c17 \in Seq(Findings) /\ (Fails(c17) <=> Fails(c16))
  <2>1. check_firewall_zone_and_ownership \in Seq(Findings) /\ ~Fails(check_firewall_zone_and_ownership)
    BY ReportsOnly, Zenon
  <2> QED
    BY <1>16, <2>1, Joined, Zenon DEF c17
<1>18. c18 \in Seq(Findings) /\ (Fails(c18) <=> Fails(c17) \/ Fails(check_l4_subscription_coherence(h)))
  <2>1. check_l4_subscription_coherence(h) \in Seq(Findings)
    BY <1>h, CoherenceFails, Zenon
  <2> QED
    BY <1>17, <2>1, Joined, Zenon DEF c18
<1>19. c19 \in Seq(Findings) /\ (Fails(c19) <=> Fails(c18) \/ Fails(check_l4_live_subscription_process_state(h)))
  <2>1. check_l4_live_subscription_process_state(h) \in Seq(Findings)
    BY LiveFails, Zenon
  <2> QED
    BY <1>18, <2>1, Joined, Zenon DEF c19
<1>20. c20 \in Seq(Findings) /\ (Fails(c20) <=> Fails(c19) \/ Fails(check_public_hostname_and_ipv6_policy(h)))
  <2>1. check_public_hostname_and_ipv6_policy(h) \in Seq(Findings)
    BY <1>h, HostnameFails, Zenon
  <2> QED
    BY <1>19, <2>1, Joined, Zenon DEF c20
<1>21. c21 \in Seq(Findings) /\ (Fails(c21) <=> Fails(c20))
  <2>1. check_conntrack_pressure(h) \in Seq(Findings) /\ ~Fails(check_conntrack_pressure(h))
    BY PressureFails, Zenon
  <2> QED
    BY <1>20, <2>1, Joined, Zenon DEF c21
<1>22. c22 \in Seq(Findings) /\ (Fails(c22) <=> Fails(c21))
  <2>1. check_udp_memory_pressure(h) \in Seq(Findings) /\ ~Fails(check_udp_memory_pressure(h))
    BY PressureFails, Zenon
  <2> QED
    BY <1>21, <2>1, Joined, Zenon DEF c22
<1>23. c23 \in Seq(Findings) /\ (Fails(c23) <=> Fails(c22))
  <2>1. singbox_version_consistency_report(h.versions) \in Seq(Findings) /\ ~Fails(singbox_version_consistency_report(h.versions))
    BY ReportsOnly, Zenon
  <2> QED
    BY <1>22, <2>1, Joined, Zenon DEF c23
<1>24. c24 \in Seq(Findings) /\ (Fails(c24) <=> Fails(c23))
  <2>1. <<evaluate_release(h.release), Info>> \in Seq(Findings) /\ ~Fails(<<evaluate_release(h.release), Info>>)
    BY ReleaseReported, Zenon
  <2> QED
    BY <1>23, <2>1, Joined, Zenon DEF c24
<1> QED
  BY <1>1, <1>2, <1>3, <1>4, <1>5, <1>6, <1>7, <1>8, <1>9, <1>10, <1>11, <1>12, <1>13, <1>14, <1>15, <1>16, <1>17, <1>18, <1>19, <1>20, <1>21, <1>22, <1>23, <1>24, <1>e, Zenon

(* The first four layers fail exactly for the hosts that Broken names.     *)
LEMMA LayersFail ==
    ASSUME NEW h, IsHost(h)
    PROVE  Fails(l1_l4_checks(h)) <=> Broken(h)
<1> DEFINE keys == h.pair /\ \A f \in {"private", "public", "short_id"} : h.files[f] # "absent"
           material == \/ ~h.binary \/ ~h.pair \/ ~h.store
                       \/ \E f \in Files : h.files[f] = "bad" /\ (f = "config" => h.conf # "absent")
                       \/ "absent" \in {h.files["private"], h.files["public"]}
                       \/ h.conf \in {"invalid", "garbled"}
                       \/ Expired(h.hycert) /\ h.files["cert"] # "absent"
                       \/ Expired(h.webcert)
           services == \/ {h.singbox, h.subscription} \cap {"failed", "inactive"} # {}
                       \/ h.reconcile = "failed" \/ h.timer = "inactive"
                       \/ h.recorded \in {"firewalld", "none"} /\ h.firewalld = "inactive"
                           /\ ~(h.recorded = "none" /\ h.ufw = "active")
           surface == h.ss /\ \/ ~listener_reported_by_ss(h, RealityPort, FALSE)
                              \/ ~listener_reported_by_ss(h, HysteriaPort, TRUE)
                              \/ h.udp4 = {"no"}
                              \/ \E i \in DOMAIN h.sockets : Exposed(h, h.sockets[i])
           names == \/ h.table = "negated"
                    \/ \A i \in 1..Attempts : h.dns[i] = {}
                    \/ /\ h.udp6 = {"no"}
                       /\ \E i \in 1..Attempts : "v6" \in h.dns[i] /\ \A j \in 1..(i - 1) : h.dns[j] = {}
           coherent == \/ keys /\ (~h.renders \/ ~h.policy \/ h.spoof = "incapable" \/ h.conf = "stale")
                       \/ keys /\ h.live = "stale"
<1>h. /\ h.conf \in Confs
      /\ h.singbox \in {"active"} \cup Units /\ h.subscription \in {"active"} \cup Units
      /\ h.timer \in Timers
      /\ h.hycert.left \in Int /\ h.webcert.left \in Int
      /\ h.udp4 \subseteq {"yes", "no"} /\ h.udp6 \subseteq {"yes", "no"}
      /\ h.sockets \in Seq(Socket)
  BY Zenon DEF IsHost
<1>b. Broken(h) <=> material \/ services \/ surface \/ names \/ coherent
  BY Zenon DEF Broken
<1>1. material <=> \/ Fails(check_binary_and_config(h)) \/ Fails(check_reality_keys(h))
                   \/ Fails(check_user_store(h)) \/ Fails(check_hysteria_material(h))
                   \/ Fails(report_cert_expiry(h.webcert))
  <2>1. Fails(report_cert_expiry(h.webcert)) <=> Expired(h.webcert)
    BY <1>h, CertFails, Zenon
  <2>2. Fails(check_hysteria_material(h)) <=>
            \/ h.files["cert"] = "bad" \/ h.files["key"] = "bad" \/ h.files["obfs"] = "bad"
            \/ Expired(h.hycert) /\ h.files["cert"] # "absent"
    BY <1>h, MaterialFails, Zenon
  <2>3. (\E f \in Files : h.files[f] = "bad" /\ (f = "config" => h.conf # "absent")) <=>
            \/ h.conf # "absent" /\ h.files["config"] = "bad"
            \/ h.files["private"] = "bad" \/ h.files["public"] = "bad" \/ h.files["short_id"] = "bad"
            \/ h.files["users"] = "bad" \/ h.files["cert"] = "bad" \/ h.files["key"] = "bad"
            \/ h.files["obfs"] = "bad"
    BY DEF Files
  <2> QED
    BY <2>1, <2>2, <2>3, BinaryFails, KeysFail, StoreFails, Zenon
<1>2. services <=> \/ Fails(check_service(h.singbox)) \/ Fails(check_service(h.subscription))
                   \/ Fails(check_reconcile(h)) \/ Fails(check_firewall(h))
  <2>1. /\ Fails(check_service(h.singbox)) <=> h.singbox \in {"failed", "inactive"}
        /\ Fails(check_service(h.subscription)) <=> h.subscription \in {"failed", "inactive"}
    BY <1>h, ServiceFails, Zenon
  <2>2. Fails(check_reconcile(h)) <=> h.reconcile = "failed" \/ h.timer = "inactive"
    BY <1>h, ReconcileFails, Zenon
  <2>3. {h.singbox, h.subscription} \cap {"failed", "inactive"} # {} <=>
            h.singbox \in {"failed", "inactive"} \/ h.subscription \in {"failed", "inactive"}
    BY Zenon
  <2> QED
    BY <2>1, <2>2, <2>3, FirewallFails, Zenon
<1>3. surface <=> \/ Fails(check_listeners(h)) \/ Fails(check_udp_egress(h))
                  \/ Fails(check_expected_public_surface(h))
  BY <1>h, ListenersFail, EgressFails, PublicFails, Zenon
<1>4. names <=> Fails(check_host_egress_isolation_table(h)) \/ Fails(check_public_hostname_and_ipv6_policy(h))
  BY <1>h, TableFails, HostnameFails, Zenon
<1>5. LoadsReality(h) <=> keys
  BY Zenon DEF LoadsReality
<1>6. material \/ coherent <=> \/ material \/ Fails(check_l4_subscription_coherence(h))
                               \/ Fails(check_l4_live_subscription_process_state(h))
  <2>1. Fails(check_l4_subscription_coherence(h)) <=>
            /\ keys /\ h.store
            /\ ~h.renders \/ ~h.policy \/ h.spoof = "incapable" \/ h.conf \in {"stale", "invalid"}
    BY <1>5, <1>h, CoherenceFails, Zenon
  <2>2. Fails(check_l4_live_subscription_process_state(h)) <=> keys /\ h.live = "stale"
    BY <1>5, LiveFails, Zenon
  <2>3. (~h.store => material) /\ (h.conf = "invalid" => material)
    BY Zenon
  <2>4. h.conf \in {"stale", "invalid"} <=> h.conf = "stale" \/ h.conf = "invalid"
    OBVIOUS
  <2> HIDE DEF material, keys
  <2> QED
    BY <2>1, <2>2, <2>3, <2>4, Zenon
<1> HIDE DEF material, services, surface, names, coherent
<1> QED
  BY <1>b, <1>1, <1>2, <1>3, <1>4, <1>6, ChecksJoined, Zenon

(* What a self-test reports for the outcome of its dial.                   *)
Outcome(run, require) ==
    CASE run = "pass"         -> [res |-> "Passed", found |-> <<Ok>>]
      [] run = "rejected"     -> [res |-> "Failed", found |-> <<Fail>>]
      [] run = "inconclusive" -> [res |-> "Inconclusive", found |-> report_protocol_unavailable(require)]
      [] OTHER                -> [res |-> "NotRun", found |-> report_protocol_unavailable(require)]

(* A refused dial always fails; one that did not pass fails under          *)
(* --require-protocol.                                                     *)
LEMMA Outcomes ==
    ASSUME NEW run, NEW require
    PROVE  /\ Outcome(run, require).found \in Seq(Findings)
           /\ Outcome(run, require).res = "Passed" <=> run = "pass"
           /\ Outcome(run, require).res = "Failed" <=> run = "rejected"
           /\ Fails(Outcome(run, require).found) <=> run = "rejected" \/ (require /\ run # "pass")
<1> DEFINE u == report_protocol_unavailable(require)
<1>1. u \in Seq(Findings) /\ (Fails(u) <=> require)
  BY Singles, Zenon DEF report_protocol_unavailable
<1>2. CASE run = "pass"
  <2>1. Outcome(run, require) = [res |-> "Passed", found |-> <<Ok>>]
    BY <1>2 DEF Outcome
  <2>2. Outcome(run, require).res = "Passed" /\ Outcome(run, require).found = <<Ok>>
    BY <2>1
  <2> QED
    BY <1>2, <2>2, Singles, Zenon
<1>3. CASE run = "rejected"
  <2>1. Outcome(run, require) = [res |-> "Failed", found |-> <<Fail>>]
    BY <1>3 DEF Outcome
  <2>2. Outcome(run, require).res = "Failed" /\ Outcome(run, require).found = <<Fail>>
    BY <2>1
  <2> QED
    BY <1>3, <2>2, Singles, Zenon
<1> HIDE DEF u
<1>4. CASE run \notin {"pass", "rejected"}
  <2>1. Outcome(run, require) \in {[res |-> "Inconclusive", found |-> u], [res |-> "NotRun", found |-> u]}
    BY <1>4 DEF Outcome, u
  <2>2. Outcome(run, require).res \in {"Inconclusive", "NotRun"} /\ Outcome(run, require).found = u
    BY <2>1
  <2>3. Outcome(run, require).res # "Passed" /\ Outcome(run, require).res # "Failed"
    BY <2>2
  <2> QED
    BY <1>1, <1>4, <2>2, <2>3, Zenon
<1> QED
  BY <1>2, <1>3, <1>4, Zenon

(* What both dials need, and the hosts whose dial is answered or refused.  *)
Asked(h) == h.binary /\ h.store /\ h.user # "none"
RealityAnswered(h) == Asked(h) /\ LoadsReality(h) /\ h.reality.harness /\ h.reality.served
HysteriaAnswered(h) == Asked(h) /\ h.hysteria2.harness /\ h.hysteria2.served
RealityRefused(h) ==
    /\ Asked(h) /\ LoadsReality(h) /\ h.reality.harness /\ ~h.reality.served
    /\ h.reality.stderr \/ (h.reality.cursor /\ h.reality.journal = "local")
HysteriaRefused(h) ==
    /\ Asked(h) /\ h.hysteria2.harness /\ ~h.hysteria2.served
    /\ h.hysteria2.bound \/ ~h.hysteria2.exited
    /\ h.hysteria2.stderr \in {"authentication", "certificate"}

(* check_l5_l6_reality_selftest passes an answered dial and fails a        *)
(* refused one.                                                            *)
LEMMA RealityOutcome ==
    ASSUME NEW h, NEW require, h.reality.served => h.reality.bound
    PROVE  LET x == check_l5_l6_reality_selftest(h, require)
           IN  /\ x.found \in Seq(Findings)
               /\ x.res = "Passed" <=> RealityAnswered(h)
               /\ x.res = "Failed" <=> RealityRefused(h)
               /\ Fails(x.found) <=> RealityRefused(h) \/ (require /\ ~RealityAnswered(h))
<1> DEFINE x == check_l5_l6_reality_selftest(h, require)
           run == IF ~h.binary \/ ~LoadsReality(h) \/ ~h.store \/ h.user = "none" THEN "err"
                  ELSE run_reality_client_selftest(h.reality)
<1>1. x = Outcome(run, require)
  BY DEF check_l5_l6_reality_selftest, Outcome
<1>2. run = "pass" <=> RealityAnswered(h)
  BY DEF run_reality_client_selftest, RealityAnswered, Asked
<1>3. run = "rejected" <=> RealityRefused(h)
  BY DEF run_reality_client_selftest, RealityRefused, Asked, journal_has_local_reality_rejection
<1> HIDE DEF x, run
<1>4. /\ x.found \in Seq(Findings)
      /\ x.res = "Passed" <=> RealityAnswered(h)
      /\ x.res = "Failed" <=> RealityRefused(h)
      /\ Fails(x.found) <=> RealityRefused(h) \/ (require /\ ~RealityAnswered(h))
  <2>1. /\ Outcome(run, require).found \in Seq(Findings)
        /\ Outcome(run, require).res = "Passed" <=> run = "pass"
        /\ Outcome(run, require).res = "Failed" <=> run = "rejected"
        /\ Fails(Outcome(run, require).found) <=> run = "rejected" \/ (require /\ run # "pass")
    BY Outcomes, Zenon
  <2> QED
    BY <1>1, <1>2, <1>3, <2>1, Zenon
<1> QED
  BY <1>4, Zenon DEF x

(* So does check_l5_l6_hysteria2_selftest.                                 *)
LEMMA HysteriaOutcome ==
    ASSUME NEW h, NEW require, h.hysteria2.served => h.hysteria2.bound
    PROVE  LET x == check_l5_l6_hysteria2_selftest(h, require)
           IN  /\ x.found \in Seq(Findings)
               /\ x.res = "Passed" <=> HysteriaAnswered(h)
               /\ x.res = "Failed" <=> HysteriaRefused(h)
               /\ Fails(x.found) <=> HysteriaRefused(h) \/ (require /\ ~HysteriaAnswered(h))
<1> DEFINE x == check_l5_l6_hysteria2_selftest(h, require)
           run == IF ~h.binary \/ ~h.store \/ h.user = "none" THEN "err"
                  ELSE run_hysteria2_client_selftest(h.hysteria2)
<1>1. x = Outcome(run, require)
  BY DEF check_l5_l6_hysteria2_selftest, Outcome
<1>2. run = "pass" <=> HysteriaAnswered(h)
  BY DEF run_hysteria2_client_selftest, classify_hysteria2_selftest, HysteriaAnswered, Asked
<1>3. run = "rejected" <=> HysteriaRefused(h)
  BY DEF run_hysteria2_client_selftest, classify_hysteria2_selftest, HysteriaRefused, Asked
<1> HIDE DEF x, run
<1>4. /\ x.found \in Seq(Findings)
      /\ x.res = "Passed" <=> HysteriaAnswered(h)
      /\ x.res = "Failed" <=> HysteriaRefused(h)
      /\ Fails(x.found) <=> HysteriaRefused(h) \/ (require /\ ~HysteriaAnswered(h))
  <2>1. /\ Outcome(run, require).found \in Seq(Findings)
        /\ Outcome(run, require).res = "Passed" <=> run = "pass"
        /\ Outcome(run, require).res = "Failed" <=> run = "rejected"
        /\ Fails(Outcome(run, require).found) <=> run = "rejected" \/ (require /\ run # "pass")
    BY Outcomes, Zenon
  <2> QED
    BY <1>1, <1>2, <1>3, <2>1, Zenon
<1> QED
  BY <1>4, Zenon DEF x

(* Both together: a relay serves no hysteria2 and is not asked for it.     *)
LEMMA SelftestOutcome ==
    ASSUME NEW h, NEW require, IsHost(h)
    PROVE  LET x == check_l5_l6_protocol_selftest(h, require)
           IN  /\ x.found \in Seq(Findings)
               /\ x.res = "Passed" <=> Dialed(h)
               /\ Fails(x.found) <=> Refused(h) \/ (require /\ ~Dialed(h))
<1> DEFINE x == check_l5_l6_protocol_selftest(h, require)
           r == check_l5_l6_reality_selftest(h, require)
           y == check_l5_l6_hysteria2_selftest(h, require)
           c == combine_protocol_results(r.res, y.res)
<1>1. /\ r.found \in Seq(Findings)
      /\ r.res = "Passed" <=> RealityAnswered(h)
      /\ r.res = "Failed" <=> RealityRefused(h)
      /\ Fails(r.found) <=> RealityRefused(h) \/ (require /\ ~RealityAnswered(h))
  BY RealityOutcome, Zenon DEF IsHost
<1>2. /\ y.found \in Seq(Findings)
      /\ y.res = "Passed" <=> HysteriaAnswered(h)
      /\ y.res = "Failed" <=> HysteriaRefused(h)
      /\ Fails(y.found) <=> HysteriaRefused(h) \/ (require /\ ~HysteriaAnswered(h))
  BY HysteriaOutcome, Zenon DEF IsHost
<1>3. Dialed(h) <=> RealityAnswered(h) /\ (h.role = "exit" => HysteriaAnswered(h))
  BY Zenon DEF Dialed, RealityAnswered, HysteriaAnswered, Asked, LoadsReality
<1>4. Refused(h) <=> RealityRefused(h) \/ (h.role = "exit" /\ HysteriaRefused(h))
  BY Zenon DEF Refused, RealityRefused, HysteriaRefused, Asked
<1>5. x = IF h.role # "exit" THEN [res |-> r.res, found |-> r.found \o <<Info>>]
          ELSE [res |-> c, found |-> r.found \o y.found]
  BY Zenon DEF check_l5_l6_protocol_selftest, hysteria2_selftest_applies
<1>6. c = "Passed" <=> r.res = "Passed" /\ y.res = "Passed"
  BY DEF combine_protocol_results
<1> HIDE DEF x, r, y, c
<1>7. /\ x.found \in Seq(Findings)
      /\ x.res = "Passed" <=> Dialed(h)
      /\ Fails(x.found) <=> Refused(h) \/ (require /\ ~Dialed(h))
  <2>1. CASE h.role # "exit"
    <3>1. x.res = r.res /\ x.found = r.found \o <<Info>>
      BY <1>5, <2>1
    <3>2. <<Info>> \in Seq(Findings) /\ ~Fails(<<Info>>)
      BY Singles, Zenon
    <3>3. x.found \in Seq(Findings) /\ (Fails(x.found) <=> Fails(r.found))
      <4>1. /\ r.found \o <<Info>> \in Seq(Findings)
            /\ Fails(r.found \o <<Info>>) <=> Fails(r.found) \/ Fails(<<Info>>)
        BY <1>1, <3>2, Joined, Zenon
      <4> QED
        BY <3>1, <3>2, <4>1, Zenon
    <3> QED
      BY <1>1, <1>3, <1>4, <2>1, <3>1, <3>3, Zenon
  <2>2. CASE h.role = "exit"
    <3>1. x.res = c /\ x.found = r.found \o y.found
      BY <1>5, <2>2, Zenon
    <3>2. x.found \in Seq(Findings) /\ (Fails(x.found) <=> Fails(r.found) \/ Fails(y.found))
      <4>1. /\ r.found \o y.found \in Seq(Findings)
            /\ Fails(r.found \o y.found) <=> Fails(r.found) \/ Fails(y.found)
        BY <1>1, <1>2, Joined, Zenon
      <4> QED
        BY <3>1, <4>1, Zenon
    <3> QED
      BY <1>1, <1>2, <1>3, <1>4, <1>6, <2>2, <3>1, <3>2, Zenon
  <2> QED
    BY <2>1, <2>2, Zenon
<1> QED
  BY <1>7, Zenon DEF x

(* The counter is positive exactly when a [FAIL] was printed.              *)
LEMMA FailuresCount ==
    ASSUME NEW s \in Seq(Findings)
    PROVE  /\ Failures(s) \in Nat
           /\ Failures(s) > 0 <=> Fails(s)
           /\ Failures(s) = 0 <=> ~Fails(s)
           /\ Fails(s) <=> \E i \in DOMAIN s : s[i].status = "Fail"
<1> DEFINE F == {i \in DOMAIN s : s[i].counted}
<1>1. DOMAIN s = 1..Len(s) /\ Len(s) \in Nat
  OBVIOUS
<1>2. IsFiniteSet(1..Len(s))
  BY <1>1, FS_Interval
<1>3. IsFiniteSet(F)
  BY <1>1, <1>2, FS_Subset, Zenon
<1>4. Cardinality(F) \in Nat /\ (Cardinality(F) = 0 <=> F = {})
  BY <1>3, FS_CardinalityType, FS_EmptySet, Zenon
<1>5. F = {} <=> ~Fails(s)
  BY Zenon DEF Fails
<1>6. Failures(s) = Cardinality(F)
  BY Zenon DEF Failures
<1>7. \A f \in Findings : f.counted <=> f.status = "Fail"
  BY FindingFacts, Zenon DEF Findings
<1>8. \A i \in DOMAIN s : s[i] \in Findings
  OBVIOUS
<1>9. Fails(s) <=> \E i \in DOMAIN s : s[i].status = "Fail"
  BY <1>7, <1>8, Zenon DEF Fails
<1> HIDE DEF F
<1>10. Failures(s) \in Nat /\ (Failures(s) = 0 <=> ~Fails(s))
  BY <1>4, <1>5, <1>6, Zenon
<1>11. Failures(s) > 0 <=> Failures(s) # 0
  BY <1>10
<1> QED
  BY <1>9, <1>10, <1>11, Zenon

(* vpn-admin doctor on every host, whatever was observed and however many  *)
(* defects there are at once: the exit status, the closing line and the    *)
(* coverage summary are those that HostVerdict asks for.                   *)
THEOREM DoctorReportsDefects ==
    ASSUME NEW h, NEW protocol \in BOOLEAN, NEW require \in BOOLEAN, IsHost(h), require => protocol
    PROVE  HostVerdict(h, protocol, require)
<1> DEFINE out == cmd_doctor(h, protocol, require)
           l14 == l1_l4_checks(h)
           l56 == IF protocol THEN check_l5_l6_protocol_selftest(h, require)
                  ELSE [res |-> "NotRun", found |-> <<Warn>>]
           found == l14 \o l56.found \o <<Info>>
           line == IF Failures(found) > 0 THEN "failed"
                   ELSE IF l56.res = "Passed" THEN "passed" ELSE "incomplete"
           coverage == build_doctor_coverage_report(Failures(l14), l56.res)
<1>1. out = [found |-> found, res |-> l56.res, line |-> line, coverage |-> coverage]
  BY DEF cmd_doctor
<1>2. l14 \in Seq(Findings) /\ (Fails(l14) <=> Broken(h))
  BY ChecksJoined, LayersFail, Zenon
<1>3. /\ l56.found \in Seq(Findings)
      /\ l56.res = "Passed" <=> protocol /\ Dialed(h)
      /\ Fails(l56.found) <=> (protocol /\ Refused(h)) \/ (require /\ ~Dialed(h))
  <2>1. CASE protocol
    BY <2>1, SelftestOutcome, Zenon
  <2>2. CASE ~protocol
    <3>1. l56.res = "NotRun" /\ l56.found = <<Warn>>
      BY <2>2
    <3>2. l56.res # "Passed"
      BY <3>1
    <3> HIDE DEF l56
    <3> QED
      BY <2>2, <3>1, <3>2, Singles, Zenon
  <2> QED
    BY <2>1, <2>2, Zenon
<1> HIDE DEF l14, l56
<1>4. found \in Seq(Findings) /\ (Fails(found) <=> Fails(l14) \/ Fails(l56.found))
  <2>1. <<Info>> \in Seq(Findings) /\ ~Fails(<<Info>>)
    BY Singles, Zenon
  <2>2. l14 \o l56.found \in Seq(Findings) /\ (Fails(l14 \o l56.found) <=> Fails(l14) \/ Fails(l56.found))
    BY <1>2, <1>3, Joined, Zenon
  <2> QED
    BY <2>1, <2>2, Joined, Zenon
<1> HIDE DEF found
<1>5. Failures(found) > 0 <=> Fails(found)
  BY <1>4, FailuresCount, Zenon
<1>6. Failures(l14) = 0 <=> ~Broken(h)
  BY <1>2, FailuresCount, Zenon
<1>7. Fails(found) <=> \E i \in DOMAIN found : found[i].status = "Fail"
  BY <1>4, FailuresCount, Zenon
<1>8. (line = "failed" <=> Fails(found)) /\ (line = "passed" <=> ~Fails(found) /\ l56.res = "Passed")
  BY <1>5
<1>9. coverage = "cleared" => Failures(l14) = 0 /\ l56.res = "Passed"
  BY DEF build_doctor_coverage_report
<1> HIDE DEF line, coverage
<1>10. out.line = line /\ out.found = found /\ out.coverage = coverage
  BY <1>1
<1>11. Dialed(h) => ~Refused(h)
  BY Zenon DEF Dialed, Refused
<1> HIDE DEF out
<1>12. /\ out.line = "failed" <=> (\E i \in DOMAIN out.found : out.found[i].status = "Fail")
       /\ out.line = "failed" <=>
             (Broken(h) \/ (protocol /\ Refused(h)) \/ (require /\ ~Dialed(h)))
       /\ out.line = "passed" <=> (~Broken(h) /\ protocol /\ Dialed(h))
       /\ out.coverage = "cleared" => Dialed(h) /\ ~Broken(h)
  <2>1. out.line = "failed" <=> (\E i \in DOMAIN out.found : out.found[i].status = "Fail")
    BY <1>7, <1>8, <1>10, Zenon
  <2>2. out.line = "failed" <=> (Broken(h) \/ (protocol /\ Refused(h)) \/ (require /\ ~Dialed(h)))
    BY <1>2, <1>3, <1>4, <1>8, <1>10, Zenon
  <2>3. out.line = "passed" <=> (~Broken(h) /\ protocol /\ Dialed(h))
    BY <1>2, <1>3, <1>4, <1>8, <1>10, <1>11, Zenon
  <2>4. out.coverage = "cleared" => Dialed(h) /\ ~Broken(h)
    BY <1>3, <1>6, <1>9, <1>10, Zenon
  <2> QED
    BY <2>1, <2>2, <2>3, <2>4, Zenon
<1> QED
  BY <1>12, Zenon DEF HostVerdict, out

-----------------------------------------------------------------------------
(* The behaviours of Observations.                                         *)

(* What IsHost asks of each observation, one at a time; the observations   *)
(* it asks about.                                                          *)
Fit(g, x) ==
    /\ g = "conf" => x \in Confs
    /\ g \in {"singbox", "subscription"} => x \in {"active"} \cup Units
    /\ g = "timer" => x \in Timers
    /\ g \in {"hycert", "webcert"} => x.left \in Int
    /\ g \in {"udp4", "udp6"} => x \subseteq {"yes", "no"}
    /\ g = "sockets" => x \in Seq(Socket)
    /\ g \in {"reality", "hysteria2"} => (x.served => x.bound)

Checked == {"conf", "singbox", "subscription", "timer", "hycert", "webcert", "udp4", "udp6",
            "sockets", "reality", "hysteria2"}

(* A host whose observations fit is one that IsHost describes.             *)
LEMMA FitHost ==
    ASSUME NEW h, \A g \in Checked : Fit(g, h[g])
    PROVE  IsHost(h)
<1>1. /\ Fit("conf", h["conf"]) /\ Fit("singbox", h["singbox"]) /\ Fit("subscription", h["subscription"])
      /\ Fit("timer", h["timer"]) /\ Fit("hycert", h["hycert"]) /\ Fit("webcert", h["webcert"])
      /\ Fit("udp4", h["udp4"]) /\ Fit("udp6", h["udp6"]) /\ Fit("sockets", h["sockets"])
      /\ Fit("reality", h["reality"]) /\ Fit("hysteria2", h["hysteria2"])
  BY Zenon DEF Checked
<1> QED
  BY <1>1, Zenon DEF Fit, IsHost

(* A socket built by ListenSocket is one.                                  *)
LEMMA SocketTyped ==
    ASSUME NEW udp \in BOOLEAN, NEW lo \in BOOLEAN, NEW port \in Nat, NEW owner \in Owners
    PROVE  ListenSocket(udp, lo, port, owner) \in Socket
BY DEF ListenSocket, Socket

(* So are the extra ones a host may have.                                  *)
LEMMA OtherSockets == Others \subseteq Socket
<1>1. RealityPort \in Nat /\ BackendPort \in Nat /\ StrayPort \in Nat
  BY SMT DEF RealityPort, BackendPort, StrayPort
<1>2. \A owner \in {"systemd-network", "sing-box"} : ListenSocket(TRUE, FALSE, 68, owner) \in Socket
  BY SMT DEF ListenSocket, Socket, Owners
<1> DEFINE Ports == {22, RealityPort, BackendPort, 1234, StrayPort}
           Names == {"sing-box", "nginx", "unknown"}
           dhcp == 68
<1>3. Ports \subseteq Nat
  BY <1>1, SMT
<1>4. Names \subseteq Owners
  BY Zenon DEF Owners
<1>5. Others = [udp : BOOLEAN, lo : BOOLEAN, port : Ports, owner : Names, dev : {FALSE}]
               \cup {ListenSocket(TRUE, FALSE, dhcp, owner) : owner \in {"systemd-network", "sing-box"}}
  BY DEF Others
<1>6. \A owner \in {"systemd-network", "sing-box"} : ListenSocket(TRUE, FALSE, dhcp, owner) \in Socket
  BY <1>2, Zenon
<1> HIDE DEF Ports, Names, dhcp
<1>7. [udp : BOOLEAN, lo : BOOLEAN, port : Ports, owner : Names, dev : {FALSE}] \subseteq Socket
  BY <1>3, <1>4, Zenon DEF Socket
<1> QED
  BY <1>5, <1>6, <1>7, Zenon

(* The sockets of a healthy host, without one of them, and with another    *)
(* one.                                                                    *)
LEMMA StdSockets ==
    /\ Std \in Seq(Socket)
    /\ \A i \in DOMAIN Std : Without(Std, i) \in Seq(Socket)
    /\ \A l \in Others : Append(Std, l) \in Seq(Socket)
<1> DEFINE s1 == ListenSocket(FALSE, FALSE, RealityPort, "sing-box")
           s2 == ListenSocket(TRUE, FALSE, HysteriaPort, "sing-box")
           s3 == ListenSocket(FALSE, FALSE, PublicPort, "nginx")
           s4 == ListenSocket(FALSE, TRUE, BackendPort, "vpn-subscriptio")
           s5 == ListenSocket(FALSE, FALSE, 22, "sshd")
<1>1. RealityPort \in Nat /\ HysteriaPort \in Nat /\ PublicPort \in Nat /\ BackendPort \in Nat /\ 22 \in Nat
  BY SMT DEF RealityPort, HysteriaPort, PublicPort, BackendPort
<1>2. "sing-box" \in Owners /\ "nginx" \in Owners /\ "vpn-subscriptio" \in Owners /\ "sshd" \in Owners
  BY Zenon DEF Owners
<1>3. s1 \in Socket /\ s2 \in Socket /\ s3 \in Socket /\ s4 \in Socket /\ s5 \in Socket
  BY <1>1, <1>2, SocketTyped, Zenon
<1>4. Std = <<s1, s2, s3, s4, s5>>
  BY Zenon DEF Std
<1> HIDE DEF s1, s2, s3, s4, s5
<1>5. Std \in Seq(Socket) /\ Len(Std) = 5 /\ DOMAIN Std = 1..5
  BY <1>3, <1>4
<1>6. ASSUME NEW i \in DOMAIN Std PROVE Without(Std, i) \in Seq(Socket)
  <2>1. i \in 1..5
    BY <1>5, Zenon
  <2>2. \A j \in 1..5 : Std[j] \in Socket
    BY <1>5, Element, Zenon
  <2>3. SubSeq(Std, 1, i - 1) \in Seq(Socket)
    <3>1. 1 \in Int /\ i - 1 \in Int /\ \A j \in 1..(i - 1) : j \in 1..5
      BY <2>1
    <3>2. \A j \in 1..(i - 1) : Std[j] \in Socket
      BY <2>2, <3>1, Zenon
    <3> QED
      BY <3>1, <3>2, SubSeqProperties, Zenon
  <2>4. SubSeq(Std, i + 1, Len(Std)) \in Seq(Socket)
    <3>1. i + 1 \in Int /\ Len(Std) \in Int /\ \A j \in (i + 1)..Len(Std) : j \in 1..5
      BY <1>5, <2>1
    <3>2. \A j \in (i + 1)..Len(Std) : Std[j] \in Socket
      BY <2>2, <3>1, Zenon
    <3> QED
      BY <3>1, <3>2, SubSeqProperties, Zenon
  <2> QED
    BY <2>3, <2>4, ConcatProperties, Zenon DEF Without
<1>7. ASSUME NEW l \in Others PROVE Append(Std, l) \in Seq(Socket)
  <2>1. l \in Socket
    BY <1>7, OtherSockets, Zenon
  <2> HIDE DEF Socket
  <2> QED
    BY <1>5, <2>1, AppendProperties, Zenon
<1> QED
  BY <1>5, <1>6, <1>7, Zenon

(* The other values of the observations that IsHost asks about.            *)
LEMMA VariantSets ==
    /\ Variants.conf = {"absent", "stale", "invalid", "garbled"} /\ Variants.timer = {"missing", "inactive"}
    /\ Variants.singbox = Units /\ Variants.subscription = Units
    /\ Variants.hycert = Certs /\ Variants.webcert = Certs
    /\ Variants.udp4 = {{}, {"no"}, {"no", "yes"}} /\ Variants.udp6 = {{}, {"no"}, {"no", "yes"}}
    /\ Variants.sockets = {Without(Std, i) : i \in DOMAIN Std} \cup {Append(Std, l) : l \in Others}
<1>1. Variants.conf = {"absent", "stale", "invalid", "garbled"} /\ Variants.timer = {"missing", "inactive"}
  BY SMT DEF Variants
<1>2. Variants.singbox = Units /\ Variants.subscription = Units
  BY SMT DEF Variants
<1>3. Variants.hycert = Certs /\ Variants.webcert = Certs
  BY SMT DEF Variants
<1>4. Variants.udp4 = {{}, {"no"}, {"no", "yes"}} /\ Variants.udp6 = {{}, {"no"}, {"no", "yes"}}
  BY SMT DEF Variants
<1>5. Variants.sockets = {Without(Std, i) : i \in DOMAIN Std} \cup {Append(Std, l) : l \in Others}
  BY SMT DEF Variants
<1> QED
  BY <1>1, <1>2, <1>3, <1>4, <1>5, Zenon

(* No dial is answered over a client that did not bind its port.           *)
LEMMA VariantDials ==
    /\ \A x \in Variants.reality : x.served => x.bound
    /\ \A x \in Variants.hysteria2 : x.served => x.bound
<1>1. Variants.reality =
            {[Served EXCEPT !.harness = FALSE]}
            \cup [harness : {TRUE}, bound : BOOLEAN, served : {FALSE}, exited : {FALSE},
                  stderr : BOOLEAN, cursor : BOOLEAN, journal : {"none", "local", "remote"}]
  BY SMT DEF Variants
<1>2. Variants.hysteria2 =
            {[Served EXCEPT !.harness = FALSE, !.stderr = "none"]}
            \cup [harness : {TRUE}, bound : BOOLEAN, served : {FALSE}, exited : BOOLEAN,
                  stderr : {"none", "authentication", "certificate", "timeout"},
                  cursor : {TRUE}, journal : {"none"}]
  BY SMT DEF Variants
<1>3. [Served EXCEPT !.harness = FALSE].bound /\ [Served EXCEPT !.harness = FALSE, !.stderr = "none"].bound
  BY DEF Served
<1>4. \A x \in Variants.reality : x.served => x.bound
  BY <1>1, <1>3, Zenon
<1>5. \A x \in Variants.hysteria2 : x.served => x.bound
  BY <1>2, <1>3, Zenon
<1> QED
  BY <1>4, <1>5, Zenon

(* Every other value fits.                                                 *)
LEMMA VariantsFit ==
    ASSUME NEW g, NEW x \in Variants[g]
    PROVE  Fit(g, x)
<1>1. g = "conf" => x \in Confs
  BY VariantSets, Zenon DEF Confs
<1>2. g \in {"singbox", "subscription"} => x \in {"active"} \cup Units
  BY VariantSets, Zenon
<1>3. g = "timer" => x \in Timers
  BY VariantSets, Zenon DEF Timers
<1>4. g \in {"hycert", "webcert"} => x.left \in Int
  <2>1. \A c \in Certs : c.left \in Int
    BY DEF Certs, Lives
  <2> QED
    BY <2>1, VariantSets, Zenon
<1>5. g \in {"udp4", "udp6"} => x \subseteq {"yes", "no"}
  <2>1. g \in {"udp4", "udp6"} => x \in {{}, {"no"}, {"no", "yes"}}
    BY VariantSets, Zenon
  <2> QED
    BY <2>1
<1>6. g = "sockets" => x \in Seq(Socket)
  <2>1. g = "sockets" => x \in {Without(Std, i) : i \in DOMAIN Std} \cup {Append(Std, l) : l \in Others}
    BY VariantSets, Zenon
  <2> QED
    BY <2>1, StdSockets, Zenon
<1>7. g \in {"reality", "hysteria2"} => (x.served => x.bound)
  BY VariantDials, Zenon
<1> QED
  BY <1>1, <1>2, <1>3, <1>4, <1>5, <1>6, <1>7, Zenon DEF Fit

(* Every observation of a healthy host fits.                               *)
LEMMA HealthyFits ==
    ASSUME NEW role
    PROVE  /\ Checked \subseteq DOMAIN Healthy(role)
           /\ \A g \in Checked : Fit(g, Healthy(role)[g])
<1> DEFINE h == Healthy(role)
<1>1. Checked \subseteq DOMAIN h
  BY DEF Healthy, Checked
<1>2. /\ h["conf"] = "fresh" /\ h["singbox"] = "active" /\ h["subscription"] = "active"
      /\ h["timer"] = "active" /\ h["hycert"] = Lives(180) /\ h["webcert"] = Lives(180)
      /\ h["udp4"] = {"yes"} /\ h["udp6"] = {"yes"} /\ h["sockets"] = Std
      /\ h["reality"] = Served /\ h["hysteria2"] = [Served EXCEPT !.stderr = "none"]
  BY DEF Healthy
<1> HIDE DEF h
<1>3. Lives(180).left \in Int /\ Served.bound /\ [Served EXCEPT !.stderr = "none"].bound
  BY DEF Lives, Served
<1>4. ASSUME NEW g \in Checked PROVE Fit(g, h[g])
  <2>1. g = "conf" => h[g] \in Confs
    BY <1>2, Zenon DEF Confs
  <2>2. g \in {"singbox", "subscription"} => h[g] \in {"active"} \cup Units
    BY <1>2, Zenon
  <2>3. g = "timer" => h[g] \in Timers
    BY <1>2, Zenon DEF Timers
  <2>4. g \in {"hycert", "webcert"} => h[g].left \in Int
    BY <1>2, <1>3
  <2>5. g \in {"udp4", "udp6"} => h[g] \subseteq {"yes", "no"}
    BY <1>2, Zenon
  <2>6. g = "sockets" => h[g] \in Seq(Socket)
    BY <1>2, StdSockets, Zenon
  <2>7. g \in {"reality", "hysteria2"} => (h[g].served => h[g].bound)
    BY <1>2, <1>3, ZenonT(30)
  <2> QED
    BY <2>1, <2>2, <2>3, <2>4, <2>5, <2>6, <2>7, Zenon DEF Fit
<1> QED
  BY <1>1, <1>4, Zenon DEF h

(* The hosts that Deviate reaches, in however many steps.                  *)
HostInv ==
    stage = "host" =>
       /\ Checked \subseteq DOMAIN d /\ \A g \in Checked : Fit(g, d[g])
       /\ who \in [protocol : BOOLEAN, require : BOOLEAN, deviations : Nat]
       /\ who.require => who.protocol

(* The addresses that PickAddress reaches.                                 *)
AddressInv ==
    /\ stage \in {"address", "addresses", "host"}
    /\ stage # "host" => who \in [a : Octet1, b : {0} \cup Octet2]

(* Both hold initially.                                                    *)
LEMMA InitObserved == ObservedInit => HostInv /\ AddressInv
<1> SUFFICES ASSUME ObservedInit PROVE HostInv /\ AddressInv
  OBVIOUS
<1>1. CASE stage = "address" /\ who \in [a : Octet1, b : {0}]
  <2>1. HostInv
    BY <1>1 DEF HostInv
  <2> HIDE DEF Octet1, Octet2
  <2>2. AddressInv
    BY <1>1 DEF AddressInv
  <2> QED
    BY <2>1, <2>2
<1>2. CASE /\ stage = "host" /\ d \in {Healthy("exit"), Healthy("relay")}
           /\ who \in {w \in [protocol : BOOLEAN, require : BOOLEAN, deviations : {0}] :
                         w.require => w.protocol}
  <2>1. AddressInv
    BY <1>2 DEF AddressInv
  <2>2. Checked \subseteq DOMAIN d /\ \A g \in Checked : Fit(g, d[g])
    BY <1>2, HealthyFits, Zenon
  <2>3. who \in [protocol : BOOLEAN, require : BOOLEAN, deviations : Nat] /\ (who.require => who.protocol)
    BY <1>2
  <2> QED
    BY <2>1, <2>2, <2>3, Zenon DEF HostInv
<1> QED
  BY <1>1, <1>2, Zenon DEF ObservedInit

(* Both are inductive: a deviation changes one observation and keeps the   *)
(* options.                                                                *)
LEMMA NextObserved == HostInv /\ AddressInv /\ [ObservedNext]_vars => HostInv' /\ AddressInv'
<1> SUFFICES ASSUME HostInv, AddressInv, [ObservedNext]_vars PROVE HostInv' /\ AddressInv'
  OBVIOUS
<1>1. CASE PickAddress
  <2>1. stage = "address" /\ stage' = "addresses"
    BY <1>1, Zenon DEF PickAddress
  <2>2. PICK b \in Octet2 : who' = [who EXCEPT !.b = b]
    BY <1>1, Zenon DEF PickAddress
  <2>3. who \in [a : Octet1, b : {0} \cup Octet2]
    BY <2>1 DEF AddressInv
  <2>4. who' \in [a : Octet1, b : {0} \cup Octet2]
    BY <2>2, <2>3
  <2>5. HostInv'
    BY <2>1 DEF HostInv
  <2>6. AddressInv'
    BY <2>1, <2>4 DEF AddressInv
  <2> QED
    BY <2>5, <2>6
<1>2. CASE Deviate
  <2>1. stage = "host" /\ stage' = "host"
    BY <1>2, Zenon DEF Deviate
  <2>2. PICK f \in DOMAIN Variants : \E x \in Variants[f] : d' = [d EXCEPT ![f] = x]
    BY <1>2, Zenon DEF Deviate
  <2>3. PICK x \in Variants[f] : d' = [d EXCEPT ![f] = x]
    BY <2>2, Zenon
  <2>4. Checked \subseteq DOMAIN d /\ \A g \in Checked : Fit(g, d[g])
    BY <2>1, Zenon DEF HostInv
  <2>5. DOMAIN d' = DOMAIN d /\ \A g \in DOMAIN d : d'[g] = IF g = f THEN x ELSE d[g]
    BY <2>3, Zenon
  <2>6. Checked \subseteq DOMAIN d' /\ \A g \in Checked : Fit(g, d'[g])
    BY <2>4, <2>5, VariantsFit, Zenon
  <2>7. /\ who \in [protocol : BOOLEAN, require : BOOLEAN, deviations : Nat]
        /\ who.require => who.protocol
    BY <2>1 DEF HostInv
  <2>8. who' = [who EXCEPT !.deviations = @ + 1]
    BY <1>2, Zenon DEF Deviate
  <2>9. /\ who' \in [protocol : BOOLEAN, require : BOOLEAN, deviations : Nat]
        /\ who'.require => who'.protocol
    BY <2>7, <2>8
  <2>10. HostInv'
    BY <2>6, <2>9, Zenon DEF HostInv
  <2>11. AddressInv'
    BY <2>1 DEF AddressInv
  <2> QED
    BY <2>10, <2>11
<1>3. CASE UNCHANGED vars
  BY <1>3, Zenon DEF vars, HostInv, AddressInv
<1> QED
  BY <1>1, <1>2, <1>3, Zenon DEF ObservedNext

(* DoctorVerdict holds throughout: the hosts are ones that IsHost          *)
(* describes, and DoctorReportsDefects speaks of all of these.             *)
THEOREM DoctorVerdicts == ObservedSpec => []DoctorVerdict
<1>1. HostInv => DoctorVerdict
  <2> SUFFICES ASSUME HostInv, stage = "host" PROVE HostVerdict(d, who.protocol, who.require)
    BY Zenon DEF DoctorVerdict
  <2>1. /\ who \in [protocol : BOOLEAN, require : BOOLEAN, deviations : Nat]
        /\ who.require => who.protocol
        /\ \A g \in Checked : Fit(g, d[g])
    BY Zenon DEF HostInv
  <2>2. who.protocol \in BOOLEAN /\ who.require \in BOOLEAN
    BY <2>1
  <2>3. IsHost(d)
    BY <2>1, FitHost, Zenon
  <2> QED
    BY <2>1, <2>2, <2>3, DoctorReportsDefects, Zenon
<1> QED
  BY <1>1, InitObserved, NextObserved, PTL DEF ObservedSpec

(* Eight segments are an IPv6 address.                                     *)
LEMMA EightSegments ==
    ASSUME NEW s1 \in Segment, NEW s2 \in Segment, NEW s3 \in Segment, NEW s4 \in Segment,
           NEW s5 \in Segment, NEW s6 \in Segment, NEW s7 \in Segment, NEW s8 \in Segment
    PROVE  <<s1, s2, s3, s4, s5, s6, s7, s8>> \in Ipv6
BY DEF Ipv6

(* The addresses that are compared are addresses.                          *)
LEMMA AddressesTyped ==
    ASSUME NEW a \in Octet, NEW b \in Octet
    PROVE  Addresses(a, b) \subseteq Ipv4 \cup Ipv6
<1>1. Octet3 \subseteq Octet /\ {0, 1, 254, 255} \subseteq Octet
  BY SMT DEF Octet3, Octet
<1>2. Segment1 \subseteq Segment
  BY SMT DEF Segment1, Segment
<1>3. {0, 1, 43518, 65535} \subseteq Segment /\ {0, 1, 3512, 65435} \subseteq Segment /\ 256 * a + b \in Segment
  BY SMT DEF Segment, Octet
<1>4. ASSUME NEW c \in Octet, NEW e \in Octet PROVE <<a, b, c, e>> \in Ipv4
  BY <1>4 DEF Ipv4
<1>5. 0 \in Segment
  BY SMT DEF Segment
<1>m. \A m, n, c \in Segment : <<0, 0, 0, 0, 0, m, n, c>> \in Ipv6
  BY <1>5, EightSegments, Zenon
<1> DEFINE top == 65535
           low == 256 * a + b
<1>t. top \in Segment /\ low \in Segment
  BY <1>3, SMT
<1> HIDE DEF top, low
<1>n. \A c \in Segment : <<0, 0, 0, 0, 0, top, low, c>> \in Ipv6
  BY <1>m, <1>t, Zenon
<1>s. \A s, t, u, e \in Segment : <<s, t, 0, 0, 0, u, 0, e>> \in Ipv6
  BY <1>5, EightSegments, Zenon
<1> SUFFICES ASSUME NEW ip \in Addresses(a, b) PROVE ip \in Ipv4 \cup Ipv6
  OBVIOUS
<1>6. CASE \E c \in Octet3, e \in {0, 1, 254, 255} : ip = <<a, b, c, e>>
  BY <1>1, <1>4, <1>6
<1>7. CASE \E c \in {0, 1, 43518, 65535} : ip = <<0, 0, 0, 0, 0, 65535, 256 * a + b, c>>
  <2>1. PICK c \in {0, 1, 43518, 65535} : ip = <<0, 0, 0, 0, 0, 65535, 256 * a + b, c>>
    BY <1>7
  <2>2. c \in Segment /\ 0 \in Segment /\ 65535 \in Segment
    BY <1>3, SMT
  <2> QED
    <3>1. <<0, 0, 0, 0, 0, 65535, 256 * a + b, c>> \in Ipv6
      BY <1>n, <2>2, SMT DEF top, low
    <3> QED
      BY <2>1, <3>1, SMT
<1>8. CASE \E s \in Segment1, t \in {0, 1, 3512, 65435}, u \in {0, 65535}, e \in {0, 1} :
              ip = <<s, t, 0, 0, 0, u, 0, e>>
  <2>1. PICK s \in Segment1, t \in {0, 1, 3512, 65435}, u \in {0, 65535}, e \in {0, 1} :
                ip = <<s, t, 0, 0, 0, u, 0, e>>
    BY <1>8, SMT
  <2>2. s \in Segment /\ t \in Segment /\ u \in Segment /\ e \in Segment /\ 0 \in Segment
    BY <1>2, <1>3, SMT
  <2>3. <<s, t, 0, 0, 0, u, 0, e>> \in Ipv6
    BY <1>s, <2>2, SMT
  <2> QED
    BY <2>1, <2>3, SMT
<1> QED
  BY <1>6, <1>7, <1>8 DEF Addresses

(* AddressPoliciesAgree holds throughout: OneAddressPolicy speaks of every *)
(* address.                                                                *)
THEOREM AddressPolicies == ObservedSpec => []AddressPoliciesAgree
<1>1. AddressInv => AddressPoliciesAgree
  <2> SUFFICES ASSUME AddressInv, stage = "addresses"
               PROVE  \A ip \in Addresses(who.a, who.b) : PoliciesAgree(ip)
    BY Zenon DEF AddressPoliciesAgree
  <2>1. who \in [a : Octet1, b : {0} \cup Octet2]
    BY DEF AddressInv
  <2>2. who.a \in Octet1 /\ who.b \in {0} \cup Octet2
    BY <2>1
  <2>3. Octet1 \subseteq Octet /\ {0} \cup Octet2 \subseteq Octet
    BY SMT DEF Octet1, Octet2, Octet
  <2>4. who.a \in Octet /\ who.b \in Octet
    BY <2>2, <2>3, Zenon
  <2> QED
    BY <2>4, AddressesTyped, OneAddressPolicy, Zenon
<1> QED
  BY <1>1, InitObserved, NextObserved, PTL DEF ObservedSpec
=============================================================================
