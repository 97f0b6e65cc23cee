---------------------------- MODULE AddressPolicy ----------------------------
(***************************************************************************)
(* Three lists of addresses nobody may be sent to: the agent's guard for   *)
(* probe destinations, deployment.rs's check of a declared relay target,   *)
(* and the C-16 ranges an exit rejects.  An IPv4 address is a sequence of  *)
(* four octets, an IPv6 address one of eight 16-bit segments.              *)
(***************************************************************************)
EXTENDS Integers, Sequences

(* The powers of two below 2^16.                                           *)
Pow2 == <<2, 4, 8, 16, 32, 64, 128, 256, 512, 1024, 2048, 4096, 8192, 16384, 32768>>

(* The address lies in base/bits; w is the width of one element.           *)
InPrefix(addr, w, base, bits) ==
    \A i \in DOMAIN addr :
       LET n == bits - w * (i - 1)      \* bits of the prefix in element i
       IN  n > 0 => LET unit == IF n >= w THEN 1 ELSE Pow2[w - n]
                    IN  addr[i] \div unit = base[i] \div unit
In4(addr, a, b, c, bits) == InPrefix(addr, 8, <<a, b, c, 0>>, bits)
In6(addr, a, b, bits) == InPrefix(addr, 16, <<a, b, 0, 0, 0, 0, 0, 0>>, bits)

(* std's predicates.                                                       *)
is_private(v4) == In4(v4, 10, 0, 0, 8) \/ In4(v4, 172, 16, 0, 12) \/ In4(v4, 192, 168, 0, 16)
is_documentation(v4) ==
    In4(v4, 192, 0, 2, 24) \/ In4(v4, 198, 51, 100, 24) \/ In4(v4, 203, 0, 113, 24)
to_ipv4_mapped(v6) ==
    IF (\A i \in 1..5 : v6[i] = 0) /\ v6[6] = 65535
    THEN <<v6[7] \div 256, v6[7] % 256, v6[8] \div 256, v6[8] % 256>> ELSE <<>>

-----------------------------------------------------------------------------
(* ssrf_guard.rs.                                                          *)
classify_v4(v4) ==
    CASE v4 = <<169, 254, 169, 254>> -> "metadata_service"
      [] In4(v4, 127, 0, 0, 8) -> "loopback"
      [] v4 = <<0, 0, 0, 0>> -> "unspecified"
      [] v4 = <<255, 255, 255, 255>> -> "broadcast"
      [] is_private(v4) -> "private_use_ipv4"
      [] In4(v4, 169, 254, 0, 16) /\ v4 # <<169, 254, 169, 254>> -> "link_local"
      [] In4(v4, 224, 0, 0, 4) -> "multicast"
      [] is_documentation(v4) -> "documentation"
      [] v4[1] = 100 /\ v4[2] \in 64..127 -> "carrier_grade_nat"
      [] v4[1] = 198 /\ v4[2] \in {18, 19} -> "benchmarking"
      [] v4[1] = 0 /\ v4 # <<0, 0, 0, 0>> -> "reserved"
      [] OTHER -> "none"

classify_v6(v6) ==
    CASE v6 = <<0, 0, 0, 0, 0, 0, 0, 1>> -> "loopback"
      [] v6 = <<0, 0, 0, 0, 0, 0, 0, 0>> -> "unspecified"
      [] In6(v6, 65280, 0, 8) -> "multicast"                    \* ff00::/8
      [] (v6[1] \div 64) * 64 = 65152 -> "link_local"           \* & 0xffc0 = 0xfe80
      [] (v6[1] \div 512) * 512 = 64512 -> "unique_local_ipv6"  \* & 0xfe00 = 0xfc00
      [] v6[1] = 8193 /\ v6[2] = 3512 -> "documentation"        \* 2001:db8::
      [] OTHER -> "none"

(* Mutant: a mapped address is judged as the IPv6 address it looks like.   *)
classify_denied_unmapped(ip) == IF Len(ip) = 4 THEN classify_v4(ip) ELSE classify_v6(ip)

classify_denied(ip) ==
    IF Len(ip) = 4 THEN classify_v4(ip)
    ELSE IF to_ipv4_mapped(ip) # <<>>
    THEN IF classify_v4(to_ipv4_mapped(ip)) = "none" THEN "none" ELSE "ipv4_mapped_denied"
    ELSE classify_v6(ip)

(* resolve_and_validate: every resolved address must pass, the first one   *)
(* is dialled.  An empty result is a refusal.                              *)
resolve_and_validate(addrs) ==
    IF addrs = <<>> \/ \E i \in DOMAIN addrs : classify_denied(addrs[i]) # "none"
    THEN <<>> ELSE addrs[1]

-----------------------------------------------------------------------------
(* deployment.rs: the same policy, written a second time.                  *)
relay_target_denied_v4(v4) ==
    \/ v4 = <<169, 254, 169, 254>> \/ v4 = <<0, 0, 0, 0>> \/ v4 = <<255, 255, 255, 255>>
    \/ In4(v4, 127, 0, 0, 8)
    \/ is_private(v4)
    \/ In4(v4, 169, 254, 0, 16)
    \/ In4(v4, 224, 0, 0, 4)
    \/ is_documentation(v4)
    \/ v4[1] = 100 /\ v4[2] \in 64..127
    \/ v4[1] = 198 /\ v4[2] \in {18, 19}
    \/ v4[1] = 0

relay_target_denied_v6(v6) ==
    \/ v6 \in {<<0, 0, 0, 0, 0, 0, 0, 0>>, <<0, 0, 0, 0, 0, 0, 0, 1>>}
    \/ In6(v6, 65280, 0, 8)
    \/ (v6[1] \div 64) * 64 = 65152
    \/ (v6[1] \div 512) * 512 = 64512
    \/ v6[1] = 8193 /\ v6[2] = 3512

classify_relay_target_denied(ip) ==
    IF Len(ip) = 4 THEN relay_target_denied_v4(ip)
    ELSE \/ to_ipv4_mapped(ip) # <<>> /\ relay_target_denied_v4(to_ipv4_mapped(ip))
         \/ relay_target_denied_v6(ip)

-----------------------------------------------------------------------------
(* model.rs: the ranges of the C-16 reject rules (its fd00:ec2::254 lies   *)
(* in fc00::/7).                                                           *)
C16_DENY_IPV4_CIDRS(v4) ==
    \/ \E a \in {0, 10, 127} : In4(v4, a, 0, 0, 8)
    \/ In4(v4, 100, 64, 0, 10)
    \/ In4(v4, 169, 254, 0, 16)
    \/ In4(v4, 172, 16, 0, 12)
    \/ In4(v4, 192, 0, 0, 24) \/ In4(v4, 192, 0, 2, 24)
    \/ In4(v4, 192, 168, 0, 16)
    \/ In4(v4, 198, 18, 0, 15)
    \/ In4(v4, 198, 51, 100, 24) \/ In4(v4, 203, 0, 113, 24)
    \/ In4(v4, 224, 0, 0, 4) \/ In4(v4, 240, 0, 0, 4)

C16_DENY_IPV6_CIDRS(v6) ==
    \/ v6 \in {<<0, 0, 0, 0, 0, 0, 0, 0>>, <<0, 0, 0, 0, 0, 0, 0, 1>>}
    \/ InPrefix(v6, 16, <<0, 0, 0, 0, 0, 65535, 0, 0>>, 96)     \* ::ffff:0:0/96
    \/ In6(v6, 100, 65435, 96)                                  \* 64:ff9b::/96
    \/ In6(v6, 256, 0, 64)                                      \* 100::/64
    \/ In6(v6, 8193, 3512, 32)                                  \* 2001:db8::/32
    \/ In6(v6, 64512, 0, 7) \/ In6(v6, 65152, 0, 10) \/ In6(v6, 65280, 0, 8)

c16_denied(ip) == IF Len(ip) = 4 THEN C16_DENY_IPV4_CIDRS(ip) ELSE C16_DENY_IPV6_CIDRS(ip)

-----------------------------------------------------------------------------
(* The policy is written down three times.  The agent's guard and the      *)
(* relay-target check refuse the same addresses, and neither refuses an    *)
(* address that an exit's C-16 rules let through; the rules reject more    *)
(* only in 192.0.0.0/24 and 240.0.0.0/4, and for IPv6 in the ranges that   *)
(* embed an IPv4 address and the discard prefix 100::/64.                  *)
PoliciesAgree(ip) ==
    /\ classify_denied(ip) # "none" <=> classify_relay_target_denied(ip)
    /\ classify_denied(ip) # "none" => c16_denied(ip)
    /\ c16_denied(ip) /\ classify_denied(ip) = "none" =>
          IF Len(ip) = 4 THEN In4(ip, 192, 0, 0, 24) \/ ip[1] >= 240
          ELSE to_ipv4_mapped(ip) # <<>> \/ In6(ip, 100, 65435, 96) \/ In6(ip, 256, 0, 64)
==============================================================================
