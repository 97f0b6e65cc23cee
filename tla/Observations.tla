---------------------------- MODULE Observations ----------------------------
(***************************************************************************)
(* What the checks that only observe are tried on: addresses, for the      *)
(* three lists of AddressPolicy, and hosts, for vpn-admin doctor.          *)
(***************************************************************************)
EXTENDS AddressPolicy, DoctorHosts

VARIABLES stage, d, who

vars == <<stage, d, who>>

-----------------------------------------------------------------------------
(* Addresses: the boundaries of every range and their neighbours.          *)
Octet1 == {0, 1, 9, 10, 11, 99, 100, 101, 126, 127, 128, 168, 169, 170, 171, 172, 173, 191, 192,
           193, 197, 198, 199, 202, 203, 204, 223, 224, 239, 240, 254, 255}
Octet2 == {0, 1, 15, 16, 17, 18, 19, 20, 31, 32, 50, 51, 52, 63, 64, 127, 128, 167, 168, 169, 253,
           254, 255}
Octet3 == {0, 1, 2, 3, 99, 100, 101, 112, 113, 114, 168, 169, 255}
Segment1 == {0, 100, 101, 256, 8192, 8193, 8194, 64511, 64512, 65023, 65024, 65151, 65152, 65215,
             65216, 65279, 65280, 65535}
Addresses(a, b) ==
    {<<a, b, c, e>> : c \in Octet3, e \in {0, 1, 254, 255}}
    \cup {<<0, 0, 0, 0, 0, 65535, 256 * a + b, c>> : c \in {0, 1, 43518, 65535}}
    \cup {<<s, t, 0, 0, 0, u, 0, e>> : s \in Segment1, t \in {0, 1, 3512, 65435},
                                      u \in {0, 65535}, e \in {0, 1}}

PickAddress ==
    /\ stage = "address" /\ stage' = "addresses"
    /\ \E b \in Octet2 : who' = [who EXCEPT !.b = b]
    /\ UNCHANGED d

-----------------------------------------------------------------------------
(* Hosts that differ from a healthy one in up to MaxDeviations respects.   *)
MaxDeviations == 2

Deviate ==
    /\ stage = "host" /\ who.deviations < MaxDeviations
    /\ \E f \in DOMAIN Variants : \E v \in Variants[f] : d' = [d EXCEPT ![f] = v]
    /\ who' = [who EXCEPT !.deviations = @ + 1]
    /\ UNCHANGED stage

ObservedInit ==
    \/ stage = "address" /\ d = <<>> /\ who \in [a : Octet1, b : {0}]
    \/ /\ stage = "host" /\ d \in {Healthy("exit"), Healthy("relay")}
       /\ who \in {w \in [protocol : BOOLEAN, require : BOOLEAN, deviations : {0}] :
                     w.require => w.protocol}

ObservedNext == PickAddress \/ Deviate

ObservedSpec == ObservedInit /\ [][ObservedNext]_vars

-----------------------------------------------------------------------------
(* The agent's guard, the relay-target check and the C-16 rules of an exit *)
(* agree on every address, as PoliciesAgree says.                          *)
AddressPoliciesAgree ==
    stage = "addresses" => \A ip \in Addresses(who.a, who.b) : PoliciesAgree(ip)

(* vpn-admin doctor tells the hosts that work from those that do not.      *)
DoctorVerdict == stage = "host" => HostVerdict(d, who.protocol, who.require)
=============================================================================
