----------------------------- MODULE MCNetwork -----------------------------
(* Instances of Network for TLC. *)
EXTENDS Network

CONSTANTS eth0, eth1

TwoIfaces == {eth0, eth1}
OneIface  == {eth0}

Site(working, ipv6) == [working |-> working, ipv6 |-> ipv6]

(* Only the fallback resolves, or, where there is no IPv6, only the leases. *)
GoodSites == {Site({Google}, TRUE), Site({Google}, FALSE), Site(TwoIfaces, FALSE)}

(* A lease that resolves, after router advertisements that do not. *)
LateSites == {Site(OneIface, TRUE)}

LeaseSites == {Site(TwoIfaces, FALSE)}
=============================================================================
