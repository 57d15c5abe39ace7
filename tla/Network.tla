------------------------------ MODULE Network ------------------------------
(***************************************************************************)
(* The updater's way to the pointer: network and fetch_pointer of          *)
(* updater/init.sh and the lease script updater/udhcpc.sh, which one       *)
(* udhcpc per interface runs in the background.  They share three things   *)
(* without a lock: /etc/resolv.conf, the default route and the flag file   *)
(* /run/net-up.  Modelled while no system is installed, when the script    *)
(* keeps trying until a download succeeds (init.sh:319-324).               *)
(***************************************************************************)
EXTENDS Naturals

CONSTANTS
  Ifaces,    \* wired interfaces that may get a lease
  WithDns,   \* those whose lease names a DNS server
  WithRoute, \* those whose lease names a router
  Google,    \* resolv.conf holding the fallback servers
  Blank,     \* resolv.conf without a server
  Absent,    \* no resolv.conf, no route
  Sites,     \* networks the box may be in: which contents of resolv.conf the
             \* pointer host resolves with, and whether routers bring IPv6
  MaxErrors  \* bound: how many transfers fail for other reasons

ASSUME NetworkAssumption ==
  /\ WithDns \subseteq Ifaces /\ WithRoute \subseteq Ifaces
  /\ Sites \subseteq [working : SUBSET (WithDns \cup {Google}), ipv6 : BOOLEAN]
  /\ {Google, Blank, Absent} \cap Ifaces = {}
  /\ Google # Blank /\ Blank # Absent /\ Google # Absent
  /\ MaxErrors \in Nat

VARIABLES
  site,    \* the network the box is in
  pc,      \* where init.sh is
  dhcp,    \* where each interface's udhcpc is
  resolv,  \* /etc/resolv.conf: whose lease, Google, Blank or Absent
  route,   \* the interface of the IPv4 default route, or Absent
  netUp,   \* /run/net-up exists
  ra,      \* an IPv6 default route exists
  prev,    \* $prev of fetch_pointer
  rc,      \* $rc: 0, 6 (host not resolved) or 1 (other)
  errors   \* how many transfers have failed for other reasons

vars == <<site, pc, dhcp, resolv, route, netUp, ra, prev, rc, errors>>

Contents == Ifaces \cup {Google, Blank, Absent}

TypeOK ==
  /\ site \in Sites
  /\ pc \in {"network", "wait", "curl", "read", "google", "retry", "restore",
             "check", "download", "sleep", "done"}
  /\ dhcp \in [Ifaces -> {"off", "asking", "test", "route", "dns", "touch", "gone"}]
  /\ resolv \in Contents /\ prev \in Contents
  /\ route \in Ifaces \cup {Absent}
  /\ netUp \in BOOLEAN /\ ra \in BOOLEAN
  /\ rc \in {0, 1, 6} /\ errors \in 0 .. MaxErrors

Init ==
  /\ site \in Sites
  /\ pc = "network"
  /\ dhcp = [i \in Ifaces |-> "off"]
  /\ resolv = Absent /\ prev = Absent /\ route = Absent
  /\ netUp = FALSE /\ ra = FALSE
  /\ rc = 0 /\ errors = 0

-----------------------------------------------------------------------------
(* Router advertisements are handled by the kernel, whenever they come. *)
RouterAdvertisement ==
  /\ site.ipv6 /\ ~ ra /\ ra' = TRUE
  /\ UNCHANGED <<site, pc, dhcp, resolv, route, netUp, prev, rc, errors>>

(* network: forget the flag and start a udhcpc per interface. *)
StartNetwork ==
  /\ pc = "network"
  /\ netUp' = FALSE
  /\ dhcp' = [i \in Ifaces |-> "asking"]
  /\ pc' = "wait"
  /\ UNCHANGED <<site, resolv, route, ra, prev, rc, errors>>

(* It returns on the first lease; without one, after 15 s when IPv6 is      *)
(* configured, else after 60 s, when every udhcpc has given up.             *)
NetworkReturns ==
  /\ pc = "wait"
  /\ netUp \/ ra \/ \A i \in Ifaces : dhcp[i] = "gone"
  /\ pc' = "curl"
  /\ UNCHANGED <<site, dhcp, resolv, route, netUp, ra, prev, rc, errors>>

-----------------------------------------------------------------------------
(* udhcpc gives up (-n), or gets a lease and runs udhcpc.sh. *)
GiveUp(i) ==
  /\ dhcp[i] = "asking"
  /\ dhcp' = [dhcp EXCEPT ![i] = "gone"]
  /\ UNCHANGED <<site, pc, resolv, route, netUp, ra, prev, rc, errors>>

Bound(i) ==
  /\ dhcp[i] = "asking"
  /\ dhcp' = [dhcp EXCEPT ![i] = "test"]
  /\ UNCHANGED <<site, pc, resolv, route, netUp, ra, prev, rc, errors>>

\* mutant: the flag is set as soon as it is found missing, which closes the
\* window between test and set but tells others before anything is configured
TestNetUp_ClaimFirst(i) ==
  /\ dhcp[i] = "test"
  /\ dhcp' = [dhcp EXCEPT ![i] = IF netUp THEN "gone" ELSE "route"]
  /\ netUp' = TRUE
  /\ UNCHANGED <<site, pc, resolv, route, ra, prev, rc, errors>>

TestNetUp(i) ==
  /\ dhcp[i] = "test"
  /\ dhcp' = [dhcp EXCEPT ![i] = IF netUp THEN "gone" ELSE "route"]
  /\ UNCHANGED <<site, pc, resolv, route, netUp, ra, prev, rc, errors>>

(* ip route add fails when there is a default route already. *)
AddRoute(i) ==
  /\ dhcp[i] = "route"
  /\ route' = IF i \in WithRoute /\ route = Absent THEN i ELSE route
  /\ dhcp' = [dhcp EXCEPT ![i] = "dns"]
  /\ UNCHANGED <<site, pc, resolv, netUp, ra, prev, rc, errors>>

(* A lease without a DNS server leaves an empty file. *)
WriteDns(i) ==
  /\ dhcp[i] = "dns"
  /\ resolv' = IF i \in WithDns THEN i ELSE Blank
  /\ dhcp' = [dhcp EXCEPT ![i] = "touch"]
  /\ UNCHANGED <<site, pc, route, netUp, ra, prev, rc, errors>>

TouchNetUp(i) ==
  /\ dhcp[i] = "touch"
  /\ netUp' = TRUE
  /\ dhcp' = [dhcp EXCEPT ![i] = "gone"]
  /\ UNCHANGED <<site, pc, resolv, route, ra, prev, rc, errors>>

-----------------------------------------------------------------------------
Online == ra \/ route # Absent

Resolves == Online /\ resolv \in site.working

\* mutant: a host that is not resolved gives the code of a failed connection
get_pointer_WrongCode ==
  /\ rc' = IF Resolves THEN 0 ELSE 7
  /\ UNCHANGED errors

(* curl resolves with the servers of the moment; once the host is resolved, *)
(* a transfer may fail for other reasons.                                   *)
get_pointer ==
  \/ rc' = (IF Resolves THEN 0 ELSE 6) /\ UNCHANGED errors
  \/ Resolves /\ rc' = 1 /\ errors < MaxErrors /\ errors' = errors + 1

FirstTry ==
  /\ pc = "curl" /\ pc' = "read"
  /\ get_pointer
  /\ UNCHANGED <<site, dhcp, resolv, route, netUp, ra, prev>>

ReadResolv ==
  /\ pc = "read"
  /\ prev' = resolv
  /\ pc' = IF rc = 6 /\ resolv # Google THEN "google" ELSE "check"
  /\ UNCHANGED <<site, dhcp, resolv, route, netUp, ra, rc, errors>>

UseGoogle ==
  /\ pc = "google" /\ pc' = "retry"
  /\ resolv' = Google
  /\ UNCHANGED <<site, dhcp, route, netUp, ra, prev, rc, errors>>

SecondTry ==
  /\ pc = "retry"
  /\ get_pointer
  /\ pc' = IF rc' = 6 THEN "restore" ELSE "check"
  /\ UNCHANGED <<site, dhcp, resolv, route, netUp, ra, prev>>

\* mutant: the previous servers are not put back
Restore_Forgotten ==
  /\ pc = "restore" /\ pc' = "check"
  /\ UNCHANGED <<site, dhcp, resolv, route, netUp, ra, prev, rc, errors>>

(* echo "$prev": without a file before, an empty one now. *)
Restore ==
  /\ pc = "restore" /\ pc' = "check"
  /\ resolv' = IF prev = Absent THEN Blank ELSE prev
  /\ UNCHANGED <<site, dhcp, route, netUp, ra, prev, rc, errors>>

PointerKnown ==
  /\ pc = "check"
  /\ pc' = IF rc = 0 THEN "download" ELSE "sleep"
  /\ UNCHANGED <<site, dhcp, resolv, route, netUp, ra, prev, rc, errors>>

(* Nix resolves the substituters through the same file. *)
Realise ==
  /\ pc = "download"
  /\ pc' = IF Resolves THEN "done" ELSE "sleep"
  /\ UNCHANGED <<site, dhcp, resolv, route, netUp, ra, prev, rc, errors>>

\* mutant: the network is not tried again
Retry_NoNetwork ==
  /\ pc = "sleep" /\ \A i \in Ifaces : dhcp[i] = "gone"
  /\ pc' = "curl"
  /\ UNCHANGED <<site, dhcp, resolv, route, netUp, ra, prev, rc, errors>>

(* After 30 s, with the network brought up again unless a lease has come.   *)
(* A udhcpc lives for 30 s at most (-n -t 10 -T 3): the sleep outlasts it.  *)
Retry ==
  /\ pc = "sleep" /\ \A i \in Ifaces : dhcp[i] = "gone"
  /\ pc' = IF netUp THEN "curl" ELSE "network"
  /\ UNCHANGED <<site, dhcp, resolv, route, netUp, ra, prev, rc, errors>>

Script == StartNetwork \/ NetworkReturns \/ FirstTry \/ ReadResolv \/ UseGoogle
          \/ SecondTry \/ Restore \/ PointerKnown \/ Realise \/ Retry

Lease(i) == TestNetUp(i) \/ AddRoute(i) \/ WriteDns(i) \/ TouchNetUp(i)

Next == \/ Script \/ RouterAdvertisement
        \/ \E i \in Ifaces : GiveUp(i) \/ Bound(i) \/ Lease(i)

Spec == Init /\ [][Next]_vars

(* Processes run; a DHCP server that is asked again and again answers some  *)
(* time; routers advertise.                                                 *)
Fairness ==
  /\ WF_vars(Script) /\ WF_vars(RouterAdvertisement)
  /\ \A i \in Ifaces : SF_vars(Bound(i)) /\ WF_vars(Lease(i))
                       /\ WF_vars(GiveUp(i) \/ Bound(i))

FairSpec == Spec /\ Fairness

-----------------------------------------------------------------------------
(* The fallback servers are left in place only when they resolve: a        *)
(* fallback that fails is taken back before the next attempt               *)
(* (init.sh:153-161).                                                      *)
FallbackTakenBack ==
  pc \in {"check", "sleep", "network", "wait", "curl"} /\ resolv = Google
    => Google \in site.working

(* /run/net-up means configured: whoever sees it finds DNS written and,    *)
(* if any lease brings one, a default route (udhcpc.sh:11-20).             *)
UpMeansConfigured ==
  netUp => /\ resolv # Absent
           /\ WithRoute = Ifaces => route # Absent

(* A box without a system downloads one in the end, where the fallback     *)
(* servers resolve, or where those of every lease do and there is no IPv6  *)
(* (init.sh:134-161, 318-324).  Other networks are not promised it.        *)
Downloads == <>(pc = "done")

(* "the first lease wins the default route and DNS" (init.sh:58,           *)
(* udhcpc.sh:2): both come from the same lease.                            *)
OneLeaseWins ==
  netUp /\ resolv \in Ifaces /\ route \in Ifaces /\ WithRoute = Ifaces
    => route = resolv
=============================================================================
