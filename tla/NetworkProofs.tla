---------------------------- MODULE NetworkProofs ----------------------------
(***************************************************************************)
(* Proofs about Network: for any number of interfaces, whatever their      *)
(* leases bring, in every network, however the udhcpc processes and the    *)
(* script interleave.                                                      *)
(***************************************************************************)
EXTENDS Network, TLAPS

(* A lease that is past adding its route, or past writing its servers, has  *)
(* left one behind, and no later step takes the last one away: the script   *)
(* never puts the absence of the file back.                                 *)
Configured ==
  /\ \A i \in Ifaces : dhcp[i] \in {"dns", "touch"} /\ WithRoute = Ifaces => route # Absent
  /\ \A i \in Ifaces : dhcp[i] = "touch" => resolv # Absent

(* Between its two attempts the script holds servers to go back to that are *)
(* not the fallback; at any other time the fallback is there if it works.   *)
FallbackOwned ==
  /\ pc \in {"google", "retry", "restore"} => prev # Google
  /\ pc \notin {"retry", "restore"} /\ resolv = Google => Google \in site.working

NetInv == TypeOK /\ Configured /\ UpMeansConfigured /\ FallbackOwned

(* Before the script starts nothing is configured and nothing is promised.  *)
LEMMA NetInvInit == Init => NetInv
<1> SUFFICES ASSUME Init PROVE NetInv
  OBVIOUS
<1> USE NetworkAssumption DEF NetworkAssumption, Init
<1>1. TypeOK
  <2>1. dhcp \in [Ifaces -> {"off", "asking", "test", "route", "dns", "touch", "gone"}]
    OBVIOUS
  <2>2. errors \in 0 .. MaxErrors
    OBVIOUS
  <2> QED BY <2>1, <2>2 DEF TypeOK, Contents
<1>2. Configured /\ UpMeansConfigured
  BY DEF Configured, UpMeansConfigured
<1>3. FallbackOwned
  BY DEF FallbackOwned
<1> QED BY <1>1, <1>2, <1>3 DEF NetInv

(* Every step of the script, of a udhcpc or of the kernel preserves NetInv. *)
LEMMA NetInvStep == NetInv /\ [Next]_vars => NetInv'
<1> SUFFICES ASSUME NetInv, [Next]_vars PROVE NetInv'
  OBVIOUS
<1> USE NetworkAssumption DEF NetworkAssumption, NetInv, TypeOK, Contents
<1> USE DEF Configured, UpMeansConfigured, FallbackOwned
<1>1. CASE RouterAdvertisement
  BY <1>1 DEF RouterAdvertisement
<1>2. CASE StartNetwork
  BY <1>2 DEF StartNetwork
<1>3. CASE NetworkReturns
  BY <1>3 DEF NetworkReturns
<1>4. CASE FirstTry
  BY <1>4 DEF FirstTry, get_pointer
<1>5. CASE ReadResolv
  BY <1>5 DEF ReadResolv
<1>6. CASE UseGoogle
  BY <1>6 DEF UseGoogle
<1>7. CASE SecondTry
  BY <1>7 DEF SecondTry, get_pointer, Resolves
<1>8. CASE Restore
  BY <1>8 DEF Restore
<1>9. CASE PointerKnown
  BY <1>9 DEF PointerKnown
<1>10. CASE Realise
  BY <1>10 DEF Realise
<1>11. CASE Retry
  BY <1>11 DEF Retry
<1>12. ASSUME NEW i \in Ifaces, GiveUp(i) PROVE NetInv'
  BY <1>12 DEF GiveUp
<1>13. ASSUME NEW i \in Ifaces, Bound(i) PROVE NetInv'
  BY <1>13 DEF Bound
<1>14. ASSUME NEW i \in Ifaces, TestNetUp(i) PROVE NetInv'
  BY <1>14 DEF TestNetUp
<1>15. ASSUME NEW i \in Ifaces, AddRoute(i) PROVE NetInv'
  BY <1>15 DEF AddRoute
<1>16. ASSUME NEW i \in Ifaces, WriteDns(i) PROVE NetInv'
  BY <1>16 DEF WriteDns
<1>17. ASSUME NEW i \in Ifaces, TouchNetUp(i) PROVE NetInv'
  BY <1>17 DEF TouchNetUp
<1>18. CASE UNCHANGED vars
  BY <1>18 DEF vars
<1> QED
  BY <1>1, <1>2, <1>3, <1>4, <1>5, <1>6, <1>7, <1>8, <1>9, <1>10, <1>11, <1>12,
     <1>13, <1>14, <1>15, <1>16, <1>17, <1>18 DEF Next, Script, Lease

(* NetInv holds in every reachable state. *)
LEMMA NetInvHolds == Spec => []NetInv
BY NetInvInit, NetInvStep, PTL DEF Spec

(* The script, the kernel and every lease script keep the shared files, the *)
(* flag and $prev within what the comments of init.sh say they hold.        *)
THEOREM Typed == Spec => []TypeOK
<1>1. NetInv => TypeOK
  BY DEF NetInv
<1> QED BY <1>1, NetInvHolds, PTL

(* Whoever sees /run/net-up finds the servers written and, if every lease   *)
(* brings a router, a default route, although udhcpc.sh tests the flag and  *)
(* sets it in two steps and several of them may run at once.                *)
THEOREM ConfiguredWhenUp == Spec => []UpMeansConfigured
<1>1. NetInv => UpMeansConfigured
  BY DEF NetInv
<1> QED BY <1>1, NetInvHolds, PTL

(* fetch_pointer leaves the fallback servers in resolv.conf only where they *)
(* work, although a lease may rewrite the file at any point in between.     *)
THEOREM FallbackIsTakenBack == Spec => []FallbackTakenBack
<1>1. NetInv => FallbackTakenBack
  BY DEF NetInv, FallbackOwned, FallbackTakenBack
<1> QED BY <1>1, NetInvHolds, PTL
=============================================================================
