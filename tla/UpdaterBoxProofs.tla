-------------------------- MODULE UpdaterBoxProofs --------------------------
(***************************************************************************)
(* The updater implements Box, for any systems and bounds and any faults   *)
(* but failing writes to the ESP.                                          *)
(***************************************************************************)
EXTENDS UpdaterBox, UpdaterProofs

(* Whatever may get on the disk was offered: the pointer, the system that   *)
(* is being installed, and every link.                                      *)
AllOffered ==
  /\ {published, want} \cap Systems \subseteq offered
  /\ Rooted(nix) \cup Rooted(nixDisk) \subseteq offered

USE DEF script, disks, world, Goto

(* Nothing is installed and the pointer is offered. *)
LEMMA OfferedInit == HInit => AllOffered
BY SystemsAssumption DEF HInit, Init, EmptyProfile, AllOffered, Rooted, Linked

(* Only what is being installed gets a link. *)
LEMMA OfferedStep ==
  ASSUME IInv, AllOffered, [HNext]_<<vars, offered>>
  PROVE  AllOffered'
<1>1. CASE UNCHANGED <<vars, offered>>
  BY <1>1 DEF vars, AllOffered
<1>2. CASE HNext
  <2>1. [Next]_vars /\ offered' = offered \cup ({published'} \cap Systems)
    BY <1>2 DEF HNext
  <2>2. {want'} \cap Systems \subseteq offered
    BY <2>1, SystemsAssumption
    DEF AllOffered, Next, Machine, InstallStep, HandOffStep, vars,
        Firmware, Reset, LeaveShell, PowerCut, LosePower, Start, try_update, realise,
        check_system, create_generation, switch_profile, delete_generations, collect_garbage,
        HandOff, NextGeneration, EnsureKernel, EnsureInitrd, EnsureFile, CopyCp, CopySync, CopyMv,
        WriteConf, RemoveUnlisted, install_loader, WriteLoaderConf, FlushHandoff, SyncDisks,
        DeleteEntries, CreateEntry, SetBootNext, SetNvram, Fallback, Reboot, Writeback, Publish
  <2>3. Rooted(nix') \subseteq offered
    <3>1. CASE LeaveShell \/ PowerCut
      BY <3>1 DEF LeaveShell, PowerCut, LosePower, AllOffered
    <3>2. CASE InstallStep
      <4>1. CASE Rooted(nix') \subseteq Rooted(nix)
        BY <4>1 DEF AllOffered
      <4>2. CASE ~ (Rooted(nix') \subseteq Rooted(nix))
        <5>1. want \in Rooted(nix') /\ Rooted(nix') \subseteq Rooted(nix) \cup {want}
          BY <3>2, <4>2, InstallKeeps
        <5>2. IInv'
          BY <2>1, Step
        <5>3. want \in Systems
          BY <5>1, <5>2, RootedInStore DEF IInv, TypeOK, ProfileSound
        <5> QED BY <5>1, <5>3 DEF AllOffered
      <4> QED BY <4>1, <4>2
    <3>3. CASE nix' = nix
      BY <3>3 DEF AllOffered
    <3> QED BY <2>1, <3>1, <3>2, <3>3, Commits
  <2>4. Rooted(nixDisk') \subseteq offered
    BY <2>1, Commits DEF AllOffered
  <2> QED BY <2>1, <2>2, <2>3, <2>4 DEF AllOffered
<1> QED BY <1>1, <1>2

(* The profile whose newest link is installed. *)
InstalledIn(n) == IF Newest(n) = 0 THEN None ELSE n.links[Newest(n)]

(* It is one of the linked systems, if there is one. *)
LEMMA InstalledFacts ==
  ASSUME NEW n \in ProfileStates
  PROVE  /\ Linked(n) = {} => InstalledIn(n) = None
         /\ Linked(n) # {} => InstalledIn(n) \in Rooted(n) /\ InstalledIn(n) # None
<1>1. Linked(n) # {} => Newest(n) \in Linked(n) /\ Newest(n) # 0
  BY NewestFacts, BoundsAssumption DEF Gens
<1> QED BY <1>1, NewestFacts DEF InstalledIn, Rooted, Linked

BoxInv == EspInv /\ Retained /\ AllOffered

(* Every step of the updater is a step of Box, or leaves it as it is. *)
LEMMA BoxStep ==
  ASSUME BoxInv, BoxInv', [HNext]_<<vars, offered>>
  PROVE  [B!Next]_(B!vars)
<1>t. /\ nix \in ProfileStates /\ nixDisk \in ProfileStates /\ published \in Pointers
      /\ HandedOver /\ IInv
  BY DEF BoxInv, EspInv, IInv, TypeOK
<1>i. Installed = InstalledIn(nixDisk)
  BY DEF Installed, InstalledIn
<1>1. CASE UNCHANGED <<vars, offered>>
  <2>1. UNCHANGED <<nixDisk, running, offered>>
    BY <1>1 DEF vars
  <2> QED BY <2>1 DEF B!vars, Installed
<1>2. CASE Publish /\ HNext
  <2>1. UNCHANGED <<nixDisk, running>> /\ offered' = offered \cup ({published'} \cap Systems)
    BY <1>2 DEF Publish, HNext
  <2>2. Installed' = Installed
    BY <2>1 DEF Installed
  <2>3. CASE published' \in Systems \ offered
    BY <2>1, <2>2, <2>3 DEF B!Next, B!Offer
  <2>4. CASE published' \notin Systems \ offered
    BY <2>1, <2>2, <2>4 DEF B!vars
  <2> QED BY <2>3, <2>4
<1>3. CASE HNext /\ ~ Publish
  <2>1. /\ [Next]_vars /\ (Machine \/ PowerCut \/ Writeback)
        /\ offered' = offered \cup ({published'} \cap Systems)
    BY <1>3 DEF HNext, Next
  <2>2. offered' = offered
    <3>1. published' = published
      BY <2>1
      DEF Machine, InstallStep, HandOffStep, Firmware, Reset, LeaveShell, PowerCut, LosePower,
          Start, try_update, realise, check_system, create_generation, switch_profile,
          delete_generations, collect_garbage, HandOff, NextGeneration, EnsureKernel, EnsureInitrd,
          EnsureFile, CopyCp, CopySync, CopyMv, WriteConf, RemoveUnlisted, install_loader,
          WriteLoaderConf, FlushHandoff, SyncDisks, DeleteEntries, CreateEntry, SetBootNext,
          SetNvram, Fallback, Reboot, Writeback
    <3> QED BY <2>1, <3>1 DEF BoxInv, AllOffered
  <2>3. CASE Firmware
    <3>1. pc = "firmware" /\ running = None /\ nixDisk' = nixDisk
      BY <2>3, <1>t DEF Firmware, HandedOver
    <3>2. Installed' = Installed
      BY <3>1 DEF Installed
    <3>3. CASE running' = None
      BY <2>2, <3>1, <3>2, <3>3 DEF B!vars
    <3>4. CASE running' # None
      <4>1. pc' = "main" /\ BootsLoader
        BY <2>3, <3>4 DEF Firmware
      <4>2. nix.current # 0 /\ nixDisk = nix
        BY <3>1, <4>1, <1>t DEF HandedOver, Cleaned, Handed, BootsLoader
      <4>3. running' = nix'.links[Newest(nix')] /\ nix' = nix
        BY <2>3, <4>1 DEF BoxInv, EspInv, HandedOver, Firmware
      <4>4. Linked(nix) # {}
        BY <4>2, <1>t, BoundsAssumption DEF IInv, ProfileSound, Sound, Linked, ProfileStates, Gens
      <4>5. Newest(nix) # 0
        BY <4>4, <1>t, NewestFacts, BoundsAssumption DEF Gens
      <4>6. running' = Installed
        BY <4>2, <4>3, <4>5 DEF Installed
      <4> QED BY <2>2, <3>1, <3>2, <3>4, <4>6 DEF B!Next, B!Boot
    <3> QED BY <3>3, <3>4
  <2>4. CASE Reset
    <3>1. running' = None /\ nixDisk' = nixDisk
      BY <2>4 DEF Reset
    <3>2. Installed' = Installed
      BY <3>1 DEF Installed
    <3> QED BY <2>2, <3>1, <3>2 DEF B!vars, B!Next, B!Halt
  <2>5. CASE ~ Firmware /\ ~ Reset
    <3>1. running' = None /\ running = None
      <4>1. pc # "main" => pc' # "main"
        BY <2>1, <2>5, <1>t
        DEF IInv, TypeOK, Machine, InstallStep, HandOffStep, LeaveShell, PowerCut, LosePower,
          Start, try_update, realise, check_system, create_generation, switch_profile,
          delete_generations, collect_garbage, HandOff, NextGeneration, EnsureKernel, EnsureInitrd,
          EnsureFile, CopyCp, CopySync, CopyMv, AfterCopy, WriteConf, RemoveUnlisted, install_loader,
          WriteLoaderConf, FlushHandoff, DeleteEntries, CreateEntry, SetBootNext,
          SetNvram, Fallback, Reboot, Writeback
      <4>2. pc # "main"
        <5>1. ASSUME pc = "main" PROVE FALSE
          <6>1. nixDisk = nix
            BY <5>1, <1>t DEF HandedOver, Handed
          <6> QED BY <2>1, <2>5, <5>1, <6>1
              DEF Machine, InstallStep, HandOffStep, LeaveShell, PowerCut, UpdaterSteps,
                Start, try_update, realise, check_system, create_generation, switch_profile,
                delete_generations, collect_garbage, HandOff, NextGeneration, EnsureKernel,
                EnsureInitrd, EnsureFile, CopyCp, CopySync, CopyMv, WriteConf, RemoveUnlisted,
                install_loader, WriteLoaderConf, FlushHandoff, DeleteEntries, CreateEntry,
                SetBootNext, SetNvram, Fallback, Reboot, Writeback
        <5> QED BY <5>1
      <4> QED BY <4>1, <4>2 DEF BoxInv, EspInv, HandedOver
    <3>2. nixDisk' \in {nixDisk, nix}
      BY <2>1, Commits
    <3>3. CASE Installed' = Installed
      BY <2>2, <3>1, <3>3 DEF B!vars
    <3>4. CASE Installed' # Installed
      <4>1. nixDisk' = nix /\ Installed' = InstalledIn(nix)
        BY <3>2, <3>4 DEF Installed, InstalledIn
      <4>2. Linked(nix) # {}
        <5>1. ASSUME Linked(nix) = {} PROVE FALSE
          BY <5>1, <4>1, <3>4, <1>t, <1>i, InstalledFacts DEF BoxInv, Retained
        <5> QED BY <5>1
      <4>3. Installed' \in offered
        BY <4>1, <4>2, <1>t, InstalledFacts DEF BoxInv, AllOffered
      <4> QED BY <2>2, <3>1, <4>3 DEF B!Next, B!Install
    <3> QED BY <3>3, <3>4
  <2> QED BY <2>3, <2>4, <2>5
<1> QED BY <1>1, <1>2, <1>3

(* An installed machine runs published systems only, those its disk holds,  *)
(* and no update touches what it holds while it runs, unless a write to the *)
(* ESP fails (init.sh:299-343).                                             *)
THEOREM UpdaterImplementsBox ==
  ASSUME "esp" \notin Faults
  PROVE  HSpec => ImplementsBox
<1>1. HInit => BoxInv /\ B!Init
  <2> SUFFICES ASSUME HInit PROVE BoxInv /\ B!Init
    OBVIOUS
  <2>1. Init
    BY DEF HInit
  <2>2. EspInv
    BY <2>1, EspInvInit
  <2>3. Retained
    BY <2>1 DEF Init, Retained
  <2>4. Installed = None
    <3>1. nixDisk \in ProfileStates /\ Linked(nixDisk) = {}
      BY <2>1, <2>2 DEF EspInv, IInv, TypeOK, Init, EmptyProfile, Linked
    <3> QED BY <3>1, NewestFacts DEF Installed
  <2>5. B!Init
    BY <2>1, <2>4 DEF B!Init, HInit, Init
  <2> QED BY <2>2, <2>3, <2>5, OfferedInit DEF BoxInv
<1>2. BoxInv /\ [HNext]_<<vars, offered>> => BoxInv'
  <2> SUFFICES ASSUME BoxInv, [HNext]_<<vars, offered>> PROVE BoxInv'
    OBVIOUS
  <2>1. [Next]_vars
    BY DEF HNext, vars
  <2>2. EspInv'
    BY <2>1, EspInvStep DEF BoxInv
  <2>3. Retained'
    BY <2>1, RetainedStep DEF BoxInv, EspInv
  <2>4. AllOffered'
    BY OfferedStep DEF BoxInv, EspInv
  <2> QED BY <2>2, <2>3, <2>4 DEF BoxInv
<1>3. BoxInv /\ BoxInv' /\ [HNext]_<<vars, offered>> => [B!Next]_(B!vars)
  BY BoxStep
<1> QED BY <1>1, <1>2, <1>3, PTL DEF HSpec, ImplementsBox, B!Spec
=============================================================================
