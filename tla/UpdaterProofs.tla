--------------------------- MODULE UpdaterProofs ---------------------------
(***************************************************************************)
(* Proofs about Updater, for every set of systems and boot files, every    *)
(* number of kept generations, every bound and every set of faults: where  *)
(* a property does not hold with a kind of fault, the theorem says so.     *)
(***************************************************************************)
EXTENDS Updater, FiniteSetTheorems, NaturalsInduction, WellFoundedInduction, TLAPS

(* A nonempty set of naturals has a smallest member. *)
LEMMA LeastExists ==
  ASSUME NEW T \in SUBSET Nat, T # {}
  PROVE  \E x \in T : \A y \in T : x <= y
<1>1. PICK x \in T : \A y \in T : ~ (<<y, x>> \in OpToRel(<, Nat))
  BY NatLessThanWellFounded, WFMin
<1>2. ASSUME NEW y \in T PROVE x <= y
  <2>1. x \in Nat /\ y \in Nat
    OBVIOUS
  <2>2. y < x => <<y, x>> \in OpToRel(<, Nat)
    BY <2>1 DEF OpToRel
  <2>3. ~ (y < x)
    BY <2>2, <1>1
  <2> QED BY <2>1, <2>3
<1> QED BY <1>2

(* A nonempty set of generation numbers has a largest member. *)
LEMMA MaxExists ==
  ASSUME NEW S \in SUBSET Gens, S # {}
  PROVE  \E g \in S : \A h \in S : h <= g
<1> DEFINE T == {MaxGen - g : g \in S}
<1>1. S \subseteq Int /\ MaxGen \in Nat /\ \A g \in S : g <= MaxGen
  BY BoundsAssumption DEF Gens
<1>2. T \in SUBSET Nat /\ T # {}
  <2>1. \A g \in S : MaxGen - g \in Nat
    BY <1>1
  <2>2. T \subseteq Nat
    BY <2>1
  <2>3. T # {}
    OBVIOUS
  <2> QED BY <2>2, <2>3
<1>3. PICK x \in T : \A y \in T : x <= y
  <2> HIDE DEF T
  <2> QED BY <1>2, LeastExists
<1>4. PICK g \in S : x = MaxGen - g
  BY <1>3
<1>5. ASSUME NEW h \in S PROVE h <= g
  <2>1. MaxGen - h \in T
    OBVIOUS
  <2>2. x <= MaxGen - h
    <3> HIDE DEF T
    <3> QED BY <2>1, <1>3
  <2> QED BY <2>2, <1>1, <1>4
<1> QED BY <1>5

(* Newest is 0 exactly when there is no link, and the largest one if there  *)
(* is one.                                                                  *)
LEMMA NewestFacts ==
  ASSUME NEW n \in ProfileStates
  PROVE  /\ Newest(n) \in 0 .. MaxGen
         /\ Linked(n) = {} => Newest(n) = 0
         /\ Linked(n) # {} => /\ Newest(n) \in Linked(n) /\ Newest(n) \in Gens
                              /\ \A h \in Linked(n) : h <= Newest(n)
<1>1. Linked(n) \in SUBSET Gens
  BY DEF Linked
<1>2. CASE Linked(n) = {}
  BY <1>2, BoundsAssumption DEF Newest
<1>3. CASE Linked(n) # {}
  <2>1. \E g \in Linked(n) : \A h \in Linked(n) : h <= g
    BY <1>1, <1>3, MaxExists
  <2>2. Newest(n) \in Linked(n) /\ \A h \in Linked(n) : h <= Newest(n)
    BY <2>1, <1>3 DEF Newest
  <2> QED BY <2>2, <1>1, <1>3, BoundsAssumption DEF Gens
<1> QED BY <1>2, <1>3
-----------------------------------------------------------------------------
(* The definitions every step proof expands. *)
USE DEF script, disks, world, Goto

(* The machine a-box-install leaves behind satisfies the invariant. *)
LEMMA Initially == Init => IInv
<1> SUFFICES ASSUME Init PROVE IInv
  OBVIOUS
<1>1. EmptyProfile \in ProfileStates /\ Sound(EmptyProfile)
  BY BoundsAssumption DEF EmptyProfile, ProfileStates, Sound
<1>2. EmptyEsp \in EspStates
  BY DEF EmptyEsp, EspStates, Status
<1>3. TypeOK
  BY <1>1, <1>2, BoundsAssumption DEF Init, TypeOK, Gens, Places, UpdaterSteps, Pointers
<1> QED BY <1>1, <1>3 DEF Init, IInv, ProfileSound, Knows, HandOffSteps, CopySteps

(* Changing the store of a sound profile, as long as what is linked stays. *)
LEMMA StoreChange ==
  ASSUME NEW n \in ProfileStates, Sound(n),
         NEW S \in SUBSET (Systems \cup Others), Rooted(n) \subseteq S
  PROVE  LET m == [n EXCEPT !.store = S] IN
           /\ m \in ProfileStates /\ Sound(m)
           /\ m.store = S /\ m.links = n.links /\ m.current = n.current
           /\ Linked(m) = Linked(n)
<1>1. \A g \in Gens : n.links[g] # None => n.links[g] \in S
  BY DEF Rooted, Linked
<1> QED BY <1>1 DEF ProfileStates, Sound, Linked

(* What is linked in a sound profile is in the store. *)
LEMMA RootedInStore ==
  ASSUME NEW n \in ProfileStates, Sound(n)
  PROVE  Rooted(n) \subseteq n.store \cap Systems
BY DEF Sound, Rooted, Linked

(* A power cut leaves the file systems in states of their types, and the   *)
(* committed profile in place of the current one.                          *)
LEMMA CutKeeps ==
  ASSUME IInv, LosePower, faults' \in 0 .. MaxFaults
  PROVE  IInv'
<1>1. esp' \in EspStates
  <2>1. PICK b \in AfterCut(Files, espDisk.boot, esp.boot, "partial"),
             c \in AfterCut(Gens, espDisk.conf, esp.conf, Torn),
             t \in {(espDisk.tmp \cap esp.tmp) \cup some : some \in SUBSET (espDisk.tmp \cup esp.tmp)},
             l \in {espDisk.loader, esp.loader} \cup (IF LoaderName \in dirty THEN {Torn} ELSE {}) :
               esp' = [boot |-> b, conf |-> c, tmp |-> t, loader |-> l]
    BY DEF LosePower, EspAfterCut
  <2>2. t \in SUBSET Names /\ l \in Loaders \cup {None, Torn}
    BY <2>1 DEF IInv, TypeOK, EspStates
  <2>3. ASSUME NEW S, NEW R, NEW old \in [S -> R], NEW new \in [S -> R], NEW torn \in R,
               NEW x \in AfterCut(S, old, new, torn)
        PROVE  x \in [S -> R]
    BY <2>3 DEF AfterCut
  <2>4. b \in [Files -> Status]
    BY <2>1, <2>3 DEF IInv, TypeOK, EspStates, Status
  <2>5. c \in [Gens -> Systems \cup {None, Torn}]
    BY <2>1, <2>3 DEF IInv, TypeOK, EspStates
  <2> QED BY <2>1, <2>2, <2>4, <2>5 DEF EspStates
<1>2. TypeOK'
  BY <1>1, BoundsAssumption DEF IInv, LosePower, TypeOK, Places, Gens
<1> QED BY <1>2 DEF IInv, LosePower, ProfileSound, Knows, HandOffSteps, CopySteps

(* Adding a generation after the newest one. *)
LEMMA LinkAdded ==
  ASSUME NEW n \in ProfileStates, Sound(n),
         NEW s \in n.store \cap Systems, Newest(n) < MaxGen
  PROVE  LET m == [n EXCEPT !.links[Newest(n) + 1] = s] IN
           /\ m \in ProfileStates /\ Sound(m) /\ NewestNames(m, s)
<1> DEFINE k == Newest(n) + 1
           m == [n EXCEPT !.links[Newest(n) + 1] = s]
<1>1. Newest(n) \in 0 .. MaxGen
  BY NewestFacts
<1>2. k \in Gens
  BY <1>1, BoundsAssumption DEF Gens
<1>3. s # None
  BY SystemsAssumption
<1>4. /\ m.store = n.store /\ m.current = n.current
      /\ m.links = [n.links EXCEPT ![k] = s]
  BY DEF ProfileStates
<1>5. m.links \in [Gens -> Systems \cup {None}] /\ m.links[k] = s
      /\ \A g \in Gens : g # k => m.links[g] = n.links[g]
  <2> HIDE DEF m, k
  <2> QED BY <1>2, <1>4 DEF ProfileStates
<1>6. m \in ProfileStates
  BY <1>5, <1>4 DEF ProfileStates
<1>7. Sound(m)
  <2> HIDE DEF m, k
  <2>1. ASSUME NEW g \in Gens, m.links[g] # None PROVE m.links[g] \in m.store \cap Systems
    BY <2>1, <1>4, <1>5 DEF Sound
  <2>2. ASSUME m.current # 0 PROVE m.links[m.current] # None
    <3>1. n.current \in Gens /\ n.links[n.current] # None
      BY <2>2, <1>4, BoundsAssumption DEF Sound, ProfileStates, Gens
    <3> QED BY <3>1, <1>3, <1>4, <1>5
  <2> QED BY <2>1, <2>2 DEF Sound
<1>8. Newest(m) = k
  <2>1. \A h \in Linked(n) : h <= Newest(n)
    BY NewestFacts DEF Linked
  <2>2. \A h \in Linked(m) : h <= k
    <3> HIDE DEF m
    <3> QED BY <2>1, <1>1, <1>5 DEF Linked, Gens
  <2>3. k \in Linked(m)
    <3> HIDE DEF m, k
    <3> QED BY <1>2, <1>3, <1>5 DEF Linked
  <2>4. Newest(m) \in Linked(m) /\ Newest(m) \in Gens /\ \A h \in Linked(m) : h <= Newest(m)
    <3> HIDE DEF m, k
    <3> QED BY <2>3, <1>6, NewestFacts
  <2> HIDE DEF m, k
  <2> QED BY <1>2, <2>2, <2>3, <2>4 DEF Gens
<1>9. NewestNames(m, s)
  <2> HIDE DEF m, k
  <2> QED BY <1>2, <1>5, <1>8, BoundsAssumption DEF NewestNames, Gens
<1> QED BY <1>6, <1>7, <1>9

(* Deleting old generations keeps a sound profile sound. *)
LEMMA Pruned ==
  ASSUME NEW n \in ProfileStates, Sound(n)
  PROVE  LET m == [n EXCEPT !.links = [g \in Gens |-> IF g \in KeptGenerations(n)
                                                       THEN n.links[g] ELSE None]]
         IN  m \in ProfileStates /\ Sound(m)
<1> DEFINE l == [g \in Gens |-> IF g \in KeptGenerations(n) THEN n.links[g] ELSE None]
           m == [n EXCEPT !.links = l]
<1>1. l \in [Gens -> Systems \cup {None}]
  BY DEF ProfileStates
<1>2. m.links = l /\ m.store = n.store /\ m.current = n.current
  BY DEF ProfileStates
<1>3. m \in ProfileStates
  BY <1>1, <1>2 DEF ProfileStates
<1>4. \A g \in Gens : l[g] # None => l[g] \in n.store \cap Systems
  BY DEF Sound
<1>5. ASSUME n.current # 0 PROVE l[n.current] # None
  <2>1. n.current \in Gens /\ n.links[n.current] # None
    BY <1>5, BoundsAssumption DEF Sound, ProfileStates, Gens
  <2>2. n.current \in KeptGenerations(n)
    BY <2>1, BoundsAssumption DEF KeptGenerations, Linked, Gens
  <2> QED BY <2>1, <2>2
<1>6. Sound(m)
  <2> HIDE DEF l, m
  <2> QED BY <1>2, <1>4, <1>5 DEF Sound
<1> QED BY <1>3, <1>6

(* Switching a sound profile to its newest generation. *)
LEMMA Switched ==
  ASSUME NEW n \in ProfileStates, Sound(n), NEW s, NewestNames(n, s)
  PROVE  LET m == [n EXCEPT !.current = Newest(n)] IN
           m \in ProfileStates /\ Sound(m)
<1>1. Newest(n) \in 0 .. MaxGen /\ Newest(n) # 0
  BY NewestFacts DEF NewestNames
<1>2. n.links[Newest(n)] # None
  BY <1>1, NewestFacts DEF Linked
<1> QED BY <1>1, <1>2 DEF ProfileStates, Sound

(* While entries are written, the generation at hand is a linked one, so   *)
(* the files copied are boot files and the loader is a loader.             *)
LEMMA HandOffFacts ==
  ASSUME IInv, pc \in HandOffSteps
  PROVE  /\ current_system(nix) \in Systems /\ Loader[current_system(nix)] \in Loaders
         /\ gen \in todo => /\ GenSystem \in Systems
                            /\ Kernel[GenSystem] \in Files /\ Initrd[GenSystem] \in Files
                            /\ JobFile \in Files
<1>1. nix.current \in Gens /\ nix.links[nix.current] # None
  BY BoundsAssumption DEF IInv, Knows, TypeOK, ProfileStates, Gens, ProfileSound, Sound
<1>2. current_system(nix) \in Systems
  BY <1>1 DEF IInv, Knows, TypeOK, ProfileSound, Sound, current_system
<1>3. gen \in todo => GenSystem \in Systems
  BY DEF IInv, Knows, TypeOK, ProfileSound, Sound, Linked, GenSystem
<1> QED BY <1>2, <1>3, FilesAssumption DEF JobFile

(* Every action preserves the inductive invariant. *)
LEMMA Step == IInv /\ [Next]_vars => IInv'
<1> SUFFICES ASSUME IInv, [Next]_vars PROVE IInv'
  OBVIOUS
<1> USE BoundsAssumption
    DEF IInv, TypeOK, Knows, ProfileSound, Places, UpdaterSteps, HandOffSteps, CopySteps, Fault
<1>1. CASE Firmware
  <2>1. running' \in Systems \cup {None}
    BY <1>1 DEF Firmware, Bootable
  <2>2. nvram' \in [entry : BOOLEAN, bootNext : BOOLEAN]
    BY <1>1 DEF Firmware
  <2> QED BY <1>1, <2>1, <2>2 DEF Firmware
<1>2. CASE Reset
  BY <1>2 DEF Reset
<1>3. CASE LeaveShell
  BY <1>3, CutKeeps DEF LeaveShell
<1>4. CASE Start
  BY <1>4 DEF Start
<1>5. CASE try_update
  BY <1>5 DEF try_update, Pointers
<1>6. CASE realise
  <2>1. PICK kept \in {nix.store, nix.store \cap Rooted(nix)} :
          \/ /\ nix' = [nix EXCEPT !.store = kept \cup {want}] /\ pc' = "validate"
             /\ UNCHANGED faults
          \/ /\ nix' = [nix EXCEPT !.store = kept] /\ pc' = "decide"
             /\ faults' \in 0 .. MaxFaults
    BY <1>6 DEF realise
  <2>2. Rooted(nix) \subseteq kept /\ kept \in SUBSET (Systems \cup Others)
    BY <2>1, RootedInStore DEF ProfileStates
  <2>3. kept \cup {want} \in SUBSET (Systems \cup Others)
    BY <1>6, <2>2 DEF realise
  <2>4. /\ [nix EXCEPT !.store = kept] \in ProfileStates /\ Sound([nix EXCEPT !.store = kept])
    BY <2>2, StoreChange
  <2>5. LET m == [nix EXCEPT !.store = kept \cup {want}] IN
          m \in ProfileStates /\ Sound(m) /\ m.store = kept \cup {want}
    BY <2>2, <2>3, StoreChange
  <2>6. nix' \in ProfileStates /\ Sound(nix') /\ (pc' = "validate" => want \in nix'.store)
    BY <2>1, <2>4, <2>5
  <2> QED BY <1>6, <2>1, <2>6 DEF realise
<1>7. CASE check_system
  BY <1>7 DEF check_system
<1>8. CASE create_generation
  <2>1. nix' \in ProfileStates /\ Sound(nix') /\ (pc' = "switch" => NewestNames(nix', want))
    BY <1>8, LinkAdded DEF create_generation
  <2> QED BY <1>8, <2>1 DEF create_generation
<1>9. CASE switch_profile
  <2>1. nix' \in ProfileStates /\ Sound(nix')
    BY <1>9, Switched DEF switch_profile
  <2> QED BY <1>9, <2>1 DEF switch_profile
<1>10. CASE delete_generations
  <2>1. nix' \in ProfileStates /\ Sound(nix')
    BY <1>10, Pruned DEF delete_generations
  <2> QED BY <1>10, <2>1 DEF delete_generations
<1>11. CASE collect_garbage
  <2>1. \E S \in SUBSET (Systems \cup Others) :
          Rooted(nix) \subseteq S /\ nix' = [nix EXCEPT !.store = S]
    BY <1>11, RootedInStore DEF collect_garbage, ProfileStates
  <2>2. nix' \in ProfileStates /\ Sound(nix')
    BY <2>1, StoreChange
  <2> QED BY <1>11, <2>2 DEF collect_garbage
<1>12. CASE HandOff
  BY <1>12 DEF HandOff, Linked, current_system
<1>13. CASE NextGeneration
  BY <1>13 DEF NextGeneration
<1>14. CASE EnsureKernel
  BY <1>14 DEF EnsureKernel, EnsureFile
<1>15. CASE EnsureInitrd
  BY <1>15 DEF EnsureInitrd, EnsureFile
<1>16. CASE CopyCp
  <2>1. JobName \in Names
    BY <1>16, HandOffFacts DEF CopyCp, JobName, Names
  <2>2. esp' \in EspStates
    BY <1>16, <2>1 DEF CopyCp, EspStates
  <2>3. /\ pc = "cp" /\ pc' = "sync" /\ copied' \in {"partial", "complete"} /\ flushed' = FALSE
        /\ faults' \in 0 .. MaxFaults
        /\ UNCHANGED <<nix, nixDisk, espDisk, dirty, nvram, want, todo, gen, listed, job,
                       running, published, publishes>>
    BY <1>16 DEF CopyCp
  <2> QED BY <2>2, <2>3
<1>17. CASE CopySync
  BY <1>17 DEF CopySync, SyncDisks
<1>18. CASE CopyMv
  <2>1. job # "loader" => JobFile \in Files
    BY <1>18, HandOffFacts DEF CopyMv
  <2>2. Loader[current_system(nix)] \in Loaders
    BY <1>18, HandOffFacts DEF CopyMv
  <2>3. esp' \in EspStates
    <3>1. CASE job = "loader" /\ pc' # "fallback"
      <4> DEFINE l == IF copied = "complete" THEN Loader[current_system(nix)] ELSE Torn
                 t == esp.tmp \ {JobName}
      <4>1. /\ l \in Loaders \cup {None, Torn} /\ t \in SUBSET Names
            /\ esp' = [esp EXCEPT !.loader = l, !.tmp = t]
        BY <1>18, <3>1, <2>2 DEF CopyMv, EspStates
      <4> HIDE DEF l, t
      <4> QED BY <4>1 DEF EspStates
    <3>2. CASE job # "loader" /\ pc' # "fallback"
      <4> DEFINE b == [esp.boot EXCEPT ![JobFile] = copied]
                 t == esp.tmp \ {JobName}
      <4>1. b \in [Files -> Status] /\ t \in SUBSET Names
        BY <2>1, <3>2 DEF EspStates, Status
      <4>2. esp' = [esp EXCEPT !.boot = b, !.tmp = t]
        BY <1>18, <3>2 DEF CopyMv, EspStates
      <4> HIDE DEF b, t
      <4> QED BY <4>1, <4>2 DEF EspStates
    <3>3. CASE pc' = "fallback"
      BY <1>18, <3>3 DEF CopyMv, AfterCopy
    <3> QED BY <3>1, <3>2, <3>3
  <2>4. dirty' \subseteq Names
    BY <1>18, <2>1 DEF CopyMv, JobName, Names
  <2>5. pc' \in {"initrd", "conf", "loader_conf", "fallback"}
    BY <1>18 DEF CopyMv, AfterCopy
  <2>6. pc' \in {"initrd", "conf"} => job # "loader"
    BY <1>18 DEF CopyMv, AfterCopy
  <2> QED BY <1>18, <2>3, <2>4, <2>5, <2>6 DEF CopyMv
<1>19. CASE WriteConf
  <2>1. GenSystem \in Systems /\ {Kernel[GenSystem], Initrd[GenSystem], gen} \subseteq Files \cup Gens
    BY <1>19, HandOffFacts DEF WriteConf
  <2>2. esp' \in EspStates
    <3>1. [esp.conf EXCEPT ![gen] = GenSystem] \in [Gens -> Systems \cup {None, Torn}]
      BY <2>1 DEF EspStates
    <3>2. \/ esp' = [esp EXCEPT !.conf = [esp.conf EXCEPT ![gen] = GenSystem],
                              !.tmp = esp.tmp \ {gen}]
          \/ esp' = [esp EXCEPT !.tmp = esp.tmp \cup {gen}]
      BY <1>19 DEF WriteConf, EspStates
    <3>3. /\ esp.tmp \ {gen} \in SUBSET Names
          /\ esp.tmp \cup {gen} \in SUBSET Names
      BY DEF EspStates, Names
    <3> DEFINE c == [esp.conf EXCEPT ![gen] = GenSystem]
    <3> HIDE DEF c
    <3> QED BY <3>1, <3>2, <3>3 DEF EspStates, c
  <2>3. dirty' \subseteq Names /\ listed' \subseteq Files \cup Gens
    BY <1>19, <2>1 DEF WriteConf, Names
  <2> QED BY <1>19, <2>2, <2>3 DEF WriteConf
<1>20. CASE RemoveUnlisted
  <2>1. [f \in Files |-> IF f \in listed THEN esp.boot[f] ELSE "absent"] \in [Files -> Status]
    BY DEF EspStates, Status
  <2>2. [g \in Gens |-> IF g \in listed THEN esp.conf[g] ELSE None]
          \in [Gens -> Systems \cup {None, Torn}]
    BY DEF EspStates
  <2>3. esp' \in EspStates
    BY <1>20, <2>1, <2>2 DEF RemoveUnlisted, EspStates
  <2> QED BY <1>20, <2>3 DEF RemoveUnlisted
<1>21. CASE install_loader
  BY <1>21 DEF install_loader
<1>22. CASE WriteLoaderConf
  BY <1>22 DEF WriteLoaderConf
<1>23. CASE FlushHandoff
  BY <1>23 DEF FlushHandoff, SyncDisks
<1>24. CASE DeleteEntries
  <2>1. nvram' \in [entry : BOOLEAN, bootNext : BOOLEAN]
    BY <1>24 DEF DeleteEntries, SetNvram
  <2> QED BY <1>24, <2>1 DEF DeleteEntries, SetNvram
<1>25. CASE CreateEntry
  <2>1. nvram' \in [entry : BOOLEAN, bootNext : BOOLEAN]
    BY <1>25 DEF CreateEntry, SetNvram
  <2> QED BY <1>25, <2>1 DEF CreateEntry, SetNvram
<1>26. CASE SetBootNext
  <2>1. nvram' \in [entry : BOOLEAN, bootNext : BOOLEAN]
    BY <1>26 DEF SetBootNext, SetNvram
  <2> QED BY <1>26, <2>1 DEF SetBootNext, SetNvram
<1>27. CASE Fallback
  <2>1. nvram' \in [entry : BOOLEAN, bootNext : BOOLEAN]
    BY <1>27 DEF Fallback
  <2> QED BY <1>27, <2>1 DEF Fallback
<1>28. CASE Reboot
  BY <1>28 DEF Reboot, SyncDisks, Gens
<1>29. CASE PowerCut
  BY <1>29, CutKeeps DEF PowerCut
<1>30. CASE Writeback
  BY <1>30 DEF Writeback
<1>31. CASE Publish
  BY <1>31 DEF Publish
<1>32. CASE UNCHANGED vars
  BY <1>32 DEF vars
<1> QED
  BY <1>1, <1>2, <1>3, <1>4, <1>5, <1>6, <1>7, <1>8, <1>9, <1>10, <1>11, <1>12, <1>13, <1>14, <1>15, <1>16, <1>17, <1>18, <1>19, <1>20, <1>21, <1>22, <1>23, <1>24, <1>25, <1>26, <1>27, <1>28, <1>29, <1>30, <1>31, <1>32
  DEF Next, Machine, InstallStep, HandOffStep

(* The type invariant of the updater: every step of init.sh leaves disks,  *)
(* firmware and script in states of their types.                           *)
THEOREM TypeCorrect == Spec => []TypeOK
<1> QED BY Initially, Step, PTL DEF Spec, IInv

(* Every generation link names a complete NixOS system, on the disk as     *)
(* well as in memory, whatever faults happen and wherever power is lost    *)
(* (install_system, init.sh:173-192).                                      *)
THEOREM ProfileAlwaysSound == Spec => []ProfileSound
<1> QED BY Initially, Step, PTL DEF Spec, IInv
-----------------------------------------------------------------------------
(***************************************************************************)
(* The ESP.  Files appear under their final names complete: every copy is  *)
(* complete and flushed before it is renamed, so that only entries, which  *)
(* are written without a flush, may be torn by a power cut.                *)
(***************************************************************************)
FilesWhole ==
  /\ NamedFilesComplete
  /\ copied = "complete"
  /\ pc = "mv" => flushed
  /\ dirty \subseteq Gens

(* An empty ESP has no file that is not whole. *)
LEMMA WholeInit == Init => FilesWhole
BY SystemsAssumption DEF Init, EmptyEsp, FilesWhole, NamedFilesComplete, WholeFiles

(* After a power cut the boot files and the loader are whole as before:     *)
(* only names in dirty are torn, and those are entries.                     *)
LEMMA CutWhole ==
  ASSUME IInv, FilesWhole, LosePower
  PROVE  WholeFiles(esp') /\ WholeFiles(espDisk')
<1>1. PICK b \in AfterCut(Files, espDisk.boot, esp.boot, "partial"),
           c \in AfterCut(Gens, espDisk.conf, esp.conf, Torn),
           t \in {(espDisk.tmp \cap esp.tmp) \cup some : some \in SUBSET (espDisk.tmp \cup esp.tmp)},
           l \in {espDisk.loader, esp.loader} \cup (IF LoaderName \in dirty THEN {Torn} ELSE {}) :
             esp' = [boot |-> b, conf |-> c, tmp |-> t, loader |-> l]
  BY DEF LosePower, EspAfterCut
<1>2. LoaderName \notin dirty /\ Files \cap dirty = {}
  BY FilesAssumption DEF FilesWhole, Gens
<1>3. l # Torn
  BY <1>1, <1>2 DEF FilesWhole, NamedFilesComplete, WholeFiles
<1>4. ASSUME NEW f \in Files PROVE b[f] # "partial"
  BY <1>1, <1>2 DEF AfterCut, FilesWhole, NamedFilesComplete, WholeFiles
<1>5. espDisk' = esp'
  BY DEF LosePower
<1> QED BY <1>1, <1>3, <1>4, <1>5 DEF WholeFiles

(* Without a cp that fails half way, every action keeps files whole. *)
LEMMA WholeStep ==
  ASSUME "cp" \notin Faults, IInv, FilesWhole, [Next]_vars
  PROVE  FilesWhole'
<1> USE DEF FilesWhole, NamedFilesComplete
<1>t. esp \in EspStates /\ gen \in Gens /\ job \in {"kernel", "initrd", "loader"}
  BY DEF IInv, TypeOK
<1>1. CASE CopyCp
  <2>1. esp'.boot = esp.boot /\ esp'.loader = esp.loader
    BY <1>1, <1>t DEF CopyCp, EspStates
  <2>2. copied' = "complete" /\ pc' = "sync" /\ UNCHANGED <<espDisk, dirty>>
    BY <1>1 DEF CopyCp, Fault
  <2> QED BY <2>1, <2>2 DEF WholeFiles
<1>2. CASE CopySync
  BY <1>2 DEF CopySync, SyncDisks
<1>3. CASE CopyMv
  <2>1. pc = "mv" /\ dirty' = dirty
    BY <1>3 DEF CopyMv
  <2>2. job = "loader" => Loader[current_system(nix)] \in Loaders
    BY <2>1, HandOffFacts DEF HandOffSteps, CopySteps
  <2>3. WholeFiles(esp')
    <3>1. CASE pc' = "fallback"
      BY <3>1, <1>3, <1>t DEF CopyMv, AfterCopy
    <3>2. CASE pc' # "fallback" /\ job = "loader"
      <4>1. /\ esp'.loader = Loader[current_system(nix)] /\ esp'.boot = esp.boot
        BY <3>2, <1>3, <1>t DEF CopyMv, EspStates
      <4> QED BY <4>1, <3>2, <2>2, <1>t, SystemsAssumption DEF WholeFiles, EspStates
    <3>3. CASE pc' # "fallback" /\ job # "loader"
      <4>1. esp' = [esp EXCEPT !.boot[JobFile] = "complete", !.tmp = @ \ {JobName}]
        BY <3>3, <1>3 DEF CopyMv
      <4>2. esp'.loader = esp.loader /\ esp'.boot = [esp.boot EXCEPT ![JobFile] = "complete"]
        BY <4>1, <1>t DEF EspStates
      <4> QED BY <4>2, <1>t DEF WholeFiles, EspStates
    <3> QED BY <3>1, <3>2, <3>3
  <2>4. pc' # "mv" /\ UNCHANGED <<espDisk, copied>>
    BY <1>3, <1>t DEF CopyMv, AfterCopy
  <2> QED BY <2>1, <2>3, <2>4
<1>4. CASE WriteConf
  <2>1. esp'.boot = esp.boot /\ esp'.loader = esp.loader
    BY <1>4, <1>t DEF WriteConf, EspStates
  <2>2. dirty' \subseteq Gens /\ pc' # "mv" /\ UNCHANGED <<espDisk, copied>>
    BY <1>4, <1>t DEF WriteConf
  <2> QED BY <2>1, <2>2 DEF WholeFiles
<1>5. CASE RemoveUnlisted
  <2>1. /\ esp'.boot = [f \in Files |-> IF f \in listed THEN esp.boot[f] ELSE "absent"]
        /\ esp'.loader = esp.loader
    BY <1>5, <1>t DEF RemoveUnlisted, EspStates
  <2>2. pc' # "mv" /\ UNCHANGED <<espDisk, dirty, copied>>
    BY <1>5 DEF RemoveUnlisted
  <2> QED BY <2>1, <2>2 DEF WholeFiles
<1>6. CASE FlushHandoff \/ Reboot
  BY <1>6 DEF FlushHandoff, Reboot, SyncDisks
<1>7. CASE LeaveShell \/ PowerCut
  <2>1. LosePower
    BY <1>7 DEF LeaveShell, PowerCut
  <2>2. WholeFiles(esp') /\ WholeFiles(espDisk')
    BY <2>1, CutWhole
  <2>3. copied' = "complete" /\ dirty' = {} /\ pc' = "firmware"
    BY <2>1 DEF LosePower
  <2> QED BY <2>2, <2>3
<1>8. CASE UNCHANGED <<esp, espDisk, dirty, copied>> /\ (pc' = "mv" => pc = "mv" /\ flushed' = flushed)
  BY <1>8
<1>9. CASE Firmware \/ Reset \/ Start \/ try_update \/ realise \/ check_system
  BY <1>8, <1>9 DEF Firmware, Reset, Start, try_update, realise, check_system
<1>10. CASE create_generation \/ switch_profile \/ delete_generations \/ collect_garbage
  BY <1>8, <1>10 DEF create_generation, switch_profile, delete_generations, collect_garbage
<1>11. CASE HandOff \/ NextGeneration \/ EnsureKernel \/ EnsureInitrd \/ install_loader \/ WriteLoaderConf
  BY <1>8, <1>11
  DEF HandOff, NextGeneration, EnsureKernel, EnsureInitrd, EnsureFile, install_loader, WriteLoaderConf
<1>12. CASE DeleteEntries \/ CreateEntry \/ SetBootNext \/ Fallback
  BY <1>8, <1>12 DEF DeleteEntries, CreateEntry, SetBootNext, SetNvram, Fallback
<1>13. CASE Writeback \/ Publish \/ UNCHANGED vars
  BY <1>8, <1>13 DEF Writeback, Publish, vars
<1> QED
  BY <1>1, <1>2, <1>3, <1>4, <1>5, <1>6, <1>7, <1>9, <1>10, <1>11, <1>12, <1>13
  DEF Next, Machine, InstallStep, HandOffStep

(* "flush data before the rename makes the file visible" (init.sh:218):     *)
(* without a cp that fails half way, files on the ESP are whole, wherever   *)
(* power is lost and whatever else fails.                                   *)
THEOREM FilesAlwaysWhole ==
  ASSUME "cp" \notin Faults
  PROVE  Spec => []NamedFilesComplete
<1>1. IInv /\ FilesWhole /\ [Next]_vars => IInv' /\ FilesWhole'
  BY Step, WholeStep
<1>2. FilesWhole => NamedFilesComplete
  BY DEF FilesWhole
<1> QED BY <1>1, <1>2, Initially, WholeInit, PTL DEF Spec
-----------------------------------------------------------------------------
(***************************************************************************)
(* The hand-off: how the ESP comes to show the profile, and that it still  *)
(* does when the host runs.                                                *)
(***************************************************************************)
FilesOf(n, S) == {Kernel[n.links[g]] : g \in S} \cup {Initrd[n.links[g]] : g \in S}

Present(e) == {f \in Files : e.boot[f] # "absent"}

(* write_entries: what it has handled is on the ESP and in /run/keep, and   *)
(* nothing else is in /run/keep; of the generation at hand, the files that  *)
(* earlier steps have seen to are there.                                    *)
Writing == \/ pc \in {"gen", "kernel", "initrd", "conf", "clean"}
           \/ pc \in CopySteps /\ job # "loader"

Progress ==
  /\ Writing =>
       LET done == Linked(nix) \ todo IN
         /\ listed = done \cup FilesOf(nix, done)
         /\ FilesOf(nix, done) \subseteq Present(esp)
         /\ \A g \in done : esp.conf[g] = nix.links[g]
  /\ pc \in {"initrd", "conf"} \/ (pc \in CopySteps /\ job = "initrd")
       => Kernel[GenSystem] \in Present(esp)
  /\ pc = "conf" => Initrd[GenSystem] \in Present(esp)
  /\ pc = "clean" => todo = {}

(* After its cleanup the ESP shows the profile, and has the loader once that *)
(* is installed, torn at worst; after the flush the disk                     *)
(* holds both, and neither changes until the next boot of the updater.      *)
Handed == \/ pc \in {"delete", "create", "bootnext", "fallback", "reboot", "main"}
          \/ pc = "firmware" /\ nvram.bootNext

Cleaned == \/ Handed
           \/ pc \in {"loader", "loader_conf", "flush"}
           \/ pc \in CopySteps /\ job = "loader"

Shows(e, n) ==
  /\ \A g \in Gens : e.conf[g] = n.links[g]
  /\ Present(e) = FilesOf(n, Linked(n))
  /\ e.tmp \subseteq {LoaderName}

HandedOver ==
  /\ Cleaned => nix.current # 0 /\ Shows(esp, nix)
  /\ Handed \/ pc \in {"loader_conf", "flush"} =>
       esp.loader \in {Loader[current_system(nix)], Torn}
  /\ pc = "main" => esp.loader # Torn
  /\ Handed => nixDisk = nix /\ espDisk = esp /\ dirty = {}
  /\ nvram.bootNext => pc \in {"reboot", "firmware"}
  /\ IF pc = "main" THEN running = nix.links[Newest(nix)] ELSE running = None

(* The first hand-off has nothing to keep up yet. *)
LEMMA HandedInit == Init => Progress /\ HandedOver
BY DEF Init, Progress, HandedOver, Writing, Handed, Cleaned, CopySteps

(* What the steps of write_entries know of the generation at hand. *)
LEMMA WritingFacts ==
  ASSUME IInv, Writing
  PROVE  /\ esp \in EspStates /\ nix \in ProfileStates /\ nix.current # 0
         /\ todo \subseteq Linked(nix) /\ Linked(nix) \subseteq Gens
         /\ pc \notin {"gen", "clean"} => /\ gen \in todo /\ gen \in Gens
                                          /\ Kernel[GenSystem] \in Files
                                          /\ Initrd[GenSystem] \in Files
BY HandOffFacts DEF Writing, IInv, TypeOK, Knows, HandOffSteps, CopySteps, Linked

(* One more generation's files. *)
LEMMA FilesOfMore ==
  ASSUME NEW n, NEW S, NEW g
  PROVE  FilesOf(n, S \cup {g}) =
           FilesOf(n, S) \cup {Kernel[n.links[g]], Initrd[n.links[g]]}
BY DEF FilesOf

(* write_entries keeps up with what it has handled, unless a write to the   *)
(* ESP fails.                                                               *)
LEMMA ProgressStep ==
  ASSUME "esp" \notin Faults, IInv, Progress, [Next]_vars
  PROVE  Progress'
<1>t. job \in {"kernel", "initrd", "loader"}
  BY DEF IInv, TypeOK
<1>0. CASE ~ Writing' /\ pc' \notin {"initrd", "conf", "clean"} \cup CopySteps
  BY <1>0 DEF Progress
<1>1. CASE HandOff
  <2>1. CASE pc' = "gen"
    <3>1. todo' = Linked(nix) /\ listed' = {} /\ nix' = nix
      BY <1>1, <2>1 DEF HandOff
    <3>2. Linked(nix') \ todo' = {}
      BY <3>1
    <3> QED BY <2>1, <3>1, <3>2 DEF Progress, FilesOf, CopySteps
  <2>2. CASE pc' # "gen"
    <3>1. pc' \in {"fetch", "shell"}
      BY <1>1, <2>2 DEF HandOff
    <3> QED BY <1>0, <3>1 DEF Writing, CopySteps
  <2> QED BY <2>1, <2>2
<1>2. CASE NextGeneration
  <2>1. Writing /\ UNCHANGED <<nix, esp, todo, listed>>
    BY <1>2 DEF NextGeneration, Writing
  <2>2. pc' \in {"kernel", "clean"} /\ (pc' = "clean" => todo = {})
    BY <1>2 DEF NextGeneration
  <2> QED BY <2>1, <2>2 DEF Progress, CopySteps
<1>3. CASE EnsureKernel
  <2>1. /\ pc = "kernel" /\ UNCHANGED <<nix, esp, todo, listed, gen>>
        /\ \/ pc' = "initrd" /\ esp.boot[Kernel[GenSystem]] # "absent"
           \/ pc' = "cp" /\ job' = "kernel"
    BY <1>3 DEF EnsureKernel, EnsureFile
  <2>2. Writing
    BY <2>1 DEF Writing
  <2> QED BY <2>1, <2>2, WritingFacts DEF Progress, CopySteps, Present, GenSystem
<1>4. CASE EnsureInitrd
  <2>1. /\ pc = "initrd" /\ UNCHANGED <<nix, esp, todo, listed, gen>>
        /\ \/ pc' = "conf" /\ esp.boot[Initrd[GenSystem]] # "absent"
           \/ pc' = "cp" /\ job' = "initrd"
    BY <1>4 DEF EnsureInitrd, EnsureFile
  <2>2. Writing
    BY <2>1 DEF Writing
  <2> QED BY <2>1, <2>2, WritingFacts DEF Progress, CopySteps, Present, GenSystem
<1>5. CASE CopyCp \/ CopySync
  <2>1. /\ pc \in CopySteps /\ pc' \in CopySteps
        /\ UNCHANGED <<nix, todo, listed, gen, job>>
    BY <1>5 DEF CopyCp, CopySync, SyncDisks, CopySteps
  <2>2. esp'.boot = esp.boot /\ esp'.conf = esp.conf
    BY <1>5 DEF CopyCp, CopySync, SyncDisks, IInv, TypeOK, EspStates
  <2> QED BY <2>1, <2>2 DEF Progress, Writing, CopySteps, Present, GenSystem
<1>6. CASE CopyMv
  <2>1. CASE job = "loader"
    BY <1>0, <1>6, <2>1 DEF CopyMv, AfterCopy, Writing, CopySteps
  <2>2. CASE job # "loader"
    <3>1. /\ pc = "mv" /\ UNCHANGED <<nix, todo, listed, gen, job>>
          /\ pc' = IF job = "kernel" THEN "initrd" ELSE "conf"
          /\ esp' = [esp EXCEPT !.boot[JobFile] = copied, !.tmp = @ \ {JobName}]
      BY <1>6, <2>2, <1>t DEF CopyMv, AfterCopy, Fault
    <3>2. Writing
      BY <3>1, <2>2 DEF Writing, CopySteps
    <3>3. JobFile \in Files /\ copied # "absent"
      BY <3>2, <3>1, WritingFacts DEF JobFile, IInv, TypeOK
    <3>4. esp'.boot = [esp.boot EXCEPT ![JobFile] = copied] /\ esp'.conf = esp.conf
      BY <3>1, <3>2, <3>3, WritingFacts DEF EspStates
    <3>5. Present(esp') = Present(esp) \cup {JobFile}
      BY <3>2, <3>3, <3>4, WritingFacts DEF Present, EspStates
    <3>6. job = "initrd" => Kernel[GenSystem] \in Present(esp)
      BY <3>1 DEF Progress, CopySteps
    <3>7. /\ Kernel[GenSystem] \in Present(esp')
          /\ pc' = "conf" => Initrd[GenSystem] \in Present(esp')
      BY <3>1, <3>5, <3>6, <1>t, <2>2 DEF JobFile
    <3> QED BY <3>1, <3>2, <3>4, <3>5, <3>7 DEF Progress, CopySteps, GenSystem
  <2> QED BY <2>1, <2>2
<1>7. CASE WriteConf
  <2> DEFINE done == Linked(nix) \ todo
  <2>1. /\ pc = "conf" /\ pc' = "gen" /\ nix' = nix
        /\ esp' = [esp EXCEPT !.conf[gen] = GenSystem, !.tmp = @ \ {gen}]
        /\ listed' = listed \cup {Kernel[GenSystem], Initrd[GenSystem], gen}
        /\ todo' = todo \ {gen}
    BY <1>7 DEF WriteConf, Fault
  <2>2. Writing
    BY <2>1 DEF Writing
  <2>3. Linked(nix') \ todo' = done \cup {gen}
    BY <2>1, <2>2, WritingFacts
  <2>4. esp'.boot = esp.boot /\ esp'.conf = [esp.conf EXCEPT ![gen] = GenSystem]
    BY <2>1, <2>2, WritingFacts DEF EspStates
  <2>5. FilesOf(nix', done \cup {gen}) =
          FilesOf(nix, done) \cup {Kernel[GenSystem], Initrd[GenSystem]}
    BY <2>1, FilesOfMore DEF GenSystem
  <2>6. listed' = (done \cup {gen}) \cup FilesOf(nix', done \cup {gen})
    BY <2>1, <2>2, <2>5 DEF Progress
  <2>7. FilesOf(nix', done \cup {gen}) \subseteq Present(esp')
    BY <2>1, <2>2, <2>4, <2>5 DEF Progress, Present
  <2>8. \A g \in done \cup {gen} : esp'.conf[g] = nix'.links[g]
    BY <2>1, <2>2, <2>4, WritingFacts DEF Progress, GenSystem, EspStates
  <2> QED BY <2>1, <2>3, <2>6, <2>7, <2>8 DEF Progress, CopySteps
<1>8. CASE Firmware \/ Reset \/ LeaveShell \/ PowerCut
  BY <1>0, <1>8 DEF Firmware, Reset, LeaveShell, PowerCut, LosePower, Writing, CopySteps
<1>9. CASE InstallStep
  BY <1>0, <1>9
  DEF InstallStep, Start, try_update, realise, check_system, create_generation, switch_profile,
      delete_generations, collect_garbage, Writing, CopySteps
<1>10. CASE RemoveUnlisted \/ WriteLoaderConf \/ FlushHandoff \/ Reboot
  BY <1>0, <1>10 DEF RemoveUnlisted, WriteLoaderConf, FlushHandoff, Reboot, Writing, CopySteps
<1>11. CASE install_loader
  <2>1. pc' \notin {"gen", "kernel", "initrd", "conf", "clean"} /\ (pc' \in CopySteps => job' = "loader")
    BY <1>11 DEF install_loader, CopySteps
  <2> QED BY <2>1 DEF Progress, Writing
<1>12. CASE DeleteEntries \/ CreateEntry \/ SetBootNext \/ Fallback
  BY <1>0, <1>12 DEF DeleteEntries, CreateEntry, SetBootNext, SetNvram, Fallback, Writing, CopySteps
<1>13. CASE Writeback \/ Publish \/ UNCHANGED vars
  <2>1. UNCHANGED <<pc, nix, esp, todo, listed, gen, job>>
    BY <1>13 DEF Writeback, Publish, vars
  <2> QED BY <2>1 DEF Progress, Writing, GenSystem
<1> QED
  BY <1>1, <1>2, <1>3, <1>4, <1>5, <1>6, <1>7, <1>8, <1>9, <1>10, <1>11, <1>12, <1>13
  DEF Next, Machine, HandOffStep

(* The default entry of an ESP that shows a sound profile is its newest     *)
(* generation, and boots if its files are whole.                            *)
LEMMA ShowsBoots ==
  ASSUME NEW n \in ProfileStates, Sound(n), n.current # 0,
         NEW e \in EspStates, Shows(e, n)
  PROVE  /\ DefaultSystem(e) = n.links[Newest(n)]
         /\ WholeFiles(e) => Bootable(e, n)
<1>1. Entries(e) = Linked(n)
  BY DEF Entries, Linked, Shows
<1>2. Linked(n) # {}
  BY BoundsAssumption DEF Linked, Sound, ProfileStates, Gens
<1>3. DefaultEntry(e) = Newest(n)
  BY <1>1, <1>2 DEF DefaultEntry, Newest
<1>4. Newest(n) \in Linked(n) /\ Newest(n) \in Gens
  BY <1>2, NewestFacts
<1>5. DefaultSystem(e) = n.links[Newest(n)]
  BY <1>1, <1>2, <1>3, <1>4 DEF DefaultSystem, Shows
<1>6. ASSUME WholeFiles(e) PROVE Bootable(e, n)
  <2> DEFINE s == n.links[Newest(n)]
  <2>1. s \in n.store \cap Systems
    BY <1>4 DEF Sound, Linked
  <2>2. Kernel[s] \in FilesOf(n, Linked(n)) /\ Initrd[s] \in FilesOf(n, Linked(n))
    BY <1>4 DEF FilesOf
  <2>3. \A f \in FilesOf(n, Linked(n)) : e.boot[f] = "complete"
    BY <1>6 DEF Shows, Present, WholeFiles, EspStates, Status
  <2> HIDE DEF s
  <2> QED BY <1>5, <2>1, <2>2, <2>3 DEF Bootable, s
<1> QED BY <1>5, <1>6

(* A cut after everything was flushed changes nothing on the ESP. *)
LEMMA CutClean ==
  ASSUME esp \in EspStates, espDisk = esp, dirty = {}, LosePower
  PROVE  esp' = esp
<1>1. PICK b \in AfterCut(Files, espDisk.boot, esp.boot, "partial"),
           c \in AfterCut(Gens, espDisk.conf, esp.conf, Torn),
           t \in {(espDisk.tmp \cap esp.tmp) \cup some : some \in SUBSET (espDisk.tmp \cup esp.tmp)},
           l \in {espDisk.loader, esp.loader} \cup (IF LoaderName \in dirty THEN {Torn} ELSE {}) :
             esp' = [boot |-> b, conf |-> c, tmp |-> t, loader |-> l]
  BY DEF LosePower, EspAfterCut
<1>2. ASSUME NEW S, NEW R, NEW f \in [S -> R], NEW torn, NEW x \in AfterCut(S, f, f, torn)
      PROVE  x = f
  BY <1>2 DEF AfterCut
<1>3. b = esp.boot
  BY <1>1, <1>2 DEF EspStates
<1>4. c = esp.conf
  BY <1>1, <1>2 DEF EspStates
<1>5. t = esp.tmp /\ l = esp.loader
  BY <1>1
<1> QED BY <1>1, <1>3, <1>4, <1>5 DEF EspStates

(* The hand-off ends with an ESP that shows the profile, flushed, and the   *)
(* host that boots is its newest system, unless a write to the ESP fails.   *)
LEMMA HandedStep ==
  ASSUME "esp" \notin Faults, IInv, Progress, HandedOver, [Next]_vars
  PROVE  HandedOver'
<1>t. /\ esp \in EspStates /\ nix \in ProfileStates
      /\ nvram \in [entry : BOOLEAN, bootNext : BOOLEAN]
      /\ job \in {"kernel", "initrd", "loader"} /\ gen \in Gens
  BY DEF IInv, TypeOK
<1>0. CASE ~ Cleaned' /\ ~ nvram'.bootNext /\ pc' # "main" /\ running' = None
  BY <1>0 DEF HandedOver, Cleaned
<1>1. CASE Firmware
  <2>1. /\ pc = "firmware" /\ running = None /\ nvram'.bootNext = FALSE
        /\ UNCHANGED disks
    BY <1>1, <1>t DEF Firmware, HandedOver
  <2>2. CASE BootsLoader
    <3>1. Handed /\ Cleaned
      BY <2>1, <2>2 DEF BootsLoader, Handed, Cleaned
    <3>2. DefaultSystem(esp) = nix.links[Newest(nix)]
      BY <3>1, <1>t, ShowsBoots DEF HandedOver, IInv, ProfileSound
    <3>3. \/ pc' = "main" /\ running' = nix.links[Newest(nix)]
          \/ pc' = "dead" /\ running' = None
      BY <1>1, <2>2, <3>2 DEF Firmware
    <3>4. esp.loader # Torn /\ current_system(nix)' = current_system(nix)
      BY <2>1, <2>2, SystemsAssumption DEF BootsLoader, current_system
    <3> QED BY <2>1, <3>1, <3>3, <3>4 DEF HandedOver, Handed, Cleaned, CopySteps, Shows
  <2>3. CASE ~ BootsLoader
    BY <1>0, <1>1, <2>1, <2>3 DEF Firmware, Cleaned, Handed, CopySteps
  <2> QED BY <2>2, <2>3
<1>2. CASE Reset
  BY <1>0, <1>2 DEF Reset, HandedOver, Cleaned, Handed, CopySteps
<1>3. CASE LeaveShell \/ PowerCut
  <2>1. LosePower
    BY <1>3 DEF LeaveShell, PowerCut
  <2>2. CASE nvram.bootNext
    <3>1. pc = "reboot" /\ Handed
      BY <1>3, <2>2 DEF HandedOver, Handed, LeaveShell, PowerCut, UpdaterSteps
    <3>2. esp' = esp /\ nix' = nix /\ nixDisk' = nix' /\ espDisk' = esp' /\ dirty' = {}
      BY <2>1, <3>1, <1>t, CutClean DEF HandedOver, LosePower
    <3>3. pc' = "firmware" /\ running' = None
      BY <2>1 DEF LosePower
    <3> QED BY <3>1, <3>2, <3>3 DEF HandedOver, Cleaned
  <2>3. CASE ~ nvram.bootNext
    BY <1>0, <2>1, <2>3 DEF LosePower, Cleaned, Handed, CopySteps
  <2> QED BY <2>2, <2>3
<1>4. CASE InstallStep
  <2>1. /\ pc \in {"start", "fetch", "realise", "validate", "link", "switch", "prune", "gc"}
        /\ pc' \in {"shell", "fetch", "realise", "validate", "link", "switch", "prune", "gc", "decide"}
        /\ UNCHANGED <<nvram, running>>
    BY <1>4
    DEF InstallStep, Start, try_update, realise, check_system, create_generation, switch_profile,
        delete_generations, collect_garbage
  <2> QED BY <1>0, <2>1 DEF HandedOver, Cleaned, Handed, CopySteps
<1>5. CASE HandOff \/ NextGeneration \/ EnsureKernel \/ EnsureInitrd \/ WriteConf
  <2>1. /\ pc \in {"decide", "gen", "kernel", "initrd", "conf"} /\ UNCHANGED <<nvram, running>>
        /\ pc' \in {"fetch", "shell", "gen", "kernel", "initrd", "conf", "clean", "cp"}
        /\ pc' = "cp" => job' # "loader"
    BY <1>5
    DEF HandOff, NextGeneration, EnsureKernel, EnsureInitrd, EnsureFile, WriteConf, Fault
  <2> QED BY <1>0, <2>1 DEF HandedOver, Cleaned, Handed, CopySteps
<1>6. CASE CopyCp \/ CopySync
  <2>1. /\ pc \in CopySteps /\ pc' \in CopySteps /\ UNCHANGED <<nix, job, nvram, running>>
    BY <1>6 DEF CopyCp, CopySync, SyncDisks, CopySteps
  <2>2. job = "loader" => /\ esp'.boot = esp.boot /\ esp'.conf = esp.conf
                          /\ esp'.tmp \subseteq esp.tmp \cup {LoaderName}
    BY <1>6, <1>t DEF CopyCp, CopySync, SyncDisks, JobName, EspStates
  <2> QED BY <1>0, <2>1, <2>2 DEF HandedOver, Cleaned, Handed, CopySteps, Shows, Present
<1>7. CASE CopyMv
  <2>1. pc = "mv" /\ UNCHANGED <<nix, nvram, running, job>>
    BY <1>7 DEF CopyMv
  <2>2. CASE job # "loader"
    <3>1. pc' \in {"initrd", "conf"}
      BY <1>7, <2>2, <1>t DEF CopyMv, AfterCopy, Fault
    <3> QED BY <1>0, <2>1, <3>1 DEF HandedOver, Cleaned, Handed, CopySteps
  <2>3. CASE job = "loader"
    <3>1. /\ pc' = "loader_conf"
          /\ esp' = [esp EXCEPT !.loader = IF copied = "complete" THEN Loader[current_system(nix)]
                                           ELSE Torn,
                                !.tmp = @ \ {JobName}]
      BY <1>7, <2>3 DEF CopyMv, AfterCopy, Fault
    <3>2. /\ esp'.boot = esp.boot /\ esp'.conf = esp.conf /\ esp'.tmp \subseteq esp.tmp
          /\ esp'.loader \in {Loader[current_system(nix)], Torn}
      BY <3>1, <1>t DEF EspStates
    <3>3. Cleaned /\ ~ nvram.bootNext /\ running = None
      BY <2>1, <2>3 DEF HandedOver, Cleaned, CopySteps
    <3> QED BY <2>1, <3>1, <3>2, <3>3 DEF HandedOver, Cleaned, Handed, CopySteps, Shows, Present
  <2> QED BY <2>2, <2>3
<1>8. CASE RemoveUnlisted
  <2>1. pc = "clean" /\ pc' = "loader" /\ UNCHANGED <<nix, nvram, running>>
    BY <1>8 DEF RemoveUnlisted
  <2>2. /\ esp'.boot = [f \in Files |-> IF f \in listed THEN esp.boot[f] ELSE "absent"]
        /\ esp'.conf = [g \in Gens |-> IF g \in listed THEN esp.conf[g] ELSE None]
        /\ esp'.tmp = esp.tmp \cap {LoaderName}
    BY <1>8, <1>t DEF RemoveUnlisted, EspStates
  <2>3. /\ listed = Linked(nix) \cup FilesOf(nix, Linked(nix))
        /\ FilesOf(nix, Linked(nix)) \subseteq Present(esp)
        /\ \A g \in Linked(nix) : esp.conf[g] = nix.links[g]
    <3>1. Writing /\ todo = {}
      BY <2>1 DEF Writing, Progress
    <3>2. Linked(nix) \ todo = Linked(nix)
      BY <3>1
    <3> QED BY <3>1, <3>2 DEF Progress
  <2>4. Files \cap Gens = {} /\ FilesOf(nix, Linked(nix)) \subseteq Files /\ Linked(nix) \subseteq Gens
    BY <2>3, FilesAssumption DEF Gens, Present, Linked
  <2>5. \A g \in Gens : esp'.conf[g] = nix.links[g]
    BY <2>2, <2>3, <2>4 DEF Linked
  <2>6. Present(esp') = FilesOf(nix, Linked(nix))
    BY <2>2, <2>3, <2>4 DEF Present
  <2>7. nix.current # 0
    BY <2>1 DEF IInv, Knows, HandOffSteps
  <2> QED BY <2>1, <2>2, <2>5, <2>6, <2>7 DEF HandedOver, Cleaned, Handed, CopySteps, Shows
<1>9. CASE install_loader \/ WriteLoaderConf
  <2>1. /\ pc \in {"loader", "loader_conf"} /\ UNCHANGED <<nix, esp, nvram, running>>
        /\ pc' \in {"loader_conf", "flush"} \/ (pc' = "cp" /\ job' = "loader")
    BY <1>9 DEF install_loader, WriteLoaderConf, Fault
  <2>2. pc' \in {"loader_conf", "flush"} => esp.loader \in {Loader[current_system(nix)], Torn}
    BY <1>9, <2>1 DEF install_loader, WriteLoaderConf, HandedOver
  <2>3. current_system(nix)' = current_system(nix)
    BY <2>1 DEF current_system
  <2> QED BY <2>1, <2>2, <2>3 DEF HandedOver, Cleaned, Handed, CopySteps, Shows
<1>10. CASE FlushHandoff
  BY <1>10 DEF FlushHandoff, SyncDisks, HandedOver, Cleaned, Handed, CopySteps
<1>11. CASE DeleteEntries \/ CreateEntry \/ SetBootNext \/ Fallback
  <2>1. /\ pc \in {"delete", "create", "bootnext", "fallback"} /\ UNCHANGED <<disks, running>>
        /\ pc' \in {"create", "bootnext", "reboot", "fallback", "shell"}
        /\ nvram'.bootNext => pc' = "reboot"
    <3>1. pc \in {"delete", "create", "bootnext", "fallback"}
      BY <1>11 DEF DeleteEntries, CreateEntry, SetBootNext, SetNvram, Fallback
    <3>2. ~ nvram.bootNext
      BY <3>1 DEF HandedOver
    <3> QED BY <1>11, <3>1, <3>2, <1>t
        DEF DeleteEntries, CreateEntry, SetBootNext, SetNvram, Fallback
  <2> QED BY <2>1 DEF HandedOver, Cleaned, Handed, CopySteps
<1>12. CASE Reboot
  BY <1>12 DEF Reboot, SyncDisks, HandedOver, Cleaned, Handed, CopySteps
<1>13. CASE Writeback
  <2>1. nixDisk # nix /\ nixDisk' = nix /\ UNCHANGED <<pc, nix, esp, espDisk, dirty, nvram, job, running>>
    BY <1>13 DEF Writeback
  <2> QED BY <2>1 DEF HandedOver, Cleaned, Handed, Shows
<1>14. CASE Publish \/ UNCHANGED vars
  <2>1. UNCHANGED <<pc, nix, nixDisk, esp, espDisk, dirty, nvram, job, running>>
    BY <1>14 DEF Publish, vars
  <2> QED BY <2>1 DEF HandedOver, Cleaned, Handed, Shows
<1> QED
  BY <1>1, <1>2, <1>3, <1>4, <1>5, <1>6, <1>7, <1>8, <1>9, <1>10, <1>11, <1>12, <1>13, <1>14
  DEF Next, Machine, HandOffStep

(* Together with what every step of the script knows: *)
EspInv == IInv /\ Progress /\ HandedOver

(* It holds of a machine that was just prepared. *)
LEMMA EspInvInit == Init => EspInv
BY Initially, HandedInit DEF EspInv

(* Every action keeps it, when writes to the ESP do not fail. *)
LEMMA EspInvStep ==
  ASSUME "esp" \notin Faults
  PROVE  EspInv /\ [Next]_vars => EspInv'
BY Step, ProgressStep, HandedStep DEF EspInv

(* Unless a write to the ESP fails, the firmware is never sent to a loader  *)
(* whose default entry cannot boot (init.sh:299-337).                       *)
THEOREM NeverDead ==
  ASSUME {"cp", "esp"} \cap Faults = {}
  PROVE  Spec => []NoDeadBoot
<1>1. ASSUME EspInv, FilesWhole, NoDeadBoot, [Next]_vars PROVE NoDeadBoot'
  <2>t. pc \in Places /\ job \in {"kernel", "initrd", "loader"}
    BY <1>1 DEF EspInv, IInv, TypeOK
  <2>1. CASE Firmware
    <3>1. BootsLoader => Bootable(esp, nix)
      <4> SUFFICES ASSUME BootsLoader PROVE Bootable(esp, nix)
        OBVIOUS
      <4>1. Shows(esp, nix) /\ nix.current # 0
        BY <1>1, <2>1 DEF EspInv, HandedOver, Cleaned, Handed, Firmware, BootsLoader
      <4> QED BY <4>1, <1>1, ShowsBoots
          DEF EspInv, IInv, TypeOK, ProfileSound, FilesWhole, NamedFilesComplete
    <3> QED BY <3>1, <2>1 DEF Firmware, NoDeadBoot
  <2>2. CASE Reset \/ LeaveShell \/ PowerCut
    BY <2>2 DEF Reset, LeaveShell, PowerCut, LosePower, NoDeadBoot
  <2>3. CASE InstallStep
    BY <2>3
    DEF InstallStep, Start, try_update, realise, check_system, create_generation, switch_profile,
        delete_generations, collect_garbage, NoDeadBoot
  <2>4. CASE HandOffStep
    BY <2>4, <2>t
    DEF HandOffStep, HandOff, NextGeneration, EnsureKernel, EnsureInitrd, EnsureFile,
        CopyCp, CopySync, CopyMv, AfterCopy, WriteConf, RemoveUnlisted, install_loader,
        WriteLoaderConf, FlushHandoff, DeleteEntries, CreateEntry, SetBootNext, SetNvram,
        Fallback, Reboot, NoDeadBoot
  <2>5. CASE Writeback \/ Publish \/ UNCHANGED vars
    BY <1>1, <2>5 DEF Writeback, Publish, vars, NoDeadBoot
  <2> QED BY <1>1, <2>1, <2>2, <2>3, <2>4, <2>5 DEF Next, Machine
<1>2. Init => EspInv /\ FilesWhole /\ NoDeadBoot
  BY EspInvInit, WholeInit DEF Init, NoDeadBoot
<1>3. EspInv /\ FilesWhole /\ NoDeadBoot /\ [Next]_vars => (EspInv /\ FilesWhole /\ NoDeadBoot)'
  BY <1>1, EspInvStep, WholeStep DEF EspInv
<1> QED BY <1>2, <1>3, PTL DEF Spec

(* Unless a write to the ESP fails, a running host has on its ESP exactly   *)
(* what its profile holds, and runs the newest of it (init.sh:227-262).     *)
THEOREM EspAlwaysMatches ==
  ASSUME "esp" \notin Faults
  PROVE  Spec => []EspMatchesProfile
<1>1. ASSUME EspInv, pc = "main"
      PROVE  /\ \A g \in Gens : esp.conf[g] = nix.links[g]
             /\ Present(esp) = {Kernel[s] : s \in Rooted(nix)} \cup {Initrd[s] : s \in Rooted(nix)}
             /\ esp.tmp \subseteq {LoaderName}
             /\ esp.loader = Loader[current_system(nix)]
             /\ running = nix.links[Newest(nix)]
  <2>1. Shows(esp, nix) /\ running = nix.links[Newest(nix)]
    BY <1>1 DEF EspInv, HandedOver, Cleaned, Handed
  <2>2. FilesOf(nix, Linked(nix)) =
          {Kernel[s] : s \in Rooted(nix)} \cup {Initrd[s] : s \in Rooted(nix)}
    BY DEF FilesOf, Rooted
  <2>3. esp.loader = Loader[current_system(nix)]
    BY <1>1 DEF EspInv, HandedOver, Handed
  <2> QED BY <2>1, <2>2, <2>3 DEF Shows
<1>2. EspInv => EspMatchesProfile
  BY <1>1 DEF EspMatchesProfile, Present
<1> QED BY <1>2, EspInvInit, EspInvStep, PTL DEF Spec
-----------------------------------------------------------------------------
(***************************************************************************)
(* What is installed stays installed: a commit is of a profile that has a  *)
(* current system if the disk's had one, and links if the disk's had some. *)
(***************************************************************************)
Retained == /\ nixDisk.current # 0 => nix.current # 0
            /\ Linked(nixDisk) # {} => Linked(nix) # {}

(* Every commit to the disk is of the profile as the script sees it, and a  *)
(* power cut takes the script back to what was committed.                   *)
LEMMA Commits ==
  ASSUME [Next]_vars
  PROVE  /\ nixDisk' \in {nixDisk, nix}
         /\ \/ LeaveShell \/ PowerCut \/ InstallStep
            \/ nix' = nix
BY DEF Next, Machine, HandOffStep, vars,
       Firmware, Reset, LeaveShell, PowerCut, LosePower, InstallStep, Start, try_update, realise,
       check_system, create_generation, switch_profile, delete_generations, collect_garbage,
       HandOff, NextGeneration, EnsureKernel, EnsureInitrd, EnsureFile, CopyCp, CopySync, CopyMv,
       WriteConf, RemoveUnlisted, install_loader, WriteLoaderConf, FlushHandoff, SyncDisks,
       DeleteEntries, CreateEntry, SetBootNext, SetNvram, Fallback, Reboot, Writeback, Publish

(* A step of the installation keeps a current system and a link, and adds   *)
(* no link but to the system that was asked for.                            *)
LEMMA InstallKeeps ==
  ASSUME IInv, InstallStep
  PROVE  /\ nix.current # 0 => nix'.current # 0
         /\ Linked(nix) # {} => Linked(nix') # {}
         /\ Rooted(nix') \subseteq Rooted(nix) \cup {want}
         /\ nixDisk' = nixDisk
<1>t. /\ nix \in ProfileStates /\ Sound(nix) /\ want \in Pointers \cup {None}
      /\ (pc = "switch" => NewestNames(nix, want)) /\ (pc = "link" => want \in Systems)
  BY DEF IInv, TypeOK, ProfileSound, Knows
<1>d. nixDisk' = nixDisk
  BY DEF InstallStep, Start, try_update, realise, check_system, create_generation,
         switch_profile, delete_generations, collect_garbage
<1>0. CASE nix'.links = nix.links /\ nix'.current = nix.current
  BY <1>0, <1>d DEF Linked, Rooted
<1>1. CASE Start \/ try_update \/ check_system
  BY <1>0, <1>1 DEF Start, try_update, check_system
<1>2. CASE realise
  <2>1. \E S : nix' = [nix EXCEPT !.store = S]
    BY <1>2 DEF realise
  <2> QED BY <1>0, <2>1, <1>t DEF ProfileStates
<1>3. CASE collect_garbage
  <2>1. \E S : nix' = [nix EXCEPT !.store = S]
    BY <1>3 DEF collect_garbage
  <2> QED BY <1>0, <2>1, <1>t DEF ProfileStates
<1>4. CASE create_generation
  <2>1. CASE nix' = nix
    BY <1>0, <2>1
  <2>2. CASE nix' # nix
    <3> DEFINE k == Newest(nix) + 1
    <3>1. pc = "link" /\ Newest(nix) < MaxGen /\ nix' = [nix EXCEPT !.links[k] = want]
      BY <1>4, <2>2 DEF create_generation
    <3>2. k \in Gens
      BY <3>1, <1>t, NewestFacts, BoundsAssumption DEF Gens
    <3>3. want # None
      BY <3>1, <1>t, SystemsAssumption
    <3> HIDE DEF k
    <3>4. nix'.current = nix.current /\ nix'.links = [nix.links EXCEPT ![k] = want]
      BY <3>1, <1>t DEF ProfileStates
    <3>5. nix'.links[k] = want /\ \A g \in Gens : g # k => nix'.links[g] = nix.links[g]
      BY <3>2, <3>4, <1>t DEF ProfileStates
    <3>6. k \in Linked(nix')
      BY <3>2, <3>3, <3>5 DEF Linked
    <3>7. Rooted(nix') \subseteq Rooted(nix) \cup {want}
      BY <3>5 DEF Rooted, Linked
    <3> QED BY <3>4, <3>6, <3>7, <1>d
  <2> QED BY <2>1, <2>2
<1>5. CASE switch_profile
  <2>1. CASE nix' = nix
    BY <1>0, <2>1
  <2>2. CASE nix' # nix
    <3>1. nix' = [nix EXCEPT !.current = Newest(nix)] /\ NewestNames(nix, want)
      BY <1>5, <2>2, <1>t DEF switch_profile
    <3>2. nix'.current = Newest(nix) /\ nix'.links = nix.links /\ Newest(nix) # 0
      BY <3>1, <1>t DEF ProfileStates, NewestNames
    <3> QED BY <3>2, <1>d DEF Linked, Rooted
  <2> QED BY <2>1, <2>2
<1>6. CASE delete_generations
  <2>1. CASE nix' = nix
    BY <1>0, <2>1
  <2>2. CASE nix' # nix
    <3> DEFINE l == [g \in Gens |-> IF g \in KeptGenerations(nix) THEN nix.links[g] ELSE None]
    <3>1. nix' = [nix EXCEPT !.links = l]
      BY <1>6, <2>2 DEF delete_generations
    <3>2. nix'.links = l /\ nix'.current = nix.current
      BY <3>1, <1>t DEF ProfileStates
    <3>3. ASSUME Linked(nix) # {} PROVE Linked(nix') # {}
      <4>1. /\ Newest(nix) \in Linked(nix) /\ Newest(nix) \in Gens
            /\ \A h \in Linked(nix) : h <= Newest(nix)
        BY <3>3, <1>t, NewestFacts
      <4>2. nix.current # 0 => nix.current \in Linked(nix)
        BY <1>t, BoundsAssumption DEF Sound, ProfileStates, Gens, Linked
      <4>3. Newest(nix) >= nix.current
        BY <4>1, <4>2, <1>t, BoundsAssumption DEF ProfileStates, Gens
      <4>4. Newest(nix) \in KeptGenerations(nix)
        BY <4>1, <4>3 DEF KeptGenerations
      <4>5. Newest(nix) \in Linked(nix')
        BY <4>1, <4>4, <3>2 DEF Linked
      <4> QED BY <4>5
    <3>4. Rooted(nix') \subseteq Rooted(nix)
      BY <3>2 DEF Rooted, Linked
    <3> QED BY <3>2, <3>3, <3>4, <1>d
  <2> QED BY <2>1, <2>2
<1> QED BY <1>1, <1>2, <1>3, <1>4, <1>5, <1>6 DEF InstallStep

(* Every action keeps it, whatever fails. *)
LEMMA RetainedStep == IInv /\ Retained /\ [Next]_vars => Retained'
<1> SUFFICES ASSUME IInv, Retained, [Next]_vars PROVE Retained'
  OBVIOUS
<1>1. CASE LeaveShell \/ PowerCut
  BY <1>1 DEF LeaveShell, PowerCut, LosePower, Retained
<1>2. CASE InstallStep
  BY <1>2, InstallKeeps DEF Retained
<1>3. CASE nix' = nix
  BY <1>3, Commits DEF Retained
<1> QED BY <1>1, <1>2, <1>3, Commits

(* So it holds in every reachable state. *)
LEMMA RetainedHolds == Spec => [](IInv /\ Retained)
<1>1. Init => Retained
  BY DEF Init, Retained
<1> QED BY <1>1, Initially, Step, RetainedStep, PTL DEF Spec

(* A box that has a system on its disk always has one: no failed update,   *)
(* pruning or rollback of the file system takes it back to the state in    *)
(* which it waits for the network (init.sh:194-210, 319).                  *)
NeverUninstalled == [][nixDisk.current # 0 => nixDisk'.current # 0]_vars

(* No failed update, pruning or power cut takes a box that has a system on  *)
(* its disk back to the state without one (init.sh:194-210, 319).           *)
THEOREM StaysInstalled == Spec => NeverUninstalled
<1>1. IInv /\ Retained /\ [Next]_vars => (nixDisk.current # 0 => nixDisk'.current # 0)
  BY Commits DEF Retained
<1>2. IInv /\ Retained /\ [Next]_vars => [nixDisk.current # 0 => nixDisk'.current # 0]_vars
  BY <1>1
<1> QED BY <1>2, RetainedHolds, PTL DEF Spec, NeverUninstalled
-----------------------------------------------------------------------------
(***************************************************************************)
(* How many generations there are.  An installation adds one and prunes    *)
(* afterwards; one that does neither to the end has met a fault.           *)
(***************************************************************************)
Count(n) == Cardinality(Linked(n))

Few ==
  /\ Count(nix) <= Keep + faults + (IF pc \in {"switch", "prune"} THEN 1 ELSE 0)
  /\ Count(nixDisk) <= Keep + faults + (IF pc \in UpdaterSteps \ {"fallback"} THEN 1 ELSE 0)
  /\ pc = "prune" => nix.current = Newest(nix)
  /\ pc = "gc" => Count(nix) <= Keep

(* The generations of a profile are finitely many. *)
LEMMA CountType ==
  ASSUME NEW n
  PROVE  IsFiniteSet(Linked(n)) /\ Count(n) \in Nat
<1>1. IsFiniteSet(Gens)
  BY FS_Interval, BoundsAssumption DEF Gens
<1>2. Linked(n) \in SUBSET Gens
  BY DEF Linked
<1>3. IsFiniteSet(Linked(n))
  BY <1>1, <1>2, FS_Subset
<1> QED BY <1>3, FS_CardinalityType DEF Count

(* Deleting generations leaves at most Keep, when the current one is the    *)
(* newest: the others that stay have fewer than Keep - 1 between them and   *)
(* the current one, the oldest of them included.                            *)
LEMMA PrunedCount ==
  ASSUME NEW n \in ProfileStates, n.current = Newest(n)
  PROVE  IsFiniteSet(KeptGenerations(n)) /\ Cardinality(KeptGenerations(n)) <= Keep
<1> DEFINE K == KeptGenerations(n) \ {n.current}
           Between(g) == {h \in Linked(n) : g < h /\ h < n.current}
<1>k. Keep \in Nat \ {0}
  BY BoundsAssumption
<1>1. KeptGenerations(n) \in SUBSET Linked(n) /\ Linked(n) \in SUBSET Nat
  BY BoundsAssumption DEF KeptGenerations, Linked, Gens
<1>2. IsFiniteSet(KeptGenerations(n)) /\ IsFiniteSet(K)
  BY <1>1, CountType, FS_Subset, FS_RemoveElement
<1>3. \A g \in Linked(n) : g <= n.current
  BY NewestFacts
<1>4. n.current \in Nat
  BY BoundsAssumption DEF ProfileStates
<1>5. Cardinality(K) <= Keep - 1
  <2>1. CASE K = {}
    <3>1. Cardinality(K) = 0
      BY <2>1, FS_EmptySet
    <3> HIDE DEF K
    <3> QED BY <3>1, <1>k
  <2>2. CASE K # {}
    <3>1. K \in SUBSET Nat
      BY <1>1
    <3>2. PICK m \in K : \A y \in K : m <= y
      <4> HIDE DEF K
      <4> QED BY <2>2, <3>1, LeastExists
    <3>3. m \in Linked(n) /\ m \in Nat /\ m < n.current
      BY <1>1, <1>3, <1>4, <3>2
    <3>4. Cardinality(Between(m)) < Keep - 1
      BY <3>2, <3>3, <1>4 DEF KeptGenerations
    <3>5. K \ {m} \in SUBSET Between(m)
      <4>1. ASSUME NEW y \in K, y # m PROVE y \in Between(m)
        <5>1. y \in Linked(n) /\ y \in Nat /\ y <= n.current /\ y # n.current /\ m <= y
          BY <1>1, <1>3, <3>2, <4>1
        <5> QED BY <5>1, <3>3, <4>1, <1>4
      <4> QED BY <4>1
    <3>6. IsFiniteSet(Between(m))
      <4>1. Between(m) \in SUBSET Linked(n)
        OBVIOUS
      <4> QED BY <4>1, CountType, FS_Subset
    <3> HIDE DEF K, Between
    <3>7. Cardinality(K \ {m}) <= Cardinality(Between(m))
      BY <3>5, <3>6, FS_Subset
    <3>8. Cardinality(K \ {m}) = Cardinality(K) - 1
      BY <1>2, <3>2, FS_RemoveElement
    <3>9. Cardinality(K) \in Nat /\ Cardinality(Between(m)) \in Nat
      BY <1>2, <3>6, FS_CardinalityType
    <3> QED BY <3>4, <3>7, <3>8, <3>9, <1>k
  <2> QED BY <2>1, <2>2
<1>6. Cardinality(K \cup {n.current}) <= Cardinality(K) + 1
  <2> HIDE DEF K
  <2>1. Cardinality(K) \in Nat
    BY <1>2, FS_CardinalityType
  <2>2. Cardinality(K \cup {n.current}) \in {Cardinality(K), Cardinality(K) + 1}
    BY <1>2, FS_AddElement
  <2> QED BY <2>1, <2>2
<1>7. KeptGenerations(n) \in SUBSET (K \cup {n.current})
  OBVIOUS
<1>8. IsFiniteSet(K \cup {n.current})
  <2> HIDE DEF K
  <2> QED BY <1>2, FS_AddElement
<1>9. Cardinality(KeptGenerations(n)) <= Cardinality(K \cup {n.current})
  BY <1>7, <1>8, FS_Subset
<1>10. /\ Cardinality(K) \in Nat /\ Cardinality(K \cup {n.current}) \in Nat
       /\ Cardinality(KeptGenerations(n)) \in Nat
  <2> HIDE DEF K
  <2> QED BY <1>2, <1>8, FS_CardinalityType
<1> HIDE DEF K
<1> QED BY <1>2, <1>5, <1>6, <1>9, <1>10, <1>k

(* What a step of the installation does to the number of generations. *)
LEMMA InstallCounts ==
  ASSUME IInv, InstallStep, pc = "prune" => nix.current = Newest(nix)
  PROVE  /\ \/ Count(nix') = Count(nix)
            \/ pc = "link" /\ pc' = "switch" /\ Count(nix') <= Count(nix) + 1
            \/ pc = "prune" /\ pc' = "gc"
         /\ pc = "prune" /\ pc' = "gc" => Count(nix') <= Keep
         /\ pc = "switch" /\ pc' = "prune" =>
              Count(nix') = Count(nix) /\ nix'.current = Newest(nix')
<1>t. nix \in ProfileStates
  BY DEF IInv, TypeOK
<1>1. CASE nix'.links = nix.links /\ pc # "prune" /\ pc # "switch"
  <2>1. Linked(nix') = Linked(nix)
    BY <1>1 DEF Linked
  <2> QED BY <1>1, <2>1 DEF Count
<1>2. CASE Start \/ try_update \/ check_system
  BY <1>1, <1>2 DEF Start, try_update, check_system
<1>3. CASE realise \/ collect_garbage
  <2>1. \E S : nix' = [nix EXCEPT !.store = S]
    BY <1>3 DEF realise, collect_garbage
  <2>2. pc # "prune" /\ pc # "switch"
    BY <1>3 DEF realise, collect_garbage
  <2> QED BY <1>1, <2>1, <2>2, <1>t DEF ProfileStates
<1>4. CASE create_generation
  <2>1. CASE nix' = nix
    BY <1>1, <1>4, <2>1 DEF create_generation
  <2>2. CASE nix' # nix
    <3> DEFINE k == Newest(nix) + 1
    <3>1. pc = "link" /\ pc' = "switch" /\ nix' = [nix EXCEPT !.links[k] = want]
      BY <1>4, <2>2 DEF create_generation
    <3> HIDE DEF k
    <3>2. Linked(nix') \in SUBSET (Linked(nix) \cup {k})
      BY <3>1, <1>t DEF ProfileStates, Linked
    <3>3. IsFiniteSet(Linked(nix)) /\ Count(nix) \in Nat /\ Count(nix') \in Nat
      BY CountType
    <3>4. /\ IsFiniteSet(Linked(nix) \cup {k})
          /\ Cardinality(Linked(nix) \cup {k}) \in {Count(nix), Count(nix) + 1}
      BY <3>3, FS_AddElement DEF Count
    <3>5. Count(nix') <= Cardinality(Linked(nix) \cup {k})
      BY <3>2, <3>4, FS_Subset DEF Count
    <3>6. Cardinality(Linked(nix) \cup {k}) \in Nat
      BY <3>4, FS_CardinalityType
    <3>7. Count(nix') <= Count(nix) + 1
      BY <3>3, <3>4, <3>5, <3>6
    <3> QED BY <3>1, <3>7
  <2> QED BY <2>1, <2>2
<1>5. CASE switch_profile
  <2>1. CASE nix' = nix /\ pc' # "prune"
    BY <1>5, <2>1 DEF switch_profile
  <2>2. CASE pc' = "prune"
    <3>1. pc = "switch" /\ nix' = [nix EXCEPT !.current = Newest(nix)]
      BY <1>5, <2>2 DEF switch_profile
    <3>2. nix'.links = nix.links /\ nix'.current = Newest(nix)
      BY <3>1, <1>t DEF ProfileStates
    <3>3. Linked(nix') = Linked(nix) /\ Newest(nix') = Newest(nix)
      BY <3>2 DEF Linked, Newest
    <3> QED BY <2>2, <3>1, <3>2, <3>3 DEF Count
  <2> QED BY <1>5, <2>1, <2>2 DEF switch_profile
<1>6. CASE delete_generations
  <2>1. CASE nix' = nix /\ pc' = "decide"
    BY <1>6, <2>1 DEF delete_generations
  <2>2. CASE pc' = "gc"
    <3> DEFINE l == [g \in Gens |-> IF g \in KeptGenerations(nix) THEN nix.links[g] ELSE None]
    <3>1. pc = "prune" /\ nix' = [nix EXCEPT !.links = l]
      BY <1>6, <2>2 DEF delete_generations
    <3>2. nix'.links = l
      BY <3>1, <1>t DEF ProfileStates
    <3>3. Linked(nix') \in SUBSET KeptGenerations(nix)
      BY <3>2 DEF Linked
    <3>4. /\ IsFiniteSet(KeptGenerations(nix)) /\ Cardinality(KeptGenerations(nix)) <= Keep
      BY <3>1, <1>t, PrunedCount
    <3>5. Count(nix') <= Cardinality(KeptGenerations(nix))
      BY <3>3, <3>4, FS_Subset DEF Count
    <3>6. Cardinality(KeptGenerations(nix)) \in Nat /\ Count(nix') \in Nat /\ Keep \in Nat
      BY <3>4, FS_CardinalityType, CountType, BoundsAssumption
    <3>7. Count(nix') <= Keep
      BY <3>4, <3>5, <3>6
    <3> QED BY <2>2, <3>1, <3>7
  <2> QED BY <1>6, <2>1, <2>2 DEF delete_generations
<1> QED BY <1>2, <1>3, <1>4, <1>5, <1>6 DEF InstallStep

(* Only a fault keeps an installation that has added a generation from      *)
(* pruning, and only a fault keeps a boot from its flush.                   *)
LEMMA FewStep ==
  ASSUME IInv, Few, [Next]_vars
  PROVE  Few'
<1>t. /\ Count(nix) \in Nat /\ Count(nix') \in Nat /\ Count(nixDisk) \in Nat /\ Count(nixDisk') \in Nat
      /\ Keep \in Nat /\ faults \in Nat /\ pc \in Places /\ job \in {"kernel", "initrd", "loader"}
  BY CountType, BoundsAssumption DEF IInv, TypeOK
<1>1. CASE LeaveShell
  <2>1. /\ pc = "shell" /\ pc' = "firmware" /\ nix' = nixDisk /\ nixDisk' = nixDisk /\ faults' = faults
    BY <1>1 DEF LeaveShell, LosePower
  <2> QED BY <2>1, <1>t DEF Few, UpdaterSteps
<1>2. CASE PowerCut
  <2>1. /\ pc \in UpdaterSteps /\ pc' = "firmware" /\ nix' = nixDisk /\ nixDisk' = nixDisk
        /\ faults' = faults + 1
    BY <1>2 DEF PowerCut, LosePower, Fault
  <2>2. Count(nixDisk) <= Keep + faults + 1
    BY <1>t DEF Few
  <2> QED BY <2>1, <2>2, <1>t DEF Few, UpdaterSteps
<1>3. CASE InstallStep
  <2>1. /\ pc \in {"start", "fetch", "realise", "validate", "link", "switch", "prune", "gc"}
        /\ pc' \in {"shell", "fetch", "realise", "validate", "link", "switch", "prune", "gc", "decide"}
        /\ nixDisk' = nixDisk
        /\ faults' \in {faults, faults + 1}
        /\ pc' = "shell" => faults' = faults + 1
        /\ pc \in {"switch", "prune"} /\ pc' = "decide" => faults' = faults + 1
        /\ pc = "switch" => pc' \in {"prune", "decide"}
        /\ pc = "prune" => pc' \in {"gc", "decide"}
        /\ pc' = "switch" => pc = "link"
        /\ pc' = "prune" => pc = "switch"
        /\ pc' = "gc" => pc = "prune"
    BY <1>3
    DEF InstallStep, Start, try_update, realise, check_system, create_generation, switch_profile,
        delete_generations, collect_garbage, Fault
  <2>2. /\ \/ Count(nix') = Count(nix)
           \/ pc = "link" /\ pc' = "switch" /\ Count(nix') <= Count(nix) + 1
           \/ pc = "prune" /\ pc' = "gc"
        /\ pc = "prune" /\ pc' = "gc" => Count(nix') <= Keep
        /\ pc = "switch" /\ pc' = "prune" =>
             Count(nix') = Count(nix) /\ nix'.current = Newest(nix')
    BY <1>3, InstallCounts DEF Few
  <2>3. Count(nix') <= Keep + faults' + (IF pc' \in {"switch", "prune"} THEN 1 ELSE 0)
    <3>1. CASE pc = "link" /\ pc' = "switch"
      BY <3>1, <2>1, <2>2, <1>t DEF Few
    <3>2. CASE pc = "prune" /\ pc' = "gc"
      BY <3>2, <2>1, <2>2, <1>t DEF Few
    <3>3. CASE Count(nix') = Count(nix) /\ pc \in {"switch", "prune"}
      BY <3>3, <2>1, <2>2, <1>t DEF Few
    <3>4. CASE Count(nix') = Count(nix) /\ pc \notin {"switch", "prune"}
      BY <3>4, <2>1, <2>2, <1>t DEF Few
    <3> QED BY <2>2, <3>1, <3>2, <3>3, <3>4
  <2>4. Count(nixDisk') <= Keep + faults' + (IF pc' \in UpdaterSteps \ {"fallback"} THEN 1 ELSE 0)
    BY <2>1, <1>t DEF Few, UpdaterSteps
  <2>5. pc' = "prune" => nix'.current = Newest(nix')
    BY <2>1, <2>2
  <2>6. pc' = "gc" => Count(nix') <= Keep
    BY <2>1, <2>2
  <2> QED BY <2>3, <2>4, <2>5, <2>6 DEF Few
<1>4. CASE HandOffStep
  <2>1. /\ pc \in UpdaterSteps \ {"switch", "prune", "gc"}
        /\ pc' \in (UpdaterSteps \cup {"shell", "firmware"}) \ {"switch", "prune", "gc"}
        /\ faults' \in {faults, faults + 1}
        /\ pc # "fallback" /\ pc' \in {"shell", "fallback"} => faults' = faults + 1
        /\ pc' = "firmware" => nixDisk' = nix
        /\ nix' = nix
    BY <1>4, <1>t
    DEF HandOffStep, HandOff, NextGeneration, EnsureKernel, EnsureInitrd, EnsureFile,
        CopyCp, CopySync, CopyMv, AfterCopy, WriteConf, RemoveUnlisted, install_loader,
        WriteLoaderConf, FlushHandoff, SyncDisks, DeleteEntries, CreateEntry, SetBootNext, SetNvram,
        Fallback, Reboot, UpdaterSteps, Fault
  <2>2. nixDisk' \in {nixDisk, nix}
    BY Commits
  <2>3. Count(nix) <= Keep + faults
    BY <2>1, <1>t DEF Few
  <2>4. Count(nixDisk') <= Keep + faults' + (IF pc' \in UpdaterSteps \ {"fallback"} THEN 1 ELSE 0)
    <3>1. CASE nixDisk' = nix
      BY <3>1, <2>1, <2>3, <1>t
    <3>2. CASE nixDisk' = nixDisk /\ pc' # "firmware"
      BY <3>2, <2>1, <1>t DEF Few, UpdaterSteps
    <3> QED BY <2>1, <2>2, <3>1, <3>2
  <2> QED BY <2>1, <2>3, <2>4, <1>t DEF Few
<1>5. CASE Firmware \/ Reset
  <2>1. /\ UNCHANGED <<nix, nixDisk, faults>> /\ pc \in {"firmware", "main", "dead"}
        /\ pc' \in {"main", "dead", "start", "firmware"}
    BY <1>5 DEF Firmware, Reset
  <2> QED BY <2>1, <1>t DEF Few, UpdaterSteps
<1>6. CASE Writeback
  <2>1. nixDisk' = nix /\ UNCHANGED <<pc, nix, faults>>
    BY <1>6 DEF Writeback
  <2> QED BY <2>1, <1>t DEF Few, UpdaterSteps
<1>7. CASE Publish \/ UNCHANGED vars
  <2>1. UNCHANGED <<pc, nix, nixDisk, faults>>
    BY <1>7 DEF Publish, vars
  <2> QED BY <2>1 DEF Few
<1> QED BY <1>1, <1>2, <1>3, <1>4, <1>5, <1>6, <1>7 DEF Next, Machine

(* An installation that prunes leaves at most keepGenerations, and each     *)
(* fault at most one generation more for the host to find: a power cut      *)
(* between the profile switch and the pruning does no worse                 *)
(* (init.sh:202-205).                                                       *)
THEOREM GenerationsStayFew == Spec => []FewGenerations
<1>1. Init => Few
  <2> SUFFICES ASSUME Init PROVE Few
    OBVIOUS
  <2>1. Linked(nix) = {} /\ Linked(nixDisk) = {}
    BY DEF Init, EmptyProfile, Linked
  <2>2. Count(nix) = 0 /\ Count(nixDisk) = 0
    BY <2>1, FS_EmptySet DEF Count
  <2> QED BY <2>2, BoundsAssumption DEF Init, Few
<1>2. IInv /\ Few => FewGenerations
  <2> SUFFICES ASSUME IInv, Few PROVE FewGenerations
    OBVIOUS
  <2>1. faults \in Nat /\ Keep \in Nat /\ Count(nix) \in Nat
    BY CountType, BoundsAssumption DEF IInv, TypeOK
  <2> QED BY <2>1 DEF Few, FewGenerations, Count
<1>3. IInv /\ Few /\ [Next]_vars => (IInv /\ Few)'
  BY Step, FewStep
<1> QED BY <1>1, <1>2, <1>3, Initially, PTL DEF Spec
=============================================================================
