------------------------------ MODULE Updater ------------------------------
(***************************************************************************)
(* The boot-time updater of a-box: PID 1 of the updater initrd             *)
(* (updater/init.sh).  Every boot of the machine starts here.  It installs *)
(* the system the pointer names into the Nix store on the data partition,  *)
(* prunes old generations, copies the kernels, initrds and boot entries of *)
(* the kept generations and the boot loader to the ESP, registers the      *)
(* loader in the firmware, makes it BootNext and reboots into it.          *)
(*                                                                         *)
(* The state is what outlives a step: the Nix store and system profile     *)
(* (btrfs), the ESP (FAT, no journal), the firmware variables, and the     *)
(* variables of the running script.  A power cut may happen between any    *)
(* two steps; the steps that the script guards with `|| return 1`, and the *)
(* copy that it does not guard, may fail.  Which kinds of fault a model    *)
(* has is the constant Faults; how many, the bound MaxFaults.              *)
(***************************************************************************)
EXTENDS Integers, FiniteSets

CONSTANTS
  Systems,     \* store paths of NixOS systems
  Others,      \* store paths that are not NixOS systems
  NotAPath,    \* what the pointer file holds when it is no store path
  None,        \* no system, no entry, no loader
  Torn,        \* a file whose data did not reach the disk
  Files,       \* kernels and initrds, by their content-addressed ESP name
  Kernel,      \* Kernel[s], Initrd[s]: the boot files of system s
  Initrd,
  Loaders,     \* builds of systemd-boot
  Loader,      \* Loader[s]: the one system s carries
  LoaderName,  \* the ESP name of the loader ($loader)
  Keep,        \* generations to keep (keepGenerations)
  Faults,      \* the kinds of fault that may happen
  MaxFaults,   \* bound: how many faults happen
  MaxPublish,  \* bound: how often the pointer changes
  MaxGen       \* bound: highest generation number

FaultKinds == {"net", "power", "install", "mount", "esp", "cp", "nvram"}

ASSUME SystemsAssumption ==
  /\ Systems \cap Others = {}
  /\ {NotAPath, None, Torn} \cap (Systems \cup Others \cup Loaders) = {}
  /\ NotAPath # None /\ None # Torn /\ NotAPath # Torn

ASSUME FilesAssumption ==
  /\ Kernel \in [Systems -> Files] /\ Initrd \in [Systems -> Files]
  /\ Loader \in [Systems -> Loaders]
  /\ Files \cap (1 .. MaxGen) = {} /\ LoaderName \notin Files \cup (1 .. MaxGen)

ASSUME BoundsAssumption ==
  /\ Keep \in Nat \ {0} /\ MaxGen \in Nat \ {0}
  /\ MaxFaults \in Nat /\ MaxPublish \in Nat
  /\ Faults \subseteq FaultKinds

VARIABLES
  pc,         \* where the machine is: a step of the script, or outside of it
  nix,        \* the Nix store and the system profile, as the script sees them
  nixDisk,    \* the same, as last committed to the btrfs partition
  esp,        \* the EFI system partition, as the script sees it
  espDisk,    \* the same, as of the last sync
  dirty,      \* ESP names whose data is not on the disk yet
  nvram,      \* firmware variables: an a-box boot entry, and BootNext
  want,       \* $want of try_update
  todo,       \* generations write_entries has not handled yet
  gen,        \* $gen, the generation it is handling
  listed,     \* the names in /run/keep
  job,        \* what copy_to_esp copies
  copied,     \* what cp left in $dst.tmp
  flushed,    \* has a sync run since that cp?
  running,    \* the system the main host runs
  published,  \* the pointer file on the server
  publishes,  \* how often it has changed
  faults      \* how many faults have happened

script == <<want, todo, gen, listed, job, copied, flushed>>
disks  == <<nix, nixDisk, esp, espDisk, dirty>>
world  == <<published, publishes>>
vars   == <<pc, disks, nvram, script, running, world, faults>>

Gens     == 1 .. MaxGen
Pointers == Systems \cup Others \cup {NotAPath}
Status   == {"absent", "partial", "complete"}
Names    == Files \cup Gens \cup {LoaderName}

(***************************************************************************)
(* A profile is the set of generation links system-<g>-link, and the link  *)
(* `system' to one of them (0: there is no profile yet).                   *)
(***************************************************************************)
ProfileStates == [store   : SUBSET (Systems \cup Others),
                  links   : [Gens -> Systems \cup {None}],
                  current : 0 .. MaxGen]

EspStates == [boot   : [Files -> Status],
              conf   : [Gens -> Systems \cup {None, Torn}],
              tmp    : SUBSET Names,
              loader : Loaders \cup {None, Torn}]

Linked(n) == {g \in Gens : n.links[g] # None}

Newest(n) == IF Linked(n) = {} THEN 0
             ELSE CHOOSE g \in Linked(n) : \A h \in Linked(n) : h <= g

NewestNames(n, s) == IF Newest(n) = 0 THEN FALSE ELSE n.links[Newest(n)] = s

current_system(n) == IF n.current = 0 THEN None ELSE n.links[n.current]

\* mutant: the garbage collector takes only the current generation as a root
Rooted_CurrentOnly(n) == {current_system(n)} \ {None}

Rooted(n) == {n.links[g] : g \in Linked(n)}

EmptyProfile == [store |-> {}, links |-> [g \in Gens |-> None], current |-> 0]

EmptyEsp == [boot   |-> [f \in Files |-> "absent"],
             conf   |-> [g \in Gens |-> None],
             tmp    |-> {},
             loader |-> None]

UpdaterSteps ==
  {"start", "fetch", "realise", "validate", "link", "switch", "prune", "gc",
   "decide", "gen", "kernel", "initrd", "conf", "cp", "sync", "mv", "clean",
   "loader", "loader_conf", "flush", "delete", "create", "bootnext",
   "fallback", "reboot"}

Places == UpdaterSteps \cup {"firmware", "main", "dead", "shell"}

TypeOK ==
  /\ pc \in Places
  /\ nix \in ProfileStates /\ nixDisk \in ProfileStates
  /\ esp \in EspStates /\ espDisk \in EspStates
  /\ dirty \subseteq Names
  /\ nvram \in [entry : BOOLEAN, bootNext : BOOLEAN]
  /\ want \in Pointers \cup {None}
  /\ todo \subseteq Gens /\ gen \in Gens
  /\ listed \subseteq Files \cup Gens
  /\ job \in {"kernel", "initrd", "loader"}
  /\ copied \in {"partial", "complete"} /\ flushed \in BOOLEAN
  /\ running \in Systems \cup {None}
  /\ published \in Pointers
  /\ publishes \in 0 .. MaxPublish /\ faults \in 0 .. MaxFaults

(***************************************************************************)
(* A machine a-box-install has prepared: empty data partition and ESP, the *)
(* updater first in BootOrder.                                             *)
(***************************************************************************)
Init ==
  /\ pc = "firmware"
  /\ nix = EmptyProfile /\ nixDisk = EmptyProfile
  /\ esp = EmptyEsp /\ espDisk = EmptyEsp /\ dirty = {}
  /\ nvram = [entry |-> FALSE, bootNext |-> FALSE]
  /\ want = None /\ todo = {} /\ gen = 1 /\ listed = {}
  /\ job = "kernel" /\ copied = "complete" /\ flushed = TRUE
  /\ running = None
  /\ published \in Pointers
  /\ publishes = 0 /\ faults = 0

Fault(kind) == kind \in Faults /\ faults < MaxFaults /\ faults' = faults + 1

Goto(from, to) == pc = from /\ pc' = to

(* `sync' flushes every file system. *)
SyncDisks == /\ nixDisk' = nix
             /\ espDisk' = esp
             /\ dirty' = {}
             /\ UNCHANGED <<nix, esp>>

-----------------------------------------------------------------------------
(***************************************************************************)
(* The firmware.  BootNext is consumed by the boot it decides; otherwise,  *)
(* or when the loader image does not load, BootOrder starts the updater.   *)
(* systemd-boot starts the entry of the newest generation.                 *)
(***************************************************************************)
Entries(e) == {g \in Gens : e.conf[g] # None}

DefaultEntry(e) == CHOOSE g \in Entries(e) : \A h \in Entries(e) : h <= g

DefaultSystem(e) == IF Entries(e) = {} THEN None ELSE e.conf[DefaultEntry(e)]

Bootable(e, n) == LET s == DefaultSystem(e) IN
  /\ s \in Systems
  /\ e.boot[Kernel[s]] = "complete" /\ e.boot[Initrd[s]] = "complete"
  /\ s \in n.store

BootsLoader == nvram.entry /\ nvram.bootNext /\ esp.loader \in Loaders

Firmware ==
  /\ pc = "firmware"
  /\ nvram' = [nvram EXCEPT !.bootNext = FALSE]
  /\ IF BootsLoader
     THEN IF Bootable(esp, nix)
          THEN pc' = "main" /\ running' = DefaultSystem(esp)
          ELSE pc' = "dead" /\ running' = None
     ELSE pc' = "start" /\ running' = None
  /\ UNCHANGED <<disks, script, world, faults>>

(* The main host is shut down, or a boot that hung is reset by hand. *)
Reset ==
  /\ pc \in {"main", "dead"}
  /\ pc' = "firmware" /\ running' = None
  /\ UNCHANGED <<disks, nvram, script, world, faults>>

-----------------------------------------------------------------------------
(***************************************************************************)
(* Losing power.  Btrfs comes back as last committed.  On the FAT ESP a    *)
(* name changed since the last sync is as before or as after, each on its  *)
(* own, and one whose data was not flushed may be torn.  The script's      *)
(* variables are in RAM.                                                   *)
(***************************************************************************)
AfterCut(names, old, new, torn) ==
  {[n \in names |-> IF n \in kept THEN new[n] ELSE IF n \in cut THEN torn ELSE old[n]] :
     kept \in SUBSET {n \in names : new[n] # old[n]}, cut \in SUBSET (names \cap dirty)}

EspAfterCut ==
  {[boot |-> b, conf |-> c, tmp |-> t, loader |-> l] :
     b \in AfterCut(Files, espDisk.boot, esp.boot, "partial"),
     c \in AfterCut(Gens, espDisk.conf, esp.conf, Torn),
     t \in {(espDisk.tmp \cap esp.tmp) \cup some : some \in SUBSET (espDisk.tmp \cup esp.tmp)},
     l \in {espDisk.loader, esp.loader} \cup (IF LoaderName \in dirty THEN {Torn} ELSE {})}

LosePower ==
  /\ pc' = "firmware" /\ running' = None
  /\ nix' = nixDisk
  /\ esp' \in EspAfterCut /\ espDisk' = esp' /\ dirty' = {}
  /\ want' = None /\ todo' = {} /\ gen' = 1 /\ listed' = {}
  /\ job' = "kernel" /\ copied' = "complete" /\ flushed' = TRUE
  /\ UNCHANGED <<nixDisk, nvram, world>>

PowerCut ==
  /\ Fault("power") /\ pc \in UpdaterSteps
  /\ LosePower

(* The kernel commits btrfs in the background. *)
Writeback ==
  /\ nixDisk # nix /\ "power" \in Faults
  /\ nixDisk' = nix
  /\ UNCHANGED <<pc, nix, esp, espDisk, dirty, nvram, script, running, world, faults>>

(* fatal: an emergency shell; leaving it reboots, without a sync. *)
LeaveShell ==
  /\ pc = "shell"
  /\ LosePower
  /\ UNCHANGED faults

-----------------------------------------------------------------------------
(***************************************************************************)
(* Installing a system: mount_part of the data partition and network, then *)
(* try_update, retried every 30 s while no system is installed.            *)
(***************************************************************************)
Start ==
  /\ pc = "start"
  /\ \/ pc' = "fetch" /\ UNCHANGED faults
     \/ pc' = "shell" /\ Fault("mount")
  /\ UNCHANGED <<disks, nvram, script, running, world>>

\* mutant: valid_store_path is not called
try_update_AnyString ==
  /\ pc = "fetch"
  /\ IF published # current_system(nix)
     THEN want' = published /\ pc' = "realise"
     ELSE want' = None /\ pc' = "decide"
  /\ UNCHANGED <<disks, nvram, todo, gen, listed, job, copied, flushed, running, world, faults>>

try_update ==
  /\ pc = "fetch"
  /\ \/ /\ published \in Systems \cup Others
        /\ published # current_system(nix)
        /\ want' = published /\ pc' = "realise"
        /\ UNCHANGED faults
     \/ /\ published \notin Systems \cup Others \/ published = current_system(nix)
        /\ want' = None /\ pc' = "decide"
        /\ UNCHANGED faults
     \/ /\ Fault("net")
        /\ want' = None /\ pc' = "decide"
  /\ UNCHANGED <<disks, nvram, todo, gen, listed, job, copied, flushed, running, world>>

(* A download; when space is low (min-free) it also collects garbage. *)
realise ==
  /\ pc = "realise"
  /\ \E kept \in {nix.store, nix.store \cap Rooted(nix)} :
       \/ /\ nix' = [nix EXCEPT !.store = kept \cup {want}]
          /\ pc' = "validate"
          /\ UNCHANGED faults
       \/ /\ Fault("net")
          /\ nix' = [nix EXCEPT !.store = kept]
          /\ pc' = "decide"
  /\ UNCHANGED <<nixDisk, esp, espDisk, dirty, nvram, script, running, world>>

check_system ==
  /\ pc = "validate"
  /\ pc' = IF want \in Systems THEN "link" ELSE "decide"
  /\ UNCHANGED <<disks, nvram, script, running, world, faults>>

(***************************************************************************)
(* nixos-install: nix-env --set makes a generation link, unless the newest *)
(* one already names the system, then switches the profile to it.          *)
(***************************************************************************)
\* mutant: any old generation of the same system is taken for the new one
create_generation_AnyOld ==
  /\ pc = "link"
  /\ IF want \in Rooted(nix)
     THEN nix' = nix
     ELSE /\ Newest(nix) < MaxGen
          /\ nix' = [nix EXCEPT !.links[Newest(nix) + 1] = want]
  /\ pc' = "switch"
  /\ UNCHANGED <<nixDisk, esp, espDisk, dirty, nvram, script, running, world, faults>>

create_generation ==
  /\ pc = "link"
  /\ \/ /\ IF NewestNames(nix, want)
           THEN nix' = nix
           ELSE /\ Newest(nix) < MaxGen
                /\ nix' = [nix EXCEPT !.links[Newest(nix) + 1] = want]
        /\ pc' = "switch"
        /\ UNCHANGED faults
     \/ /\ Fault("install")
        /\ nix' = nix /\ pc' = "decide"
  /\ UNCHANGED <<nixDisk, esp, espDisk, dirty, nvram, script, running, world>>

switch_profile ==
  /\ pc = "switch"
  /\ \/ /\ nix' = [nix EXCEPT !.current = Newest(nix)] /\ pc' = "prune"
        /\ UNCHANGED faults
     \/ nix' = nix /\ pc' = "decide" /\ Fault("install")
  /\ UNCHANGED <<nixDisk, esp, espDisk, dirty, nvram, script, running, world>>

\* mutant: one generation too many is kept
KeptGenerations_OneMore(n) ==
  {g \in Linked(n) :
     \/ g >= n.current
     \/ Cardinality({h \in Linked(n) : g < h /\ h < n.current}) < Keep}

(* nix-env --delete-generations +Keep: the current one and the Keep - 1     *)
(* before it stay, and so do newer ones.                                    *)
KeptGenerations(n) ==
  {g \in Linked(n) :
     \/ g >= n.current
     \/ Cardinality({h \in Linked(n) : g < h /\ h < n.current}) < Keep - 1}

delete_generations ==
  /\ pc = "prune"
  /\ \/ /\ nix' = [nix EXCEPT !.links =
                     [g \in Gens |-> IF g \in KeptGenerations(nix)
                                     THEN nix.links[g] ELSE None]]
        /\ pc' = "gc"
        /\ UNCHANGED faults
     \/ nix' = nix /\ pc' = "decide" /\ Fault("install")
  /\ UNCHANGED <<nixDisk, esp, espDisk, dirty, nvram, script, running, world>>

(* nix-store --gc; one that fails has deleted some of the garbage. *)
collect_garbage ==
  /\ pc = "gc" /\ pc' = "decide"
  /\ \/ /\ nix' = [nix EXCEPT !.store = nix.store \cap Rooted(nix)]
        /\ UNCHANGED faults
     \/ /\ Fault("install")
        /\ \E gone \in SUBSET (nix.store \ Rooted(nix)) :
             nix' = [nix EXCEPT !.store = nix.store \ gone]
  /\ UNCHANGED <<nixDisk, esp, espDisk, dirty, nvram, script, running, world>>

-----------------------------------------------------------------------------
(***************************************************************************)
(* handoff: mount the ESP, write_entries, install_loader, sync,            *)
(* register_loader.  Without a current system the script retries instead.  *)
(***************************************************************************)
HandOff ==
  /\ pc = "decide"
  /\ \/ /\ current_system(nix) = None
        /\ pc' = "fetch"
        /\ UNCHANGED <<todo, listed, faults>>
     \/ /\ current_system(nix) # None
        /\ todo' = Linked(nix) /\ listed' = {}
        /\ pc' = "gen"
        /\ UNCHANGED faults
     \/ /\ current_system(nix) # None
        /\ Fault("mount") /\ pc' = "shell"
        /\ UNCHANGED <<todo, listed>>
  /\ UNCHANGED <<disks, nvram, want, gen, job, copied, flushed, running, world>>

(* The loop of write_entries.  The glob sorts names, 10 before 9: the order *)
(* is left open.                                                            *)
NextGeneration ==
  /\ pc = "gen"
  /\ \/ \E g \in todo : gen' = g /\ pc' = "kernel"
     \/ todo = {} /\ gen' = gen /\ pc' = "clean"
  /\ UNCHANGED <<disks, nvram, want, todo, listed, job, copied, flushed, running, world, faults>>

GenSystem == nix.links[gen]

(* [ -e name ] || copy_to_esp *)
EnsureFile(which, file, after) ==
  /\ pc = which
  /\ IF esp.boot[file] # "absent"
     THEN pc' = after /\ UNCHANGED job
     ELSE pc' = "cp" /\ job' = which
  /\ UNCHANGED <<disks, nvram, want, todo, gen, listed, copied, flushed, running, world, faults>>

EnsureKernel == EnsureFile("kernel", Kernel[GenSystem], "initrd")
EnsureInitrd == EnsureFile("initrd", Initrd[GenSystem], "conf")

(***************************************************************************)
(* copy_to_esp: cp, sync, mv.  Its callers run it under `||', where set -e *)
(* is off: a cp that fails half way is followed by the sync and the mv.    *)
(***************************************************************************)
JobFile == IF job = "kernel" THEN Kernel[GenSystem] ELSE Initrd[GenSystem]

JobName == IF job = "loader" THEN LoaderName ELSE JobFile

CopyCp ==
  /\ Goto("cp", "sync")
  /\ esp' = [esp EXCEPT !.tmp = @ \cup {JobName}]
  /\ flushed' = FALSE
  /\ \/ copied' = "complete" /\ UNCHANGED faults
     \/ copied' = "partial" /\ Fault("cp")
  /\ UNCHANGED <<nix, nixDisk, espDisk, dirty, nvram, want, todo, gen, listed, job, running, world>>

\* mutant: no flush before the rename
CopySync_NoSync ==
  /\ Goto("sync", "mv")
  /\ UNCHANGED <<disks, nvram, script, running, world, faults>>

CopySync ==
  /\ Goto("sync", "mv")
  /\ SyncDisks
  /\ flushed' = TRUE
  /\ UNCHANGED <<nvram, want, todo, gen, listed, job, copied, running, world, faults>>

AfterCopy == CASE job = "kernel" -> "initrd"
               [] job = "initrd" -> "conf"
               [] job = "loader" -> "loader_conf"

CopyMv ==
  /\ pc = "mv"
  /\ \/ /\ esp' = IF job = "loader"
                  THEN [esp EXCEPT !.loader = IF copied = "complete" THEN Loader[current_system(nix)]
                                              ELSE Torn,
                                   !.tmp = @ \ {JobName}]
                  ELSE [esp EXCEPT !.boot[JobFile] = copied, !.tmp = @ \ {JobName}]
        /\ dirty' = IF flushed THEN dirty ELSE dirty \cup {JobName}
        /\ pc' = AfterCopy
        /\ UNCHANGED faults
     \/ /\ Fault("esp")
        /\ pc' = "fallback"
        /\ UNCHANGED <<esp, dirty>>
  /\ UNCHANGED <<nix, nixDisk, espDisk, nvram, script, running, world>>

\* mutant: the initrd is left out of /run/keep
WriteConf_ForgetsInitrd ==
  /\ Goto("conf", "gen")
  /\ esp' = [esp EXCEPT !.conf[gen] = GenSystem, !.tmp = @ \ {gen}]
  /\ dirty' = dirty \cup {gen}
  /\ listed' = listed \cup {Kernel[GenSystem], gen}
  /\ todo' = todo \ {gen}
  /\ UNCHANGED <<nix, nixDisk, espDisk, nvram, want, gen, job, copied, flushed, running, world, faults>>

(* The boot entry is written to a temporary name and renamed, with no sync. *)
WriteConf ==
  /\ pc = "conf"
  /\ \/ /\ esp' = [esp EXCEPT !.conf[gen] = GenSystem, !.tmp = @ \ {gen}]
        /\ dirty' = dirty \cup {gen}
        /\ listed' = listed \cup {Kernel[GenSystem], Initrd[GenSystem], gen}
        /\ todo' = todo \ {gen}
        /\ pc' = "gen"
        /\ UNCHANGED faults
     \/ /\ Fault("esp")
        /\ esp' = [esp EXCEPT !.tmp = @ \cup {gen}]
        /\ pc' = "fallback"
        /\ UNCHANGED <<dirty, listed, todo>>
  /\ UNCHANGED <<nix, nixDisk, espDisk, nvram, want, gen, job, copied, flushed, running, world>>

\* mutant: only entries and boot files are removed, temporary files stay
RemoveUnlisted_KeepsTmp ==
  /\ Goto("clean", "loader")
  /\ esp' = [esp EXCEPT
       !.boot = [f \in Files |-> IF f \in listed THEN esp.boot[f] ELSE "absent"],
       !.conf = [g \in Gens |-> IF g \in listed THEN esp.conf[g] ELSE None]]
  /\ UNCHANGED <<nix, nixDisk, espDisk, dirty, nvram, script, running, world, faults>>

(* Everything under /a-box and every a-box-* entry that /run/keep does not *)
(* list is removed; a temporary name is never listed.  The loader and its   *)
(* temporary file are under /EFI.                                          *)
RemoveUnlisted ==
  /\ Goto("clean", "loader")
  /\ esp' = [esp EXCEPT
       !.boot = [f \in Files |-> IF f \in listed THEN esp.boot[f] ELSE "absent"],
       !.conf = [g \in Gens |-> IF g \in listed THEN esp.conf[g] ELSE None],
       !.tmp  = @ \cap {LoaderName}]
  /\ UNCHANGED <<nix, nixDisk, espDisk, dirty, nvram, script, running, world, faults>>

(* cmp -s || copy_to_esp *)
install_loader ==
  /\ pc = "loader"
  /\ IF esp.loader = Loader[current_system(nix)]
     THEN pc' = "loader_conf" /\ UNCHANGED job
     ELSE pc' = "cp" /\ job' = "loader"
  /\ UNCHANGED <<disks, nvram, want, todo, gen, listed, copied, flushed, running, world, faults>>

WriteLoaderConf ==
  /\ pc = "loader_conf"
  /\ \/ pc' = "flush" /\ UNCHANGED faults
     \/ pc' = "fallback" /\ Fault("esp")
  /\ UNCHANGED <<disks, nvram, script, running, world>>

\* mutant: the boot entries are not flushed before BootNext names the loader
FlushHandoff_NoSync ==
  /\ Goto("flush", "delete")
  /\ UNCHANGED <<disks, nvram, script, running, world, faults>>

FlushHandoff ==
  /\ Goto("flush", "delete")
  /\ SyncDisks
  /\ UNCHANGED <<nvram, script, running, world, faults>>

(* register_loader: delete the a-box entries, create one, make it BootNext. *)
SetNvram(from, to, new) ==
  /\ pc = from
  /\ \/ nvram' = new /\ pc' = to /\ UNCHANGED faults
     \/ nvram' = nvram /\ pc' = "fallback" /\ Fault("nvram")
  /\ UNCHANGED <<disks, script, running, world>>

DeleteEntries == SetNvram("delete", "create", [nvram EXCEPT !.entry = FALSE])
\* mutant: the entry is deleted but not created again
CreateEntry_Missing == SetNvram("create", "bootnext", nvram)

CreateEntry   == SetNvram("create", "bootnext", [nvram EXCEPT !.entry = TRUE])
SetBootNext   == SetNvram("bootnext", "reboot", [nvram EXCEPT !.bootNext = TRUE])

(* handoff failed: boot the loader that is already installed. *)
Fallback ==
  /\ pc = "fallback"
  /\ \/ /\ nvram.entry
        /\ nvram' = [nvram EXCEPT !.bootNext = TRUE] /\ pc' = "reboot"
        /\ UNCHANGED faults
     \/ /\ nvram.entry /\ Fault("nvram")
        /\ nvram' = nvram /\ pc' = "shell"
     \/ /\ ~ nvram.entry
        /\ nvram' = nvram /\ pc' = "shell"
        /\ UNCHANGED faults
  /\ UNCHANGED <<disks, script, running, world>>

Reboot ==
  /\ Goto("reboot", "firmware")
  /\ SyncDisks
  /\ want' = None /\ todo' = {} /\ gen' = 1 /\ listed' = {}
  /\ job' = "kernel" /\ copied' = "complete" /\ flushed' = TRUE
  /\ UNCHANGED <<nvram, running, world, faults>>

-----------------------------------------------------------------------------
(* The publisher moves the pointer, forward or back, at any time. *)
Publish ==
  /\ publishes < MaxPublish
  /\ publishes' = publishes + 1
  /\ published' \in Pointers \ {published}
  /\ UNCHANGED <<pc, disks, nvram, script, running, faults>>

InstallStep == Start \/ try_update \/ realise \/ check_system \/ create_generation
               \/ switch_profile \/ delete_generations \/ collect_garbage

HandOffStep == HandOff \/ NextGeneration \/ EnsureKernel \/ EnsureInitrd
               \/ CopyCp \/ CopySync \/ CopyMv \/ WriteConf \/ RemoveUnlisted
               \/ install_loader \/ WriteLoaderConf \/ FlushHandoff
               \/ DeleteEntries \/ CreateEntry \/ SetBootNext \/ Fallback \/ Reboot

Machine == Firmware \/ Reset \/ LeaveShell \/ InstallStep \/ HandOffStep

Next == Machine \/ PowerCut \/ Writeback \/ Publish

Spec == Init /\ [][Next]_vars

(* The script runs, a host is restarted now and then, a shell is left. *)
FairSpec == Spec /\ WF_vars(Machine)

-----------------------------------------------------------------------------
(***************************************************************************)
(* Properties.                                                             *)
(***************************************************************************)

(* What install_system promises of the profile, on the disk as well as in  *)
(* memory: every generation link names a NixOS system that is complete in  *)
(* the store, and `system' is one of the links.  No download that failed,  *)
(* no pointer to something else, no garbage collection and no power cut    *)
(* between the steps of an installation may break it (init.sh:173-192).    *)
Sound(n) ==
  /\ \A g \in Gens : n.links[g] # None => n.links[g] \in n.store \cap Systems
  /\ n.current # 0 => n.links[n.current] # None

ProfileSound == Sound(nix) /\ Sound(nixDisk)

(***************************************************************************)
(* Where the script is and what it knows there: the strengthening that     *)
(* makes TypeOK and ProfileSound inductive.                                *)
(***************************************************************************)
CopySteps    == {"cp", "sync", "mv"}
HandOffSteps == {"gen", "kernel", "initrd", "conf", "clean", "loader", "loader_conf"}
                  \cup CopySteps

Knows ==
  /\ pc = "realise" => want \in Systems \cup Others
  /\ pc = "validate" => want \in nix.store
  /\ pc = "link" => want \in nix.store \cap Systems
  /\ pc = "switch" => NewestNames(nix, want)
  /\ pc \in HandOffSteps => nix.current # 0 /\ todo \subseteq Linked(nix)
  /\ pc \in {"kernel", "initrd", "conf"} \/ (pc \in CopySteps /\ job # "loader")
       => gen \in todo

IInv == TypeOK /\ ProfileSound /\ Knows

(* "flush data before the rename makes the file visible" (init.sh:218): a  *)
(* kernel, initrd or loader under its final name on the ESP is complete,   *)
(* also after a power cut.  The updater relies on it: `[ -e name ]' is its *)
(* only check before it skips the copy.                                    *)
WholeFiles(e) == /\ \A f \in Files : e.boot[f] # "partial"
                 /\ e.loader # Torn

NamedFilesComplete == WholeFiles(esp) /\ WholeFiles(espDisk)

(* The machine is never sent into a boot that cannot succeed: whenever     *)
(* BootNext starts the loader, its default entry has its kernel and initrd *)
(* on the ESP and its system in the store (init.sh:299-337).               *)
NoDeadBoot == pc # "dead"

(* What write_entries, its cleanup and install_loader leave behind         *)
(* (init.sh:227-276): a running host has on its ESP the entries of exactly *)
(* the generations in the profile, exactly their boot files, and no        *)
(* temporary file under /a-box or loader/entries, whatever earlier attempts *)
(* left there; the loader is the one the current system carries, and the   *)
(* host runs the newest generation.                                        *)
EspMatchesProfile ==
  pc = "main" =>
    /\ \A g \in Gens : esp.conf[g] = nix.links[g]
    /\ {f \in Files : esp.boot[f] # "absent"} =
         {Kernel[s] : s \in Rooted(nix)} \cup {Initrd[s] : s \in Rooted(nix)}
    /\ esp.tmp \subseteq {LoaderName}
    /\ esp.loader = Loader[current_system(nix)]
    /\ running = nix.links[Newest(nix)]

(* "Generations kept in the main root's system profile and on the ESP"     *)
(* (updater/default.nix:30): an installation that gets to its pruning       *)
(* leaves at most keepGenerations, whatever was left before, and a running  *)
(* host has at most one more for each fault, since only a fault can keep an *)
(* installation from pruning (init.sh:202-205).                             *)
FewGenerations ==
  /\ pc = "gc" => Cardinality(Linked(nix)) <= Keep
  /\ pc = "main" => Cardinality(Linked(nix)) <= Keep + faults

(* While a system is published, the box comes up again and again: no       *)
(* sequence of faults that ends strands it (init.sh:318-343).              *)
ComesUp == <>[](published \in Systems) => []<>(pc = "main")

(* Once the pointer stays on a system, the box ends up running that system *)
(* and no other, but for one case: a generation link newer than the one     *)
(* `system' names, left by an installation that was cut short, may stay the *)
(* newest for ever, when the pointer is back on the current system          *)
(* (init.sh:186, 202-205).                                                  *)
ConvergesOrLeftover == \A s \in Systems :
  <>[](published = s) => \/ <>[](pc = "main" => running = s)
                         \/ <>[](pc = "main" => Newest(nix) # nix.current)
=============================================================================
