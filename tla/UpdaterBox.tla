----------------------------- MODULE UpdaterBox -----------------------------
(***************************************************************************)
(* The updater implements Box.  The history variable `offered' records     *)
(* what the pointer has named; the installed system is the one of the      *)
(* newest generation link that is on the disk, the entry systemd-boot      *)
(* starts by default (init.sh:264).                                        *)
(***************************************************************************)
EXTENDS MCUpdater

VARIABLE offered

HInit == Init /\ offered = {published} \cap Systems

HNext == Next /\ offered' = offered \cup ({published'} \cap Systems)

HSpec == HInit /\ [][HNext]_<<vars, offered>>

Installed == IF Newest(nixDisk) = 0 THEN None ELSE nixDisk.links[Newest(nixDisk)]

B == INSTANCE Box WITH installed <- Installed

(* Every step of the machine is a step of Box or leaves it as it is: the   *)
(* host only ever runs a system that was published, the one its disk       *)
(* holds, and no update touches that while it runs (init.sh:299-343).      *)
ImplementsBox == B!Spec
=============================================================================
