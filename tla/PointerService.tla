--------------------------- MODULE PointerService ---------------------------
(***************************************************************************)
(* What publishing promises its readers: a pointer that only ever names a  *)
(* system all of whose closure can be fetched, and what can be fetched     *)
(* stays so.                                                               *)
(***************************************************************************)
CONSTANTS Toplevels, None

VARIABLES
  fetchable,  \* the systems whose whole closure a reader can fetch
  pointer     \* the system the pointer names, or None before the first

Init == fetchable \in SUBSET Toplevels /\ pointer = None

Store == /\ fetchable' \in {F \in SUBSET Toplevels : fetchable \subseteq F}
         /\ UNCHANGED pointer

Point == /\ pointer' \in fetchable
         /\ UNCHANGED fetchable

Spec == Init /\ [][Store \/ Point]_<<fetchable, pointer>>
=============================================================================
