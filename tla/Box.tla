-------------------------------- MODULE Box --------------------------------
(***************************************************************************)
(* What the updater promises of the machine as a whole: it runs published  *)
(* systems only, what it runs is what its disk holds, and that changes     *)
(* only while no system runs.  A running system is stopped before another  *)
(* starts.                                                                 *)
(***************************************************************************)
CONSTANTS Systems, None

VARIABLES
  offered,    \* the systems that have been published so far
  installed,  \* the system the disk holds for the next boot, or None
  running     \* the system that runs, or None

vars == <<offered, installed, running>>

Init == offered \in SUBSET Systems /\ installed = None /\ running = None

Offer == /\ \E s \in Systems \ offered : offered' = offered \cup {s}
         /\ UNCHANGED <<installed, running>>

(* Once something is installed, something stays installed. *)
Install == /\ running = None
           /\ installed' \in offered
           /\ UNCHANGED <<offered, running>>

Boot == /\ running = None /\ installed # None
        /\ running' = installed
        /\ UNCHANGED <<offered, installed>>

Halt == /\ running # None
        /\ running' = None
        /\ UNCHANGED <<offered, installed>>

Next == Offer \/ Install \/ Boot \/ Halt

Spec == Init /\ [][Next]_vars
=============================================================================
