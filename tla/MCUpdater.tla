----------------------------- MODULE MCUpdater -----------------------------
(* Instances of Updater for TLC: systems that share boot files pairwise. *)
EXTENDS Updater

CONSTANTS a, b, c, other, k1, k2, i1, i2, l1, l2

TwoSystems   == {a, b}
ThreeSystems == {a, b, c}
OtherPaths   == {other}
BootFiles    == {k1, k2, i1, i2}
LoaderBuilds == {l1, l2}

(* a and b share a kernel, b and c an initrd; c brings a new loader. *)
KernelOf == [s \in Systems |-> IF s = c THEN k2 ELSE k1]
InitrdOf == [s \in Systems |-> IF s = a THEN i1 ELSE i2]
LoaderOf == [s \in Systems |-> IF s = c THEN l2 ELSE l1]
=============================================================================
