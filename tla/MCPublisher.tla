---------------------------- MODULE MCPublisher ----------------------------
(* Two systems that share a path of their own and one upstream serves. *)
EXTENDS Publisher

CONSTANTS t1, t2, lib, glibc, b1, b2

TwoToplevels == {t1, t2}
FourPaths    == {t1, t2, lib, glibc}
ClosureOf    == [t \in TwoToplevels |-> {t, lib, glibc}]
ServedAbove  == {glibc}
TwoBuilds    == {b1, b2}
=============================================================================
