---- MODULE MCController ----
(* Small instances of Controller for TLC. *)
EXTENDS Controller, TLC

CONSTANTS s1, s2, p1

MCSymmetry == Permutations({s1, s2})
====
