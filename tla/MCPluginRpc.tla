---- MODULE MCPluginRpc ----
(* Small instances of PluginRpc for TLC. *)
EXTENDS PluginRpc, TLC

CONSTANTS m1, t1, t2, t3

MCBatches == {<<m1, m1>>}
MCTaskSymmetry == Permutations({t1, t2, t3})
====
