------------------------------ MODULE MCMounts ------------------------------
(* A volume that two services share; a volume in another one and a service *)
(* that uses both.                                                         *)
EXTENDS Mounts, TLC

CONSTANTS ephemeral, logs, x, y, z

MCParent == [v \in Volumes |-> IF v = logs THEN ephemeral ELSE NoVolume]
MCWants == [s \in Services |-> IF s = x THEN <<ephemeral, logs>> ELSE <<ephemeral>>]

Permute == Permutations(Services)
=============================================================================
