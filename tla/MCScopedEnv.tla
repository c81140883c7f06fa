----------------------------- MODULE MCScopedEnv -----------------------------
(* ScopedEnv with its properties, on small instances.                      *)
EXTENDS ScopedEnvProps, TLC

CONSTANTS t1, t2, k1, k2, absent, v1

MCHostEnv == [k \in {k1, k2} |-> IF k = k1 THEN v1 ELSE absent]
MCHostEnv1 == [k \in {k1} |-> absent]
MCNoFaults == {}
MCAllFaults == FaultKinds
MCInvalidKey == {"invalid_key"}
=============================================================================
