------------------------------ MODULE MCMetricas -------------------------------
(* Small instances of Metricas for TLC. *)
EXTENDS Metricas, TLC

CONSTANTS asesor, supervisor, r1, s1, k1, d1

RolesDeMC == [u \in Usuarios |-> IF u = asesor THEN {"ASESOR"} ELSE {"SUPERVISOR"}]
=============================================================================
