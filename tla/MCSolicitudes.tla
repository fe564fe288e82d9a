---------------------------- MODULE MCSolicitudes -----------------------------
(* Small instances of Solicitudes for TLC. *)
EXTENDS SolicitudesProps, TLC

CONSTANTS asesor, supervisor, r1, r2, s1, s2, k1, k2, d1, d2

\* The directory of users.ts without its admin, who may do what a supervisor may.
RolesDeMC == [u \in Usuarios |-> IF u = asesor THEN {"ASESOR"} ELSE {"SUPERVISOR"}]

\* Requests, ids, keys and forms are interchangeable; users are not.
Simetria == Permutations({r1, r2}) \cup Permutations({s1, s2})
            \cup Permutations({k1, k2}) \cup Permutations({d1, d2})
=============================================================================
