---------------------------- MODULE MCClientesHttp ----------------------------
(* A small instance of ClientesHttp, and of the ClientesCache under it, for TLC. *)
EXTENDS ClientesHttp, TLC

CONSTANTS c1, q1, q2, x1

Simetria == Permutations({q1, q2})
=============================================================================
