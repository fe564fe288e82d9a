------------------------------ MODULE MCListado -------------------------------
(* A small instance of Listado for TLC. *)
EXTENDS Listado
=============================================================================
