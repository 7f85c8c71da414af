---------------------------- MODULE MCServerTable ---------------------------
(* Instances of ServerTable for TLC. *)
EXTENDS ServerTable, TLC

\* The environments are interchangeable: no definition names one.
EnvSymmetry == Permutations(Env)
=============================================================================
