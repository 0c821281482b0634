---------------------------- MODULE MCKjFactory ----------------------------
(* Small instances of KjFactory for TLC.                                   *)
EXTENDS KjFactory, TLC

\* Connections are interchangeable.
ConnSymmetry == Permutations(Conns)

=============================================================================
