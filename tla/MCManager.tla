------------------------------ MODULE MCManager ------------------------------
(* Small instances of Manager for TLC; identifiers of three bits. *)
EXTENDS Manager

\* Managers share nothing, so what two of them can do is seen while the others
\* are still idle.
TwoAtWork ==
  Cardinality({m \in Managers : seed[m] # FirstSeed(m) \/ conns[m] # {}}) <= 2
==============================================================================
