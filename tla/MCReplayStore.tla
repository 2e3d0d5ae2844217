------------------------------ MODULE MCReplayStore ------------------------------
(***************************************************************************)
(* Instance of ReplayStore for TLC.                                        *)
(***************************************************************************)
EXTENDS ReplayStore, TLC

\* Hosts and keys are interchangeable.
Symmetries == Permutations(Hosts) \cup Permutations(Keys)

================================================================================
