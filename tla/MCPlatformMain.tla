-------------------------- MODULE MCPlatformMain --------------------------
(***************************************************************************)
(* Instances of PlatformMain for TLC: two connections that compete for one *)
(* device with a command that stores a value and one that negates it.      *)
(***************************************************************************)
EXTENDS PlatformMain, TLC

MCOffered == {Cmd("LIGHT", "ON"), Cmd("LIGHT", "AU")}
OneToggle == {Cmd("LIGHT", "AU")}

\* The threads are alike.
Symmetry == Permutations(Session)
=============================================================================
