--------------------------- MODULE MCRemoteControl ---------------------------
(* Instances of RemoteControl for TLC.                                     *)
EXTENDS RemoteControl, TLC

\* The apps differ in nothing.
Apps == Permutations(Phone)
=============================================================================
