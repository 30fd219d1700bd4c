------------------------------ MODULE MCProto2 ------------------------------
(***************************************************************************)
(* Instances of Proto2 for TLC.  One run covers three scenarios:           *)
(*   "mixed"  two commands that differ in device and operation, in any     *)
(*            order and at any pace;                                       *)
(*   "alike"  a burst of one command that overruns the buffer, and another *)
(*            of the same after it;                                        *)
(*   "burst"  commands that differ in device and operation in turn, more   *)
(*            than fill the buffer, so that what follows a word that was   *)
(*            cut is a piece of another command: a word of pieces of both  *)
(*            would be LIGHT_OF or HITTE_ON.                               *)
(***************************************************************************)
EXTENDS Proto2

TwoCommands == {Cmd("LIGHT", "ON"), Cmd("HITTE", "OF")}

VARIABLE scenario

mcVars == <<vars, scenario>>

MCInit == Init /\ scenario \in {"mixed", "alike", "burst"}

MCNext ==
    /\ Next
    /\ UNCHANGED scenario
    /\ \/ scenario = "mixed" /\ Len(sent') < MaxSend - 1
       \/ scenario = "alike" /\ Len(sent') < MaxSend
                             /\ \A i \in DOMAIN sent' : sent'[i] = Cmd("LIGHT", "ON")
       \/ scenario = "burst" /\ \A i \in DOMAIN sent' :
                                   sent'[i].dev = IF i % 2 = 0 THEN "LIGHT" ELSE "HITTE"

MCSpec == MCInit /\ [][MCNext]_mcVars /\ Fairness
=============================================================================
