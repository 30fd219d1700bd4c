--------------------------- MODULE MCModuleMain ---------------------------
(***************************************************************************)
(* Instances of ModuleMain for TLC.                                        *)
(***************************************************************************)
EXTENDS ModuleMain, TLC

Rec(k, p, v) == [kind |-> k, place |-> p, val |-> v]

\* What an Arduino sends: a record of the hot zone, a temperature with a humidity.
OneBatch   == { <<Rec("TEMP", "TWO", 24)>> }
TwoBatches == OneBatch \cup { <<Rec("TEMP", "ONE", 21), Rec("HUMI", "ONE", 60)>> }

\* One command of each kind push distinguishes.
Kinds   == {Cmd("LIGHT", "ON"), Cmd("LIGHT", "AU"), Cmd("HITTE", "AU"), Cmd("MOTOR", "LE")}
Starts  == {Cmd("MOTOR", o) : o \in {"LE", "RI"}}
=============================================================================
