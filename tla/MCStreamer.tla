----------------------------- MODULE MCStreamer -----------------------------
(***************************************************************************)
(* Instances of Streamer for TLC.  One run covers two scenarios: two       *)
(* clients of a program that is neither stopped nor loses its camera, and  *)
(* one client of a program that may be and may.                            *)
(***************************************************************************)
EXTENDS Streamer, TLC

CONSTANTS Viewer, Visitor

\* One looks at the stream, the other at what it likes.
AsksOfBoth == (Viewer :> {"stream"}) @@ (Visitor :> {"snapshot", "resolution"})

VARIABLE scenario

mcVars == <<vars, scenario>>

MCInit == Init /\ scenario \in {"both"} \cup Clients

MCNext ==
    /\ Next
    /\ UNCHANGED scenario
    /\ \/ scenario = "both" /\ ~stop' /\ dev'.present
       \/ scenario \in Clients /\ \A c \in Clients \ {scenario} : pc'[c] = "none"

MCSpec == MCInit /\ [][MCNext]_mcVars /\ Fairness
=============================================================================
