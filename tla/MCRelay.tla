------------------------------ MODULE MCRelay ------------------------------
(***************************************************************************)
(* An instance of Relay for TLC: a small picture, a large one that begins  *)
(* like a boundary and just fits into the extractor's buffer, a huge one   *)
(* that does not, and two files of an earlier run.  The parts of Relay are *)
(* strained one at a time.  In the scenario "stream" small and large       *)
(* pictures are streamed, the stream breaks anywhere (one picture less is  *)
(* streamed after that), it is cut anywhere or connecting fails, and the   *)
(* recorder runs undisturbed.  In "huge" a huge picture follows a small    *)
(* one.  In "files" a small and a large picture are streamed, and the      *)
(* recorder meets TAKE, calls that fail and the passing of a second.       *)
(***************************************************************************)
EXTENDS Relay

Small         == <<"p">>
Large         == <<"-", "q", "q", "q", "q">>
Huge          == <<"r", "r", "r", "r", "r", "r">>
ThreePictures == {Small, Large, Huge}
Left          == {<<0, 7>>, <<0, 8>>}

VARIABLE scenario

Undisturbed == takes' = 0 /\ fails' = 0 /\ clock' = 1

Strains ==
    /\ scenario = "stream" => /\ Undisturbed /\ cuts' + refused' <= 1
                              /\ streamed' \in Seq({Small, Large})
                              /\ conn' = "up" /\ breaks' > 0 => Len(streamed') < MaxSent
    /\ scenario = "huge"   => /\ Undisturbed /\ cuts' = 0 /\ breaks' = 0 /\ refused' = 0
                              /\ streamed' \in {<< >>, <<Small>>, <<Small, Huge>>}
    /\ scenario = "files"  => /\ cuts' = 0 /\ breaks' = 0 /\ refused' = 0
                              /\ streamed' \in {<< >>, <<Small>>, <<Small, Large>>}

mcVars == <<vars, scenario>>

MCInit == Init /\ scenario \in {"stream", "huge", "files"}

MCNext == Next /\ Strains /\ UNCHANGED scenario

MCSpec == MCInit /\ [][MCNext]_mcVars /\ Fairness
=============================================================================
