---------------------------- MODULE FrameBuffer ----------------------------
(***************************************************************************)
(* What the core of mjpg-streamer promises the plugins about in[].buf, the *)
(* mutex db and the condition db_update (mjpg_streamer.h, plugins/input.h):*)
(* an input plugin publishes frames, a client asks for one, waits, and is  *)
(* handed the newest, in one piece, and not one that was published before  *)
(* it asked.  POSIX lets a waiting thread be roused for no reason; such a  *)
(* client may be handed an old frame, still in one piece.  Once the        *)
(* program is told to stop, nothing is promised about contents.            *)
(*                                                                         *)
(* No mutex, no buffer, no camera: Streamer has those, and implements this *)
(* (Promise in Streamer).                                                  *)
(***************************************************************************)
CONSTANTS
    Clients,  \* threads that ask for frames
    Frames,   \* what may be published
    NoFrame,  \* the buffer before the first frame, a client without a frame
    Junk      \* what memory that was given back may hold

VARIABLES
    latest,   \* the frame published last
    got,      \* what each client has been handed, in two halves
    ticket,   \* "asked" until a frame comes or the client is roused, then "ready"
    ending    \* whether the program is to stop

fbVars == <<latest, got, ticket, ending>>

Content  == Frames \cup {NoFrame}
Halves   == [head : Content \cup {Junk}, tail : Content \cup {Junk}]
Whole(f) == [head |-> f, tail |-> f]

Init ==
    /\ latest = NoFrame
    /\ got    = [c \in Clients |-> Whole(NoFrame)]
    /\ ticket = [c \in Clients |-> "none"]
    /\ ending = FALSE

-----------------------------------------------------------------------------
Publish ==
    /\ latest' \in Frames
    /\ ticket' = [c \in Clients |-> IF ticket[c] = "asked" THEN "ready" ELSE ticket[c]]
    /\ UNCHANGED <<got, ending>>

Ask(c) ==
    /\ ticket[c] = "none" /\ ticket' = [ticket EXCEPT ![c] = "asked"]
    /\ UNCHANGED <<latest, got, ending>>

Rouse(c) ==
    /\ ticket[c] = "asked" /\ ticket' = [ticket EXCEPT ![c] = "ready"]
    /\ UNCHANGED <<latest, got, ending>>

\* The client is handed a frame, or answered that there is no memory for one.
Deliver(c) ==
    /\ \/ ticket[c] = "ready" /\ got' = [got EXCEPT ![c] = Whole(latest)]
       \/ ending /\ \E h \in Halves : got' = [got EXCEPT ![c] = h]
    /\ ticket' = [ticket EXCEPT ![c] = "none"]
    /\ UNCHANGED <<latest, ending>>

Refuse(c) ==
    /\ ticket[c] = "ready" \/ ending
    /\ ticket' = [ticket EXCEPT ![c] = "none"]
    /\ UNCHANGED <<latest, got, ending>>

\* The client has passed its frame on, or given it up.
Consume(c) ==
    /\ got' = [got EXCEPT ![c] = Whole(NoFrame)]
    /\ UNCHANGED <<latest, ticket, ending>>

Stop ==
    /\ ending' = TRUE
    /\ UNCHANGED <<latest, got, ticket>>

Next ==
    \/ Publish \/ Stop
    \/ \E c \in Clients : Ask(c) \/ Rouse(c) \/ Deliver(c) \/ Refuse(c) \/ Consume(c)

Spec == Init /\ [][Next]_fbVars
=============================================================================
