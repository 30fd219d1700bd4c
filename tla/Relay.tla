------------------------------- MODULE Relay -------------------------------
(***************************************************************************)
(* A second mjpg-streamer that records what a first one streams: the HTTP  *)
(* input plugin (MjpgProxy) and the file output plugin (OutputFile) of one *)
(* process, which share in[0].buf, its mutex and its condition.            *)
(***************************************************************************)
EXTENDS Integers, Sequences, FiniteSets

CONSTANTS Pictures, BUFFER_SIZE, MaxSent, MaxBreaks, MaxCuts, MaxRefused,
          ringbuffer_size, ringbuffer_exceed, HEADROOM, OldFiles, MaxTakes, MaxClock, MaxFails

ASSUME RingAssumption == ringbuffer_size \in Nat \ {0} /\ ringbuffer_exceed \in Nat

\* An earlier run has left finitely many files, at an earlier time.
ASSUME OldAssumption == IsFiniteSet(OldFiles) /\ OldFiles \subseteq {0} \X Nat

ASSUME BoundsAssumption == MaxClock \in Nat \ {0} /\ MaxBreaks \in Nat /\ MaxRefused \in Nat

\* What comes before the first picture fits into the extractor's buffer.
ASSUME BufferAssumption == BUFFER_SIZE \in Nat /\ BUFFER_SIZE >= 7 /\ HEADROOM \in Nat

\* No picture has the boundary in it.
ASSUME PicturesAssumption ==
    \A p \in Pictures :
        p \in Seq(STRING) /\ \A j \in 1 .. Len(p) - 1 : <<p[j], p[j + 1]>> # <<"-", "b">>

VARIABLES conn, wire, net, ext, ready, streamed, pub, breaks, cuts, refused,
          frame, thread, files, counter, clock, takes, fails, clash, roused, spared, recorded,
          db, waiting, buf

Proxy    == INSTANCE MjpgProxy
Recorder == INSTANCE OutputFile

proxyVars == <<conn, wire, net, ext, ready, streamed, pub, breaks, cuts, refused>>
fileVars  == <<frame, thread, files, counter, clock, takes, fails, clash, roused, spared, recorded>>
vars      == <<proxyVars, fileVars, db, waiting, buf>>

\* input_run has allocated the buffer, no frame is in it.
Init ==
    /\ Proxy!Init /\ Recorder!Init
    /\ db = "free" /\ waiting = {} /\ buf = [n |-> 0, size |-> 0]

\* The process is there, and has not written where it must not.
Running ==
    /\ conn \notin {"crash", "killed"} /\ ext.part # "OVERRUN"
    /\ \A t \in Recorder!Thread : thread[t].at # "crash"

Next ==
    /\ Running
    /\ \/ Proxy!Next /\ UNCHANGED fileVars
       \/ Recorder!Next /\ UNCHANGED proxyVars

\* The threads run; the mutex is free again and again for who wants it; the
\* remote refuses MaxRefused times at most and then accepts.
Fairness ==
    /\ WF_vars(Proxy!worker_thread /\ UNCHANGED fileVars)
    /\ SF_vars(Proxy!Publish /\ UNCHANGED fileVars)
    /\ SF_vars(Recorder!worker_thread /\ UNCHANGED proxyVars)
    /\ WF_vars(Recorder!Writes("take") /\ UNCHANGED proxyVars)

Spec == Init /\ [][Next]_vars /\ Fairness

-----------------------------------------------------------------------------
(* Properties.                                                             *)

TypeOK == Proxy!TypeOK /\ Recorder!TypeOK

ExtractsPictures == Proxy!ExtractsPictures
RingIsBounded    == Recorder!RingIsBounded
RingKeepsNewest  == Recorder!RingKeepsNewest
RecordsWhole     == Recorder!RecordsWhole
RecordsFresh     == Recorder!RecordsFresh

\* Every picture streamed on a connection that holds is published, whatever
\* the recorder does with the mutex, as long as the process is there.
PictureArrives ==
    \A k \in 1 .. MaxSent :
        (conn = "up" /\ Len(streamed) = k) ~> (conn # "up" \/ Len(pub) > k \/ ~Running)

\* A connection that ends is made anew, however often the remote refuses before
\* it accepts, unless the process is gone.
Reconnects == conn = "over" ~> (conn = "up" \/ ~Running)
=============================================================================
