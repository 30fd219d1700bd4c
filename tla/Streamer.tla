------------------------------ MODULE Streamer ------------------------------
(***************************************************************************)
(* mjpg-streamer as start.sh runs it: the core (mjpg_streamer.c), one      *)
(* camera (input_uvc.so with v4l2uvc.c) and one web server                 *)
(* (output_http.so).  Its threads are main with the SIGINT handler, the    *)
(* camera thread, the server thread and one detached thread per HTTP       *)
(* client; they share in[0].buf under the mutex db and the condition       *)
(* db_update, global.stop without a lock, and the state of the video       *)
(* device without a lock.                                                  *)
(*                                                                         *)
(* A picture is a value; a copy of one takes two steps, one per half, so   *)
(* that a copy that overlaps another shows.  Undefined behaviour of the C  *)
(* code (reading freed memory, destroying a condition with waiters) is a   *)
(* choice over what builds do.                                             *)
(***************************************************************************)
EXTENDS Naturals, FiniteSets

CONSTANTS
    Clients,   \* connections the server can have at a time
    Asks,      \* what each of them may ask for
    Pictures,  \* what the camera sees
    Cut,       \* the beginning of an old picture (see Grab)
    NoFrame, Junk,
    NB_BUFFER, \* buffers shared with the driver
    minimum_size,   \* TRUE: option -m drops empty frames
    soft_framedrop  \* TRUE: frames that come too fast are dropped

Frames == Pictures \cup {Cut}

ASSUME ValueAssumption == NoFrame \notin Frames
ASSUME ClientAssumption == Clients \cap {"free", "camera", "destroyed"} = {}
ASSUME AskAssumption == Asks \in [Clients -> SUBSET {"stream", "snapshot", "resolution"}]
ASSUME BufferAssumption == NB_BUFFER \in Nat \ {0}
ASSUME OptionAssumption == minimum_size \in BOOLEAN /\ soft_framedrop \in BOOLEAN

VARIABLES
    status,   \* "running", or how the process ended
    main,     \* where main and the signal handler are
    stop,     \* global.stop
    server,   \* the thread that accepts connections
    db,       \* who holds the mutex; "destroyed" after its end
    buf,      \* in[0].buf in two halves, and whether it was given back
    cam,      \* where the camera thread is
    cancelled,\* pthread_cancel was called on the camera thread
    grabbed,  \* what the last uvcGrab leaves to be published
    dev,      \* struct vdIn and the driver behind it
    pc,       \* where each client thread is
    want,     \* what each client asked for
    copy,     \* the client's local frame, in two halves
    \* history
    ticket,   \* whether the client waits for a frame, or may copy one
    hit       \* a resolution command began while the camera thread was in uvcGrab

camVars == <<cam, grabbed>>
cliVars == <<pc, want, copy>>
procs   == <<status, main, stop, server, cancelled>>
vars    == <<procs, db, buf, camVars, dev, cliVars, ticket, hit>>

Content  == Frames \cup {NoFrame}
Whole(f) == [head |-> f, tail |-> f]

Waiters == {c \in Clients : pc[c] = "wait"}

Init ==
    /\ status = "running" /\ main = "open input" /\ stop = FALSE
    /\ server = "none" /\ db = "free" /\ cancelled = FALSE
    /\ buf = [head |-> NoFrame, tail |-> NoFrame, freed |-> FALSE]
    /\ cam = "none" /\ grabbed = NoFrame
    /\ dev = [state |-> "OFF", streaming |-> FALSE, queued |-> 0, mapped |-> FALSE, present |-> TRUE]
    /\ pc = [c \in Clients |-> "none"] /\ want = [c \in Clients |-> "none"]
    /\ copy = [c \in Clients |-> Whole(NoFrame)]
    /\ ticket = [c \in Clients |-> "none"] /\ hit = FALSE

-----------------------------------------------------------------------------
(* The device.                                                             *)

\* init_v4l2: opens the device, sets the format, maps and queues all buffers.
Opened(d) == [d EXCEPT !.mapped = TRUE, !.queued = NB_BUFFER, !.streaming = FALSE]

\* The camera is unplugged: every later ioctl fails.
Unplug ==
    /\ status = "running" /\ dev.present
    /\ dev' = [dev EXCEPT !.present = FALSE]
    /\ UNCHANGED <<procs, db, buf, camVars, cliVars, ticket, hit>>

-----------------------------------------------------------------------------
(* main: open the plugins, run them, wait for a signal.                    *)

\* A call that main or the server thread does not go on without has failed:
\* exit(EXIT_FAILURE), or exit(0) after input_init.
CallFails == status' = "call failed"

\* dlopen, dlsym, pthread_mutex_init and malloc may fail, init_videoIn fails
\* without a camera.
OpenInput ==
    /\ status = "running" /\ main = "open input"
    /\ \/ dev.present /\ dev' = Opened(dev) /\ main' = "open output" /\ UNCHANGED status
       \/ ~dev.present /\ status' = "exit 1" /\ UNCHANGED <<dev, main>>
       \/ CallFails /\ UNCHANGED <<dev, main>>
    /\ UNCHANGED <<stop, server, cancelled, db, buf, camVars, cliVars, ticket, hit>>

OpenOutput ==
    /\ status = "running" /\ main = "open output"
    /\ \/ main' = "run" /\ UNCHANGED status
       \/ CallFails /\ UNCHANGED main
    /\ UNCHANGED <<stop, server, cancelled, db, buf, camVars, dev, cliVars, ticket, hit>>

\* input_run allocates the buffer and starts the camera thread, output_run
\* starts the server thread.
RunPlugins ==
    /\ status = "running" /\ main = "run"
    /\ \/ cam = "none" /\ cam' = "top" /\ UNCHANGED <<status, server, main>>
       \/ cam = "none" /\ CallFails /\ UNCHANGED <<cam, server, main>>
       \/ cam # "none" /\ server' = "select" /\ main' = "pause" /\ UNCHANGED <<status, cam>>
    /\ UNCHANGED <<stop, cancelled, db, buf, grabbed, dev, cliVars, ticket, hit>>

-----------------------------------------------------------------------------
(* signal_handler.                                                         *)

Signal ==
    /\ status = "running" /\ main = "pause"
    /\ stop' = TRUE /\ main' = "stop inputs"
    /\ UNCHANGED <<status, server, cancelled, db, buf, camVars, dev, cliVars, ticket, hit>>

\* Mutant: the handler waits for the camera thread instead of cancelling it.
StopInputsJoins ==
    /\ status = "running" /\ main = "stop inputs" /\ cam = "gone"
    /\ cancelled' = TRUE /\ main' = "stop outputs"
    /\ UNCHANGED <<status, stop, server, db, buf, camVars, dev, cliVars, ticket, hit>>

StopInputs ==
    /\ status = "running" /\ main = "stop inputs"
    /\ cancelled' = TRUE /\ main' = "stop outputs"
    /\ UNCHANGED <<status, stop, server, db, buf, camVars, dev, cliVars, ticket, hit>>

\* output_stop cancels the server thread, no client.  pthread_cond_destroy
\* with waiters is undefined: it returns (EBUSY) or waits until they are gone.
StopOutputs ==
    /\ status = "running" /\ main = "stop outputs"
    /\ server' = "gone"
    /\ \/ main' = "close" /\ db' = IF db = "free" THEN "destroyed" ELSE db
       \/ Waiters # {} /\ main' = "hung" /\ UNCHANGED db
    /\ UNCHANGED <<status, stop, cancelled, buf, camVars, dev, cliVars, ticket, hit>>

DestroyReturns ==
    /\ status = "running" /\ main = "hung" /\ Waiters = {}
    /\ main' = "close" /\ db' = IF db = "free" THEN "destroyed" ELSE db
    /\ UNCHANGED <<status, stop, server, cancelled, buf, camVars, dev, cliVars, ticket, hit>>

\* dlclose takes the code away from the threads that still run it.
CloseHandles ==
    /\ status = "running" /\ main = "close"
    /\ \/ status' = "exit 0"
       \/ (cam # "gone" \/ \E c \in Clients : pc[c] # "none") /\ status' = "signal"
    /\ UNCHANGED <<main, stop, server, cancelled, db, buf, camVars, dev, cliVars, ticket, hit>>

-----------------------------------------------------------------------------
(* The mutex.  Once it is destroyed, locking returns at once (EINVAL).     *)

Lock(t) ==
    \/ db = "free" /\ db' = t
    \/ db = "destroyed" /\ UNCHANGED db

Unlock == db' = IF db = "destroyed" THEN db ELSE "free"

-----------------------------------------------------------------------------
(* cam_thread.                                                             *)

Cam(from, to) ==
    /\ status = "running" /\ cam = from /\ cam' = to
    /\ UNCHANGED <<main, stop, server, cancelled, cliVars>>

Exit1 == status' = "exit 1"

\* while(!pglobal->stop)
CamTop ==
    /\ Cam("top", IF stop THEN "close" ELSE "paused") /\ hit' = FALSE
    /\ UNCHANGED <<status, db, buf, grabbed, dev, ticket>>

\* Mutant: the camera thread does not mind that the device is paused.
CamPausedNot ==
    /\ Cam("paused", "enable")
    /\ UNCHANGED <<status, db, buf, grabbed, dev, ticket, hit>>

\* The inner loop does not look at stop; it is left when the device runs
\* again, or at usleep when the thread was cancelled.
CamPaused ==
    /\ \/ dev.state # "PAUSED" /\ Cam("paused", "enable")
       \/ dev.state = "PAUSED" /\ cancelled /\ Cam("paused", "close")
    /\ UNCHANGED <<status, db, buf, grabbed, dev, ticket, hit>>

\* uvcGrab begins: the stream is switched on by the first grab.
CamEnable ==
    /\ Cam("enable", "dequeue")
    /\ \/ dev.state # "OFF" /\ UNCHANGED <<status, dev>>
       \/ /\ dev.state = "OFF" /\ dev.present
          /\ dev' = [dev EXCEPT !.state = "ON", !.streaming = TRUE]
          /\ UNCHANGED status
       \/ dev.state = "OFF" /\ ~dev.present /\ Exit1 /\ UNCHANGED dev
    /\ UNCHANGED <<db, buf, grabbed, ticket, hit>>

CanStream == dev.present /\ dev.mapped /\ dev.streaming

\* VIDIOC_DQBUF waits for a filled buffer, and fails when nothing streams.
Grab ==
    /\ \E p \in Pictures : grabbed' = p
    /\ CanStream /\ dev.queued > 0
    /\ dev' = [dev EXCEPT !.queued = @ - 1]
    /\ Cam("dequeue", "fill")
    /\ UNCHANGED <<status, db, buf, ticket, hit>>

\* An empty buffer is ignored: uvcGrab returns 0 and does not give the buffer
\* back to the driver.  tmpbuffer still holds the previous picture, of which
\* bytesused letters are published, unless minimum_size drops them.
GrabEmpty ==
    /\ CanStream /\ dev.queued > 0
    /\ dev' = [dev EXCEPT !.queued = @ - 1]
    /\ IF minimum_size THEN Cam("dequeue", "top") /\ UNCHANGED grabbed
                       ELSE Cam("dequeue", "keep") /\ grabbed' = Cut
    /\ UNCHANGED <<status, db, buf, ticket, hit>>

GrabFails ==
    /\ ~CanStream /\ Cam("dequeue", "dequeue") /\ Exit1
    /\ UNCHANGED <<db, buf, grabbed, dev, ticket, hit>>

\* memcpy from the mapped buffer: setResolution may have unmapped it.
Fill ==
    /\ Cam("fill", "requeue")
    /\ IF dev.mapped THEN UNCHANGED status ELSE status' = "signal"
    /\ UNCHANGED <<db, buf, grabbed, dev, ticket, hit>>

\* Mutant: a buffer is given back whatever the driver has.
CanRequeueAlways == dev.present /\ dev.mapped

\* VIDIOC_QBUF fails on a device that was closed or opened anew.
CanRequeue == dev.present /\ dev.mapped /\ dev.queued < NB_BUFFER

Requeue ==
    /\ CanRequeue /\ Cam("requeue", "keep")
    /\ dev' = [dev EXCEPT !.queued = @ + 1]
    /\ UNCHANGED <<status, db, buf, grabbed, ticket, hit>>

RequeueFails ==
    /\ ~CanRequeue /\ Cam("requeue", "requeue") /\ Exit1
    /\ UNCHANGED <<db, buf, grabbed, dev, ticket, hit>>

\* The frame came sooner than frame_period_time after the last.
Drop ==
    /\ soft_framedrop /\ Cam("keep", "top") /\ grabbed' = NoFrame
    /\ UNCHANGED <<status, db, buf, dev, ticket, hit>>

Keep ==
    /\ Cam("keep", "lock")
    /\ UNCHANGED <<status, db, buf, grabbed, dev, ticket, hit>>

\* Mutant: the camera thread writes without the mutex.
CamLockNot ==
    /\ Cam("lock", "write 1") /\ UNCHANGED db
    /\ UNCHANGED <<status, buf, grabbed, dev, ticket, hit>>

CamLock ==
    /\ Cam("lock", "write 1") /\ Lock("camera")
    /\ UNCHANGED <<status, buf, grabbed, dev, ticket, hit>>

Write1 ==
    /\ Cam("write 1", "write 2") /\ buf' = [buf EXCEPT !.head = grabbed]
    /\ UNCHANGED <<status, db, grabbed, dev, ticket, hit>>

\* Mutant: pthread_cond_signal, which wakes one client.
Write2Signals ==
    /\ status = "running" /\ cam = "write 2" /\ cam' = "top"
    /\ buf' = [buf EXCEPT !.tail = grabbed] /\ grabbed' = NoFrame
    /\ ticket' = [c \in Clients |-> IF ticket[c] = "asked" THEN "ready" ELSE ticket[c]]
    /\ \/ Waiters = {} /\ UNCHANGED pc
       \/ \E c \in Waiters : pc' = [pc EXCEPT ![c] = "woken"]
    /\ Unlock
    /\ UNCHANGED <<procs, dev, want, copy, hit>>

\* ... then pthread_cond_broadcast and pthread_mutex_unlock.
Write2 ==
    /\ status = "running" /\ cam = "write 2" /\ cam' = "top"
    /\ buf' = [buf EXCEPT !.tail = grabbed] /\ grabbed' = NoFrame
    /\ ticket' = [c \in Clients |-> IF ticket[c] = "asked" THEN "ready" ELSE ticket[c]]
    /\ pc' = [c \in Clients |-> IF pc[c] = "wait" THEN "woken" ELSE pc[c]]
    /\ Unlock
    /\ UNCHANGED <<procs, dev, want, copy, hit>>

\* cam_cleanup: close_v4l2, then the buffer is freed, without the mutex.
CamClose ==
    /\ Cam("close", "free")
    /\ dev' = IF dev.present /\ dev.state = "ON"
              THEN [dev EXCEPT !.state = "OFF", !.streaming = FALSE, !.queued = 0] ELSE dev
    /\ UNCHANGED <<status, db, buf, grabbed, ticket, hit>>

CamFree ==
    /\ Cam("free", "gone") /\ buf' = [buf EXCEPT !.freed = TRUE]
    /\ UNCHANGED <<status, db, grabbed, dev, ticket, hit>>

Camera ==
    \/ CamTop \/ CamPaused \/ CamEnable \/ Grab \/ GrabEmpty \/ GrabFails \/ Fill
    \/ Requeue \/ RequeueFails \/ Keep \/ Drop \/ CamLock \/ Write1 \/ Write2 \/ CamClose \/ CamFree

-----------------------------------------------------------------------------
(* server_thread, client_thread, send_stream and send_snapshot.            *)

Client(c, from, to) ==
    /\ status = "running" /\ pc[c] = from /\ pc' = [pc EXCEPT ![c] = to]
    /\ UNCHANGED <<main, stop, cancelled, camVars>>

Resolving == {"pause", "streamoff", "unmap", "reopen", "streamon"}

\* The server thread finds no port to listen at, no memory for the next
\* connection, or select fails.
ServerFails ==
    /\ status = "running" /\ server = "select" /\ CallFails
    /\ UNCHANGED <<main, stop, server, cancelled, db, buf, camVars, dev, cliVars, ticket, hit>>

\* The server accepts a connection and starts a thread, which reads the
\* request.  It looks at stop only after a connection came.  Two resolution
\* commands at a time are left out.
Connect(c) ==
    /\ server = "select" /\ server' = IF stop THEN "gone" ELSE server
    /\ \E w \in Asks[c] \ {"resolution"} : Client(c, "none", "lock") /\ want' = [want EXCEPT ![c] = w]
    /\ UNCHANGED <<status, db, buf, dev, copy, ticket, hit>>

ConnectResolution(c) ==
    /\ server = "select" /\ server' = IF stop THEN "gone" ELSE server
    /\ "resolution" \in Asks[c] /\ \A d \in Clients : pc[d] \notin Resolving
    /\ Client(c, "none", "pause") /\ want' = [want EXCEPT ![c] = "resolution"]
    /\ UNCHANGED <<status, db, buf, dev, copy, ticket, hit>>

\* pthread_mutex_lock and pthread_cond_wait, which unlocks while it waits and
\* fails at once when the mutex is destroyed.
Wait(c) ==
    /\ \/ db = "free" /\ Client(c, "lock", "wait")
       \/ db = "destroyed" /\ Client(c, "lock", "woken")
    /\ ticket' = IF db = "free" THEN [ticket EXCEPT ![c] = "asked"] ELSE ticket
    /\ UNCHANGED <<status, server, db, buf, dev, want, copy, hit>>

\* pthread_cond_wait may return without a broadcast.
SpuriousWakeup(c) ==
    /\ Client(c, "wait", "woken") /\ ticket' = [ticket EXCEPT ![c] = "ready"]
    /\ UNCHANGED <<status, server, db, buf, dev, want, copy, hit>>

Relock(c) ==
    /\ Client(c, "woken", "copy 1") /\ Lock(c)
    /\ UNCHANGED <<status, server, buf, dev, want, copy, ticket, hit>>

\* realloc fails: the client is answered 500.
NoMemory(c) ==
    /\ Client(c, "copy 1", "none") /\ Unlock
    /\ want' = [want EXCEPT ![c] = "none"] /\ ticket' = [ticket EXCEPT ![c] = "none"]
    /\ UNCHANGED <<status, server, buf, dev, copy, hit>>

\* What reading one half of the buffer yields: anything, if it was freed.
Readable(half) == IF buf.freed THEN {Junk} ELSE {half}

Copy1(c) ==
    /\ Client(c, "copy 1", "copy 2")
    /\ \E f \in Readable(buf.head) : copy' = [copy EXCEPT ![c].head = f]
    /\ status' \in {status} \cup IF buf.freed THEN {"signal"} ELSE {}
    /\ UNCHANGED <<server, db, buf, dev, want, ticket, hit>>

\* ... and pthread_mutex_unlock.
Copy2(c) ==
    /\ Client(c, "copy 2", "send")
    /\ \E f \in Readable(buf.tail) : copy' = [copy EXCEPT ![c].tail = f]
    /\ status' \in {status} \cup IF buf.freed THEN {"signal"} ELSE {}
    /\ ticket' = [ticket EXCEPT ![c] = "none"] /\ Unlock
    /\ UNCHANGED <<server, buf, dev, want, hit>>

\* The frame was written to the socket: a stream goes on unless stop is set.
Send(c) ==
    /\ IF want[c] = "stream" /\ ~stop
       THEN Client(c, "send", "lock") /\ UNCHANGED want
       ELSE Client(c, "send", "none") /\ want' = [want EXCEPT ![c] = "none"]
    /\ copy' = [copy EXCEPT ![c] = Whole(NoFrame)]
    /\ UNCHANGED <<status, server, db, buf, dev, ticket, hit>>

\* The client is gone.
SendFails(c) ==
    /\ Client(c, "send", "none") /\ want' = [want EXCEPT ![c] = "none"]
    /\ copy' = [copy EXCEPT ![c] = Whole(NoFrame)]
    /\ UNCHANGED <<status, server, db, buf, dev, ticket, hit>>

-----------------------------------------------------------------------------
(* command, input_cmd and setResolution: the camera thread is not asked.   *)

InGrab == {"enable", "dequeue", "fill", "requeue"}

Resolve(c, from, to) ==
    /\ ~buf.freed /\ Client(c, from, to)
    /\ want' = IF to = "none" THEN [want EXCEPT ![c] = "none"] ELSE want
    /\ hit' = (hit \/ (from = "pause" /\ cam \in InGrab))
    /\ UNCHANGED <<status, server, db, buf, copy, ticket>>

Pause(c) ==
    Resolve(c, "pause", "streamoff") /\ dev' = [dev EXCEPT !.state = "PAUSED"]

\* video_disable; when it fails, the state remains PAUSED.
StreamOff(c) ==
    \/ /\ dev.present /\ Resolve(c, "streamoff", "unmap")
       /\ dev' = [dev EXCEPT !.state = "PAUSED", !.streaming = FALSE, !.queued = 0]
    \/ ~dev.present /\ Resolve(c, "streamoff", "none") /\ UNCHANGED dev

Unmap(c) ==
    Resolve(c, "unmap", "reopen") /\ dev' = [dev EXCEPT !.mapped = FALSE]

Reopen(c) ==
    \/ dev.present /\ Resolve(c, "reopen", "streamon") /\ dev' = Opened(dev)
    \/ ~dev.present /\ Resolve(c, "reopen", "none") /\ UNCHANGED dev

\* The result of video_enable is not looked at.
StreamOn(c) ==
    /\ Resolve(c, "streamon", "none")
    /\ dev' = IF dev.present THEN [dev EXCEPT !.state = "ON", !.streaming = TRUE] ELSE dev

\* The camera thread has freed the struct vdIn the command works on.
ResolveFreed(c) ==
    /\ buf.freed /\ pc[c] \in Resolving /\ Client(c, pc[c], "none")
    /\ want' = [want EXCEPT ![c] = "none"] /\ status' \in {status, "signal"}
    /\ UNCHANGED <<server, db, buf, dev, copy, ticket, hit>>

Http(c) ==
    \/ Wait(c) \/ Relock(c) \/ NoMemory(c) \/ Copy1(c) \/ Copy2(c)
    \/ Pause(c) \/ StreamOff(c) \/ Unmap(c) \/ Reopen(c) \/ StreamOn(c) \/ ResolveFreed(c)

Main == OpenInput \/ OpenOutput \/ RunPlugins \/ StopInputs \/ StopOutputs \/ DestroyReturns \/ CloseHandles

Next ==
    \/ Main \/ Signal \/ Unplug \/ ServerFails \/ Camera
    \/ \E c \in Clients : \/ Connect(c) \/ ConnectResolution(c) \/ SpuriousWakeup(c)
                          \/ Send(c) \/ SendFails(c) \/ Http(c)

Spec == Init /\ [][Next]_vars

(***************************************************************************)
(* Every thread runs on, whatever the others do.  The mutex is free most   *)
(* of the time between two frames, so that whoever asks again and again    *)
(* gets it; a running device fills its buffers, and among them are         *)
(* pictures that are not dropped.  Nothing is assumed of the network (Send *)
(* may never come), of SIGINT or of who connects.                          *)
(***************************************************************************)
Fairness ==
    /\ WF_vars(Main) /\ SF_vars(Camera) /\ SF_vars(Grab) /\ SF_vars(Keep)
    /\ \A c \in Clients : SF_vars(Http(c))

FairSpec == Spec /\ Fairness

-----------------------------------------------------------------------------
(* Properties.                                                             *)

MainPlace == {"open input", "open output", "run", "pause", "stop inputs", "stop outputs", "close", "hung"}
CamPlace  == {"none", "top", "paused", "enable", "dequeue", "fill", "requeue", "keep", "lock",
              "write 1", "write 2", "close", "free", "gone"}
Place     == Resolving \cup {"none", "lock", "wait", "woken", "copy 1", "copy 2", "send"}
Buffer    == [head : Content, tail : Content, freed : BOOLEAN]
Device    == [state : {"OFF", "ON", "PAUSED"}, streaming : BOOLEAN, queued : 0 .. NB_BUFFER,
              mapped : BOOLEAN, present : BOOLEAN]
Halves    == [head : Content \cup {Junk}, tail : Content \cup {Junk}]

TypeOK ==
    /\ status \in {"running", "exit 0", "exit 1", "signal", "call failed"} /\ main \in MainPlace
    /\ stop \in BOOLEAN /\ cancelled \in BOOLEAN /\ hit \in BOOLEAN
    /\ server \in {"none", "select", "gone"}
    /\ db \in {"free", "camera", "destroyed"} \cup Clients
    /\ buf \in Buffer /\ dev \in Device
    /\ cam \in CamPlace /\ grabbed \in Content
    /\ pc \in [Clients -> Place] /\ copy \in [Clients -> Halves]
    /\ want \in [Clients -> {"none", "stream", "snapshot", "resolution"}]
    /\ ticket \in [Clients -> {"none", "asked", "ready"}]

\* The buffer under its mutex keeps what FrameBuffer tickets: what a client
\* sends is one whole frame, the newest when it was copied, published after
\* the client began to wait ("wait for a fresh frame") unless it was roused
\* for nothing; a shutdown alone may break this.
FB == INSTANCE FrameBuffer WITH
          latest <- buf.tail,
          got    <- [c \in Clients |-> IF pc[c] = "send" THEN copy[c] ELSE Whole(NoFrame)],
          ending <- stop
Promise == FB!Spec

\* A process that was not told to stop ends only because a call of the start-up
\* or of the server thread failed, because the camera is gone, or because a
\* resolution command took the device from under a running uvcGrab: one that
\* begins anywhere else in the camera thread's round is harmless.
EndsForAReason ==
    [][status = "running" /\ status' \notin {"running", "call failed"}
         => stop \/ ~dev.present \/ hit]_vars

\* The comment on setResolution says how it sets the resolution: turn off the
\* stream, unmap, close, initialize again.  With a camera that is there and no
\* SIGINT that should not end the process.
ResolutionIsSet == status \in {"exit 1", "signal"} => stop \/ ~dev.present

\* All buffers were lost to empty frames: the camera thread waits for ever.
Starved == dev.streaming /\ dev.queued = 0 /\ cam = "dequeue"

\* A client that waits for a frame gets one, however slow the other clients
\* read, as long as the device runs and has buffers.
WaiterIsServed ==
    \A c \in Clients :
        pc[c] \in {"lock", "wait", "woken"} ~>
            \/ pc[c] \in {"send", "none"} \/ status # "running" \/ stop
            \/ Starved \/ dev.state = "PAUSED"

\* SIGINT ends the process, unless destroying the condition hangs on a client
\* that waits for a frame that will not come.
ShutdownEnds ==
    stop ~> (status # "running" \/ (main = "hung" /\ Waiters # {}))
=============================================================================
