----------------------------- MODULE OutputFile -----------------------------
(***************************************************************************)
(* The file output plugin of mjpg-streamer (output_file.c).  Its worker    *)
(* waits for a frame, copies it under the mutex to the static buffer       *)
(* frame, writes that to a file named by time and counter, and keeps a     *)
(* ring of files.  The command TAKE, run by a thread of the HTTP plugin,   *)
(* copies the current frame to the same static buffer and writes it to a   *)
(* file of its own.  A frame is its number (0: none yet); a copy of it has *)
(* two halves.  Option -m (one MJPG file for all) and the shutdown (see    *)
(* Streamer) are left out.                                                 *)
(***************************************************************************)
EXTENDS Integers, FiniteSets

CONSTANTS
    ringbuffer_size, ringbuffer_exceed,
    HEADROOM,   \* by how much the static buffer is larger than the frame it grew for
    OldFiles,   \* names of the files an earlier run has left
    MaxTakes,   \* bound: TAKE commands
    MaxClock,   \* bound: the seconds that pass
    MaxFails    \* bound: calls that fail, and wake-ups without a broadcast

VARIABLES
    db, waiting, buf,  \* shared with the input plugin: see MjpgProxy
    frame,     \* the static buffer in two halves, the size of its block (0: NULL),
               \* and max_frame_size (room)
    thread,    \* per thread: where it is, the frame it copied, the half written
    files,     \* the directory: names by time and counter
    counter, clock, takes, fails,
    \* history
    clash,     \* threads whose copy is not safe: the other has copied into it, or
               \* it reaches beyond the block
    roused,    \* the worker was woken without a broadcast
    spared,    \* files the last maintenance of the ring failed to delete
    recorded   \* per thread: what it wrote to its last file, and the frame before

shared   == <<db, waiting, buf>>
bounds   == <<clock, takes, fails>>
ring     == <<files, spared, counter, recorded>>
history  == <<clash, roused>>
fileVars == <<frame, thread, bounds, ring, history>>

Thread   == {"worker", "take"}
Other(t) == IF t = "worker" THEN "take" ELSE "worker"

Init ==
    /\ frame = [head |-> 0, tail |-> 0, room |-> 0, block |-> 0]
    /\ thread = [t \in Thread |-> [at |-> IF t = "worker" THEN "lock" ELSE "none",
                                   n |-> 0, half |-> 0]]
    /\ files = OldFiles /\ counter = 0 /\ recorded = [t \in Thread |-> [n |-> 0, head |-> 0, tail |-> 0, whole |-> TRUE, before |-> -1]]
    /\ clock = 1 /\ takes = 0 /\ fails = 0
    /\ clash = {} /\ roused = FALSE /\ spared = {}

At(t)             == thread[t].at
Goes(t, from, to) == At(t) = from /\ thread' = [thread EXCEPT ![t].at = to]
Ends(t)           == thread' = [thread EXCEPT ![t].at = IF t = "worker" THEN "dead" ELSE "none"]
Writing           == {"write 1", "write 2"}
Fails             == fails < MaxFails /\ fails' = fails + 1 /\ UNCHANGED <<clock, takes>>

-----------------------------------------------------------------------------
Second ==
    /\ clock < MaxClock /\ clock' = clock + 1
    /\ UNCHANGED <<shared, frame, thread, takes, fails, ring, history>>

\* pthread_mutex_lock and pthread_cond_wait
Wait ==
    /\ db = "free" /\ Goes("worker", "lock", "wait") /\ waiting' = waiting \cup {"worker"}
    /\ UNCHANGED <<db, buf, frame, bounds, ring, history>>

\* pthread_cond_wait may return without a broadcast.
SpuriousWakeup ==
    /\ "worker" \in waiting /\ waiting' = waiting \ {"worker"} /\ Fails /\ roused' = TRUE
    /\ UNCHANGED <<db, buf, frame, thread, ring, clash>>

\* max_frame_size, and the block that realloc makes of that size.
TooSmall == buf.size > frame.room
Room     == IF TooSmall THEN buf.size + HEADROOM ELSE frame.room
Block    == IF TooSmall THEN Room ELSE frame.block

\* Whose copy is overwritten by a copy of thread t.
Overwritten(t) == {u \in {Other(t)} : At(u) \in Writing}

\* Mutant: the mutex is given back before the copy is complete.
CopiesFree(t) ==
    /\ buf.size <= Block
    /\ db' = "free" /\ frame' = [frame EXCEPT !.head = buf.n, !.room = Room, !.block = Block]
    /\ thread' = [thread EXCEPT ![t].at = "copy", ![t].n = buf.n]
    /\ clash' = (clash \ {t}) \cup Overwritten(t)

\* Thread t has the mutex and copies the first half.  If the frame is larger
\* than any before, realloc may move the block another thread writes from.
Copies(t) ==
    /\ buf.size <= Block
    /\ db' = t /\ frame' = [frame EXCEPT !.head = buf.n, !.room = Room, !.block = Block]
    /\ thread' = [thread EXCEPT ![t].at = "copy", ![t].n = buf.n]
    /\ clash' = (clash \ {t}) \cup Overwritten(t)

\* max_frame_size was raised for a realloc that failed: memcpy goes beyond the
\* block, and the process is gone or goes on; without a block it is gone.
Overruns(t) ==
    /\ buf.size > Block
    /\ \/ thread' = [thread EXCEPT ![t].at = "crash"] /\ UNCHANGED <<db, frame, clash>>
       \/ /\ frame.block > 0
          /\ db' = t /\ frame' = [frame EXCEPT !.head = buf.n]
          /\ thread' = [thread EXCEPT ![t].at = "copy", ![t].n = buf.n]
          /\ clash' = clash \cup {t} \cup Overwritten(t)

\* The frame is copied to the static buffer.
CopyFrame(t) == Copies(t) \/ Overruns(t)

\* Mutant: the worker does not wait for a fresh frame.
WakeEarly ==
    /\ At("worker") = "wait" /\ db = "free" /\ CopyFrame("worker")
    /\ waiting' = {} /\ UNCHANGED <<buf, bounds, ring, roused>>

\* pthread_cond_wait returns, with the mutex.
Wake ==
    /\ At("worker") = "wait" /\ "worker" \notin waiting /\ db = "free" /\ CopyFrame("worker")
    /\ UNCHANGED <<waiting, buf, bounds, ring, roused>>

\* OUT_FILE_CMD_TAKE: output_cmd takes the frame that is there.
Take ==
    /\ takes < MaxTakes /\ takes' = takes + 1
    /\ At("take") = "none" /\ db = "free" /\ CopyFrame("take")
    /\ UNCHANGED <<waiting, buf, clock, fails, ring, roused>>

\* realloc fails: the worker ends, the command is answered -1; max_frame_size
\* stays as it was raised before.
NoMemory(t) ==
    /\ db = "free" /\ TooSmall /\ Fails /\ Ends(t)
    /\ \/ t = "worker" /\ At(t) = "wait" /\ t \notin waiting
       \/ t = "take" /\ At(t) = "none"
    /\ frame' = [frame EXCEPT !.room = Room]
    /\ UNCHANGED <<shared, ring, history>>

\* The second half, and pthread_mutex_unlock.
Copied(t) ==
    /\ Goes(t, "copy", "write 1") /\ db' = "free"
    /\ frame' = [frame EXCEPT !.tail = buf.n]
    /\ UNCHANGED <<waiting, buf, bounds, ring, history>>

\* The worker's file is named by the time and the counter.
Created(t) ==
    IF t = "worker"
    THEN counter' = counter + 1 /\ files' = files \cup {<<clock, counter>>}
    ELSE UNCHANGED <<counter, files>>

\* Half of the frame is written to the file.
Write1(t) ==
    /\ At(t) = "write 1" /\ Created(t)
    /\ thread' = [thread EXCEPT ![t].at = "write 2", ![t].half = frame.head]
    /\ UNCHANGED <<shared, frame, bounds, spared, recorded, history>>

\* open or write fails: the worker ends, the command is answered -1.
FileFails(t) ==
    /\ At(t) = "write 1" /\ Fails /\ Ends(t)
    /\ Created(t) \/ UNCHANGED <<counter, files>>
    /\ UNCHANGED <<shared, frame, spared, recorded, history>>

\* Names as alphasort compares them.
Older(f, g) == f[1] < g[1] \/ (f[1] = g[1] /\ f[2] < g[2])

\* Mutant: sorted the other way, the newest files go.
Oldest(size) == {f \in files : Cardinality({g \in files : Older(g, f)}) < size}

\* The files that maintain_ringbuffer is to keep.
Newest(size) == {f \in files : Cardinality({g \in files : Older(f, g)}) < size}

\* Mutant: the ring is maintained one file late.
DueLate == ringbuffer_exceed = 0 \/ (counter > 1 /\ counter % (ringbuffer_exceed + 1) = 1)

\* maintain_ringbuffer runs after the first file and after every so many.
Due == ringbuffer_exceed = 0 \/ counter = 1 \/ counter % (ringbuffer_exceed + 1) = 0

\* maintain_ringbuffer.  A file that unlink fails to delete is left, all are if
\* scandir fails.
Maintain ==
    /\ \/ spared' = {} /\ UNCHANGED bounds
       \/ spared' \in SUBSET (files \ Newest(ringbuffer_size)) \ {{}} /\ Fails
    /\ files' = Newest(ringbuffer_size) \cup spared'

\* The rest is written and the file closed; the worker maintains the ring.
Write2(t) ==
    /\ Goes(t, "write 2", IF t = "worker" THEN "lock" ELSE "none")
    /\ recorded' = [recorded EXCEPT ![t] =
                      [n |-> thread[t].n, head |-> thread[t].half, tail |-> frame.tail,
                       whole |-> t \notin clash, before |-> @.n]]
    /\ IF t = "worker" /\ Due THEN Maintain ELSE UNCHANGED <<files, spared, bounds>>
    /\ UNCHANGED <<shared, frame, counter, history>>

Writes(t) == NoMemory(t) \/ Copied(t) \/ Write1(t) \/ FileFails(t) \/ Write2(t)

worker_thread == Wait \/ Wake \/ Writes("worker")

Next == worker_thread \/ Take \/ Writes("take") \/ SpuriousWakeup \/ Second

-----------------------------------------------------------------------------
(* Properties.                                                             *)

TypeOK ==
    /\ db \in {"free"} \cup Thread /\ waiting \subseteq {"worker"}
    /\ frame.head \in Nat /\ frame.tail \in Nat /\ frame.room \in Nat
    /\ frame.block \in 0 .. frame.room
    /\ \A t \in Thread : At(t) \in Writing \cup {"none", "lock", "wait", "copy", "dead", "crash"}
    /\ files \subseteq (0 .. MaxClock) \X Nat /\ counter \in Nat

\* Between two files the ring has at most as many files as it may, size and
\* what it may exceed it by, but for those that the last maintenance failed to
\* delete: the next one makes up for what one has failed to do.
RingIsBounded ==
    counter > 0 /\ At("worker") \notin Writing \cup {"dead"} =>
        Cardinality(files \ spared) <= ringbuffer_size + ringbuffer_exceed

\* The ring keeps the newest pictures: as long as the clock never goes back,
\* the last ringbuffer_size files that were opened are there.
RingKeepsNewest ==
    \A k \in 1 .. ringbuffer_size :
        k <= counter => \E f \in files : f[2] = counter - k /\ f \notin OldFiles

\* A file holds one whole frame, the one that was copied, unless the other
\* thread copied into the static buffer before it was written, or the copy went
\* beyond the block because a realloc had failed before.
RecordsWhole ==
    \A t \in Thread :
        LET r == recorded[t] IN r.whole => r.head = r.n /\ r.tail = r.n

\* The worker records frames in the order they were published, none twice and
\* none before the first, unless it was woken without a broadcast.
RecordsFresh ==
    ~roused => recorded["worker"].before < recorded["worker"].n
=============================================================================
