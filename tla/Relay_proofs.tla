---------------------------- MODULE Relay_proofs ----------------------------
(***************************************************************************)
(* Proofs about Relay: first the recorder, whose two threads copy frames   *)
(* to one static buffer, then the ring of files, then the extractor.       *)
(***************************************************************************)
EXTENDS Relay, FiniteSetTheorems, SequenceTheorems, NumberFacts, TLAPS

Thread  == Recorder!Thread
Writing == Recorder!Writing
At(t)   == Recorder!At(t)
shared  == <<db, waiting, buf>>

\* What the recorder sees of the input plugin: a new frame, and a broadcast.
Published ==
    /\ db = "free" /\ db' = db /\ waiting' = {}
    /\ buf' \in [n : Nat, size : Nat] /\ buf'.n = buf.n + 1

\* One step, as the recorder sees it.
Steps ==
    \/ Recorder!Next
    \/ Published /\ UNCHANGED fileVars
    \/ UNCHANGED <<shared, fileVars>>

-----------------------------------------------------------------------------
(* Types of the recorder's state.                                          *)

FileTyped ==
    /\ db \in {"free"} \cup Thread /\ waiting \subseteq {"worker"}
    /\ buf \in [n : Nat, size : Nat]
    /\ frame \in [head : Nat, tail : Nat, room : Nat, block : Nat] /\ frame.block <= frame.room
    /\ thread \in [Thread -> [at : Writing \cup {"none", "lock", "wait", "copy", "dead", "crash"},
                              n : Nat, half : Nat]]
    /\ recorded \in [Thread -> [n : Nat, head : Nat, tail : Nat, whole : BOOLEAN, before : Int]]
    /\ files \subseteq (0 .. MaxClock) \X Nat /\ IsFiniteSet(files)
    /\ counter \in Nat /\ clock \in 1 .. MaxClock
    /\ clash \subseteq Thread /\ roused \in BOOLEAN

LEMMA InitFileTyped == Recorder!Init /\ db = "free" /\ waiting = {} /\ buf = [n |-> 0, size |-> 0] => FileTyped
<1> SUFFICES ASSUME Recorder!Init, db = "free", waiting = {}, buf = [n |-> 0, size |-> 0] PROVE FileTyped
  OBVIOUS
<1> DEFINE W == [at |-> "lock", n |-> 0, half |-> 0]
           N == [at |-> "none", n |-> 0, half |-> 0]
           R == [n |-> 0, head |-> 0, tail |-> 0, whole |-> TRUE, before |-> -1]
<1>1. thread \in [Thread -> [at : Writing \cup {"none", "lock", "wait", "copy", "dead", "crash"}, n : Nat, half : Nat]]
  <2>1. \A t \in Thread : [at |-> IF t = "worker" THEN "lock" ELSE "none", n |-> 0, half |-> 0]
                            \in [at : Writing \cup {"none", "lock", "wait", "copy", "dead", "crash"}, n : Nat, half : Nat]
    OBVIOUS
  <2> QED BY <2>1 DEF Recorder!Init, Thread
<1>2. recorded \in [Thread -> [n : Nat, head : Nat, tail : Nat, whole : BOOLEAN, before : Int]]
  <2>1. 0 \in Nat /\ TRUE \in BOOLEAN /\ -1 \in Int
    OBVIOUS
  <2>2. R \in [n : Nat, head : Nat, tail : Nat, whole : BOOLEAN, before : Int]
    BY <2>1, Zenon
  <2>3. recorded = [t \in Thread |-> R]
    BY DEF Recorder!Init, Thread
  <2> QED BY <2>2, <2>3
<1>3. files \subseteq (0 .. MaxClock) \X Nat /\ IsFiniteSet(files) /\ clock \in 1 .. MaxClock
  BY OldAssumption, BoundsAssumption DEF Recorder!Init
<1>4. frame \in [head : Nat, tail : Nat, room : Nat, block : Nat] /\ frame.block <= frame.room
  BY DEF Recorder!Init
<1>5. buf \in [n : Nat, size : Nat]
  OBVIOUS
<1> QED BY <1>1, <1>2, <1>3, <1>4, <1>5 DEF FileTyped, Recorder!Init

LEMMA CopiesTyped ==
    ASSUME FileTyped, NEW t \in Thread, Recorder!CopyFrame(t),
           UNCHANGED <<buf, counter, files, recorded>>,
           clock' \in 1 .. MaxClock, waiting' \subseteq {"worker"}, roused' \in BOOLEAN
    PROVE  FileTyped'
<1> USE DEF Recorder!CopyFrame, Recorder!Copies, Recorder!Overruns
<1>1. db' \in {"free"} \cup Thread /\ clash' \subseteq Thread
  BY DEF FileTyped, Thread, Recorder!Thread, Recorder!Other, Recorder!Overwritten
<1>2. frame' \in [head : Nat, tail : Nat, room : Nat, block : Nat] /\ frame'.block <= frame'.room
  <2>1. /\ frame \in [head : Nat, tail : Nat, room : Nat, block : Nat] /\ frame.block <= frame.room
        /\ buf.n \in Nat /\ buf.size \in Nat
    BY DEF FileTyped
  <2>2. Recorder!Room \in Nat /\ Recorder!Block \in Nat /\ Recorder!Block <= Recorder!Room
    BY <2>1, BufferAssumption DEF Recorder!Room, Recorder!Block, Recorder!TooSmall
  <2>3. CASE frame' = frame
    BY <2>1, <2>3
  <2>4. CASE frame' = [frame EXCEPT !.head = buf.n, !.room = Recorder!Room, !.block = Recorder!Block]
    BY <2>1, <2>2, <2>4
  <2>5. CASE frame' = [frame EXCEPT !.head = buf.n]
    BY <2>1, <2>5
  <2> QED BY <2>3, <2>4, <2>5
<1> DEFINE P == Writing \cup {"none", "lock", "wait", "copy", "dead", "crash"}
<1>3. thread' \in [Thread -> [at : P, n : Nat, half : Nat]]
  <2>1. buf.n \in Nat /\ thread[t] \in [at : P, n : Nat, half : Nat] /\ thread \in [Thread -> [at : P, n : Nat, half : Nat]]
    BY DEF FileTyped
  <2>2. "copy" \in P /\ "crash" \in P
    OBVIOUS
  <2> HIDE DEF P
  <2>3. /\ [thread[t] EXCEPT !.at = "copy", !.n = buf.n] \in [at : P, n : Nat, half : Nat]
        /\ [thread[t] EXCEPT !.at = "crash"] \in [at : P, n : Nat, half : Nat]
    BY <2>1, <2>2
  <2>4. \/ thread' = [thread EXCEPT ![t] = [thread[t] EXCEPT !.at = "copy", !.n = buf.n]]
        \/ thread' = [thread EXCEPT ![t] = [thread[t] EXCEPT !.at = "crash"]]
    BY <2>1
  <2> QED BY <2>1, <2>3, <2>4
<1> QED BY <1>1, <1>2, <1>3 DEF FileTyped

LEMMA FileFieldTyped ==
    ASSUME FileTyped, NEW t \in Thread, NEW a \in Writing \cup {"none", "lock", "wait", "copy", "dead", "crash"}
    PROVE  /\ [thread EXCEPT ![t].at = a] \in
                 [Thread -> [at : Writing \cup {"none", "lock", "wait", "copy", "dead", "crash"}, n : Nat, half : Nat]]
           /\ [thread EXCEPT ![t].at = a, ![t].half = frame.head] \in
                 [Thread -> [at : Writing \cup {"none", "lock", "wait", "copy", "dead", "crash"}, n : Nat, half : Nat]]
<1> DEFINE A == Writing \cup {"none", "lock", "wait", "copy", "dead", "crash"}
           S == [at : A, n : Nat, half : Nat]
<1>1. thread \in [Thread -> S] /\ frame.head \in Nat
  BY DEF FileTyped
<1>2. thread[t] \in S /\ a \in A
  BY <1>1
<1> HIDE DEF A
<1>3. [thread[t] EXCEPT !.at = a] \in S
  BY <1>2
<1>4. [thread[t] EXCEPT !.at = a, !.half = frame.head] \in S
  BY <1>1, <1>2
<1>5. [thread EXCEPT ![t].at = a] = [thread EXCEPT ![t] = [thread[t] EXCEPT !.at = a]]
  BY <1>1
<1>6. [thread EXCEPT ![t].at = a, ![t].half = frame.head]
        = [thread EXCEPT ![t] = [thread[t] EXCEPT !.at = a, !.half = frame.head]]
  BY <1>1
<1> HIDE DEF S
<1>7. [thread EXCEPT ![t].at = a] \in [Thread -> S]
  BY <1>1, <1>3, <1>5
<1>8. [thread EXCEPT ![t].at = a, ![t].half = frame.head] \in [Thread -> S]
  BY <1>1, <1>4, <1>6
<1> QED BY <1>7, <1>8 DEF S, A

LEMMA CreatedTyped ==
    ASSUME FileTyped, NEW t \in Thread, Recorder!Created(t) \/ UNCHANGED <<counter, files>>
    PROVE  counter' \in Nat /\ files' \subseteq (0 .. MaxClock) \X Nat /\ IsFiniteSet(files')
<1>1. IsFiniteSet(files) /\ IsFiniteSet(files \cup {<<clock, counter>>})
  BY FS_AddElement DEF FileTyped
<1>2. clock \in 0 .. MaxClock /\ counter \in Nat /\ counter + 1 \in Nat
  BY BoundsAssumption DEF FileTyped
<1>3. {<<clock, counter>>} \subseteq (0 .. MaxClock) \X Nat
  BY <1>2
<1> QED BY <1>1, <1>2, <1>3 DEF FileTyped, Recorder!Created

LEMMA NewestTyped ==
    ASSUME FileTyped
    PROVE  /\ Recorder!Newest(ringbuffer_size) \subseteq (0 .. MaxClock) \X Nat
           /\ IsFiniteSet(Recorder!Newest(ringbuffer_size))
<1>1. Recorder!Newest(ringbuffer_size) \subseteq files
  BY DEF Recorder!Newest
<1> QED BY <1>1, FS_Subset DEF FileTyped

\* What the maintenance leaves: the newest files, and what it did not delete.
LEMMA Maintains ==
    ASSUME Recorder!Maintain
    PROVE  /\ files' = Recorder!Newest(ringbuffer_size) \cup spared' /\ spared' \subseteq files
           /\ Recorder!Newest(ringbuffer_size) \subseteq files /\ files' \subseteq files
           /\ files' \ spared' \subseteq Recorder!Newest(ringbuffer_size)
           /\ clock' = clock
BY DEF Recorder!Maintain, Recorder!Newest, Recorder!Fails, Recorder!bounds

LEMMA StepsFileTyped == FileTyped /\ Steps => FileTyped'
<1> SUFFICES ASSUME FileTyped, Steps PROVE FileTyped'
  OBVIOUS
<1> USE DEF shared, Recorder!shared, fileVars, Recorder!bounds, Recorder!ring, Recorder!history
<1>1. CASE Recorder!Second
  BY <1>1, BoundsAssumption DEF Recorder!Second, FileTyped
<1>2. CASE Recorder!Wait
  <2>1. "worker" \in Thread /\ "wait" \in Writing \cup {"none", "lock", "wait", "copy", "dead", "crash"}
    BY DEF Thread, Recorder!Thread
  <2>2. thread' \in [Thread -> [at : Writing \cup {"none", "lock", "wait", "copy", "dead", "crash"}, n : Nat, half : Nat]]
    BY <1>2, <2>1, FileFieldTyped DEF Recorder!Wait, Recorder!Goes
  <2> QED BY <1>2, <2>2 DEF Recorder!Wait, FileTyped
<1>3. CASE Recorder!SpuriousWakeup
  BY <1>3 DEF Recorder!SpuriousWakeup, Recorder!Fails, FileTyped
<1>4. CASE Recorder!Wake
  <2>1. "worker" \in Thread /\ Recorder!CopyFrame("worker") /\ UNCHANGED <<waiting, buf, counter, files, recorded, clock, roused>>
    BY <1>4 DEF Recorder!Wake, Thread, Recorder!Thread
  <2> QED BY <2>1, CopiesTyped DEF FileTyped
<1>5. CASE Recorder!Take
  <2>1. "take" \in Thread /\ Recorder!CopyFrame("take") /\ UNCHANGED <<waiting, buf, counter, files, recorded, clock, roused>>
    BY <1>5 DEF Recorder!Take, Thread, Recorder!Thread
  <2> QED BY <2>1, CopiesTyped DEF FileTyped
<1>6. ASSUME NEW t \in Thread, Recorder!NoMemory(t) PROVE FileTyped'
  <2>1. thread' \in [Thread -> [at : Writing \cup {"none", "lock", "wait", "copy", "dead", "crash"}, n : Nat, half : Nat]]
    BY <1>6, FileFieldTyped DEF Recorder!NoMemory, Recorder!Ends
  <2>2. frame' \in [head : Nat, tail : Nat, room : Nat, block : Nat] /\ frame'.block <= frame'.room
    <3>1. frame \in [head : Nat, tail : Nat, room : Nat, block : Nat] /\ frame.block <= frame.room /\ buf.size \in Nat
      BY DEF FileTyped
    <3>2. Recorder!Room \in Nat /\ Recorder!Room >= frame.room
      BY <3>1, BufferAssumption DEF Recorder!Room, Recorder!TooSmall
    <3>3. frame' = [frame EXCEPT !.room = Recorder!Room]
      BY <1>6 DEF Recorder!NoMemory
    <3> QED BY <3>1, <3>2, <3>3
  <2> QED BY <1>6, <2>1, <2>2 DEF Recorder!NoMemory, Recorder!Fails, FileTyped
<1>7. ASSUME NEW t \in Thread, Recorder!Copied(t) PROVE FileTyped'
  <2>1. thread' \in [Thread -> [at : Writing \cup {"none", "lock", "wait", "copy", "dead", "crash"}, n : Nat, half : Nat]]
    BY <1>7, FileFieldTyped DEF Recorder!Copied, Recorder!Goes, Writing, Recorder!Writing
  <2> QED BY <1>7, <2>1 DEF Recorder!Copied, FileTyped
<1>8. ASSUME NEW t \in Thread, Recorder!Write1(t) PROVE FileTyped'
  <2>1. thread' \in [Thread -> [at : Writing \cup {"none", "lock", "wait", "copy", "dead", "crash"}, n : Nat, half : Nat]]
    BY <1>8, FileFieldTyped DEF Recorder!Write1, Writing, Recorder!Writing
  <2>2. counter' \in Nat /\ files' \subseteq (0 .. MaxClock) \X Nat /\ IsFiniteSet(files')
    BY <1>8, CreatedTyped DEF Recorder!Write1
  <2> QED BY <1>8, <2>1, <2>2 DEF Recorder!Write1, FileTyped
<1>9. ASSUME NEW t \in Thread, Recorder!FileFails(t) PROVE FileTyped'
  <2>1. thread' \in [Thread -> [at : Writing \cup {"none", "lock", "wait", "copy", "dead", "crash"}, n : Nat, half : Nat]]
    BY <1>9, FileFieldTyped DEF Recorder!FileFails, Recorder!Ends
  <2>2. counter' \in Nat /\ files' \subseteq (0 .. MaxClock) \X Nat /\ IsFiniteSet(files')
    BY <1>9, CreatedTyped DEF Recorder!FileFails
  <2> QED BY <1>9, <2>1, <2>2 DEF Recorder!FileFails, Recorder!Fails, FileTyped
<1>10. ASSUME NEW t \in Thread, Recorder!Write2(t) PROVE FileTyped'
  <2>1. thread' \in [Thread -> [at : Writing \cup {"none", "lock", "wait", "copy", "dead", "crash"}, n : Nat, half : Nat]]
    BY <1>10, FileFieldTyped DEF Recorder!Write2, Recorder!Goes
  <2>2. recorded' \in [Thread -> [n : Nat, head : Nat, tail : Nat, whole : BOOLEAN, before : Int]]
    <3> DEFINE R == [n |-> thread[t].n, head |-> thread[t].half, tail |-> frame.tail,
                     whole |-> t \notin clash, before |-> recorded[t].n]
    <3>1. thread[t].n \in Nat /\ thread[t].half \in Nat /\ frame.tail \in Nat /\ recorded[t].n \in Int
      BY DEF FileTyped
    <3>2. R \in [n : Nat, head : Nat, tail : Nat, whole : BOOLEAN, before : Int]
      BY <3>1, Zenon
    <3>3. recorded' = [recorded EXCEPT ![t] = R]
      BY <1>10 DEF Recorder!Write2
    <3> QED BY <3>2, <3>3 DEF FileTyped
  <2>3. files' \subseteq (0 .. MaxClock) \X Nat /\ IsFiniteSet(files') /\ clock' = clock
    <3>1. files' \subseteq files /\ clock' = clock
      BY <1>10, Maintains DEF Recorder!Write2
    <3> QED BY <3>1, FS_Subset DEF FileTyped
  <2> QED BY <1>10, <2>1, <2>2, <2>3 DEF Recorder!Write2, FileTyped
<1>11. CASE Published /\ UNCHANGED fileVars
  BY <1>11 DEF Published, FileTyped
<1>12. CASE UNCHANGED <<shared, fileVars>>
  BY <1>12 DEF FileTyped
<1>13. "worker" \in Thread /\ "take" \in Thread
  BY DEF Thread, Recorder!Thread
<1> QED
  BY <1>1, <1>2, <1>3, <1>4, <1>5, <1>6, <1>7, <1>8, <1>9, <1>10, <1>11, <1>12, <1>13
  DEF Steps, Recorder!Next, Recorder!worker_thread, Recorder!Writes

-----------------------------------------------------------------------------
(* The static buffer.  A thread copies under the mutex; until it has       *)
(* written, either the buffer holds what it copied or it is in clash.      *)

Mutex == \A t \in Thread : At(t) = "copy" <=> db = t

Copying ==
    \A t \in Thread : At(t) = "copy" /\ t \notin clash =>
        frame.head = buf.n /\ thread[t].n = buf.n

Kept ==
    \A t \in Thread : At(t) \in Writing /\ t \notin clash =>
        /\ At(Recorder!Other(t)) # "copy"
        /\ frame.tail = thread[t].n
        /\ (IF At(t) = "write 1" THEN frame.head ELSE thread[t].half) = thread[t].n

Whole == Mutex /\ Copying /\ Kept /\ Recorder!RecordsWhole

LEMMA InitWhole == Recorder!Init /\ db = "free" => Whole
<1> SUFFICES ASSUME Recorder!Init, db = "free" PROVE Whole
  OBVIOUS
<1>1. \A t \in Thread : At(t) \in {"lock", "none"} /\ t # "free"
  BY DEF Recorder!Init, At, Recorder!At, Thread, Recorder!Thread
<1>2. Mutex /\ Copying /\ Kept
  BY <1>1 DEF Mutex, Copying, Kept, Writing, Recorder!Writing
<1>3. \A t \in Thread : recorded[t].n = 0 /\ recorded[t].head = 0 /\ recorded[t].tail = 0
  BY DEF Recorder!Init, Thread
<1> QED BY <1>2, <1>3 DEF Whole, Recorder!RecordsWhole, Thread

\* Another place for one thread leaves the other, and what both have copied.
LEMMA Moves ==
    ASSUME FileTyped, NEW t \in Thread, NEW a, thread' = [thread EXCEPT ![t].at = a]
    PROVE  /\ At(t)' = a
           /\ \A u \in Thread : u # t => At(u)' = At(u)
           /\ \A u \in Thread : thread'[u].n = thread[u].n /\ thread'[u].half = thread[u].half
BY DEF FileTyped, At, Recorder!At

LEMMA Halves ==
    ASSUME FileTyped, NEW t \in Thread, NEW a, NEW b, thread' = [thread EXCEPT ![t].at = a, ![t].half = b]
    PROVE  At(t)' = a /\ thread'[t].n = thread[t].n
<1>1. thread \in [Thread -> [at : Writing \cup {"none", "lock", "wait", "copy", "dead", "crash"}, n : Nat, half : Nat]]
  BY DEF FileTyped
<1> QED BY <1>1 DEF At, Recorder!At

LEMMA Others == ASSUME NEW t \in Thread
                PROVE  /\ Recorder!Other(t) \in Thread /\ Recorder!Other(t) # t
                       /\ t # "free" /\ \A u \in Thread : u = t \/ u = Recorder!Other(t)
                       /\ Recorder!Other(Recorder!Other(t)) = t
BY DEF Thread, Recorder!Thread, Recorder!Other

\* Thread t copies, within its block or, then in clash, beyond it.
HalfCopied(t) ==
    /\ db' = t /\ frame'.head = buf.n
    /\ thread' = [thread EXCEPT ![t].at = "copy", ![t].n = buf.n]
    /\ \A u \in Thread : u # t /\ At(u) \in Writing => u \in clash'

LEMMA CopyFrameDef ==
    ASSUME FileTyped, NEW t \in Thread, Recorder!CopyFrame(t)
    PROVE  \/ HalfCopied(t)
           \/ thread' = [thread EXCEPT ![t].at = "crash"] /\ UNCHANGED <<db, frame, clash>>
<1>1. CASE Recorder!Copies(t)
  <2>1. frame'.head = buf.n
    BY <1>1 DEF FileTyped, Recorder!Copies
  <2>2. \A u \in Thread : u # t => u = Recorder!Other(t)
    BY Others
  <2> QED BY <1>1, <2>1, <2>2 DEF Recorder!Copies, Recorder!Overwritten, HalfCopied, At, Writing
<1>2. CASE Recorder!Overruns(t)
  <2>1. frame' = [frame EXCEPT !.head = buf.n] => frame'.head = buf.n
    BY DEF FileTyped
  <2>2. \A u \in Thread : u # t => u = Recorder!Other(t)
    BY Others
  <2> QED BY <1>2, <2>1, <2>2 DEF Recorder!Overruns, Recorder!Overwritten, HalfCopied, At, Writing
<1> QED BY <1>1, <1>2 DEF Recorder!CopyFrame

LEMMA CopiesWhole ==
    ASSUME FileTyped, Whole, NEW t \in Thread, HalfCopied(t), db = "free", At(t) \notin Writing,
           UNCHANGED <<buf, recorded>>
    PROVE  Whole'
<1> DEFINE o == Recorder!Other(t)
<1>1. /\ At(t)' = "copy" /\ thread'[t].n = buf.n
      /\ At(o)' = At(o) /\ thread'[o] = thread[o]
  BY Others DEF FileTyped, At, Recorder!At, HalfCopied
<1>2. At(o) # "copy" /\ db' = t
  BY Others DEF Whole, Mutex, HalfCopied
<1>3. frame'.head = buf.n /\ buf'.n = buf.n
  BY DEF HalfCopied
<1>4. At(o) \in Writing => o \in clash'
  BY Others DEF HalfCopied
<1>5. Mutex'
  BY <1>1, <1>2, Others DEF Mutex
<1>6. Copying'
  BY <1>1, <1>2, <1>3, Others DEF Copying
<1>7. "copy" \notin Writing
  BY DEF Writing, Recorder!Writing
<1>8. Kept'
  <2>1. \A u \in Thread : ~ (At(u)' \in Writing /\ u \notin clash')
    BY <1>1, <1>4, <1>7, Others
  <2> QED BY <2>1 DEF Kept, Writing
<1>9. Recorder!RecordsWhole'
  BY DEF Whole, Recorder!RecordsWhole
<1> QED BY <1>5, <1>6, <1>8, <1>9 DEF Whole

\* A thread that goes to a place where nothing is copied or written.
LEMMA IdleWhole ==
    ASSUME FileTyped, Whole, NEW t \in Thread, NEW a \in {"none", "lock", "wait", "dead", "crash"},
           thread' = [thread EXCEPT ![t].at = a], At(t) # "copy",
           UNCHANGED <<db, buf, clash>>, frame'.head = frame.head, frame'.tail = frame.tail,
           Recorder!RecordsWhole'
    PROVE  Whole'
<1> USE DEF Writing, Recorder!Writing
<1>1. Mutex'
  BY Moves DEF Whole, Mutex
<1>2. Copying'
  BY Moves DEF Whole, Copying
<1>3. ASSUME NEW u \in Thread, At(u)' \in Writing, u \notin clash'
      PROVE  /\ At(Recorder!Other(u))' # "copy"
             /\ frame'.tail = thread'[u].n
             /\ (IF At(u)' = "write 1" THEN frame'.head ELSE thread'[u].half) = thread'[u].n
  <2>1. At(t)' = a /\ a \notin Writing /\ a # "copy"
    BY Moves
  <2>2. u # t
    BY <1>3, <2>1
  <2>3. At(u)' = At(u) /\ thread'[u].n = thread[u].n /\ thread'[u].half = thread[u].half
    BY <2>2, Moves
  <2>4. Recorder!Other(u) = t
    BY <2>2, Others
  <2>5. /\ frame.tail = thread[u].n
        /\ (IF At(u) = "write 1" THEN frame.head ELSE thread[u].half) = thread[u].n
    BY <1>3, <2>3 DEF Whole, Kept
  <2> QED BY <2>1, <2>3, <2>4, <2>5
<1>4. Kept'
  BY <1>3 DEF Kept
<1> QED BY <1>1, <1>2, <1>4 DEF Whole

LEMMA CopyFrameWhole ==
    ASSUME FileTyped, Whole, NEW t \in Thread, Recorder!CopyFrame(t), db = "free",
           At(t) \notin Writing \cup {"copy"}, UNCHANGED <<buf, recorded>>
    PROVE  Whole'
<1>1. CASE HalfCopied(t)
  BY <1>1, CopiesWhole
<1>2. CASE thread' = [thread EXCEPT ![t].at = "crash"] /\ UNCHANGED <<db, frame, clash>>
  <2>1. Recorder!RecordsWhole'
    BY DEF Whole, Recorder!RecordsWhole
  <2> QED BY <1>2, <2>1, IdleWhole
<1> QED BY <1>1, <1>2, CopyFrameDef

LEMMA StepsWhole == FileTyped /\ Whole /\ Steps => Whole'
<1> SUFFICES ASSUME FileTyped, Whole, Steps PROVE Whole'
  OBVIOUS
<1> USE DEF shared, Recorder!shared, fileVars, Recorder!bounds, Recorder!ring, Recorder!history
<1>1. ASSUME UNCHANGED <<thread, db, buf, frame, clash, recorded>> PROVE Whole'
  BY <1>1 DEF Whole, Mutex, Copying, Kept, Recorder!RecordsWhole, At, Recorder!At
<1>2. CASE Recorder!Wait
  <2>1. At("worker") # "copy" /\ thread' = [thread EXCEPT !["worker"].at = "wait"] /\ "worker" \in Thread
    BY <1>2 DEF Recorder!Wait, Recorder!Goes, At, Recorder!At, Thread, Recorder!Thread
  <2> QED BY <1>2, <2>1, IdleWhole DEF Recorder!Wait, Whole, Recorder!RecordsWhole
<1>3. CASE Recorder!Wake
  <2>1. "worker" \in Thread /\ At("worker") \notin Writing \cup {"copy"}
    BY <1>3 DEF Recorder!Wake, Thread, Recorder!Thread, At, Writing, Recorder!Writing
  <2> QED BY <1>3, <2>1, CopyFrameWhole DEF Recorder!Wake
<1>4. CASE Recorder!Take
  <2>1. "take" \in Thread /\ At("take") \notin Writing \cup {"copy"}
    BY <1>4 DEF Recorder!Take, Thread, Recorder!Thread, At, Writing, Recorder!Writing
  <2> QED BY <1>4, <2>1, CopyFrameWhole DEF Recorder!Take
<1>5. ASSUME NEW t \in Thread, Recorder!NoMemory(t) \/ Recorder!FileFails(t) PROVE Whole'
  <2>1. PICK a \in {"none", "dead"} : thread' = [thread EXCEPT ![t].at = a]
    BY <1>5 DEF Recorder!NoMemory, Recorder!FileFails, Recorder!Ends
  <2>2. At(t) # "copy"
    BY <1>5 DEF Recorder!NoMemory, Recorder!FileFails, At
  <2>3. UNCHANGED <<db, buf, clash, recorded>> /\ frame'.head = frame.head /\ frame'.tail = frame.tail
    BY <1>5 DEF Recorder!NoMemory, Recorder!FileFails, FileTyped
  <2>4. Recorder!RecordsWhole'
    BY <2>3 DEF Whole, Recorder!RecordsWhole
  <2> QED BY <2>1, <2>2, <2>3, <2>4, IdleWhole
<1>6. ASSUME NEW t \in Thread, Recorder!Copied(t) PROVE Whole'
  <2>1. /\ At(t) = "copy" /\ thread' = [thread EXCEPT ![t].at = "write 1"]
        /\ db' = "free" /\ UNCHANGED <<buf, clash, recorded>>
        /\ frame'.head = frame.head /\ frame'.tail = buf.n
    BY <1>6 DEF Recorder!Copied, Recorder!Goes, At, FileTyped
  <2>2. db = t /\ (t \notin clash => frame.head = buf.n /\ thread[t].n = buf.n)
    BY <2>1 DEF Whole, Mutex, Copying
  <2>3. \A u \in Thread : u # t => At(u) # "copy"
    BY <2>2, Others DEF Whole, Mutex
  <2>4. At(t)' = "write 1" /\ \A u \in Thread : u # t => At(u)' = At(u)
    BY <2>1, Moves
  <2>5. Mutex'
    BY <2>1, <2>3, <2>4, Others DEF Mutex
  <2>6. Copying'
    BY <2>3, <2>4 DEF Copying
  <2>7. Kept'
    <3>1. ASSUME NEW u \in Thread, At(u)' \in Writing, u \notin clash'
          PROVE  /\ At(Recorder!Other(u))' # "copy"
                 /\ frame'.tail = thread'[u].n
                 /\ (IF At(u)' = "write 1" THEN frame'.head ELSE thread'[u].half) = thread'[u].n
      <4>1. CASE u = t
        <5>1. Recorder!Other(u) \in Thread /\ Recorder!Other(u) # t
          BY <4>1, Others
        <5>2. At(Recorder!Other(u))' # "copy"
          BY <2>3, <2>4, <5>1
        <5>3. t \notin clash /\ thread'[t].n = thread[t].n
          BY <2>1, <3>1, <4>1, Moves
        <5>4. frame.head = buf.n /\ thread[t].n = buf.n
          BY <2>2, <5>3
        <5>5. frame'.tail = thread'[t].n /\ frame'.head = thread'[t].n /\ At(t)' = "write 1"
          BY <2>1, <2>4, <5>3, <5>4
        <5> QED BY <4>1, <5>2, <5>5, Zenon
      <4>2. CASE u # t
        <5>1. At(u) \in Writing /\ Recorder!Other(u) = t /\ u \notin clash
          BY <2>1, <2>4, <3>1, <4>2, Others
        <5> QED BY <2>1, <5>1 DEF Whole, Kept
      <4> QED BY <4>1, <4>2
    <3> QED BY <3>1 DEF Kept, Writing
  <2>8. Recorder!RecordsWhole'
    BY <2>1 DEF Whole, Recorder!RecordsWhole
  <2> QED BY <2>5, <2>6, <2>7, <2>8 DEF Whole
<1>7. ASSUME NEW t \in Thread, Recorder!Write1(t) PROVE Whole'
  <2>1. /\ At(t) = "write 1" /\ UNCHANGED <<db, buf, frame, clash, recorded>>
        /\ thread' = [thread EXCEPT ![t].at = "write 2", ![t].half = frame.head]
    BY <1>7 DEF Recorder!Write1, At
  <2>2. /\ At(t)' = "write 2" /\ thread'[t].half = frame.head /\ thread'[t].n = thread[t].n
        /\ \A u \in Thread : u # t => thread'[u] = thread[u] /\ At(u)' = At(u)
    BY <2>1 DEF FileTyped, At, Recorder!At
  <2>3. Mutex'
    BY <2>1, <2>2 DEF Whole, Mutex
  <2>4. Copying'
    BY <2>1, <2>2 DEF Whole, Copying
  <2>5. Kept'
    <3>1. ASSUME NEW u \in Thread, At(u)' \in Writing, u \notin clash'
          PROVE  /\ At(Recorder!Other(u))' # "copy"
                 /\ frame'.tail = thread'[u].n
                 /\ (IF At(u)' = "write 1" THEN frame'.head ELSE thread'[u].half) = thread'[u].n
      <4>1. At(Recorder!Other(u)) # "copy" => At(Recorder!Other(u))' # "copy"
        BY <2>2, Others
      <4>2. At(u) \in Writing /\ u \notin clash
        BY <2>1, <2>2, <3>1 DEF Writing, Recorder!Writing
      <4>3. /\ At(Recorder!Other(u)) # "copy" /\ frame.tail = thread[u].n
            /\ (IF At(u) = "write 1" THEN frame.head ELSE thread[u].half) = thread[u].n
        BY <4>2 DEF Whole, Kept
      <4> QED BY <2>1, <2>2, <4>1, <4>3
    <3> QED BY <3>1 DEF Kept, Writing
  <2>6. Recorder!RecordsWhole'
    BY <2>1 DEF Whole, Recorder!RecordsWhole
  <2> QED BY <2>3, <2>4, <2>5, <2>6 DEF Whole
<1>8. ASSUME NEW t \in Thread, Recorder!Write2(t) PROVE Whole'
  <2>1. PICK a \in {"none", "lock"} : thread' = [thread EXCEPT ![t].at = a]
    BY <1>8 DEF Recorder!Write2, Recorder!Goes
  <2>2. At(t) = "write 2" /\ UNCHANGED <<db, buf, frame, clash>>
    BY <1>8 DEF Recorder!Write2, Recorder!Goes, At
  <2>3. ASSUME NEW u \in Thread, recorded'[u].whole
        PROVE  recorded'[u].head = recorded'[u].n /\ recorded'[u].tail = recorded'[u].n
    <3>1. CASE u = t
      <4>1. recorded'[t] = [n |-> thread[t].n, head |-> thread[t].half, tail |-> frame.tail,
                            whole |-> t \notin clash, before |-> recorded[t].n]
        BY <1>8 DEF Recorder!Write2, FileTyped
      <4> DEFINE R == [n |-> thread[t].n, head |-> thread[t].half, tail |-> frame.tail,
                       whole |-> t \notin clash, before |-> recorded[t].n]
      <4>5. R.whole = (t \notin clash) /\ R.head = thread[t].half /\ R.n = thread[t].n /\ R.tail = frame.tail
        BY Zenon
      <4>6. recorded'[u] = R
        BY <3>1, <4>1
      <4> HIDE DEF R
      <4>2. t \notin clash
        BY <2>3, <4>5, <4>6, Zenon
      <4>3. thread[t].half = thread[t].n /\ frame.tail = thread[t].n
        BY <2>2, <4>2 DEF Whole, Kept, Writing, Recorder!Writing
      <4> QED BY <4>3, <4>5, <4>6, Zenon
    <3>2. CASE u # t
      <4>1. recorded'[u] = recorded[u]
        BY <1>8, <3>2 DEF Recorder!Write2, FileTyped
      <4> QED BY <2>3, <4>1 DEF Whole, Recorder!RecordsWhole, Thread
    <3> QED BY <3>1, <3>2
  <2>4. Recorder!RecordsWhole'
    BY <2>3 DEF Recorder!RecordsWhole, Thread
  <2> QED BY <2>1, <2>2, <2>4, IdleWhole
<1>9. CASE Published /\ UNCHANGED fileVars
  <2>1. \A t \in Thread : At(t)' # "copy" /\ At(t) # "copy" /\ At(t)' = At(t)
    BY <1>9, Others DEF Whole, Mutex, Published, At, Recorder!At
  <2>2. Mutex' /\ Copying'
    BY <1>9, <2>1, Others DEF Whole, Mutex, Copying, Published
  <2>3. Kept'
    <3>1. thread' = thread /\ frame' = frame /\ clash' = clash
      BY <1>9
    <3>2. ASSUME NEW t \in Thread, At(t) \in Writing, t \notin clash
          PROVE  /\ frame.tail = thread[t].n
                 /\ (IF At(t) = "write 1" THEN frame.head ELSE thread[t].half) = thread[t].n
      BY <3>2 DEF Whole, Kept
    <3>3. \A t \in Thread : At(t)' = At(t) /\ At(Recorder!Other(t))' # "copy"
      BY <2>1, Others
    <3> QED BY <3>1, <3>2, <3>3 DEF Kept, Writing
  <2>4. Recorder!RecordsWhole'
    BY <1>9 DEF Whole, Recorder!RecordsWhole
  <2> QED BY <2>2, <2>3, <2>4 DEF Whole
<1>10. CASE Recorder!Second \/ Recorder!SpuriousWakeup
  BY <1>1, <1>10 DEF Recorder!Second, Recorder!SpuriousWakeup
<1>11. "worker" \in Thread /\ "take" \in Thread
  BY DEF Thread, Recorder!Thread
<1> QED
  BY <1>1, <1>2, <1>3, <1>4, <1>5, <1>6, <1>7, <1>8, <1>9, <1>10, <1>11
  DEF Steps, Recorder!Next, Recorder!worker_thread, Recorder!Writes

-----------------------------------------------------------------------------
(* Freshness: while the worker waits in pthread_cond_wait its last frame   *)
(* may still be the current one; once a broadcast has taken it from there, *)
(* the current one is newer.                                               *)

Fresh ==
    ~ roused =>
      /\ recorded["worker"].before < recorded["worker"].n
      /\ recorded["worker"].n <= buf.n
      /\ "worker" \in waiting => At("worker") = "wait"
      /\ At("worker") = "wait" /\ "worker" \notin waiting => recorded["worker"].n < buf.n
      /\ At("worker") \in {"copy"} \cup Writing =>
             recorded["worker"].n < thread["worker"].n /\ thread["worker"].n <= buf.n

LEMMA InitFresh == Recorder!Init /\ waiting = {} /\ buf = [n |-> 0, size |-> 0] => Fresh
<1> SUFFICES ASSUME Recorder!Init, waiting = {}, buf = [n |-> 0, size |-> 0] PROVE Fresh
  OBVIOUS
<1>1. At("worker") = "lock"
  BY DEF Recorder!Init, At, Recorder!At, Recorder!Thread
<1>2. recorded["worker"].before = -1 /\ recorded["worker"].n = 0
  BY DEF Recorder!Init, Recorder!Thread
<1>3. buf.n = 0 /\ -1 < 0 /\ "lock" \notin {"copy"} \cup Writing
  BY DEF Writing, Recorder!Writing
<1> QED BY <1>1, <1>2, <1>3 DEF Fresh

LEMMA StepsFresh == FileTyped /\ Fresh /\ Steps => Fresh'
<1> SUFFICES ASSUME FileTyped, Fresh, Steps, ~ roused' PROVE Fresh'
  BY DEF Fresh
<1> USE DEF shared, Recorder!shared, fileVars, Recorder!bounds, Recorder!ring, Recorder!history
<1> DEFINE w == "worker"
<1>0. /\ w \in Thread /\ "take" \in Thread /\ recorded[w].n \in Nat /\ buf.n \in Nat
      /\ thread[w].n \in Nat /\ \A t \in Thread : t = w \/ t = "take"
  BY DEF FileTyped, Thread, Recorder!Thread
<1>1. ASSUME thread'[w] = thread[w], recorded'[w] = recorded[w], UNCHANGED <<buf, waiting, roused>> PROVE Fresh'
  BY <1>1 DEF Fresh, At, Recorder!At, Writing, Recorder!Writing
<1>2. CASE Recorder!Wait
  <2>1. At(w)' = "wait"
    BY <1>0, <1>2, Moves DEF Recorder!Wait, Recorder!Goes
  <2>2. waiting' = waiting \cup {w} /\ UNCHANGED <<buf, recorded, roused>>
    BY <1>2 DEF Recorder!Wait
  <2> QED BY <2>1, <2>2 DEF Fresh, Writing, Recorder!Writing
<1>3. CASE Recorder!Wake
  <2>1. HalfCopied(w) \/ thread' = [thread EXCEPT ![w].at = "crash"]
    BY <1>0, <1>3, CopyFrameDef DEF Recorder!Wake
  <2>2. \/ At(w)' = "copy" /\ thread'[w].n = buf.n
        \/ At(w)' = "crash"
    BY <1>0, <2>1 DEF HalfCopied, FileTyped, At, Recorder!At
  <2>3. At(w) = "wait" /\ w \notin waiting /\ UNCHANGED <<waiting, buf, recorded, roused>>
    BY <1>3 DEF Recorder!Wake, At
  <2>4. ~ roused /\ recorded[w].before < recorded[w].n /\ recorded[w].n < buf.n
    BY <2>3 DEF Fresh
  <2>5. CASE At(w)' = "crash"
    BY <1>0, <2>3, <2>4, <2>5 DEF Fresh, Writing, Recorder!Writing
  <2>6. CASE At(w)' = "copy" /\ thread'[w].n = buf.n
    BY <1>0, <2>3, <2>4, <2>6 DEF Fresh
  <2> QED BY <2>2, <2>5, <2>6
<1>4. CASE Recorder!Take
  <2>1. thread'[w] = thread[w]
    <3>1. HalfCopied("take") \/ thread' = [thread EXCEPT !["take"].at = "crash"]
      BY <1>0, <1>4, CopyFrameDef DEF Recorder!Take
    <3> QED BY <1>0, <3>1 DEF HalfCopied, FileTyped
  <2> QED BY <1>1, <1>4, <2>1 DEF Recorder!Take
<1>5. ASSUME Recorder!Writes("take") PROVE Fresh'
  <2>1. thread'[w] = thread[w]
    BY <1>0, <1>5 DEF FileTyped, Recorder!Writes, Recorder!NoMemory, Recorder!Ends, Recorder!Copied,
                      Recorder!Goes, Recorder!Write1, Recorder!FileFails, Recorder!Write2
  <2>2. recorded'[w] = recorded[w] /\ UNCHANGED <<buf, waiting, roused>>
    BY <1>0, <1>5 DEF FileTyped, Recorder!Writes, Recorder!NoMemory, Recorder!Copied,
                      Recorder!Write1, Recorder!FileFails, Recorder!Write2
  <2> QED BY <1>1, <2>1, <2>2
<1>6. CASE Recorder!NoMemory(w) \/ Recorder!FileFails(w)
  <2>1. At(w)' = "dead"
    BY <1>0, <1>6, Moves DEF Recorder!NoMemory, Recorder!FileFails, Recorder!Ends
  <2>2. At(w) = "wait" => w \notin waiting
    BY <1>6 DEF Recorder!NoMemory, Recorder!FileFails, At
  <2>3. UNCHANGED <<waiting, buf, recorded, roused>>
    BY <1>6 DEF Recorder!NoMemory, Recorder!FileFails
  <2> QED BY <2>1, <2>2, <2>3 DEF Fresh, Writing, Recorder!Writing
<1>7. CASE Recorder!Copied(w)
  <2>1. At(w) = "copy" /\ At(w)' = "write 1" /\ thread'[w].n = thread[w].n
    BY <1>0, <1>7, Moves DEF Recorder!Copied, Recorder!Goes, At
  <2>2. UNCHANGED <<waiting, buf, recorded, roused>>
    BY <1>7 DEF Recorder!Copied
  <2>3. ~ roused /\ At(w) \in {"copy"} \cup Writing
    BY <2>1, <2>2
  <2>4. /\ recorded[w].before < recorded[w].n /\ recorded[w].n <= buf.n
        /\ recorded[w].n < thread[w].n /\ thread[w].n <= buf.n
        /\ w \in waiting => At(w) = "wait"
    BY <2>3 DEF Fresh
  <2>5. At(w)' # "wait" /\ w \notin waiting
    BY <2>1, <2>4
  <2> QED BY <2>1, <2>2, <2>4, <2>5 DEF Fresh
<1>8. CASE Recorder!Write1(w)
  <2>1. At(w) = "write 1" /\ At(w)' = "write 2" /\ thread'[w].n = thread[w].n
    <3>1. At(w) = "write 1" /\ thread' = [thread EXCEPT ![w].at = "write 2", ![w].half = frame.head]
      BY <1>8 DEF Recorder!Write1, At
    <3> QED BY <1>0, <3>1, Halves
  <2>2. UNCHANGED <<waiting, buf, recorded, roused>>
    BY <1>8 DEF Recorder!Write1
  <2> QED BY <2>1, <2>2 DEF Fresh, Writing, Recorder!Writing
<1>9. CASE Recorder!Write2(w)
  <2>1. At(w) = "write 2" /\ At(w)' = "lock"
    BY <1>0, <1>9, Moves DEF Recorder!Write2, Recorder!Goes, At
  <2>2. recorded'[w].n = thread[w].n /\ recorded'[w].before = recorded[w].n
    BY <1>0, <1>9 DEF Recorder!Write2, FileTyped
  <2>3. UNCHANGED <<waiting, buf, roused>>
    BY <1>9 DEF Recorder!Write2
  <2> QED BY <1>0, <2>1, <2>2, <2>3 DEF Fresh, Writing, Recorder!Writing
<1>10. CASE Published /\ UNCHANGED fileVars
  <2>1. waiting' = {} /\ buf'.n = buf.n + 1 /\ UNCHANGED <<thread, recorded, roused>>
    BY <1>10 DEF Published
  <2>2. At(w)' = At(w)
    BY <2>1 DEF At, Recorder!At
  <2>3. buf'.n \in Nat /\ buf.n < buf'.n
    BY <1>0, <2>1
  <2> QED BY <1>0, <2>1, <2>2, <2>3 DEF Fresh
<1>11. CASE Recorder!SpuriousWakeup
  BY <1>11 DEF Recorder!SpuriousWakeup
<1>12. CASE Recorder!Second \/ UNCHANGED <<shared, fileVars>>
  BY <1>1, <1>12 DEF Recorder!Second
<1> QED
  BY <1>2, <1>3, <1>4, <1>5, <1>6, <1>7, <1>8, <1>9, <1>10, <1>11, <1>12
  DEF Steps, Recorder!Next, Recorder!worker_thread, Recorder!Writes

-----------------------------------------------------------------------------
(* The ring of files.                                                      *)

Older(f, g) == Recorder!Older(f, g)
Newest      == Recorder!Newest(ringbuffer_size)

LEMMA LeastExists ==
    ASSUME NEW S, S \subseteq Nat, S # {}
    PROVE  \E x \in S : \A y \in S : x <= y
<1> DEFINE R == {r \in Nat \X Nat : r[1] < r[2]}
<1>1. IsWellFoundedOn(R, Nat)
  BY NatLessThanWellFounded DEF OpToRel
<1>2. PICK x \in S : \A y \in S : ~ (<<y, x>> \in R)
  BY <1>1, WFMin, Zenon
<1>3. ASSUME NEW y \in S PROVE x <= y
  <2>1. x \in Nat /\ y \in Nat /\ (y < x => <<y, x>> \in R)
    OBVIOUS
  <2> QED BY <1>2, <2>1
<1> QED BY <1>3

\* The module OutputFile has its own name for the library's Cardinality.
LEMMA SameCardinality == \A S : Recorder!Cardinality(S) = Cardinality(S)
BY DEF Cardinality, Recorder!Cardinality

\* Of some files one is the oldest.
LEMMA OldestExists ==
    ASSUME NEW S, S \subseteq Nat \X Nat, S # {}
    PROVE  \E f \in S : \A g \in S : g = f \/ Older(f, g)
<1>1. PICK a \in {f[1] : f \in S} : \A b \in {f[1] : f \in S} : a <= b
  <2>1. {f[1] : f \in S} \subseteq Nat /\ {f[1] : f \in S} # {}
    OBVIOUS
  <2> QED BY <2>1, LeastExists, Zenon
<1> DEFINE A == {f \in S : f[1] = a}
<1>2. PICK c \in {f[2] : f \in A} : \A d \in {f[2] : f \in A} : c <= d
  <2>1. {f[2] : f \in A} \subseteq Nat /\ {f[2] : f \in A} # {}
    BY <1>1
  <2> HIDE DEF A
  <2> QED BY <2>1, LeastExists, Zenon
<1>3. PICK f \in S : f[1] = a /\ f[2] = c
  BY <1>2
<1>4. ASSUME NEW g \in S PROVE g = f \/ Older(f, g)
  <2>1. /\ f \in Nat \X Nat /\ g \in Nat \X Nat
        /\ f[1] <= g[1] /\ (g[1] = f[1] => f[2] <= g[2])
    BY <1>1, <1>2, <1>3
  <2>2. g = <<g[1], g[2]>> /\ f = <<f[1], f[2]>>
    BY <2>1
  <2>3. g[1] = f[1] /\ g[2] = f[2] => g = f
    BY <2>2, Zenon
  <2> QED BY <2>1, <2>3 DEF Older, Recorder!Older
<1> QED BY <1>4

\* maintain_ringbuffer leaves at most ringbuffer_size files: all but the
\* oldest of them are newer than that one, and fewer than that are.
LEMMA NewestIsBounded == FileTyped => Cardinality(Newest) <= ringbuffer_size
<1> SUFFICES ASSUME FileTyped PROVE Cardinality(Newest) <= ringbuffer_size
  OBVIOUS
<1>1. Newest \subseteq files /\ IsFiniteSet(files) /\ IsFiniteSet(Newest)
  BY NewestTyped DEF FileTyped, Newest, Recorder!Newest
<1>2. CASE Newest = {}
  BY <1>2, FS_EmptySet, RingAssumption
<1>3. CASE Newest # {}
  <2>1. Newest \subseteq Nat \X Nat
    BY <1>1, BoundsAssumption DEF FileTyped
  <2>2. PICK f \in Newest : \A g \in Newest : g = f \/ Older(f, g)
    BY <1>3, <2>1, OldestExists
  <2> DEFINE N == {g \in files : Older(f, g)}
  <2>3. IsFiniteSet(N) /\ Cardinality(N) \in Nat /\ Cardinality(N) < ringbuffer_size
    <3>1. Cardinality(N) < ringbuffer_size
      <4>1. f \in Newest
        BY <2>2
      <4>2. Recorder!Cardinality(N) < ringbuffer_size
        BY <4>1 DEF Newest, Recorder!Newest, Older
      <4> QED BY <4>2, SameCardinality
    <3>2. N \subseteq files
      OBVIOUS
    <3> QED BY <1>1, <3>1, <3>2, FS_Subset, FS_CardinalityType
  <2>4. Newest \subseteq N \cup {f}
    BY <1>1, <2>2
  <2> HIDE DEF N
  <2>5. IsFiniteSet(N \cup {f}) /\ Cardinality(N \cup {f}) <= Cardinality(N) + 1
    <3>1. /\ IsFiniteSet(N \cup {f})
          /\ Cardinality(N \cup {f}) = IF f \in N THEN Cardinality(N) ELSE Cardinality(N) + 1
      BY <2>3, FS_AddElement
    <3> QED BY <2>3, <3>1
  <2>6. Cardinality(Newest) <= Cardinality(N \cup {f})
    BY <2>4, <2>5, FS_Subset
  <2>7. Cardinality(Newest) \in Nat /\ Cardinality(N \cup {f}) \in Nat
    BY <1>1, <2>5, FS_CardinalityType
  <2> QED BY <2>3, <2>5, <2>6, <2>7, RingAssumption
<1> QED BY <1>2, <1>3

\* But for the files it failed to delete, the ring grows by one file a round
\* until maintain_ringbuffer is due.
Rest(n) == n % (ringbuffer_exceed + 1)

Counted == files \ spared

Grown ==
    /\ counter > 0 /\ At("worker") \notin {"write 2", "dead"} =>
          Cardinality(Counted) <= ringbuffer_size + Rest(counter)
    /\ counter > 1 /\ At("worker") = "write 2" =>
          Cardinality(Counted) <= ringbuffer_size + Rest(counter - 1) + 1

LEMMA InitGrown == Recorder!Init => Grown
<1> SUFFICES ASSUME Recorder!Init PROVE Grown
  OBVIOUS
<1>1. counter = 0
  BY DEF Recorder!Init
<1> QED BY <1>1 DEF Grown

\* Remainders of consecutive numbers.
LEMMA NextRemainder ==
    /\ \A n \in Nat : Rest(n) \in 0 .. ringbuffer_exceed
    /\ \A n \in Nat : n > 0 /\ Rest(n) # 0 => Rest(n) = Rest(n - 1) + 1
<1> DEFINE d == ringbuffer_exceed + 1
<1>1. d \in Nat /\ d > 0 /\ d - 1 = ringbuffer_exceed
  BY RingAssumption
<1>2. \A n : Rest(n) = n % d
  BY DEF Rest
<1> HIDE DEF d
<1>3. ASSUME NEW n \in Nat PROVE Rest(n) \in 0 .. ringbuffer_exceed
  BY <1>1, <1>2, Remainder
<1>4. ASSUME NEW n \in Nat, n > 0, Rest(n) # 0 PROVE Rest(n) = Rest(n - 1) + 1
  <2> DEFINE q == n \div d
             p == (n - 1) \div d
             r == n % d
             s == (n - 1) % d
  <2>1. n = d * q + r /\ q \in Int /\ r \in 0 .. d - 1
    BY <1>1, Quotient, Remainder
  <2>2. n - 1 = d * p + s /\ p \in Int /\ s \in 0 .. d - 1
    BY <1>1, Quotient, Remainder
  <2>3. r # 0 /\ Rest(n) = r /\ Rest(n - 1) = s
    BY <1>2, <1>4
  <2> HIDE DEF q, p, r, s
  <2>4. d * q \in Int /\ d * p \in Int /\ r \in Int /\ s \in Int
    BY <1>1, <2>1, <2>2
  <2>5. d * q + r = d * p + s + 1
    BY <2>1, <2>2, <2>4
  <2>6. r = s + 1
    <3>1. d \in Nat
      BY <1>1
    <3>2. q \in Int /\ p \in Int
      BY <2>1, <2>2
    <3>3. r \in 0 .. d - 1 /\ s \in 0 .. d - 1
      BY <2>1, <2>2
    <3>4. d * q + r = d * p + s + 1 /\ r # 0
      BY <2>3, <2>5
    <3> QED BY <3>1, <3>2, <3>3, <3>4, SameQuotient
  <2> QED BY <2>3, <2>6
<1> QED BY <1>3, <1>4

LEMMA AddsOneFile ==
    ASSUME FileTyped
    PROVE  /\ IsFiniteSet(Counted) /\ Cardinality(Counted) \in Nat
           /\ \A x : /\ Cardinality((files \cup {x}) \ spared) \in Nat
                     /\ Cardinality((files \cup {x}) \ spared) <= Cardinality(Counted) + 1
<1>1. IsFiniteSet(Counted) /\ Cardinality(Counted) \in Nat
  <2>1. IsFiniteSet(files) /\ Counted \subseteq files
    BY DEF FileTyped, Counted
  <2> QED BY <2>1, FS_Subset, FS_CardinalityType
<1>2. ASSUME NEW x
      PROVE  /\ Cardinality((files \cup {x}) \ spared) \in Nat
             /\ Cardinality((files \cup {x}) \ spared) <= Cardinality(Counted) + 1
  <2>1. /\ IsFiniteSet(Counted \cup {x})
        /\ Cardinality(Counted \cup {x}) = IF x \in Counted THEN Cardinality(Counted) ELSE Cardinality(Counted) + 1
    BY <1>1, FS_AddElement
  <2> DEFINE S == (files \cup {x}) \ spared
             T == Counted \cup {x}
  <2>2. S \subseteq T
    BY DEF Counted
  <2>3. IsFiniteSet(T) /\ Cardinality(T) <= Cardinality(Counted) + 1
    BY <1>1, <2>1
  <2> HIDE DEF S, T
  <2>4. IsFiniteSet(S) /\ Cardinality(S) <= Cardinality(T)
    BY <2>2, <2>3, FS_Subset
  <2>5. Cardinality(S) \in Nat /\ Cardinality(T) \in Nat
    BY <2>3, <2>4, FS_CardinalityType
  <2>6. Cardinality(S) <= Cardinality(Counted) + 1
    BY <1>1, <2>3, <2>4, <2>5
  <2> QED BY <2>5, <2>6 DEF S
<1> QED BY <1>1, <1>2

LEMMA StepsGrown == FileTyped /\ Grown /\ Steps => Grown'
<1> SUFFICES ASSUME FileTyped, Grown, Steps PROVE Grown'
  OBVIOUS
<1> USE DEF shared, Recorder!shared, fileVars, Recorder!bounds, Recorder!ring, Recorder!history
<1> DEFINE w == "worker"
<1>0. /\ w \in Thread /\ "take" \in Thread /\ "take" # w /\ counter \in Nat
      /\ Cardinality(Counted) \in Nat /\ ringbuffer_size \in Nat
      /\ \A n \in Nat : Rest(n) \in Nat
  BY RingAssumption, AddsOneFile, NextRemainder DEF FileTyped, Thread, Recorder!Thread
<1>1. ASSUME At(w)' = At(w) \/ (At(w) \notin {"write 2", "dead"} /\ At(w)' # "write 2"),
             UNCHANGED <<counter, files, spared>>
      PROVE  Grown'
  BY <1>1 DEF Grown, Counted
<1>2. CASE Recorder!Wait \/ Recorder!Wake \/ Recorder!NoMemory(w) \/ Recorder!Copied(w)
  <2>1. UNCHANGED <<counter, files, spared>>
    BY <1>2 DEF Recorder!Wait, Recorder!Wake, Recorder!NoMemory, Recorder!Copied
  <2>2. At(w) \in {"lock", "wait", "copy"}
    BY <1>2 DEF Recorder!Wait, Recorder!Wake, Recorder!NoMemory, Recorder!Copied, Recorder!Goes, At
  <2>3. At(w)' \in {"wait", "copy", "dead", "write 1", "crash"}
    <3>1. CASE Recorder!Wake
      <4>1. HalfCopied(w) \/ thread' = [thread EXCEPT ![w].at = "crash"]
        BY <1>0, <3>1, CopyFrameDef DEF Recorder!Wake
      <4>2. At(w)' = "copy" \/ At(w)' = "crash"
        BY <1>0, <4>1 DEF HalfCopied, FileTyped, At, Recorder!At
      <4> QED BY <4>2
    <3>2. CASE Recorder!Wait \/ Recorder!NoMemory(w) \/ Recorder!Copied(w)
      BY <1>0, <3>2, Moves DEF Recorder!Wait, Recorder!NoMemory, Recorder!Copied, Recorder!Goes, Recorder!Ends
    <3> QED BY <1>2, <3>1, <3>2
  <2> QED BY <1>1, <2>1, <2>2, <2>3
<1>3. CASE Recorder!Take \/ Recorder!Writes("take")
  <2>1. thread'[w] = thread[w]
    <3>1. CASE Recorder!Take
      <4>1. HalfCopied("take") \/ thread' = [thread EXCEPT !["take"].at = "crash"]
        BY <1>0, <3>1, CopyFrameDef DEF Recorder!Take
      <4> QED BY <1>0, <4>1 DEF HalfCopied, FileTyped
    <3>2. CASE Recorder!Writes("take")
      BY <1>0, <3>2 DEF FileTyped, Recorder!Writes, Recorder!NoMemory,
         Recorder!Ends, Recorder!Copied, Recorder!Goes, Recorder!Write1, Recorder!FileFails, Recorder!Write2
    <3> QED BY <1>3, <3>1, <3>2
  <2>2. UNCHANGED <<counter, files, spared>>
    BY <1>0, <1>3 DEF Recorder!Take, Recorder!Writes, Recorder!NoMemory, Recorder!Copied,
       Recorder!Write1, Recorder!FileFails, Recorder!Write2, Recorder!Created
  <2> QED BY <1>1, <2>1, <2>2 DEF At, Recorder!At
<1>4. CASE Recorder!Write1(w)
  <2>1. At(w) = "write 1" /\ At(w)' = "write 2"
    BY <1>0, <1>4 DEF Recorder!Write1, At, Recorder!At, FileTyped
  <2>2. counter' = counter + 1 /\ files' = files \cup {<<clock, counter>>} /\ spared' = spared
    BY <1>4 DEF Recorder!Write1, Recorder!Created
  <2>3. Cardinality(Counted') \in Nat /\ Cardinality(Counted') <= Cardinality(Counted) + 1
    <3>1. Counted' = (files \cup {<<clock, counter>>}) \ spared
      BY <2>2 DEF Counted
    <3> QED BY <3>1, AddsOneFile
  <2>4. counter' - 1 = counter /\ (counter' > 1 => counter > 0)
    BY <1>0, <2>2
  <2>5. counter' > 1 => Cardinality(Counted) <= ringbuffer_size + Rest(counter' - 1)
    BY <2>1, <2>4 DEF Grown
  <2>6. Rest(counter' - 1) \in Nat
    BY <1>0, <2>4
  <2>7. counter' > 1 => Cardinality(Counted') <= ringbuffer_size + Rest(counter' - 1) + 1
    BY <1>0, <2>3, <2>5, <2>6
  <2> QED BY <2>1, <2>7 DEF Grown
<1>5. CASE Recorder!FileFails(w)
  <2>1. At(w)' = "dead"
    BY <1>0, <1>5, Moves DEF Recorder!FileFails, Recorder!Ends
  <2> QED BY <2>1 DEF Grown
<1>6. CASE Recorder!Write2(w)
  <2>1. At(w) = "write 2" /\ At(w)' = "lock" /\ counter' = counter
    BY <1>0, <1>6, Moves DEF Recorder!Write2, Recorder!Goes, At
  <2>2. IF Recorder!Due THEN Counted' \subseteq Newest ELSE Counted' = Counted
    BY <1>6, Maintains DEF Recorder!Write2, Newest, Counted
  <2>3. CASE Recorder!Due
    <3>1. Cardinality(Newest) <= ringbuffer_size /\ Cardinality(Newest) \in Nat
      BY NewestIsBounded, NewestTyped, FS_CardinalityType DEF Newest
    <3>2. Rest(counter) \in Nat
      BY <1>0
    <3>3. Cardinality(Counted') <= Cardinality(Newest) /\ Cardinality(Counted') \in Nat
      <4>1. IsFiniteSet(Newest) /\ Counted' \subseteq Newest
        BY <2>2, <2>3, NewestTyped DEF Newest
      <4> QED BY <4>1, FS_Subset, FS_CardinalityType
    <3>4. Cardinality(Counted') <= ringbuffer_size + Rest(counter)
      BY <1>0, <3>1, <3>2, <3>3
    <3> QED BY <2>1, <3>4 DEF Grown
  <2>4. CASE ~ Recorder!Due /\ counter > 0
    <3>1. counter > 1 /\ Rest(counter) # 0
      BY <1>0, <2>4 DEF Recorder!Due, Rest
    <3>2. Rest(counter) = Rest(counter - 1) + 1
      BY <1>0, <2>4, <3>1, NextRemainder
    <3>3. Cardinality(Counted) <= ringbuffer_size + Rest(counter - 1) + 1
      BY <2>1, <3>1 DEF Grown
    <3>4. Rest(counter - 1) \in Nat
      BY <1>0, <3>1
    <3>5. Cardinality(Counted') <= ringbuffer_size + Rest(counter)
      BY <1>0, <2>2, <2>4, <3>2, <3>3, <3>4
    <3> QED BY <2>1, <3>5 DEF Grown
  <2>5. CASE ~ counter > 0
    BY <2>1, <2>5 DEF Grown
  <2> QED BY <2>3, <2>4, <2>5
<1>7. CASE (Published /\ UNCHANGED fileVars) \/ UNCHANGED <<shared, fileVars>> \/ Recorder!Second \/ Recorder!SpuriousWakeup
  <2>1. UNCHANGED <<thread, counter, files, spared>>
    BY <1>7 DEF Recorder!Second, Recorder!SpuriousWakeup
  <2> QED BY <1>1, <2>1 DEF At, Recorder!At
<1> QED
  BY <1>2, <1>3, <1>4, <1>5, <1>6, <1>7
  DEF Steps, Recorder!Next, Recorder!worker_thread, Recorder!Writes

LEMMA GrownIsBounded == FileTyped /\ Grown => Recorder!RingIsBounded
<1> SUFFICES ASSUME FileTyped, Grown, counter > 0, At("worker") \notin Writing \cup {"dead"}
             PROVE  Cardinality(Counted) <= ringbuffer_size + ringbuffer_exceed
  BY SameCardinality DEF Recorder!RingIsBounded, At, Writing, Counted
<1>1. Cardinality(Counted) <= ringbuffer_size + Rest(counter)
  BY DEF Grown, Writing, Recorder!Writing
<1>2. Rest(counter) \in 0 .. ringbuffer_exceed
  BY NextRemainder DEF FileTyped
<1>3. Cardinality(Counted) \in Nat
  BY AddsOneFile
<1> QED BY <1>1, <1>2, <1>3, RingAssumption

-----------------------------------------------------------------------------
(* The files of this run are those with a time; counter and time order     *)
(* them alike, and the last ringbuffer_size of them are there.             *)

Dated == {f \in files : f[1] > 0}

Aligned ==
    /\ \A f \in Dated : f[2] < counter /\ f[1] <= clock
    /\ \A f, g \in Dated : f[2] <= g[2] => f[1] <= g[1]

Latest ==
    \A k \in 1 .. ringbuffer_size : k <= counter => \E f \in Dated : f[2] = counter - k

LEMMA InitLatest == Recorder!Init => Aligned /\ Latest
<1> SUFFICES ASSUME Recorder!Init PROVE Aligned /\ Latest
  OBVIOUS
<1>1. counter = 0 /\ Dated = {}
  BY OldAssumption DEF Recorder!Init, Dated
<1> QED BY <1>1 DEF Aligned, Latest

\* A file the worker opens.
LEMMA OpensLatest ==
    ASSUME FileTyped, Aligned, Latest, UNCHANGED clock,
           counter' = counter + 1, files' = files \cup {<<clock, counter>>}
    PROVE  Aligned' /\ Latest'
<1> DEFINE n == <<clock, counter>>
<1>1. n[1] = clock /\ n[2] = counter /\ clock > 0 /\ counter \in Nat /\ clock \in Nat
  BY BoundsAssumption DEF FileTyped
<1>2. \A f \in files : f[1] \in Nat /\ f[2] \in Nat
  BY BoundsAssumption DEF FileTyped
<1> HIDE DEF n
<1>3. Dated' = Dated \cup {n} /\ Dated \subseteq files
  BY <1>1 DEF Dated, n
<1>4. Aligned'
  <2>1. ASSUME NEW f \in Dated' PROVE f[2] < counter' /\ f[1] <= clock'
    BY <1>1, <1>2, <1>3, <2>1 DEF Aligned
  <2>2. ASSUME NEW f \in Dated', NEW g \in Dated', f[2] <= g[2] PROVE f[1] <= g[1]
    BY <1>1, <1>2, <1>3, <2>2 DEF Aligned
  <2> QED BY <2>1, <2>2 DEF Aligned
<1>5. ASSUME NEW k \in 1 .. ringbuffer_size, k <= counter'
      PROVE  \E f \in Dated' : f[2] = counter' - k
  <2>1. CASE k = 1
    BY <1>1, <1>3, <2>1
  <2>2. CASE k > 1
    <3>1. k - 1 \in 1 .. ringbuffer_size /\ k - 1 <= counter /\ counter - (k - 1) = counter' - k
      BY <1>1, <1>5, <2>2, RingAssumption
    <3> QED BY <1>3, <3>1 DEF Latest
  <2> QED BY <2>1, <2>2, RingAssumption
<1> QED BY <1>4, <1>5 DEF Latest

\* maintain_ringbuffer: the files newer than the k-th last of this run are
\* the k - 1 that were opened after it.
LEMMA NewestLatest ==
    ASSUME FileTyped, Aligned, Latest, UNCHANGED <<clock, counter>>,
           Newest \subseteq files', files' \subseteq files
    PROVE  Aligned' /\ Latest'
<1>1. Newest \subseteq files /\ Dated' \subseteq Dated
  BY DEF Newest, Recorder!Newest, Dated
<1>2. Aligned'
  BY <1>1 DEF Aligned
<1>3. ASSUME NEW k \in 1 .. ringbuffer_size, k <= counter
      PROVE  \E f \in Dated' : f[2] = counter - k
  <2>1. PICK f \in Dated : f[2] = counter - k
    BY <1>3 DEF Latest
  <2>2. counter \in Nat /\ k \in Nat /\ ringbuffer_size \in Nat
    BY RingAssumption DEF FileTyped
  <2>3. \A g \in files : g[1] \in Nat /\ g[2] \in Nat
    BY BoundsAssumption DEF FileTyped
  <2> DEFINE N == {g \in files : Older(f, g)}
             I == counter - k + 1 .. counter - 1
             h == [g \in N |-> g[2]]
  <2>4. ASSUME NEW g \in N PROVE g \in Dated /\ g[2] \in I
    <3>1. f \in files /\ g \in files /\ f[1] > 0
          /\ (f[1] < g[1] \/ (f[1] = g[1] /\ f[2] < g[2]))
      BY DEF Older, Recorder!Older, Dated
    <3>2. g[1] > 0 /\ g \in Dated
      BY <2>3, <3>1 DEF Dated
    <3>3. g[2] < counter /\ (g[2] <= f[2] => g[1] <= f[1])
      BY <3>2 DEF Aligned
    <3>4. f[1] \in Nat /\ f[2] \in Nat /\ g[1] \in Nat /\ g[2] \in Nat
      BY <2>3, <3>1
    <3>5. f[2] < g[2]
      BY <3>1, <3>3, <3>4
    <3> QED BY <2>1, <2>2, <3>2, <3>3, <3>4, <3>5
  <2>5. ASSUME NEW a \in N, NEW b \in N, a[2] = b[2] PROVE a = b
    <3>1. a \in Dated /\ b \in Dated /\ a \in files /\ b \in files
      BY <2>4 DEF Dated
    <3>2. a[1] \in Nat /\ b[1] \in Nat /\ a[2] \in Nat /\ b[2] \in Nat
      BY <2>3, <3>1
    <3>3. a[1] <= b[1] /\ b[1] <= a[1]
      BY <2>5, <3>1, <3>2 DEF Aligned
    <3>4. a = <<a[1], a[2]>> /\ b = <<b[1], b[2]>>
      BY <3>1 DEF FileTyped
    <3>5. a[1] = b[1]
      BY <3>2, <3>3
    <3> QED BY <2>5, <3>4, <3>5, Zenon
  <2> HIDE DEF N
  <2>6. h \in Injection(N, I)
    <3>1. h \in [N -> I]
      BY <2>4
    <3>2. \A a, b \in N : h[a] = h[b] => a = b
      BY <2>5
    <3> QED BY <3>1, <3>2 DEF Injection, IsInjective
  <2>7. IsFiniteSet(I) /\ Cardinality(I) = k - 1
    <3>1. counter - k + 1 \in Int /\ counter - 1 \in Int /\ k >= 1
      BY <2>2
    <3>2. IsFiniteSet(I) /\ Cardinality(I) = IF counter - k + 1 > counter - 1 THEN 0 ELSE counter - 1 - (counter - k + 1) + 1
      BY <3>1, FS_Interval
    <3> QED BY <2>2, <3>1, <3>2
  <2>8. Cardinality(N) < ringbuffer_size
    <3>1. IsFiniteSet(N) /\ Cardinality(N) <= Cardinality(I)
      BY <2>6, <2>7, FS_Injection
    <3>2. Cardinality(N) \in Nat
      BY <3>1, FS_CardinalityType
    <3> QED BY <2>2, <2>7, <3>1, <3>2
  <2>9. f \in Newest
    <3>1. f \in files /\ Recorder!Cardinality(N) < ringbuffer_size
      BY <2>8, SameCardinality DEF Dated
    <3> QED BY <3>1 DEF Newest, Recorder!Newest, Older, N
  <2>10. f \in Dated'
    BY <2>9 DEF Dated
  <2> QED BY <2>1, <2>10
<1> QED BY <1>2, <1>3 DEF Latest

LEMMA StepsLatest == FileTyped /\ Aligned /\ Latest /\ Steps => Aligned' /\ Latest'
<1> SUFFICES ASSUME FileTyped, Aligned, Latest, Steps PROVE Aligned' /\ Latest'
  OBVIOUS
<1> USE DEF shared, Recorder!shared, fileVars, Recorder!bounds, Recorder!ring, Recorder!history
<1>1. ASSUME UNCHANGED <<counter, files>>, clock' = clock \/ clock' = clock + 1 PROVE Aligned' /\ Latest'
  <2>1. clock \in Nat /\ \A f \in files : f[1] \in Nat
    BY BoundsAssumption DEF FileTyped
  <2>2. Dated' = Dated /\ Dated \subseteq files
    BY <1>1 DEF Dated
  <2> QED BY <1>1, <2>1, <2>2 DEF Aligned, Latest
<1>2. ASSUME NEW t \in Thread, Recorder!Write1(t) \/ Recorder!FileFails(t) PROVE Aligned' /\ Latest'
  <2>1. UNCHANGED clock
    BY <1>2 DEF Recorder!Write1, Recorder!FileFails, Recorder!Fails
  <2>2. \/ UNCHANGED <<counter, files>>
        \/ counter' = counter + 1 /\ files' = files \cup {<<clock, counter>>}
    BY <1>2 DEF Recorder!Write1, Recorder!FileFails, Recorder!Created
  <2> QED BY <1>1, <2>1, <2>2, OpensLatest
<1>3. ASSUME NEW t \in Thread, Recorder!Write2(t) PROVE Aligned' /\ Latest'
  <2>1. UNCHANGED <<clock, counter>> /\ (files' = files \/ (Newest \subseteq files' /\ files' \subseteq files))
    BY <1>3, Maintains DEF Recorder!Write2, Newest
  <2> QED BY <1>1, <2>1, NewestLatest
<1>4. CASE Recorder!Wait \/ Recorder!Wake \/ Recorder!Take \/ Recorder!SpuriousWakeup \/ Recorder!Second
  BY <1>1, <1>4 DEF Recorder!Wait, Recorder!Wake, Recorder!Take, Recorder!SpuriousWakeup, Recorder!Fails, Recorder!Second
<1>5. ASSUME NEW t \in Thread, Recorder!NoMemory(t) \/ Recorder!Copied(t) PROVE Aligned' /\ Latest'
  BY <1>1, <1>5 DEF Recorder!NoMemory, Recorder!Copied, Recorder!Fails
<1>6. CASE (Published /\ UNCHANGED fileVars) \/ UNCHANGED <<shared, fileVars>>
  BY <1>1, <1>6
<1>7. "worker" \in Thread /\ "take" \in Thread
  BY DEF Thread, Recorder!Thread
<1> QED
  BY <1>2, <1>3, <1>4, <1>5, <1>6, <1>7
  DEF Steps, Recorder!Next, Recorder!worker_thread, Recorder!Writes

LEMMA LatestKeepsNewest == FileTyped /\ Latest => Recorder!RingKeepsNewest
<1>1. Dated \subseteq files /\ \A f \in Dated : f \notin OldFiles
  BY OldAssumption DEF Dated
<1> QED BY <1>1 DEF Latest, Recorder!RingKeepsNewest

-----------------------------------------------------------------------------
(* The extractor on one segment of the stream: the bytes up to and with    *)
(* the next boundary.  They are a head h, an image g, CR LF - b.           *)

\* The bytes there are.
Letters ==
    {"O", "K", "CR", "LF", "x", "-", "b"} \cup UNION {{p[j] : j \in 1 .. Len(p)} : p \in Pictures}

LEMMA SomeLetters == /\ "O" \in Letters /\ "K" \in Letters /\ "CR" \in Letters /\ "LF" \in Letters
                     /\ "x" \in Letters /\ "-" \in Letters /\ "b" \in Letters
BY DEF Letters

FirstHead == <<"O", "K", "CR", "LF">>
PartHead  == <<"CR", "LF", "x", "CR", "LF", "CR", "LF">>
Ending    == <<"CR", "LF", "-", "b">>

SegLen(h, g) == Len(h) + Len(g) + 4

SegByte(h, g, j) ==
    IF j <= Len(h) THEN h[j]
    ELSE IF j <= Len(h) + Len(g) THEN g[j - Len(h)] ELSE Ending[j - Len(h) - Len(g)]

IsSegment(h, g) ==
    /\ h = FirstHead \/ h = PartHead
    /\ g \in Seq(Letters) /\ \A j \in 1 .. Len(g) - 1 : <<g[j], g[j + 1]>> # <<"-", "b">>

Extractor == [part : {"HEADER", "CONTENT"}, last : Seq(Letters), buffer : Seq(Letters), matched : 0 .. 2]

\* The state of the extractor after the first k bytes.
InHead(h, k, e) ==
    /\ e.part = "HEADER" /\ e.buffer = << >> /\ e.matched = 0
    /\ Len(e.last) = IF k < 4 THEN k ELSE 4
    /\ \A j \in 1 .. Len(e.last) : e.last[j] = h[k - Len(e.last) + j]

InContent(h, g, k, e) ==
    /\ e.part = "CONTENT" /\ Len(e.last) = 4
    /\ Len(e.buffer) = k - Len(h)
    /\ \A j \in 1 .. k - Len(h) : e.buffer[j] = SegByte(h, g, Len(h) + j)
    /\ e.matched = 1 => k > Len(h) /\ SegByte(h, g, k) = "-"
    /\ e.matched = 2 <=> k = SegLen(h, g)
    /\ k = SegLen(h, g) - 1 => e.matched = 1

HasRead(h, g, k, e) ==
    /\ k \in 0 .. SegLen(h, g) /\ e \in Extractor
    /\ IF k < Len(h) THEN InHead(h, k, e) ELSE InContent(h, g, k, e)

\* The state of the extractor after it has written behind its buffer: that
\* happens only to an image that does not fit into it.
Overrun(g, e) ==
    /\ e \in [part : {"OVERRUN"}, last : Seq(Letters), buffer : Seq(Letters), matched : 0 .. 2]
    /\ Len(e.last) = 4 /\ e.matched # 2
    /\ BUFFER_SIZE < Len(g) + 4

LEMMA Heads == /\ Len(FirstHead) = 4 /\ Len(PartHead) = 7 /\ Len(Ending) = 4
               /\ FirstHead \in Seq(Letters) /\ PartHead \in Seq(Letters)
               /\ \A i \in 1 .. 4 : Ending[i] \in Letters
<1> USE SomeLetters
<1> HIDE DEF Letters
<1>1. Len(FirstHead) = 4 /\ FirstHead \in Seq(Letters)
  BY DEF FirstHead
<1>2. Len(PartHead) = 7 /\ PartHead \in Seq(Letters)
  BY DEF PartHead
<1>3. Len(Ending) = 4
  BY DEF Ending
<1>4. \A i \in 1 .. 4 : Ending[i] \in Letters
  BY DEF Ending
<1> QED BY <1>1, <1>2, <1>3, <1>4

LEMMA SegmentTypes ==
    ASSUME NEW h, NEW g, IsSegment(h, g)
    PROVE  /\ Len(h) \in {4, 7} /\ Len(g) \in Nat /\ SegLen(h, g) \in Nat
           /\ SegLen(h, g) = Len(h) + Len(g) + 4
           /\ \A j \in 1 .. SegLen(h, g) : SegByte(h, g, j) \in Letters
<1>1. Len(h) \in {4, 7} /\ h \in Seq(Letters) /\ Len(g) \in Nat /\ g \in Seq(Letters)
  BY Heads DEF IsSegment
<1>2. SegLen(h, g) \in Nat /\ SegLen(h, g) = Len(h) + Len(g) + 4
  BY <1>1 DEF SegLen
<1>3. ASSUME NEW j \in 1 .. SegLen(h, g) PROVE SegByte(h, g, j) \in Letters
  <2>1. CASE j <= Len(h)
    BY <1>1, <2>1 DEF SegByte
  <2>2. CASE j > Len(h) /\ j <= Len(h) + Len(g)
    BY <1>1, <2>2 DEF SegByte
  <2>3. CASE j > Len(h) + Len(g)
    <3>1. j - Len(h) - Len(g) \in 1 .. 4 /\ SegByte(h, g, j) = Ending[j - Len(h) - Len(g)]
      BY <1>1, <1>2, <2>3 DEF SegByte
    <3> QED BY <3>1, Heads
  <2> QED BY <1>1, <2>1, <2>2, <2>3
<1> QED BY <1>1, <1>2, <1>3

\* The last four bytes of a head end it; no four before them do.
LEMMA HeadEnds ==
    ASSUME NEW h, h = FirstHead \/ h = PartHead, NEW k \in Nat, k >= 4, k <= Len(h),
           NEW l \in Seq(Letters), Len(l) = 4, \A j \in 1 .. 4 : l[j] = h[k - 4 + j]
    PROVE  Proxy!is_crlfcrlf(l) <=> k = Len(h)
<1>1. Proxy!is_crlfcrlf(l) <=> /\ l[1] \in Proxy!LikeCR /\ l[2] \in Proxy!LikeLF
                               /\ l[3] \in Proxy!LikeCR /\ l[4] \in Proxy!LikeLF
  <2>1. /\ SubSeq(l, 1, 2)[1] = l[1] /\ SubSeq(l, 1, 2)[2] = l[2]
        /\ SubSeq(l, 3, 4)[1] = l[3] /\ SubSeq(l, 3, 4)[2] = l[4]
    OBVIOUS
  <2> QED BY <2>1 DEF Proxy!is_crlfcrlf, Proxy!is_crlf
<1>2. l[1] = h[k - 3] /\ l[2] = h[k - 2] /\ l[3] = h[k - 1] /\ l[4] = h[k]
  <2>1. k - 4 + 1 = k - 3 /\ k - 4 + 2 = k - 2 /\ k - 4 + 3 = k - 1 /\ k - 4 + 4 = k
    OBVIOUS
  <2> QED BY <2>1
<1>3. CASE h = FirstHead
  <2>1. k = 4
    BY <1>3, Heads
  <2>2. l[1] = "O" /\ l[2] = "K" /\ l[3] = "CR" /\ l[4] = "LF"
    BY <1>2, <1>3, <2>1 DEF FirstHead
  <2> QED BY <1>1, <1>3, <2>1, <2>2, Heads DEF Proxy!LikeCR, Proxy!LikeLF
<1>4. CASE h = PartHead
  <2>1. k \in {4, 5, 6, 7}
    BY <1>4, Heads
  <2>2. CASE k = 4
    BY <1>1, <1>2, <1>4, <2>2, Heads DEF PartHead, Proxy!LikeCR, Proxy!LikeLF
  <2>3. CASE k = 5
    BY <1>1, <1>2, <1>4, <2>3, Heads DEF PartHead, Proxy!LikeCR, Proxy!LikeLF
  <2>4. CASE k = 6
    BY <1>1, <1>2, <1>4, <2>4, Heads DEF PartHead, Proxy!LikeCR, Proxy!LikeLF
  <2>5. CASE k = 7
    BY <1>1, <1>2, <1>4, <2>5, Heads DEF PartHead, Proxy!LikeCR, Proxy!LikeLF
  <2> QED BY <2>1, <2>2, <2>3, <2>4, <2>5
<1> QED BY <1>3, <1>4

\* Sequences whose length has a name: the provers do better with those.
LEMMA Appended ==
    ASSUME NEW S, NEW s \in Seq(S), NEW n \in Nat, Len(s) = n, NEW a \in S
    PROVE  /\ Append(s, a) \in Seq(S) /\ Len(Append(s, a)) = n + 1
           /\ \A j \in 1 .. n : Append(s, a)[j] = s[j]
           /\ Append(s, a)[n + 1] = a
BY AppendProperties

LEMMA Shortened ==
    ASSUME NEW S, NEW s \in Seq(S), NEW n \in Nat, Len(s) = n + 1
    PROVE  /\ Tail(s) \in Seq(S) /\ Len(Tail(s)) = n
           /\ \A j \in 1 .. n : Tail(s)[j] = s[j + 1]
<1>1. s # << >> /\ n + 1 - 1 = n
  OBVIOUS
<1> QED BY <1>1, HeadTailProperties

LEMMA Shifted ==
    ASSUME NEW S, NEW s \in Seq(S), NEW n \in Nat, Len(s) = n + 1, NEW a \in S
    PROVE  /\ Append(Tail(s), a) \in Seq(S) /\ Len(Append(Tail(s), a)) = n + 1
           /\ \A j \in 1 .. n : Append(Tail(s), a)[j] = s[j + 1]
           /\ Append(Tail(s), a)[n + 1] = a
<1>1. PICK t \in Seq(S) : t = Tail(s) /\ Len(t) = n /\ \A j \in 1 .. n : t[j] = s[j + 1]
  <2>1. Tail(s) \in Seq(S) /\ Len(Tail(s)) = n /\ \A j \in 1 .. n : Tail(s)[j] = s[j + 1]
    BY Shortened
  <2> QED BY <2>1, Zenon
<1>2. /\ Append(t, a) \in Seq(S) /\ Len(Append(t, a)) = n + 1
      /\ \A j \in 1 .. n : Append(t, a)[j] = t[j]
      /\ Append(t, a)[n + 1] = a
  BY <1>1, Appended
<1> QED BY <1>1, <1>2

\* push_byte keeps the last four bytes.
LEMMA Pushes ==
    \A h \in Seq(Letters), k \in Nat, n \in Nat, s \in Seq(Letters) :
       /\ k + 1 \in 1 .. Len(h) /\ n = (IF k < 4 THEN k ELSE 4)
       /\ Len(s) = n /\ \A j \in 1 .. n : s[j] = h[k - n + j]
       => \E l \in Seq(Letters), m \in Nat :
             /\ l = Proxy!push_byte(s, h[k + 1])
             /\ m = (IF k + 1 < 4 THEN k + 1 ELSE 4) /\ Len(l) = m
             /\ \A j \in 1 .. m : l[j] = h[k + 1 - m + j]
<1>0. SUFFICES ASSUME NEW h \in Seq(Letters), NEW k \in Nat, NEW n \in Nat, NEW s \in Seq(Letters),
                      k + 1 \in 1 .. Len(h), n = (IF k < 4 THEN k ELSE 4),
                      Len(s) = n, \A j \in 1 .. n : s[j] = h[k - n + j]
      PROVE  \E l \in Seq(Letters), m \in Nat :
               /\ l = Proxy!push_byte(s, h[k + 1])
               /\ m = (IF k + 1 < 4 THEN k + 1 ELSE 4) /\ Len(l) = m
               /\ \A j \in 1 .. m : l[j] = h[k + 1 - m + j]
  BY ZenonT(40)
<1>1. PICK a \in Letters : a = h[k + 1]
  BY <1>0
<1>2. CASE k < 4
  <2>1. PICK l : l = Append(s, a) /\ l = Proxy!push_byte(s, h[k + 1])
    BY <1>0, <1>1, <1>2 DEF Proxy!push_byte
  <2>2. Len(s) = k /\ \A j \in 1 .. k : s[j] = h[j]
    <3>1. n = k /\ \A j \in 1 .. k : k - k + j = j
      BY <1>0, <1>2
    <3> QED BY <1>0, <3>1
  <2>3. l \in Seq(Letters) /\ Len(l) = k + 1 /\ (\A j \in 1 .. k : l[j] = s[j]) /\ l[k + 1] = a
    <3>1. Len(s) = k
      BY <2>2
    <3>2. l = Append(s, a)
      BY <2>1
    <3>3. /\ Append(s, a) \in Seq(Letters) /\ Len(Append(s, a)) = k + 1
          /\ \A j \in 1 .. k : Append(s, a)[j] = s[j]
          /\ Append(s, a)[k + 1] = a
      BY <3>1, Appended
    <3> QED BY <3>2, <3>3
  <2>4. ASSUME NEW j \in 1 .. k + 1 PROVE l[j] = h[k + 1 - (k + 1) + j]
    <3>1. k + 1 - (k + 1) + j = j /\ (j \in 1 .. k \/ j = k + 1)
      OBVIOUS
    <3> QED BY <1>1, <2>2, <2>3, <3>1
  <2>5. k + 1 = (IF k + 1 < 4 THEN k + 1 ELSE 4) /\ k + 1 \in Nat
    BY <1>2
  <2> QED BY <2>1, <2>3, <2>4, <2>5, Zenon
<1>3. CASE k >= 4
  <2>1. Len(s) = 4 /\ \A j \in 1 .. 4 : s[j] = h[k - 4 + j]
    BY <1>0, <1>3
  <2>2. PICK l : l = Append(Tail(s), a) /\ l = Proxy!push_byte(s, h[k + 1])
    <3>1. ~ Len(s) < 4
      BY <2>1
    <3> QED BY <1>1, <3>1 DEF Proxy!push_byte
  <2>3. l \in Seq(Letters) /\ Len(l) = 4 /\ (\A j \in 1 .. 3 : l[j] = s[j + 1]) /\ l[4] = a
    <3>1. Len(s) = 4
      BY <2>1
    <3>2. l = Append(Tail(s), a)
      BY <2>2
    <3>3. PICK q \in Nat : q = 3 /\ q + 1 = 4
      OBVIOUS
    <3>4. Len(s) = q + 1
      BY <3>1, <3>3
    <3>5. /\ Append(Tail(s), a) \in Seq(Letters) /\ Len(Append(Tail(s), a)) = q + 1
          /\ \A j \in 1 .. q : Append(Tail(s), a)[j] = s[j + 1]
          /\ Append(Tail(s), a)[q + 1] = a
      BY <3>4, Shifted
    <3> QED BY <3>2, <3>3, <3>5, Zenon
  <2>4. ASSUME NEW j \in 1 .. 4 PROVE l[j] = h[k + 1 - 4 + j]
    <3>1. CASE j \in 1 .. 3
      <4>1. j + 1 \in 1 .. 4 /\ k - 4 + (j + 1) = k + 1 - 4 + j
        BY <3>1
      <4>2. s[j + 1] = h[k - 4 + (j + 1)]
        BY <2>1, <4>1
      <4> QED BY <2>3, <3>1, <4>1, <4>2
    <3>2. CASE j = 4
      BY <1>1, <2>3, <3>2
    <3> QED BY <3>1, <3>2
  <2>5. 4 = (IF k + 1 < 4 THEN k + 1 ELSE 4) /\ 4 \in Nat
    BY <1>3
  <2> QED BY <2>2, <2>3, <2>4, <2>5, Zenon
<1> QED BY <1>2, <1>3

LEMMA ReadsHead ==
    ASSUME NEW h, NEW g, IsSegment(h, g), NEW k \in Nat, NEW e, HasRead(h, g, k, e), k < Len(h)
    PROVE  HasRead(h, g, k + 1, Proxy!Byte(e, SegByte(h, g, k + 1)))
<1> DEFINE b == SegByte(h, g, k + 1)
           f == Proxy!Byte(e, b)
           H == Len(h)
           N == SegLen(h, g)
<1>1. h \in Seq(Letters) /\ H \in {4, 7} /\ N \in Nat /\ N > H + 3 /\ k < H
  BY SegmentTypes, Heads DEF IsSegment
<1>2. b = h[k + 1]
  BY <1>1 DEF SegByte
<1>3. InHead(h, k, e) /\ e \in Extractor /\ e.last \in Seq(Letters)
  BY DEF HasRead, Extractor
<1>4. PICK l \in Seq(Letters), m \in Nat :
        /\ l = Proxy!push_byte(e.last, b)
        /\ m = (IF k + 1 < 4 THEN k + 1 ELSE 4) /\ Len(l) = m
        /\ \A j \in 1 .. m : l[j] = h[k + 1 - m + j]
  <2>1. k + 1 \in 1 .. Len(h)
    BY <1>1
  <2>2. PICK n \in Nat : n = (IF k < 4 THEN k ELSE 4)
    OBVIOUS
  <2>3. Len(e.last) = n /\ \A j \in 1 .. n : e.last[j] = h[k - n + j]
    BY <1>3, <2>2 DEF InHead
  <2> DEFINE s == e.last
  <2>4. s \in Seq(Letters) /\ Len(s) = n /\ \A j \in 1 .. n : s[j] = h[k - n + j]
    BY <1>3, <2>3
  <2> HIDE DEF s
  <2>5. \E l \in Seq(Letters), m \in Nat :
          /\ l = Proxy!push_byte(s, h[k + 1])
          /\ m = (IF k + 1 < 4 THEN k + 1 ELSE 4) /\ Len(l) = m
          /\ \A j \in 1 .. m : l[j] = h[k + 1 - m + j]
    BY <1>1, <2>1, <2>2, <2>4, Pushes, ZenonT(40)
  <2> QED BY <1>2, <2>5 DEF s
<1>5. f = [e EXCEPT !.last = l, !.part = IF Proxy!is_crlfcrlf(l) THEN "CONTENT" ELSE "HEADER"]
  BY <1>3, <1>4 DEF Proxy!Byte, InHead
<1>6. /\ f \in Extractor /\ f.last = l /\ f.buffer = << >> /\ f.matched = 0
      /\ f.part = IF Proxy!is_crlfcrlf(l) THEN "CONTENT" ELSE "HEADER"
  BY <1>3, <1>4, <1>5 DEF Extractor, InHead
<1> HIDE DEF f, b
<1>7. Proxy!is_crlfcrlf(l) <=> k + 1 = H
  <2>1. CASE k + 1 < 4
    <3>1. m = k + 1 /\ k + 1 # 4 /\ k + 1 # 7
      BY <1>4, <2>1
    <3>2. Len(l) # 4 /\ k + 1 # H
      BY <1>1, <1>4, <3>1, Zenon
    <3> QED BY <3>2 DEF Proxy!is_crlfcrlf
  <2>2. CASE k + 1 >= 4
    <3>1. Len(l) = 4 /\ k + 1 \in Nat /\ k + 1 >= 4 /\ k + 1 <= Len(h) /\ m = 4
      BY <1>1, <1>4, <2>2
    <3>2. \A j \in 1 .. 4 : l[j] = h[k + 1 - 4 + j]
      BY <1>4, <3>1
    <3>3. h = FirstHead \/ h = PartHead
      BY DEF IsSegment
    <3> QED BY SMTT(40), <3>1, <3>2, <3>3, HeadEnds
  <2> QED BY <2>1, <2>2
<1>8. ASSUME k + 1 < H PROVE HasRead(h, g, k + 1, f)
  <2>1. f.part = "HEADER"
    BY <1>1, <1>6, <1>7, <1>8
  <2>2. InHead(h, k + 1, f)
    <3>1. Len(f.last) = m /\ \A j \in 1 .. m : f.last[j] = h[k + 1 - m + j]
      BY <1>4, <1>6
    <3> QED BY <1>4, <1>6, <2>1, <3>1 DEF InHead
  <2>3. k + 1 \in 0 .. N
    BY <1>1, <1>8
  <2> QED BY <1>6, <1>8, <2>2, <2>3, Zenon DEF HasRead
<1>9. ASSUME k + 1 = H PROVE HasRead(h, g, k + 1, f)
  <2>1. f.part = "CONTENT" /\ Len(f.last) = 4
    <3>1. k + 1 = 4 \/ k + 1 = 7
      BY <1>1, <1>9
    <3>2. m = 4
      BY <1>4, <3>1
    <3> QED BY <1>4, <1>6, <1>7, <1>9, <3>2, Zenon
  <2>2. k + 1 - H = 0 /\ Len(f.buffer) = 0
    BY <1>1, <1>6, <1>9
  <2>3. k + 1 # N /\ k + 1 # N - 1 /\ k + 1 \in 0 .. N /\ ~ k + 1 < H
    BY <1>1, <1>9
  <2>4. InContent(h, g, k + 1, f)
    BY <1>6, <2>1, <2>2, <2>3 DEF InContent
  <2> QED BY <1>6, <2>3, <2>4, Zenon DEF HasRead
<1>10. k + 1 < H \/ k + 1 = H
  BY <1>1
<1> QED BY <1>8, <1>9, <1>10 DEF f, b

\* In the content a boundary is found at the end of the segment only.
LEMMA NoBoundaryBefore ==
    ASSUME NEW h, NEW g, IsSegment(h, g), NEW k \in Nat, k > Len(h), k < SegLen(h, g),
           SegByte(h, g, k) = "-", SegByte(h, g, k + 1) = "b"
    PROVE  k = SegLen(h, g) - 1
<1>1. /\ Len(h) \in {4, 7} /\ Len(g) \in Nat /\ SegLen(h, g) = Len(h) + Len(g) + 4
      /\ \A j \in 1 .. Len(g) - 1 : <<g[j], g[j + 1]>> # <<"-", "b">>
  BY SegmentTypes DEF IsSegment
<1>2. CASE k < Len(h) + Len(g)
  <2>1. SegByte(h, g, k) = g[k - Len(h)] /\ SegByte(h, g, k + 1) = g[k - Len(h) + 1]
    BY <1>1, <1>2 DEF SegByte
  <2>2. k - Len(h) \in 1 .. Len(g) - 1
    BY <1>1, <1>2
  <2> QED BY <1>1, <2>1, <2>2
<1>3. CASE k = Len(h) + Len(g)
  <2>1. SegByte(h, g, k + 1) = Ending[1]
    BY <1>1, <1>3 DEF SegByte
  <2> QED BY <2>1 DEF Ending
<1>4. CASE k > Len(h) + Len(g)
  <2>1. SegByte(h, g, k) = Ending[k - Len(h) - Len(g)] /\ k - Len(h) - Len(g) \in 1 .. 3
    BY <1>1, <1>4 DEF SegByte
  <2>2. k - Len(h) - Len(g) = 3
    BY <2>1 DEF Ending
  <2> QED BY <1>1, <2>2
<1> QED BY SMTT(40), <1>1, <1>2, <1>3, <1>4

LEMMA EndingBytes ==
    ASSUME NEW h, NEW g, IsSegment(h, g)
    PROVE  LET n == SegLen(h, g) IN
           SegByte(h, g, n) = "b" /\ SegByte(h, g, n - 1) = "-" /\ SegByte(h, g, n - 2) = "LF"
<1>1. Len(h) \in {4, 7} /\ Len(g) \in Nat /\ SegLen(h, g) = Len(h) + Len(g) + 4
  BY SegmentTypes
<1> DEFINE n == SegLen(h, g)
<1>2. SegByte(h, g, n) = Ending[4] /\ SegByte(h, g, n - 1) = Ending[3] /\ SegByte(h, g, n - 2) = Ending[2]
  BY <1>1 DEF SegByte
<1> QED BY <1>2 DEF Ending

LEMMA ReadsContent ==
    ASSUME NEW h, NEW g, IsSegment(h, g), NEW k \in Nat, NEW e, HasRead(h, g, k, e),
           k >= Len(h), k < SegLen(h, g), Len(e.buffer) < BUFFER_SIZE
    PROVE  HasRead(h, g, k + 1, Proxy!Byte(e, SegByte(h, g, k + 1)))
<1> DEFINE b == SegByte(h, g, k + 1)
           f == Proxy!Byte(e, b)
           n == SegLen(h, g)
<1>1. Len(h) \in {4, 7} /\ Len(g) \in Nat /\ n = Len(h) + Len(g) + 4 /\ k + 1 \in 1 .. n /\ b \in Letters
  BY SegmentTypes
<1>2. InContent(h, g, k, e) /\ e \in Extractor /\ e.buffer \in Seq(Letters) /\ e.matched \in {0, 1, 2}
  BY <1>1 DEF HasRead, Extractor
<1>3. e.matched \in {0, 1}
  BY <1>2 DEF InContent
<1> DEFINE m == Proxy!search_pattern_compare(e.matched, b)
<1>4. m = IF e.matched = 0 THEN (IF b = "-" THEN 1 ELSE 0) ELSE IF b = "b" THEN 2 ELSE 0
  BY <1>3 DEF Proxy!search_pattern_compare, Proxy!BOUNDARY
<1>5. f = [e EXCEPT !.buffer = Append(e.buffer, b), !.matched = m]
  BY <1>2 DEF Proxy!Byte, InContent
<1> HIDE DEF m
<1>6. m \in 0 .. 2 /\ Append(e.buffer, b) \in Seq(Letters)
  BY <1>1, <1>2, <1>4
<1>7. f \in Extractor /\ f.part = "CONTENT" /\ f.last = e.last /\ f.buffer = Append(e.buffer, b)
      /\ f.matched = m
  BY <1>2, <1>5, <1>6 DEF Extractor, InContent
<1> HIDE DEF f
<1>8. Len(f.buffer) = k + 1 - Len(h)
  <2>1. PICK q \in Nat : Len(e.buffer) = q
    BY <1>2, LenProperties
  <2>2. Len(Append(e.buffer, b)) = q + 1
    BY <1>1, <1>2, <2>1, Appended
  <2>3. q = k - Len(h)
    BY <1>2, <2>1 DEF InContent
  <2> QED BY <1>1, <1>7, <2>2, <2>3
<1>9. ASSUME NEW j \in 1 .. k + 1 - Len(h) PROVE f.buffer[j] = SegByte(h, g, Len(h) + j)
  <2>1. Len(e.buffer) = k - Len(h) /\ \A i \in 1 .. k - Len(h) : e.buffer[i] = SegByte(h, g, Len(h) + i)
    BY <1>2 DEF InContent
  <2>0. PICK q \in Nat : q = k - Len(h)
    BY <1>1
  <2>4. Len(e.buffer) = q
    BY <2>0, <2>1
  <2>5. (\A i \in 1 .. q : f.buffer[i] = e.buffer[i]) /\ f.buffer[q + 1] = b
    <3>1. (\A i \in 1 .. q : Append(e.buffer, b)[i] = e.buffer[i]) /\ Append(e.buffer, b)[q + 1] = b
      BY <1>1, <1>2, <2>4, Appended
    <3> QED BY <1>7, <3>1
  <2>2. CASE j <= k - Len(h)
    <3>1. j \in 1 .. q /\ j \in 1 .. k - Len(h)
      BY <1>1, <2>0, <2>2
    <3> QED BY <2>1, <2>5, <3>1, Zenon
  <2>3. CASE j = k - Len(h) + 1
    <3>1. Len(h) + j = k + 1 /\ j = q + 1
      BY <1>1, <2>0, <2>3
    <3> QED BY <2>5, <3>1, Zenon
  <2> QED BY <1>1, <2>2, <2>3
<1>10. m = 1 => b = "-"
  BY <1>3, <1>4
<1>11. m = 2 => k + 1 = n
  <2> SUFFICES ASSUME m = 2 PROVE k + 1 = n
    OBVIOUS
  <2>1. e.matched = 1 /\ b = "b"
    BY <1>3, <1>4
  <2>2. k > Len(h) /\ SegByte(h, g, k) = "-"
    BY <1>2, <2>1 DEF InContent
  <2>3. k = n - 1
    BY <2>1, <2>2, NoBoundaryBefore
  <2> QED BY <1>1, <2>3
<1>12. k + 1 = n => m = 2
  <2> SUFFICES ASSUME k + 1 = n PROVE m = 2
    OBVIOUS
  <2>1. e.matched = 1
    <3>1. k = n - 1
      BY <1>1
    <3> QED BY <1>2, <3>1 DEF InContent
  <2>2. b = "b"
    BY EndingBytes
  <2> QED BY <1>4, <2>1, <2>2
<1>13. k + 1 = n - 1 => m = 1
  <2> SUFFICES ASSUME k + 1 = n - 1 PROVE m = 1
    OBVIOUS
  <2>1. k = n - 2
    BY <1>1
  <2>2. b = "-" /\ SegByte(h, g, k) = "LF"
    BY <2>1, EndingBytes
  <2>3. e.matched = 0
    BY <1>2, <1>3, <2>2 DEF InContent
  <2> QED BY <1>4, <2>2, <2>3
<1>14. Len(f.last) = 4 /\ k + 1 > Len(h) /\ ~ k + 1 < Len(h) /\ k + 1 \in 0 .. n
  BY <1>1, <1>2, <1>7 DEF InContent
<1>15. InContent(h, g, k + 1, f)
  BY <1>7, <1>8, <1>9, <1>10, <1>11, <1>12, <1>13, <1>14 DEF InContent
<1>16. HasRead(h, g, k + 1, f)
  BY <1>7, <1>14, <1>15, Zenon DEF HasRead
<1> QED BY <1>16 DEF f

LEMMA ReadsTooMuch ==
    ASSUME NEW h, NEW g, IsSegment(h, g), NEW k \in Nat, NEW e, HasRead(h, g, k, e),
           k >= Len(h), k < SegLen(h, g), ~ Len(e.buffer) < BUFFER_SIZE, NEW b
    PROVE  Overrun(g, Proxy!Byte(e, b))
<1>1. Len(h) \in {4, 7} /\ Len(g) \in Nat /\ SegLen(h, g) = Len(h) + Len(g) + 4
  BY SegmentTypes
<1>2. InContent(h, g, k, e) /\ e \in Extractor
  BY <1>1 DEF HasRead
<1>3. Len(e.buffer) = k - Len(h) /\ e.part = "CONTENT" /\ Len(e.last) = 4 /\ e.matched # 2
  BY <1>1, <1>2 DEF InContent
<1>4. Proxy!Byte(e, b) = [e EXCEPT !.part = "OVERRUN"]
  BY <1>3 DEF Proxy!Byte
<1>5. BUFFER_SIZE < Len(g) + 4
  BY <1>1, <1>3, BufferAssumption
<1> QED BY <1>2, <1>3, <1>4, <1>5 DEF Overrun, Extractor

\* The next byte of a segment is read, or there is no room for it.
LEMMA ReadsByte ==
    ASSUME NEW h, NEW g, IsSegment(h, g), NEW k \in Nat, NEW e, HasRead(h, g, k, e), k < SegLen(h, g)
    PROVE  \/ HasRead(h, g, k + 1, Proxy!Byte(e, SegByte(h, g, k + 1)))
           \/ Overrun(g, Proxy!Byte(e, SegByte(h, g, k + 1)))
<1>1. k < Len(h) \/ k >= Len(h)
  BY SegmentTypes
<1>2. CASE k < Len(h)
  BY <1>2, ReadsHead
<1>3. CASE k >= Len(h) /\ Len(e.buffer) < BUFFER_SIZE
  BY <1>3, ReadsContent
<1>4. CASE k >= Len(h) /\ ~ Len(e.buffer) < BUFFER_SIZE
  BY <1>4, ReadsTooMuch
<1> QED BY <1>1, <1>2, <1>3, <1>4

\* What is modelled of an overrun is that it has happened.
LEMMA StaysOverrun ==
    ASSUME NEW g, NEW e, Overrun(g, e)
    PROVE  ~ Proxy!search_pattern_matches(e) /\ \A b : Overrun(g, Proxy!Byte(e, b))
<1>1. e.part = "OVERRUN" /\ e.matched # 2
  BY DEF Overrun
<1>2. ~ Proxy!search_pattern_matches(e)
  BY <1>1 DEF Proxy!search_pattern_matches, Proxy!BOUNDARY
<1>3. ASSUME NEW b PROVE Overrun(g, Proxy!Byte(e, b))
  <2>1. Proxy!Byte(e, b) = [e EXCEPT !.part = "OVERRUN"]
    BY <1>1 DEF Proxy!Byte
  <2>2. [e EXCEPT !.part = "OVERRUN"] = e
    BY <1>1 DEF Overrun
  <2> QED BY <2>1, <2>2
<1> QED BY <1>2, <1>3

LEMMA Matches ==
    ASSUME NEW h, NEW g, IsSegment(h, g), NEW k, NEW e, HasRead(h, g, k, e)
    PROVE  Proxy!search_pattern_matches(e) <=> k = SegLen(h, g)
<1>1. Proxy!search_pattern_matches(e) <=> e.matched = 2
  BY DEF Proxy!search_pattern_matches, Proxy!BOUNDARY
<1>2. CASE k < Len(h)
  <2>1. e.matched = 0 /\ k # SegLen(h, g)
    BY <1>2, SegmentTypes DEF HasRead, InHead
  <2> QED BY <1>1, <2>1
<1>3. CASE ~ k < Len(h)
  BY <1>1, <1>3 DEF HasRead, InContent
<1> QED BY <1>2, <1>3

-----------------------------------------------------------------------------
(* The loop of extract_data.  Scan is recursive: first its equation, as    *)
(* that of Found in Proto2_proofs.                                         *)

Turns(t, n, e, s) ==
    t = [i \in 0 .. n |->
           IF i = 0 THEN {[ext |-> e, read |-> 0]}
           ELSE {IF Proxy!search_pattern_matches(r.ext) THEN r
                 ELSE [ext |-> Proxy!Byte(r.ext, s[i]), read |-> i] : r \in t[i - 1]}]

LEMMA ScanDef ==
    ASSUME NEW e, NEW s, NEW n \in Nat, Len(s) = n
    PROVE  \E t : Turns(t, n, e, s) /\ Proxy!Scan(e, s) = t[n]
<1> DEFINE Value(t, i) ==
             IF i = 0 THEN {[ext |-> e, read |-> 0]}
             ELSE {IF Proxy!search_pattern_matches(r.ext) THEN r
                   ELSE [ext |-> Proxy!Byte(r.ext, s[i]), read |-> i] : r \in t[i - 1]}
           Is(t, m) == t = [i \in 0 .. m |-> Value(t, i)]
           T == {m \in Nat : \E t : Is(t, m)}
<1>1. 0 \in T
  <2>1. Is([i \in 0 .. 0 |-> {[ext |-> e, read |-> 0]}], 0)
    OBVIOUS
  <2> QED BY <2>1
<1>2. ASSUME NEW m \in T PROVE m + 1 \in T
  <2>1. PICK g : Is(g, m)
    BY <1>2
  <2> DEFINE h == [i \in 0 .. m + 1 |-> IF i <= m THEN g[i] ELSE Value(g, m + 1)]
  <2>2. Is(h, m + 1)
    <3>1. m \in Nat
      OBVIOUS
    <3>2. ASSUME NEW i \in 0 .. m + 1 PROVE h[i] = Value(h, i)
      <4>1. CASE i = 0
        <5>1. h[i] = g[i] /\ g[i] = Value(g, i)
          BY <2>1, <3>1, <4>1
        <5> QED BY <4>1, <5>1
      <4>2. CASE i \in 1 .. m
        <5>0. i \in 0 .. m /\ i \in 0 .. m + 1 /\ i <= m /\ i - 1 \in 0 .. m + 1 /\ i - 1 <= m /\ i # 0
          BY <3>1, <4>2
        <5>1. h[i] = g[i] /\ g[i] = Value(g, i) /\ i - 1 \in 0 .. m + 1 /\ i - 1 <= m /\ i # 0
          <6> HIDE DEF Value
          <6> QED BY <2>1, <5>0
        <5>2. h[i - 1] = g[i - 1]
          BY <5>1
        <5> HIDE DEF h
        <5> QED BY <5>1, <5>2
      <4>3. CASE i = m + 1
        <5>1. h[i] = Value(g, i) /\ i - 1 \in 0 .. m + 1 /\ i - 1 <= m /\ i # 0
          BY <3>1, <4>3
        <5>2. h[i - 1] = g[i - 1]
          BY <5>1
        <5> HIDE DEF h
        <5> QED BY <5>1, <5>2
      <4> QED BY <3>1, <4>1, <4>2, <4>3
    <3> HIDE DEF Value
    <3> QED BY <3>2
  <2>3. m + 1 \in Nat
    OBVIOUS
  <2> HIDE DEF Is, h
  <2> QED BY <2>2, <2>3
<1>3. n \in T
  <2> HIDE DEF T
  <2>1. Nat \subseteq T
    BY <1>1, <1>2, NatSetInduction
  <2> QED BY <2>1
<1> DEFINE U == CHOOSE t : Is(t, n)
<1>4. Is(U, n)
  <2>1. \E t : Is(t, n)
    BY <1>3
  <2> HIDE DEF Is
  <2> QED BY <2>1
<1>5. Proxy!Scan(e, s) = U[n]
  BY DEF Proxy!Scan
<1>6. Turns(U, n, e, s)
  BY <1>4 DEF Turns
<1> QED BY <1>5, <1>6

\* The bytes s go on a segment of which k bytes have been read; what Scan makes
\* of n such bytes.
GoesOn(h, g, k, s) == \A j \in 1 .. Len(s) : k + j <= SegLen(h, g) => s[j] = SegByte(h, g, k + j)

ReadOn(h, g, k, e, s, n) ==
    \E x : \E m \in Nat :
        /\ Proxy!Scan(e, s) = {[ext |-> x, read |-> m]}
        /\ \/ /\ m = (IF k + n <= SegLen(h, g) THEN n ELSE SegLen(h, g) - k)
              /\ HasRead(h, g, k + m, x)
           \/ Overrun(g, x)

\* Bytes s that go on a segment of which k bytes have been read are read up to
\* the segment's end, where the image is found, or there is no room for them.
LEMMA Scans ==
    ASSUME NEW h, NEW g, IsSegment(h, g), NEW k \in Nat, NEW e, HasRead(h, g, k, e),
           NEW n \in Nat, NEW s, Len(s) = n, GoesOn(h, g, k, s)
    PROVE  ReadOn(h, g, k, e, s, n)
<1> DEFINE L == SegLen(h, g)
           M(i) == IF k + i <= L THEN i ELSE L - k
<1>1. L \in Nat /\ k <= L
  BY SegmentTypes DEF HasRead
<1>2. PICK t : Turns(t, n, e, s) /\ Proxy!Scan(e, s) = t[n]
  BY ScanDef
<1>3. /\ t[0] = {[ext |-> e, read |-> 0]}
      /\ \A i \in 1 .. n : t[i] = {IF Proxy!search_pattern_matches(r.ext) THEN r
                                   ELSE [ext |-> Proxy!Byte(r.ext, s[i]), read |-> i] : r \in t[i - 1]}
  <2>1. t[0] = {[ext |-> e, read |-> 0]}
    BY <1>2 DEF Turns
  <2>2. ASSUME NEW i \in 1 .. n
        PROVE  t[i] = {IF Proxy!search_pattern_matches(r.ext) THEN r
                       ELSE [ext |-> Proxy!Byte(r.ext, s[i]), read |-> i] : r \in t[i - 1]}
    <3>1. i \in 0 .. n /\ i # 0
      OBVIOUS
    <3> QED BY <1>2, <3>1, Zenon DEF Turns
  <2> QED BY <2>1, <2>2
<1> DEFINE R(i, x) == t[i] = {[ext |-> x, read |-> M(i)]} /\ HasRead(h, g, k + M(i), x)
           O(i, x) == t[i] = {[ext |-> x, read |-> i]} /\ Overrun(g, x)
           P(i) == i <= n => \E x : R(i, x) \/ O(i, x)
           T == {i \in Nat : P(i)}
<1>4. 0 \in T
  <2>1. M(0) = 0 /\ k + 0 = k
    BY <1>1
  <2>2. R(0, e)
    <3> HIDE DEF M
    <3> QED BY <1>3, <2>1
  <2> HIDE DEF R, O
  <2> QED BY <2>2
<1>5. ASSUME NEW i \in T PROVE i + 1 \in T
  <2> SUFFICES ASSUME i + 1 <= n PROVE \E x : R(i + 1, x) \/ O(i + 1, x)
    <3> HIDE DEF R, O
    <3> QED OBVIOUS
  <2>1. i \in Nat /\ i <= n /\ i + 1 \in 1 .. n /\ i + 1 - 1 = i
    OBVIOUS
  <2>2. PICK x : R(i, x) \/ O(i, x)
    <3> HIDE DEF R, O
    <3> QED BY <1>5, <2>1
  <2>3. ASSUME NEW c, t[i] = {[ext |-> x, read |-> c]}
        PROVE  t[i + 1] = {IF Proxy!search_pattern_matches(x) THEN [ext |-> x, read |-> c]
                           ELSE [ext |-> Proxy!Byte(x, s[i + 1]), read |-> i + 1]}
    <3>1. t[i + 1] = {IF Proxy!search_pattern_matches(q.ext) THEN q
                      ELSE [ext |-> Proxy!Byte(q.ext, s[i + 1]), read |-> i + 1] : q \in t[i]}
      BY <1>3, <2>1
    <3> QED BY <2>3, <3>1
  <2>4. CASE O(i, x)
    <3>1. t[i] = {[ext |-> x, read |-> i]} /\ Overrun(g, x)
      BY <2>4
    <3>2. ~ Proxy!search_pattern_matches(x) /\ Overrun(g, Proxy!Byte(x, s[i + 1]))
      BY <3>1, StaysOverrun
    <3>3. O(i + 1, Proxy!Byte(x, s[i + 1]))
      BY <2>3, <3>1, <3>2
    <3> HIDE DEF O, R
    <3> QED BY <3>3
  <2>5. CASE R(i, x) /\ k + i < L
    <3>1. M(i) = i /\ M(i + 1) = i + 1 /\ k + (i + 1) = k + i + 1 /\ k + i \in Nat /\ k + (i + 1) <= L
      BY <1>1, <2>1, <2>5
    <3>2. t[i] = {[ext |-> x, read |-> i]} /\ HasRead(h, g, k + i, x)
      <4> HIDE DEF M
      <4> QED BY <2>5, <3>1
    <3>3. ~ Proxy!search_pattern_matches(x)
      BY <1>1, <2>1, <2>5, <3>2, Matches
    <3>4. s[i + 1] = SegByte(h, g, k + i + 1)
      <4> HIDE DEF M, R
      <4> QED BY <2>1, <3>1 DEF GoesOn
    <3> DEFINE y == Proxy!Byte(x, SegByte(h, g, k + i + 1))
    <3>5. t[i + 1] = {[ext |-> y, read |-> i + 1]}
      BY <2>3, <3>2, <3>3, <3>4
    <3>6. HasRead(h, g, k + i + 1, y) \/ Overrun(g, y)
      BY <2>5, <3>1, <3>2, ReadsByte
    <3> HIDE DEF y, M
    <3>7. R(i + 1, y) \/ O(i + 1, y)
      BY <3>1, <3>5, <3>6
    <3> HIDE DEF R, O
    <3> QED BY <3>7
  <2>6. CASE R(i, x) /\ k + i >= L
    <3>1. M(i) = L - k /\ M(i + 1) = M(i) /\ k + M(i) = L
      <4> HIDE DEF L, R
      <4>1. ~ k + (i + 1) <= L /\ (k + i <= L => i = L - k)
        BY <1>1, <2>1, <2>6
      <4> QED BY <1>1, <2>1, <4>1
    <3> HIDE DEF M
    <3>2. t[i] = {[ext |-> x, read |-> M(i)]} /\ HasRead(h, g, k + M(i), x)
      BY <2>6
    <3>3. Proxy!search_pattern_matches(x)
      BY <3>1, <3>2, Matches
    <3>4. t[i + 1] = {[ext |-> x, read |-> M(i)]}
      BY <2>3, <3>2, <3>3
    <3>5. R(i + 1, x)
      BY <3>1, <3>2, <3>4
    <3> HIDE DEF R, O
    <3> QED BY <3>5
  <2>7. k + i < L \/ k + i >= L
    BY <1>1, <2>1
  <2> HIDE DEF R, O
  <2> QED BY <2>2, <2>4, <2>5, <2>6, <2>7
<1>6. n \in T
  <2> HIDE DEF T
  <2>1. Nat \subseteq T
    BY <1>4, <1>5, NatSetInduction
  <2> QED BY <2>1
<1>7. PICK x : R(n, x) \/ O(n, x)
  <2> HIDE DEF R, O
  <2> QED BY <1>6
<1>8. CASE R(n, x)
  <2>1. PICK m \in Nat : m = M(n)
    <3>1. M(n) \in Nat
      BY <1>1
    <3> QED BY <3>1
  <2>2. m = (IF k + n <= SegLen(h, g) THEN n ELSE SegLen(h, g) - k)
    BY <2>1
  <2> HIDE DEF M
  <2>3. Proxy!Scan(e, s) = {[ext |-> x, read |-> m]} /\ HasRead(h, g, k + m, x)
    BY <1>2, <1>8, <2>1
  <2> QED BY <2>1, <2>2, <2>3, Zenon DEF ReadOn
<1>9. CASE O(n, x)
  <2>1. Proxy!Scan(e, s) = {[ext |-> x, read |-> n]} /\ Overrun(g, x)
    BY <1>2, <1>9
  <2> QED BY <2>1, Zenon DEF ReadOn
<1> HIDE DEF R, O
<1> QED BY <1>7, <1>8, <1>9

-----------------------------------------------------------------------------
(* The stream of a connection: the header and the parts, cut at the ends   *)
(* of the boundaries.  Segment 0 holds what the extractor takes for a      *)
(* picture, segment i the i-th picture; of the one after the last, the     *)
(* first two bytes have been sent.                                         *)

HeadOf(i)      == IF i = 0 THEN FirstHead ELSE PartHead
ImageOf(gs, i) == IF i = 0 THEN Proxy!FirstImage ELSE IF i <= Len(gs) THEN gs[i] ELSE << >>

Size(gs, i)      == SegLen(HeadOf(i), ImageOf(gs, i))
ByteOf(gs, i, j) == SegByte(HeadOf(i), ImageOf(gs, i), j)

\* The bytes sent for the n pictures gs, and where each segment starts.
Laid(total, st, gs, n) ==
    /\ gs \in Seq(Pictures) /\ n \in Nat /\ Len(gs) = n
    /\ total \in Seq(Letters) /\ st \in [Nat -> Nat] /\ st[0] = 0
    /\ \A i \in 0 .. n : st[i + 1] = st[i] + Size(gs, i) /\ st[i + 1] <= st[n + 1]
    /\ Len(total) = st[n + 1] + 2
    /\ \A i \in 0 .. n + 1 : \A j \in 1 .. Size(gs, i) :
          st[i] + j <= Len(total) => total[st[i] + j] = ByteOf(gs, i, j)

\* Concatenation: the provers do better with a name of their own for it.
Cat(s, t) == s \o t

LEMMA Joined ==
    \A s \in Seq(Letters), t \in Seq(Letters), n \in Nat, m \in Nat :
        Len(s) = n /\ Len(t) = m =>
           /\ Cat(s, t) \in Seq(Letters) /\ Len(Cat(s, t)) = n + m
           /\ \A j \in 1 .. n : Cat(s, t)[j] = s[j]
           /\ \A j \in 1 .. m : Cat(s, t)[n + j] = t[j]
<1> TAKE s \in Seq(Letters), t \in Seq(Letters), n \in Nat, m \in Nat
<1> HAVE Len(s) = n /\ Len(t) = m
<1>1. s \o t \in Seq(Letters) /\ Len(s \o t) = n + m
  BY ConcatProperties
<1>2. \A i \in 1 .. n + m : (s \o t)[i] = IF i <= n THEN s[i] ELSE t[i - n]
  BY ConcatProperties
<1>3. \A j \in 1 .. n : (s \o t)[j] = s[j]
  BY <1>2
<1>4. ASSUME NEW j \in 1 .. m PROVE (s \o t)[n + j] = t[j]
  <2>1. n + j \in 1 .. n + m /\ ~ n + j <= n /\ n + j - n = j
    OBVIOUS
  <2> QED BY <1>2, <2>1
<1> QED BY <1>1, <1>3, <1>4 DEF Cat

LEMMA Cut ==
    ASSUME NEW S, NEW s \in Seq(S), NEW n \in Nat, Len(s) = n,
           NEW a \in Nat, NEW b \in Nat, a <= b, b <= n, NEW q \in Nat, q = b - a
    PROVE  /\ SubSeq(s, a + 1, b) \in Seq(S) /\ Len(SubSeq(s, a + 1, b)) = q
           /\ \A j \in 1 .. q : SubSeq(s, a + 1, b)[j] = s[a + j]
<1>1. \A i \in a + 1 .. b : s[i] \in S
  BY ElementOfSeq
<1>2. a + 1 \in Int /\ b \in Int
  OBVIOUS
<1>3. SubSeq(s, a + 1, b) \in Seq(S)
  BY <1>1, <1>2, SubSeqProperties
<1>4. /\ Len(SubSeq(s, a + 1, b)) = IF a + 1 <= b THEN b - (a + 1) + 1 ELSE 0
      /\ \A i \in 1 .. b - (a + 1) + 1 : SubSeq(s, a + 1, b)[i] = s[a + 1 + i - 1]
  BY <1>1, <1>2, SubSeqProperties
<1>5. Len(SubSeq(s, a + 1, b)) = q
  BY <1>4
<1>6. ASSUME NEW j \in 1 .. q PROVE SubSeq(s, a + 1, b)[j] = s[a + j]
  <2>1. j \in 1 .. b - (a + 1) + 1 /\ a + 1 + j - 1 = a + j
    OBVIOUS
  <2> QED BY <1>4, <2>1
<1> QED BY <1>3, <1>5, <1>6

LEMMA SequencesOver ==
    \A S, T : \A s \in Seq(S) : (\A j \in 1 .. Len(s) : s[j] \in T) => s \in Seq(T)
BY SeqDef, LenProperties

LEMMA PictureLetters == \A p \in Pictures : p \in Seq(Letters)
<1> TAKE p \in Pictures
<1>1. p \in Seq(STRING)
  BY PicturesAssumption
<1>2. \A j \in 1 .. Len(p) : p[j] \in Letters
  BY DEF Letters
<1> QED BY <1>1, <1>2, SequencesOver, Zenon

LEMMA FirstImageFact == Proxy!FirstImage \in Seq(Letters) /\ Len(Proxy!FirstImage) = 3
                    /\ Proxy!FirstImage[1] = "x" /\ Proxy!FirstImage[2] = "CR" /\ Proxy!FirstImage[3] = "LF"
<1>1. <<"x">> \in Seq(Letters) /\ <<"CR", "LF">> \in Seq(Letters) /\ Len(<<"x">>) = 1 /\ Len(<<"CR", "LF">>) = 2
  BY SomeLetters
<1>2. PICK n \in Nat, m \in Nat : n = 1 /\ m = 2 /\ n + m = 3 /\ n + 1 = 2 /\ n + 2 = 3 /\ 1 \in 1 .. n
      /\ 1 \in 1 .. m /\ 2 \in 1 .. m
  OBVIOUS
<1>3. PICK a, b : a = <<"x">> /\ b = <<"CR", "LF">>
  OBVIOUS
<1>4. a \in Seq(Letters) /\ b \in Seq(Letters) /\ Len(a) = n /\ Len(b) = m
  BY <1>1, <1>2, <1>3
<1>5. /\ Cat(a, b) \in Seq(Letters) /\ Len(Cat(a, b)) = n + m
      /\ \A j \in 1 .. n : Cat(a, b)[j] = a[j]
      /\ \A j \in 1 .. m : Cat(a, b)[n + j] = b[j]
  BY <1>4, Joined
<1>6. Proxy!FirstImage = Cat(a, b)
  BY <1>3 DEF Proxy!FirstImage, Proxy!CRLF, Cat
<1>7. a[1] = "x" /\ b[1] = "CR" /\ b[2] = "LF"
  BY <1>3
<1> QED BY <1>2, <1>5, <1>6, <1>7

LEMMA Segments ==
    ASSUME NEW gs \in Seq(Pictures), NEW i \in Nat
    PROVE  IsSegment(HeadOf(i), ImageOf(gs, i))
<1>1. HeadOf(i) = FirstHead \/ HeadOf(i) = PartHead
  BY DEF HeadOf
<1>2. CASE i = 0
  <2>1. ImageOf(gs, i) = Proxy!FirstImage
    BY <1>2 DEF ImageOf
  <2>2. \A j \in 1 .. Len(Proxy!FirstImage) - 1 :
           <<Proxy!FirstImage[j], Proxy!FirstImage[j + 1]>> # <<"-", "b">>
    BY FirstImageFact
  <2> QED BY <1>1, <2>1, <2>2, FirstImageFact DEF IsSegment
<1>3. CASE i # 0 /\ i <= Len(gs)
  <2>1. ImageOf(gs, i) = gs[i] /\ gs[i] \in Pictures
    BY <1>3, ElementOfSeq DEF ImageOf
  <2>2. PICK p \in Pictures : p = ImageOf(gs, i)
    BY <2>1
  <2>3. p \in Seq(Letters) /\ \A j \in 1 .. Len(p) - 1 : <<p[j], p[j + 1]>> # <<"-", "b">>
    BY PictureLetters, PicturesAssumption, Zenon
  <2> QED BY <1>1, <2>2, <2>3, Zenon DEF IsSegment
<1>4. CASE i # 0 /\ ~ i <= Len(gs)
  <2>1. ImageOf(gs, i) = << >>
    BY <1>4 DEF ImageOf
  <2> QED BY <1>1, <2>1 DEF IsSegment
<1> QED BY <1>2, <1>3, <1>4

\* extract_data has read r of q bytes that go on after k bytes of segment m.
Extracted(total, st, gs, m, k, q, r) ==
    /\ net' \in Seq(Letters) /\ Len(net') = q - r
    /\ \A j \in 1 .. q - r : net'[j] = total[st[m] + k + r + j]
    /\ HasRead(HeadOf(m), ImageOf(gs, m), k + r, ext')
    /\ ready' = Proxy!search_pattern_matches(ext')

LEMMA Extracts ==
    ASSUME NEW total, NEW st, NEW gs, NEW n, Laid(total, st, gs, n),
           NEW m \in 0 .. n + 1, NEW k \in Nat, NEW e, HasRead(HeadOf(m), ImageOf(gs, m), k, e),
           NEW q \in Nat, NEW s \in Seq(Letters), Len(s) = q, st[m] + k + q <= Len(total),
           \A j \in 1 .. q : s[j] = total[st[m] + k + j],
           Proxy!extract_data(e, s)
    PROVE  (\E r \in 0 .. q : Extracted(total, st, gs, m, k, q, r)) \/ Overrun(ImageOf(gs, m), ext')
<1>1. n \in Nat /\ gs \in Seq(Pictures) /\ st[m] \in Nat /\ m \in Nat
  BY DEF Laid
<1> DEFINE h == HeadOf(m)
           g == ImageOf(gs, m)
           L == SegLen(h, g)
<1>2. IsSegment(h, g) /\ L \in Nat /\ k <= L
  <2>1. IsSegment(h, g)
    BY <1>1, Segments
  <2>2. L \in Nat
    BY <2>1, SegmentTypes
  <2>3. k <= L
    BY DEF HasRead
  <2> QED BY <2>1, <2>2, <2>3
<1>3. ASSUME NEW j \in 1 .. q, k + j <= L PROVE s[j] = SegByte(h, g, k + j)
  <2>1. k + j \in 1 .. L /\ st[m] + (k + j) <= Len(total) /\ st[m] + (k + j) = st[m] + k + j
    <3>1. PICK T \in Nat : Len(total) = T
      BY LenProperties DEF Laid
    <3> QED BY <1>1, <1>2, <1>3, <3>1
  <2>2. total[st[m] + (k + j)] = SegByte(h, g, k + j)
    BY <2>1 DEF Laid, Size, ByteOf
  <2> QED BY <2>1, <2>2
<1> HIDE DEF h, g
<1>4. PICK x : \E r \in Nat :
             /\ Proxy!Scan(e, s) = {[ext |-> x, read |-> r]}
             /\ \/ /\ r = (IF k + q <= L THEN q ELSE L - k)
                   /\ HasRead(h, g, k + r, x)
                \/ Overrun(g, x)
  <2>1. HasRead(h, g, k, e)
    BY DEF h, g
  <2>2. IsSegment(h, g) /\ GoesOn(h, g, k, s)
    BY <1>2, <1>3 DEF GoesOn
  <2>3. ReadOn(h, g, k, e, s, q)
    <3> HIDE DEF L
    <3> QED BY <2>1, <2>2, Scans
  <2> QED BY <2>3 DEF ReadOn
<1>5. PICK r \in Nat :
             /\ Proxy!Scan(e, s) = {[ext |-> x, read |-> r]}
             /\ \/ /\ r = (IF k + q <= L THEN q ELSE L - k)
                   /\ HasRead(h, g, k + r, x)
                \/ Overrun(g, x)
  BY <1>4
<1>7. ext' = x /\ net' = SubSeq(s, r + 1, Len(s)) /\ ready' = Proxy!search_pattern_matches(x)
  <2>1. PICK y \in Proxy!Scan(e, s) :
          ext' = y.ext /\ net' = SubSeq(s, y.read + 1, Len(s)) /\ ready' = Proxy!search_pattern_matches(y.ext)
    BY DEF Proxy!extract_data
  <2>2. y = [ext |-> x, read |-> r]
    BY <1>5, <2>1
  <2>3. y.ext = x /\ y.read = r
    BY <2>2
  <2> QED BY <2>1, <2>3
<1>8. CASE Overrun(g, x)
  BY <1>7, <1>8 DEF g
<1>9. CASE r = (IF k + q <= L THEN q ELSE L - k) /\ HasRead(h, g, k + r, x)
  <2>1. r <= q /\ r \in 0 .. q
    BY <1>2, <1>9
  <2>2. PICK z \in Nat : z = q - r /\ r <= q /\ q <= q
    BY <2>1
  <2>3. net' = SubSeq(s, r + 1, q)
    BY <1>7
  <2>4. /\ SubSeq(s, r + 1, q) \in Seq(Letters) /\ Len(SubSeq(s, r + 1, q)) = z
        /\ \A j \in 1 .. z : SubSeq(s, r + 1, q)[j] = s[r + j]
    BY <2>2, Cut
  <2>5. net' \in Seq(Letters) /\ Len(net') = z /\ \A j \in 1 .. z : net'[j] = s[r + j]
    BY <2>3, <2>4, Zenon
  <2>6. ASSUME NEW j \in 1 .. z PROVE net'[j] = total[st[m] + k + r + j]
    <3>1. r + j \in 1 .. q /\ st[m] + k + (r + j) = st[m] + k + r + j
      BY <1>1, <2>1, <2>2, SMTT(30)
    <3> QED BY <2>5, <3>1
  <2>7. HasRead(HeadOf(m), ImageOf(gs, m), k + r, ext')
    BY <1>7, <1>9 DEF h, g
  <2>8. Extracted(total, st, gs, m, k, q, r)
    BY <1>7, <2>2, <2>5, <2>6, <2>7, Zenon DEF Extracted
  <2> QED BY <2>1, <2>8
<1> QED BY <1>5, <1>8, <1>9

\* Two letters behind n others.
TwoMore(s, n, c, d) ==
    /\ Cat(s, <<c, d>>) \in Seq(Letters) /\ Len(Cat(s, <<c, d>>)) = n + 2
    /\ \A j \in 1 .. n : Cat(s, <<c, d>>)[j] = s[j]
    /\ Cat(s, <<c, d>>)[n + 1] = c /\ Cat(s, <<c, d>>)[n + 2] = d

LEMMA JoinedTwo ==
    ASSUME NEW s \in Seq(Letters), NEW n \in Nat, Len(s) = n, NEW c \in Letters, NEW d \in Letters
    PROVE  TwoMore(s, n, c, d)
<1>1. PICK t : t = <<c, d>>
  OBVIOUS
<1>2. t \in Seq(Letters)
  BY <1>1
<1>3. Len(t) = 2 /\ t[1] = c /\ t[2] = d
  BY <1>1
<1>4. PICK m \in Nat : m = 2 /\ 1 \in 1 .. m /\ 2 \in 1 .. m
  OBVIOUS
<1>5. Len(t) = m
  BY <1>3, <1>4
<1>6. /\ Cat(s, t) \in Seq(Letters) /\ Len(Cat(s, t)) = n + m
      /\ \A j \in 1 .. n : Cat(s, t)[j] = s[j]
      /\ \A j \in 1 .. m : Cat(s, t)[n + j] = t[j]
  BY <1>2, <1>5, Joined
<1>7. Cat(s, t)[n + 1] = c /\ Cat(s, t)[n + 2] = d
  BY <1>3, <1>4, <1>6
<1> QED BY <1>1, <1>4, <1>6, <1>7 DEF TwoMore

LEMMA EndsLine ==
    \A s \in Seq(Letters), n \in Nat : Len(s) = n =>
       \E t \in Seq(Letters) :
           /\ t = Cat(s, Proxy!CRLF) /\ Len(t) = n + 2 /\ \A j \in 1 .. n : t[j] = s[j]
           /\ t[n + 1] = "CR" /\ t[n + 2] = "LF"
<1>1. "CR" \in Letters /\ "LF" \in Letters /\ Proxy!CRLF = <<"CR", "LF">>
  BY SomeLetters DEF Proxy!CRLF
<1> TAKE s \in Seq(Letters), n \in Nat
<1> HAVE Len(s) = n
<1>2. PICK c \in Letters, d \in Letters : c = "CR" /\ d = "LF"
  BY <1>1
<1>3. TwoMore(s, n, c, d)
  BY JoinedTwo, Zenon
<1> QED BY <1>1, <1>2, <1>3, Zenon DEF TwoMore

LEMMA EndsBoundary ==
    \A s \in Seq(Letters), n \in Nat : Len(s) = n =>
       \E t \in Seq(Letters) :
           /\ t = Cat(s, Proxy!BOUNDARY) /\ Len(t) = n + 2 /\ \A j \in 1 .. n : t[j] = s[j]
           /\ t[n + 1] = "-" /\ t[n + 2] = "b"
<1>1. "-" \in Letters /\ "b" \in Letters /\ Proxy!BOUNDARY = <<"-", "b">>
  BY SomeLetters DEF Proxy!BOUNDARY
<1> TAKE s \in Seq(Letters), n \in Nat
<1> HAVE Len(s) = n
<1>2. PICK c \in Letters, d \in Letters : c = "-" /\ d = "b"
  BY <1>1
<1>3. TwoMore(s, n, c, d)
  BY JoinedTwo, Zenon
<1> QED BY <1>1, <1>2, <1>3, Zenon DEF TwoMore

\* The bytes of the header and of a part.
LEMMA HeaderBytes ==
    /\ Proxy!Header \in Seq(Letters) /\ Len(Proxy!Header) = 13
    /\ Proxy!Header[1] = "O" /\ Proxy!Header[2] = "K" /\ Proxy!Header[3] = "CR" /\ Proxy!Header[4] = "LF"
    /\ Proxy!Header[5] = "x" /\ Proxy!Header[6] = "CR" /\ Proxy!Header[7] = "LF"
    /\ Proxy!Header[8] = "CR" /\ Proxy!Header[9] = "LF" /\ Proxy!Header[10] = "-" /\ Proxy!Header[11] = "b"
    /\ Proxy!Header[12] = "CR" /\ Proxy!Header[13] = "LF"
<1>1. PICK a \in Seq(Letters) : a = <<"O", "K">> /\ Len(a) = 2 /\ a[1] = "O" /\ a[2] = "K"
  <2>1. <<"O", "K">> \in Seq(Letters) /\ Len(<<"O", "K">>) = 2 /\ <<"O", "K">>[1] = "O" /\ <<"O", "K">>[2] = "K"
    BY SomeLetters
  <2> QED BY <2>1, Zenon
<1>2. PICK b \in Seq(Letters) : b = Cat(a, Proxy!CRLF) /\ Len(b) = 4 /\ (\A j \in 1 .. 2 : b[j] = a[j])
        /\ b[3] = "CR" /\ b[4] = "LF"
  <2>1. PICK n \in Nat : n = 2 /\ n + 1 = 3 /\ n + 2 = 4
    OBVIOUS
  <2>2. Len(a) = n
    BY <1>1, <2>1
  <2>3. \E t \in Seq(Letters) :
           /\ t = Cat(a, Proxy!CRLF) /\ Len(t) = n + 2 /\ \A j \in 1 .. n : t[j] = a[j]
           /\ t[n + 1] = "CR" /\ t[n + 2] = "LF"
    BY <2>2, EndsLine
  <2> QED BY <2>1, <2>3, Zenon
<1>3. PICK c \in Seq(Letters) : c = Cat(b, <<"x">>) /\ Len(c) = 5 /\ (\A j \in 1 .. 4 : c[j] = b[j])
      /\ c[5] = "x"
  <2>1. PICK t \in Seq(Letters) : t = <<"x">> /\ Len(t) = 1 /\ t[1] = "x"
    <3>1. <<"x">> \in Seq(Letters) /\ Len(<<"x">>) = 1 /\ <<"x">>[1] = "x"
      BY SomeLetters
    <3> QED BY <3>1, Zenon
  <2>2. PICK n \in Nat, m \in Nat : n = 4 /\ m = 1 /\ 1 \in 1 .. m /\ n + m = 5 /\ n + 1 = 5
    OBVIOUS
  <2>3. Len(b) = n /\ Len(t) = m
    BY <1>2, <2>1, <2>2
  <2>4. /\ Cat(b, t) \in Seq(Letters) /\ Len(Cat(b, t)) = n + m
        /\ \A j \in 1 .. n : Cat(b, t)[j] = b[j]
        /\ \A j \in 1 .. m : Cat(b, t)[n + j] = t[j]
    BY <2>3, Joined
  <2> QED BY <2>1, <2>2, <2>4
<1>4. PICK d \in Seq(Letters) : d = Cat(c, Proxy!CRLF) /\ Len(d) = 7 /\ (\A j \in 1 .. 5 : d[j] = c[j])
        /\ d[6] = "CR" /\ d[7] = "LF"
  <2>1. PICK n \in Nat : n = 5 /\ n + 1 = 6 /\ n + 2 = 7
    OBVIOUS
  <2>2. Len(c) = n
    BY <1>3, <2>1
  <2>3. \E t \in Seq(Letters) :
           /\ t = Cat(c, Proxy!CRLF) /\ Len(t) = n + 2 /\ \A j \in 1 .. n : t[j] = c[j]
           /\ t[n + 1] = "CR" /\ t[n + 2] = "LF"
    BY <2>2, EndsLine
  <2> QED BY <2>1, <2>3, Zenon
<1>5. PICK e \in Seq(Letters) : e = Cat(d, Proxy!CRLF) /\ Len(e) = 9 /\ (\A j \in 1 .. 7 : e[j] = d[j])
        /\ e[8] = "CR" /\ e[9] = "LF"
  <2>1. PICK n \in Nat : n = 7 /\ n + 1 = 8 /\ n + 2 = 9
    OBVIOUS
  <2>2. Len(d) = n
    BY <1>4, <2>1
  <2>3. \E t \in Seq(Letters) :
           /\ t = Cat(d, Proxy!CRLF) /\ Len(t) = n + 2 /\ \A j \in 1 .. n : t[j] = d[j]
           /\ t[n + 1] = "CR" /\ t[n + 2] = "LF"
    BY <2>2, EndsLine
  <2> QED BY <2>1, <2>3, Zenon
<1>6. PICK f \in Seq(Letters) : f = Cat(e, Proxy!BOUNDARY) /\ Len(f) = 11 /\ (\A j \in 1 .. 9 : f[j] = e[j])
        /\ f[10] = "-" /\ f[11] = "b"
  <2>1. PICK n \in Nat : n = 9 /\ n + 1 = 10 /\ n + 2 = 11
    OBVIOUS
  <2>2. Len(e) = n
    BY <1>5, <2>1
  <2>3. \E t \in Seq(Letters) :
           /\ t = Cat(e, Proxy!BOUNDARY) /\ Len(t) = n + 2 /\ \A j \in 1 .. n : t[j] = e[j]
           /\ t[n + 1] = "-" /\ t[n + 2] = "b"
    BY <2>2, EndsBoundary
  <2> QED BY <2>1, <2>3, Zenon
<1>7. PICK g \in Seq(Letters) : g = Cat(f, Proxy!CRLF) /\ Len(g) = 13 /\ (\A j \in 1 .. 11 : g[j] = f[j])
        /\ g[12] = "CR" /\ g[13] = "LF"
  <2>1. PICK n \in Nat : n = 11 /\ n + 1 = 12 /\ n + 2 = 13
    OBVIOUS
  <2>2. Len(f) = n
    BY <1>6, <2>1
  <2>3. \E t \in Seq(Letters) :
           /\ t = Cat(f, Proxy!CRLF) /\ Len(t) = n + 2 /\ \A j \in 1 .. n : t[j] = f[j]
           /\ t[n + 1] = "CR" /\ t[n + 2] = "LF"
    BY <2>2, EndsLine
  <2> QED BY <2>1, <2>3, Zenon
<1>8. g = Proxy!Header
  BY <1>1, <1>2, <1>3, <1>4, <1>5, <1>6, <1>7, Zenon DEF Proxy!Header, Cat
<1>9. b[1] = "O" /\ b[2] = "K" /\ b[3] = "CR" /\ b[4] = "LF"
  <2>1. 1 \in 1 .. 2 /\ 2 \in 1 .. 2
    OBVIOUS
  <2> QED BY <1>1, <1>2, <2>1, Zenon
<1>10. c[1] = "O" /\ c[2] = "K" /\ c[3] = "CR" /\ c[4] = "LF" /\ c[5] = "x"
  <2>1. 1 \in 1 .. 4 /\ 2 \in 1 .. 4 /\ 3 \in 1 .. 4 /\ 4 \in 1 .. 4
    OBVIOUS
  <2> QED BY <1>9, <1>3, <2>1, Zenon
<1>11. d[1] = "O" /\ d[2] = "K" /\ d[3] = "CR" /\ d[4] = "LF" /\ d[5] = "x" /\ d[6] = "CR" /\ d[7] = "LF"
  <2>1. 1 \in 1 .. 5 /\ 2 \in 1 .. 5 /\ 3 \in 1 .. 5 /\ 4 \in 1 .. 5 /\ 5 \in 1 .. 5
    OBVIOUS
  <2> QED BY <1>10, <1>4, <2>1, Zenon
<1>12. e[1] = "O" /\ e[2] = "K" /\ e[3] = "CR" /\ e[4] = "LF" /\ e[5] = "x" /\ e[6] = "CR"
       /\ e[7] = "LF" /\ e[8] = "CR" /\ e[9] = "LF"
  <2>1. 1 \in 1 .. 7 /\ 2 \in 1 .. 7 /\ 3 \in 1 .. 7 /\ 4 \in 1 .. 7 /\ 5 \in 1 .. 7 /\ 6 \in 1 .. 7
        /\ 7 \in 1 .. 7
    OBVIOUS
  <2> QED BY <1>11, <1>5, <2>1, Zenon
<1>13. f[1] = "O" /\ f[2] = "K" /\ f[3] = "CR" /\ f[4] = "LF" /\ f[5] = "x" /\ f[6] = "CR"
       /\ f[7] = "LF" /\ f[8] = "CR" /\ f[9] = "LF" /\ f[10] = "-" /\ f[11] = "b"
  <2>1. 1 \in 1 .. 9 /\ 2 \in 1 .. 9 /\ 3 \in 1 .. 9 /\ 4 \in 1 .. 9 /\ 5 \in 1 .. 9 /\ 6 \in 1 .. 9
        /\ 7 \in 1 .. 9 /\ 8 \in 1 .. 9 /\ 9 \in 1 .. 9
    OBVIOUS
  <2> QED BY <1>12, <1>6, <2>1, Zenon
<1>14. g[1] = "O" /\ g[2] = "K" /\ g[3] = "CR" /\ g[4] = "LF" /\ g[5] = "x" /\ g[6] = "CR"
       /\ g[7] = "LF" /\ g[8] = "CR" /\ g[9] = "LF" /\ g[10] = "-" /\ g[11] = "b" /\ g[12] = "CR"
       /\ g[13] = "LF"
  <2>1. 1 \in 1 .. 11 /\ 2 \in 1 .. 11 /\ 3 \in 1 .. 11 /\ 4 \in 1 .. 11 /\ 5 \in 1 .. 11
        /\ 6 \in 1 .. 11 /\ 7 \in 1 .. 11 /\ 8 \in 1 .. 11 /\ 9 \in 1 .. 11 /\ 10 \in 1 .. 11
        /\ 11 \in 1 .. 11
    OBVIOUS
  <2> QED BY <1>13, <1>7, <2>1, ZenonT(40)
<1> QED BY <1>7, <1>8, <1>14, Zenon

LEMMA PartBytes ==
    ASSUME NEW p \in Seq(Letters), NEW n \in Nat, Len(p) = n
    PROVE  LET q == Proxy!Part(p) IN
           /\ q \in Seq(Letters) /\ Len(q) = n + 11
           /\ q[1] = "x" /\ q[2] = "CR" /\ q[3] = "LF" /\ q[4] = "CR" /\ q[5] = "LF"
           /\ \A j \in 1 .. n : q[5 + j] = p[j]
           /\ q[n + 6] = "CR" /\ q[n + 7] = "LF" /\ q[n + 8] = "-" /\ q[n + 9] = "b"
           /\ q[n + 10] = "CR" /\ q[n + 11] = "LF"
<1>1. PICK a \in Seq(Letters) : a = <<"x">> /\ Len(a) = 1 /\ a[1] = "x"
  <2>1. <<"x">> \in Seq(Letters) /\ Len(<<"x">>) = 1 /\ <<"x">>[1] = "x"
    BY SomeLetters
  <2> QED BY <2>1, Zenon
<1>2. PICK b \in Seq(Letters) : b = Cat(a, Proxy!CRLF) /\ Len(b) = 3 /\ (\A j \in 1 .. 1 : b[j] = a[j])
        /\ b[2] = "CR" /\ b[3] = "LF"
  <2>1. PICK m \in Nat : m = 1 /\ m + 1 = 2 /\ m + 2 = 3
    OBVIOUS
  <2>2. Len(a) = m
    BY <1>1, <2>1
  <2>3. \E t \in Seq(Letters) :
           /\ t = Cat(a, Proxy!CRLF) /\ Len(t) = m + 2 /\ \A j \in 1 .. m : t[j] = a[j]
           /\ t[m + 1] = "CR" /\ t[m + 2] = "LF"
    BY <2>2, EndsLine
  <2> QED BY <2>1, <2>3, Zenon
<1>3. PICK c \in Seq(Letters) : c = Cat(b, Proxy!CRLF) /\ Len(c) = 5 /\ (\A j \in 1 .. 3 : c[j] = b[j])
        /\ c[4] = "CR" /\ c[5] = "LF"
  <2>1. PICK m \in Nat : m = 3 /\ m + 1 = 4 /\ m + 2 = 5
    OBVIOUS
  <2>2. Len(b) = m
    BY <1>2, <2>1
  <2>3. \E t \in Seq(Letters) :
           /\ t = Cat(b, Proxy!CRLF) /\ Len(t) = m + 2 /\ \A j \in 1 .. m : t[j] = b[j]
           /\ t[m + 1] = "CR" /\ t[m + 2] = "LF"
    BY <2>2, EndsLine
  <2> QED BY <2>1, <2>3, Zenon
<1>4. PICK d \in Seq(Letters) : d = Cat(c, p) /\ Len(d) = 5 + n /\ (\A j \in 1 .. 5 : d[j] = c[j])
        /\ \A j \in 1 .. n : d[5 + j] = p[j]
  <2>1. PICK m \in Nat : m = 5
    OBVIOUS
  <2>2. Len(c) = m
    BY <1>3, <2>1
  <2>3. /\ Cat(c, p) \in Seq(Letters) /\ Len(Cat(c, p)) = m + n
        /\ \A j \in 1 .. m : Cat(c, p)[j] = c[j]
        /\ \A j \in 1 .. n : Cat(c, p)[m + j] = p[j]
    BY <2>2, Joined
  <2> QED BY <2>1, <2>3, Zenon
<1>5. PICK k \in Nat : k = 5 + n
  OBVIOUS
<1>6. PICK e \in Seq(Letters) : e = Cat(d, Proxy!CRLF) /\ Len(e) = k + 2
        /\ (\A j \in 1 .. k : e[j] = d[j]) /\ e[k + 1] = "CR" /\ e[k + 2] = "LF"
  <2>1. PICK m \in Nat : m = k /\ m + 1 = k + 1 /\ m + 2 = k + 2
    OBVIOUS
  <2>2. Len(d) = m
    BY <1>4, <1>5, <2>1
  <2>3. \E t \in Seq(Letters) :
           /\ t = Cat(d, Proxy!CRLF) /\ Len(t) = m + 2 /\ \A j \in 1 .. m : t[j] = d[j]
           /\ t[m + 1] = "CR" /\ t[m + 2] = "LF"
    BY <2>2, EndsLine
  <2> QED BY <2>1, <2>3, Zenon
<1>7. PICK f \in Seq(Letters) : f = Cat(e, Proxy!BOUNDARY) /\ Len(f) = k + 4
        /\ (\A j \in 1 .. k + 2 : f[j] = e[j]) /\ f[k + 3] = "-" /\ f[k + 4] = "b"
  <2>1. PICK m \in Nat : m = k + 2 /\ m + 1 = k + 3 /\ m + 2 = k + 4
    OBVIOUS
  <2>2. Len(e) = m
    BY <1>6, <2>1
  <2>3. \E t \in Seq(Letters) :
           /\ t = Cat(e, Proxy!BOUNDARY) /\ Len(t) = m + 2 /\ \A j \in 1 .. m : t[j] = e[j]
           /\ t[m + 1] = "-" /\ t[m + 2] = "b"
    BY <2>2, EndsBoundary
  <2> QED BY <2>1, <2>3, Zenon
<1>8. PICK g \in Seq(Letters) : g = Cat(f, Proxy!CRLF) /\ Len(g) = k + 6
        /\ (\A j \in 1 .. k + 4 : g[j] = f[j]) /\ g[k + 5] = "CR" /\ g[k + 6] = "LF"
  <2>1. PICK m \in Nat : m = k + 4 /\ m + 1 = k + 5 /\ m + 2 = k + 6
    OBVIOUS
  <2>2. Len(f) = m
    BY <1>7, <2>1
  <2>3. \E t \in Seq(Letters) :
           /\ t = Cat(f, Proxy!CRLF) /\ Len(t) = m + 2 /\ \A j \in 1 .. m : t[j] = f[j]
           /\ t[m + 1] = "CR" /\ t[m + 2] = "LF"
    BY <2>2, EndsLine
  <2> QED BY <2>1, <2>3, Zenon
<1>9. g = Proxy!Part(p)
  BY <1>1, <1>2, <1>3, <1>4, <1>6, <1>7, <1>8, Zenon DEF Proxy!Part, Cat
<1>10. \A j \in 1 .. k : g[j] = d[j]
  <2> SUFFICES ASSUME NEW j \in 1 .. k PROVE g[j] = d[j]
    OBVIOUS
  <2>1. j \in 1 .. k + 2 /\ j \in 1 .. k + 4
    OBVIOUS
  <2> QED BY <1>6, <1>7, <1>8, <2>1
<1>11. g[1] = "x" /\ g[2] = "CR" /\ g[3] = "LF" /\ g[4] = "CR" /\ g[5] = "LF"
  <2>1. 1 \in 1 .. k /\ 2 \in 1 .. k /\ 3 \in 1 .. k /\ 4 \in 1 .. k /\ 5 \in 1 .. k
    BY <1>5
  <2>2. c[1] = "x" /\ c[2] = "CR" /\ c[3] = "LF" /\ c[4] = "CR" /\ c[5] = "LF"
    <3>1. b[1] = "x" /\ b[2] = "CR" /\ b[3] = "LF" /\ 1 \in 1 .. 1 /\ 1 \in 1 .. 3 /\ 2 \in 1 .. 3
          /\ 3 \in 1 .. 3
      BY <1>1, <1>2
    <3> QED BY <1>3, <3>1, Zenon
  <2>3. 1 \in 1 .. 5 /\ 2 \in 1 .. 5 /\ 3 \in 1 .. 5 /\ 4 \in 1 .. 5 /\ 5 \in 1 .. 5
    OBVIOUS
  <2> QED BY <1>4, <1>10, <2>1, <2>2, <2>3, Zenon
<1>12. ASSUME NEW j \in 1 .. n PROVE g[5 + j] = p[j]
  <2>1. 5 + j \in 1 .. k
    BY <1>5
  <2> QED BY <1>4, <1>10, <2>1
<1>13. g[k + 1] = "CR" /\ g[k + 2] = "LF" /\ g[k + 3] = "-" /\ g[k + 4] = "b"
  <2>1. k + 1 \in 1 .. k + 2 /\ k + 2 \in 1 .. k + 2 /\ k + 1 \in 1 .. k + 4 /\ k + 2 \in 1 .. k + 4
        /\ k + 3 \in 1 .. k + 4 /\ k + 4 \in 1 .. k + 4
    OBVIOUS
  <2> QED BY <1>6, <1>7, <1>8, <2>1
<1>14. /\ k + 1 = n + 6 /\ k + 2 = n + 7 /\ k + 3 = n + 8 /\ k + 4 = n + 9 /\ k + 5 = n + 10 /\ k + 6 = n + 11
  BY <1>5
<1> QED BY <1>8, <1>9, <1>11, <1>12, <1>13, <1>14, Zenon

\* A part is the bytes of its segment but for the first two, and two bytes of
\* the next one.
LEMMA PartSegment ==
    ASSUME NEW p \in Seq(Letters), NEW n \in Nat, Len(p) = n
    PROVE  /\ SegLen(PartHead, p) = n + 11
           /\ \A j \in 3 .. n + 11 : SegByte(PartHead, p, j) = Proxy!Part(p)[j - 2]
           /\ Proxy!Part(p)[n + 10] = "CR" /\ Proxy!Part(p)[n + 11] = "LF"
<1> DEFINE q == Proxy!Part(p)
<1>1. /\ q[1] = "x" /\ q[2] = "CR" /\ q[3] = "LF" /\ q[4] = "CR" /\ q[5] = "LF"
      /\ \A j \in 1 .. n : q[5 + j] = p[j]
      /\ q[n + 6] = "CR" /\ q[n + 7] = "LF" /\ q[n + 8] = "-" /\ q[n + 9] = "b"
      /\ q[n + 10] = "CR" /\ q[n + 11] = "LF"
  BY PartBytes
<1> HIDE DEF q
<1>2. Len(PartHead) = 7
  BY Heads
<1>3. SegLen(PartHead, p) = n + 11
  BY <1>2 DEF SegLen
<1>4. ASSUME NEW j \in 3 .. n + 11 PROVE SegByte(PartHead, p, j) = q[j - 2]
  <2>1. SegByte(PartHead, p, j) = IF j <= 7 THEN PartHead[j] ELSE IF j <= 7 + n THEN p[j - 7] ELSE Ending[j - 7 - n]
    BY <1>2 DEF SegByte
  <2>2. CASE j <= 7
    <3>1. j \in {3, 4, 5, 6, 7} /\ SegByte(PartHead, p, j) = PartHead[j]
      BY <2>1, <2>2
    <3>2. PartHead[3] = "x" /\ PartHead[4] = "CR" /\ PartHead[5] = "LF" /\ PartHead[6] = "CR"
          /\ PartHead[7] = "LF"
      BY DEF PartHead
    <3>3. CASE j = 3
      BY <1>1, <3>1, <3>2, <3>3
    <3>4. CASE j = 4
      BY <1>1, <3>1, <3>2, <3>4
    <3>5. CASE j = 5
      BY <1>1, <3>1, <3>2, <3>5
    <3>6. CASE j = 6
      BY <1>1, <3>1, <3>2, <3>6
    <3>7. CASE j = 7
      BY <1>1, <3>1, <3>2, <3>7
    <3> QED BY <3>1, <3>3, <3>4, <3>5, <3>6, <3>7
  <2>3. CASE j > 7 /\ j <= 7 + n
    <3>1. SegByte(PartHead, p, j) = p[j - 7] /\ j - 7 \in 1 .. n /\ 5 + (j - 7) = j - 2
      BY <2>1, <2>3
    <3> QED BY <1>1, <3>1
  <2>4. CASE j > 7 + n
    <3>1. SegByte(PartHead, p, j) = Ending[j - 7 - n] /\ j - 7 - n \in {1, 2, 3, 4}
      BY <2>1, <2>4
    <3>2. Ending[1] = "CR" /\ Ending[2] = "LF" /\ Ending[3] = "-" /\ Ending[4] = "b"
      BY DEF Ending
    <3>3. j - 2 = n + 5 + (j - 7 - n)
      OBVIOUS
    <3> QED BY <1>1, <3>1, <3>2, <3>3
  <2> QED BY <2>2, <2>3, <2>4
<1> QED BY <1>1, <1>3, <1>4 DEF q

LEMMA SegmentAt ==
    ASSUME NEW h, NEW g, NEW a \in Nat, NEW b \in Nat, Len(h) = a, Len(g) = b
    PROVE  /\ SegLen(h, g) = a + b + 4
           /\ \A j : SegByte(h, g, j) = IF j <= a THEN h[j] ELSE IF j <= a + b THEN g[j - a] ELSE Ending[j - a - b]
<1>1. SegLen(h, g) = a + b + 4
  BY Zenon DEF SegLen
<1>2. \A j : SegByte(h, g, j) = IF j <= a THEN h[j] ELSE IF j <= a + b THEN g[j - a] ELSE Ending[j - a - b]
  BY Zenon DEF SegByte
<1> QED BY <1>1, <1>2

LEMMA SizeTyped == ASSUME NEW gs \in Seq(Pictures), NEW i \in Nat PROVE Size(gs, i) \in Nat
<1>1. IsSegment(HeadOf(i), ImageOf(gs, i))
  BY Segments
<1> QED BY <1>1, SegmentTypes DEF Size

\* Before a picture is streamed: the header is segment 0 and two bytes more.
LEMMA HeaderLaid ==
    ASSUME NEW st, st = [i \in Nat |-> IF i = 0 THEN 0 ELSE 11]
    PROVE  Laid(Proxy!Header, st, << >>, 0)
<1>1. /\ st \in [Nat -> Nat] /\ st[0] = 0 /\ st[1] = 11
  OBVIOUS
<1>2. PICK T : T = Proxy!Header
  OBVIOUS
<1>3. /\ T \in Seq(Letters) /\ Len(T) = 13
      /\ T[1] = "O" /\ T[2] = "K" /\ T[3] = "CR" /\ T[4] = "LF" /\ T[5] = "x" /\ T[6] = "CR" /\ T[7] = "LF"
      /\ T[8] = "CR" /\ T[9] = "LF" /\ T[10] = "-" /\ T[11] = "b" /\ T[12] = "CR" /\ T[13] = "LF"
  BY <1>2, HeaderBytes, Zenon
<1> DEFINE none == << >>
<1>4. none \in Seq(Pictures) /\ Len(none) = 0
  OBVIOUS
<1> HIDE DEF none
<1>5. /\ HeadOf(0) = FirstHead /\ HeadOf(1) = PartHead
      /\ ImageOf(none, 0) = Proxy!FirstImage
  BY DEF HeadOf, ImageOf
<1> DEFINE F == Proxy!FirstImage
<1>6. PICK a \in Nat, b \in Nat : a = 4 /\ b = 3 /\ a + b = 7 /\ a + b + 4 = 11
  OBVIOUS
<1>7. Len(FirstHead) = a /\ Len(F) = b
  BY <1>6, Heads, FirstImageFact
<1>8. /\ SegLen(FirstHead, F) = a + b + 4
       /\ \A j : SegByte(FirstHead, F, j) = IF j <= a THEN FirstHead[j] ELSE IF j <= a + b THEN F[j - a] ELSE Ending[j - a - b]
  BY <1>7, SegmentAt
<1>9. Size(none, 0) = 11
  BY <1>5, <1>6, <1>8, Zenon DEF Size
<1>10. ASSUME NEW j \in 1 .. 11 PROVE T[j] = ByteOf(none, 0, j)
  <2>1. ByteOf(none, 0, j) = IF j <= 4 THEN FirstHead[j] ELSE IF j <= 7 THEN Proxy!FirstImage[j - 4] ELSE Ending[j - 4 - 3]
    BY <1>5, <1>6, <1>8 DEF ByteOf
  <2>2. FirstHead[1] = "O" /\ FirstHead[2] = "K" /\ FirstHead[3] = "CR" /\ FirstHead[4] = "LF"
    BY DEF FirstHead
  <2>3. Ending[1] = "CR" /\ Ending[2] = "LF" /\ Ending[3] = "-" /\ Ending[4] = "b"
    BY DEF Ending
  <2>4. CASE j \in {1, 2, 3, 4}
    BY <1>3, <2>1, <2>2, <2>4
  <2>5. CASE j \in {5, 6, 7}
    <3>1. ByteOf(none, 0, j) = Proxy!FirstImage[j - 4] /\ j - 4 \in {1, 2, 3} /\ j = 4 + (j - 4)
      BY <2>1, <2>5
    <3> QED BY <1>3, <2>5, <3>1, FirstImageFact
  <2>6. CASE j \in {8, 9, 10, 11}
    <3>1. ByteOf(none, 0, j) = Ending[j - 4 - 3] /\ j - 4 - 3 \in {1, 2, 3, 4} /\ j = 7 + (j - 4 - 3)
      BY <2>1, <2>6
    <3> QED BY <1>3, <2>3, <2>6, <3>1
  <2> QED BY <2>4, <2>5, <2>6
<1>11. ASSUME NEW j \in Nat, j >= 1, 11 + j <= 13 PROVE T[11 + j] = ByteOf(none, 1, j)
  <2>1. PartHead[1] = "CR" /\ PartHead[2] = "LF"
    BY DEF PartHead
  <2>2. j \in {1, 2}
    BY <1>11
  <2>3. ByteOf(none, 1, j) = PartHead[j]
    <3>1. Len(PartHead) = 7 /\ j <= 7
      BY <2>2, Heads
    <3> QED BY <1>5, <3>1, Zenon DEF ByteOf, SegByte
  <2>4. 11 + 1 = 12 /\ 11 + 2 = 13
    OBVIOUS
  <2> QED BY <1>3, <2>1, <2>2, <2>3, <2>4
<1>12. ASSUME NEW i \in 0 .. 1, NEW j \in 1 .. Size(none, i), st[i] + j <= Len(T)
      PROVE  T[st[i] + j] = ByteOf(none, i, j)
  <2>1. CASE i = 0
    <3>1. st[i] + j = j /\ j \in 1 .. 11
      BY <1>1, <1>9, <2>1
    <3> QED BY <1>10, <2>1, <3>1
  <2>2. CASE i = 1
    <3>1. st[i] + j = 11 + j /\ j \in Nat /\ j >= 1 /\ 11 + j <= 13
      BY <1>1, <1>3, <1>12, <2>2
    <3> QED BY <1>11, <2>2, <3>1
  <2> QED BY <2>1, <2>2
<1>13. \A i \in 0 .. 0 : st[i + 1] = st[i] + Size(none, i) /\ st[i + 1] <= st[0 + 1]
  BY <1>1, <1>9
<1>14. Len(T) = st[0 + 1] + 2
  BY <1>1, <1>3
<1>15. 0 .. 0 + 1 = 0 .. 1 /\ 0 \in Nat
  OBVIOUS
<1>16. Laid(T, st, none, 0)
  BY <1>1, <1>3, <1>4, <1>12, <1>13, <1>14, <1>15 DEF Laid
<1> QED BY <1>2, <1>16 DEF none

\* The remote streams one more picture.
NextStart(st, n, p) == [st EXCEPT ![n + 2] = st[n + 1] + Len(p) + 11]

LEMMA PartLaid ==
    ASSUME NEW total, NEW st, NEW gs, NEW n, Laid(total, st, gs, n), NEW p \in Pictures
    PROVE  /\ Laid(Cat(total, Proxy!Part(p)), NextStart(st, n, p), Append(gs, p), n + 1)
           /\ \A i \in 0 .. n + 1 : NextStart(st, n, p)[i] = st[i]
           /\ \A i \in 0 .. n : ImageOf(Append(gs, p), i) = ImageOf(gs, i)
<1> DEFINE u == NextStart(st, n, p)
<1>1. gs \in Seq(Pictures) /\ n \in Nat /\ Len(gs) = n
  BY DEF Laid
<1>2. total \in Seq(Letters)
  BY DEF Laid
<1>3. st \in [Nat -> Nat] /\ st[0] = 0
  BY DEF Laid
<1>4. \A i \in 0 .. n : st[i + 1] = st[i] + Size(gs, i) /\ st[i + 1] <= st[n + 1]
  BY DEF Laid
<1>5. Len(total) = st[n + 1] + 2
  BY DEF Laid
<1>6. \A i \in 0 .. n + 1 : \A j \in 1 .. Size(gs, i) :
          st[i] + j <= Len(total) => total[st[i] + j] = ByteOf(gs, i, j)
  BY DEF Laid
<1>7. PICK c \in Nat : c = Len(p) /\ p \in Seq(Letters)
  <2>1. p \in Seq(Letters)
    BY PictureLetters
  <2> QED BY <2>1, LenProperties
<1>8. PICK b \in Nat : b = st[n + 1] /\ Len(total) = b + 2
  BY <1>1, <1>3, <1>5
<1>9. PICK q \in Seq(Letters) : q = Proxy!Part(p) /\ Len(q) = c + 11
        /\ (\A j \in 3 .. c + 11 : SegByte(PartHead, p, j) = q[j - 2])
        /\ q[c + 10] = "CR" /\ q[c + 11] = "LF" /\ SegLen(PartHead, p) = c + 11
  <2>1. p \in Seq(Letters) /\ c \in Nat /\ Len(p) = c
    BY <1>7
  <2>2. Proxy!Part(p) \in Seq(Letters) /\ Len(Proxy!Part(p)) = c + 11
    BY <2>1, PartBytes
  <2>3. /\ SegLen(PartHead, p) = c + 11
        /\ \A j \in 3 .. c + 11 : SegByte(PartHead, p, j) = Proxy!Part(p)[j - 2]
        /\ Proxy!Part(p)[c + 10] = "CR" /\ Proxy!Part(p)[c + 11] = "LF"
    BY <2>1, PartSegment
  <2> QED BY <2>2, <2>3, Zenon
<1>10. PICK T \in Seq(Letters) : T = Cat(total, q) /\ Len(T) = b + c + 13
        /\ (\A j \in 1 .. b + 2 : T[j] = total[j]) /\ \A j \in 1 .. c + 11 : T[b + 2 + j] = q[j]
  <2>1. PICK x \in Nat, y \in Nat : x = b + 2 /\ y = c + 11 /\ x + y = b + c + 13
    OBVIOUS
  <2>2. Len(total) = x /\ Len(q) = y
    BY <1>8, <1>9, <2>1
  <2>3. total \in Seq(Letters)
    BY <1>2
  <2>4. /\ Cat(total, q) \in Seq(Letters) /\ Len(Cat(total, q)) = x + y
        /\ \A j \in 1 .. x : Cat(total, q)[j] = total[j]
        /\ \A j \in 1 .. y : Cat(total, q)[x + j] = q[j]
    BY <2>2, <2>3, Joined
  <2> QED BY <2>1, <2>4, Zenon
<1>11. PICK hs : hs = Append(gs, p) /\ hs \in Seq(Pictures) /\ Len(hs) = n + 1
        /\ (\A j \in 1 .. n : hs[j] = gs[j]) /\ hs[n + 1] = p
  <2>1. /\ Append(gs, p) \in Seq(Pictures) /\ Len(Append(gs, p)) = n + 1
        /\ \A j \in 1 .. n : Append(gs, p)[j] = gs[j]
        /\ Append(gs, p)[n + 1] = p
    BY <1>1, Appended
  <2> QED BY <2>1, Zenon
<1>12. /\ u \in [Nat -> Nat] /\ (\A i \in 0 .. n + 1 : u[i] = st[i]) /\ u[n + 2] = b + c + 11
  <2>1. n + 2 \in Nat /\ b + c + 11 \in Nat /\ st[n + 1] + Len(p) + 11 = b + c + 11
    <3>1. n + 2 \in Nat /\ b + c + 11 \in Nat /\ b + c + 11 = b + c + 11
      BY <1>1
    <3> QED BY <1>7, <1>8, <3>1
  <2>2. \A i \in 0 .. n + 1 : i # n + 2 /\ i \in Nat
    BY <1>1
  <2>3. u = [st EXCEPT ![n + 2] = b + c + 11] /\ st \in [Nat -> Nat]
    BY <1>3, <2>1 DEF NextStart
  <2> HIDE DEF u
  <2> QED BY <2>1, <2>2, <2>3
<1> HIDE DEF u
<1>13. ASSUME NEW i \in 0 .. n PROVE ImageOf(hs, i) = ImageOf(gs, i)
  <2>1. CASE i = 0
    BY <2>1 DEF ImageOf
  <2>2. CASE i # 0
    <3>1. i \in 1 .. n /\ i <= Len(gs) /\ i <= Len(hs)
      BY <1>1, <1>11, <2>2
    <3> QED BY <1>11, <2>2, <3>1 DEF ImageOf
  <2> QED BY <2>1, <2>2
<1>14. ASSUME NEW i \in 0 .. n PROVE Size(hs, i) = Size(gs, i) /\ \A j : ByteOf(hs, i, j) = ByteOf(gs, i, j)
  BY <1>13, Zenon DEF Size, ByteOf
<1>15. ImageOf(hs, n + 1) = p /\ HeadOf(n + 1) = PartHead /\ HeadOf(n + 2) = PartHead /\ ImageOf(gs, n + 1) = << >>
  <2>1. n + 1 # 0 /\ n + 2 # 0 /\ n + 1 <= Len(hs) /\ ~ n + 1 <= Len(gs)
    BY <1>1, <1>11
  <2> QED BY <1>11, <2>1 DEF ImageOf, HeadOf
<1>16. Size(hs, n + 1) = c + 11
  BY <1>9, <1>15 DEF Size
<1>17. ASSUME NEW i \in 0 .. n + 1 PROVE u[i + 1] = u[i] + Size(hs, i) /\ u[i + 1] <= u[n + 1 + 1]
  <2>1. n + 1 + 1 = n + 2
    BY <1>1
  <2>2. CASE i \in 0 .. n
    <3>1. i \in 0 .. n + 1 /\ i + 1 \in 0 .. n + 1
      BY <1>1, <2>2
    <3>2. u[i] = st[i] /\ u[i + 1] = st[i + 1] /\ st[i + 1] = st[i] + Size(gs, i) /\ st[i + 1] <= b
      BY <1>4, <1>8, <1>12, <2>2, <3>1
    <3>3. st[i + 1] \in Nat /\ u[n + 2] >= b
      <4>1. i + 1 \in Nat /\ b + c + 11 >= b
        BY <1>1, <2>2
      <4> QED BY <1>3, <1>12, <4>1
    <3>4. st[i + 1] <= u[n + 2]
      <4>1. PICK x \in Nat : x = st[i + 1] /\ x <= b
        BY <3>2, <3>3
      <4>2. x <= b + c + 11
        BY <4>1
      <4> QED BY <1>12, <4>1, <4>2, Zenon
    <3> QED BY <1>14, <2>1, <2>2, <3>2, <3>4
  <2>3. CASE i = n + 1
    <3>1. i \in 0 .. n + 1 /\ i + 1 = n + 2
      BY <1>1, <2>3
    <3>2. u[i] = b /\ u[i + 1] = b + c + 11
      BY <1>8, <1>12, <2>3, <3>1
    <3>3. Size(hs, i) = c + 11 /\ u[n + 1 + 1] = b + c + 11
      BY <1>12, <1>16, <2>1, <2>3
    <3>4. b + c + 11 = b + (c + 11) /\ b + c + 11 <= b + c + 11
      OBVIOUS
    <3> QED BY <3>2, <3>3, <3>4, Zenon
  <2> QED BY <1>1, <2>2, <2>3
<1>18. ASSUME NEW i \in 0 .. n + 2, NEW j \in 1 .. Size(hs, i), u[i] + j <= Len(T)
       PROVE  T[u[i] + j] = ByteOf(hs, i, j)
  <2>1. CASE i \in 0 .. n
    <3>1. i \in 0 .. n + 1 /\ j \in 1 .. Size(gs, i) /\ i + 1 \in Nat
      BY <1>1, <1>14, <2>1
    <3>2. u[i] = st[i] /\ st[i] \in Nat /\ st[i + 1] = st[i] + Size(gs, i) /\ st[i + 1] <= b
      <4>1. i \in Nat
        BY <1>1, <2>1
      <4>2. st[i + 1] = st[i] + Size(gs, i) /\ st[i + 1] <= b
        BY <1>4, <1>8, <2>1
      <4> QED BY <1>3, <1>12, <3>1, <4>1, <4>2
    <3>3. st[i] + j <= Len(total) /\ st[i] + j \in 1 .. b + 2
      <4>1. Size(gs, i) \in Nat
        <5>1. i \in Nat
          BY <1>1, <2>1
        <5> QED BY <1>1, <5>1, SizeTyped
      <4>2. PICK z \in Nat : z = Size(gs, i) /\ j \in 1 .. z
        BY <3>1, <4>1
      <4>3. PICK y \in Nat : y = st[i] /\ y + z <= b
        BY <3>2, <4>2
      <4>4. y + j <= b + 2 /\ y + j \in 1 .. b + 2
        BY SMTT(40), <4>2, <4>3
      <4> QED BY <1>8, <4>3, <4>4
    <3>4. total[st[i] + j] = ByteOf(gs, i, j)
      BY <1>6, <3>1, <3>3
    <3> QED BY <1>10, <1>14, <2>1, <3>2, <3>3, <3>4
  <2>2. CASE i = n + 1
    <3>1. u[i] = b /\ j \in 1 .. c + 11 /\ ByteOf(hs, i, j) = SegByte(PartHead, p, j)
      <4>1. n + 1 \in 0 .. n + 1
        BY <1>1
      <4>2. u[n + 1] = b
        BY <1>8, <1>12, <4>1
      <4>3. j \in 1 .. c + 11
        BY <1>16, <2>2
      <4>4. ByteOf(hs, n + 1, j) = SegByte(PartHead, p, j)
        BY <1>15, Zenon DEF ByteOf
      <4> QED BY <2>2, <4>2, <4>3, <4>4
    <3>2. CASE j <= 2
      <4>1. PICK e : e = << >> /\ Len(e) = 0
        OBVIOUS
      <4>2. PICK x \in Nat, y \in Nat : x = 7 /\ y = 0 /\ x + y + 4 = 11 /\ j <= x
        BY <3>1, <3>2
      <4>3. Len(PartHead) = x /\ Len(e) = y
        BY <4>1, <4>2, Heads
      <4>4. SegLen(PartHead, e) = 11
        <5>1. SegLen(PartHead, e) = x + y + 4
          BY <4>3, SegmentAt
        <5> QED BY <4>2, <5>1
      <4>5. Size(gs, n + 1) = 11 /\ SegByte(PartHead, e, j) = PartHead[j] /\ SegByte(PartHead, p, j) = PartHead[j]
        BY <1>15, <4>1, <4>2, <4>3, <4>4, Zenon DEF Size, SegByte
      <4>6. ByteOf(gs, n + 1, j) = PartHead[j]
        BY <1>15, <4>1, <4>5 DEF ByteOf
      <4>7. n + 1 \in 0 .. n + 1 /\ j \in 1 .. 11 /\ b + j \in 1 .. b + 2 /\ b + j <= b + 2
        BY <1>1, <3>1, <3>2
      <4>8. total[b + j] = PartHead[j]
        BY <1>6, <1>8, <4>5, <4>6, <4>7
      <4> QED BY <1>10, <3>1, <4>5, <4>7, <4>8
    <3>3. CASE j > 2
      <4>1. j \in 3 .. c + 11 /\ j - 2 \in 1 .. c + 11 /\ b + 2 + (j - 2) = b + j
        BY <3>1, <3>3
      <4>2. T[b + 2 + (j - 2)] = q[j - 2] /\ SegByte(PartHead, p, j) = q[j - 2]
        BY <1>9, <1>10, <4>1
      <4> QED BY <3>1, <4>1, <4>2
    <3> QED BY <3>1, <3>2, <3>3
  <2>3. CASE i = n + 2
    <3>1. u[i] = b + c + 11 /\ j \in {1, 2}
      <4>1. u[i] = b + c + 11 /\ j \in Nat /\ j >= 1
        BY <1>12, <2>3
      <4> QED BY <1>10, <1>18, <4>1
    <3>2. ByteOf(hs, i, j) = PartHead[j]
      <4>1. Len(PartHead) = 7 /\ j <= 7
        BY <3>1, Heads
      <4> QED BY <1>15, <2>3, <4>1, Zenon DEF ByteOf, SegByte
    <3>3. T[u[i] + j] = q[c + 9 + j]
      <4>1. c + 9 + j \in 1 .. c + 11 /\ b + 2 + (c + 9 + j) = b + c + 11 + j
        BY <3>1
      <4> QED BY <1>10, <3>1, <4>1
    <3>4. c + 9 + 1 = c + 10 /\ c + 9 + 2 = c + 11 /\ PartHead[1] = "CR" /\ PartHead[2] = "LF"
      BY DEF PartHead
    <3>5. q[c + 10] = "CR" /\ q[c + 11] = "LF"
      BY <1>9
    <3>6. CASE j = 1
      BY <3>2, <3>3, <3>4, <3>5, <3>6
    <3>7. CASE j = 2
      BY <3>2, <3>3, <3>4, <3>5, <3>7
    <3> QED BY <3>1, <3>6, <3>7
  <2> QED BY <1>1, <2>1, <2>2, <2>3
<1>19. Laid(T, u, hs, n + 1)
  <2>1. n + 1 \in Nat /\ n + 1 + 1 = n + 2 /\ Len(T) = u[n + 1 + 1] + 2 /\ u[0] = 0
    <3>1. 0 \in 0 .. n + 1 /\ n + 1 \in Nat /\ n + 1 + 1 = n + 2
      BY <1>1
    <3>2. Len(T) = b + c + 13 /\ b + c + 13 = b + c + 11 + 2
      BY <1>10
    <3> QED BY <1>3, <1>12, <3>1, <3>2
  <2>2. \A i \in 0 .. n + 1 : u[i + 1] = u[i] + Size(hs, i) /\ u[i + 1] <= u[n + 1 + 1]
    BY <1>17
  <2>3. \A i \in 0 .. n + 1 + 1 : \A j \in 1 .. Size(hs, i) : u[i] + j <= Len(T) => T[u[i] + j] = ByteOf(hs, i, j)
    BY <1>18, <2>1, Zenon
  <2>4. hs \in Seq(Pictures) /\ Len(hs) = n + 1 /\ T \in Seq(Letters) /\ u \in [Nat -> Nat]
    BY <1>10, <1>11, <1>12, Zenon
  <2> QED BY <2>1, <2>2, <2>3, <2>4, Zenon DEF Laid
<1> QED BY <1>9, <1>10, <1>11, <1>12, <1>13, <1>19, Zenon DEF u

-----------------------------------------------------------------------------
(* Where the program is in the stream: of the bytes sent, pos have been    *)
(* looked at, the a bytes after them are in netbuffer, the w after those   *)
(* on their way; m images have been published.                             *)

Reads(total, st, n, m, pos, a, w) ==
    /\ Laid(total, st, streamed, n)
    /\ m <= n + 1 /\ Len(pub) = m /\ net \in Seq(Letters) /\ wire \in Seq(Letters)
    /\ Len(net) = a /\ Len(wire) = w
    /\ st[m] <= pos /\ pos + a + w <= Len(total) /\ (conn = "up" => pos + a + w = Len(total))
    /\ \A j \in 1 .. a : net[j] = total[pos + j]
    /\ \A j \in 1 .. w : wire[j] = total[pos + a + j]
    /\ HasRead(HeadOf(m), ImageOf(streamed, m), pos - st[m], ext)
    /\ ready <=> Proxy!search_pattern_matches(ext)

Open ==
    conn \in {"up", "over"} =>
        \E total, st : \E n \in Nat, m \in Nat, pos \in Nat, a \in Nat, w \in Nat :
            Reads(total, st, n, m, pos, a, w)

\* The images published are those of the first segments.
Pieces ==
    /\ streamed \in Seq(Pictures) /\ pub \in Seq(Seq(Letters)) /\ Len(pub) <= Len(streamed) + 1
    /\ \A i \in 1 .. Len(pub) : pub[i] = ImageOf(streamed, i - 1)

ProxyTyped ==
    /\ conn \in {"down", "up", "over", "killed"} /\ ready \in BOOLEAN /\ breaks \in 0 .. MaxBreaks
    /\ ext \in Extractor /\ Len(ext.last) <= 4
    /\ conn \in {"down", "killed"} => ~ready

Streaming == ProxyTyped /\ Pieces /\ Open

\* The extractor has written behind its buffer: a picture was too large.
Lost ==
    /\ Pieces /\ \E k \in 1 .. Len(streamed) : ~ Proxy!Fits(streamed[k])
    /\ conn \in {"up", "over"} /\ ready \in BOOLEAN /\ breaks \in 0 .. MaxBreaks
    /\ ext.part = "OVERRUN" /\ ext.matched \in 0 .. 2 /\ Len(ext.last) <= 4

LEMMA Loses ==
    ASSUME NEW total, NEW st, NEW n, Laid(total, st, streamed, n), NEW m \in 0 .. n + 1,
           Overrun(ImageOf(streamed, m), ext'), Pieces', ready' \in BOOLEAN,
           conn' \in {"up", "over"}, UNCHANGED streamed, breaks' \in 0 .. MaxBreaks
    PROVE  Lost'
<1>1. n \in Nat /\ Len(streamed) = n /\ streamed \in Seq(Pictures)
  BY DEF Laid
<1>2. BUFFER_SIZE < Len(ImageOf(streamed, m)) + 4 /\ BUFFER_SIZE \in Nat /\ BUFFER_SIZE >= 7
  BY BufferAssumption DEF Overrun
<1>3. m # 0
  <2>1. m = 0 => Len(ImageOf(streamed, m)) = 3
    BY FirstImageFact DEF ImageOf
  <2>2. PICK c : c = Len(ImageOf(streamed, m))
    OBVIOUS
  <2>3. BUFFER_SIZE < c + 4 /\ BUFFER_SIZE \in Nat /\ BUFFER_SIZE >= 7
    BY <1>2, <2>2
  <2>4. c # 3
    BY <2>3
  <2> QED BY <2>1, <2>2, <2>4
<1>4. m <= n
  <2>1. CASE m = n + 1
    <3>1. ImageOf(streamed, m) = << >>
      BY <1>1, <2>1 DEF ImageOf
    <3>2. Len(ImageOf(streamed, m)) = 0
      BY <3>1
    <3> QED BY <1>2, <3>2
  <2> QED BY <1>1, <2>1
<1>5. m \in 1 .. Len(streamed) /\ ImageOf(streamed, m) = streamed[m]
  BY <1>1, <1>3, <1>4 DEF ImageOf
<1>6. ~ Proxy!Fits(streamed[m])
  <2>1. Len(streamed[m]) \in Nat
    <3>1. streamed[m] \in Pictures
      BY <1>1, <1>5, ElementOfSeq
    <3> QED BY <3>1, PictureLetters, LenProperties
  <2>2. Len(Proxy!CRLF) = 2 /\ Len(Proxy!BOUNDARY) = 2
    BY DEF Proxy!CRLF, Proxy!BOUNDARY
  <2>3. PICK c \in Nat : c = Len(streamed[m])
    BY <2>1
  <2>4. BUFFER_SIZE < c + 4
    BY <1>2, <1>5, <2>3
  <2>5. ~ c + 2 + 2 <= BUFFER_SIZE
    BY <1>2, <2>4
  <2> QED BY <2>2, <2>3, <2>5 DEF Proxy!Fits
<1>7. ext'.part = "OVERRUN" /\ ext'.matched \in 0 .. 2 /\ Len(ext'.last) <= 4
  BY DEF Overrun
<1>8. \E k \in 1 .. Len(streamed') : ~ Proxy!Fits(streamed'[k])
  BY <1>5, <1>6
<1> QED BY <1>7, <1>8 DEF Lost

LEMMA BeginsReading ==
    /\ Proxy!init_extractor_state \in Extractor /\ Len(Proxy!init_extractor_state.last) <= 4
    /\ ~ Proxy!search_pattern_matches(Proxy!init_extractor_state)
    /\ \A h, g : IsSegment(h, g) => HasRead(h, g, 0, Proxy!init_extractor_state)
<1> DEFINE e == Proxy!init_extractor_state
<1>1. e \in Extractor /\ e.part = "HEADER" /\ e.buffer = << >> /\ e.matched = 0 /\ e.last = << >>
      /\ Len(e.last) = 0
  BY DEF Proxy!init_extractor_state, Extractor
<1>2. ~ Proxy!search_pattern_matches(e)
  BY <1>1 DEF Proxy!search_pattern_matches, Proxy!BOUNDARY
<1> HIDE DEF e
<1>3. ASSUME NEW h, NEW g, IsSegment(h, g) PROVE HasRead(h, g, 0, e)
  <2>1. 0 \in 0 .. SegLen(h, g) /\ 0 < Len(h)
    <3>1. Len(h) \in {4, 7}
      BY <1>3, SegmentTypes
    <3>2. SegLen(h, g) \in Nat
      BY <1>3, SegmentTypes
    <3>3. PICK b \in Nat : b = SegLen(h, g)
      BY <3>2
    <3>4. 0 \in 0 .. b /\ 0 < 4 /\ 0 < 7
      OBVIOUS
    <3> QED BY <3>1, <3>3, <3>4, Zenon
  <2>2. InHead(h, 0, e)
    BY <1>1 DEF InHead
  <2> QED BY <1>1, <2>1, <2>2, Zenon DEF HasRead
<1> QED BY <1>1, <1>2, <1>3 DEF e

LEMMA HasReadTyped ==
    ASSUME NEW h, NEW g, NEW k, NEW e, HasRead(h, g, k, e)
    PROVE  e \in Extractor /\ Len(e.last) <= 4 /\ k \in 0 .. SegLen(h, g)
<1>1. e \in Extractor /\ k \in 0 .. SegLen(h, g)
  BY DEF HasRead
<1>2. CASE k < Len(h)
  <2>1. Len(e.last) = IF k < 4 THEN k ELSE 4
    BY <1>2, Zenon DEF HasRead, InHead
  <2>2. k \in Nat
    BY <1>1
  <2> QED BY <1>1, <2>1, <2>2
<1>3. CASE ~ k < Len(h)
  <2>1. Len(e.last) = 4
    BY <1>3, Zenon DEF HasRead, InContent
  <2> QED BY <1>1, <2>1
<1> QED BY <1>2, <1>3

\* At the end of a segment the image is the buffer without the boundary.
LEMMA ImageFound ==
    ASSUME NEW h, NEW g, IsSegment(h, g), NEW e, HasRead(h, g, SegLen(h, g), e)
    PROVE  Proxy!ImageLength(e) = Len(g) /\ Len(g) \in Nat /\ Proxy!Image(e) = g
<1>1. PICK a \in Nat, b \in Nat : a = Len(h) /\ b = Len(g)
  BY SegmentTypes
<1>2. SegLen(h, g) = a + b + 4 /\ g \in Seq(Letters)
  BY <1>1, SegmentAt DEF IsSegment
<1>3. InContent(h, g, a + b + 4, e) /\ e \in Extractor /\ e.buffer \in Seq(Letters)
  <2>1. ~ a + b + 4 < a
    OBVIOUS
  <2> QED BY <1>1, <1>2, <2>1 DEF HasRead, Extractor
<1>4. PICK s \in Seq(Letters) : s = e.buffer
  BY <1>3
<1>5. a + b + 4 - a = b + 4
  OBVIOUS
<1>6. Len(s) = b + 4
  BY <1>1, <1>3, <1>4, <1>5 DEF InContent
<1>7. \A j \in 1 .. b + 4 : s[j] = SegByte(h, g, a + j)
  <2>1. \A j \in 1 .. a + b + 4 - Len(h) : e.buffer[j] = SegByte(h, g, Len(h) + j)
    BY <1>3 DEF InContent
  <2> QED BY <1>1, <1>4, <1>5, <2>1
<1>8. ASSUME NEW j \in 1 .. b PROVE s[j] = g[j]
  <2>1. j \in 1 .. b + 4 /\ ~ a + j <= a /\ a + j <= a + b /\ a + j - a = j
    OBVIOUS
  <2>2. SegByte(h, g, a + j) = IF a + j <= a THEN h[a + j] ELSE IF a + j <= a + b THEN g[a + j - a] ELSE Ending[a + j - a - b]
    BY <1>1, SegmentAt
  <2> QED BY <1>7, <2>1, <2>2
<1>9. Proxy!ImageLength(e) = b
  <2>1. Len(Proxy!BOUNDARY) = 2
    BY DEF Proxy!BOUNDARY
  <2>2. b + 4 - (2 + 2) = b
    OBVIOUS
  <2>3. Proxy!ImageLength(e) = Len(s) - (Len(Proxy!BOUNDARY) + 2)
    BY <1>4, Zenon DEF Proxy!ImageLength
  <2> QED BY <1>6, <2>1, <2>2, <2>3
<1>10. Proxy!Image(e) = SubSeq(s, 1, b)
  BY <1>4, <1>9, Zenon DEF Proxy!Image
<1>11. PICK z \in Nat, y \in Nat : z = 0 /\ z + 1 = 1 /\ y = b + 4 /\ b <= y /\ b = b - z
  OBVIOUS
<1>12. Len(s) = y
  BY <1>6, <1>11
<1>13. /\ SubSeq(s, z + 1, b) \in Seq(Letters) /\ Len(SubSeq(s, z + 1, b)) = b
       /\ \A j \in 1 .. b : SubSeq(s, z + 1, b)[j] = s[z + j]
  BY <1>11, <1>12, Cut
<1>14. \A j \in 1 .. b : z + j = j
  BY <1>11
<1>15. PICK t \in Seq(Letters) : t = SubSeq(s, 1, b) /\ Len(t) = b /\ \A j \in 1 .. b : t[j] = s[j]
  BY <1>11, <1>13, <1>14
<1>16. t = g
  <2>1. Len(t) = Len(g) /\ \A j \in 1 .. Len(t) : t[j] = g[j]
    BY <1>1, <1>8, <1>15
  <2> QED BY <1>2, <2>1, SeqEqual
<1> QED BY <1>1, <1>9, <1>10, <1>15, <1>16

LEMMA InitStreaming == Proxy!Init => Streaming
<1> SUFFICES ASSUME Proxy!Init PROVE Streaming
  OBVIOUS
<1>1. ProxyTyped
  <2>1. 0 \in 0 .. MaxBreaks
    BY BoundsAssumption
  <2>2. ext \in Extractor /\ Len(ext.last) <= 4
    BY BeginsReading DEF Proxy!Init
  <2> QED BY <2>1, <2>2 DEF Proxy!Init, ProxyTyped
<1>2. Pieces
  BY DEF Proxy!Init, Pieces
<1>3. Open
  BY DEF Proxy!Init, Open
<1> QED BY <1>1, <1>2, <1>3 DEF Streaming

LEMMA ConnectStreams == Streaming /\ Proxy!Connect => Streaming'
<1> SUFFICES ASSUME Streaming, Proxy!Connect PROVE Streaming'
  OBVIOUS
<1>1. ext' = Proxy!init_extractor_state /\ conn' = "up" /\ UNCHANGED <<ready, breaks>> /\ ready = FALSE
  BY DEF Proxy!Connect, Streaming, ProxyTyped
<1>2. wire' = Proxy!Header /\ net' = << >> /\ streamed' = << >> /\ pub' = << >>
  BY DEF Proxy!Connect
<1>3. ProxyTyped'
  BY <1>1, BeginsReading DEF Streaming, ProxyTyped
<1>4. Pieces'
  BY <1>2 DEF Pieces
<1>5. PICK st : st = [i \in Nat |-> IF i = 0 THEN 0 ELSE 11]
  OBVIOUS
<1>6. Laid(Proxy!Header, st, streamed', 0) /\ st[0] = 0
  <2>1. st[0] = 0
    BY <1>5
  <2> QED BY <1>2, <1>5, <2>1, HeaderLaid
<1>7. PICK T \in Seq(Letters) : T = Proxy!Header /\ Len(T) = 13
  BY HeaderBytes, Zenon
<1>8. HasRead(HeadOf(0), ImageOf(streamed', 0), 0, ext')
  <2>1. streamed' \in Seq(Pictures)
    BY <1>2
  <2>2. IsSegment(HeadOf(0), ImageOf(streamed', 0))
    BY <2>1, Segments
  <2> QED BY <1>1, <2>2, BeginsReading
<1>9. ready' <=> Proxy!search_pattern_matches(ext')
  BY <1>1, BeginsReading
<1>10. Len(net') = 0 /\ Len(pub') = 0 /\ net' \in Seq(Letters) /\ \A j \in 1 .. 0 : net'[j] = T[0 + j]
  BY <1>2
<1>11. Reads(T, st, 0, 0, 0, 0, 13)'
  <2>1. \A j \in 1 .. 13 : wire'[j] = T[0 + 0 + j]
    <3>1. \A j \in 1 .. 13 : 0 + 0 + j = j
      OBVIOUS
    <3> QED BY <1>2, <1>7, <3>1
  <2>2. 0 <= 0 + 1 /\ st[0] <= 0 /\ 0 + 0 + 13 = Len(T) /\ 0 + 0 + 13 <= Len(T) /\ 0 - st[0] = 0
    BY <1>6, <1>7
  <2> QED BY <1>2, <1>6, <1>7, <1>8, <1>9, <1>10, <2>1, <2>2 DEF Reads
<1>12. 0 \in Nat /\ 13 \in Nat
  OBVIOUS
<1>13. Open'
  BY <1>11, <1>12, Zenon DEF Open
<1> QED BY <1>3, <1>4, <1>13 DEF Streaming

LEMMA BreakStreams == Streaming /\ Proxy!Breaks => Streaming'
<1> SUFFICES ASSUME Streaming, Proxy!Breaks PROVE Streaming'
  OBVIOUS
<1>1. conn = "up" /\ conn' = "over" /\ breaks < MaxBreaks /\ breaks' = breaks + 1
  BY DEF Proxy!Breaks
<1>2. UNCHANGED <<net, ext, ready, streamed, pub>>
  BY DEF Proxy!Breaks
<1>3. ProxyTyped'
  BY <1>1, <1>2, BoundsAssumption DEF Streaming, ProxyTyped
<1>4. Pieces'
  BY <1>2 DEF Streaming, Pieces
<1>5. PICK total, st : \E n \in Nat, m \in Nat, pos \in Nat, a \in Nat, w \in Nat :
                          Reads(total, st, n, m, pos, a, w)
  BY <1>1 DEF Streaming, Open
<1>6. PICK n \in Nat, m \in Nat, pos \in Nat, a \in Nat, w \in Nat : Reads(total, st, n, m, pos, a, w)
  BY <1>5
<1>7. PICK k \in 0 .. Len(wire) : wire' = SubSeq(wire, 1, k)
  BY DEF Proxy!Breaks
<1>8. wire \in Seq(Letters) /\ Len(wire) = w
  BY <1>6 DEF Reads
<1>9. PICK z \in Nat, x \in Nat : z = 0 /\ z + 1 = 1 /\ x = k /\ x <= w /\ z <= x /\ x = x - z
  BY <1>7, <1>8
<1>10. /\ SubSeq(wire, z + 1, x) \in Seq(Letters) /\ Len(SubSeq(wire, z + 1, x)) = x
       /\ \A j \in 1 .. x : SubSeq(wire, z + 1, x)[j] = wire[z + j]
  BY <1>8, <1>9, Cut
<1>11. wire' \in Seq(Letters) /\ Len(wire') = x /\ \A j \in 1 .. x : wire'[j] = wire[j]
  <2>1. \A j \in 1 .. x : z + j = j
    BY <1>9
  <2> QED BY <1>7, <1>9, <1>10, <2>1
<1>12. Reads(total, st, n, m, pos, a, x)'
  <2>1. pos + a + w <= Len(total) /\ \A j \in 1 .. w : wire[j] = total[pos + a + j]
    BY <1>6 DEF Reads
  <2>2. \A j \in 1 .. x : wire'[j] = total[pos + a + j]
    <3>1. \A j \in 1 .. x : j \in 1 .. w
      BY <1>9
    <3> QED BY <1>11, <2>1, <3>1
  <2>3. pos + a + x <= Len(total)
    <3>1. PICK T \in Nat : T = Len(total)
      BY <1>6, LenProperties DEF Reads, Laid
    <3> QED BY <1>9, <2>1, <3>1
  <2>4. conn' # "up"
    BY <1>1
  <2>5. /\ Laid(total, st, streamed, n)
        /\ m <= n + 1 /\ Len(pub) = m /\ net \in Seq(Letters)
        /\ Len(net) = a
        /\ st[m] <= pos
        /\ \A j \in 1 .. a : net[j] = total[pos + j]
        /\ HasRead(HeadOf(m), ImageOf(streamed, m), pos - st[m], ext)
        /\ ready <=> Proxy!search_pattern_matches(ext)
    BY <1>6 DEF Reads
  <2> QED BY <1>2, <1>11, <2>2, <2>3, <2>4, <2>5, Zenon DEF Reads
<1>13. Open'
  BY <1>12, Zenon DEF Open
<1> QED BY <1>3, <1>4, <1>13 DEF Streaming

LEMMA CloseStreams == Streaming /\ Proxy!Close => Streaming'
<1> SUFFICES ASSUME Streaming, Proxy!Close PROVE Streaming'
  OBVIOUS
<1>1. conn' = "down" /\ ~ready /\ UNCHANGED <<ext, ready, breaks, streamed, pub>>
  BY DEF Proxy!Close, Proxy!remote
<1> QED BY <1>1 DEF Streaming, ProxyTyped, Pieces, Open

LEMMA StutterStreams == Streaming /\ UNCHANGED <<conn, wire, net, ext, ready, streamed, pub, breaks>> => Streaming'
<1> SUFFICES ASSUME Streaming, UNCHANGED <<conn, wire, net, ext, ready, streamed, pub, breaks>>
             PROVE  Streaming'
  OBVIOUS
<1>1. ProxyTyped'
  BY DEF Streaming, ProxyTyped
<1>2. Pieces'
  BY DEF Streaming, Pieces
<1>3. Open'
  <2>1. SUFFICES ASSUME conn \in {"up", "over"} PROVE Open'
    BY Zenon DEF Open
  <2>2. PICK total, st : \E n \in Nat, m \in Nat, pos \in Nat, a \in Nat, w \in Nat :
                             Reads(total, st, n, m, pos, a, w)
    BY <2>1, Zenon DEF Streaming, Open
  <2>3. PICK n \in Nat, m \in Nat, pos \in Nat, a \in Nat, w \in Nat : Reads(total, st, n, m, pos, a, w)
    BY <2>2
  <2>4. Reads(total, st, n, m, pos, a, w)'
    BY <2>3 DEF Reads, Proxy!search_pattern_matches
  <2> QED BY <2>4, Zenon DEF Open
<1> QED BY <1>1, <1>2, <1>3 DEF Streaming

LEMMA RemoteAdds == Streaming /\ Proxy!RemoteStreams => Streaming'
<1> SUFFICES ASSUME Streaming, Proxy!RemoteStreams PROVE Streaming'
  OBVIOUS
<1>1. conn = "up" /\ UNCHANGED <<conn, breaks, net, ext, ready, pub>>
  BY DEF Proxy!RemoteStreams
<1>2. PICK p \in Pictures : wire' = Cat(wire, Proxy!Part(p)) /\ streamed' = Append(streamed, p)
  BY DEF Proxy!RemoteStreams, Cat
<1>3. ProxyTyped'
  BY <1>1 DEF Streaming, ProxyTyped
<1>4. PICK total, st : \E n \in Nat, m \in Nat, pos \in Nat, a \in Nat, w \in Nat :
                          Reads(total, st, n, m, pos, a, w)
  BY <1>1 DEF Streaming, Open
<1>5. PICK n \in Nat, m \in Nat, pos \in Nat, a \in Nat, w \in Nat : Reads(total, st, n, m, pos, a, w)
  BY <1>4
<1>6. PICK u : u = NextStart(st, n, p)
  OBVIOUS
<1>7. PICK T : T = Cat(total, Proxy!Part(p))
  OBVIOUS
<1>8. Laid(total, st, streamed, n)
  BY <1>5 DEF Reads
<1>9. /\ Laid(T, u, streamed', n + 1)
      /\ \A i \in 0 .. n + 1 : u[i] = st[i]
      /\ \A i \in 0 .. n : ImageOf(streamed', i) = ImageOf(streamed, i)
  <2>1. /\ Laid(Cat(total, Proxy!Part(p)), u, Append(streamed, p), n + 1)
        /\ \A i \in 0 .. n + 1 : u[i] = st[i]
        /\ \A i \in 0 .. n : ImageOf(Append(streamed, p), i) = ImageOf(streamed, i)
    BY <1>6, <1>8, PartLaid
  <2> QED BY <1>2, <1>7, <2>1, Zenon
<1>10. PICK c \in Nat, q \in Seq(Letters) : Len(p) = c /\ q = Proxy!Part(p) /\ Len(q) = c + 11
  <2>1. p \in Seq(Letters)
    BY PictureLetters
  <2>2. Len(p) \in Nat
    BY <2>1, LenProperties
  <2>3. Proxy!Part(p) \in Seq(Letters) /\ Len(Proxy!Part(p)) = Len(p) + 11
    BY <2>1, <2>2, PartBytes
  <2> QED BY <2>2, <2>3
<1>11. PICK v \in Nat, y \in Nat : v = Len(total) /\ y = c + 11 /\ total \in Seq(Letters)
  <2>1. Len(total) \in Nat /\ total \in Seq(Letters)
    BY <1>8, LenProperties DEF Laid
  <2>2. c + 11 \in Nat
    OBVIOUS
  <2> QED BY <2>1, <2>2
<1>12. /\ T \in Seq(Letters) /\ Len(T) = v + y
       /\ \A j \in 1 .. v : T[j] = total[j]
       /\ \A j \in 1 .. y : T[v + j] = q[j]
  <2>1. Len(total) = v /\ Len(q) = y
    BY <1>10, <1>11
  <2>2. total \in Seq(Letters)
    BY <1>11
  <2>3. /\ Cat(total, q) \in Seq(Letters) /\ Len(Cat(total, q)) = v + y
        /\ \A j \in 1 .. v : Cat(total, q)[j] = total[j]
        /\ \A j \in 1 .. y : Cat(total, q)[v + j] = q[j]
    BY <2>1, <2>2, Joined
  <2>4. T = Cat(total, q)
    BY <1>7, <1>10
  <2> QED BY <2>3, <2>4
<1>13. /\ wire' \in Seq(Letters) /\ Len(wire') = w + y
       /\ \A j \in 1 .. w : wire'[j] = wire[j]
       /\ \A j \in 1 .. y : wire'[w + j] = q[j]
  <2>1. Len(wire) = w /\ Len(q) = y
    BY <1>5, <1>10, <1>11 DEF Reads
  <2>2. wire \in Seq(Letters)
    BY <1>5 DEF Reads
  <2>3. /\ Cat(wire, q) \in Seq(Letters) /\ Len(Cat(wire, q)) = w + y
        /\ \A j \in 1 .. w : Cat(wire, q)[j] = wire[j]
        /\ \A j \in 1 .. y : Cat(wire, q)[w + j] = q[j]
    BY <2>1, <2>2, Joined
  <2>4. wire' = Cat(wire, q)
    BY <1>2, <1>10
  <2> QED BY <2>3, <2>4
<1>14. pos + a + w = v /\ m <= n + 1 /\ st[m] <= pos
  BY <1>1, <1>5, <1>11 DEF Reads
<1>15. m \in 0 .. n + 1 /\ u[m] = st[m]
  <2>1. m \in 0 .. n + 1
    BY <1>14
  <2> QED BY <1>9, <2>1
<1>16. streamed \in Seq(Pictures) /\ Len(streamed) = n
  BY <1>8 DEF Laid
<1>17. streamed' \in Seq(Pictures) /\ Len(streamed') = n + 1
  BY <1>9 DEF Laid
<1>18. Pieces'
  <2>1. Len(pub) <= n + 1 /\ pub \in Seq(Seq(Letters))
        /\ \A i \in 1 .. Len(pub) : pub[i] = ImageOf(streamed, i - 1)
    BY <1>16 DEF Streaming, Pieces
  <2>2. Len(pub) \in Nat
    BY <2>1, LenProperties
  <2>3. ASSUME NEW i \in 1 .. Len(pub) PROVE pub[i] = ImageOf(streamed', i - 1)
    <3>1. i - 1 \in 0 .. n
      BY <2>1, <2>2
    <3> QED BY <1>9, <2>1, <3>1
  <2>4. Len(pub) <= n + 1 + 1
    BY <2>1, <2>2
  <2> QED BY <1>1, <1>17, <2>1, <2>3, <2>4 DEF Pieces
<1>19. HasRead(HeadOf(m), ImageOf(streamed', m), pos - u[m], ext)
  <2>1. HasRead(HeadOf(m), ImageOf(streamed, m), pos - st[m], ext)
    BY <1>5 DEF Reads
  <2>2. CASE m \in 0 .. n
    BY <1>9, <1>15, <2>1, <2>2
  <2>3. CASE m = n + 1
    <3>1. PICK k : k = pos - st[m]
      OBVIOUS
    <3>2. k \in {0, 1, 2}
      <4>1. Len(total) = st[n + 1] + 2 /\ st[n + 1] \in Nat
        BY <1>8 DEF Laid
      <4>2. PICK b \in Nat : b = st[m] /\ v = b + 2
        BY <1>11, <2>3, <4>1
      <4> QED BY SMTT(40), <1>14, <3>1, <4>2
    <3>3. HeadOf(m) = PartHead /\ Len(PartHead) = 7
      BY <2>3, Heads DEF HeadOf
    <3>4. k < Len(PartHead) /\ k \in Nat
      BY <3>2, <3>3
    <3>5. InHead(PartHead, k, ext) /\ ext \in Extractor
      BY <2>1, <3>1, <3>3, <3>4, Zenon DEF HasRead
    <3>6. IsSegment(PartHead, ImageOf(streamed', m))
      <4>1. IsSegment(HeadOf(m), ImageOf(streamed', m))
        BY <1>17, Segments
      <4> QED BY <3>3, <4>1
    <3>7. k \in 0 .. SegLen(PartHead, ImageOf(streamed', m))
      <4>1. /\ SegLen(PartHead, ImageOf(streamed', m)) = Len(PartHead) + Len(ImageOf(streamed', m)) + 4
            /\ Len(ImageOf(streamed', m)) \in Nat
        BY <3>6, SegmentTypes
      <4> QED BY <3>2, <3>3, <4>1
    <3>8. HasRead(PartHead, ImageOf(streamed', m), k, ext)
      BY <3>4, <3>5, <3>7, Zenon DEF HasRead
    <3> QED BY <1>15, <3>1, <3>3, <3>8
  <2>4. m \in 0 .. n \/ m = n + 1
    BY <1>14
  <2> QED BY <2>2, <2>3, <2>4
<1>20. PICK x \in Nat, n1 \in Nat : x = w + y /\ n1 = n + 1
  OBVIOUS
<1>21. Reads(T, u, n1, m, pos, a, x)'
  <2>1. m <= n1 + 1 /\ pos + a + x = v + y /\ pos + a + x <= v + y
    BY <1>14, <1>20
  <2>2. /\ Len(pub) = m /\ net \in Seq(Letters) /\ Len(net) = a
        /\ \A j \in 1 .. a : net[j] = total[pos + j]
        /\ \A j \in 1 .. w : wire[j] = total[pos + a + j]
        /\ ready <=> Proxy!search_pattern_matches(ext)
    BY <1>5 DEF Reads
  <2>3. ASSUME NEW j \in 1 .. a PROVE net[j] = T[pos + j]
    <3>1. pos + j \in 1 .. v
      BY <1>14
    <3> QED BY <1>12, <2>2, <3>1
  <2>4. ASSUME NEW j \in 1 .. x PROVE wire'[j] = T[pos + a + j]
    <3>1. CASE j <= w
      <4>1. j \in 1 .. w /\ pos + a + j \in 1 .. v
        BY <1>14, <3>1
      <4> QED BY <1>12, <1>13, <2>2, <4>1
    <3>2. CASE j > w
      <4>1. PICK i \in 1 .. y : i = j - w /\ j = w + i /\ pos + a + j = v + i
        BY <1>14, <1>20, <3>2
      <4>2. wire'[w + i] = q[i]
        BY <1>13
      <4>3. T[v + i] = q[i]
        BY <1>12
      <4> QED BY <4>1, <4>2, <4>3
    <3> QED BY <3>1, <3>2
  <2>5. Laid(T, u, streamed', n1) /\ Len(wire') = x /\ Len(T) = v + y /\ wire' \in Seq(Letters)
    BY <1>9, <1>12, <1>13, <1>20
  <2>6. u[m] <= pos
    BY <1>14, <1>15
  <2>7. pos + a + x <= Len(T) /\ pos + a + x = Len(T)
    BY <2>1, <2>5
  <2> QED BY <1>1, <1>19, <2>1, <2>2, <2>3, <2>4, <2>5, <2>6, <2>7, Zenon DEF Reads
<1>22. Open'
  BY <1>21, Zenon DEF Open
<1> QED BY <1>3, <1>18, <1>22 DEF Streaming

LEMMA RecvStreams == Streaming /\ Proxy!Recv => Streaming' \/ Lost'
<1> SUFFICES ASSUME Streaming, Proxy!Recv, ~ Lost' PROVE Streaming'
  OBVIOUS
<1>1. conn \in {"up", "over"} /\ net = << >> /\ ~ready /\ UNCHANGED <<conn, streamed, breaks, pub>>
  BY DEF Proxy!Recv
<1>2. PICK k \in 1 .. Len(wire) :
        Proxy!extract_data(ext, SubSeq(wire, 1, k)) /\ wire' = SubSeq(wire, k + 1, Len(wire))
  BY DEF Proxy!Recv
<1>3. PICK total, st : \E n \in Nat, m \in Nat, pos \in Nat, a \in Nat, w \in Nat :
                          Reads(total, st, n, m, pos, a, w)
  BY <1>1 DEF Streaming, Open
<1>4. PICK n \in Nat, m \in Nat, pos \in Nat, a \in Nat, w \in Nat : Reads(total, st, n, m, pos, a, w)
  BY <1>3
<1>5. wire \in Seq(Letters) /\ Len(wire) = w /\ a = 0
  BY <1>1, <1>4 DEF Reads
<1>6. PICK z \in Nat, x \in Nat, y \in Nat :
        z = 0 /\ z + 1 = 1 /\ x = k /\ z <= x /\ x <= w /\ x = x - z /\ y = w - x /\ w <= w
  <2>1. k \in 1 .. w
    BY <1>2, <1>5
  <2> QED BY <2>1
<1>7. PICK s \in Seq(Letters) : s = SubSeq(wire, 1, k) /\ Len(s) = x /\ \A j \in 1 .. x : s[j] = wire[j]
  <2>1. /\ SubSeq(wire, z + 1, x) \in Seq(Letters) /\ Len(SubSeq(wire, z + 1, x)) = x
        /\ \A j \in 1 .. x : SubSeq(wire, z + 1, x)[j] = wire[z + j]
    BY <1>5, <1>6, Cut
  <2>2. \A j \in 1 .. x : z + j = j
    BY <1>6
  <2>3. SubSeq(wire, 1, k) = SubSeq(wire, z + 1, x)
    BY <1>6
  <2>4. \A j \in 1 .. x : SubSeq(wire, z + 1, x)[j] = wire[j]
    BY <2>1, <2>2
  <2> QED BY <2>1, <2>3, <2>4, Zenon
<1>8. wire' \in Seq(Letters) /\ Len(wire') = y /\ \A j \in 1 .. y : wire'[j] = wire[x + j]
  <2>1. /\ SubSeq(wire, x + 1, w) \in Seq(Letters) /\ Len(SubSeq(wire, x + 1, w)) = y
        /\ \A j \in 1 .. y : SubSeq(wire, x + 1, w)[j] = wire[x + j]
    BY <1>5, <1>6, Cut
  <2>2. wire' = SubSeq(wire, x + 1, w)
    BY <1>2, <1>5, <1>6
  <2> QED BY <2>1, <2>2
<1>9. Laid(total, st, streamed, n) /\ m \in 0 .. n + 1 /\ streamed \in Seq(Pictures)
  <2>1. Laid(total, st, streamed, n) /\ m <= n + 1
    BY <1>4 DEF Reads
  <2>2. streamed \in Seq(Pictures)
    BY <2>1 DEF Laid
  <2> QED BY <2>1, <2>2
<1>10. PICK v \in Nat, b \in Nat, c \in Nat :
         v = Len(total) /\ b = st[m] /\ c = pos - b /\ b + c = pos /\ pos + w <= v /\ (conn = "up" => pos + w = v)
  <2>1. Len(total) \in Nat
    BY <1>9, LenProperties DEF Laid
  <2>2. st[m] \in Nat
    BY <1>9 DEF Laid
  <2>3. st[m] <= pos /\ pos + a + w <= Len(total) /\ (conn = "up" => pos + a + w = Len(total))
    BY <1>4 DEF Reads
  <2>4. PICK v \in Nat, b \in Nat : v = Len(total) /\ b = st[m]
    BY <2>1, <2>2
  <2>5. b <= pos /\ pos + a + w = pos + w
    BY <1>5, <2>3, <2>4
  <2>6. PICK c \in Nat : c = pos - b /\ b + c = pos
    BY <2>5
  <2>7. pos + w <= v /\ (conn = "up" => pos + w = v)
    BY <2>3, <2>4, <2>5
  <2> QED BY <2>4, <2>6, <2>7, Zenon
<1>11. \A j \in 1 .. w : wire[j] = total[pos + j]
  <2>1. \A j \in 1 .. w : wire[j] = total[pos + a + j]
    BY <1>4 DEF Reads
  <2>2. \A j \in 1 .. w : pos + a + j = pos + j
    BY <1>5
  <2> QED BY <2>1, <2>2
<1>12. Pieces'
  BY <1>1 DEF Streaming, Pieces
<1>13. PICK r \in 0 .. x : Extracted(total, st, streamed, m, c, x, r)
  <2>1. HasRead(HeadOf(m), ImageOf(streamed, m), c, ext)
    <3>1. HasRead(HeadOf(m), ImageOf(streamed, m), pos - st[m], ext)
      BY <1>4 DEF Reads
    <3> QED BY <1>10, <3>1
  <2>2. st[m] + c + x <= Len(total)
    <3>1. b + c + x <= v
      <4>1. b + c = pos /\ pos + w <= v
        BY <1>10
      <4>2. x <= w
        BY <1>6
      <4> QED BY <4>1, <4>2
    <3> QED BY <1>10, <3>1
  <2>3. \A j \in 1 .. x : s[j] = total[st[m] + c + j]
    <3>1. \A j \in 1 .. x : j \in 1 .. w
      BY <1>6
    <3>2. st[m] + c = pos
      BY <1>10
    <3> QED BY <1>7, <1>11, <3>1, <3>2, Zenon
  <2>4. Proxy!extract_data(ext, s)
    BY <1>2, <1>7
  <2>5. Len(s) = x
    BY <1>7
  <2>6. (\E r \in 0 .. x : Extracted(total, st, streamed, m, c, x, r)) \/ Overrun(ImageOf(streamed, m), ext')
    BY <1>9, <2>1, <2>2, <2>3, <2>4, <2>5, Extracts
  <2>7. ~ Overrun(ImageOf(streamed, m), ext')
    <3>1. ready' \in BOOLEAN
      BY <2>4 DEF Proxy!extract_data, Proxy!search_pattern_matches
    <3>2. conn' \in {"up", "over"} /\ breaks' \in 0 .. MaxBreaks /\ UNCHANGED streamed
      BY <1>1 DEF Streaming, ProxyTyped
    <3> QED BY <1>9, <1>12, <3>1, <3>2, Loses
  <2> QED BY <2>6, <2>7
<1>14. /\ net' \in Seq(Letters) /\ Len(net') = x - r
       /\ \A j \in 1 .. x - r : net'[j] = total[st[m] + c + r + j]
       /\ HasRead(HeadOf(m), ImageOf(streamed, m), c + r, ext')
       /\ ready' = Proxy!search_pattern_matches(ext')
  BY <1>13 DEF Extracted
<1>15. PICK q \in Nat, f \in Nat, g \in Nat : q = pos + r /\ f = x - r /\ g = c + r /\ f + r = x
  OBVIOUS
<1>16. ext' \in Extractor /\ Len(ext'.last) <= 4 /\ ready' \in BOOLEAN
  <2>1. ext' \in Extractor /\ Len(ext'.last) <= 4
    BY <1>14, HasReadTyped
  <2>2. Proxy!search_pattern_matches(ext') \in BOOLEAN
    BY DEF Proxy!search_pattern_matches
  <2> QED BY <1>14, <2>1, <2>2
<1>17. ProxyTyped'
  BY <1>1, <1>16 DEF Streaming, ProxyTyped
<1>18. Reads(total, st, n, m, q, f, y)'
  <2>1. m <= n + 1 /\ Len(pub) = m
    BY <1>4 DEF Reads
  <2>2. net' \in Seq(Letters) /\ Len(net') = f
    BY <1>14, <1>15
  <2>3. st[m] <= q /\ q + f + y <= Len(total) /\ (conn = "up" => q + f + y = Len(total))
    <3>1. b <= q /\ q + f + y = pos + w
      <4>1. b + c = pos
        BY <1>10
      <4>2. y = w - x /\ x <= w
        BY <1>6
      <4> QED BY <1>15, <4>1, <4>2
    <3> QED BY <1>10, <3>1
  <2>4. ASSUME NEW j \in 1 .. f PROVE net'[j] = total[q + j]
    <3>1. st[m] + c + r + j = q + j
      <4>1. b + c + r + j = q + j
        BY <1>10, <1>14, <1>15
      <4> QED BY <1>10, <4>1
    <3> QED BY <1>14, <1>15, <3>1
  <2>5. ASSUME NEW j \in 1 .. y PROVE wire'[j] = total[q + f + j]
    <3>1. x + j \in 1 .. w /\ pos + (x + j) = q + f + j
      BY <1>6, <1>14, <1>15
    <3> QED BY <1>8, <1>11, <3>1
  <2>6. HasRead(HeadOf(m), ImageOf(streamed, m), q - st[m], ext')
    <3>1. q - b = c + r
      BY SMTT(40), <1>10, <1>15
    <3> QED BY <1>10, <1>14, <3>1
  <2>7. ready' <=> Proxy!search_pattern_matches(ext')
    BY <1>14
  <2> QED BY <1>1, <1>8, <1>9, <2>1, <2>2, <2>3, <2>4, <2>5, <2>6, <2>7, Zenon DEF Reads
<1>19. Open'
  BY <1>18, Zenon DEF Open
<1> QED BY <1>17, <1>12, <1>19 DEF Streaming

LEMMA PublishStreams ==
    Streaming /\ Proxy!Publish => (Streaming' \/ Lost') /\ (buf \in [n : Nat, size : Nat] => Published)
<1> SUFFICES ASSUME Streaming, Proxy!Publish
             PROVE  (Streaming' \/ Lost') /\ (buf \in [n : Nat, size : Nat] => Published)
  OBVIOUS
<1>1. ready /\ UNCHANGED <<wire, streamed, breaks, db>> /\ db = "free"
  BY DEF Proxy!Publish, Proxy!remote
<1>2. conn \in {"up", "over"}
  BY <1>1 DEF Streaming, ProxyTyped
<1>3. PICK total, st : \E n \in Nat, m \in Nat, pos \in Nat, a \in Nat, w \in Nat :
                          Reads(total, st, n, m, pos, a, w)
  BY <1>2 DEF Streaming, Open
<1>4. PICK n \in Nat, m \in Nat, pos \in Nat, a \in Nat, w \in Nat : Reads(total, st, n, m, pos, a, w)
  BY <1>3
<1>5. Laid(total, st, streamed, n) /\ m \in 0 .. n + 1 /\ streamed \in Seq(Pictures) /\ Len(streamed) = n
  <2>1. Laid(total, st, streamed, n) /\ m <= n + 1
    BY <1>4 DEF Reads
  <2>2. streamed \in Seq(Pictures) /\ Len(streamed) = n
    BY <2>1 DEF Laid
  <2> QED BY <2>1, <2>2
<1> DEFINE h == HeadOf(m)
           g == ImageOf(streamed, m)
<1>6. IsSegment(h, g)
  BY <1>5, Segments
<1>7. HasRead(h, g, pos - st[m], ext) /\ Proxy!search_pattern_matches(ext)
  BY <1>1, <1>4 DEF Reads
<1>8. pos - st[m] = SegLen(h, g) /\ HasRead(h, g, SegLen(h, g), ext)
  <2> HIDE DEF h, g
  <2> QED BY <1>6, <1>7, Matches
<1>9. PICK v \in Nat, b \in Nat, l \in Nat : v = Len(total) /\ b = st[m] /\ l = SegLen(h, g) /\ b + l = pos
  <2>1. Len(total) \in Nat
    BY <1>5, LenProperties DEF Laid
  <2>2. st[m] \in Nat
    BY <1>5 DEF Laid
  <2>3. SegLen(h, g) \in Nat
    BY <1>6, SegmentTypes
  <2>4. PICK v \in Nat, b \in Nat, l \in Nat : v = Len(total) /\ b = st[m] /\ l = SegLen(h, g)
    BY <2>1, <2>2, <2>3
  <2>5. b + l = pos
    BY <1>8, <2>4
  <2> QED BY <2>4, <2>5
<1>10. pos + a + w <= v /\ (conn = "up" => pos + a + w = v)
  BY <1>4, <1>9 DEF Reads
<1>11. m \in 0 .. n
  <2>1. m # n + 1
    <3> SUFFICES ASSUME m = n + 1 PROVE FALSE
      OBVIOUS
    <3>1. h = PartHead /\ Len(PartHead) = 7
      BY Heads DEF HeadOf
    <3>2. v = b + 2
      BY <1>5, <1>9 DEF Laid
    <3>3. l >= 7
      <4>1. Len(g) \in Nat /\ SegLen(h, g) = Len(h) + Len(g) + 4
        BY <1>6, SegmentTypes
      <4>2. PICK c \in Nat : c = Len(g)
        BY <4>1
      <4>3. l = 7 + c + 4
        BY <1>9, <3>1, <4>1, <4>2
      <4> QED BY <4>3
    <3> QED BY <1>9, <1>10, <3>2, <3>3
  <2> QED BY <1>5, <2>1
<1>12. st[m + 1] = pos
  <2>1. st[m + 1] = st[m] + Size(streamed, m)
    BY <1>5, <1>11 DEF Laid
  <2> QED BY <1>9, <2>1 DEF Size
<1>13. Proxy!ImageLength(ext) = Len(g) /\ Len(g) \in Nat /\ Proxy!Image(ext) = g
  <2> HIDE DEF h, g
  <2> QED BY <1>6, <1>8, ImageFound
<1>14. /\ pub' = Append(pub, g) /\ UNCHANGED conn /\ waiting' = {}
       /\ buf' = [n |-> buf.n + 1, size |-> Len(g)]
  <2> HIDE DEF h, g
  <2>1. ~ Proxy!ImageLength(ext) < 0
    BY <1>13
  <2> QED BY <1>13, <2>1 DEF Proxy!Publish
<1>15. ASSUME buf \in [n : Nat, size : Nat] PROVE Published
  <2> HIDE DEF h, g
  <2> QED BY <1>1, <1>13, <1>14, <1>15 DEF Published
<1>16. Len(pub) = m /\ pub \in Seq(Seq(Letters)) /\ \A i \in 1 .. Len(pub) : pub[i] = ImageOf(streamed, i - 1)
  BY <1>4 DEF Streaming, Pieces, Reads
<1>17. g \in Seq(Letters)
  BY <1>6 DEF IsSegment
<1>18. /\ pub' \in Seq(Seq(Letters)) /\ Len(pub') = m + 1
       /\ (\A j \in 1 .. m : pub'[j] = pub[j]) /\ pub'[m + 1] = g
  <2> HIDE DEF h, g
  <2>1. pub \in Seq(Seq(Letters)) /\ Len(pub) = m
    BY <1>16
  <2>2. /\ Append(pub, g) \in Seq(Seq(Letters)) /\ Len(Append(pub, g)) = m + 1
        /\ \A j \in 1 .. m : Append(pub, g)[j] = pub[j]
        /\ Append(pub, g)[m + 1] = g
    BY <1>17, <2>1, Appended
  <2> QED BY <1>14, <2>2
<1>19. Pieces'
  <2>1. ASSUME NEW i \in 1 .. m + 1 PROVE pub'[i] = ImageOf(streamed, i - 1)
    <3>1. CASE i = m + 1
      <4>1. i - 1 = m
        BY <3>1
      <4> QED BY <1>18, <3>1, <4>1
    <3>2. CASE i # m + 1
      <4>1. i \in 1 .. m
        BY <3>2
      <4> QED BY <1>16, <1>18, <4>1
    <3> QED BY <3>1, <3>2
  <2>2. m + 1 <= n + 1
    BY <1>11
  <2> QED BY <1>1, <1>5, <1>18, <2>1, <2>2 DEF Pieces
<1>20. PICK m1 \in Nat, k \in Nat : m1 = m + 1 /\ m1 \in 0 .. n + 1 /\ k = 0
  BY <1>11
<1>21. HasRead(HeadOf(m1), ImageOf(streamed, m1), k, Proxy!init_extractor_state)
  <2>1. IsSegment(HeadOf(m1), ImageOf(streamed, m1))
    BY <1>5, Segments
  <2> QED BY <1>20, <2>1, BeginsReading
<1>22. ASSUME Overrun(ImageOf(streamed, m1), ext') PROVE Lost'
  <2>1. ready' \in BOOLEAN
    BY DEF Proxy!Publish, Proxy!extract_data, Proxy!search_pattern_matches
  <2>2. conn' \in {"up", "over"} /\ breaks' \in 0 .. MaxBreaks /\ UNCHANGED streamed
    BY <1>1, <1>2, <1>14 DEF Streaming, ProxyTyped
  <2> QED BY <1>5, <1>19, <1>20, <1>22, <2>1, <2>2, Loses
<1>23. CASE Lost'
  BY <1>15, <1>23
<1>24. CASE ~ Lost'
  <2>1. PICK r \in 0 .. a : Extracted(total, st, streamed, m1, k, a, r)
    <3>1. net \in Seq(Letters) /\ Len(net) = a /\ \A j \in 1 .. a : net[j] = total[pos + j]
      BY <1>4 DEF Reads
    <3>2. st[m1] + k = pos /\ st[m1] + k + a = pos + a
      BY <1>12, <1>20
    <3>3. pos + a <= v
      BY <1>10
    <3>4. st[m1] + k + a <= Len(total)
      BY <1>9, <3>2, <3>3
    <3>5. \A j \in 1 .. a : net[j] = total[st[m1] + k + j]
      BY <3>1, <3>2, Zenon
    <3>6. Proxy!extract_data(Proxy!init_extractor_state, net)
      BY DEF Proxy!Publish
    <3>7. (\E r \in 0 .. a : Extracted(total, st, streamed, m1, k, a, r)) \/ Overrun(ImageOf(streamed, m1), ext')
      BY <1>5, <1>20, <1>21, <3>1, <3>4, <3>5, <3>6, Extracts
    <3> QED BY <3>7, <1>22, <1>24
  <2>2. /\ net' \in Seq(Letters) /\ Len(net') = a - r
        /\ \A j \in 1 .. a - r : net'[j] = total[st[m1] + k + r + j]
        /\ HasRead(HeadOf(m1), ImageOf(streamed, m1), k + r, ext')
        /\ ready' = Proxy!search_pattern_matches(ext')
    BY <2>1 DEF Extracted
  <2>3. ext' \in Extractor /\ Len(ext'.last) <= 4 /\ ready' \in BOOLEAN
    <3>1. ext' \in Extractor /\ Len(ext'.last) <= 4
      BY <2>2, HasReadTyped
    <3>2. Proxy!search_pattern_matches(ext') \in BOOLEAN
      BY DEF Proxy!search_pattern_matches
    <3> QED BY <2>2, <3>1, <3>2
  <2>4. ProxyTyped'
    BY <1>1, <1>2, <1>14, <2>3 DEF Streaming, ProxyTyped
  <2>5. PICK q \in Nat, f \in Nat : q = pos + r /\ f = a - r
    BY <2>2
  <2>6. Reads(total, st, n, m1, q, f, w)'
    <3>1. m1 <= n + 1 /\ Len(pub') = m1
      BY <1>18, <1>20
    <3>2. net' \in Seq(Letters) /\ Len(net') = f
      BY <2>2, <2>5
    <3>3. st[m1] <= q /\ q + f + w <= Len(total) /\ (conn = "up" => q + f + w = Len(total))
      <4>1. pos <= q /\ q + f + w = pos + a + w
        BY <2>2, <2>5
      <4> QED BY <1>9, <1>10, <1>12, <1>20, <4>1
    <3>4. ASSUME NEW j \in 1 .. f PROVE net'[j] = total[q + j]
      <4>1. st[m1] + k + r + j = q + j
        <5>1. pos + k + r + j = q + j
          BY <1>20, <2>2, <2>5
        <5> QED BY <1>12, <1>20, <5>1
      <4> QED BY <2>2, <2>5, <4>1
    <3>5. wire \in Seq(Letters) /\ Len(wire) = w /\ \A j \in 1 .. w : wire[j] = total[pos + a + j]
      BY <1>4 DEF Reads
    <3>6. \A j \in 1 .. w : wire[j] = total[q + f + j]
      <4>1. q + f = pos + a
        BY <2>2, <2>5
      <4> QED BY <3>5, <4>1, Zenon
    <3>7. HasRead(HeadOf(m1), ImageOf(streamed, m1), q - st[m1], ext')
      <4>1. q - pos = k + r
        BY <1>20, <2>2, <2>5
      <4> QED BY <1>12, <1>20, <2>2, <4>1
    <3>8. ready' <=> Proxy!search_pattern_matches(ext')
      BY <2>2
    <3> QED BY <1>1, <1>5, <1>14, <3>1, <3>2, <3>3, <3>4, <3>5, <3>6, <3>7, <3>8, Zenon DEF Reads
  <2>7. Open'
    BY <2>6, Zenon DEF Open
  <2> QED BY <1>15, <1>19, <2>4, <2>7 DEF Streaming
<1> QED BY <1>23, <1>24

\* What was published from a connection is a beginning of what was streamed.
LEMMA PiecesPrefix == Pieces => Proxy!IsPrefix(pub, <<Proxy!FirstImage>> \o streamed)
<1> SUFFICES ASSUME Pieces PROVE Proxy!IsPrefix(pub, <<Proxy!FirstImage>> \o streamed)
  OBVIOUS
<1>1. /\ streamed \in Seq(Pictures) /\ pub \in Seq(Seq(Letters)) /\ Len(pub) <= Len(streamed) + 1
      /\ \A i \in 1 .. Len(pub) : pub[i] = ImageOf(streamed, i - 1)
  BY DEF Pieces
<1>2. PICK n \in Nat, m \in Nat : n = Len(streamed) /\ m = Len(pub) /\ m <= n + 1
  <2>1. Len(streamed) \in Nat /\ Len(pub) \in Nat
    BY <1>1, LenProperties
  <2> QED BY <1>1, <2>1
<1> DEFINE B == Seq(Letters)
<1>3. PICK gs \in Seq(B) : gs = streamed /\ Len(gs) = n
  <2>1. \A j \in 1 .. Len(streamed) : streamed[j] \in Seq(Letters)
    BY <1>1, PictureLetters, ElementOfSeq
  <2>2. streamed \in Seq(Seq(Letters))
    BY <1>1, <2>1, SequencesOver, Zenon
  <2> QED BY <1>2, <2>2
<1>4. PICK o : o = <<Proxy!FirstImage>> /\ o \in Seq(B) /\ Len(o) = 1 /\ o[1] = Proxy!FirstImage
  <2>1. PICK f \in B : f = Proxy!FirstImage
    BY FirstImageFact
  <2> HIDE DEF B
  <2>2. <<f>> \in Seq(B) /\ Len(<<f>>) = 1 /\ <<f>>[1] = f
    OBVIOUS
  <2> QED BY <2>1, <2>2
<1> HIDE DEF B
<1>5. PICK t \in Seq(B) : t = o \o gs /\ Len(t) = n + 1
        /\ \A i \in 1 .. n + 1 : t[i] = IF i <= 1 THEN o[i] ELSE gs[i - 1]
  <2>1. o \o gs \in Seq(B) /\ Len(o \o gs) = 1 + n
        /\ \A i \in 1 .. 1 + n : (o \o gs)[i] = IF i <= 1 THEN o[i] ELSE gs[i - 1]
    BY <1>3, <1>4, ConcatProperties
  <2>2. 1 + n = n + 1
    OBVIOUS
  <2> QED BY <2>1, <2>2, Zenon
<1>6. ASSUME NEW i \in 1 .. m PROVE pub[i] = t[i]
  <2>1. i \in 1 .. n + 1
    BY <1>2
  <2>2. CASE i = 1
    <3>1. pub[i] = ImageOf(streamed, 0) /\ i <= 1
      BY <1>1, <1>2, <2>2
    <3> QED BY <1>4, <1>5, <2>1, <2>2, <3>1 DEF ImageOf
  <2>3. CASE i # 1
    <3>1. ~ i <= 1 /\ i - 1 # 0 /\ i - 1 <= Len(streamed)
      BY <1>2, <2>1, <2>3
    <3>2. pub[i] = ImageOf(streamed, i - 1)
      BY <1>1, <1>2
    <3> QED BY <1>3, <1>5, <2>1, <3>1, <3>2, Zenon DEF ImageOf
  <2> QED BY <2>2, <2>3
<1>7. pub \in Seq(B) /\ Len(pub) = m
  BY <1>1, <1>2 DEF B
<1>8. PICK z \in Nat, x \in Nat : z = 0 /\ z + 1 = 1 /\ x = n + 1 /\ z <= m /\ m <= x /\ m <= m /\ m = m - z
  BY <1>2
<1>9. /\ SubSeq(pub, z + 1, m) \in Seq(B) /\ Len(SubSeq(pub, z + 1, m)) = m
      /\ \A j \in 1 .. m : SubSeq(pub, z + 1, m)[j] = pub[z + j]
  BY <1>7, <1>8, Cut
<1>10. /\ SubSeq(t, z + 1, m) \in Seq(B) /\ Len(SubSeq(t, z + 1, m)) = m
       /\ \A j \in 1 .. m : SubSeq(t, z + 1, m)[j] = t[z + j]
  <2>1. Len(t) = x
    BY <1>5, <1>8
  <2> QED BY <1>8, <2>1, Cut
<1>11. SubSeq(pub, z + 1, m) = SubSeq(t, z + 1, m)
  <2>1. ASSUME NEW j \in 1 .. m PROVE SubSeq(pub, z + 1, m)[j] = SubSeq(t, z + 1, m)[j]
    <3>1. z + j = j
      BY <1>8
    <3> QED BY <1>6, <1>9, <1>10, <3>1
  <2>2. PICK p1 \in Seq(B), t1 \in Seq(B) : p1 = SubSeq(pub, z + 1, m) /\ t1 = SubSeq(t, z + 1, m)
    BY <1>9, <1>10
  <2>3. Len(p1) = Len(t1) /\ \A j \in 1 .. Len(p1) : p1[j] = t1[j]
    BY <1>9, <1>10, <2>1, <2>2
  <2>4. p1 = t1
    BY <2>3, SeqEqual
  <2> QED BY <2>2, <2>4
<1>12. Len(pub) <= Len(t) /\ SubSeq(pub, 1, Len(pub)) = SubSeq(t, 1, Len(pub))
  BY <1>2, <1>5, <1>7, <1>8, <1>11
<1>13. Proxy!IsPrefix(pub, t)
  BY <1>12 DEF Proxy!IsPrefix
<1>14. t = <<Proxy!FirstImage>> \o streamed
  BY <1>3, <1>4, <1>5
<1> QED BY <1>13, <1>14

LEMMA StreamingExtracts == Streaming \/ Lost => Proxy!ExtractsPictures
<1>1. ASSUME Streaming PROVE Proxy!ExtractsPictures
  <2>1. conn # "crash" /\ ext.part # "OVERRUN"
    BY <1>1 DEF Streaming, ProxyTyped, Extractor
  <2> QED BY <1>1, <2>1, PiecesPrefix DEF Streaming, Proxy!ExtractsPictures
<1>2. ASSUME Lost PROVE Proxy!ExtractsPictures
  <2>1. conn # "crash"
    BY <1>2 DEF Lost
  <2> QED BY <1>2, <2>1, PiecesPrefix DEF Lost, Proxy!ExtractsPictures
<1> QED BY <1>1, <1>2

-----------------------------------------------------------------------------
(* The two plugins together.                                               *)

Tried == refused \in 0 .. MaxRefused

Inv == FileTyped /\ Whole /\ Fresh /\ Grown /\ Aligned /\ Latest /\ Tried /\ (Streaming \/ Lost)

LEMMA ProxyStreams ==
    Streaming /\ Proxy!Next =>
        (Streaming' \/ Lost') /\ (buf \in [n : Nat, size : Nat] => Published \/ UNCHANGED shared)
<1> SUFFICES ASSUME Streaming, Proxy!Next
             PROVE  (Streaming' \/ Lost') /\ (buf \in [n : Nat, size : Nat] => Published \/ UNCHANGED shared)
  OBVIOUS
<1>1. CASE Proxy!Connect
  <2>1. UNCHANGED shared
    BY <1>1 DEF Proxy!Connect, Proxy!shared, shared
  <2> QED BY <1>1, <2>1, ConnectStreams
<1>2. CASE Proxy!Recv
  <2>1. UNCHANGED shared
    BY <1>2 DEF Proxy!Recv, Proxy!shared, shared
  <2> QED BY <1>2, <2>1, RecvStreams
<1>3. CASE Proxy!Publish
  BY <1>3, PublishStreams
<1>4. CASE Proxy!Close
  <2>1. UNCHANGED shared
    BY <1>4 DEF Proxy!Close, Proxy!shared, shared
  <2> QED BY <1>4, <2>1, CloseStreams
<1>5. CASE Proxy!RemoteStreams
  <2>1. UNCHANGED shared
    BY <1>5 DEF Proxy!RemoteStreams, Proxy!shared, shared
  <2> QED BY <1>5, <2>1, RemoteAdds
<1>6. CASE Proxy!Breaks
  <2>1. UNCHANGED shared
    BY <1>6 DEF Proxy!Breaks, Proxy!shared, shared
  <2> QED BY <1>6, <2>1, BreakStreams
<1>7. CASE Proxy!ConnectFails
  <2>1. UNCHANGED shared /\ UNCHANGED <<conn, wire, net, ext, ready, streamed, pub, breaks>>
    BY <1>7 DEF Proxy!ConnectFails, Proxy!shared, shared
  <2> QED BY <2>1, StutterStreams
<1>8. CASE Proxy!LookupFails
  <2>1. /\ UNCHANGED shared /\ UNCHANGED <<wire, net, ext, ready, streamed, pub, breaks>>
        /\ conn = "down" /\ conn' \in {"down", "killed"}
    BY <1>8 DEF Proxy!LookupFails, Proxy!Refused, Proxy!shared, shared
  <2>2. Streaming'
    BY <2>1 DEF Streaming, ProxyTyped, Pieces, Open
  <2> QED BY <2>1, <2>2
<1> QED BY <1>1, <1>2, <1>3, <1>4, <1>5, <1>6, <1>7, <1>8 DEF Proxy!Next, Proxy!worker_thread

\* When the extractor has gone astray, nothing is modelled any more.
LEMMA StutterLost == Lost /\ UNCHANGED <<conn, ext, ready, streamed, pub, breaks>> => Lost'
BY DEF Lost, Pieces

LEMMA StepStreams ==
    (Streaming \/ Lost) /\ FileTyped /\ [Next]_vars => (Streaming' \/ Lost') /\ Steps
<1> SUFFICES ASSUME Streaming \/ Lost, FileTyped, [Next]_vars PROVE (Streaming' \/ Lost') /\ Steps
  OBVIOUS
<1>1. CASE Running /\ Proxy!Next /\ UNCHANGED fileVars
  <2>1. buf \in [n : Nat, size : Nat]
    BY DEF FileTyped
  <2>2. Streaming
    BY <1>1 DEF Lost, Running
  <2>3. (Streaming' \/ Lost') /\ (Published \/ UNCHANGED shared)
    BY <1>1, <2>1, <2>2, ProxyStreams
  <2> QED BY <1>1, <2>3 DEF Steps, shared
<1>2. CASE Recorder!Next /\ UNCHANGED proxyVars
  <2>1. UNCHANGED <<conn, wire, net, ext, ready, streamed, pub, breaks>>
    BY <1>2 DEF proxyVars
  <2> QED BY <1>2, <2>1, StutterStreams, StutterLost DEF Steps
<1>3. CASE UNCHANGED vars
  <2>1. UNCHANGED <<conn, wire, net, ext, ready, streamed, pub, breaks>> /\ UNCHANGED <<shared, fileVars>>
    BY <1>3 DEF vars, proxyVars, shared
  <2> QED BY <2>1, StutterStreams, StutterLost DEF Steps
<1> QED BY <1>1, <1>2, <1>3 DEF Next

LEMMA StepTried == Tried /\ [Next]_vars => Tried'
<1> SUFFICES ASSUME Tried, [Next]_vars PROVE Tried'
  OBVIOUS
<1>1. CASE Proxy!Refused
  BY <1>1, BoundsAssumption DEF Tried, Proxy!Refused
<1>2. CASE UNCHANGED refused
  BY <1>2 DEF Tried
<1>3. Proxy!Next => Proxy!Refused \/ UNCHANGED refused
  BY DEF Proxy!Next, Proxy!worker_thread, Proxy!Connect, Proxy!ConnectFails, Proxy!LookupFails, Proxy!Recv,
         Proxy!Publish, Proxy!Close, Proxy!RemoteStreams, Proxy!Breaks, Proxy!remote
<1> QED BY <1>1, <1>2, <1>3 DEF Next, vars, proxyVars

LEMMA Initially == Init => Inv
<1> SUFFICES ASSUME Init PROVE Inv
  OBVIOUS
<1>1. Proxy!Init /\ Recorder!Init /\ db = "free" /\ waiting = {} /\ buf = [n |-> 0, size |-> 0]
  BY DEF Init
<1>2. Tried
  BY <1>1, BoundsAssumption DEF Tried, Proxy!Init
<1> QED BY <1>1, <1>2, InitFileTyped, InitWhole, InitFresh, InitGrown, InitLatest, InitStreaming DEF Inv

LEMMA Preserved == Inv /\ [Next]_vars => Inv'
<1> SUFFICES ASSUME Inv, [Next]_vars PROVE Inv'
  OBVIOUS
<1>1. (Streaming' \/ Lost') /\ Steps /\ Tried'
  BY StepStreams, StepTried DEF Inv
<1> QED BY <1>1, StepsFileTyped, StepsWhole, StepsFresh, StepsGrown, StepsLatest DEF Inv

THEOREM Invariance == Spec => []Inv
BY Initially, Preserved, PTL DEF Spec

\* The types of Relay's state: that of the connection, of the extractor and of
\* what it shares with the recorder, and that of the recorder.
THEOREM TypeCorrect == Spec => []TypeOK
<1>1. Inv => TypeOK
  <2> SUFFICES ASSUME Inv PROVE TypeOK
    OBVIOUS
  <2>1. Proxy!TypeOK
    <3>1. buf \in [n : Nat, size : Nat] /\ Tried
      BY DEF Inv, FileTyped
    <3>2. Len(Proxy!BOUNDARY) = 2
      BY DEF Proxy!BOUNDARY
    <3>3. CASE Streaming
      <4>1. ext \in Extractor /\ Len(ext.last) <= 4 /\ ProxyTyped
        BY <3>3 DEF Streaming, ProxyTyped
      <4>2. ext.part \in {"HEADER", "CONTENT"} /\ ext.matched \in 0 .. 2
        BY <4>1 DEF Extractor
      <4> QED BY <3>1, <3>2, <4>1, <4>2 DEF Proxy!TypeOK, ProxyTyped, Tried
    <3>4. CASE Lost
      BY <3>1, <3>2, <3>4 DEF Proxy!TypeOK, Lost, Tried
    <3> QED BY <3>3, <3>4 DEF Inv
  <2>2. Recorder!TypeOK
    <3>1. FileTyped
      BY DEF Inv
    <3> QED BY <3>1 DEF FileTyped, Recorder!TypeOK, Thread, Writing, Recorder!At
  <2> QED BY <2>1, <2>2 DEF TypeOK
<1> QED BY <1>1, Invariance, PTL

\* ExtractsPictures (mjpg-proxy.c, extract_data): however the stream is cut and
\* wherever the connection breaks, for any pictures without a boundary: what is
\* published is what was streamed, and the buffer of the extractor, whatever it
\* holds, is overrun only when a picture was streamed that does not fit.
THEOREM Extraction == Spec => []ExtractsPictures
<1>1. Inv => ExtractsPictures
  BY StreamingExtracts DEF Inv, ExtractsPictures
<1> QED BY <1>1, Invariance, PTL

\* RecordsWhole (output_file.c, worker_thread and output_cmd): however often
\* realloc fails and max_frame_size stays raised, and whatever TAKE does to the
\* static buffer, a file that is not one whole frame is due to one of the two.
THEOREM Recording == Spec => []RecordsWhole
<1>1. Inv => RecordsWhole
  BY DEF Inv, Whole, RecordsWhole
<1> QED BY <1>1, Invariance, PTL

\* RecordsFresh (output_file.c, worker_thread).
THEOREM Freshness == Spec => []RecordsFresh
<1>1. Inv => RecordsFresh
  BY DEF Inv, Fresh, RecordsFresh, Recorder!RecordsFresh
<1> QED BY <1>1, Invariance, PTL

\* RingIsBounded (output_file.c, maintain_ringbuffer), for every size of the
\* ring and every number of files by which it may exceed it, but for the files
\* that the last maintenance failed to delete.
THEOREM BoundedRing == Spec => []RingIsBounded
<1>1. Inv => RingIsBounded
  BY GrownIsBounded DEF Inv, RingIsBounded
<1> QED BY <1>1, Invariance, PTL

\* RingKeepsNewest (output_file.c, maintain_ringbuffer).
THEOREM NewestKept == Spec => []RingKeepsNewest
<1>1. Inv => RingKeepsNewest
  BY LatestKeepsNewest DEF Inv, RingKeepsNewest
<1> QED BY <1>1, Invariance, PTL
=============================================================================
