# Verification of the vivarium controller

The repository controls a reptile vivarium over the network: an Android app sends commands to a
platform server, the server forwards them to a gateway on a Raspberry Pi, the gateway writes them to
an Arduino over a serial line, and the Arduino switches a lamp, a heater, a humidifier and a motor.
Sensor records travel the other way. Beside the gateway runs mjpg-streamer, which serves the pictures of a
camera. This directory models that system in TLA+, checks the models with TLC and proves the central
invariants with TLAPS.

Paths below are relative to `src/`. `Server/` stands for `Source code/Server/`, `Stream/` for
`Source code/Stream/mjpg-streamer-master/mjpg-streamer-experimental/`. The Java sources of
`Server/` are encoded in EUC-KR; the comments quoted here are translated.

## 1. Inventory

| Component | Source | State | Operations |
|---|---|---|---|
| Platform: sessions | `Server/Server/src/PlatformMain.java` | one thread per connection; the static fields `payload`, `id`, `password`, shared by all threads | `accept`, `Session.run` (twelve control branches, two sensor queries, state, sign-up, login, close) |
| Platform: CoAP client | `PlatformCoapSend.java` | none | a blocking request to the gateway, with time-out |
| Platform: CoAP server | `PlatformCoapServer.java` | none | `handlePUT`: stores a batch of sensor records |
| Platform: database | `Database.java` | a connection per session and per batch; tables `CURRENT_STATE`, `CONTROL_LOG`, `SENSOR_DATA`, `ACCOUNT` | `insertControl` (two statements), `select`, `insert`, `rawInsert` |
| Gateway: ModuleMain | `Server/Client/src/ModuleMain.java` | auto flags, `light`, last readings, a partial record, the serial port, one timer per motor start | `push`, `serialEvent`, `mTimer`, `initialize` |
| Gateway: CoAP server, client | `ModuleCoapServer.java`, `ModuleCoapSend.java` | none | `handleGET`/`handlePUT` call `push`; a blocking PUT of the records |
| Arduino | `Source code/Arduino/final/proto2.ino` | the UART's ring buffer, `frequency`, the output pins | `loop`, `control`, `printT1`, `printT2` |
| App: connection | `WifiApp/.../MainActivity.java` | a socket, the last result | `doCommu`, `doCommuForState`, `doClose` |
| App: control screen | `ProfileFragment.java` | a copy of the eight state flags | switch and toggle handlers, `setValue` |
| App: accounts | `LogInActivity.java`, `SignUpActivity.java` | a socket | log in, sign up |
| Streaming: core | `Stream/mjpg_streamer.c` | `global`: `stop`, per input a frame buffer, a mutex, a condition | open, run and stop the plugins; `signal_handler` |
| Streaming: camera | `plugins/input_uvc/input_uvc.c`, `v4l2uvc.c` | `struct vdIn`: the device, its mapped buffers, `streamingState` | `cam_thread`, `uvcGrab`, `input_cmd`, `setResolution`, `cam_cleanup` |
| Streaming: web server | `plugins/output_http/httpd.c`, `output_http.c` | one detached thread per client with a frame of its own | accept, `send_stream`, `send_snapshot`, `command` |
| Streaming: HTTP input | `plugins/input_http/mjpg-proxy.c`, `misc.c`, `input_http.c` | a socket, `extractor_state` | connect, `extract_data`, `on_image_received`, reconnect |
| Streaming: file output | `plugins/output_file/output_file.c` | the static buffer `frame`, a counter, the folder | `worker_thread`, `maintain_ringbuffer`, the command TAKE |

**Interactions.** App to platform: TCP, one request outstanding per connection. Platform to gateway and
gateway to platform: confirmable CoAP, blocking, given up after the retransmissions. Gateway to Arduino:
17 letters per command, no delimiter, no acknowledgement. Arduino to gateway: records that end in `@`.
Threads inside a process share fields without locks; only `serialEvent` is synchronized. The streamer's
threads share the frame buffer under a mutex and a condition, `global.stop` and the video device without either.

**What is hard.** Session threads race for the static `payload`. A command has three effects (the device,
the log, the state table) with no transaction around them. A CoAP request that timed out may still be
executed. `push` races with the automatic decisions. Motor timers overlap. The Arduino loses letters
while it sleeps, with nothing to find the next command by. The serial line cuts records anywhere. In the
streamer a resolution command takes the device from under the camera thread, SIGINT destroys what clients
wait on, and a recorder shares one static buffer between two threads.

**What makes each part correct.**

- Platform: a command reaches the gateway as it was asked for; the gateway executes it once and in order;
  the tables say what was done; the app gets a truthful answer, and always gets one.
- Gateway: manual mode wins over automatic decisions; the motor always stops; the fields that decisions
  are taken from tell the truth; commands are not held up by the sensor path.
- Arduino: it executes only commands that were sent; bursts that fit are not damaged; after a loss it finds
  its way back; commands do not hold up its reports.
- App: what it shows agrees with the platform's table.
- Sensor path: only whole records are sent and stored, in order, once; after a bad cut it finds its way back.
- Streamer: a client gets whole, fresh frames; it is served; the process ends only for a reason, and when told to.
- Recorder: the pictures of a stream come out of it as they went in; files hold whole frames; the ring keeps the
  newest.

`PROJECT.json` lists the hazards one by one, each at its line, with the properties that cover it.

## 2. Modules

| Module | What it is | Status |
|---|---|---|
| `Commands` | the twelve commands, the row of `CURRENT_STATE`, the UPDATE statements | done |
| `PlatformMain` | session threads, CoAP exchange, `insertControl`, crashes | done |
| `ModuleMain` | `push`, `serialEvent`, motor timers | done |
| `Proto2` | the Arduino's loop and the UART | done |
| `RemoteControl` | several apps' copies of the flags against the table and the gateway's mode; the life of the screen | done |
| `Telemetry` | `printT1`, `printT2`, chunks, `makeSerial`, the PUT, `handlePUT`, `rawInsert`, the open connections | done |
| `FrameBuffer` | abstract: what the core promises about a frame buffer, without mutex, buffer or camera | done |
| `Streamer` | core, camera and web server of mjpg-streamer; implements `FrameBuffer` | done |
| `MjpgProxy`, `OutputFile` | the HTTP input plugin; the file output plugin | done |
| `Relay` | composes the two in one process: one streamer records another | done |
| `MCPlatformMain`, `MCModuleMain`, `MCProto2`, `MCRemoteControl`, `MCTelemetry`, `MCStreamer`, `MCRelay` | instances for TLC | done |
| `PlatformMain_proofs`, `ModuleMain_proofs`, `RemoteControl_proofs`, `Streamer_proofs`, `Proto2_proofs`, `Relay_proofs`, `Telemetry_proofs` | theorems and proofs | done |
| `NumberFacts` | induction over sets of numbers, quotients: what the proofs share | done |
| `ControlLog` | abstract: commands are asked, executed, logged, applied, answered; `PlatformMain` would refine it | not written |
| `Vivarium` | `PlatformMain`, the network and the gateway composed; the platform of `RemoteControl` (`Assign`, `Execute`, `Record`) as its abstraction | not written |
| `Accounts` | sign-up and log-in through the static fields | not written |

Every safety invariant that a run checks is proved; what is left to TLC is at the end of section 6.

No module uses a RECURSIVE operator: `Scan` of `MjpgProxy`, `Found` of `Proto2` and `split` of `Telemetry` are recursive functions. Parameters
are CONSTANTS with named assumptions.
Operators marked "Mutant" in the modules are plausible bugs of the code: they are used by no
specification and serve to show, put in the place of the definition that follows them, that the
properties notice.

## 3. How the models correspond to the code

### Commands

A command is a record `[dev, op]` for the app's code ("10"), the literal (`APP_LIGHT_ON00000`) and the
branch that connects the two, which is one-to-one. `Update` is what the UPDATE statement of
`insertControl` does to the row: ON, OF, LE and RI store a value, AU and the motor's OF *negate* a column.

### PlatformMain

One element of `Session` is a connection and its thread; after `closed` the element is reused for a new
connection. `pc` is the place in `Session.run`:

| `pc` | action | code |
|---|---|---|
| start | `OpenDatabase` | `new Database()`; the exception is swallowed, the fields stay null |
| read | `ReadControl`, `ReadState`, `ReadClose` | `wfIn.read` and the branch on `dataArray[0]` |
| assign | `AssignPayload` | `payload = "APP_..."` |
| send | `CoapSend` | the argument `payload` is read again, the request is sent |
| wait | `CoapResponse`, `CoapTimeout` | `waitForResponse`; the response code is not looked at |
| log | `InsertLog` | first `executeUpdate` |
| update | `UpdateState` | second `executeUpdate` |
| reply | `ReplyToApp` | "S" whatever happened |

The field `payload` is neither volatile nor guarded, so a thread that reads it back may see its own store
or the current value: `CoapSend` chooses. `net` holds the CoAP requests and responses under way; CoAP
retransmits and removes duplicates, so that a request is executed at most once, at any time after it was
sent, also after its sender has given up. `Gateway` stands for the gateway (ModuleMain models it in detail):
`GatewayPush` executes the command, `GatewayReject` answers BAD_REQUEST, and `GatewaySwallows` answers OK although
nothing was written, because `push` catches the IOException of `output.write` and prints it. `ServerCrash` keeps the tables and loses everything else.

History variables: `wire` (what a thread sent), `rivals` (what other threads assigned between its
assignment and its send), `trouble` (what went wrong for its request), `pushed` (what the gateway
executed), `unwritten` (what it answered OK and could not execute), `abandoned`, `unapplied`. They guard no action.

Left out: the contents of replies other than S and F, logging, the demo account of the app, which makes no
requests, more than one request in a connection's buffer (the app waits for each answer), and the session
branches that touch neither `payload` nor the two tables.

### ModuleMain

`pp` is where a CoAP thread is in `push`: the flag is set first (`PushBegin`), then the command is written
(`PushWrite`), and for a motor start a timer is made (`PushTimer`). If the port is not open, `output` is
null and the command is rejected with its flag already set (`PushRejected`). An IOException is swallowed
(`PushWriteFails`). `se` is where `serialEvent` is: idle, in the blocking PUT, or at the decision of a
device; `want` is the command it has decided on, between the tests and the write. `timers` are the ticks
left of the pending timers; they all have the same delay, so the sequence is sorted by itself.

`temp`, `humi` and `humid` are fields that nothing assigns, modelled as definitions with their values: `temp` is
the target temperature, 25, and the code also compares it with 0 and 1 as if it were the heater's state.
The parser is modelled with the conditions as they are written, dead ones included (`IsH`, `IsT2`). A
batch may hold a record that does not split, which ends the event with an exception.

Readings are natural numbers instead of decimals; the code compares them with 22, 27, 28 and 33 only.
`makeSerial` is not in this module (see Telemetry): `Batch` is what it may return. `Window` are the hours in which auto mode lights
the lamp. `stale`, `age`, `stopFailed`, `overridden` are
history variables. `line` is what the serial line last told each device.

### Proto2

`Arrive` transfers one letter into the ring buffer or drops it. While `readBytes` waits for the rest of a word it polls
the ring all the time, far faster than letters come, so that `Arrive` has to find the ring empty then: only the two
seconds between rounds fill it. `ReadBytes` takes what is there, up to a
word; `ReadTimesOut` is the one second time-out; `BeginRound` and `EndRound` are the ends of `loop`, with
the two second delay between them (phase `delay`). A letter is known by its position, and by the device or
operation when it tells one. Letters of different devices are kept apart even where the text agrees (HITTE and
HUMID share the H): no literal begins as one device and ends as another, so this hides no command. The
time-out needs a silent line (`out = << >>`): the letters of a word follow each other at 9600 baud.
`Control` compares the whole word, as `String.equals` does. The AU words match nothing. FREQUENCY is a
parameter (15 in the code). `rounds` counts, as history, the rounds since the last that began with a report; `peak`, `lone` and
`lost` are history too. The two underscores are one letter.

### RemoteControl

`val[p]` and `aux[p]` are the fields of the fragment of app `p` (`lightState`, `lightAutoState`, ..., and
`motorSideState`, `motorState`); `enabled[p]` tells which switches `setEnabled` has left usable. `Resume` is
`onResume` with its REQUEST_STATE, `setValue` and `setState`; reading the row and painting it is one step
because the UI thread waits for the answer and no click comes between. `ClickSwitch` and `ClickToggle` are
the parts of `onClick` before the request, `Answer` those after `isSuccess.equals("S")`; in between `stage`
follows the platform, which is cut down from `PlatformMain` to what the screens can tell apart: the assignment
of `payload`, the command that the gateway executes, the UPDATE. `mode` is the gateway's three auto flags.

`AnswerLost` ends the connection while a request is under way; the platform's work on it is moved to `late`
and goes on, up to any point. `broken` is a dead connection with `isConnect` still true: the next click finds
out, and the next `onResume` crashes the app (`parseInt` of an error text). `alone` and `clean` are history:
whether the screen is the only one to have used the system since it was read, and whether there has been
no failure, no overlap and no click on a stale screen. They guard no action.

A screen has more to it that is left out: the pictures, the sounds, the demo account `aa`. Without a
property, but visible in the model: `setState` enables nothing, so that a screen that is resumed after
another app has left auto mode shows manual mode with a switch that does not react until the toggle has
been used twice or the fragment is made anew.

### Telemetry

A record is a run of letters `<<k, j>>`, the j-th of record k; the first is the R of RAS, the last the `@`. `Width` is
17 in the code. `Report` is the part of `loop` that writes: `printT1` writes two records or, if the sensor
fails, none, `printT2` one. `serialEvent` takes any number of the letters that have arrived (a serial event comes
when it comes), `makeSerial` is a function of the chunk and of `readString`, and `split` does what
`String.split` does, with the empty fields at the end left out. While `waits` is not 0 the thread is in
`waitForResponse`. `TimesOut` gives up a PUT that is lost or may still be served (`puts` with `at = "sent"`), so that two may
be served at once, in any order. `handlePUT` takes a connection of its own, or none at the limit `MaxCon`; `rawInsert` is
one turn of its loop, `rawInsertFails` the turn that ends it. Nothing in the code closes a connection:
`Collect` stands for the driver's cleanup of unreachable ones.

History: `torn` are the reports that a chunk begins inside of or whose `@` a chunk begins with;
`abandoned` are the PUTs that were given up.

Left out: readings that do not fit four characters (see section 7), the time stamps `now()` beyond their order, CoAP's
retransmissions, which it hides.

### FrameBuffer and Streamer

`FrameBuffer` is the promise an input plugin makes to whoever waits on `db_update`: frames are published; a client asks
(`ticket` "asked"), a frame comes or the client is roused for nothing (`ticket` "ready"), it is handed the newest frame
in one piece, or refused for want of memory. After `ending` nothing is promised about contents.

`Streamer` is the program that `start.sh` runs. `main` is where main and its signal handler are, `cam` where the camera thread
is, `pc[c]` where the thread of client c is:

| place | action | code |
|---|---|---|
| cam: top, paused | `CamTop`, `CamPaused` | `while(!pglobal->stop)`; the loop on STREAMING_PAUSED, which does not look at `stop` |
| enable, dequeue, fill, requeue | `CamEnable`, `Grab`, `GrabEmpty`, `GrabFails`, `Fill`, `Requeue`, `RequeueFails` | `uvcGrab`: first STREAMON, DQBUF, the copy, QBUF; an empty buffer is not given back |
| keep, lock, write 1, write 2 | `Keep`, `Drop`, `CamLock`, `Write1`, `Write2` | frame dropping; the copy to `in[].buf` under the mutex, the broadcast |
| close, free | `CamClose`, `CamFree` | `cam_cleanup` |
| pc: lock, wait, woken, copy 1, copy 2, send | `Wait`, `Relock`, `Copy1`, `Copy2`, `NoMemory`, `Send`, `SendFails` | `send_stream`, `send_snapshot` |
| pause, streamoff, unmap, reopen, streamon | `Pause`, `StreamOff`, `Unmap`, `Reopen`, `StreamOn` | `setResolution`, called through `command` and `input_cmd` |

`dev` is `struct vdIn` with the driver behind it: how many buffers are queued, whether they are mapped, whether it streams,
whether the camera is plugged in. A picture is a value; copies take two steps, so that a copy that is not protected
shows as two different halves. `Cut` is what is published of an empty frame: the first letters of the previous one.
`CallFails` is the end of a process by a call that main or the server thread does not go on without: in `OpenInput`,
`OpenOutput` and `RunPlugins` (dlopen, dlsym, `input_init`, `output_init`, malloc in `input_run`) and in `ServerFails` (no port to
listen at, no memory for the next connection, `select`). Undefined behaviour is a choice: reading the freed buffer yields `Junk` or kills the process, `pthread_cond_destroy` with
waiters returns or hangs, `dlclose` under running threads kills or does not.

`ticket` and `hit` (a resolution command began while the camera thread was in `uvcGrab`) are history.

Left out: a second input or output; what a request says (reading it changes nothing the others see); SIGINT before
`pause()`; two resolution commands at a time; the one `pcfd` that the accept loop hands to the threads of several
listening sockets; how long `soft_framedrop` drops (`Drop` may come at any time); realloc in `send_stream` other
than as `NoMemory`; JPEG compression; a failing `pthread_create`, which `input_run` and `output_run` do not look at and
which costs a client its connection.

### MjpgProxy, OutputFile, Relay

`MjpgProxy`: `wire` is what the remote has written and the kernel not delivered, `Recv` takes any part of it and runs
`extract_data` to the next boundary, `Publish` is the callback, which needs the mutex. A byte is a letter, with
letters the extractor cannot tell apart merged ("x"); the boundary is two letters long. `is_crlf` is what the code
does: it tests with a mask, so that every byte that has the bits of CR passes for one, and likewise LF. `Header` and `Part` are what
`send_stream` of the other streamer writes. The buffer of the extractor holds `BUFFER_SIZE` bytes (100 KB in the code), and nobody
looks: the byte that does not fit makes the extractor's part "OVERRUN". In the code it is written over `length`, and what
the process does from there on is undefined, so that the model ends. `ConnectFails` is a socket or a `connect` that fails,
after which the thread sleeps and tries again; `LookupFails` is a failing `getaddrinfo`, whose list is walked and freed all the
same: the process may be gone ("killed") or try again.

`OutputFile`: `thread["worker"]` is `worker_thread`, `thread["take"]` an HTTP thread inside `output_cmd`. `frame` is the static buffer
both copy to: its two halves, the size of its `block` and `room`, the `max_frame_size` of the code, which is raised before
`realloc` and stays raised when that fails (`NoMemory`). A later copy then reaches beyond the block (`Overruns`), and the process is
gone ("crash") or goes on with what it has; without a block it is gone. `HEADROOM` is the 64 KB that `realloc` adds. A file is named
by the second and the counter. `Due` says when `maintain_ringbuffer` is called; it deletes by name (`Maintain`), and a failing
`unlink` leaves one file, a failing `scandir` all. `clash` (whose copy is not safe), `roused`, `spared` (what the last maintenance failed to
delete), `recorded` are history.

`Relay` composes them over one buffer, mutex and condition (`buf`, `db`, `waiting`): a step is a step of one of them. It ends
when the process is gone or has written where it must not (`Running`), and with the `crash` of a negative length, which
`ExtractsPictures` says never comes.

Left out: options, `-m` (one file for all), the command run for each picture, no ring at all (size -1), the shutdown (which is
Streamer's), a clock that goes back and a restart within one second (either could make a new name older than an old one).

## 4. Runs

| Run | Instance | What it shows |
|---|---|---|
| `platform_faults` | 2 connections, LIGHT ON and LIGHT AU, 2 requests, 2 faults | `TypeOK`; `OnlyRivalsLeak`: the race on `payload` sends another connection's command only if that one was assigned in between; `HonestWhenClean`: an S without a mishap means logged, and executed unless the gateway's own write failed; `InOrderUnlessAbandoned`: at most once, and in order but for requests that were given up, across crashes too; `ToggleParity`: no toggle is lost to a race, only to a failed or cut UPDATE |
| `platform_live` | 2 connections, LIGHT AU, 2 requests, 1 fault, fair | `EveryRequestEnds` |
| `platform_reply` | 1 request | finding: `FailureIsReported` is violated |
| `gateway_race` | 2 CoAP threads, 3 pushes, 1 lost write, hours 11 and 13, 2 batches, fair | `TypeOK`; `AtMostOneStale`: of the race between push and decision at most one automatic command is late; `StopIsComing`, `MotorStops`: a running motor has a timer and stops unless the stop was lost; `LightFieldIsRight`; `CallsEnd`: every push and every serial event ends; `AutoLightGoesOff`: in auto mode the lamp goes off again outside the hours of the window, whatever writes are lost |
| `gateway_run` | 2 pushes | finding |
| `arduino_bursts` | FREQUENCY 2; "mixed": 2 commands in any order, 4 of them; "alike": one command 5 times; "burst": 2 commands in turn, 6 of them; fair | `TypeOK`, `OnlySentCommands`, `ThreeFit`; `LoneCommandActs`: the framing recovers on a quiet line; `ReportsInTime`: of FREQUENCY + 1 rounds one begins with a report, also while commands are read |
| `remote_screens` | 2 apps, light and motor controls, 4 clicks, 1 failure | `TypeOK`; `SwitchDisabledInAuto`: no manual command is sent from a screen in auto mode; `ScreenAgrees`: flipping the copy after each answer keeps it equal to the row; `AutoClaimIsTrue`: the row claims auto mode only where it is true |
| `remote_auto` | 3 clicks, no failure | finding |
| `telemetry` | records of 3 letters, 2 reports, 4 chunks, 2 connections, 2 faults | `TypeOK`; `ForwardsWhole`: no record is pieced together from two, none is sent twice or out of order; `Resynchronises`: a report that is not torn arrives whatever became of those before it; `StoresFaithfully`: the table has a beginning of each batch, in order unless a PUT was given up, nothing twice, also while two PUTs are stored at the same time |
| `stream` | 2 buffers, frame dropping; two clients and no shutdown, or one client with SIGINT and an unplugged camera; fair | `TypeOK`; `Promise`: `Streamer` implements `FrameBuffer`; `EndsForAReason`: the process ends only by SIGINT, a failing call of the start-up or of the server thread, an unplugged camera or a resolution command that met a running `uvcGrab`; `WaiterIsServed`: a client that waits is served unless all buffers were lost to empty frames or the device is paused; `ShutdownEnds`: SIGINT ends the process or hangs on a waiting client |
| `stream_resolution` | the same | finding |
| `relay` | buffer of 9 bytes; "stream": 2 pictures of 2 sizes, one of which just fits, 1 break, 1 cut or 1 refusal; "huge": a picture that does not fit after one that does; "files": 2 pictures, ring of 1 exceeded by 1, 2 old files, 1 TAKE, 1 failure, 2 seconds; fair | `TypeOK`; `ExtractsPictures`: the images published are the pictures streamed, wherever the stream is cut, and the buffer is overrun only by a picture that does not fit; `RingIsBounded`: but for files that the last maintenance failed to delete; `RingKeepsNewest`; `RecordsWhole`: a file holds one frame unless the other thread copied meanwhile or a failed realloc left too small a block; `RecordsFresh`; `PictureArrives`; `Reconnects` |

**Bounds.** Every bound is a constant: `MaxRequests`, `MaxFaults`, `MaxPush`, `MaxFails`, `MaxSend`, `MaxClicks`, `MaxReports`,
`MaxChunks`, `MaxCon`, `MaxSent`, `MaxBreaks`, `MaxCuts`, `MaxRefused`, `MaxTakes`, `MaxClock`. Two
threads make every race between the accesses of a shared field.
Two faults let one fault hit the
handling of another (a crash after a failed statement). Two CoAP threads with three pushes cover
start-start-stop on the motor and auto-manual-auto on the light while the reader is between test and
write. Four clicks let one app enter auto mode, the other leave it, and both act on what they saw before.
MTime is two or three ticks, so that timers of different age overlap. Six
commands overrun the Arduino's buffer (three fit) in the middle of the fourth and let the fifth and sixth come behind the cut: the
words that are then read are pieced together from two commands, and in "burst" those are commands of different devices and
operations. With two rounds to a report a command can be read between two reports, in either. Two database connections let two PUTs be
stored at once and refuse a third. Four chunks cut two reports in
every way that a record of three letters and its `@` allow. Two frame buffers make one lost buffer differ from all lost.
One resolution command overlaps every place of the camera thread; the shutdown meets one client at every place. A cut
and a break reach every letter of the stream, though not both in one behaviour with a refused connect. Of the three pictures one fills the extractor's
buffer to its last byte and one exceeds it; the first realloc of the recorder, one for a larger picture and one for a TAKE may each
be the one that fails. A ring of one file exceeded by one shows every distance
between the counter and the limit.

Where a scenario is named, the MC module splits a run that would be too large into instances with less in each
(`MCStreamer`, `MCProto2`, `MCRelay`); the specification is the same and the fairness too.

**Deadlock** is checked in the platform, gateway, Arduino and app runs: a user may always connect, or the clock goes
on. It is not in `stream` (the process ends), nor in `relay` and `telemetry`, where only the bounds on what arrives
stop the system.

**Symmetry** is used where threads are interchangeable and only safety is checked.

**Fairness.** `PlatformMain`: weak fairness of each thread and of each app's receipt. The JVM
schedules threads, JDBC and CoAP calls return or fail (Californium gives up after its retransmissions),
TCP delivers. Nothing is assumed of users, the gateway or the network, so the time-out is always possible.
`ModuleMain`: the same for the CoAP threads and the reader, timers fire, and the Arduino keeps sending
well-formed records. `Proto2`: the UART transmits and `loop` is called for ever. `Streamer`: weak fairness of main, strong
fairness of the camera thread and of each client's steps up to the copy, because a mutex that is free again and again
is got by who asks; strong fairness of `Grab` and of `Keep`, because a running camera fills buffers and not every frame
comes too soon. Nothing is assumed of the network (`Send`), of SIGINT or of who connects. `Relay`: the worker of each plugin runs,
the mutex as before, and after `MaxRefused` refusals at most the remote accepts: `Reconnects` says that the thread never stops
trying, and nothing of a remote that refuses for ever. Nothing else is assumed of the remote, nor of TAKE or of failures. `Telemetry`: none, its properties are safety.

## 5. Findings

Each of the first four is a run that violates what a comment of the code says.

- `PlatformMain.java:200` "failed : F": the answer is always S (`FailureIsReported`).
- `ModuleMain.java:62` "the time the motor runs": the timer of an earlier start stops a later run early
  (`RunLastsMTime`); the comment says 10 seconds, the value is 3.
- `PlatformMain.java:150` "auto on -> 1, auto off -> 0": the second AU puts the column back to 0 and the
  gateway stays in auto mode (`AutoColumnTellsMode`), because one negates and the other sets.
- `v4l2uvc.c:837` "It should set the capture resolution": a resolution command that meets the camera thread inside
  `uvcGrab` ends the process (`ResolutionIsSet`). STREAMING_PAUSED is looked at before `uvcGrab` only; DQBUF or QBUF then
  fails and `cam_thread` calls `exit`, or it copies from an unmapped buffer.

Visible in the code, without a run of their own because a model would only repeat the line:

- `ModuleMain.java:205` says that the loop measures the humidity, but the test on line 210 is never true. The
  humidity remains 0, so that auto mode writes HUMID ON at every event and never OF.
- `ModuleMain.java:237` says that the light is kept on from 12 to 15 o'clock; the else-if on line 242 switches it off at
  the next event, inside the window too, and on again at the one after that. `AutoLightGoesOff` therefore speaks only of the hours
  outside, where code and comment agree.
- `ModuleMain.java:41`, `:58` and `:205` speak of a heater that is controlled by the temperature; lines 248 and 251 ask for `temp = 0` and
  `temp = 1`, and `temp`, the target, is 25 for good: auto mode never switches the heater.
- `ModuleMain.java:301`: a light command that is pushed does not set the field `light`, from which auto mode decides next. The lamp
  may stay on outside the window for as long as the field says 0 (`overridden` in the properties).
- `ModuleMain.java:314`: `push` prints the IOException of the serial line and returns, so that the gateway answers OK for a command
  it could not write (`unwritten`).
- `ProfileFragment.java:809`: `setState` enables no switch, so that one may stay disabled after another app has freed it (section 3).
- `PlatformCoapServer.java:73`: at the database's limit of connections a batch of records is dropped and answered OK.
- `v4l2uvc.c:517`: an empty buffer is not given back to the driver; after NB_BUFFER of them the camera thread waits for ever
  (`Starved`).
- `mjpg_streamer.c:115` destroys a condition on which clients may still wait, which is undefined: the handler may hang
  (`ShutdownEnds` excepts that).
- `mjpg-proxy.c:95` writes behind the 100 KB of the buffer when a picture is larger; `mjpg-proxy.c:201` goes on with a list of addresses
  that a failed `getaddrinfo` did not make.
- `PlatformMain.java:153` "left -> 1, right -> 0" holds of the table; the screen takes RI for 1 (`ProfileFragment.java:650`).
- `Database.java:92` asks for the hot zone's temperature without the DESC that the query for the cool zone has, and returns
  the oldest record; `PlatformMain.java:117` calls it the current one.
- `TempHumFragment.java:172` asks for new values and shows the old ones: `setValue` is not called in between.
- `output_file.c:240` calls `frame` a local buffer; it is static and shared with the command TAKE: a picture that is written
  to a file may be overwritten by one that is newer (`RecordsWhole` says what is left).
- `output_file.c:230` and `:570` raise `max_frame_size` before `realloc`; after one that failed for TAKE the worker copies beyond
  the block.
- `output_file.c:165`: after a failing `scandir` or `unlink` more files than the ring allows remain until the next maintenance.
- `output_file.c`: a ring of size 0 is reported as no ring and deletes every picture.

Properties that hold for a reason one would not expect:

- `OnlySentCommands` holds by a coincidence of numbers. The overrun cuts a word after 63 mod 17 = 12
  letters, that is just after the operation. A buffer of one, two or three letters less would cut before or
  inside the operation and let pieces of two commands form a third, as TLC shows when `RxSize` is 62, 61 or 60.
- `ExtractsPictures` holds thanks to the mask of `is_crlf`: the letters O, K, CR, LF of "200 OK" pass for two CRLF, the rest of the
  header is taken for a picture, and the first image of every connection is header text. Without the
  accident the first boundary would end an image of length 20 - 22 = -2.
- `ForwardsWhole` holds because a record has a fixed width and `readString` is emptied when it is reached, before
  the `@` comes; the price is that a chunk that begins with the `@` is thrown away with what follows it (`torn`).

## 6. Proofs

`PlatformMain_proofs`, `ModuleMain_proofs`, `RemoteControl_proofs`, `Streamer_proofs`, `Proto2_proofs`, `Relay_proofs` and
`Telemetry_proofs` prove, for all values of the constants that satisfy the named assumptions (commands are commands, bounds are naturals, sessions are finitely many, MTime is
positive, batches are sequences of records, there is a buffer, `NoFrame` is no frame, no client is named like a
thread of the process; for `Relay`: the ring has a size, the extractor's buffer holds the seven letters
that come before the first picture, an earlier run left finitely many files of an earlier time, no picture has the
boundary in it, which JPEG data of a camera does not by any but a freak chance; for
`Telemetry`: a record has two letters at least):

| Theorem | Property | Inductive invariant |
|---|---|---|
| `PlatformMain_proofs!TypeCorrect` | `TypeOK` | `TypeOK` with `ServesCommand` (a thread that serves has a command in `req`) and `PayloadAssigned` (`payload` is a command once a thread is about to send): without them `log` and `net` could receive the empty command |
| `PlatformMain_proofs!RivalsOnly` | `OnlyRivalsLeak` | adds `PayloadExplained`: while a thread is about to send, `payload` is its own command or one of its rivals |
| `PlatformMain_proofs!InOrder` | `InOrderUnlessAbandoned` | `OrderInv`: requests are numbered and a number is under way once (`Numbered`); the datagram a thread waits for is its own (`Owned`); a request under way to the gateway has a thread that waits for it or was given up (`Expected`); who waits, waits for the newest request of its connection (`Newest`). The last two give the order: what the gateway executes is given up, or no later than anything executed for that connection |
| `PlatformMain_proofs!Honest` | `HonestWhenClean` | `OrderInv` with `OkIsTrue` (a response OK means executed, or `unwritten`) and `Achieved` (what a thread without mishaps has behind it at each step), and `OnlyRivalsLeak`, which makes the command sent the command asked for |
| `PlatformMain_proofs!Parity` | `ToggleParity` | the property itself with `Typed`, stated with the cardinalities of `Logs` and `Pending`: the UPDATE that flips a column takes its thread out of `Pending`, one that fails moves it to `unapplied`, a crash moves all of them |
| `RemoteControl_proofs!TypeCorrect` | `TypeOK` | the property itself |
| `RemoteControl_proofs!SwitchesGuarded` | `SwitchDisabledInAuto` | the property itself, with `TypeOK` |
| `RemoteControl_proofs!ScreensAgree` | `ScreenAgrees` | `CopyInv`: while a request is under way, what the copy *will* be after the answer agrees with the row as soon as the UPDATE is done, and the command stores the opposite of what the copy holds |
| `RemoteControl_proofs!AutoClaimCorrect` | `AutoClaimIsTrue` | `CleanInv`: in a clean history there is one request at a time, its payload is its own, a manual command is for a relay the row has in manual mode, and after an AU the gateway is in auto mode before the column is negated |
| `ModuleMain_proofs!TypeCorrect` | `TypeOK` | `TypeOK`, `WantInv` (`want` is an ON or OF of the device `serialEvent` is at) and `MsgInv` (a thread inside `push` has a command) |
| `ModuleMain_proofs!OneStaleAtMost` | `AtMostOneStale` | `StaleInv`: there has been no stale write for a device in auto mode, nor for one the reader holds a decision for, and at most one else |
| `ModuleMain_proofs!StopGuaranteed` | `StopIsComing` | the property itself, with `Typed` |
| `ModuleMain_proofs!LightFieldCorrect` | `LightFieldIsRight` | the property itself, with `Typed` (what `want` may be) |
| `Streamer_proofs!TypeCorrect` | `TypeOK` | the property itself |
| `Streamer_proofs!Implements` | `Promise` (refinement of `FrameBuffer!Spec`) | `StopInv`: before `stop` nothing is cancelled, freed or destroyed; `LockInv`: before `stop` who copies or writes holds the mutex; `TicketInv`: a client that waits has asked, one that was woken may copy; `HalfInv`: the halves of the buffer agree unless the camera thread is between them, and the half a client has copied is the buffer's |
| `Streamer_proofs!EndsOnlyForAReason` | `EndsForAReason` (action property) | `ReasonInv`: one resolution command at a time; as long as there is no SIGINT and the camera is there, the device stays `PAUSED` from `Pause` to `StreamOn` (`Paused`), is mapped and streaming while `ON` (`Usable`), and unless `hit` a running `uvcGrab` has a device that is not paused and a buffer to give back (`Grabbing`); then none of the steps that end the process is possible |
| `Proto2_proofs!TypeCorrect` | `TypeOK` | adds `Counted`: while `loop()` reads, `frequency` is below `FREQUENCY` |
| `Proto2_proofs!ReportsKept` | `ReportsInTime` | `RoundsCounted`: `rounds` is no more than `frequency`, or than one more while a round is under way, which `Counted` keeps below the period |
| `Proto2_proofs!ThreeCommandsFit` | `ThreeFit` | `Transmitted` (what is on the line is the end of what was sent; `input` has letters only while the ring is all but empty) and `InStep`: the letters in `input` and the ring, taken together, are those of the stream of all commands from behind the last one executed to the last that arrived. Fifty-one letters fit the ring |
| `Proto2_proofs!RecognisesOnlySent` | `OnlySentCommands` | `Origin`: there is a function that says of each letter held where in the stream of all commands it comes from, and one that says which sent command each executed one is. It grows from letter to letter, and breaks only at a place that is 12 modulo 17: letters are dropped only while the ring is full, and when it is full that many are held that the break follows an operation. A word without a break is a command sent; one with a break is none |
| `Relay_proofs!TypeCorrect` | `TypeOK` | the types of the fields, and `Streaming` (below) for `conn` |
| `Relay_proofs!Recording` | `RecordsWhole` | `Mutex`; `Copying` and `Kept`: from the copy to the write the static buffer holds what the thread copied, or the thread is in `clash` |
| `Relay_proofs!Freshness` | `RecordsFresh` | `Fresh`: the frame recorded last may be the current one only until a broadcast has taken the worker out of `waiting`; from then on the current one is newer |
| `Relay_proofs!BoundedRing` | `RingIsBounded` | `Grown`: the number of files is bounded by the ring's size and the distance of the counter from the last maintenance, those in `spared` not counted |
| `Relay_proofs!NewestKept` | `RingKeepsNewest` | `Aligned`, `Latest`: the names grow with time and counter alike, and the files of the last `ringbuffer_size` counters are there. `Newest`, which chooses by time, is then those |
| `Relay_proofs!Extraction` | `ExtractsPictures` | `Streaming`: there is a whole stream, of which the wire holds the end and the extractor has read up to a position `pos`; the stream is `Laid` out in segments of head, image, line end and boundary; what is published is the images of the segments passed (`Pieces`), and the state of the extractor is `HasRead` of the position inside the segment (`Open`); or the buffer was overrun, and one of the pictures streamed does not fit (`Lost`) |
| `Telemetry_proofs!TypeCorrect` | `TypeOK` | `Typed` and `Streamed`: the line holds the end of all that was written, from letter `Base` + 1 on, and `readString` is empty or the letters of its record in front of `Base` |
| `Telemetry_proofs!Forwarding` | `ForwardsWhole` | `Forwarded`: what is sent are records that were read to their last letter, in their order. The step is `SerialRecords`: from inside of a record on, `split` yields its rest, whole records and a beginning (`Pieces`), and `makeSerial` returns the records completed |
| `Telemetry_proofs!Resynchronising` | `Resynchronises` | `Found`: a record that was read is sent if its report is not torn; if the gateway is inside of a record and has nothing of it, its report is torn. A chunk that is thrown away then tears the report of every record it has letters of, unless it is torn already (`ThrownIsTorn`) |
| `Telemetry_proofs!Storing` | `StoresFaithfully` | `Ordered`: the PUTs have each record once, in order; `Waited`: unless a PUT was given up, the last one alone can be under way; `Stored`: the table has the first `done` records of every PUT, and no others. A record that is inserted is then new, and later than those in the table |

`Implements` maps the initial states and each action: `Write2` is `Publish`, `Wait` is `Ask`, `SpuriousWakeup` is
`Rouse`, `Copy2` is `Deliver`, `NoMemory` is `Refuse`, `Send` and `SendFails` are `Consume`, `Signal` is `Stop`, all others stutter.
The refinement mapping takes `latest` to be the second half of the buffer, which is written last, and shows a client's copy
only when it is complete.

Each proof has one step per action and cites only what it uses; the last step is propositional
temporal logic.

Induction over data. The library's induction theorems take an operator, which the provers cannot instantiate;
`NumberFacts!NatSetInduction` says the same of a *set* of numbers, follows from the well-foundedness of `<`, and can be cited.
With it `Proto2_proofs` shows what `Found` computes, `Relay_proofs` what `Scan` does to a buffer of any length, and
`Telemetry_proofs` what `split` and `FlattenSeq` yield.

Trying to prove `ThreeFit` found an error of the model: `Arrive` once let a whole ring of letters come while `readBytes` was
waiting for one (section 3, Proto2), which the code cannot do; the invariant `Transmitted` fails there.

Only model-checked: the liveness properties (`EveryRequestEnds`, `CallsEnd`, `MotorStops`, `AutoLightGoesOff`,
`LoneCommandActs`, `WaiterIsServed`, `ShutdownEnds`, `PictureArrives`, `Reconnects`): they rest on fairness and
ENABLED, which are out of the prover's reach. The four properties that a run refutes are of no use to a proof. Everything else that a
passing run checks is proved.

## 7. Not modelled

Accounts: sign-up and log-in are one request and one answer; the race on the static `id` and `password` is listed as
a hazard. The sensor queries only read. `Vivarium` and `ControlLog` (section 2) would connect models that are checked one by
one. Of the streamer: the plugins no script starts (`input_file`, `input_testpicture`, `input_ptp2`, `input_raspicam`, `output_udp`,
`output_rtsp`, `output_viewer`, `output_autofocus`), which keep the protocol of `FrameBuffer` and add data or library calls; the vendored
MMAL interface under `input_raspicam`; the V4L2 controls and their JSON; file serving and authentication. These make up most of the
C lines of the repository (`testpictures.h` alone is 9800 lines of JPEG data), and no state machine.

Left out for good: `TempHumFragment`, `CameraFragment`, `LoadingActivity` and
`BackPressCloseHandler` (display only); the prototypes
`Raspberry/basic_test`, `WifiServer` and the sketches other than `final/proto2.ino` (not part of the running
system); DTLS (the URI is `coap://`). Two effects on the Arduino are out of the models' sight: `char temp[18]`
in `printT1` holds 17 letters and a terminator, so that a reading wider than four characters overflows it, and the DHT
driver disables interrupts while it samples, which can lose received letters as the overrun does.
