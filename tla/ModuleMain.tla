----------------------------- MODULE ModuleMain -----------------------------
(***************************************************************************)
(* The gateway on the Raspberry Pi: ModuleMain and the CoAP resource that  *)
(* feeds it (ModuleCoapServer).  Three kinds of threads share its fields   *)
(* and the serial line to the Arduino:                                     *)
(*                                                                         *)
(*   - the CoAP threads, which run push(message) for every command;        *)
(*   - the serial reader, which runs serialEvent: it forwards the sensor   *)
(*     records to the platform and then takes the automatic decisions;     *)
(*   - one timer per motor start, which stops the motor MTime later.       *)
(*                                                                         *)
(* serialEvent is synchronized; push and the timers take no lock.          *)
(***************************************************************************)
EXTENDS Commands, Sequences, FiniteSets

CONSTANTS
    Pusher,    \* CoAP threads
    Offered,   \* the commands the platform sends
    Batch,     \* what makeSerial may return: sequences of sensor records
    Hours,     \* the hours of day that occur
    MTime,     \* mtime, in ticks
    MaxPush,   \* bound: commands pushed in all
    MaxFails   \* bound: serial writes that fail in all

ASSUME OfferedAssumption == Offered \subseteq Command
ASSUME BoundAssumption   == MTime \in Nat \ {0} /\ MaxPush \in Nat /\ MaxFails \in Nat
ASSUME HoursAssumption   == Hours \subseteq 0 .. 23

\* A record "RAS_TEMP_ONE:25.3"; one that does not split is "BAD".
Record == [kind : {"TEMP", "HUMI", "BAD"}, place : {"ONE", "TWO"}, val : Nat]
ASSUME BatchAssumption   == Batch \subseteq Seq(Record)

\* Fields that no code assigns.
temp  == 25
humi  == 30
humid == 0

VARIABLES
    port,      \* initialize has opened the serial port
    flag,      \* LIGHFLAG, HITTFLAG, HUMIFLAG: the device is in auto mode
    light,     \* the field light
    t1, t2, h, \* the last readings, as far as they are parsed
    hour,      \* the clock that serialEvent reads
    se,        \* where serialEvent is
    want,      \* the command it has decided to write
    pp,        \* where each CoAP thread is in push
    msg,       \* the command it pushes
    timers,    \* ticks left of the motor timers, oldest first
    line,      \* what the serial line last told each device to do
    pushes, fails,
    \* history
    stale,     \* auto commands written since manual mode was entered
    age,       \* ticks since the motor was last started
    stopFailed, \* a timer's stop was lost and the motor not started since
    overridden \* a push switched the light since the reader last did

fields  == <<port, flag, light, t1, t2, h>>
reader  == <<se, want>>
pushers == <<pp, msg>>
counts  == <<pushes, fails>>
history == <<stale, age, stopFailed, overridden>>
vars    == <<fields, hour, reader, pushers, timers, line, counts, history>>

Running(o) == o \in {"LE", "RI"}

Init ==
    /\ port = FALSE
    /\ flag = [d \in Relay |-> FALSE]
    /\ light = 0
    /\ t1 = 0 /\ t2 = 0 /\ h = 0
    /\ hour \in Hours
    /\ se = "idle" /\ want = NoCommand
    /\ pp = [p \in Pusher |-> "idle"]
    /\ msg = [p \in Pusher |-> NoCommand]
    /\ timers = << >>
    /\ line = [d \in Device |-> "none"]
    /\ pushes = 0 /\ fails = 0
    /\ stale = [d \in Relay |-> 0]
    /\ age = 0 /\ stopFailed = FALSE /\ overridden = FALSE

\* main starts the CoAP server first and then opens the serial port.
Initialize ==
    /\ ~ port
    /\ port' = TRUE
    /\ UNCHANGED <<flag, light, t1, t2, h, hour, reader, pushers, timers, line,
                   counts, history>>

-----------------------------------------------------------------------------
(* output.write(command): the bytes reach the Arduino, or an IOException.  *)
(* The Arduino does not act on the AU commands.                            *)

Tell(c) == line' = IF c.op = "AU" THEN line ELSE [line EXCEPT ![c.dev] = c.op]

WriteOK(c) == Tell(c) /\ fails' = fails

WriteFails == fails < MaxFails /\ fails' = fails + 1 /\ line' = line

-----------------------------------------------------------------------------
(* push(message), on a CoAP thread.                                        *)

\* The first effect of push: a relay command changes the auto flag.
PushBegin(p, c) ==
    /\ pp[p] = "idle" /\ pushes < MaxPush
    /\ pushes' = pushes + 1
    /\ pp' = [pp EXCEPT ![p] = "write"]
    /\ msg' = [msg EXCEPT ![p] = c]
    /\ IF c \in RelayCommand
       THEN /\ flag' = [flag EXCEPT ![c.dev] = (c.op = "AU")]
            /\ stale' = IF flag'[c.dev] = flag[c.dev] THEN stale
                        ELSE [stale EXCEPT ![c.dev] = 0]
       ELSE UNCHANGED <<flag, stale>>
    /\ UNCHANGED <<port, light, t1, t2, h, hour, reader, timers, line, fails,
                   age, stopFailed, overridden>>

\* Mutant: push is synchronized, as serialEvent is.
PushEndLocked(p) ==
    /\ se = "idle"
    /\ pp' = [pp EXCEPT ![p] = "idle"]
    /\ msg' = [msg EXCEPT ![p] = NoCommand]

PushEnd(p) ==
    /\ pp' = [pp EXCEPT ![p] = "idle"]
    /\ msg' = [msg EXCEPT ![p] = NoCommand]

\* output is null until the port is open: the NullPointerException leaves push
\* and the resource answers BAD_REQUEST, the flag changed and nothing written.
PushRejected(p) ==
    /\ pp[p] = "write" /\ ~ port
    /\ PushEnd(p)
    /\ UNCHANGED <<fields, hour, reader, timers, line, counts, history>>

\* The write, of a motor start or of another command.
PushWrite(p) ==
    /\ pp[p] = "write" /\ port
    /\ WriteOK(msg[p])
    /\ IF Running(msg[p].op)
       THEN /\ pp' = [pp EXCEPT ![p] = "timer"] /\ msg' = msg
            /\ age' = 0 /\ stopFailed' = FALSE
       ELSE /\ PushEnd(p) /\ UNCHANGED <<age, stopFailed>>
    /\ overridden' = (overridden \/ (msg[p].dev = "LIGHT" /\ msg[p].op # "AU"))
    /\ UNCHANGED <<fields, hour, reader, timers, pushes, stale>>

\* push catches the IOException: the command is answered OK all the same.
PushWriteFails(p) ==
    /\ pp[p] = "write" /\ port
    /\ WriteFails
    /\ PushEnd(p)
    /\ UNCHANGED <<fields, hour, reader, timers, pushes, history>>

\* Mutant: the new timer is cancelled together with the pending ones.
PushTimerCancels(p) ==
    /\ pp[p] = "timer"
    /\ timers' = << >>
    /\ PushEnd(p)
    /\ UNCHANGED <<fields, hour, reader, line, counts, history>>

\* Mutant: the delay is one tick too long.
PushTimerLong(p) ==
    /\ pp[p] = "timer"
    /\ timers' = Append(timers, MTime + 1)
    /\ PushEnd(p)
    /\ UNCHANGED <<fields, hour, reader, line, counts, history>>

\* mTimer(): a new Timer, whatever timers are pending.
PushTimer(p) ==
    /\ pp[p] = "timer"
    /\ timers' = Append(timers, MTime)
    /\ PushEnd(p)
    /\ UNCHANGED <<fields, hour, reader, line, counts, history>>

-----------------------------------------------------------------------------
(* The motor timers.  All have the same delay, so the oldest is due first. *)

\* One tick; the timer threads are prompt, so that none is due meanwhile.
Tick ==
    /\ \A i \in DOMAIN timers : timers[i] > 0
    /\ timers # << >> \/ age < MTime
    /\ timers' = [i \in DOMAIN timers |-> timers[i] - 1]
    /\ age' = IF age < MTime THEN age + 1 ELSE age
    /\ UNCHANGED <<fields, hour, reader, pushers, line, counts,
                   stale, stopFailed, overridden>>

\* Mutant: the task writes nothing.
TimerFiresMute ==
    /\ timers # << >> /\ Head(timers) = 0
    /\ timers' = Tail(timers)
    /\ UNCHANGED <<fields, hour, reader, pushers, line, counts, history>>

\* TimerTask.run: writes the stop command, and prints an IOException.
TimerFires ==
    /\ timers # << >> /\ Head(timers) = 0
    /\ timers' = Tail(timers)
    /\ \/ WriteOK(Cmd("MOTOR", "OF")) /\ stopFailed' = stopFailed
       \/ WriteFails /\ stopFailed' = TRUE
    /\ UNCHANGED <<fields, hour, reader, pushers, pushes, stale, age, overridden>>

-----------------------------------------------------------------------------
(* serialEvent, one at a time.                                             *)

\* The parsing loop, record by record.  The tests for the humidity and for the
\* second thermometer compare the wrong element and are never true.
IsT1(r) == r.place = "ONE" /\ r.kind = "TEMP"
IsH(r)  == r.place = "ONE" /\ r.place = "HUMI"
IsT2(r) == r.place = "TWO" /\ "RAS" = "TEMP"

Splits(b) == \A i \in DOMAIN b : b[i].kind # "BAD"
Parsed(b) == {i \in DOMAIN b : \A j \in 1 .. i : b[j].kind # "BAD"}

\* The value of the last of the records at the positions hits, else the old.
Latest(b, hits, old) ==
    IF hits = {} THEN {old}
    ELSE {b[i].val : i \in {k \in hits : \A j \in hits : j <= k}}

\* A batch arrives.  A record that does not split throws, an empty payload
\* returns: in both cases the event is over.  Else the records are PUT.
ReadEvent(b) ==
    /\ port /\ se = "idle"
    /\ t1' \in Latest(b, {i \in Parsed(b) : IsT1(b[i])}, t1)
    /\ h'  \in Latest(b, {i \in Parsed(b) : IsH(b[i])}, h)
    /\ t2' \in Latest(b, {i \in Parsed(b) : IsT2(b[i])}, t2)
    /\ se' = IF Splits(b) /\ b # << >> THEN "put" ELSE "idle"
    /\ UNCHANGED <<port, flag, light, hour, want, pushers, timers, line, counts,
                   history>>

\* new ModuleCoapSend(...) blocks until the response or the time-out.
PutEnds ==
    /\ se = "put"
    /\ se' = "LIGHT"
    /\ UNCHANGED <<fields, hour, want, pushers, timers, line, counts, history>>

Window == hour >= 12 /\ hour < 15

\* Mutant: the light is switched on in the window and never off.
AutoLightStays == IF Window /\ light = 0 THEN Cmd("LIGHT", "ON") ELSE NoCommand

\* The automatic decisions: the command to write, or none.
AutoLight == IF Window /\ light = 0 THEN Cmd("LIGHT", "ON")
             ELSE IF light = 1 THEN Cmd("LIGHT", "OF") ELSE NoCommand

AutoHitte == IF t1 < temp - 3 /\ temp = 0 THEN Cmd("HITTE", "ON")
             ELSE IF t1 > temp + 3 /\ temp = 1 THEN Cmd("HITTE", "OF")
             ELSE NoCommand

AutoHumid == IF h < humi - 3 /\ humid = 0 THEN Cmd("HUMID", "ON")
             ELSE IF h > humi + 3 /\ humid = 1 THEN Cmd("HUMID", "OF")
             ELSE NoCommand

\* Mutant: the decision is taken in manual mode too.
DecisionAlways(d) == CASE d = "LIGHT" -> AutoLight
                       [] d = "HITTE" -> AutoHitte
                       [] d = "HUMID" -> AutoHumid

Decision(d) == IF ~ flag[d] THEN NoCommand
               ELSE CASE d = "LIGHT" -> AutoLight
                      [] d = "HITTE" -> AutoHitte
                      [] d = "HUMID" -> AutoHumid

After(d) == CASE d = "LIGHT" -> "HITTE"
              [] d = "HITTE" -> "HUMID"
              [] d = "HUMID" -> "idle"

\* Read the flag and decide ...
AutoCheck ==
    /\ se \in Relay /\ want = NoCommand
    /\ want' = Decision(se)
    /\ se' = IF want' = NoCommand THEN After(se) ELSE se
    /\ UNCHANGED <<fields, hour, pushers, timers, line, counts, history>>

\* ... and write: by now a push may have changed the flag.
AutoWrite ==
    /\ want # NoCommand
    /\ WriteOK(want)
    /\ light' = CASE want = Cmd("LIGHT", "ON") -> 1
                  [] want = Cmd("LIGHT", "OF") -> 0
                  [] OTHER -> light
    /\ stale' = IF flag[se] THEN stale ELSE [stale EXCEPT ![se] = @ + 1]
    /\ overridden' = (overridden /\ want.dev # "LIGHT")
    /\ se' = After(se)
    /\ want' = NoCommand
    /\ UNCHANGED <<port, flag, t1, t2, h, hour, pushers, timers, pushes,
                   age, stopFailed>>

\* Mutant: light is set before the write.
AutoWriteFailsLate ==
    /\ want # NoCommand
    /\ WriteFails
    /\ light' = IF want.dev = "LIGHT" THEN 1 - light ELSE light
    /\ se' = "idle" /\ want' = NoCommand
    /\ UNCHANGED <<port, flag, t1, t2, h, hour, pushers, timers, pushes, history>>

\* The IOException ends the event: the later devices are not looked at.
AutoWriteFails ==
    /\ want # NoCommand
    /\ WriteFails
    /\ se' = "idle" /\ want' = NoCommand
    /\ UNCHANGED <<fields, hour, pushers, timers, pushes, history>>

HourPasses ==
    /\ hour' \in Hours \ {hour}
    /\ UNCHANGED <<fields, reader, pushers, timers, line, counts, history>>

Push(p) ==
    \/ PushRejected(p)
    \/ PushWrite(p)
    \/ PushWriteFails(p)
    \/ PushTimer(p)

SerialEvent ==
    \/ PutEnds
    \/ AutoCheck
    \/ AutoWrite
    \/ AutoWriteFails

Next ==
    \/ Initialize
    \/ \E p \in Pusher : Push(p) \/ \E c \in Offered : PushBegin(p, c)
    \/ Tick
    \/ TimerFires
    \/ \E b \in Batch : ReadEvent(b)
    \/ SerialEvent
    \/ HourPasses

Spec == Init /\ [][Next]_vars

\* The CoAP threads and the timers run, the reader is scheduled, its PUT ends
\* (response or time-out), and the Arduino goes on sending well-formed records.
FairSpec ==
    /\ Spec
    /\ \A p \in Pusher : WF_vars(Push(p))
    /\ WF_vars(Tick) /\ WF_vars(TimerFires)
    /\ WF_vars(SerialEvent)
    /\ WF_vars(\E b \in Batch : Splits(b) /\ b # << >> /\ ReadEvent(b))

-----------------------------------------------------------------------------
(* Properties.                                                             *)

\* Every variable holds values of its kind.
TypeOK ==
    /\ port \in BOOLEAN
    /\ flag \in [Relay -> BOOLEAN]
    /\ light \in {0, 1}
    /\ t1 \in Nat /\ t2 \in Nat /\ h \in Nat
    /\ hour \in Hours
    /\ se \in {"idle", "put"} \cup Relay
    /\ want \in RelayCommand \cup {NoCommand}
    /\ pp \in [Pusher -> {"idle", "write", "timer"}]
    /\ msg \in [Pusher -> Command \cup {NoCommand}]
    /\ timers \in Seq(0 .. MTime)
    /\ line \in [Device -> {"none", "ON", "OF", "LE", "RI"}]
    /\ pushes \in Nat /\ fails \in Nat
    /\ stale \in [Relay -> Nat]
    /\ age \in 0 .. MTime
    /\ stopFailed \in BOOLEAN /\ overridden \in BOOLEAN

\* push and serialEvent race for a relay: the reader may write an automatic
\* command after a push has put the device in manual mode.  It does so at most
\* once: the next pass reads the flag again, and there is one pass at a time.
AtMostOneStale == \A d \in Relay : stale[d] <= 1

\* A running motor is always about to be stopped: a timer is pending, or the
\* thread that started it has still to create one, unless a stop was lost to
\* a failed write.  No overlap of starts, stops and timers breaks this.
StopIsComing ==
    Running(line["MOTOR"]) =>
        \/ timers # << >>
        \/ \E p \in Pusher : pp[p] = "timer"
        \/ stopFailed

\* The field light tells whether the lamp is on as long as no push switches
\* the lamp behind the reader's back: field and line change together, and a
\* failed write changes neither.
LightFieldIsRight ==
    ~ overridden => (light = 1 <=> line["LIGHT"] = "ON")

\* A command that is pushed is answered though its thread is only weakly fair
\* and the reader holds the monitor most of the time: push waits for no lock.
\* And every event ends, so that the next one can be read.
CallsEnd ==
    /\ \A p \in Pusher : (pp[p] # "idle") ~> (pp[p] = "idle")
    /\ (se # "idle") ~> (se = "idle")

\* The motor stops, however many starts and stops are pushed, unless a stop was
\* lost to a failed write: nothing repeats it.
MotorStops == Running(line["MOTOR"]) ~> (~ Running(line["MOTOR"]) \/ stopFailed)

\* In auto mode the lamp does not stay on outside the hours from 12 to 15,
\* whatever writes are lost: it goes off, unless manual mode is entered, the
\* window opens again, or a push has switched the lamp and the reader, which
\* looks at the field light, has not since.
AutoLightGoesOff ==
    LET Astray == line["LIGHT"] = "ON" /\ flag["LIGHT"] /\ ~ Window /\ ~ overridden
    IN  Astray ~> ~ Astray

-----------------------------------------------------------------------------
(* What a comment says, and the code does not do.                          *)

\* ModuleMain:62: mtime is the time the motor runs: a timer does not stop a
\* motor that was started less than mtime ago.
RunLastsMTime ==
    [][(Running(line["MOTOR"]) /\ ~ Running(line'["MOTOR"]) /\ timers' # timers)
         => age >= MTime]_vars
=============================================================================
