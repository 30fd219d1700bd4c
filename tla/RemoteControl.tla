---------------------------- MODULE RemoteControl ----------------------------
(***************************************************************************)
(* The control screens of the apps (ProfileFragment) over the platform and *)
(* the gateway.  Each screen keeps a copy of the row of CURRENT_STATE that *)
(* it read when it was resumed; its switches and toggles decide from that  *)
(* copy which command to send, and change the copy when the answer is "S". *)
(* The platform serves a command in two effects, first the gateway's auto  *)
(* flag and then the row; PlatformMain and ModuleMain model how.           *)
(*                                                                         *)
(* The module is about three places that should agree: the copy on each    *)
(* screen, the row, and the mode the gateway is in.                        *)
(***************************************************************************)
EXTENDS Commands

CONSTANTS
    Phone,     \* the apps
    Panel,     \* the devices whose controls are used
    MaxClicks, \* bound: clicks in all
    MaxFaults  \* bound: failures in all

ASSUME PanelAssumption == Panel \subseteq Device
ASSUME BoundAssumption == MaxClicks \in Nat /\ MaxFaults \in Nat

VARIABLES
    screen,   \* the fragment of each app
    val, aux, \* its copy: lightState, ..., motorSideState; lightAutoState, ...
    enabled,  \* whether each switch is enabled
    ask,      \* the command whose answer the app waits for
    stage,    \* how far the platform is with it
    broken,   \* the connection is dead, and isConnect still true
    late,     \* work of the platform whose app has lost its connection
    payload,  \* the static field of the platform
    row,      \* table CURRENT_STATE
    mode,     \* the gateway's LIGHFLAG, HITTFLAG, HUMIFLAG
    clicks, faults,
    \* history
    alone,    \* since the screen read the row, nobody else has used the system
    clean     \* no failure, no overlap, no click on a stale screen so far

app     == <<screen, val, aux, enabled>>
request == <<ask, stage, broken, late>>
house   == <<payload, row, mode>>
counts  == <<clicks, faults>>
history == <<alone, clean>>
vars    == <<app, request, house, counts, history>>

Screen == {"none", "paused", "shown"}
Stage  == {"idle", "asked", "assigned", "executed", "recorded"}
Flags  == [Device -> BOOLEAN]
Off    == [d \in Device |-> FALSE]

Init ==
    /\ screen = [p \in Phone |-> "none"]
    /\ val = [p \in Phone |-> Off] /\ aux = [p \in Phone |-> Off]
    /\ enabled = [p \in Phone |-> [d \in Device |-> TRUE]]
    /\ ask = [p \in Phone |-> NoCommand] /\ stage = [p \in Phone |-> "idle"]
    /\ broken = [p \in Phone |-> FALSE] /\ late = {}
    /\ payload = NoCommand /\ row = InitRow /\ mode = [d \in Relay |-> FALSE]
    /\ clicks = 0 /\ faults = 0
    /\ alone = [p \in Phone |-> FALSE] /\ clean = TRUE

Fault == faults < MaxFaults /\ faults' = faults + 1

-----------------------------------------------------------------------------
(* The life of a screen.                                                   *)

\* Mutant: a relay's switch may be used in auto mode.
OperableAlways(flags, d) == d = "MOTOR" => flags[d]

\* A relay's switch may be used in manual mode, the motor's while it is on.
Operable(flags, d) == IF d = "MOTOR" THEN flags[d] ELSE ~ flags[d]

\* Mutant: the switches are only painted, not disabled.
SetStatePaints(p, flags, before) == enabled' = [enabled EXCEPT ![p] = before]

\* setState disables the switches that may not be used; it enables none.
SetState(p, flags, before) ==
    enabled' = [enabled EXCEPT ![p] = [d \in Device |->
                    before[d] /\ Operable(flags, d)]]

\* onResume of a new fragment, whose views are enabled, or of a kept one:
\* REQUEST_STATE, setValue, setState.
Resume(p) ==
    /\ screen[p] \in {"none", "paused"} /\ ~ broken[p]
    /\ screen' = [screen EXCEPT ![p] = "shown"]
    /\ val' = [val EXCEPT ![p] = row.val]
    /\ aux' = [aux EXCEPT ![p] = row.aux]
    /\ SetState(p, row.aux, IF screen[p] = "paused" THEN enabled[p]
                            ELSE [d \in Device |-> TRUE])
    /\ alone' = [alone EXCEPT ![p] = TRUE]
    /\ UNCHANGED <<request, house, counts, clean>>

\* An answer that is no row ("F", or the text of an exception): parseInt
\* throws, the app crashes; its next start connects anew.
ResumeFails(p) ==
    /\ screen[p] \in {"none", "paused"}
    /\ IF broken[p] THEN faults' = faults ELSE Fault
    /\ screen' = [screen EXCEPT ![p] = "none"]
    /\ broken' = [broken EXCEPT ![p] = FALSE]
    /\ UNCHANGED <<val, aux, enabled, ask, stage, late, house, clicks, history>>

Pause(p) ==
    /\ screen[p] = "shown" /\ stage[p] = "idle"
    /\ screen' = [screen EXCEPT ![p] = "paused"]
    /\ UNCHANGED <<val, aux, enabled, request, house, counts, history>>

\* The pager drops the fragment while the camera page is shown, or the
\* activity ends, and its connection with it.
Destroy(p) ==
    /\ screen[p] \in {"shown", "paused"} /\ stage[p] = "idle"
    /\ screen' = [screen EXCEPT ![p] = "none"]
    /\ \E b \in {broken[p], FALSE} : broken' = [broken EXCEPT ![p] = b]
    /\ UNCHANGED <<val, aux, enabled, ask, stage, late, house, counts, history>>

-----------------------------------------------------------------------------
(* onClick.  The UI thread waits in get() until the task has an answer.    *)

\* doCommuForState(c).
Ask(p, c) ==
    /\ ask' = [ask EXCEPT ![p] = c]
    /\ stage' = [stage EXCEPT ![p] = "asked"]
    /\ clean' = (clean /\ aux[p] = row.aux /\ \A q \in Phone : stage[q] = "idle")

Ready(p) == screen[p] = "shown" /\ stage[p] = "idle" /\ clicks < MaxClicks

\* Mutant: the motor's switch speaks as the others do.
SwitchCommandOn(p, d) == Cmd(d, IF val[p][d] THEN "OF" ELSE "ON")

\* The motor's switch sends RI when its flag is 0, and LE when it is 1.
SwitchCommand(p, d) ==
    IF d = "MOTOR" THEN Cmd(d, IF val[p][d] THEN "LE" ELSE "RI")
                   ELSE Cmd(d, IF val[p][d] THEN "OF" ELSE "ON")

\* A switch that may not be used is disabled and nothing is sent.
ClickSwitch(p, d) ==
    /\ Ready(p) /\ enabled[p][d]
    /\ clicks' = clicks + 1
    /\ IF Operable(aux[p], d)
       THEN Ask(p, SwitchCommand(p, d)) /\ enabled' = enabled
       ELSE /\ enabled' = [enabled EXCEPT ![p][d] = FALSE]
            /\ UNCHANGED <<ask, stage, clean>>
    /\ UNCHANGED <<screen, val, aux, broken, late, house, faults, alone>>

\* The same command switches auto mode, or the motor, on and off.
ClickToggle(p, d) ==
    /\ Ready(p)
    /\ clicks' = clicks + 1
    /\ Ask(p, Cmd(d, IF d = "MOTOR" THEN "OF" ELSE "AU"))
    /\ UNCHANGED <<app, broken, late, house, faults, alone>>

\* "S" to a switch: the handler changes the value of its copy.
SwitchAnswered(p, d) ==
    /\ val' = [val EXCEPT ![p][d] = ~ @]
    /\ UNCHANGED <<aux, enabled>>

\* Mutant: the toggle is painted and the copy is not changed.
ToggleAnsweredKeeps(p, d) ==
    /\ enabled' = [enabled EXCEPT ![p][d] = ~ @]
    /\ UNCHANGED <<val, aux>>

\* "S" to a toggle: it changes the mode, and enables or disables the switch.
ToggleAnswered(p, d) ==
    /\ aux' = [aux EXCEPT ![p][d] = ~ @]
    /\ enabled' = [enabled EXCEPT ![p][d] = Operable(aux'[p], d)]
    /\ val' = val

Answer(p) ==
    /\ stage[p] = "recorded"
    /\ IF Toggles(ask[p]) THEN ToggleAnswered(p, ask[p].dev)
                          ELSE SwitchAnswered(p, ask[p].dev)
    /\ ask' = [ask EXCEPT ![p] = NoCommand] /\ stage' = [stage EXCEPT ![p] = "idle"]
    /\ UNCHANGED <<screen, broken, late, house, counts, history>>

\* The connection ends before the answer.  If read returns -1 the handler does
\* nothing; an IOException ends the activity, and the next one connects anew.
\* The platform goes on with a command that it has received.
AnswerLost(p) ==
    /\ stage[p] # "idle"
    /\ IF broken[p] THEN faults' = faults /\ late' = late
       ELSE /\ Fault
            /\ late' = late \cup {[cmd |-> ask[p], stage |-> stage[p], nr |-> faults]}
    /\ \/ broken' = [broken EXCEPT ![p] = TRUE] /\ screen' = screen
       \/ broken' = [broken EXCEPT ![p] = FALSE] /\ screen' = [screen EXCEPT ![p] = "none"]
    /\ ask' = [ask EXCEPT ![p] = NoCommand] /\ stage' = [stage EXCEPT ![p] = "idle"]
    /\ alone' = [alone EXCEPT ![p] = FALSE] /\ clean' = FALSE
    /\ UNCHANGED <<val, aux, enabled, house, clicks>>

-----------------------------------------------------------------------------
(* The platform and the gateway.                                           *)

Serve(p, from, to) ==
    /\ stage[p] = from /\ ~ broken[p]
    /\ stage' = [stage EXCEPT ![p] = to]
    /\ UNCHANGED <<app, ask, broken, late, clicks>>

ServeLate(j, from, to) ==
    /\ j.stage = from
    /\ late' = (late \ {j}) \cup {[j EXCEPT !.stage = to]}
    /\ UNCHANGED <<app, ask, stage, broken, counts, clean>>

\* The session's payload = ...
Assign(p) ==
    /\ Serve(p, "asked", "assigned")
    /\ payload' = ask[p]
    /\ UNCHANGED <<row, mode, faults, history>>

\* push: AU sets the auto flag, ON and OF clear it.
Obey(c) ==
    /\ mode' = IF c \in RelayCommand THEN [mode EXCEPT ![c.dev] = (c.op = "AU")]
                                     ELSE mode
    /\ UNCHANGED <<payload, row>>

\* The gateway executes the command, or the one another session has put in its
\* place before it was sent.
Execute(p) ==
    /\ Serve(p, "assigned", "executed")
    /\ \E c \in {ask[p], payload} : Obey(c)
    /\ UNCHANGED <<faults, history>>

\* A time-out or a rejection: nothing is executed, and the platform goes on.
ExecuteFails(p) ==
    /\ Serve(p, "assigned", "executed")
    /\ Fault
    /\ clean' = FALSE
    /\ UNCHANGED <<house, alone>>

\* insertControl's UPDATE; every other screen is out of date from now on.
Record(p) ==
    /\ Serve(p, "executed", "recorded")
    /\ row' = Update(row, ask[p])
    /\ alone' = [q \in Phone |-> q = p /\ alone[q]]
    /\ UNCHANGED <<payload, mode, faults, clean>>

\* A statement fails, and the app is answered "S" all the same.
RecordFails(p) ==
    /\ Serve(p, "executed", "recorded")
    /\ Fault
    /\ alone' = [alone EXCEPT ![p] = FALSE] /\ clean' = FALSE
    /\ UNCHANGED house

\* The same for a command whose app has gone; the server may die with it.
LateAssign(j) ==
    /\ ServeLate(j, "asked", "assigned")
    /\ payload' = j.cmd
    /\ UNCHANGED <<row, mode, alone>>

LateExecute(j) ==
    /\ ServeLate(j, "assigned", "executed")
    /\ (\E c \in {j.cmd, payload} : Obey(c)) \/ UNCHANGED house
    /\ UNCHANGED alone

LateRecord(j) ==
    /\ ServeLate(j, "executed", "recorded")
    /\ row' = Update(row, j.cmd)
    /\ alone' = [q \in Phone |-> FALSE]
    /\ UNCHANGED <<payload, mode>>

LateEnds(j) ==
    /\ late' = late \ {j}
    /\ UNCHANGED <<app, ask, stage, broken, house, counts, history>>

Next ==
    \/ \E p \in Phone :
        \/ Resume(p) \/ ResumeFails(p) \/ Pause(p) \/ Destroy(p)
        \/ \E d \in Panel : ClickSwitch(p, d) \/ ClickToggle(p, d)
        \/ Answer(p) \/ AnswerLost(p)
        \/ Assign(p)
        \/ Execute(p) \/ ExecuteFails(p)
        \/ Record(p) \/ RecordFails(p)
    \/ \E j \in late :
        LateAssign(j) \/ LateExecute(j) \/ LateRecord(j) \/ LateEnds(j)

Spec == Init /\ [][Next]_vars

-----------------------------------------------------------------------------
(* Properties.                                                             *)

Job == [cmd : Command, stage : Stage \ {"idle"}, nr : 0 .. MaxFaults]

\* The type invariant, with what a pending command looks like.
TypeOK ==
    /\ screen \in [Phone -> Screen]
    /\ val \in [Phone -> Flags] /\ aux \in [Phone -> Flags]
    /\ enabled \in [Phone -> Flags]
    /\ ask \in [Phone -> Command \cup {NoCommand}]
    /\ stage \in [Phone -> Stage]
    /\ \A p \in Phone : stage[p] = "idle" \/ ask[p] \in Command
    /\ broken \in [Phone -> BOOLEAN] /\ late \subseteq Job
    /\ payload \in Command \cup {NoCommand}
    /\ row \in Row /\ mode \in [Relay -> BOOLEAN]
    /\ clicks \in 0 .. MaxClicks /\ faults \in 0 .. MaxFaults
    /\ alone \in [Phone -> BOOLEAN] /\ clean \in BOOLEAN

\* Whatever the other apps do and however often the screen is paused, the
\* switch of a relay that the screen holds to be in auto mode, and that of a
\* motor it holds to be off, is disabled: no manual command is sent from it.
SwitchDisabledInAuto ==
    \A p \in Phone, d \in Device :
        screen[p] # "none" /\ ~ Operable(aux[p], d) => ~ enabled[p][d]

\* An idle screen agrees with the row, the motor's side apart, unless another
\* app has used the system or something failed since it was read: flipping the
\* copy after each answer follows what the UPDATE statements do.
ScreenAgrees ==
    \A p \in Phone :
        screen[p] # "none" /\ alone[p] /\ stage[p] = "idle" =>
            /\ aux[p] = row.aux
            /\ \A d \in Relay : val[p][d] = row.val[d]

\* As long as nothing fails, requests do not overlap and nobody uses a screen
\* that is out of date, a relay that the row puts in auto mode is in auto mode
\* at the gateway, between the two effects of a command too.
AutoClaimIsTrue ==
    clean => \A d \in Relay : row.aux[d] => mode[d]

\* PlatformMain describes the flag of REQUEST_STATE as "auto on -> 1, auto off
\* -> 0".  It is violated: the second AU resets the column, and the gateway,
\* which sets its flag on every AU, stays in auto mode.
AutoColumnTellsMode ==
    clean /\ (\A p \in Phone : stage[p] = "idle") =>
        \A d \in Relay : row.aux[d] <=> mode[d]
=============================================================================
