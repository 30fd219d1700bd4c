------------------------ MODULE RemoteControl_proofs ------------------------
(***************************************************************************)
(* What holds of the control screens for any number of apps, any devices   *)
(* and any number of clicks and failures.                                  *)
(***************************************************************************)
EXTENDS RemoteControl, TLAPS

-----------------------------------------------------------------------------
(* Type correctness.                                                       *)

LEMMA RowType ==
    ASSUME NEW r \in Row, NEW c \in Command
    PROVE  Update(r, c) \in Row
<1>1. CASE c \in MotorCommand
  BY <1>1 DEF Update, UpdateMotor, MotorCommand, Row, Device, Relay
<1>2. CASE c \in RelayCommand
  BY <1>2 DEF Update, UpdateRelay, RelayCommand, Row, Device, Relay
<1> QED BY <1>1, <1>2 DEF Command

LEMMA ObeyType ==
    ASSUME mode \in [Relay -> BOOLEAN], NEW c, Obey(c)
    PROVE  mode' \in [Relay -> BOOLEAN]
<1>1. mode' = mode \/ (c \in RelayCommand /\ mode' = [mode EXCEPT ![c.dev] = (c.op = "AU")])
  BY DEF Obey
<1>2. (c.op = "AU") \in BOOLEAN
  OBVIOUS
<1> QED BY <1>1, <1>2 DEF RelayCommand

LEMMA SwitchCommandType ==
    ASSUME NEW p, NEW d \in Device
    PROVE  SwitchCommand(p, d) \in Command
BY DEF SwitchCommand, Cmd, Command, RelayCommand, MotorCommand, Device, Relay

LEMMA ToggleCommandType ==
    ASSUME NEW d \in Device
    PROVE  Cmd(d, IF d = "MOTOR" THEN "OF" ELSE "AU") \in Command
BY DEF Cmd, Command, RelayCommand, MotorCommand, Device, Relay

LEMMA CommandDevice == \A c \in Command : c.dev \in Device
BY DEF Command, RelayCommand, MotorCommand, Device, Relay

LEMMA FlagsUpdate ==
    ASSUME NEW f \in [Phone -> Flags], NEW p \in Phone, NEW d \in Device, NEW b \in BOOLEAN
    PROVE  [f EXCEPT ![p][d] = b] \in [Phone -> Flags]
BY DEF Flags

LEMMA SetStateType ==
    ASSUME NEW p \in Phone, enabled \in [Phone -> Flags],
           NEW flags \in Flags, NEW before \in Flags, SetState(p, flags, before)
    PROVE  enabled' \in [Phone -> Flags]
<1> DEFINE e == [d \in Device |-> before[d] /\ Operable(flags, d)]
<1>1. e \in Flags
  BY Zenon DEF Flags
<1>2. enabled' = [enabled EXCEPT ![p] = e]
  BY Zenon DEF SetState
<1> QED BY <1>1, <1>2

LEMMA InitTyped == Init => TypeOK
BY BoundAssumption
   DEF Init, TypeOK, Screen, Stage, Flags, Off, Row, InitRow

LEMMA ScreenTyped ==
    ASSUME TypeOK, NEW p \in Phone, Resume(p) \/ ResumeFails(p) \/ Pause(p) \/ Destroy(p)
    PROVE  TypeOK'
<1> USE DEF TypeOK, request, house, counts, history
<1>1. CASE Resume(p)
  <2>1. row.aux \in Flags /\ row.val \in Flags
    BY DEF Row, Flags
  <2>2. (IF screen[p] = "paused" THEN enabled[p] ELSE [d \in Device |-> TRUE]) \in Flags
    BY DEF Flags
  <2>3. enabled' \in [Phone -> Flags]
    BY <1>1, <2>1, <2>2, SetStateType DEF Resume
  <2> QED BY <1>1, <2>1, <2>3 DEF Resume, Screen
<1>2. CASE ResumeFails(p)
  <2>1. faults' \in 0 .. MaxFaults
    BY <1>2, BoundAssumption DEF ResumeFails, Fault
  <2> QED BY <1>2, <2>1 DEF ResumeFails, Screen
<1>3. CASE Pause(p)
  BY <1>3 DEF Pause, Screen
<1>4. CASE Destroy(p)
  <2>1. broken' \in [Phone -> BOOLEAN]
    BY <1>4 DEF Destroy
  <2> QED BY <1>4, <2>1 DEF Destroy, Screen
<1> QED BY <1>1, <1>2, <1>3, <1>4

LEMMA ClickTyped ==
    ASSUME TypeOK, NEW p \in Phone, NEW d \in Panel, ClickSwitch(p, d) \/ ClickToggle(p, d)
    PROVE  TypeOK'
<1> USE DEF TypeOK, app, house
<1>1. clicks' \in 0 .. MaxClicks
  BY BoundAssumption DEF ClickSwitch, ClickToggle, Ready
<1>2. d \in Device
  BY PanelAssumption
<1>3. ASSUME NEW c \in Command, Ask(p, c)
      PROVE  /\ ask' \in [Phone -> Command \cup {NoCommand}]
             /\ stage' \in [Phone -> Stage]
             /\ \A q \in Phone : stage'[q] = "idle" \/ ask'[q] \in Command
             /\ clean' \in BOOLEAN
  BY <1>3 DEF Ask, Stage
<1>4. CASE ClickSwitch(p, d)
  <2>1. CASE Operable(aux[p], d)
    BY <1>1, <1>2, <1>3, <1>4, <2>1, SwitchCommandType DEF ClickSwitch
  <2>2. CASE ~ Operable(aux[p], d)
    <3>1. enabled' \in [Phone -> Flags]
      <4>1. enabled' = [enabled EXCEPT ![p][d] = FALSE]
        BY <1>4, <2>2, Zenon DEF ClickSwitch
      <4> QED BY <1>2, <4>1, FlagsUpdate
    <3> QED BY <1>1, <1>4, <2>2, <3>1 DEF ClickSwitch
  <2> QED BY <2>1, <2>2
<1>5. CASE ClickToggle(p, d)
  BY <1>1, <1>2, <1>3, <1>5, ToggleCommandType DEF ClickToggle
<1> QED BY <1>4, <1>5

LEMMA AnswerTyped ==
    ASSUME TypeOK, NEW p \in Phone, Answer(p) \/ AnswerLost(p)
    PROVE  TypeOK'
<1> USE DEF TypeOK, counts, history, house
<1>1. CASE Answer(p)
  <2>1. ask[p].dev \in Device
    BY <1>1, CommandDevice DEF Answer
  <2>2. CASE Toggles(ask[p])
    <3>1. aux' \in [Phone -> Flags]
      <4>1. aux' = [aux EXCEPT ![p][ask[p].dev] = ~ aux[p][ask[p].dev]]
        BY <1>1, <2>2, Zenon DEF Answer, ToggleAnswered, SwitchAnswered
      <4>2. (~ aux[p][ask[p].dev]) \in BOOLEAN
        OBVIOUS
      <4> QED BY <2>1, <4>1, <4>2, FlagsUpdate
    <3>2. enabled' = [enabled EXCEPT ![p][ask[p].dev] = Operable(aux'[p], ask[p].dev)]
      BY <1>1, <2>2, Zenon DEF Answer, ToggleAnswered, SwitchAnswered
    <3>3. aux'[p][ask[p].dev] \in BOOLEAN
      BY <2>1, <3>1 DEF Flags
    <3>4. Operable(aux'[p], ask[p].dev) \in BOOLEAN
      BY <3>3, Zenon DEF Operable
    <3>5. enabled' \in [Phone -> Flags]
      BY <2>1, <3>2, <3>4, FlagsUpdate
    <3>6. val' = val
      BY <1>1, <2>2 DEF Answer, ToggleAnswered
    <3> QED BY <1>1, <3>1, <3>5, <3>6 DEF Answer, Stage
  <2>3. CASE ~ Toggles(ask[p])
    <3>1. val' \in [Phone -> Flags]
      <4>1. val' = [val EXCEPT ![p][ask[p].dev] = ~ val[p][ask[p].dev]]
        BY <1>1, <2>3, Zenon DEF Answer, ToggleAnswered, SwitchAnswered
      <4>2. (~ val[p][ask[p].dev]) \in BOOLEAN
        OBVIOUS
      <4> QED BY <2>1, <4>1, <4>2, FlagsUpdate
    <3> QED BY <1>1, <2>3, <3>1 DEF Answer, SwitchAnswered, Stage
  <2> QED BY <2>2, <2>3
<1>2. CASE AnswerLost(p)
  <2>1. faults' \in 0 .. MaxFaults /\ late' \subseteq Job
    <3>1. CASE broken[p]
      BY <1>2, <3>1 DEF AnswerLost
    <3>2. CASE ~ broken[p]
      <4>1. [cmd |-> ask[p], stage |-> stage[p], nr |-> faults] \in Job
        BY <1>2 DEF AnswerLost, Job
      <4> QED BY <1>2, <3>2, <4>1, BoundAssumption DEF AnswerLost, Fault
    <3> QED BY <3>1, <3>2
  <2>2. broken' \in [Phone -> BOOLEAN] /\ screen' \in [Phone -> Screen]
    BY <1>2 DEF AnswerLost, Screen
  <2> QED BY <1>2, <2>1, <2>2 DEF AnswerLost, Stage
<1> QED BY <1>1, <1>2

LEMMA PlatformTyped ==
    ASSUME TypeOK, NEW p \in Phone,
           Assign(p) \/ Execute(p) \/ ExecuteFails(p) \/ Record(p) \/ RecordFails(p)
    PROVE  TypeOK'
<1> USE DEF TypeOK, app, house, history, Serve
<1>1. stage[p] # "idle" /\ ask[p] \in Command
  BY DEF Assign, Execute, ExecuteFails, Record, RecordFails
<1>2. stage' \in [Phone -> Stage]
  BY DEF Assign, Execute, ExecuteFails, Record, RecordFails, Stage
<1>3. \A q \in Phone : stage'[q] = "idle" \/ ask'[q] \in Command
  BY <1>1 DEF Assign, Execute, ExecuteFails, Record, RecordFails
<1>4. faults' \in 0 .. MaxFaults
  BY BoundAssumption DEF Assign, Execute, ExecuteFails, Record, RecordFails, Fault
<1>5. CASE Assign(p)
  BY <1>1, <1>2, <1>3, <1>5 DEF Assign
<1>6. CASE Execute(p)
  <2>1. PICK c \in {ask[p], payload} : Obey(c)
    BY <1>6 DEF Execute
  <2>2. mode' \in [Relay -> BOOLEAN]
    BY <2>1, ObeyType
  <2> QED BY <1>2, <1>3, <1>6, <2>1, <2>2 DEF Execute, Obey
<1>7. CASE ExecuteFails(p)
  BY <1>2, <1>3, <1>4, <1>7 DEF ExecuteFails
<1>8. CASE Record(p)
  <2>1. row' \in Row
    BY <1>1, <1>8, RowType DEF Record
  <2>2. alone' \in [Phone -> BOOLEAN]
    BY <1>8, Zenon DEF Record
  <2> QED BY <1>2, <1>3, <1>8, <2>1, <2>2 DEF Record
<1>9. CASE RecordFails(p)
  BY <1>2, <1>3, <1>4, <1>9 DEF RecordFails
<1> QED BY <1>5, <1>6, <1>7, <1>8, <1>9

LEMMA LateTyped ==
    ASSUME TypeOK, NEW j \in late,
           LateAssign(j) \/ LateExecute(j) \/ LateRecord(j) \/ LateEnds(j)
    PROVE  TypeOK'
<1> USE DEF TypeOK, app, house, history, counts, ServeLate
<1>1. j \in Job /\ j.cmd \in Command
  BY DEF Job
<1>2. \A s \in Stage \ {"idle"} : [j EXCEPT !.stage = s] \in Job
  BY <1>1 DEF Job
<1>3. late' \subseteq Job
  BY <1>2 DEF LateAssign, LateExecute, LateRecord, LateEnds, Stage
<1>4. CASE LateAssign(j)
  BY <1>1, <1>3, <1>4 DEF LateAssign
<1>5. CASE LateExecute(j)
  <2>1. CASE UNCHANGED house
    BY <1>3, <1>5, <2>1 DEF LateExecute
  <2>2. ASSUME NEW c, Obey(c) PROVE TypeOK'
    <3>1. mode' \in [Relay -> BOOLEAN]
      BY <2>2, ObeyType
    <3> QED BY <1>3, <1>5, <2>2, <3>1 DEF LateExecute, Obey
  <2> QED BY <1>5, <2>1, <2>2 DEF LateExecute
<1>6. CASE LateRecord(j)
  <2>1. row' \in Row
    BY <1>1, <1>6, RowType DEF LateRecord
  <2> QED BY <1>3, <1>6, <2>1 DEF LateRecord
<1>7. CASE LateEnds(j)
  BY <1>3, <1>7 DEF LateEnds
<1> QED BY <1>4, <1>5, <1>6, <1>7

LEMMA NextTyped == TypeOK /\ [Next]_vars => TypeOK'
<1> SUFFICES ASSUME TypeOK, [Next]_vars PROVE TypeOK'
  OBVIOUS
<1>1. CASE UNCHANGED vars
  BY <1>1 DEF TypeOK, vars, app, request, house, counts, history
<1>2. CASE Next
  BY <1>2, ScreenTyped, ClickTyped, AnswerTyped, PlatformTyped, LateTyped DEF Next
<1> QED BY <1>1, <1>2

\* Every reachable state is well typed, a pending request is a command, and the
\* work that outlives its app's connection is that of commands.
THEOREM TypeCorrect == Spec => []TypeOK
BY InitTyped, NextTyped, PTL DEF Spec

-----------------------------------------------------------------------------
(* The switches.                                                           *)

LEMMA SwitchStep ==
    ASSUME TypeOK, SwitchDisabledInAuto, [Next]_vars
    PROVE  SwitchDisabledInAuto'
<1> USE DEF SwitchDisabledInAuto
<1> DEFINE Fits == screen' = screen /\ aux' = aux /\ enabled' = enabled
<1>0. Fits => SwitchDisabledInAuto'
  BY DEF Operable
<1>1. ASSUME NEW p \in Phone, Resume(p) PROVE SwitchDisabledInAuto'
  <2> DEFINE b == IF screen[p] = "paused" THEN enabled[p] ELSE [d \in Device |-> TRUE]
             e == [d \in Device |-> b[d] /\ Operable(row.aux, d)]
  <2>1. enabled' = [enabled EXCEPT ![p] = e]
    BY <1>1, Zenon DEF Resume, SetState
  <2>2. aux' = [aux EXCEPT ![p] = row.aux] /\ screen' = [screen EXCEPT ![p] = "shown"]
    BY <1>1 DEF Resume
  <2>3. enabled'[p] = e /\ aux'[p] = row.aux
    BY <2>1, <2>2 DEF TypeOK
  <2>4. \A d \in Device : ~ Operable(row.aux, d) => ~ e[d]
    OBVIOUS
  <2>5. \A q \in Phone : q # p => enabled'[q] = enabled[q] /\ aux'[q] = aux[q] /\ screen'[q] = screen[q]
    BY <2>1, <2>2 DEF TypeOK
  <2> HIDE DEF e
  <2>6. \A d \in Device : ~ Operable(aux'[p], d) => ~ enabled'[p][d]
    BY <2>3, <2>4
  <2> SUFFICES ASSUME NEW q \in Phone, NEW d \in Device,
                      screen'[q] # "none", ~ Operable(aux'[q], d)
               PROVE  ~ enabled'[q][d]
    BY Zenon DEF Operable
  <2> QED BY <2>5, <2>6, Zenon
<1>2. ASSUME NEW p \in Phone, ResumeFails(p) \/ Pause(p) \/ Destroy(p) \/ AnswerLost(p)
      PROVE  SwitchDisabledInAuto'
  <2>1. aux' = aux /\ enabled' = enabled
    BY <1>2 DEF ResumeFails, Pause, Destroy, AnswerLost
  <2>2. \A q \in Phone : screen'[q] # "none" => screen[q] # "none"
    BY <1>2 DEF ResumeFails, Pause, Destroy, AnswerLost, TypeOK
  <2> QED BY <2>1, <2>2 DEF Operable
<1>3. ASSUME NEW p \in Phone, NEW d \in Panel, ClickSwitch(p, d) PROVE SwitchDisabledInAuto'
  <2>1. CASE Operable(aux[p], d)
    BY <1>0, <1>3, <2>1 DEF ClickSwitch
  <2>2. CASE ~ Operable(aux[p], d)
    <3>1. enabled' = [enabled EXCEPT ![p][d] = FALSE]
      BY <1>3, <2>2, Zenon DEF ClickSwitch
    <3>2. aux' = aux /\ screen' = screen
      BY <1>3 DEF ClickSwitch
    <3>3. \A q \in Phone, x \in Device : enabled'[q][x] => enabled[q][x]
      BY <3>1, PanelAssumption DEF TypeOK, Flags
    <3> QED BY <3>2, <3>3 DEF Operable
  <2> QED BY <2>1, <2>2
<1>4. ASSUME NEW p \in Phone, NEW d \in Panel, ClickToggle(p, d) PROVE SwitchDisabledInAuto'
  BY <1>0, <1>4 DEF ClickToggle, app
<1>5. ASSUME NEW p \in Phone, Answer(p) PROVE SwitchDisabledInAuto'
  <2> DEFINE d == ask[p].dev
  <2>0. d \in Device /\ screen' = screen
    BY <1>5, CommandDevice DEF Answer, TypeOK
  <2>1. CASE Toggles(ask[p])
    <3>1. /\ aux' = [aux EXCEPT ![p][d] = ~ aux[p][d]]
          /\ enabled' = [enabled EXCEPT ![p][d] = Operable(aux'[p], d)]
      BY <1>5, <2>1, Zenon DEF Answer, ToggleAnswered, SwitchAnswered
    <3> HIDE DEF d
    <3>2. enabled'[p][d] = Operable(aux'[p], d)
      BY <2>0, <3>1 DEF TypeOK, Flags
    <3>3. \A q \in Phone, x \in Device : ~ (q = p /\ x = d) =>
             enabled'[q][x] = enabled[q][x] /\ aux'[q][x] = aux[q][x]
      BY <2>0, <3>1 DEF TypeOK, Flags
    <3> SUFFICES ASSUME NEW q \in Phone, NEW x \in Device,
                        screen'[q] # "none", ~ Operable(aux'[q], x)
                 PROVE  ~ enabled'[q][x]
      BY Zenon DEF Operable
    <3>4. CASE q = p /\ x = d
      BY <3>2, <3>4
    <3>5. CASE ~ (q = p /\ x = d)
      <4>1. ~ Operable(aux[q], x)
        BY <3>3, <3>5, Zenon DEF Operable
      <4> QED BY <2>0, <3>3, <3>5, <4>1
    <3> QED BY <3>4, <3>5
  <2>2. CASE ~ Toggles(ask[p])
    BY <1>0, <1>5, <2>2 DEF Answer, SwitchAnswered
  <2> QED BY <2>1, <2>2
<1>6. ASSUME NEW p \in Phone,
             Assign(p) \/ Execute(p) \/ ExecuteFails(p) \/ Record(p) \/ RecordFails(p)
      PROVE  SwitchDisabledInAuto'
  BY <1>0, <1>6 DEF Assign, Execute, ExecuteFails, Record, RecordFails, Serve, app
<1>7. ASSUME NEW j \in late, LateAssign(j) \/ LateExecute(j) \/ LateRecord(j) \/ LateEnds(j)
      PROVE  SwitchDisabledInAuto'
  BY <1>0, <1>7 DEF LateAssign, LateExecute, LateRecord, LateEnds, ServeLate, app
<1>8. CASE UNCHANGED vars
  BY <1>0, <1>8 DEF vars, app
<1> QED BY <1>1, <1>2, <1>3, <1>4, <1>5, <1>6, <1>7, <1>8 DEF Next

\* A switch that must not be used is disabled, for any number of apps and any
\* sequence of clicks, pauses, failures and answers.
THEOREM SwitchesGuarded == Spec => []SwitchDisabledInAuto
<1>1. Init => SwitchDisabledInAuto
  BY DEF Init, SwitchDisabledInAuto
<1>2. TypeOK /\ SwitchDisabledInAuto /\ [Next]_vars => SwitchDisabledInAuto'
  BY SwitchStep
<1> QED BY <1>1, <1>2, TypeCorrect, PTL DEF Spec

-----------------------------------------------------------------------------
(* The copy on the screen.  While a request is under way the invariant says *)
(* what the copy will be after the answer.                                 *)

PendingShown == \A p \in Phone : stage[p] # "idle" => screen[p] = "shown"

\* A relay's ON or OF stores the opposite of what the copy holds.
SwitchOpposes ==
    \A p \in Phone :
        stage[p] # "idle" /\ ask[p].dev \in Relay /\ ~ Toggles(ask[p]) =>
            (ask[p].op = "ON" <=> ~ val[p][ask[p].dev])

\* What Answer(p) makes of the copy.
AuxNext(p) == IF Toggles(ask[p]) THEN [aux[p] EXCEPT ![ask[p].dev] = ~ @] ELSE aux[p]
ValNext(p) == IF Toggles(ask[p]) THEN val[p] ELSE [val[p] EXCEPT ![ask[p].dev] = ~ @]

SameRelays(f, g) == \A d \in Relay : f[d] = g[d]

CopyTold ==
    \A p \in Phone :
        screen[p] # "none" /\ alone[p] =>
            /\ stage[p] # "recorded" => aux[p] = row.aux /\ SameRelays(val[p], row.val)
            /\ stage[p] = "recorded" => AuxNext(p) = row.aux /\ SameRelays(ValNext(p), row.val)

CopyInv == PendingShown /\ SwitchOpposes /\ CopyTold

\* The row after the UPDATE is the copy after the answer.
LEMMA UpdateTold ==
    ASSUME TypeOK, NEW p \in Phone, ask[p] \in Command,
           ask[p].dev \in Relay /\ ~ Toggles(ask[p]) =>
               (ask[p].op = "ON" <=> ~ val[p][ask[p].dev]),
           aux[p] = row.aux, SameRelays(val[p], row.val)
    PROVE  AuxNext(p) = Update(row, ask[p]).aux /\ SameRelays(ValNext(p), Update(row, ask[p]).val)
<1> DEFINE c == ask[p]
<1>0. val[p] \in Flags /\ row.val \in Flags /\ row.aux \in Flags /\ row \in Row
  BY DEF TypeOK, Row, Flags
<1>1. CASE c.dev = "MOTOR"
  <2>1. Update(row, c) = UpdateMotor(row, c)
    BY <1>1 DEF Update
  <2>2. CASE c.op = "OF"
    <3>1. Toggles(c)
      BY <1>1, <2>2 DEF Toggles, Cmd, Command, RelayCommand, MotorCommand, Relay
    <3>2. /\ UpdateMotor(row, c).aux = [row.aux EXCEPT !["MOTOR"] = ~ @]
          /\ UpdateMotor(row, c).val = row.val
      BY <1>0, <2>2 DEF UpdateMotor, Row
    <3> QED BY <1>1, <2>1, <3>1, <3>2 DEF AuxNext, ValNext
  <2>3. CASE c.op # "OF"
    <3>1. ~ Toggles(c)
      BY <1>1, <2>3 DEF Toggles, Cmd, Command, RelayCommand, MotorCommand, Relay
    <3>2. /\ UpdateMotor(row, c).aux = row.aux
          /\ UpdateMotor(row, c).val = [row.val EXCEPT !["MOTOR"] = (c.op = "LE")]
      BY <1>0, <2>3 DEF UpdateMotor, Row
    <3>3. \A d \in Relay : d # "MOTOR"
      BY DEF Relay
    <3>4. SameRelays(ValNext(p), UpdateMotor(row, c).val)
      BY <1>0, <1>1, <3>1, <3>2, <3>3 DEF SameRelays, ValNext, Flags, Device
    <3> QED BY <2>1, <3>1, <3>2, <3>4 DEF AuxNext
  <2> QED BY <2>2, <2>3
<1>2. CASE c.dev # "MOTOR"
  <2>1. c \in RelayCommand
    BY <1>2 DEF Command, MotorCommand
  <2>2. Update(row, c) = UpdateRelay(row, c)
    BY <1>2 DEF Update
  <2>3. Toggles(c) <=> c.op = "AU"
    BY <2>1 DEF Toggles, Cmd, RelayCommand, Relay
  <2>4. CASE c.op = "AU"
    <3>2. /\ UpdateRelay(row, c).aux = [row.aux EXCEPT ![c.dev] = ~ @]
          /\ UpdateRelay(row, c).val = row.val
      BY <1>0, <2>4 DEF UpdateRelay, Row
    <3> QED BY <2>2, <2>3, <2>4, <3>2 DEF AuxNext, ValNext
  <2>5. CASE c.op # "AU"
    <3>2. /\ UpdateRelay(row, c).aux = row.aux
          /\ UpdateRelay(row, c).val = [row.val EXCEPT ![c.dev] = (c.op = "ON")]
      BY <1>0, <2>5 DEF UpdateRelay, Row
    <3>3. c.dev \in Relay /\ (c.op = "ON" <=> ~ val[p][c.dev])
      BY <2>1, <2>3, <2>5 DEF RelayCommand
    <3>5. ValNext(p) = [val[p] EXCEPT ![c.dev] = ~ val[p][c.dev]]
      BY <2>3, <2>5 DEF ValNext
    <3>6. ValNext(p)[c.dev] = UpdateRelay(row, c).val[c.dev]
      <4>1. ValNext(p)[c.dev] = ~ val[p][c.dev] /\ UpdateRelay(row, c).val[c.dev] = (c.op = "ON")
        BY <1>0, <3>2, <3>3, <3>5 DEF Flags, Device
      <4> QED BY <3>3, <4>1
    <3>7. \A d \in Relay : d # c.dev => ValNext(p)[d] = UpdateRelay(row, c).val[d]
      BY <1>0, <3>2, <3>5 DEF SameRelays, Flags, Device
    <3> QED BY <2>2, <2>3, <2>5, <3>2, <3>6, <3>7 DEF AuxNext, SameRelays
  <2> QED BY <2>4, <2>5
<1> QED BY <1>1, <1>2

LEMMA CopyScreen ==
    ASSUME TypeOK, CopyInv, NEW p \in Phone,
           Resume(p) \/ ResumeFails(p) \/ Pause(p) \/ Destroy(p)
    PROVE  CopyInv'
<1> USE DEF CopyInv, request, house, counts, history
<1>0. stage[p] = "idle"
  BY DEF Resume, ResumeFails, Pause, Destroy, PendingShown, TypeOK
<1>1. CASE Resume(p)
  <2>1. PendingShown' /\ SwitchOpposes'
    BY <1>0, <1>1 DEF Resume, PendingShown, SwitchOpposes, TypeOK
  <2>2. \A q \in Phone : q # p =>
           /\ aux'[q] = aux[q] /\ val'[q] = val[q]
           /\ alone'[q] = alone[q] /\ screen'[q] = screen[q]
    BY <1>1 DEF Resume, TypeOK
  <2>3. aux'[p] = row.aux /\ val'[p] = row.val
    BY <1>1 DEF Resume, TypeOK
  <2>4. stage' = stage /\ row' = row /\ ask' = ask
    BY <1>1 DEF Resume
  <2>5. CopyTold'
    BY <1>0, <2>2, <2>3, <2>4 DEF CopyTold, SameRelays, AuxNext, ValNext
  <2> QED BY <2>1, <2>5
<1>2. CASE ResumeFails(p) \/ Pause(p) \/ Destroy(p)
  <2>1. UNCHANGED <<val, aux, ask, stage, row, alone>>
    BY <1>2 DEF ResumeFails, Pause, Destroy
  <2>2. \A q \in Phone : /\ q # p => screen'[q] = screen[q]
                         /\ screen'[q] # "none" => screen[q] # "none"
    BY <1>2 DEF ResumeFails, Pause, Destroy, TypeOK
  <2> QED BY <1>0, <2>1, <2>2
          DEF PendingShown, SwitchOpposes, CopyTold, SameRelays, AuxNext, ValNext
<1> QED BY <1>1, <1>2

LEMMA CopyClick ==
    ASSUME TypeOK, CopyInv, NEW p \in Phone, NEW d \in Panel, ClickSwitch(p, d) \/ ClickToggle(p, d)
    PROVE  CopyInv'
<1> USE DEF CopyInv, house
<1>1. UNCHANGED <<screen, val, aux, row, alone>>
  BY DEF ClickSwitch, ClickToggle, app
<1>2. CASE UNCHANGED <<ask, stage>>
  BY <1>1, <1>2 DEF PendingShown, SwitchOpposes, CopyTold, SameRelays, AuxNext, ValNext
<1>3. ASSUME NEW c, Ask(p, c), Ready(p),
             c.dev \in Relay /\ ~ Toggles(c) => (c.op = "ON" <=> ~ val[p][c.dev])
      PROVE  CopyInv'
  <2>1. ask'[p] = c /\ stage'[p] = "asked"
    BY <1>3 DEF Ask, TypeOK
  <2>2. \A q \in Phone : q # p => ask'[q] = ask[q] /\ stage'[q] = stage[q]
    BY <1>3 DEF Ask, TypeOK
  <2>3. screen[p] = "shown" /\ stage[p] = "idle"
    BY <1>3 DEF Ready
  <2>4. PendingShown'
    BY <1>1, <2>2, <2>3 DEF PendingShown
  <2>5. SwitchOpposes'
    BY <1>1, <1>3, <2>1, <2>2 DEF SwitchOpposes
  <2>6. CopyTold'
    <3> SUFFICES ASSUME NEW q \in Phone, screen'[q] # "none", alone'[q]
                 PROVE  /\ stage'[q] # "recorded" => aux'[q] = row'.aux /\ SameRelays(val'[q], row'.val)
                        /\ stage'[q] = "recorded" => AuxNext(q)' = row'.aux /\ SameRelays(ValNext(q)', row'.val)
      BY DEF CopyTold, SameRelays
    <3>1. CASE q = p
      BY <1>1, <2>1, <2>3, <3>1 DEF CopyTold
    <3>2. CASE q # p
      BY <1>1, <2>2, <3>2 DEF CopyTold, AuxNext, ValNext
    <3> QED BY <3>1, <3>2
  <2> QED BY <2>4, <2>5, <2>6
<1>4. CASE ClickSwitch(p, d) /\ Operable(aux[p], d)
  <2> DEFINE c == SwitchCommand(p, d)
  <2>1. c.dev \in Relay => (c.op = "ON" <=> ~ val[p][c.dev])
    BY DEF SwitchCommand, Cmd, Relay
  <2>2. Ask(p, c) /\ Ready(p)
    BY <1>4 DEF ClickSwitch
  <2> HIDE DEF c
  <2> QED BY <1>3, <2>1, <2>2
<1>5. CASE ClickSwitch(p, d) /\ ~ Operable(aux[p], d)
  BY <1>2, <1>5 DEF ClickSwitch
<1>6. CASE ClickToggle(p, d)
  <2> DEFINE c == Cmd(d, IF d = "MOTOR" THEN "OF" ELSE "AU")
  <2>1. Toggles(c)
    BY DEF Toggles, Cmd
  <2>2. Ask(p, c) /\ Ready(p)
    BY <1>6 DEF ClickToggle
  <2> HIDE DEF c
  <2> QED BY <1>3, <2>1, <2>2
<1> QED BY <1>4, <1>5, <1>6

LEMMA CopyAnswer ==
    ASSUME TypeOK, CopyInv, NEW p \in Phone, Answer(p) \/ AnswerLost(p)
    PROVE  CopyInv'
<1> USE DEF CopyInv, history, house
<1>0. /\ stage'[p] = "idle" /\ row' = row
      /\ \A q \in Phone : q # p => ask'[q] = ask[q] /\ stage'[q] = stage[q]
  BY DEF Answer, AnswerLost, TypeOK
<1>1. CASE Answer(p)
  <2>0. screen' = screen /\ alone' = alone /\ stage[p] = "recorded"
    BY <1>1 DEF Answer
  <2>1. aux'[p] = AuxNext(p) /\ val'[p] = ValNext(p)
    <3>1. CASE Toggles(ask[p])
      <4>1. aux' = [aux EXCEPT ![p][ask[p].dev] = ~ @] /\ val' = val
        BY <1>1, <3>1, Zenon DEF Answer, ToggleAnswered, SwitchAnswered
      <4> QED BY <3>1, <4>1 DEF AuxNext, ValNext, TypeOK
    <3>2. CASE ~ Toggles(ask[p])
      <4>1. val' = [val EXCEPT ![p][ask[p].dev] = ~ @] /\ aux' = aux
        BY <1>1, <3>2, Zenon DEF Answer, ToggleAnswered, SwitchAnswered
      <4> QED BY <3>2, <4>1 DEF AuxNext, ValNext, TypeOK
    <3> QED BY <3>1, <3>2
  <2>2. \A q \in Phone : q # p => aux'[q] = aux[q] /\ val'[q] = val[q]
    BY <1>1 DEF Answer, ToggleAnswered, SwitchAnswered, TypeOK
  <2>3. PendingShown'
    BY <1>0, <2>0 DEF PendingShown
  <2>4. SwitchOpposes'
    BY <1>0, <2>2 DEF SwitchOpposes
  <2>5. CopyTold'
    <3> SUFFICES ASSUME NEW q \in Phone, screen'[q] # "none", alone'[q]
                 PROVE  /\ stage'[q] # "recorded" => aux'[q] = row'.aux /\ SameRelays(val'[q], row'.val)
                        /\ stage'[q] = "recorded" => AuxNext(q)' = row'.aux /\ SameRelays(ValNext(q)', row'.val)
      BY DEF CopyTold, SameRelays
    <3>1. CASE q = p
      BY <1>0, <2>0, <2>1, <3>1 DEF CopyTold
    <3>2. CASE q # p
      BY <1>0, <2>0, <2>2, <3>2 DEF CopyTold, AuxNext, ValNext
    <3> QED BY <3>1, <3>2
  <2> QED BY <2>3, <2>4, <2>5
<1>2. CASE AnswerLost(p)
  <2>1. val' = val /\ aux' = aux /\ ~ alone'[p]
    BY <1>2 DEF AnswerLost, TypeOK
  <2>2. \A q \in Phone : q # p => screen'[q] = screen[q] /\ alone'[q] = alone[q]
    BY <1>2 DEF AnswerLost, TypeOK
  <2>3. PendingShown' /\ SwitchOpposes'
    BY <1>0, <2>1, <2>2 DEF PendingShown, SwitchOpposes
  <2>4. CopyTold'
    <3> SUFFICES ASSUME NEW q \in Phone, screen'[q] # "none", alone'[q]
                 PROVE  /\ stage'[q] # "recorded" => aux'[q] = row'.aux /\ SameRelays(val'[q], row'.val)
                        /\ stage'[q] = "recorded" => AuxNext(q)' = row'.aux /\ SameRelays(ValNext(q)', row'.val)
      BY DEF CopyTold, SameRelays
    <3> QED BY <1>0, <2>1, <2>2 DEF CopyTold, AuxNext, ValNext
  <2> QED BY <2>3, <2>4
<1> QED BY <1>1, <1>2

LEMMA CopyPlatform ==
    ASSUME TypeOK, CopyInv, NEW p \in Phone,
           Assign(p) \/ Execute(p) \/ ExecuteFails(p) \/ Record(p) \/ RecordFails(p)
    PROVE  CopyInv'
<1> USE DEF CopyInv, history, house, app, Serve
<1>0. /\ UNCHANGED <<screen, val, aux, ask>>
      /\ stage[p] # "idle" /\ stage'[p] # "idle"
      /\ \A q \in Phone : q # p => stage'[q] = stage[q]
  BY DEF Assign, Execute, ExecuteFails, Record, RecordFails, TypeOK
<1>1. PendingShown' /\ SwitchOpposes'
  BY <1>0 DEF PendingShown, SwitchOpposes
<1>2. CASE Assign(p) \/ Execute(p) \/ ExecuteFails(p)
  <2>1. stage[p] # "recorded" /\ stage'[p] # "recorded" /\ row' = row /\ alone' = alone
    BY <1>2 DEF Assign, Execute, ExecuteFails, Obey, TypeOK
  <2>2. CopyTold'
    BY <1>0, <2>1 DEF CopyTold, SameRelays, AuxNext, ValNext
  <2> QED BY <1>1, <2>2
<1>3. CASE Record(p)
  <2>1. /\ stage[p] = "executed" /\ stage'[p] = "recorded"
        /\ row' = Update(row, ask[p]) /\ ask[p] \in Command
    BY <1>3 DEF Record, TypeOK
  <2>2. \A q \in Phone : alone'[q] => q = p /\ alone[q]
    BY <1>3, Zenon DEF Record
  <2>3. alone[p] => AuxNext(p) = row'.aux /\ SameRelays(ValNext(p), row'.val)
    BY <1>0, <2>1, UpdateTold DEF CopyTold, PendingShown, SwitchOpposes
  <2>4. CopyTold'
    BY <1>0, <2>1, <2>2, <2>3 DEF CopyTold, SameRelays, AuxNext, ValNext
  <2> QED BY <1>1, <2>4
<1>4. CASE RecordFails(p)
  <2>1. row' = row /\ ~ alone'[p] /\ \A q \in Phone : q # p => alone'[q] = alone[q]
    BY <1>4 DEF RecordFails, TypeOK
  <2>2. CopyTold'
    BY <1>0, <2>1 DEF CopyTold, SameRelays, AuxNext, ValNext
  <2> QED BY <1>1, <2>2
<1> QED BY <1>2, <1>3, <1>4

LEMMA CopyLate ==
    ASSUME TypeOK, CopyInv, NEW j \in late,
           LateAssign(j) \/ LateExecute(j) \/ LateRecord(j) \/ LateEnds(j)
    PROVE  CopyInv'
<1> USE DEF CopyInv, history, house, app, ServeLate
<1>1. UNCHANGED <<screen, val, aux, ask, stage>>
  BY DEF LateAssign, LateExecute, LateRecord, LateEnds
<1>2. (row' = row /\ alone' = alone) \/ \A q \in Phone : ~ alone'[q]
  BY DEF LateAssign, LateExecute, LateRecord, LateEnds, Obey
<1>3. PendingShown' /\ SwitchOpposes'
  BY <1>1 DEF PendingShown, SwitchOpposes
<1>4. CopyTold'
  BY <1>1, <1>2 DEF CopyTold, SameRelays, AuxNext, ValNext
<1> QED BY <1>3, <1>4

\* For any number of apps, an idle screen agrees with the row unless another app
\* or a failure came between: the flips in the handlers mirror the UPDATEs.
THEOREM ScreensAgree == Spec => []ScreenAgrees
<1>1. Init => CopyInv
  BY DEF Init, CopyInv, PendingShown, SwitchOpposes, CopyTold
<1>2. TypeOK /\ CopyInv /\ [Next]_vars => CopyInv'
  <2> SUFFICES ASSUME TypeOK, CopyInv, [Next]_vars PROVE CopyInv'
    OBVIOUS
  <2>1. CASE UNCHANGED vars
    BY SMTT(40), <2>1 DEF CopyInv, PendingShown, SwitchOpposes, CopyTold, SameRelays, AuxNext, ValNext,
                vars, app, request, house, history
  <2>2. CASE Next
    BY <2>2, CopyScreen, CopyClick, CopyAnswer, CopyPlatform, CopyLate DEF Next
  <2> QED BY <2>1, <2>2
<1>3. CopyInv => ScreenAgrees
  BY DEF CopyInv, CopyTold, ScreenAgrees, SameRelays
<1> QED BY <1>1, <1>2, <1>3, TypeCorrect, PTL DEF Spec

-----------------------------------------------------------------------------
(* The row's claim of auto mode.  A clean history has one request at a      *)
(* time, whose payload is its own, and a manual command in it is for a      *)
(* relay that the row has in manual mode.                                  *)

OneRequest == \A p, q \in Phone : stage[p] # "idle" /\ stage[q] # "idle" => p = q

OwnPayload == \A p \in Phone : stage[p] = "assigned" => payload = ask[p]

ManualAllowed ==
    \A p \in Phone :
        stage[p] \in {"asked", "assigned", "executed"} /\ ask[p] \in RelayCommand =>
            /\ ask[p].op # "AU" => ~ row.aux[ask[p].dev]
            /\ stage[p] = "executed" /\ ask[p].op = "AU" => mode[ask[p].dev]

AutoTrue == \A d \in Relay : row.aux[d] => mode[d]

CleanInv == clean => late = {} /\ OneRequest /\ OwnPayload /\ ManualAllowed /\ AutoTrue

LEMMA CleanSame ==
    ASSUME CleanInv, clean' => clean, UNCHANGED <<ask, stage, late, payload, row, mode>>
    PROVE  CleanInv'
BY DEF CleanInv, OneRequest, OwnPayload, ManualAllowed, AutoTrue

LEMMA CleanAsk ==
    ASSUME TypeOK, CleanInv, NEW p \in Phone, NEW c \in Command, Ask(p, c),
           UNCHANGED <<late, payload, row, mode>>,
           c \in RelayCommand /\ c.op # "AU" => ~ aux[p][c.dev]
    PROVE  CleanInv'
<1> SUFFICES ASSUME clean' PROVE CleanInv'
  BY DEF CleanInv
<1>1. clean /\ aux[p] = row.aux /\ \A q \in Phone : stage[q] = "idle"
  BY DEF Ask
<1>2. ask'[p] = c /\ stage'[p] = "asked" /\ \A q \in Phone : q # p => stage'[q] = "idle"
  BY <1>1 DEF Ask, TypeOK
<1>3. late' = {} /\ AutoTrue'
  BY <1>1 DEF CleanInv, AutoTrue
<1>4. OneRequest' /\ OwnPayload'
  BY <1>2 DEF OneRequest, OwnPayload
<1>5. ManualAllowed'
  BY <1>1, <1>2 DEF ManualAllowed
<1> QED BY <1>3, <1>4, <1>5 DEF CleanInv

LEMMA CleanClick ==
    ASSUME TypeOK, CleanInv, NEW p \in Phone, NEW d \in Panel, ClickSwitch(p, d) \/ ClickToggle(p, d)
    PROVE  CleanInv'
<1>1. UNCHANGED <<late, payload, row, mode>>
  BY DEF ClickSwitch, ClickToggle, house
<1>2. CASE ClickSwitch(p, d) /\ Operable(aux[p], d)
  <2> DEFINE c == SwitchCommand(p, d)
  <2>1. Ask(p, c)
    BY <1>2 DEF ClickSwitch
  <2>2. c \in RelayCommand /\ c.op # "AU" => ~ aux[p][c.dev]
    BY <1>2 DEF SwitchCommand, Cmd, Operable, RelayCommand, Relay
  <2>3. c \in Command
    BY SwitchCommandType, PanelAssumption
  <2> HIDE DEF c
  <2> QED BY <1>1, <2>1, <2>2, <2>3, CleanAsk
<1>3. CASE ClickSwitch(p, d) /\ ~ Operable(aux[p], d)
  BY <1>1, <1>3, CleanSame DEF ClickSwitch
<1>4. CASE ClickToggle(p, d)
  <2> DEFINE c == Cmd(d, IF d = "MOTOR" THEN "OF" ELSE "AU")
  <2>1. Ask(p, c)
    BY <1>4 DEF ClickToggle
  <2>2. c \in RelayCommand => c.op = "AU"
    BY DEF Cmd, RelayCommand, Relay
  <2>3. c \in Command
    BY ToggleCommandType, PanelAssumption
  <2> HIDE DEF c
  <2> QED BY <1>1, <2>1, <2>2, <2>3, CleanAsk
<1> QED BY <1>2, <1>3, <1>4

LEMMA CleanAnswer ==
    ASSUME TypeOK, CleanInv, NEW p \in Phone, Answer(p) \/ AnswerLost(p)
    PROVE  CleanInv'
<1> SUFFICES ASSUME clean' PROVE CleanInv'
  BY DEF CleanInv
<1>1. Answer(p) /\ clean
  BY DEF Answer, AnswerLost, history
<1>2. /\ stage'[p] = "idle"
      /\ \A q \in Phone : q # p => stage'[q] = stage[q] /\ ask'[q] = ask[q]
  BY <1>1 DEF Answer, TypeOK
<1>3. UNCHANGED <<late, payload, row, mode>>
  BY <1>1 DEF Answer, house
<1>4. OneRequest' /\ OwnPayload' /\ ManualAllowed'
  BY <1>1, <1>2, <1>3 DEF CleanInv, OneRequest, OwnPayload, ManualAllowed
<1> QED BY <1>1, <1>3, <1>4 DEF CleanInv, AutoTrue

\* The UPDATE puts a relay in auto mode only if the gateway has it there.
LEMMA RecordTrue ==
    ASSUME TypeOK, AutoTrue, NEW p \in Phone, stage[p] = "executed", ManualAllowed,
           ask[p] \in Command
    PROVE  \A d \in Relay : Update(row, ask[p]).aux[d] => mode[d]
<1> DEFINE c == ask[p]
<1>0. row \in Row /\ row.aux \in Flags
  BY DEF TypeOK, Row, Flags
<1>1. CASE c.dev = "MOTOR"
  <2>1. Update(row, c) = UpdateMotor(row, c)
    BY <1>1 DEF Update
  <2>2. \A d \in Relay : d # "MOTOR"
    BY DEF Relay
  <2>3. \A d \in Relay : UpdateMotor(row, c).aux[d] = row.aux[d]
    BY <1>0, <2>2 DEF UpdateMotor, Row, Flags, Device
  <2> QED BY <2>1, <2>3 DEF AutoTrue
<1>2. CASE c.dev # "MOTOR"
  <2>1. c \in RelayCommand
    BY <1>2 DEF Command, MotorCommand
  <2>2. Update(row, c) = UpdateRelay(row, c)
    BY <1>2 DEF Update
  <2>3. CASE c.op = "AU"
    <3>1. mode[c.dev]
      BY <2>1, <2>3 DEF ManualAllowed
    <3>2. UpdateRelay(row, c).aux = [row.aux EXCEPT ![c.dev] = ~ @]
      BY <1>0, <2>3 DEF UpdateRelay, Row
    <3>3. \A d \in Relay : d # c.dev => UpdateRelay(row, c).aux[d] = row.aux[d]
      BY <1>0, <3>2 DEF Flags, Device
    <3> QED BY <2>2, <3>1, <3>3 DEF AutoTrue
  <2>4. CASE c.op # "AU"
    <3>1. UpdateRelay(row, c).aux = row.aux
      BY <1>0, <2>4 DEF UpdateRelay, Row
    <3> QED BY <2>2, <3>1 DEF AutoTrue
  <2> QED BY <2>3, <2>4
<1> QED BY <1>1, <1>2

LEMMA CleanPlatform ==
    ASSUME TypeOK, CleanInv, NEW p \in Phone,
           Assign(p) \/ Execute(p) \/ ExecuteFails(p) \/ Record(p) \/ RecordFails(p)
    PROVE  CleanInv'
<1> USE DEF Serve, app, house, history
<1> SUFFICES ASSUME clean' PROVE CleanInv'
  BY DEF CleanInv
<1>0. clean
  BY DEF Assign, Execute, ExecuteFails, Record, RecordFails
<1>1. /\ UNCHANGED <<ask, late>>
      /\ stage[p] # "idle" /\ ask[p] \in Command
      /\ \A q \in Phone : q # p => stage'[q] = stage[q] /\ stage[q] = "idle"
  BY <1>0 DEF Assign, Execute, ExecuteFails, Record, RecordFails, TypeOK, CleanInv, OneRequest
<1>2. OneRequest'
  BY <1>1 DEF OneRequest
<1>3. CASE Assign(p)
  <2>1. stage[p] = "asked" /\ stage'[p] = "assigned" /\ payload' = ask[p] /\ UNCHANGED <<row, mode>>
    BY <1>3 DEF Assign, TypeOK
  <2>2. OwnPayload' /\ ManualAllowed'
    BY <1>0, <1>1, <2>1 DEF OwnPayload, ManualAllowed, CleanInv
  <2> QED BY <1>0, <1>1, <1>2, <2>1, <2>2 DEF CleanInv, AutoTrue
<1>4. CASE Execute(p)
  <2> DEFINE c == ask[p]
  <2>1. stage[p] = "assigned" /\ stage'[p] = "executed" /\ UNCHANGED <<row, payload>> /\ Obey(c)
    BY ZenonT(40), <1>0, <1>4 DEF Execute, TypeOK, CleanInv, OwnPayload, Obey
  <2>2. OwnPayload'
    BY <1>1, <2>1 DEF OwnPayload
  <2>3. CASE c \in RelayCommand
    <3>1. mode' = [mode EXCEPT ![c.dev] = (c.op = "AU")] /\ c.dev \in Relay
      BY <2>1, <2>3 DEF Obey, RelayCommand
    <3>2. c.op = "AU" => mode'[c.dev]
      BY <3>1 DEF TypeOK
    <3>3. \A d \in Relay : d # c.dev => mode'[d] = mode[d]
      BY <3>1 DEF TypeOK
    <3>4. c.op # "AU" => ~ row.aux[c.dev]
      BY <1>0, <2>1, <2>3 DEF CleanInv, ManualAllowed
    <3>5. ManualAllowed'
      BY <1>1, <2>1, <3>2, <3>4 DEF ManualAllowed
    <3>6. AutoTrue'
      BY <1>0, <2>1, <3>2, <3>3, <3>4 DEF CleanInv, AutoTrue
    <3> QED BY <1>0, <1>1, <1>2, <2>2, <3>5, <3>6 DEF CleanInv
  <2>4. CASE c \notin RelayCommand
    <3>1. mode' = mode
      BY <2>1, <2>4 DEF Obey
    <3>2. ManualAllowed' /\ AutoTrue'
      BY <1>0, <1>1, <2>1, <2>4, <3>1 DEF CleanInv, ManualAllowed, AutoTrue
    <3> QED BY <1>0, <1>1, <1>2, <2>2, <3>2 DEF CleanInv
  <2> QED BY <2>3, <2>4
<1>5. CASE Record(p)
  <2>1. /\ stage[p] = "executed" /\ stage'[p] = "recorded" /\ row' = Update(row, ask[p])
        /\ UNCHANGED <<payload, mode>>
    BY <1>5 DEF Record, TypeOK
  <2>2. AutoTrue'
    BY <1>0, <1>1, <2>1, RecordTrue DEF CleanInv, AutoTrue
  <2>3. OwnPayload' /\ ManualAllowed'
    BY <1>1, <2>1 DEF OwnPayload, ManualAllowed
  <2> QED BY <1>0, <1>1, <1>2, <2>2, <2>3 DEF CleanInv
<1>6. CASE ExecuteFails(p) \/ RecordFails(p)
  BY <1>6 DEF ExecuteFails, RecordFails
<1> QED BY <1>3, <1>4, <1>5, <1>6

\* As long as nothing fails, requests do not overlap and no stale screen is
\* used, the row never claims auto mode for a relay in manual mode.
THEOREM AutoClaimCorrect == Spec => []AutoClaimIsTrue
<1>1. Init => CleanInv
  BY DEF Init, CleanInv, OneRequest, OwnPayload, ManualAllowed, AutoTrue, InitRow, Device
<1>2. TypeOK /\ CleanInv /\ [Next]_vars => CleanInv'
  <2> SUFFICES ASSUME TypeOK, CleanInv, [Next]_vars PROVE CleanInv'
    OBVIOUS
  <2>1. CASE UNCHANGED vars
    BY <2>1, CleanSame DEF vars, request, house, history
  <2>2. ASSUME NEW p \in Phone, Resume(p) \/ ResumeFails(p) \/ Pause(p) \/ Destroy(p)
        PROVE  CleanInv'
    BY <2>2, CleanSame DEF Resume, ResumeFails, Pause, Destroy, request, house, history
  <2>3. ASSUME NEW j \in late, LateAssign(j) \/ LateExecute(j) \/ LateRecord(j) \/ LateEnds(j)
        PROVE  CleanInv'
    <3>1. ~ clean /\ clean' = clean
      BY <2>3 DEF CleanInv, LateAssign, LateExecute, LateRecord, LateEnds, ServeLate, history
    <3> QED BY <3>1 DEF CleanInv
  <2>4. CASE Next
    BY <2>2, <2>3, <2>4, CleanClick, CleanAnswer, CleanPlatform DEF Next
  <2> QED BY <2>1, <2>4
<1>3. CleanInv => AutoClaimIsTrue
  BY DEF CleanInv, AutoTrue, AutoClaimIsTrue
<1> QED BY <1>1, <1>2, <1>3, TypeCorrect, PTL DEF Spec
=============================================================================
