------------------------- MODULE ModuleMain_proofs -------------------------
(***************************************************************************)
(* What holds of the gateway for any number of CoAP threads, any delay of  *)
(* the motor timers, any sensor records and any number of failed writes.   *)
(***************************************************************************)
EXTENDS ModuleMain, TLAPS

-----------------------------------------------------------------------------
(* Lemmas on the operators.                                                *)

LEMMA CommandOps ==
    ASSUME NEW c \in Command
    PROVE  /\ c.dev \in Device
           /\ c.op \in {"ON", "OF", "AU", "LE", "RI"}
           /\ c.dev \in Relay => c \in RelayCommand
           /\ Running(c.op) => c.dev = "MOTOR"
BY DEF Command, RelayCommand, MotorCommand, Device, Relay, Running

LEMMA CmdTypes ==
    /\ \A d \in Relay, o \in {"ON", "OF", "AU"} : Cmd(d, o) \in RelayCommand
    /\ Cmd("MOTOR", "OF") \in MotorCommand
BY DEF Cmd, RelayCommand, MotorCommand

\* A decision is about the device it is taken for.
LEMMA DecisionType ==
    ASSUME NEW d \in Relay, Decision(d) # NoCommand
    PROVE  Decision(d) \in RelayCommand /\ Decision(d).dev = d /\ flag[d]
                /\ Decision(d).op \in {"ON", "OF"}
BY CmdTypes DEF Decision, AutoLight, AutoHitte, AutoHumid, Cmd, NoCommand, Relay

LEMMA LatestType ==
    ASSUME NEW b \in Batch, NEW hits \in SUBSET DOMAIN b, NEW old \in Nat
    PROVE  Latest(b, hits, old) \subseteq Nat
<1>1. b \in Seq(Record)
  BY BatchAssumption
<1>2. \A i \in DOMAIN b : b[i] \in Record
  BY <1>1
<1>3. \A i \in DOMAIN b : b[i].val \in Nat
  BY <1>2 DEF Record
<1> QED BY <1>3 DEF Latest

-----------------------------------------------------------------------------
(* Type correctness, with what the reader and the CoAP threads hold while  *)
(* they are at a step: a decision is for the device under examination, and *)
(* a thread that is to create a timer has just started the motor.          *)

WantInv ==
    want # NoCommand => /\ se \in Relay /\ want.dev = se
                        /\ want.op \in {"ON", "OF"}

MsgInv == \A p \in Pusher : pp[p] # "idle" => msg[p] \in Command

Typed == TypeOK /\ WantInv /\ MsgInv

LEMMA InitTyped == Init => Typed
<1> SUFFICES ASSUME Init PROVE Typed
  OBVIOUS
<1>1. flag \in [Relay -> BOOLEAN] /\ stale \in [Relay -> Nat]
  BY DEF Init
<1>2. line \in [Device -> {"none", "ON", "OF", "LE", "RI"}]
  BY DEF Init
<1>3. age \in 0 .. MTime /\ timers \in Seq(0 .. MTime)
  BY BoundAssumption DEF Init
<1>4. WantInv /\ MsgInv
  BY DEF Init, WantInv, MsgInv
<1> QED BY <1>1, <1>2, <1>3, <1>4 DEF Init, Typed, TypeOK

LEMMA PushTyped ==
    ASSUME Typed, NEW p \in Pusher,
           Push(p) \/ \E c \in Offered : PushBegin(p, c)
    PROVE  Typed'
<1> USE DEF Typed, TypeOK, WantInv, MsgInv, fields, reader, pushers, counts,
            history, PushEnd
<1>1. ASSUME NEW c \in Offered, PushBegin(p, c) PROVE Typed'
  <2>1. c \in Command
    BY OfferedAssumption
  <2>2. flag' \in [Relay -> BOOLEAN]
    <3>1. \/ flag' = flag
          \/ flag' = [flag EXCEPT ![c.dev] = TRUE]
          \/ flag' = [flag EXCEPT ![c.dev] = FALSE]
      BY <1>1 DEF PushBegin
    <3> QED BY <3>1, Zenon
  <2>3. stale' \in [Relay -> Nat]
    BY <1>1 DEF PushBegin
  <2> QED BY <1>1, <2>1, <2>2, <2>3 DEF PushBegin
<1>2. CASE PushRejected(p)
  BY <1>2 DEF PushRejected
<1>3. CASE PushWrite(p)
  <2>1. msg[p] \in Command
    BY <1>3 DEF PushWrite
  <2>2. line' \in [Device -> {"none", "ON", "OF", "LE", "RI"}]
    BY <1>3, <2>1, CommandOps DEF PushWrite, WriteOK, Tell
  <2>3. overridden' \in BOOLEAN
    <3>1. overridden' = (overridden \/ (msg[p].dev = "LIGHT" /\ msg[p].op # "AU"))
      BY <1>3, Zenon DEF PushWrite
    <3> QED BY <3>1, Zenon
  <2>4. age' \in 0 .. MTime /\ stopFailed' \in BOOLEAN
    <3>1. \/ age' = 0 /\ stopFailed' = FALSE
          \/ age' = age /\ stopFailed' = stopFailed
      BY <1>3, Zenon DEF PushWrite
    <3>2. stopFailed' \in BOOLEAN
      BY <3>1, Zenon
    <3>3. age' \in 0 .. MTime
      BY <3>1, BoundAssumption
    <3> QED BY <3>2, <3>3
  <2>5. /\ pp' \in [Pusher -> {"idle", "write", "timer"}]
        /\ msg' \in [Pusher -> Command \cup {NoCommand}]
        /\ MsgInv'
    BY <1>3, <2>1 DEF PushWrite
  <2>6. UNCHANGED <<fields, hour, reader, timers, pushes, stale, fails>>
    BY <1>3 DEF PushWrite, WriteOK
  <2> QED BY <2>2, <2>3, <2>4, <2>5, <2>6
<1>4. CASE PushWriteFails(p)
  BY <1>4 DEF PushWriteFails, WriteFails
<1>5. CASE PushTimer(p)
  BY <1>5, BoundAssumption DEF PushTimer
<1> QED BY <1>1, <1>2, <1>3, <1>4, <1>5 DEF Push

LEMMA TimerTyped ==
    ASSUME Typed, Tick \/ TimerFires
    PROVE  Typed'
<1> USE DEF Typed, TypeOK, WantInv, MsgInv, fields, reader, pushers, counts, history
<1>1. CASE Tick
  <2>1. timers' \in Seq(0 .. MTime)
    <3>1. timers' = [i \in 1 .. Len(timers) |-> timers[i] - 1]
      BY <1>1 DEF Tick
    <3>2. \A i \in 1 .. Len(timers) : timers[i] - 1 \in 0 .. MTime
      BY <1>1, BoundAssumption DEF Tick
    <3>3. Len(timers) \in Nat
      OBVIOUS
    <3> HIDE DEF Typed, TypeOK, WantInv, MsgInv
    <3> QED BY <3>1, <3>2, <3>3
  <2>2. age' \in 0 .. MTime
    BY <1>1, BoundAssumption DEF Tick
  <2> QED BY <1>1, <2>1, <2>2 DEF Tick
<1>2. CASE TimerFires
  <2>1. timers' \in Seq(0 .. MTime)
    BY <1>2 DEF TimerFires
  <2>2. line' \in [Device -> {"none", "ON", "OF", "LE", "RI"}] /\ fails' \in Nat
    BY SMTT(40), <1>2 DEF TimerFires, WriteOK, WriteFails, Tell, Cmd
  <2>3. stopFailed' \in BOOLEAN
    BY <1>2 DEF TimerFires
  <2> QED BY <1>2, <2>1, <2>2, <2>3 DEF TimerFires
<1> QED BY <1>1, <1>2

LEMMA ReaderTyped ==
    ASSUME Typed, SerialEvent \/ \E b \in Batch : ReadEvent(b)
    PROVE  Typed'
<1> USE DEF Typed, TypeOK, WantInv, MsgInv, fields, pushers, counts, history
<1>1. ASSUME NEW b \in Batch, ReadEvent(b) PROVE Typed'
  <2>1. /\ {i \in Parsed(b) : IsT1(b[i])} \subseteq DOMAIN b
        /\ {i \in Parsed(b) : IsT2(b[i])} \subseteq DOMAIN b
        /\ {i \in Parsed(b) : IsH(b[i])} \subseteq DOMAIN b
    BY DEF Parsed
  <2>2. t1' \in Nat /\ t2' \in Nat /\ h' \in Nat
    BY <1>1, <2>1, LatestType DEF ReadEvent
  <2>3. want = NoCommand
    BY <1>1 DEF ReadEvent, Relay
  <2> QED BY <1>1, <2>2, <2>3 DEF ReadEvent
<1>2. CASE PutEnds
  BY <1>2 DEF PutEnds, Relay
<1>3. CASE AutoCheck
  <2>1. se \in Relay /\ want' = Decision(se)
    BY <1>3 DEF AutoCheck
  <2>2. want' \in RelayCommand \cup {NoCommand}
    BY <2>1, DecisionType
  <2>3. se' \in {"idle", "put"} \cup Relay
    BY <1>3, <2>1 DEF AutoCheck, After, Relay
  <2>4. WantInv'
    BY <1>3, <2>1, DecisionType DEF AutoCheck
  <2> QED BY <1>3, <2>2, <2>3, <2>4 DEF AutoCheck
<1>4. CASE AutoWrite
  <2>1. se \in Relay /\ want.dev = se /\ want.op \in {"ON", "OF"}
    BY <1>4 DEF AutoWrite
  <2>2. line' \in [Device -> {"none", "ON", "OF", "LE", "RI"}]
    BY <1>4, <2>1 DEF AutoWrite, WriteOK, Tell
  <2>3. stale' \in [Relay -> Nat]
    BY <1>4 DEF AutoWrite
  <2>4. light' \in {0, 1} /\ overridden' \in BOOLEAN
    BY <1>4 DEF AutoWrite
  <2>5. se' \in {"idle", "put"} \cup Relay
    BY <1>4, <2>1 DEF AutoWrite, After, Relay
  <2> QED BY <1>4, <2>2, <2>3, <2>4, <2>5 DEF AutoWrite, WriteOK
<1>5. CASE AutoWriteFails
  BY <1>5 DEF AutoWriteFails, WriteFails
<1> QED BY <1>1, <1>2, <1>3, <1>4, <1>5 DEF SerialEvent

LEMMA NextTyped == Typed /\ [Next]_vars => Typed'
<1> SUFFICES ASSUME Typed, [Next]_vars PROVE Typed'
  OBVIOUS
<1>1. CASE Initialize
  BY <1>1 DEF Initialize, Typed, TypeOK, WantInv, MsgInv, reader, pushers, counts, history
<1>2. CASE HourPasses
  BY <1>2 DEF HourPasses, Typed, TypeOK, WantInv, MsgInv, fields, reader, pushers,
              counts, history
<1>3. CASE UNCHANGED vars
  BY <1>3 DEF vars, Typed, TypeOK, WantInv, MsgInv, fields, reader, pushers,
              counts, history
<1> QED BY <1>1, <1>2, <1>3, PushTyped, TimerTyped, ReaderTyped DEF Next

THEOREM TypeInvariance == Spec => []Typed
BY InitTyped, NextTyped, PTL DEF Spec

\* Every variable of the gateway keeps values of its kind.
THEOREM TypeCorrect == Spec => []TypeOK
<1>1. Typed => TypeOK
  BY DEF Typed
<1> QED BY <1>1, TypeInvariance, PTL

-----------------------------------------------------------------------------
(* The race of push and serialEvent.  A stale write empties want, and want *)
(* is filled for a device only while its flag is set; so a write that is   *)
(* still to come after the flag was cleared is the first one.              *)

StaleInv ==
    \A d \in Relay :
        /\ stale[d] <= 1
        /\ flag[d] => stale[d] = 0
        /\ (want # NoCommand /\ se = d) => stale[d] = 0

LEMMA InitStale == Init => StaleInv
<1>1. Init => \A d \in Relay : stale[d] = 0
  BY DEF Init
<1>2. \A d \in Relay : stale[d] = 0 => stale[d] <= 1
  OBVIOUS
<1> QED BY <1>1, <1>2, Zenon DEF StaleInv

LEMMA NextStale == Typed /\ StaleInv /\ [Next]_vars => StaleInv'
<1> SUFFICES ASSUME Typed, StaleInv, [Next]_vars PROVE StaleInv'
  OBVIOUS
<1> USE DEF StaleInv
<1>0. /\ stale \in [Relay -> Nat] /\ flag \in [Relay -> BOOLEAN]
      /\ want # NoCommand => se \in Relay
  BY DEF Typed, TypeOK, WantInv
<1>1. ASSUME NEW p \in Pusher, NEW c \in Offered, PushBegin(p, c) PROVE StaleInv'
  <2>1. CASE c \in RelayCommand
    <3>1. c.dev \in Relay
      BY <2>1 DEF RelayCommand
    <3>2. flag' = [flag EXCEPT ![c.dev] = (c.op = "AU")]
      BY <1>1, <2>1 DEF PushBegin
    <3>3. stale' = IF flag'[c.dev] = flag[c.dev] THEN stale
                   ELSE [stale EXCEPT ![c.dev] = 0]
      BY <1>1, <2>1 DEF PushBegin
    <3>4. want' = want /\ se' = se
      BY <1>1 DEF PushBegin, reader
    <3>5. \A d \in Relay : d # c.dev => flag'[d] = flag[d] /\ stale'[d] = stale[d]
      BY <1>0, <3>1, <3>2, <3>3
    <3>6. CASE flag'[c.dev] = flag[c.dev]
      BY <1>0, <3>3, <3>4, <3>5, <3>6
    <3>7. CASE flag'[c.dev] # flag[c.dev]
      <4>1. stale'[c.dev] = 0
        BY <1>0, <3>1, <3>3, <3>7
      <4> QED BY <3>4, <3>5, <4>1
    <3> QED BY <3>6, <3>7
  <2>2. CASE c \notin RelayCommand
    BY <1>1, <2>2 DEF PushBegin, reader
  <2> QED BY <2>1, <2>2
<1>2. ASSUME NEW p \in Pusher, Push(p) PROVE StaleInv'
  BY <1>2 DEF Push, PushRejected, PushWrite, PushWriteFails, PushTimer,
              fields, reader, history
<1>3. CASE Initialize \/ Tick \/ TimerFires \/ HourPasses
  BY <1>3 DEF Initialize, Tick, TimerFires, HourPasses, fields, reader, history
<1>4. ASSUME NEW b \in Batch, ReadEvent(b) PROVE StaleInv'
  BY <1>0, <1>4 DEF ReadEvent, Relay, history
<1>5. CASE PutEnds
  BY <1>0, <1>5 DEF PutEnds, Relay, fields, history
<1>6. CASE AutoCheck
  BY <1>6, DecisionType DEF AutoCheck, fields, history
<1>7. CASE AutoWrite
  <2>1. se \in Relay /\ stale[se] = 0 /\ want' = NoCommand
    BY <1>0, <1>7 DEF AutoWrite
  <2>2. stale' = IF flag[se] THEN stale ELSE [stale EXCEPT ![se] = @ + 1]
    BY <1>7 DEF AutoWrite
  <2>3. flag' = flag
    BY <1>7 DEF AutoWrite
  <2> QED BY <1>0, <2>1, <2>2, <2>3
<1>8. CASE AutoWriteFails
  BY <1>8 DEF AutoWriteFails, fields, history
<1>9. CASE UNCHANGED vars
  BY <1>9 DEF vars, fields, reader, history
<1> QED BY <1>1, <1>2, <1>3, <1>4, <1>5, <1>6, <1>7, <1>8, <1>9
        DEF Next, SerialEvent

\* However the CoAP threads and the reader interleave, at most one automatic
\* command per device is written after manual mode was entered.
THEOREM OneStaleAtMost == Spec => []AtMostOneStale
<1>1. StaleInv => AtMostOneStale
  BY DEF StaleInv, AtMostOneStale
<1> QED BY <1>1, InitStale, NextStale, TypeInvariance, PTL DEF Spec

-----------------------------------------------------------------------------
(* A running motor is about to be stopped.                                 *)

LEMMA InitStop == Init => StopIsComing
BY DEF Init, StopIsComing, Running, Device, Relay

LEMMA NextStop == Typed /\ StopIsComing /\ [Next]_vars => StopIsComing'
<1> SUFFICES ASSUME Typed, StopIsComing, [Next]_vars PROVE StopIsComing'
  OBVIOUS
<1> USE DEF StopIsComing
<1>0. /\ timers \in Seq(0 .. MTime) /\ "MOTOR" \in Device
      /\ line \in [Device -> {"none", "ON", "OF", "LE", "RI"}]
      /\ pp \in [Pusher -> {"idle", "write", "timer"}]
      /\ \A p \in Pusher : pp[p] # "idle" => msg[p] \in Command
  BY DEF Typed, TypeOK, MsgInv, Device
<1>1. ASSUME NEW p \in Pusher, NEW c \in Offered, PushBegin(p, c) PROVE StopIsComing'
  BY <1>0, <1>1 DEF PushBegin
<1>2. ASSUME NEW p \in Pusher, PushRejected(p) \/ PushWriteFails(p) PROVE StopIsComing'
  BY <1>0, <1>2 DEF PushRejected, PushWriteFails, WriteFails, PushEnd, history
<1>3. ASSUME NEW p \in Pusher, PushWrite(p) PROVE StopIsComing'
  <2>1. msg[p] \in Command /\ timers' = timers
    BY <1>0, <1>3 DEF PushWrite
  <2>2. CASE Running(msg[p].op)
    BY <1>0, <1>3, <2>2 DEF PushWrite
  <2>3. CASE ~ Running(msg[p].op)
    <3>1. line'["MOTOR"] = line["MOTOR"] \/ ~ Running(line'["MOTOR"])
      BY <1>0, <1>3, <2>1, <2>3, CommandOps DEF PushWrite, WriteOK, Tell
    <3>2. /\ stopFailed' = stopFailed
          /\ pp' = [pp EXCEPT ![p] = "idle"]
      BY <1>3, <2>3 DEF PushWrite, PushEnd
    <3>3. pp[p] = "write"
      BY <1>3 DEF PushWrite
    <3> QED BY <1>0, <2>1, <3>1, <3>2, <3>3
  <2> QED BY <2>2, <2>3
<1>4. ASSUME NEW p \in Pusher, PushTimer(p) PROVE StopIsComing'
  <2>1. timers' = Append(timers, MTime)
    BY <1>4 DEF PushTimer
  <2>2. timers' # << >>
    BY <1>0, <2>1, BoundAssumption
  <2> QED BY <2>2
<1>5. CASE Tick
  BY <1>0, <1>5 DEF Tick, pushers
<1>6. CASE TimerFires
  <2>1. CASE WriteOK(Cmd("MOTOR", "OF"))
    BY <1>0, <2>1 DEF WriteOK, Tell, Cmd, Running
  <2>2. CASE stopFailed' = TRUE
    BY <2>2
  <2> QED BY <1>6, <2>1, <2>2 DEF TimerFires
<1>7. CASE AutoWrite
  <2>1. want.dev \in Relay
    BY <1>7 DEF AutoWrite, Typed, WantInv
  <2>2. line'["MOTOR"] = line["MOTOR"]
    BY <1>0, <1>7, <2>1 DEF AutoWrite, WriteOK, Tell, Relay
  <2> QED BY <1>7, <2>2 DEF AutoWrite, pushers
<1>8. CASE AutoWriteFails \/ AutoCheck \/ PutEnds \/ Initialize \/ HourPasses
  BY <1>8 DEF AutoWriteFails, WriteFails, AutoCheck, PutEnds, Initialize, HourPasses,
              pushers, history
<1>9. ASSUME NEW b \in Batch, ReadEvent(b) PROVE StopIsComing'
  BY <1>9 DEF ReadEvent, pushers, history
<1>10. CASE UNCHANGED vars
  BY <1>10 DEF vars, pushers, history
<1> QED BY <1>1, <1>2, <1>3, <1>4, <1>5, <1>6, <1>7, <1>8, <1>9, <1>10
        DEF Next, Push, SerialEvent

\* A motor that runs has a timer pending or about to be created, unless a stop
\* was lost to a failed write: for any number of overlapping starts and stops.
THEOREM StopGuaranteed == Spec => []StopIsComing
BY InitStop, NextStop, TypeInvariance, PTL DEF Spec

-----------------------------------------------------------------------------
(* The field light and the lamp.  A decision for the light is taken on the *)
(* value of the field, which no other thread writes, so it is still right  *)
(* when the command is written.                                            *)

LightInv == LightFieldIsRight

LEMMA InitLight == Init => LightInv
BY DEF Init, LightInv, LightFieldIsRight, Device, Relay

LEMMA NextLight == Typed /\ LightInv /\ [Next]_vars => LightInv'
<1> SUFFICES ASSUME Typed, LightInv, [Next]_vars PROVE LightInv'
  OBVIOUS
<1> USE DEF LightInv, LightFieldIsRight
<1>0. /\ line \in [Device -> {"none", "ON", "OF", "LE", "RI"}]
      /\ "LIGHT" \in Device
  BY DEF Typed, TypeOK, Device, Relay
<1>1. ASSUME NEW p \in Pusher, NEW c \in Offered, PushBegin(p, c) PROVE LightInv'
  BY <1>1 DEF PushBegin
<1>2. ASSUME NEW p \in Pusher, PushRejected(p) \/ PushWriteFails(p) \/ PushTimer(p)
      PROVE LightInv'
  BY <1>2 DEF PushRejected, PushWriteFails, PushTimer, WriteFails, fields, history
<1>3. ASSUME NEW p \in Pusher, PushWrite(p) PROVE LightInv'
  <2>1. light' = light
    BY <1>3 DEF PushWrite, fields
  <2>2. line' = IF msg[p].op = "AU" THEN line
                ELSE [line EXCEPT ![msg[p].dev] = msg[p].op]
    BY <1>3 DEF PushWrite, WriteOK, Tell
  <2>3. overridden' = (overridden \/ (msg[p].dev = "LIGHT" /\ msg[p].op # "AU"))
    BY <1>3, Zenon DEF PushWrite
  <2>4. CASE msg[p].dev = "LIGHT" /\ msg[p].op # "AU"
    BY <2>3, <2>4, Zenon
  <2>5. CASE ~ (msg[p].dev = "LIGHT" /\ msg[p].op # "AU")
    <3>1. line'["LIGHT"] = line["LIGHT"]
      BY <1>0, <2>2, <2>5
    <3>2. overridden' <=> overridden
      BY <2>3, <2>5, Zenon
    <3> QED BY <2>1, <3>1, <3>2
  <2> QED BY <2>4, <2>5
<1>4. CASE Tick \/ Initialize \/ HourPasses \/ PutEnds \/ AutoCheck
  BY <1>4 DEF Tick, Initialize, HourPasses, PutEnds, AutoCheck, fields, history
<1>5. CASE TimerFires
  <2>1. line'["LIGHT"] = line["LIGHT"]
    BY <1>0, <1>5 DEF TimerFires, WriteOK, WriteFails, Tell, Cmd
  <2> QED BY <1>5, <2>1 DEF TimerFires, fields
<1>6. ASSUME NEW b \in Batch, ReadEvent(b) PROVE LightInv'
  BY <1>6 DEF ReadEvent, history
<1>7. CASE AutoWrite
  <2>1. want \in RelayCommand /\ want.op \in {"ON", "OF"}
    BY <1>7 DEF AutoWrite, Typed, TypeOK, WantInv
  <2>2. line' = [line EXCEPT ![want.dev] = want.op]
    BY <1>7, <2>1 DEF AutoWrite, WriteOK, Tell
  <2>3. overridden' = (overridden /\ want.dev # "LIGHT")
    BY <1>7, Zenon DEF AutoWrite
  <2>4. CASE want.dev = "LIGHT"
    <3>1. want = Cmd("LIGHT", want.op)
      BY <2>1, <2>4 DEF RelayCommand, Cmd
    <3>2. light' = IF want.op = "ON" THEN 1 ELSE 0
      BY <1>7, <2>1, <3>1 DEF AutoWrite, Cmd
    <3>3. line'["LIGHT"] = want.op
      BY <1>0, <2>2, <2>4
    <3> QED BY <2>1, <3>2, <3>3
  <2>5. CASE want.dev # "LIGHT"
    <3>1. light' = light
      BY <1>7, <2>5 DEF AutoWrite, Cmd
    <3>2. line'["LIGHT"] = line["LIGHT"]
      BY <1>0, <2>2, <2>5
    <3>3. overridden' <=> overridden
      BY <2>3, <2>5, Zenon
    <3> QED BY <3>1, <3>2, <3>3
  <2> QED BY <2>4, <2>5
<1>8. CASE AutoWriteFails
  BY <1>8 DEF AutoWriteFails, WriteFails, fields, history
<1>9. CASE UNCHANGED vars
  BY <1>9 DEF vars, fields, history
<1> QED BY <1>1, <1>2, <1>3, <1>4, <1>5, <1>6, <1>7, <1>8, <1>9
        DEF Next, Push, SerialEvent

\* The reader's field light and the lamp agree until a push switches the lamp,
\* and again as soon as the reader has switched it.
THEOREM LightFieldCorrect == Spec => []LightFieldIsRight
<1>1. LightInv => LightFieldIsRight
  BY DEF LightInv
<1> QED BY <1>1, InitLight, NextLight, TypeInvariance, PTL DEF Spec

=============================================================================
