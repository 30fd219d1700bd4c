------------------------------- MODULE Proto2 -------------------------------
(***************************************************************************)
(* The Arduino (proto2.ino) and the serial line that feeds it.  The        *)
(* gateway writes words of WordLen letters; the UART stores them in a ring *)
(* buffer of RxSize letters and drops what does not fit; loop() takes one  *)
(* word per round with Serial.readBytes, which gives up on a silent line,  *)
(* and sleeps two seconds before the next.                                 *)
(*                                                                         *)
(* There is no frame delimiter: a word is whatever WordLen letters come    *)
(* next.  The module is about what that does to the commands.              *)
(***************************************************************************)
EXTENDS Commands, Sequences, FiniteSets

CONSTANTS
    Offered,    \* the commands the gateway writes
    FREQUENCY,  \* rounds between two sensor reports
    MaxSend     \* bound: commands written in all

ASSUME OfferedAssumption   == Offered \subseteq Command
ASSUME FrequencyAssumption == FREQUENCY \in Nat \ {0}
ASSUME BoundAssumption     == MaxSend \in Nat

WordLen == 17   \* num

\* Mutant: one letter less.
RxSizeLess == 62

RxSize == 63    \* HardwareSerial: a ring of 64 that is never quite full

\* Letter i of "APP_LIGHT_ON00000": letters 1 to 4, 10 and 13 to 17 are those of
\* every command (4 and 10 the same), 5 to 9 tell the device, 11 and 12 the
\* operation; ON and OF share the O.
Letter(c, i) == CASE i <= 4       -> <<"APP_", i>>
                  [] i \in 5 .. 9  -> <<c.dev, i>>
                  [] i = 10       -> <<"APP_", 4>>
                  [] i = 11       -> <<IF c.op \in {"ON", "OF"} THEN "O" ELSE c.op, i>>
                  [] i = 12       -> <<c.op, i>>
                  [] OTHER        -> <<"0", 0>>

Word(c) == [i \in 1 .. WordLen |-> Letter(c, i)]

VARIABLES
    out,       \* commands the gateway has written, not fully transmitted
    pos,       \* letters of the first of them that are transmitted
    rx,        \* the ring buffer of the UART
    phase,     \* where loop() is
    input,     \* the letters readBytes has so far
    frequency, \* rounds since the last report
    pin,       \* what each device was last told to do
    \* history
    sent,      \* all commands written
    done,      \* all commands control() recognised
    lost,      \* whether the buffer has ever overrun
    rounds,    \* rounds begun since the last with a report
    peak,      \* most commands ever written but not recognised
    lone       \* what Len(done) must reach if the last command was written to a
               \* quiet line, else 0

uart    == <<out, pos, rx>>
history == <<sent, done, lost, rounds, peak, lone>>
vars    == <<uart, phase, input, frequency, pin, history>>

Init ==
    /\ out = << >> /\ pos = 0 /\ rx = << >>
    /\ phase = "delay" /\ input = << >> /\ frequency = 0
    /\ pin = [d \in Device |-> "none"]
    /\ sent = << >> /\ done = << >> /\ lost = FALSE
    /\ rounds = 0 /\ peak = 0 /\ lone = 0

-----------------------------------------------------------------------------
(* The gateway and the UART.                                               *)

Quiet == out = << >> /\ rx = << >> /\ phase # "wait"

GatewayWrites(c) ==
    /\ Len(sent) < MaxSend
    /\ out' = Append(out, c)
    /\ sent' = Append(sent, c)
    /\ peak' = IF Len(sent') - Len(done) > peak THEN Len(sent') - Len(done)
                                                ELSE peak
    /\ lone' = IF Quiet THEN Len(done) + 1 ELSE 0
    /\ UNCHANGED <<pos, rx, phase, input, frequency, pin, done, lost, rounds>>

\* One letter arrives, a millisecond after the last; the interrupt handler drops
\* it if the ring is full.  While readBytes waits it polls, and has taken the
\* letter before the next one is there.
Arrive ==
    /\ out # << >> /\ (phase = "wait" => rx = << >>)
    /\ IF pos + 1 = WordLen THEN out' = Tail(out) /\ pos' = 0
                            ELSE out' = out /\ pos' = pos + 1
    /\ IF Len(rx) < RxSize
       THEN rx' = Append(rx, Letter(Head(out), pos + 1)) /\ lost' = lost
       ELSE rx' = rx /\ lost' = TRUE
    /\ UNCHANGED <<phase, input, frequency, pin, sent, done, rounds, peak, lone>>

-----------------------------------------------------------------------------
(* loop().                                                                 *)

\* Mutant: the report is due one round too late.
BeginRoundLate ==
    /\ phase = "delay"
    /\ phase' = "read"
    /\ frequency' = IF frequency > FREQUENCY THEN 0 ELSE frequency
    /\ rounds' = IF frequency > FREQUENCY THEN 0 ELSE rounds + 1
    /\ UNCHANGED <<uart, input, pin, sent, done, lost, peak, lone>>

\* A round begins; every FREQUENCY rounds with printT1 and printT2.
BeginRound ==
    /\ phase = "delay"
    /\ phase' = "read"
    /\ frequency' = IF frequency >= FREQUENCY THEN 0 ELSE frequency
    /\ rounds' = IF frequency >= FREQUENCY THEN 0 ELSE rounds + 1
    /\ UNCHANGED <<uart, input, pin, sent, done, lost, peak, lone>>

\* The rest of the round: frequency + 1 and delay(2000).
EndRound == phase' = "delay" /\ frequency' = frequency + 1

\* control(temp): only an exact match acts, and the AU commands match nothing.
Acts(c) == c.op # "AU"

Control(w) ==
    IF \E c \in Command : w = Word(c)
    THEN LET c == CHOOSE c \in Command : w = Word(c)
         IN  /\ done' = Append(done, c)
             /\ pin' = IF Acts(c) THEN [pin EXCEPT ![c.dev] = c.op] ELSE pin
    ELSE done' = done /\ pin' = pin

\* Serial.available() is 0.
NothingToRead ==
    /\ phase = "read" /\ rx = << >>
    /\ EndRound
    /\ UNCHANGED <<uart, input, pin, history>>

\* Mutant: loop() returns after a command, and the round is not counted.
ReadBytesReturns ==
    /\ phase \in {"read", "wait"} /\ rx # << >>
    /\ LET n == IF Len(rx) < WordLen - Len(input) THEN Len(rx)
                                                  ELSE WordLen - Len(input)
           w == input \o SubSeq(rx, 1, n)
       IN  /\ rx' = SubSeq(rx, n + 1, Len(rx))
           /\ IF Len(w) = WordLen
              THEN input' = << >> /\ Control(w)
                   /\ phase' = "delay" /\ frequency' = frequency
              ELSE /\ input' = w /\ phase' = "wait"
                   /\ UNCHANGED <<pin, done, frequency>>
    /\ UNCHANGED <<out, pos, sent, lost, rounds, peak, lone>>

\* readBytes takes what is there; with a full word the round goes on.
ReadBytes ==
    /\ phase \in {"read", "wait"} /\ rx # << >>
    /\ LET n == IF Len(rx) < WordLen - Len(input) THEN Len(rx)
                                                  ELSE WordLen - Len(input)
           w == input \o SubSeq(rx, 1, n)
       IN  /\ rx' = SubSeq(rx, n + 1, Len(rx))
           /\ IF Len(w) = WordLen
              THEN input' = << >> /\ Control(w) /\ EndRound
              ELSE /\ input' = w /\ phase' = "wait"
                   /\ UNCHANGED <<pin, done, frequency>>
    /\ UNCHANGED <<out, pos, sent, lost, rounds, peak, lone>>

\* Mutant: the read gives up between two letters of a word.
ReadTimesOutEarly ==
    /\ phase = "wait" /\ rx = << >>
    /\ input' = << >>
    /\ EndRound
    /\ UNCHANGED <<uart, pin, history>>

\* A second without a letter: the buffer stays padded with zeros, which is no
\* command, and count runs to num all the same.
ReadTimesOut ==
    /\ phase = "wait" /\ rx = << >> /\ out = << >>
    /\ input' = << >>
    /\ EndRound
    /\ UNCHANGED <<uart, pin, history>>

Loop ==
    \/ BeginRound
    \/ NothingToRead
    \/ ReadBytes
    \/ ReadTimesOut

Next ==
    \/ \E c \in Offered : GatewayWrites(c)
    \/ Arrive
    \/ Loop

Spec == Init /\ [][Next]_vars

\* The line transmits what was written and loop() is called for ever.
Fairness == WF_vars(Arrive) /\ WF_vars(Loop)

FairSpec == Spec /\ Fairness

-----------------------------------------------------------------------------
(* Properties.                                                             *)

LetterSet == {Letter(c, i) : c \in Command, i \in 1 .. WordLen}

\* Every variable holds values of its kind, and no buffer exceeds its size.
TypeOK ==
    /\ out \in Seq(Command) /\ pos \in 0 .. WordLen - 1
    /\ rx \in Seq(LetterSet) /\ Len(rx) <= RxSize
    /\ phase \in {"read", "wait", "delay"}
    /\ input \in Seq(LetterSet) /\ Len(input) < WordLen
    /\ frequency \in 0 .. FREQUENCY
    /\ pin \in [Device -> {"none", "ON", "OF", "LE", "RI"}]
    /\ sent \in Seq(Command) /\ done \in Seq(Command)
    /\ lost \in BOOLEAN /\ rounds \in Nat /\ peak \in Nat /\ lone \in Nat

\* How many of the commands s are found, one after the other, in the first
\* j of t.
Found(s, t) ==
    LET found[j \in 0 .. Len(t)] ==
            IF j = 0 THEN 0
            ELSE LET k == found[j - 1]
                 IN  IF k < Len(s) /\ s[k + 1] = t[j] THEN k + 1 ELSE k
    IN  found

Embeds(s, t) == Found(s, t)[Len(t)] = Len(s)

\* However the buffer overruns and the framing slips, the Arduino recognises
\* only commands that were written, in the order they were written: no word
\* pieced together from two commands is taken for a third one.
OnlySentCommands == Embeds(done, sent)

\* Nothing is lost and nothing slips while at most three commands are under
\* way: three words fit the buffer, a fourth does not.
ThreeFit ==
    peak <= 3 => ~ lost /\ done = SubSeq(sent, 1, Len(done))

\* Framing recovers: a command written to a quiet line is recognised before
\* the next one is written, whatever was lost before it, unless the next one
\* follows too soon.
LoneCommandActs ==
    \A k \in 1 .. MaxSend :
        (Len(sent) = k /\ lone # 0) ~>
            \/ Len(sent) = k /\ lone # 0 /\ Len(done) >= lone
            \/ Len(sent) = k + 1 /\ lone = 0

\* Commands do not starve the sensors: of any FREQUENCY + 1 rounds one begins
\* with a report, however many of them read a command, slip or time out.
ReportsInTime == rounds <= FREQUENCY
=============================================================================
