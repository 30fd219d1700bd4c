--------------------------- MODULE Proto2_proofs ---------------------------
(***************************************************************************)
(* What holds of the Arduino's serial line for any commands offered, any   *)
(* number of them and any reporting period.                                *)
(***************************************************************************)
EXTENDS Proto2, SequenceTheorems, NumberFacts, TLAPS

-----------------------------------------------------------------------------
(* Buffers.                                                                *)

LEMMA HeadTail ==
    ASSUME NEW S, NEW q \in Seq(S), q # << >>
    PROVE  Head(q) \in S /\ Tail(q) \in Seq(S) /\ Len(q) \in Nat /\ Len(q) > 0
OBVIOUS

LEMMA AppendLen ==
    ASSUME NEW S, NEW q \in Seq(S), NEW e \in S
    PROVE  Append(q, e) \in Seq(S) /\ Len(Append(q, e)) = Len(q) + 1
OBVIOUS

\* The letters readBytes takes, and those it leaves.
LEMMA Taken ==
    ASSUME NEW S, NEW q \in Seq(S), NEW n \in 0 .. Len(q)
    PROVE  /\ SubSeq(q, 1, n) \in Seq(S) /\ Len(SubSeq(q, 1, n)) = n
           /\ SubSeq(q, n + 1, Len(q)) \in Seq(S)
           /\ Len(SubSeq(q, n + 1, Len(q))) = Len(q) - n
<1>1. Len(q) \in Nat /\ \A i \in 1 .. Len(q) : q[i] \in S
  OBVIOUS
<1>2. /\ \A i \in 1 .. n : q[i] \in S
      /\ \A i \in n + 1 .. Len(q) : q[i] \in S
      /\ n \in Int /\ n >= 0 /\ n <= Len(q) /\ n + 1 \in Int /\ Len(q) \in Int /\ 1 \in Int
  BY <1>1
<1>3. SubSeq(q, 1, n) \in Seq(S) /\ Len(SubSeq(q, 1, n)) = IF 1 <= n THEN n - 1 + 1 ELSE 0
  BY <1>2, SubSeqProperties
<1>4. /\ SubSeq(q, n + 1, Len(q)) \in Seq(S)
      /\ Len(SubSeq(q, n + 1, Len(q))) = IF n + 1 <= Len(q) THEN Len(q) - (n + 1) + 1 ELSE 0
  BY <1>2, SubSeqProperties
<1> QED BY <1>2, <1>3, <1>4

LEMMA Joined ==
    ASSUME NEW S, NEW p \in Seq(S), NEW q \in Seq(S)
    PROVE  p \o q \in Seq(S) /\ Len(p \o q) = Len(p) + Len(q)
OBVIOUS

LEMMA LetterIn ==
    ASSUME NEW c \in Command, NEW i \in 1 .. WordLen
    PROVE  Letter(c, i) \in LetterSet
BY DEF LetterSet

-----------------------------------------------------------------------------
(* The report is due at the end of a round: while loop() reads or waits,   *)
(* frequency is below FREQUENCY.                                           *)

Counted == phase \in {"read", "wait"} => frequency < FREQUENCY

Typed == TypeOK /\ Counted

LEMMA InitTyped == Init => Typed
<1> SUFFICES ASSUME Init PROVE Typed
  OBVIOUS
<1>1. << >> \in Seq(Command) /\ << >> \in Seq(LetterSet) /\ Len(<< >>) = 0
  OBVIOUS
<1>2. 0 \in 0 .. WordLen - 1 /\ 0 <= RxSize /\ 0 < WordLen
  BY DEF WordLen, RxSize
<1>3. 0 \in 0 .. FREQUENCY /\ 0 \in Nat
  BY FrequencyAssumption
<1>4. pin \in [Device -> {"none", "ON", "OF", "LE", "RI"}]
  BY DEF Init
<1>5. phase = "delay"
  BY DEF Init
<1> QED BY <1>1, <1>2, <1>3, <1>4, <1>5, Zenon DEF Init, Typed, TypeOK, Counted

LEMMA WritesTyped ==
    ASSUME Typed, NEW c \in Offered, GatewayWrites(c)
    PROVE  Typed'
<1> USE DEF Typed, TypeOK
<1>1. c \in Command
  BY OfferedAssumption
<1>2. out' \in Seq(Command) /\ sent' \in Seq(Command)
  BY <1>1, AppendLen DEF GatewayWrites
<1>3. Len(sent') \in Nat /\ Len(done) \in Nat
  BY <1>2
<1>4. peak' \in Nat
  BY <1>3 DEF GatewayWrites
<1>5. lone' \in Nat
  BY <1>3 DEF GatewayWrites
<1> QED BY <1>2, <1>4, <1>5 DEF GatewayWrites, Counted

LEMMA ArriveTyped ==
    ASSUME Typed, Arrive
    PROVE  Typed'
<1> USE DEF Typed, TypeOK
<1>1. Head(out) \in Command /\ Tail(out) \in Seq(Command)
  BY HeadTail DEF Arrive
<1>6. pos \in 0 .. 16 /\ pos + 1 \in 1 .. 17 /\ 0 .. WordLen - 1 = 0 .. 16 /\ 1 .. WordLen = 1 .. 17
  BY DEF WordLen
<1>7. pos + 1 # WordLen => pos + 1 \in 0 .. 16
  BY <1>6 DEF WordLen
<1>2. out' \in Seq(Command) /\ pos' \in 0 .. WordLen - 1
  <2>1. out \in Seq(Command) /\ 0 \in 0 .. 16
    OBVIOUS
  <2> HIDE DEF Typed, TypeOK
  <2> QED BY <1>1, <1>6, <1>7, <2>1, Zenon DEF Arrive
<1>3. Letter(Head(out), pos + 1) \in LetterSet
  <2> HIDE DEF Typed, TypeOK
  <2> QED BY <1>1, <1>6, LetterIn, Zenon
<1>4. rx' \in Seq(LetterSet) /\ Len(rx') <= RxSize
  <2>1. CASE Len(rx) < RxSize
    <3>1. rx' = Append(rx, Letter(Head(out), pos + 1))
      BY <2>1 DEF Arrive
    <3>2. rx' \in Seq(LetterSet) /\ Len(rx') = Len(rx) + 1 /\ Len(rx) \in Nat
      BY <1>3, <3>1, AppendLen
    <3> QED BY <2>1, <3>2 DEF RxSize
  <2>2. CASE ~ (Len(rx) < RxSize)
    BY <2>2 DEF Arrive
  <2> QED BY <2>1, <2>2
<1>5. lost' \in BOOLEAN
  BY DEF Arrive
<1> QED BY <1>2, <1>4, <1>5 DEF Arrive, Counted

LEMMA ControlTyped ==
    ASSUME Typed, NEW w, Control(w)
    PROVE  done' \in Seq(Command) /\ pin' \in [Device -> {"none", "ON", "OF", "LE", "RI"}]
<1> USE DEF Typed, TypeOK
<1>1. CASE \E c \in Command : w = Word(c)
  <2> DEFINE d == CHOOSE c \in Command : w = Word(c)
  <2>1. d \in Command
    BY <1>1
  <2>2. done' = Append(done, d) /\ pin' = IF Acts(d) THEN [pin EXCEPT ![d.dev] = d.op] ELSE pin
    BY <1>1 DEF Control
  <2> HIDE DEF d
  <2>3. done' \in Seq(Command)
    BY <2>1, <2>2, AppendLen
  <2>4. Acts(d) => d.op \in {"ON", "OF", "LE", "RI"}
    BY <2>1 DEF Acts, Command, RelayCommand, MotorCommand
  <2> QED BY <2>2, <2>3, <2>4
<1>2. CASE ~ \E c \in Command : w = Word(c)
  BY <1>2 DEF Control
<1> QED BY <1>1, <1>2

LEMMA LoopTyped ==
    ASSUME Typed, Loop
    PROVE  Typed'
<1> USE DEF Typed, TypeOK, uart, history
<1>0. FREQUENCY \in Nat \ {0} /\ frequency \in Nat
  BY FrequencyAssumption
<1>1. CASE BeginRound
  BY <1>0, <1>1 DEF BeginRound, Counted
<1>2. CASE NothingToRead
  BY <1>0, <1>2 DEF NothingToRead, EndRound, Counted
<1>3. CASE ReadTimesOut
  <2>1. input' \in Seq(LetterSet) /\ Len(input') < WordLen
    BY <1>3 DEF ReadTimesOut, WordLen
  <2> QED BY <1>0, <1>3, <2>1 DEF ReadTimesOut, EndRound, Counted
<1>4. CASE ReadBytes
  <2> DEFINE n == IF Len(rx) < WordLen - Len(input) THEN Len(rx) ELSE WordLen - Len(input)
             w == input \o SubSeq(rx, 1, n)
  <2>1. /\ phase \in {"read", "wait"} /\ rx # << >> /\ rx' = SubSeq(rx, n + 1, Len(rx))
        /\ IF Len(w) = WordLen
           THEN input' = << >> /\ Control(w) /\ EndRound
           ELSE input' = w /\ phase' = "wait" /\ UNCHANGED <<pin, done, frequency>>
        /\ UNCHANGED <<out, pos, sent, lost, rounds, peak, lone>>
    BY <1>4 DEF ReadBytes
  <2>2. Len(rx) \in Nat /\ Len(input) \in Nat /\ Len(rx) <= RxSize /\ Len(input) < WordLen
    OBVIOUS
  <2>3. n \in 0 .. Len(rx) /\ n <= WordLen - Len(input)
    BY <2>2 DEF WordLen
  <2> HIDE DEF n
  <2>4. rx' \in Seq(LetterSet) /\ Len(rx') <= RxSize
    <3>1. rx' \in Seq(LetterSet) /\ Len(rx') = Len(rx) - n
      BY <2>1, <2>3, Taken
    <3>2. Len(rx) - n <= RxSize
      BY <2>2, <2>3 DEF RxSize
    <3> QED BY <3>1, <3>2, Zenon
  <2>5. w \in Seq(LetterSet) /\ Len(w) = Len(input) + n
    BY <2>3, Taken, Joined
  <2> HIDE DEF w
  <2>6. CASE Len(w) = WordLen
    <3>1. input' \in Seq(LetterSet) /\ Len(input') < WordLen
      BY <2>1, <2>6 DEF WordLen
    <3>2. done' \in Seq(Command) /\ pin' \in [Device -> {"none", "ON", "OF", "LE", "RI"}]
      BY <2>1, <2>6, ControlTyped
    <3>3. phase' = "delay" /\ frequency' \in 0 .. FREQUENCY
      BY <1>0, <2>1, <2>6 DEF EndRound, Counted
    <3> QED BY <2>1, <2>4, <3>1, <3>2, <3>3 DEF Counted
  <2>7. CASE Len(w) # WordLen
    <3>1. input' \in Seq(LetterSet) /\ Len(input') < WordLen
      BY <2>1, <2>2, <2>3, <2>5, <2>7 DEF WordLen
    <3> QED BY <2>1, <2>4, <2>7, <3>1 DEF Counted
  <2> QED BY <2>6, <2>7
<1> QED BY <1>1, <1>2, <1>3, <1>4 DEF Loop

LEMMA StutterTyped == Typed /\ UNCHANGED vars => Typed'
BY DEF Typed, TypeOK, Counted, vars, uart, history

-----------------------------------------------------------------------------
(* Letters are numbered as they are written: letter g is letter LetterOf   *)
(* of command CommandOf.                                                   *)

CommandOf(g) == (g - 1) \div WordLen + 1
LetterOf(g)  == ((g - 1) % WordLen) + 1
FirstOf(k)   == WordLen * (k - 1) + 1

Nth(g) == Letter(sent[CommandOf(g)], LetterOf(g))

\* Remainders that the provers find only alone.
LEMMA Seventeen ==
    /\ \A i \in 1 .. 11 : i % 17 # 12
    /\ \A q \in Nat : (q + 17) % 17 = q % 17
<1>1. ASSUME NEW i \in 1 .. 11 PROVE i % 17 # 12
  <2>1. i % 17 = i
    OBVIOUS
  <2> QED BY <2>1
<1>2. ASSUME NEW q \in Nat PROVE (q + 17) % 17 = q % 17
  OBVIOUS
<1> QED BY <1>1, <1>2

LEMMA Numbered ==
    ASSUME NEW g \in Nat \ {0}
    PROVE  /\ CommandOf(g) \in Nat \ {0} /\ LetterOf(g) \in 1 .. 17
           /\ g = FirstOf(CommandOf(g)) + LetterOf(g) - 1
BY DEF CommandOf, LetterOf, FirstOf, WordLen

LEMMA NumberOf ==
    ASSUME NEW k \in Nat \ {0}, NEW i \in 1 .. 17
    PROVE  /\ FirstOf(k) + i - 1 \in Nat \ {0}
           /\ CommandOf(FirstOf(k) + i - 1) = k /\ LetterOf(FirstOf(k) + i - 1) = i
<1>1. WordLen * (k - 1) + 1 + i - 1 - 1 = 17 * (k - 1) + (i - 1)
  BY DEF WordLen
<1>2. (17 * (k - 1) + (i - 1)) \div 17 = k - 1 /\ (17 * (k - 1) + (i - 1)) % 17 = i - 1
  OBVIOUS
<1> QED BY <1>1, <1>2 DEF CommandOf, LetterOf, FirstOf, WordLen

\* The fifth letter of a word tells the device, the twelfth the operation.
LEMMA Twelve ==
    ASSUME NEW c \in Command, NEW d \in Command,
           Letter(c, 5) = Letter(d, 5), Letter(c, 12) = Letter(d, 12)
    PROVE  c = d
<1>1. Letter(c, 5) = Letter(d, 5) /\ Letter(c, 12) = Letter(d, 12)
  OBVIOUS
<1>3. /\ Letter(c, 5) = <<c.dev, 5>> /\ Letter(c, 12) = <<c.op, 12>>
      /\ Letter(d, 5) = <<d.dev, 5>> /\ Letter(d, 12) = <<d.op, 12>>
  BY DEF Letter
<1>2. c.dev = d.dev /\ c.op = d.op
  <2>1. <<c.dev, 5>> = <<d.dev, 5>> /\ <<c.op, 12>> = <<d.op, 12>>
    BY <1>1, <1>3, Zenon
  <2> QED BY <2>1
<1> QED BY <1>2 DEF Command, RelayCommand, MotorCommand

\* Only the first letter of a word looks like one.
LEMMA FirstLetter ==
    ASSUME NEW c, NEW d, NEW i \in 1 .. 17, Letter(c, 1) = Letter(d, i)
    PROVE  i = 1
<1>0. Letter(c, 1) = <<"APP_", 1>>
  BY DEF Letter
<1>1. CASE i <= 4
  <2>1. Letter(d, i) = <<"APP_", i>>
    BY <1>1 DEF Letter
  <2> QED BY <1>0, <2>1
<1>2. CASE i \in 5 .. 9
  <2>1. Letter(d, i) = <<d.dev, i>>
    BY <1>2 DEF Letter
  <2> QED BY <1>0, <2>1
<1>3. CASE i = 10
  <2>1. Letter(d, i) = <<"APP_", 4>>
    BY <1>3 DEF Letter
  <2> QED BY <1>0, <2>1
<1>4. CASE i \in {11, 12}
  <2>1. Letter(d, i)[2] = i
    BY <1>4 DEF Letter
  <2> QED BY <1>0, <2>1
<1>5. CASE i \in 13 .. 17
  <2>1. Letter(d, i) = <<"0", 0>>
    BY <1>5 DEF Letter
  <2> QED BY <1>0, <2>1
<1> QED BY <1>1, <1>2, <1>3, <1>4, <1>5

-----------------------------------------------------------------------------
(* The letters received and not yet given to control(), and how many have  *)
(* arrived at the UART, the dropped ones included.                         *)

held    == input \o rx
Arrived == WordLen * (Len(sent) - Len(out)) + pos

\* What is on the line is the end of what was written.  readBytes has letters
\* only while it waits for more, and then the ring is all but empty.
Transmitted ==
    /\ Len(out) <= Len(sent)
    /\ \A i \in 1 .. Len(out) : out[i] = sent[Len(sent) - Len(out) + i]
    /\ out = << >> => pos = 0
    /\ IF phase = "wait" THEN input # << >> /\ Len(rx) <= 1 ELSE input = << >>

Line == TypeOK /\ Transmitted

LEMMA HeldType ==
    ASSUME TypeOK
    PROVE  /\ Len(input) \in 0 .. 16 /\ Len(rx) \in 0 .. 63
           /\ held \in Seq(LetterSet) /\ Len(held) = Len(input) + Len(rx)
           /\ \A q \in 1 .. Len(held) :
                 held[q] = IF q <= Len(input) THEN input[q] ELSE rx[q - Len(input)]
<1>1. input \in Seq(LetterSet) /\ rx \in Seq(LetterSet)
  BY DEF TypeOK
<1>2. /\ held \in Seq(LetterSet) /\ Len(held) = Len(input) + Len(rx)
      /\ \A q \in 1 .. Len(input) + Len(rx) :
            held[q] = IF q <= Len(input) THEN input[q] ELSE rx[q - Len(input)]
  BY <1>1, ConcatProperties, Zenon DEF held
<1>3. Len(input) \in 0 .. 16 /\ Len(rx) \in 0 .. 63
  <2>1. Len(input) \in Nat /\ Len(rx) \in Nat
    BY <1>1, LenProperties
  <2>2. Len(input) < 17 /\ Len(rx) <= 63
    BY DEF TypeOK, WordLen, RxSize
  <2>3. \A a \in Nat : (a < 17 => a \in 0 .. 16) /\ (a <= 63 => a \in 0 .. 63)
    OBVIOUS
  <2> QED BY <2>1, <2>2, <2>3, Zenon
<1> QED BY <1>2, <1>3

LEMMA ArrivedType ==
    ASSUME Line
    PROVE  /\ Len(sent) \in Nat /\ Len(out) \in 0 .. Len(sent) /\ pos \in 0 .. 16
           /\ Arrived = 17 * (Len(sent) - Len(out)) + pos
           /\ Arrived \in 0 .. 17 * Len(sent)
           /\ \A g \in 1 .. Arrived : CommandOf(g) \in 1 .. Len(sent)
<1>1. sent \in Seq(Command) /\ out \in Seq(Command) /\ pos \in 0 .. 16
  BY DEF Line, TypeOK, WordLen
<1>2. Len(sent) \in Nat /\ Len(out) \in Nat /\ Len(out) <= Len(sent) /\ (Len(out) = 0 => pos = 0)
  BY <1>1 DEF Line, Transmitted
<1>3. Arrived = 17 * (Len(sent) - Len(out)) + pos
  BY DEF Arrived, WordLen
<1>4. Arrived \in 0 .. 17 * Len(sent)
  BY <1>1, <1>2, <1>3
<1>5. ASSUME NEW g \in 1 .. Arrived
      PROVE  CommandOf(g) \in 1 .. Len(sent)
  <2>1. g \in Nat \ {0} /\ g <= 17 * Len(sent)
    BY <1>2, <1>4
  <2>2. /\ CommandOf(g) \in Nat \ {0} /\ LetterOf(g) \in 1 .. 17
        /\ g = 17 * (CommandOf(g) - 1) + 1 + LetterOf(g) - 1
    BY <2>1, Numbered DEF FirstOf, WordLen
  <2>3. ASSUME NEW k \in Nat \ {0}, NEW l \in 1 .. 17, NEW n \in Nat, 17 * (k - 1) + 1 + l - 1 <= 17 * n
        PROVE  k \in 1 .. n
    BY <2>3
  <2> QED BY <1>2, <2>1, <2>2, <2>3
<1> QED BY <1>1, <1>2, <1>3, <1>4, <1>5

-----------------------------------------------------------------------------
(* What each step does to them.                                            *)

LEMMA WritesHeld ==
    ASSUME Line, NEW c \in Offered, GatewayWrites(c)
    PROVE  /\ held' = held /\ Arrived' = Arrived /\ UNCHANGED done
           /\ Len(sent') = Len(sent) + 1 /\ \A i \in 1 .. Len(sent) : sent'[i] = sent[i]
           /\ \A g \in 1 .. Arrived : Nth(g)' = Nth(g)
           /\ Transmitted'
<1>1. c \in Command /\ sent \in Seq(Command) /\ out \in Seq(Command)
  BY OfferedAssumption DEF Line, TypeOK
<1>2. sent' = Append(sent, c) /\ out' = Append(out, c)
      /\ UNCHANGED <<pos, rx, phase, input, done>>
  BY DEF GatewayWrites
<1>3. /\ Len(sent') = Len(sent) + 1 /\ \A i \in 1 .. Len(sent) : sent'[i] = sent[i]
      /\ sent'[Len(sent) + 1] = c
  BY <1>1, <1>2, AppendProperties
<1>4. /\ Len(out') = Len(out) + 1 /\ \A i \in 1 .. Len(out) : out'[i] = out[i]
      /\ out'[Len(out) + 1] = c /\ out' # << >>
  BY <1>1, <1>2, AppendProperties
<1>5. Len(sent) \in Nat /\ Len(out) \in Nat /\ Len(out) <= Len(sent)
  BY ArrivedType
<1>6. held' = held
  BY <1>2 DEF held
<1>7. Arrived' = Arrived
  BY <1>2, <1>3, <1>4, <1>5 DEF Arrived, WordLen
<1>8. \A g \in 1 .. Arrived : Nth(g)' = Nth(g)
  BY <1>3, ArrivedType DEF Nth, CommandOf, LetterOf
<1>9. Transmitted'
  <2>1. ASSUME NEW i \in 1 .. Len(out')
        PROVE  out'[i] = sent'[Len(sent') - Len(out') + i]
    <3>1. Len(sent') - Len(out') + i = Len(sent) - Len(out) + i /\ i \in 1 .. Len(out) + 1
      BY <1>3, <1>4, <1>5
    <3>2. CASE i = Len(out) + 1
      BY <1>3, <1>4, <1>5, <3>1, <3>2
    <3>3. CASE i \in 1 .. Len(out)
      <4>1. out[i] = sent[Len(sent) - Len(out) + i] /\ Len(sent) - Len(out) + i \in 1 .. Len(sent)
        BY <1>5, <3>3 DEF Line, Transmitted
      <4> QED BY <1>3, <1>4, <3>1, <3>3, <4>1
    <3> QED BY <1>5, <3>1, <3>2, <3>3
  <2>2. Len(out') <= Len(sent') /\ (out' = << >> => pos' = 0)
    BY <1>3, <1>4, <1>5
  <2>3. IF phase' = "wait" THEN input' # << >> /\ Len(rx') <= 1 ELSE input' = << >>
    BY <1>2 DEF Line, Transmitted
  <2> QED BY <2>1, <2>2, <2>3 DEF Transmitted
<1> QED BY <1>2, <1>3, <1>6, <1>7, <1>8, <1>9

LEMMA ArriveHeld ==
    ASSUME Line, Arrive
    PROVE  /\ Arrived' = Arrived + 1 /\ Arrived + 1 <= 17 * Len(sent)
           /\ UNCHANGED <<sent, done, peak>>
           /\ \/ Len(held) = 63 /\ held' = held
              \/ /\ Len(rx) < 63 /\ lost' = lost
                 /\ Len(held') = Len(held) + 1
                 /\ \A q \in 1 .. Len(held) : held'[q] = held[q]
                 /\ held'[Len(held) + 1] = Nth(Arrived + 1)
           /\ Transmitted'
<1>1. /\ out \in Seq(Command) /\ out # << >> /\ (phase = "wait" => rx = << >>)
      /\ pos \in 0 .. 16 /\ input \in Seq(LetterSet) /\ rx \in Seq(LetterSet)
      /\ UNCHANGED <<phase, input, sent, done, peak>>
  BY DEF Line, TypeOK, Arrive, WordLen
<1>2. Len(out) \in Nat \ {0} /\ Len(sent) \in Nat /\ Len(out) <= Len(sent)
  BY <1>1, ArrivedType
<1>3. IF pos = 16 THEN out' = Tail(out) /\ pos' = 0 ELSE out' = out /\ pos' = pos + 1
  BY <1>1 DEF Arrive, WordLen
<1>4. Len(Tail(out)) = Len(out) - 1 /\ \A i \in 1 .. Len(out) - 1 : Tail(out)[i] = out[i + 1]
  BY <1>1, HeadTailProperties
<1>5. Arrived' = Arrived + 1 /\ Arrived + 1 <= 17 * Len(sent)
  <2>1. Arrived = 17 * (Len(sent) - Len(out)) + pos
    BY ArrivedType
  <2>2. Arrived' = 17 * (Len(sent) - Len(out')) + pos'
    BY <1>1 DEF Arrived, WordLen
  <2>3. CASE pos = 16
    <3>1. Len(out') = Len(out) - 1 /\ pos' = 0
      BY <1>3, <1>4, <2>3
    <3> QED BY <1>2, <2>1, <2>2, <2>3, <3>1
  <2>4. CASE pos # 16
    <3>1. Len(out') = Len(out) /\ pos' = pos + 1
      BY <1>3, <2>4
    <3> QED BY <1>1, <1>2, <2>1, <2>2, <2>4, <3>1
  <2> QED BY <2>3, <2>4
<1>6. Letter(Head(out), pos + 1) = Nth(Arrived + 1)
  <2> DEFINE k == Len(sent) - Len(out) + 1
  <2>1. k \in 1 .. Len(sent) /\ Head(out) = sent[k]
    <3>1. Head(out) = out[1]
      BY <1>1
    <3> QED BY <1>2, <3>1 DEF Line, Transmitted
  <2>2. Arrived + 1 = FirstOf(k) + (pos + 1) - 1
    BY <1>1, <1>2, ArrivedType DEF FirstOf, WordLen
  <2> HIDE DEF k
  <2>3. k \in Nat \ {0} /\ pos + 1 \in 1 .. 17
    BY <1>1, <1>2, <2>1
  <2>4. CommandOf(Arrived + 1) = k /\ LetterOf(Arrived + 1) = pos + 1
    BY <2>2, <2>3, NumberOf
  <2> QED BY <2>1, <2>4 DEF Nth
<1>7. LetterSet # {} /\ Letter(Head(out), pos + 1) \in LetterSet
  BY SMTT(40), <1>1, HeadTail, LetterIn DEF WordLen
<1>8. phase # "wait" => input = << >> /\ Len(input) = 0
  BY DEF Line, Transmitted
<1>9. \/ Len(held) = 63 /\ held' = held
      \/ /\ Len(rx) < 63 /\ lost' = lost
         /\ Len(held') = Len(held) + 1
         /\ \A q \in 1 .. Len(held) : held'[q] = held[q]
         /\ held'[Len(held) + 1] = Nth(Arrived + 1)
  <2> DEFINE l == Letter(Head(out), pos + 1)
  <2>1. CASE Len(rx) < 63
    <3>1. rx' = Append(rx, l) /\ lost' = lost
      BY <2>1 DEF Arrive, RxSize
    <3>2. /\ rx' \in Seq(LetterSet) /\ Len(rx') = Len(rx) + 1
          /\ \A i \in 1 .. Len(rx) : rx'[i] = rx[i]
          /\ rx'[Len(rx) + 1] = l
      BY <1>1, <1>7, <3>1, AppendProperties
    <3>3. /\ Len(held') = Len(input) + Len(rx')
          /\ \A q \in 1 .. Len(input) + Len(rx') :
               held'[q] = IF q <= Len(input) THEN input[q] ELSE rx'[q - Len(input)]
      BY <1>1, <3>2, ConcatProperties DEF held
    <3>4. /\ Len(held) = Len(input) + Len(rx) /\ Len(input) \in Nat /\ Len(rx) \in Nat
          /\ \A q \in 1 .. Len(held) :
                held[q] = IF q <= Len(input) THEN input[q] ELSE rx[q - Len(input)]
      BY HeldType DEF Line
    <3>5. ASSUME NEW q \in 1 .. Len(held) PROVE held'[q] = held[q]
      <4>1. q \in 1 .. Len(input) + Len(rx') /\ (q > Len(input) => q - Len(input) \in 1 .. Len(rx))
        BY <3>2, <3>4
      <4> QED BY <3>2, <3>3, <3>4, <4>1
    <3>6. held'[Len(held) + 1] = l
      <4>1. /\ Len(held) + 1 \in 1 .. Len(input) + Len(rx') /\ ~ (Len(held) + 1 <= Len(input))
            /\ Len(held) + 1 - Len(input) = Len(rx) + 1
        BY <3>2, <3>4
      <4> QED BY <3>2, <3>3, <4>1
    <3> QED BY <1>6, <2>1, <3>1, <3>2, <3>3, <3>4, <3>5, <3>6
  <2>2. CASE ~ (Len(rx) < 63)
    <3>1. rx' = rx
      BY <2>2 DEF Arrive, RxSize
    <3>2. Len(rx) \in 0 .. 63 /\ Len(held) = Len(input) + Len(rx)
      BY HeldType DEF Line
    <3>3. phase # "wait"
      BY <1>1, <2>2
    <3>4. held' = held
      BY <1>1, <3>1 DEF held
    <3>5. Len(held) = 63
      <4>1. \A a \in 0 .. 63 : ~ (a < 63) => a = 63 /\ 0 + a = 63
        OBVIOUS
      <4> QED BY <1>8, <2>2, <3>2, <3>3, <4>1, Zenon
    <3> QED BY <3>4, <3>5
  <2> QED BY <2>1, <2>2
<1>10. Transmitted'
  <2>1. Len(out') <= Len(sent') /\ (out' = << >> => pos' = 0)
    BY <1>1, <1>2, <1>3, <1>4
  <2>2. ASSUME NEW i \in 1 .. Len(out')
        PROVE  out'[i] = sent'[Len(sent') - Len(out') + i]
    <3>1. CASE pos = 16
      <4>1. /\ i \in 1 .. Len(out) - 1 /\ i + 1 \in 1 .. Len(out)
            /\ Len(sent) - Len(out) + (i + 1) = Len(sent) - Len(out') + i
        BY <1>2, <1>3, <1>4, <3>1
      <4>2. out[i + 1] = sent[Len(sent) - Len(out) + (i + 1)]
        BY <4>1 DEF Line, Transmitted
      <4> QED BY <1>1, <1>3, <1>4, <3>1, <4>1, <4>2
    <3>2. CASE pos # 16
      BY <1>1, <1>3, <3>2 DEF Line, Transmitted
    <3> QED BY <3>1, <3>2
  <2>3. IF phase' = "wait" THEN input' # << >> /\ Len(rx') <= 1 ELSE input' = << >>
    <3>1. CASE phase = "wait"
      <4>1. rx = << >> /\ Len(rx) = 0
        BY <1>1, <3>1
      <4>2. rx' = Append(rx, Letter(Head(out), pos + 1))
        BY <4>1 DEF Arrive, RxSize
      <4>3. Len(rx') = 1
        BY <1>1, <1>7, <4>1, <4>2, AppendProperties
      <4> QED BY <1>1, <3>1, <4>3 DEF Line, Transmitted
    <3>2. CASE phase # "wait"
      BY <1>1, <1>8, <3>2
    <3> QED BY <3>1, <3>2
  <2> QED BY <2>1, <2>2, <2>3 DEF Transmitted
<1> QED BY <1>1, <1>5, <1>9, <1>10

\* readBytes takes what there is, or completes the word and leaves the rest.
LEMMA ReadHeld ==
    ASSUME Line, ReadBytes
    PROVE  /\ Arrived' = Arrived /\ UNCHANGED <<sent, lost, peak>> /\ Transmitted'
           /\ \/ held' = held /\ UNCHANGED done
              \/ /\ Len(held) >= 17 /\ Len(held') = Len(held) - 17
                 /\ \A q \in 1 .. Len(held') : held'[q] = held[q + 17]
                 /\ Control([q \in 1 .. 17 |-> held[q]])
<1> DEFINE I == Len(input)
           R == Len(rx)
           n == IF R < WordLen - I THEN R ELSE WordLen - I
           w == input \o SubSeq(rx, 1, n)
<1>1. /\ phase \in {"read", "wait"} /\ rx # << >> /\ rx' = SubSeq(rx, n + 1, R)
      /\ IF Len(w) = WordLen
         THEN input' = << >> /\ Control(w) /\ EndRound
         ELSE input' = w /\ phase' = "wait" /\ UNCHANGED <<pin, done, frequency>>
      /\ UNCHANGED <<out, pos, sent, lost, peak, lone>>
  BY DEF ReadBytes
<1>2. /\ I \in 0 .. 16 /\ R \in 0 .. 63 /\ Len(held) = I + R
      /\ held \in Seq(LetterSet)
      /\ \A q \in 1 .. I + R :
           held[q] = IF q <= I THEN input[q] ELSE rx[q - I]
  BY HeldType, Zenon DEF Line
<1>3. input \in Seq(LetterSet) /\ rx \in Seq(LetterSet) /\ R # 0
  BY <1>1 DEF Line, TypeOK
<1>5. \A i \in 1 .. R : rx[i] \in LetterSet
  BY <1>3, ElementOfSeq
<1> HIDE DEF I, R
<1>4. /\ n \in 1 .. R /\ n <= 17 - I
      /\ n = R \/ n = 17 - I
  BY <1>2, <1>3 DEF WordLen
<1> HIDE DEF n
<1>6. /\ SubSeq(rx, 1, n) \in Seq(LetterSet) /\ Len(SubSeq(rx, 1, n)) = n
      /\ \A i \in 1 .. n : SubSeq(rx, 1, n)[i] = rx[i]
  <2>1. n \in Int /\ 1 \in Int /\ \A i \in 1 .. n : rx[i] \in LetterSet
    BY <1>2, <1>4, <1>5
  <2>2. /\ SubSeq(rx, 1, n) \in Seq(LetterSet)
        /\ Len(SubSeq(rx, 1, n)) = IF 1 <= n THEN n - 1 + 1 ELSE 0
        /\ \A i \in 1 .. n - 1 + 1 : SubSeq(rx, 1, n)[i] = rx[1 + i - 1]
    BY <2>1, SubSeqProperties
  <2>3. /\ 1 .. n - 1 + 1 = 1 .. n /\ (IF 1 <= n THEN n - 1 + 1 ELSE 0) = n
        /\ \A i \in 1 .. n : 1 + i - 1 = i
    BY <1>2, <1>4
  <2> QED BY <2>2, <2>3
<1>7. /\ rx' \in Seq(LetterSet) /\ Len(rx') = R - n
      /\ \A i \in 1 .. R - n : rx'[i] = rx[n + i]
  <2>1. n + 1 \in Int /\ R \in Int /\ \A i \in n + 1 .. R : rx[i] \in LetterSet
    BY <1>2, <1>4, <1>5
  <2>2. /\ rx' \in Seq(LetterSet)
        /\ Len(rx') = IF n + 1 <= R THEN R - (n + 1) + 1 ELSE 0
        /\ \A i \in 1 .. R - (n + 1) + 1 : rx'[i] = rx[n + 1 + i - 1]
    BY SMTT(40), <1>1, <2>1, SubSeqProperties
  <2>3. /\ R - (n + 1) + 1 = R - n
        /\ (IF n + 1 <= R THEN R - (n + 1) + 1 ELSE 0) = R - n
        /\ \A i \in 1 .. R - n : n + 1 + i - 1 = n + i
    BY <1>2, <1>4
  <2> QED BY <2>2, <2>3
<1>8. /\ w \in Seq(LetterSet) /\ Len(w) = I + n
      /\ \A q \in 1 .. I + n : w[q] = held[q]
  <2>1. /\ w \in Seq(LetterSet) /\ Len(w) = I + n
        /\ \A q \in 1 .. I + n :
              w[q] = IF q <= I THEN input[q] ELSE SubSeq(rx, 1, n)[q - I]
    BY <1>3, <1>6, ConcatProperties DEF I
  <2>2. ASSUME NEW q \in 1 .. I + n PROVE w[q] = held[q]
    <3>1. q \in 1 .. I + R /\ (~ (q <= I) => q - I \in 1 .. n)
      BY <1>2, <1>4
    <3> QED BY <1>2, <1>6, <2>1, <3>1
  <2> QED BY <2>1, <2>2
<1> HIDE DEF w
<1>9. Arrived' = Arrived
  BY <1>1 DEF Arrived
<1>10. CASE I + n = 17
  <2>1. input' = << >> /\ Control(w) /\ phase' = "delay"
    BY <1>1, <1>8, <1>10 DEF WordLen, EndRound
  <2>2. w = [q \in 1 .. 17 |-> held[q]]
    <3>1. DOMAIN w = 1 .. 17 /\ w = [q \in DOMAIN w |-> w[q]]
      BY <1>8, <1>10, LenProperties
    <3>2. \A q \in 1 .. 17 : w[q] = held[q]
      BY <1>8, <1>10
    <3> QED BY <3>1, <3>2
  <2>3. held' = rx'
    BY <1>7, <2>1, ConcatEmptySeq DEF held
  <2>4. n = 17 - I
    BY <1>2, <1>4, <1>10
  <2>5. I + R >= 17 /\ R - n = I + R - 17
    BY <1>2, <1>4, <2>4
  <2>6. ASSUME NEW q \in 1 .. R - n PROVE held'[q] = held[q + 17]
    <3>1. /\ q \in 1 .. R - n /\ q + 17 \in 1 .. I + R /\ ~ (q + 17 <= I)
          /\ q + 17 - I = n + q
      BY <1>2, <1>4, <2>4, <2>5
    <3> QED BY <1>2, <1>7, <2>3, <3>1
  <2>7. Transmitted'
    BY <1>1, <2>1 DEF Line, Transmitted
  <2>8. Len(held) >= 17 /\ Len(held') = Len(held) - 17
    BY <1>2, <1>7, <2>3, <2>5
  <2>9. \A q \in 1 .. Len(held') : held'[q] = held[q + 17]
    BY <1>7, <2>3, <2>6
  <2> QED BY <1>1, <1>9, <2>1, <2>2, <2>7, <2>8, <2>9
<1>11. CASE I + n # 17
  <2>1. input' = w /\ phase' = "wait" /\ done' = done
    BY <1>1, <1>8, <1>11 DEF WordLen
  <2>2. n = R
    BY <1>2, <1>4, <1>11
  <2>3. R - n = 0
    BY <1>2, <2>2
  <2>4. Len(rx') = 0 /\ rx' = << >>
    BY <1>7, <2>3
  <2>5. held' = w
    BY <1>8, <2>1, <2>4, ConcatEmptySeq DEF held
  <2>6. held' = held
    <3>1. Len(w) = Len(held) /\ \A q \in 1 .. Len(w) : w[q] = held[q]
      BY <1>2, <1>8, <2>2
    <3> QED BY <1>2, <1>8, <2>5, <3>1, SeqEqual
  <2>7. I + n # 0
    BY <1>2, <1>4
  <2>8. input' # << >>
    BY <1>8, <2>1, <2>7
  <2>9. Transmitted'
    <3>1. Len(rx') <= 1
      BY <2>4
    <3> QED BY <1>1, <2>1, <2>8, <3>1 DEF Line, Transmitted
  <2> QED BY <1>1, <1>9, <2>1, <2>6, <2>9
<1> QED BY <1>10, <1>11

\* The rest of loop() touches no letter, but readBytes may give up its own.
LEMMA LoopHeld ==
    ASSUME Line, BeginRound \/ NothingToRead \/ ReadTimesOut
    PROVE  /\ Arrived' = Arrived /\ UNCHANGED <<sent, done, lost, peak>> /\ Transmitted'
           /\ \/ held' = held
              \/ /\ held' = << >> /\ Len(held') = 0 /\ Arrived = 17 * Len(sent)
                 /\ Len(held) \in 1 .. 16
<1>1. UNCHANGED <<out, pos, rx, sent, done, lost, peak>>
  BY DEF BeginRound, NothingToRead, ReadTimesOut, uart, history
<1>2. Arrived' = Arrived
  BY <1>1 DEF Arrived
<1>3. CASE BeginRound \/ NothingToRead
  <2>1. UNCHANGED input /\ phase # "wait" /\ phase' # "wait"
    BY <1>3 DEF BeginRound, NothingToRead, EndRound
  <2>2. held' = held
    BY <1>1, <2>1 DEF held
  <2>3. Transmitted'
    BY <1>1, <2>1 DEF Line, Transmitted
  <2> QED BY <1>1, <1>2, <2>2, <2>3
<1>4. CASE ReadTimesOut
  <2>1. input' = << >> /\ phase' = "delay" /\ phase = "wait" /\ rx = << >> /\ out = << >>
    BY <1>4 DEF ReadTimesOut, EndRound
  <2>2. input # << >> /\ pos = 0
    BY <2>1 DEF Line, Transmitted
  <2>3. Len(rx) = 0 /\ Len(out) = 0 /\ Len(input) # 0
    BY <2>1, <2>2 DEF Line, TypeOK
  <2>4. Len(held) \in 1 .. 16
    <3>1. \A a \in 0 .. 16, b \in 0 .. 63 : a # 0 /\ b = 0 => a + b \in 1 .. 16
      OBVIOUS
    <3>2. Len(held) = Len(input) + Len(rx) /\ Len(input) \in 0 .. 16 /\ Len(rx) \in 0 .. 63
      BY HeldType DEF Line
    <3> QED BY <2>3, <3>1, <3>2, Zenon
  <2>5. Arrived = 17 * Len(sent)
    BY <2>2, <2>3, ArrivedType
  <2>6. held' = << >> /\ Len(held') = 0
    BY <1>1, <2>1, ConcatEmptySeq, EmptySeq DEF held
  <2>7. Transmitted'
    BY <1>1, <2>1 DEF Line, Transmitted
  <2> QED BY <1>1, <1>2, <2>4, <2>5, <2>6, <2>7
<1> QED BY <1>3, <1>4

\* control() recognises a word of a command, and no other.
LEMMA ControlDone ==
    ASSUME TypeOK, NEW w, Control(w)
    PROVE  \/ \E c \in Command : w = Word(c) /\ done' = Append(done, c)
           \/ done' = done /\ ~ \E c \in Command : w = Word(c)
BY DEF Control

LEMMA StutterHeld ==
    ASSUME Line, UNCHANGED vars
    PROVE  /\ held' = held /\ Arrived' = Arrived /\ UNCHANGED <<sent, done, lost, peak>>
           /\ Transmitted'
<1>1. UNCHANGED <<out, pos, rx, phase, input, sent, done, lost, peak>>
  BY DEF vars, uart, history
<1> QED BY <1>1 DEF held, Arrived, Line, Transmitted
-----------------------------------------------------------------------------
(* Three commands fit: as long as no more are under way, nothing is lost,  *)
(* and the letters held are those behind the last command recognised, up   *)
(* to the last that has arrived.                                           *)

InStep ==
    /\ ~ lost
    /\ Len(done) <= Len(sent) /\ \A j \in 1 .. Len(done) : done[j] = sent[j]
    /\ Len(held) = Arrived - 17 * Len(done)
    /\ \A q \in 1 .. Len(held) : held[q] = Nth(17 * Len(done) + q)

ThreeInv ==
    /\ Len(sent) - Len(done) <= peak
    /\ peak <= 3 => InStep

LEMMA WritesThree ==
    ASSUME Line, ThreeInv, NEW c \in Offered, GatewayWrites(c)
    PROVE  ThreeInv'
<1>1. /\ Len(sent) \in Nat /\ Len(done) \in Nat /\ peak \in Nat
  BY DEF Line, TypeOK
<1>2. /\ held' = held /\ Arrived' = Arrived /\ done' = done
      /\ Len(sent') = Len(sent) + 1 /\ \A i \in 1 .. Len(sent) : sent'[i] = sent[i]
      /\ \A g \in 1 .. Arrived : Nth(g)' = Nth(g)
      /\ lost' = lost
  BY WritesHeld DEF GatewayWrites
<1>3. peak' = IF Len(sent') - Len(done) > peak THEN Len(sent') - Len(done) ELSE peak
  BY DEF GatewayWrites
<1>4. Len(sent') - Len(done') <= peak' /\ peak <= peak'
  BY <1>1, <1>2, <1>3
<1>5. ASSUME peak' <= 3 PROVE InStep'
  <2>1. InStep
    BY <1>1, <1>2, <1>3, <1>4, <1>5 DEF ThreeInv
  <2>2. ASSUME NEW q \in 1 .. Len(held)
        PROVE  held'[q] = Nth(17 * Len(done) + q)'
    <3>1. held[q] = Nth(17 * Len(done) + q) /\ Len(held) = Arrived - 17 * Len(done)
      BY <2>1 DEF InStep
    <3>2. Len(held) \in Nat /\ Arrived \in Nat
      BY HeldType, ArrivedType DEF Line
    <3>3. 17 * Len(done) + q \in 1 .. Arrived
      BY <1>1, <3>1, <3>2
    <3> QED BY <1>2, <3>1, <3>3 DEF Nth
  <2>3. \A j \in 1 .. Len(done') : done'[j] = sent'[j]
    BY <1>1, <1>2, <2>1 DEF InStep
  <2> QED BY <1>1, <1>2, <2>1, <2>2, <2>3 DEF InStep
<1> QED BY <1>4, <1>5 DEF ThreeInv

LEMMA ArriveThree ==
    ASSUME Line, ThreeInv, Arrive
    PROVE  ThreeInv'
<1>1. /\ Len(sent) \in Nat /\ Len(done) \in Nat /\ peak \in Nat /\ Len(held) \in Nat
      /\ Arrived \in Nat
  BY HeldType, ArrivedType DEF Line, TypeOK
<1>2. /\ Arrived' = Arrived + 1 /\ Arrived + 1 <= 17 * Len(sent)
      /\ UNCHANGED <<sent, done, peak>>
      /\ \/ Len(held) = 63 /\ held' = held
         \/ /\ Len(rx) < 63 /\ lost' = lost
            /\ Len(held') = Len(held) + 1
            /\ \A q \in 1 .. Len(held) : held'[q] = held[q]
            /\ held'[Len(held) + 1] = Nth(Arrived + 1)
  BY ArriveHeld
<1>3. ASSUME peak' <= 3 PROVE InStep'
  <2>1. InStep /\ Len(sent) - Len(done) <= 3
    BY <1>1, <1>2, <1>3 DEF ThreeInv
  <2>2. Len(held) = Arrived - 17 * Len(done)
    BY <2>1 DEF InStep
  <2>3. Len(held) # 63
    BY <1>1, <1>2, <2>1, <2>2
  <2>4. /\ lost' = lost /\ Len(held') = Len(held) + 1
        /\ \A q \in 1 .. Len(held) : held'[q] = held[q]
        /\ held'[Len(held) + 1] = Nth(Arrived + 1)
    BY <1>2, <2>3
  <2>5. \A g : Nth(g)' = Nth(g)
    BY <1>2 DEF Nth, CommandOf, LetterOf
  <2>6. ASSUME NEW q \in 1 .. Len(held')
        PROVE  held'[q] = Nth(17 * Len(done) + q)
    <3>1. q \in 1 .. Len(held) \/ q = Len(held) + 1
      BY <1>1, <2>4
    <3>2. 17 * Len(done) + (Len(held) + 1) = Arrived + 1
      BY <1>1, <2>2
    <3> QED BY <2>1, <2>4, <3>1, <3>2 DEF InStep
  <2> QED BY <1>1, <1>2, <2>1, <2>2, <2>4, <2>5, <2>6 DEF InStep
<1> QED BY <1>2, <1>3 DEF ThreeInv

\* The word that completes is that of the next command.
LEMMA ReadThree ==
    ASSUME Line, ThreeInv, ReadBytes
    PROVE  ThreeInv'
<1>1. /\ Len(sent) \in Nat /\ Len(done) \in Nat /\ peak \in Nat /\ Len(held) \in Nat
      /\ Arrived \in 0 .. 17 * Len(sent) /\ sent \in Seq(Command) /\ done \in Seq(Command)
  BY HeldType, ArrivedType DEF Line, TypeOK
<1>2. Arrived' = Arrived /\ UNCHANGED <<sent, lost, peak>>
  BY ReadHeld
<1>3. \A g : Nth(g)' = Nth(g)
  BY <1>2 DEF Nth, CommandOf, LetterOf
<1>4. CASE held' = held /\ UNCHANGED done
  BY <1>2, <1>3, <1>4 DEF ThreeInv, InStep
<1>5. CASE /\ Len(held) >= 17 /\ Len(held') = Len(held) - 17
           /\ \A q \in 1 .. Len(held') : held'[q] = held[q + 17]
           /\ Control([q \in 1 .. 17 |-> held[q]])
  <2> DEFINE w == [q \in 1 .. 17 |-> held[q]]
  <2>1. \/ \E c \in Command : w = Word(c) /\ done' = Append(done, c)
        \/ done' = done /\ ~ \E c \in Command : w = Word(c)
    BY <1>5, ControlDone DEF Line
  <2>2. Len(done') \in Nat /\ Len(done') >= Len(done)
    <3>1. ASSUME NEW c \in Command, done' = Append(done, c) PROVE Len(done') = Len(done) + 1
      BY <1>1, <3>1, AppendProperties
    <3>2. Len(done') = Len(done) + 1 \/ Len(done') = Len(done)
      BY <2>1, <3>1
    <3> QED BY <1>1, <3>2
  <2>3. Len(sent') - Len(done') <= peak'
    BY <1>1, <1>2, <2>2 DEF ThreeInv
  <2>4. ASSUME peak <= 3 PROVE InStep'
    <3>1. InStep
      BY <2>4 DEF ThreeInv
    <3> DEFINE k == Len(done) + 1
    <3>2. Len(held) = Arrived - 17 * Len(done) /\ k \in 1 .. Len(sent)
      <4>1. Len(held) = Arrived - 17 * Len(done)
        BY <3>1 DEF InStep
      <4>2. 17 * (Len(done) + 1) <= 17 * Len(sent)
        BY <1>1, <1>5, <4>1
      <4> QED BY <1>1, <4>1, <4>2
    <3>3. ASSUME NEW q \in 1 .. 17 PROVE held[q] = Letter(sent[k], q)
      <4>1. held[q] = Nth(17 * Len(done) + q)
        <5>1. q \in 1 .. Len(held)
          BY <1>1, <1>5
        <5> QED BY <3>1, <5>1 DEF InStep
      <4>2. 17 * Len(done) + q = FirstOf(k) + q - 1 /\ k \in Nat \ {0}
        BY <1>1 DEF FirstOf, WordLen
      <4>3. CommandOf(17 * Len(done) + q) = k /\ LetterOf(17 * Len(done) + q) = q
        BY <4>2, NumberOf
      <4> QED BY <4>1, <4>3 DEF Nth
    <3>4. w = Word(sent[k]) /\ sent[k] \in Command
      <4>1. w = [q \in 1 .. 17 |-> Letter(sent[k], q)]
        BY <3>3
      <4>2. sent[k] \in Command
        BY <1>1, <3>2
      <4> QED BY <4>1, <4>2 DEF Word, WordLen
    <3>5. PICK c \in Command : w = Word(c) /\ done' = Append(done, c)
      BY <2>1, <3>4
    <3>6. c = sent[k]
      <4>1. Word(c) = Word(sent[k])
        BY <3>4, <3>5
      <4>2. Letter(c, 5) = Letter(sent[k], 5) /\ Letter(c, 12) = Letter(sent[k], 12)
        <5>1. \A d : Word(d)[5] = Letter(d, 5) /\ Word(d)[12] = Letter(d, 12)
          BY DEF Word, WordLen
        <5> QED BY <4>1, <5>1
      <4> QED BY <3>4, <4>2, Twelve
    <3>7. /\ Len(done') = Len(done) + 1 /\ done'[Len(done) + 1] = sent[k]
          /\ \A j \in 1 .. Len(done) : done'[j] = done[j]
      BY <1>1, <3>5, <3>6, AppendProperties
    <3>8. Len(done') <= Len(sent) /\ \A j \in 1 .. Len(done') : done'[j] = sent[j]
      BY SMTT(40), <1>1, <3>1, <3>2, <3>7 DEF InStep
    <3>9. Len(held') = Arrived - 17 * Len(done')
      BY <1>1, <1>5, <3>2, <3>7
    <3>10. ASSUME NEW q \in 1 .. Len(held') PROVE held'[q] = Nth(17 * Len(done') + q)
      <4>1. q + 17 \in 1 .. Len(held) /\ 17 * Len(done) + (q + 17) = 17 * Len(done') + q
        BY <1>1, <1>5, <3>7
      <4> QED BY <1>5, <3>1, <4>1 DEF InStep
    <3> QED BY <1>2, <1>3, <3>1, <3>8, <3>9, <3>10 DEF InStep
  <2> QED BY <1>2, <2>3, <2>4 DEF ThreeInv
<1> QED BY <1>4, <1>5, ReadHeld

LEMMA LoopThree ==
    ASSUME Line, ThreeInv, BeginRound \/ NothingToRead \/ ReadTimesOut
    PROVE  ThreeInv'
<1>1. /\ Len(sent) \in Nat /\ Len(done) \in Nat /\ Len(held) \in Nat
  BY HeldType DEF Line, TypeOK
<1>2. Arrived' = Arrived /\ UNCHANGED <<sent, done, lost, peak>>
  BY LoopHeld
<1>3. \A g : Nth(g)' = Nth(g)
  BY <1>2 DEF Nth, CommandOf, LetterOf
<1>4. CASE held' = held
  BY <1>2, <1>3, <1>4 DEF ThreeInv, InStep
<1>5. CASE Arrived = 17 * Len(sent) /\ Len(held) \in 1 .. 16
  <2>1. ~ InStep
    <3>1. SUFFICES ASSUME Len(held) = Arrived - 17 * Len(done) PROVE FALSE
      BY DEF InStep
    <3> QED BY SMTT(40), <1>1, <1>5, <3>1
  <2> QED BY <1>2, <2>1 DEF ThreeInv
<1> QED BY <1>4, <1>5, LoopHeld

LEMMA StutterThree ==
    ASSUME Line, ThreeInv, UNCHANGED vars
    PROVE  ThreeInv'
<1>1. /\ held' = held /\ Arrived' = Arrived /\ UNCHANGED <<sent, done, lost, peak>>
  BY StutterHeld
<1>2. \A g : Nth(g)' = Nth(g)
  BY <1>1 DEF Nth, CommandOf, LetterOf
<1> QED BY <1>1, <1>2 DEF ThreeInv, InStep
-----------------------------------------------------------------------------
(* Where the letters come from.  src[q] is the number of the letter held   *)
(* in place q, at[j] that of the command which the j-th one recognised is. *)
(* Letters are dropped only when the ring is full, and then the letters    *)
(* held are twelve more than a number of words: what follows the gap is    *)
(* never one of the first twelve letters of what is read as a word, and    *)
(* those are the letters that tell the commands apart.                     *)

Traced(src, at) ==
    /\ \A q \in 1 .. Len(held) : src[q] \in 1 .. Arrived /\ held[q] = Nth(src[q])
    /\ \A q, r \in 1 .. Len(held) : q < r => src[q] < src[r]
    /\ \A q \in 1 .. Len(held) - 1 : q % 17 # 12 => src[q + 1] = src[q] + 1
    /\ Len(held) > 0 /\ Len(held) % 17 # 12 => src[Len(held)] = Arrived
    /\ \A j \in 1 .. Len(done) :
          at[j] \in 1 .. Len(sent) /\ done[j] = sent[at[j]] /\ FirstOf(at[j]) <= Arrived
    /\ \A i, j \in 1 .. Len(done) : i < j => at[i] < at[j]
    /\ \A j \in 1 .. Len(done), q \in 1 .. Len(held) : FirstOf(at[j]) < src[q]

Origin == \E src, at : Traced(src, at)

LEMMA WritesOrigin ==
    ASSUME Line, Origin, NEW c \in Offered, GatewayWrites(c)
    PROVE  Origin'
<1>1. PICK src, at : Traced(src, at)
  BY DEF Origin
<1>2. /\ held' = held /\ Arrived' = Arrived /\ done' = done
      /\ Len(sent') = Len(sent) + 1 /\ \A i \in 1 .. Len(sent) : sent'[i] = sent[i]
      /\ \A g \in 1 .. Arrived : Nth(g)' = Nth(g)
  BY WritesHeld
<1>3. Len(sent) \in Nat
  BY DEF Line, TypeOK
<1>4. Traced(src, at)'
  <2>1. \A q \in 1 .. Len(held) : src[q] \in 1 .. Arrived /\ held[q] = Nth(src[q])'
    BY <1>1, <1>2 DEF Traced, Nth
  <2>2. \A j \in 1 .. Len(done) :
          at[j] \in 1 .. Len(sent') /\ done[j] = sent'[at[j]] /\ FirstOf(at[j]) <= Arrived
    BY <1>1, <1>2, <1>3 DEF Traced
  <2> QED BY <1>1, <1>2, <2>1, <2>2 DEF Traced, Nth
<1> QED BY <1>4 DEF Origin

LEMMA ArriveOrigin ==
    ASSUME Line, Origin, Arrive
    PROVE  Origin'
<1>1. PICK src, at : Traced(src, at)
  BY DEF Origin
<1> DEFINE N == Len(held)
           A == Arrived
<1>2. N \in Nat /\ A \in Nat /\ Len(done) \in Nat
  BY HeldType, ArrivedType DEF Line, TypeOK
<1>3. /\ Arrived' = A + 1 /\ UNCHANGED <<sent, done>>
      /\ \/ N = 63 /\ held' = held
         \/ /\ Len(held') = N + 1
            /\ \A q \in 1 .. N : held'[q] = held[q]
            /\ held'[N + 1] = Nth(A + 1)
  BY ArriveHeld
<1>4. \A g : Nth(g)' = Nth(g)
  BY <1>3 DEF Nth, CommandOf, LetterOf
<1>5. /\ \A q \in 1 .. N : src[q] \in 1 .. A /\ held[q] = Nth(src[q])
      /\ \A q, r \in 1 .. N : q < r => src[q] < src[r]
      /\ \A q \in 1 .. N - 1 : q % 17 # 12 => src[q + 1] = src[q] + 1
      /\ N > 0 /\ N % 17 # 12 => src[N] = A
  BY <1>1 DEF Traced
<1>6. /\ \A j \in 1 .. Len(done) :
            at[j] \in 1 .. Len(sent) /\ done[j] = sent[at[j]] /\ FirstOf(at[j]) <= A
      /\ \A i, j \in 1 .. Len(done) : i < j => at[i] < at[j]
      /\ \A j \in 1 .. Len(done), q \in 1 .. N : FirstOf(at[j]) < src[q]
  BY <1>1 DEF Traced
<1>7. \A j \in 1 .. Len(done) : FirstOf(at[j]) \in Int
  BY <1>6 DEF FirstOf, WordLen
<1> HIDE DEF N, A
<1>8. CASE N = 63 /\ held' = held
  <2>1. Len(held') = N /\ N % 17 = 12
    BY <1>8 DEF N
  <2>2. /\ \A q \in 1 .. N : src[q] \in 1 .. A + 1
        /\ \A j \in 1 .. Len(done) : FirstOf(at[j]) <= A + 1
    BY <1>2, <1>5, <1>6, <1>7
  <2>3. Traced(src, at)'
    BY <1>3, <1>4, <1>5, <1>6, <1>8, <2>1, <2>2 DEF Traced
  <2> QED BY <2>3 DEF Origin
<1>9. CASE /\ Len(held') = N + 1 /\ \A q \in 1 .. N : held'[q] = held[q]
           /\ held'[N + 1] = Nth(A + 1)
  <2>0. PICK new : new = [q \in 1 .. N + 1 |-> IF q <= N THEN src[q] ELSE A + 1]
    OBVIOUS
  <2>1. /\ \A q \in 1 .. N : new[q] = src[q] /\ q \in 1 .. N + 1
        /\ new[N + 1] = A + 1 /\ \A q \in 1 .. N + 1 : q \in 1 .. N \/ q = N + 1
    BY <1>2, <2>0
  <2>2. ASSUME NEW q \in 1 .. N + 1
        PROVE  new[q] \in 1 .. A + 1 /\ held'[q] = Nth(new[q])
    <3>1. CASE q \in 1 .. N
      <4>1. src[q] \in 1 .. A /\ held[q] = Nth(src[q]) /\ new[q] = src[q]
        BY <1>5, <2>1, <3>1
      <4>2. held'[q] = held[q]
        BY <1>9, <3>1
      <4> QED BY <1>2, <4>1, <4>2
    <3>2. CASE q = N + 1
      BY <1>2, <1>9, <2>1, <3>2
    <3> QED BY <2>1, <3>1, <3>2
  <2>3. ASSUME NEW q \in 1 .. N + 1, NEW r \in 1 .. N + 1, q < r
        PROVE  new[q] < new[r]
    <3>1. q \in 1 .. N /\ src[q] \in 1 .. A /\ new[q] = src[q]
      BY <1>2, <1>5, <2>1, <2>3
    <3>2. CASE r \in 1 .. N
      BY <1>5, <2>1, <2>3, <3>1, <3>2
    <3>3. CASE r = N + 1
      BY <1>2, <2>1, <3>1, <3>3
    <3> QED BY <2>1, <3>2, <3>3
  <2>4. ASSUME NEW q \in 1 .. N, q % 17 # 12
        PROVE  new[q + 1] = new[q] + 1
    <3>1. CASE q = N
      <4>1. N > 0
        BY <1>2, <3>1
      <4> QED BY <1>5, <2>1, <2>4, <3>1, <4>1
    <3>2. CASE q # N
      <4>1. q \in 1 .. N - 1 /\ q + 1 \in 1 .. N
        BY <1>2, <3>2
      <4> QED BY <1>5, <2>1, <2>4, <4>1
    <3> QED BY <3>1, <3>2
  <2>5. ASSUME NEW j \in 1 .. Len(done)
        PROVE  FirstOf(at[j]) <= A + 1 /\ \A q \in 1 .. N + 1 : FirstOf(at[j]) < new[q]
    <3>1. FirstOf(at[j]) \in Int /\ FirstOf(at[j]) <= A
      BY <1>6, <1>7
    <3>2. FirstOf(at[j]) <= A + 1 /\ FirstOf(at[j]) < A + 1
      BY <1>2, <3>1
    <3> QED BY <1>6, <2>1, <3>2
  <2>6. N + 1 - 1 = N
    BY <1>2
  <2>7. Traced(new, at)'
    <3>0. Len(held') = N + 1
      BY <1>9
    <3>1. Len(held') = N + 1 /\ Len(held') - 1 = N /\ new[Len(held')] = A + 1
      BY <1>2, <2>1, <3>0
    <3>2. \A q \in 1 .. N + 1 : new[q] \in 1 .. A + 1 /\ held'[q] = Nth(new[q])'
      <4>1. ASSUME NEW q \in 1 .. N + 1 PROVE held'[q] = Nth(new[q])'
        <5>1. held'[q] = Nth(new[q])
          BY <2>2
        <5> QED BY <1>3, <5>1 DEF Nth
      <4> QED BY <2>2, <4>1
    <3>3. \A q, r \in 1 .. N + 1 : q < r => new[q] < new[r]
      BY <2>3
    <3>4. \A q \in 1 .. N : q % 17 # 12 => new[q + 1] = new[q] + 1
      BY <2>4
    <3>5. \A j \in 1 .. Len(done) :
              FirstOf(at[j]) <= A + 1 /\ \A q \in 1 .. N + 1 : FirstOf(at[j]) < new[q]
      BY <2>5
    <3> QED BY <1>3, <1>6, <3>1, <3>2, <3>3, <3>4, <3>5 DEF Traced
  <2> QED BY <2>7 DEF Origin
<1> QED BY <1>3, <1>8, <1>9

\* A word that control() recognises is that of one command that was written.
LEMMA Recognised ==
    ASSUME Line, NEW src, NEW at, Traced(src, at), Len(held) >= 17,
           NEW c \in Command, \A i \in 1 .. 17 : held[i] = Letter(c, i)
    PROVE  /\ CommandOf(src[1]) \in 1 .. Len(sent) /\ c = sent[CommandOf(src[1])]
           /\ src[1] = FirstOf(CommandOf(src[1]))
<1> DEFINE k == CommandOf(src[1])
           N == Len(held)
<1>1. N \in Nat /\ N >= 17 /\ Arrived \in Nat /\ Len(sent) \in Nat /\ sent \in Seq(Command)
  BY HeldType, ArrivedType DEF Line, TypeOK
<1>0. /\ \A q \in 1 .. N : src[q] \in 1 .. Arrived /\ held[q] = Nth(src[q])
      /\ \A q \in 1 .. N - 1 : q % 17 # 12 => src[q + 1] = src[q] + 1
  BY DEF Traced
<1> HIDE DEF N
<1>2. \A i \in 1 .. 17 : src[i] \in 1 .. Arrived /\ held[i] = Nth(src[i])
  <2>1. \A i \in 1 .. 17 : i \in 1 .. N
    BY <1>1
  <2> QED BY <1>0, <2>1
<1>3. k \in 1 .. Len(sent) /\ sent[k] \in Command /\ src[1] \in Nat \ {0}
  <2>1. src[1] \in 1 .. Arrived
    BY <1>2
  <2>2. k \in 1 .. Len(sent)
    BY <2>1, ArrivedType, Zenon
  <2>3. src[1] \in Nat \ {0}
    <3>1. \A a, b : b \in Nat /\ a \in 1 .. b => a \in Nat \ {0}
      OBVIOUS
    <3> QED BY <1>1, <2>1, <3>1, Zenon
  <2> QED BY <1>1, <2>2, <2>3, ElementOfSeq, Zenon
<1>4. LetterOf(src[1]) = 1 /\ src[1] = FirstOf(k)
  <2>2. LetterOf(src[1]) \in 1 .. 17 /\ src[1] = FirstOf(k) + LetterOf(src[1]) - 1
    BY <1>3, Numbered, Zenon
  <2>3. Letter(c, 1) = Letter(sent[k], LetterOf(src[1]))
    <3>1. held[1] = Letter(c, 1) /\ held[1] = Nth(src[1])
      BY <1>2
    <3> QED BY <3>1, Zenon DEF Nth
  <2>4. LetterOf(src[1]) = 1
    BY <2>2, <2>3, FirstLetter, Zenon
  <2>5. FirstOf(k) \in Int
    BY <1>3 DEF FirstOf, WordLen
  <2> QED BY <2>2, <2>4, <2>5
<1>5. \A i \in 1 .. 11 : src[i + 1] = src[i] + 1
  <2>1. \A i \in 1 .. 11 : i \in 1 .. N - 1 /\ i % 17 # 12
    <3>1. \A i \in 1 .. 11 : i % 17 # 12
      BY Seventeen, Zenon
    <3>2. \A i \in 1 .. 11 : i \in 1 .. N - 1
      BY <1>1
    <3> QED BY <3>1, <3>2
  <2> QED BY <1>0, <2>1
<1>6. /\ src[5] = src[1] + 4 /\ src[12] = src[1] + 11
  <2> DEFINE g == src[1]
  <2>1. src[1 + 1] = g + 1 /\ 1 + 1 = 2
    BY <1>5
  <2>2. src[2 + 1] = src[2] + 1 /\ 2 + 1 = 3 /\ 2 \in 1 .. 11
    BY <1>5
  <2>3. src[3 + 1] = src[3] + 1 /\ 3 + 1 = 4 /\ 3 \in 1 .. 11
    BY <1>5
  <2>4. src[4 + 1] = src[4] + 1 /\ 4 + 1 = 5 /\ 4 \in 1 .. 11
    BY <1>5
  <2>5. src[5 + 1] = src[5] + 1 /\ 5 + 1 = 6 /\ 5 \in 1 .. 11
    BY <1>5
  <2>6. src[6 + 1] = src[6] + 1 /\ 6 + 1 = 7 /\ 6 \in 1 .. 11
    BY <1>5
  <2>7. src[7 + 1] = src[7] + 1 /\ 7 + 1 = 8 /\ 7 \in 1 .. 11
    BY <1>5
  <2>8. src[8 + 1] = src[8] + 1 /\ 8 + 1 = 9 /\ 8 \in 1 .. 11
    BY <1>5
  <2>9. src[9 + 1] = src[9] + 1 /\ 9 + 1 = 10 /\ 9 \in 1 .. 11
    BY <1>5
  <2>10. src[10 + 1] = src[10] + 1 /\ 10 + 1 = 11 /\ 10 \in 1 .. 11
    BY <1>5
  <2>11. src[11 + 1] = src[11] + 1 /\ 11 + 1 = 12 /\ 11 \in 1 .. 11
    BY <1>5
  <2> HIDE DEF g
  <2>12. g \in Nat
    BY <1>3 DEF g
  <2>13. src[2] = g + 1 /\ g + 1 + 1 = g + 2
    BY <2>12, <2>1
  <2>14. src[3] = g + 2 /\ g + 2 + 1 = g + 3
    BY <2>12, <2>2, <2>13
  <2>15. src[4] = g + 3 /\ g + 3 + 1 = g + 4
    BY <2>12, <2>3, <2>14
  <2>16. src[5] = g + 4 /\ g + 4 + 1 = g + 5
    BY <2>12, <2>4, <2>15
  <2>17. src[6] = g + 5 /\ g + 5 + 1 = g + 6
    BY <2>12, <2>5, <2>16
  <2>18. src[7] = g + 6 /\ g + 6 + 1 = g + 7
    BY <2>12, <2>6, <2>17
  <2>19. src[8] = g + 7 /\ g + 7 + 1 = g + 8
    BY <2>12, <2>7, <2>18
  <2>20. src[9] = g + 8 /\ g + 8 + 1 = g + 9
    BY <2>12, <2>8, <2>19
  <2>21. src[10] = g + 9 /\ g + 9 + 1 = g + 10
    BY <2>12, <2>9, <2>20
  <2>22. src[11] = g + 10 /\ g + 10 + 1 = g + 11
    BY <2>12, <2>10, <2>21
  <2>23. src[12] = g + 11 /\ g + 11 + 1 = g + 12
    BY <2>12, <2>11, <2>22
  <2> QED BY <2>16, <2>23 DEF g
<1>7. /\ CommandOf(src[5]) = k /\ LetterOf(src[5]) = 5
      /\ CommandOf(src[12]) = k /\ LetterOf(src[12]) = 12
  <2> HIDE DEF k
  <2>1. k \in Nat \ {0} /\ FirstOf(k) \in Int
    BY <1>1, <1>3 DEF FirstOf, WordLen
  <2>2. src[5] = FirstOf(k) + 5 - 1 /\ src[12] = FirstOf(k) + 12 - 1
    BY <1>4, <1>6, <2>1
  <2>3. 5 \in 1 .. 17 /\ 12 \in 1 .. 17
    OBVIOUS
  <2>4. \A i \in 1 .. 17 : CommandOf(FirstOf(k) + i - 1) = k /\ LetterOf(FirstOf(k) + i - 1) = i
    BY <2>1, NumberOf, Zenon
  <2> QED BY <2>2, <2>3, <2>4, Zenon
<1>8. Letter(c, 5) = Letter(sent[k], 5) /\ Letter(c, 12) = Letter(sent[k], 12)
  <2>1. /\ held[5] = Letter(c, 5) /\ held[5] = Nth(src[5])
        /\ held[12] = Letter(c, 12) /\ held[12] = Nth(src[12])
    BY <1>2
  <2> QED BY <1>7, <2>1, Zenon DEF Nth
<1>9. c = sent[k]
  BY <1>3, <1>8, Twelve
<1> QED BY <1>3, <1>4, <1>9

LEMMA ReadOrigin ==
    ASSUME Line, Origin, ReadBytes
    PROVE  Origin'
<1>1. PICK src, at : Traced(src, at)
  BY DEF Origin
<1>2. Arrived' = Arrived /\ UNCHANGED sent
  BY ReadHeld
<1>3. \A g : Nth(g)' = Nth(g)
  BY <1>2 DEF Nth, CommandOf, LetterOf
<1>4. CASE held' = held /\ UNCHANGED done
  <2>1. Traced(src, at)'
    BY <1>1, <1>2, <1>4 DEF Traced, Nth
  <2> QED BY <2>1 DEF Origin
<1>5. CASE /\ Len(held) >= 17 /\ Len(held') = Len(held) - 17
           /\ \A q \in 1 .. Len(held') : held'[q] = held[q + 17]
           /\ Control([q \in 1 .. 17 |-> held[q]])
  <2> DEFINE N == Len(held)
             D == Len(done)
             w == [q \in 1 .. 17 |-> held[q]]
  <2>1. /\ \A q \in 1 .. N : src[q] \in 1 .. Arrived /\ held[q] = Nth(src[q])
        /\ \A q, r \in 1 .. N : q < r => src[q] < src[r]
        /\ \A q \in 1 .. N - 1 : q % 17 # 12 => src[q + 1] = src[q] + 1
        /\ N > 0 /\ N % 17 # 12 => src[N] = Arrived
    BY <1>1 DEF Traced
  <2>2. /\ \A j \in 1 .. D :
              at[j] \in 1 .. Len(sent) /\ done[j] = sent[at[j]] /\ FirstOf(at[j]) <= Arrived
        /\ \A i, j \in 1 .. D : i < j => at[i] < at[j]
        /\ \A j \in 1 .. D, q \in 1 .. N : FirstOf(at[j]) < src[q]
    BY <1>1 DEF Traced
  <2>3. /\ N \in Nat /\ N >= 17 /\ D \in Nat /\ Arrived \in Nat /\ Len(sent) \in Nat
        /\ done \in Seq(Command)
    BY <1>5, HeldType, ArrivedType DEF Line, TypeOK
  <2>4. Len(held') = N - 17 /\ \A q \in 1 .. N - 17 : held'[q] = held[q + 17]
    BY <1>5
  <2>5. \/ \E c \in Command : w = Word(c) /\ done' = Append(done, c)
        \/ done' = done
    BY <1>5, ControlDone DEF Line
  <2> HIDE DEF N, D
  <2>6. PICK new : new = [q \in 1 .. N - 17 |-> src[q + 17]]
    OBVIOUS
  <2>7. \A q \in 1 .. N - 17 : new[q] = src[q + 17] /\ q + 17 \in 1 .. N
    BY <2>3, <2>6
  <2>8. ASSUME NEW q \in 1 .. N - 17
        PROVE  new[q] \in 1 .. Arrived /\ held'[q] = Nth(new[q])' /\ src[1] < new[q]
    <3>1. src[q + 17] \in 1 .. Arrived /\ held[q + 17] = Nth(src[q + 17])
      BY <2>1, <2>7
    <3>2. 1 \in 1 .. N /\ 1 < q + 17
      BY <2>3
    <3>3. src[1] < src[q + 17]
      BY <2>1, <2>7, <3>2
    <3> QED BY <1>2, <2>4, <2>7, <3>1, <3>3 DEF Nth
  <2>9. ASSUME NEW q \in 1 .. N - 17, NEW r \in 1 .. N - 17, q < r
        PROVE  new[q] < new[r]
    <3>1. q + 17 < r + 17
      BY <2>9
    <3> QED BY <2>1, <2>7, <3>1
  <2>10. ASSUME NEW q \in 1 .. N - 17 - 1, q % 17 # 12
         PROVE  new[q + 1] = new[q] + 1
    <3>1. /\ q \in 1 .. N - 17 /\ q + 1 \in 1 .. N - 17 /\ q + 17 \in 1 .. N - 1
          /\ q + 1 + 17 = q + 17 + 1 /\ q \in Nat
      BY <2>3
    <3>2. (q + 17) % 17 # 12
      BY <2>10, <3>1, Seventeen
    <3> QED BY <2>1, <2>7, <3>1, <3>2
  <2>11. ASSUME N - 17 > 0, (N - 17) % 17 # 12
         PROVE  new[N - 17] = Arrived
    <3>1. N - 17 \in Nat /\ N - 17 + 17 = N /\ N - 17 \in 1 .. N - 17 /\ N > 0
      BY <2>3, <2>11
    <3>2. N % 17 # 12
      BY <2>11, <3>1, Seventeen
    <3> QED BY <2>1, <2>7, <3>1, <3>2
  <2>12. CASE done' = done
    <3>1. \A j \in 1 .. D, q \in 1 .. N - 17 : FirstOf(at[j]) < new[q]
      BY <2>2, <2>7
    <3>2. Traced(new, at)'
      BY <1>2, <2>2, <2>4, <2>8, <2>9, <2>10, <2>11, <2>12, <3>1 DEF Traced, D
    <3> QED BY <3>2 DEF Origin
  <2>13. CASE \E c \in Command : w = Word(c) /\ done' = Append(done, c)
    <3>1. PICK c \in Command : w = Word(c) /\ done' = Append(done, c)
      BY <2>13
    <3>2. \A i \in 1 .. 17 : held[i] = Letter(c, i)
      BY <3>1 DEF Word, WordLen
    <3>3. PICK k : k = CommandOf(src[1])
      OBVIOUS
    <3>4. k \in 1 .. Len(sent) /\ c = sent[k] /\ src[1] = FirstOf(k)
      BY <1>1, <1>5, <3>2, <3>3, Recognised
    <3>5. /\ Len(done') = D + 1 /\ done'[D + 1] = c
          /\ \A j \in 1 .. D : done'[j] = done[j]
      BY <2>3, <3>1, AppendProperties DEF D
    <3>6. PICK ats : ats = [j \in 1 .. D + 1 |-> IF j <= D THEN at[j] ELSE k]
      OBVIOUS
    <3>7. /\ \A j \in 1 .. D : ats[j] = at[j] /\ j \in 1 .. D + 1
          /\ ats[D + 1] = k /\ \A j \in 1 .. D + 1 : j \in 1 .. D \/ j = D + 1
      BY <2>3, <3>6
    <3>8. src[1] \in 1 .. Arrived
      <4>1. 1 \in 1 .. N
        BY <2>3
      <4> QED BY <2>1, <4>1
    <3>9. ASSUME NEW j \in 1 .. D + 1
          PROVE  /\ ats[j] \in 1 .. Len(sent) /\ done'[j] = sent[ats[j]]
                 /\ FirstOf(ats[j]) <= Arrived
                 /\ \A q \in 1 .. N - 17 : FirstOf(ats[j]) < new[q]
      <4>1. CASE j \in 1 .. D
        BY <2>2, <2>7, <3>5, <3>7, <4>1
      <4>2. CASE j = D + 1
        <5>1. FirstOf(k) <= Arrived
          BY <2>3, <3>4, <3>8
        <5> QED BY <2>8, <3>4, <3>5, <3>7, <4>2, <5>1
      <4> QED BY <3>7, <4>1, <4>2
    <3>10. ASSUME NEW i \in 1 .. D + 1, NEW j \in 1 .. D + 1, i < j
           PROVE  ats[i] < ats[j]
      <4>1. i \in 1 .. D /\ at[i] \in 1 .. Len(sent) /\ ats[i] = at[i]
        BY <2>2, <2>3, <3>7, <3>10
      <4>2. CASE j \in 1 .. D
        BY <2>2, <3>7, <3>10, <4>1, <4>2
      <4>3. CASE j = D + 1
        <5>1. 1 \in 1 .. N
          BY <2>3
        <5>2. FirstOf(at[i]) < FirstOf(k)
          BY <2>2, <3>4, <4>1, <5>1
        <5>3. at[i] < k
          BY <2>3, <3>4, <4>1, <5>2 DEF FirstOf, WordLen
        <5> QED BY <3>7, <4>1, <4>3, <5>3
      <4> QED BY <3>7, <4>2, <4>3
    <3>11. Traced(new, ats)'
      BY <1>2, <2>4, <2>8, <2>9, <2>10, <2>11, <3>5, <3>9, <3>10 DEF Traced
    <3> QED BY <3>11 DEF Origin
  <2> QED BY <2>5, <2>12, <2>13
<1> QED BY <1>4, <1>5, ReadHeld

LEMMA LoopOrigin ==
    ASSUME Line, Origin, BeginRound \/ NothingToRead \/ ReadTimesOut \/ UNCHANGED vars
    PROVE  Origin'
<1>1. PICK src, at : Traced(src, at)
  BY DEF Origin
<1>2. Arrived' = Arrived /\ UNCHANGED <<sent, done>>
  BY LoopHeld, StutterHeld
<1>3. CASE held' = held
  <2>1. Traced(src, at)'
    BY <1>1, <1>2, <1>3 DEF Traced, Nth
  <2> QED BY <2>1 DEF Origin
<1>4. CASE Len(held') = 0
  <2>1. Traced(src, at)'
    BY <1>1, <1>2, <1>4 DEF Traced
  <2> QED BY <2>1 DEF Origin
<1> QED BY <1>3, <1>4, LoopHeld, StutterHeld

-----------------------------------------------------------------------------
(* The invariant.                                                          *)

Inv == Typed /\ Transmitted /\ ThreeInv /\ Origin

LEMMA InitInv == Init => Inv
<1> SUFFICES ASSUME Init PROVE Inv
  OBVIOUS
<1>1. /\ out = << >> /\ pos = 0 /\ rx = << >> /\ phase = "delay" /\ input = << >>
      /\ sent = << >> /\ done = << >> /\ lost = FALSE /\ peak = 0
  BY DEF Init
<1>2. Len(<< >>) = 0
  OBVIOUS
<1>3. Typed
  BY InitTyped
<1>4. Transmitted
  BY <1>1, <1>2 DEF Transmitted
<1>5. held = << >> /\ Len(held) = 0
  BY <1>1 DEF held
<1>6. Arrived = 0
  BY <1>1, <1>2 DEF Arrived, WordLen
<1>7. ThreeInv
  <2>1. Len(sent) = 0 /\ Len(done) = 0
    BY <1>1, <1>2
  <2>2. InStep
    <3>1. Len(held) = Arrived - 17 * Len(done) /\ Len(done) <= Len(sent)
      BY <1>5, <1>6, <2>1
    <3>2. ~ lost /\ 1 .. Len(done) = {} /\ 1 .. Len(held) = {}
      BY <1>1, <1>5, <2>1
    <3> QED BY <3>1, <3>2, Zenon DEF InStep
  <2>3. Len(sent) - Len(done) <= peak
    BY <1>1, <2>1
  <2> QED BY <2>2, <2>3 DEF ThreeInv
<1>8. Origin
  <2>1. Len(done) = 0
    BY <1>1, <1>2
  <2>2. Traced(<< >>, << >>)
    BY <1>5, <2>1 DEF Traced
  <2> QED BY <2>2 DEF Origin
<1> QED BY <1>3, <1>4, <1>7, <1>8 DEF Inv

LEMMA NextInv == Inv /\ [Next]_vars => Inv'
<1> SUFFICES ASSUME Inv, [Next]_vars PROVE Inv'
  OBVIOUS
<1>1. Line /\ ThreeInv /\ Origin /\ Typed
  BY DEF Inv, Line, Typed
<1>2. Typed'
  BY <1>1, WritesTyped, ArriveTyped, LoopTyped, StutterTyped DEF Next
<1>3. CASE \E c \in Offered : GatewayWrites(c)
  BY <1>1, <1>2, <1>3, WritesHeld, WritesThree, WritesOrigin DEF Inv
<1>4. CASE Arrive
  BY <1>1, <1>2, <1>4, ArriveHeld, ArriveThree, ArriveOrigin DEF Inv
<1>5. CASE ReadBytes
  BY <1>1, <1>2, <1>5, ReadHeld, ReadThree, ReadOrigin DEF Inv
<1>6. CASE BeginRound \/ NothingToRead \/ ReadTimesOut
  BY <1>1, <1>2, <1>6, LoopHeld, LoopThree, LoopOrigin DEF Inv
<1>7. CASE UNCHANGED vars
  BY <1>1, <1>2, <1>7, StutterHeld, StutterThree, LoopOrigin DEF Inv
<1> QED BY <1>3, <1>4, <1>5, <1>6, <1>7 DEF Next, Loop

THEOREM Invariance == Spec => []Inv
BY InitInv, NextInv, PTL DEF Spec
-----------------------------------------------------------------------------
(* Embeds, whose Found is recursive.  First its equation: a function that  *)
(* satisfies it up to m can be continued to m + 1.                         *)

LEMMA FoundDef ==
    ASSUME NEW s, NEW t, NEW n \in Nat, Len(t) = n
    PROVE  Found(s, t) = [j \in 0 .. n |->
              IF j = 0 THEN 0
              ELSE IF Found(s, t)[j - 1] < Len(s) /\ s[Found(s, t)[j - 1] + 1] = t[j]
                   THEN Found(s, t)[j - 1] + 1 ELSE Found(s, t)[j - 1]]
<1> DEFINE Is(g, m) ==
             g = [j \in 0 .. m |->
                    IF j = 0 THEN 0
                    ELSE IF g[j - 1] < Len(s) /\ s[g[j - 1] + 1] = t[j] THEN g[j - 1] + 1 ELSE g[j - 1]]
           T == {m \in Nat : \E g : Is(g, m)}
<1>1. 0 \in T
  <2>1. Is([j \in 0 .. 0 |-> 0], 0)
    OBVIOUS
  <2> QED BY <2>1
<1>2. ASSUME NEW m \in T PROVE m + 1 \in T
  <2>1. PICK g : Is(g, m)
    BY <1>2
  <2> DEFINE v == IF g[m] < Len(s) /\ s[g[m] + 1] = t[m + 1] THEN g[m] + 1 ELSE g[m]
             h == [j \in 0 .. m + 1 |-> IF j <= m THEN g[j] ELSE v]
  <2>2. Is(h, m + 1)
    <3>1. m \in Nat
      OBVIOUS
    <3>2. ASSUME NEW j \in 0 .. m + 1
          PROVE  h[j] = IF j = 0 THEN 0
                    ELSE IF h[j - 1] < Len(s) /\ s[h[j - 1] + 1] = t[j] THEN h[j - 1] + 1 ELSE h[j - 1]
      <4>1. CASE j = 0
        BY <2>1, <3>1, <4>1
      <4>2. CASE j \in 1 .. m
        <5>1. j \in 0 .. m /\ j # 0 /\ j - 1 \in 0 .. m /\ j - 1 \in 0 .. m + 1 /\ j <= m /\ j - 1 <= m
          BY <3>1, <4>2
        <5>2. h[j] = g[j] /\ h[j - 1] = g[j - 1]
          BY <5>1
        <5>3. g[j] = IF g[j - 1] < Len(s) /\ s[g[j - 1] + 1] = t[j] THEN g[j - 1] + 1 ELSE g[j - 1]
          BY <2>1, <5>1, Zenon
        <5> HIDE DEF h
        <5> QED BY <5>1, <5>2, <5>3
      <4>3. CASE j = m + 1
        <5>1. j # 0 /\ j - 1 = m /\ m \in 0 .. m + 1 /\ m <= m /\ ~ j <= m
          BY <3>1, <4>3
        <5>2. h[j] = v /\ h[m] = g[m]
          BY <5>1
        <5> HIDE DEF h
        <5> QED BY <4>3, <5>1, <5>2
      <4> QED BY <3>1, <4>1, <4>2, <4>3
    <3> QED BY <3>2
  <2>3. m + 1 \in Nat
    OBVIOUS
  <2> HIDE DEF Is, h
  <2> QED BY <2>2, <2>3
<1>3. n \in T
  <2> HIDE DEF T
  <2>1. Nat \subseteq T
    BY <1>1, <1>2, NatSetInduction
  <2> QED BY <2>1
<1>4. \E g : Is(g, n)
  BY <1>3
<1> QED BY <1>4 DEF Found

\* The count never exceeds the commands sought, and never goes back.
LEMMA FoundGrows ==
    ASSUME NEW s, NEW t, NEW m \in Nat, Len(s) = m, NEW n \in Nat, Len(t) = n
    PROVE  /\ \A j \in 0 .. n : Found(s, t)[j] \in 0 .. m
           /\ \A i, j \in 0 .. n : i <= j => Found(s, t)[i] <= Found(s, t)[j]
           /\ \A j \in 1 .. n : LET k == Found(s, t)[j - 1]
                                IN  k < m /\ s[k + 1] = t[j] => Found(s, t)[j] = k + 1
<1> DEFINE f == Found(s, t)
<1>1. f[0] = 0 /\ \A j \in 1 .. n : f[j] = IF f[j - 1] < m /\ s[f[j - 1] + 1] = t[j]
                                          THEN f[j - 1] + 1 ELSE f[j - 1]
  BY FoundDef
<1> HIDE DEF f
<1>2. \A j \in 0 .. n : f[j] \in 0 .. m
  <2> DEFINE T == {j \in Nat : j <= n => f[j] \in 0 .. m}
  <2>1. 0 \in T
    BY <1>1
  <2>2. ASSUME NEW j \in T PROVE j + 1 \in T
    <3>1. j + 1 <= n => j + 1 \in 1 .. n /\ j + 1 - 1 = j /\ f[j] \in 0 .. m
      BY <2>2
    <3> QED BY <1>1, <3>1
  <2>3. Nat \subseteq T
    <3> HIDE DEF T
    <3> QED BY <2>1, <2>2, NatSetInduction
  <2> QED BY <2>3
<1>3. \A j \in 1 .. n : f[j - 1] <= f[j]
  <2>1. ASSUME NEW j \in 1 .. n PROVE f[j - 1] <= f[j]
    <3>1. j - 1 \in 0 .. n /\ f[j - 1] \in 0 .. m
      BY <1>2
    <3> QED BY <1>1, <3>1
  <2> QED BY <2>1
<1>4. ASSUME NEW i \in 0 .. n PROVE \A j \in 0 .. n : i <= j => f[i] <= f[j]
  <2> DEFINE T == {d \in Nat : i + d <= n => f[i] <= f[i + d]}
  <2>1. 0 \in T
    BY <1>2
  <2>2. ASSUME NEW d \in T PROVE d + 1 \in T
    <3>1. d \in Nat
      BY <2>2
    <3>2. ASSUME i + (d + 1) <= n PROVE f[i] <= f[i + (d + 1)]
      <4>1. i + (d + 1) \in 1 .. n /\ i + (d + 1) - 1 = i + d /\ i + d \in 0 .. n
        BY <3>1, <3>2
      <4>2. f[i] <= f[i + d] /\ f[i + d] <= f[i + (d + 1)]
        BY <1>3, <2>2, <4>1
      <4>3. f[i] \in 0 .. m /\ f[i + d] \in 0 .. m /\ f[i + (d + 1)] \in 0 .. m
        BY <1>2, <4>1
      <4> QED BY <4>2, <4>3
    <3> QED BY <3>1, <3>2
  <2>3. Nat \subseteq T
    <3> HIDE DEF T
    <3> QED BY <2>1, <2>2, NatSetInduction
  <2>4. ASSUME NEW j \in 0 .. n, i <= j PROVE f[i] <= f[j]
    <3>1. j - i \in Nat /\ i + (j - i) = j /\ j <= n
      BY <2>4
    <3> QED BY <2>3, <3>1
  <2> QED BY <2>4
<1> QED BY <1>1, <1>2, <1>4 DEF f

\* The commands of s stand in t, at the places at, one behind the other.
StandsIn(s, t, m, n, at) ==
    /\ \A j \in 1 .. m : at[j] \in 1 .. n /\ s[j] = t[at[j]]
    /\ \A i, j \in 1 .. m : i < j => at[i] < at[j]

\* If each command of s stands in t, one behind the other, Found finds all.
LEMMA EmbedsBy ==
    ASSUME NEW s, NEW t, NEW m \in Nat, Len(s) = m, NEW n \in Nat, Len(t) = n, NEW at,
           StandsIn(s, t, m, n, at)
    PROVE  Embeds(s, t)
<1> DEFINE f == Found(s, t)
<1>1. /\ \A j \in 0 .. n : f[j] \in 0 .. m
      /\ \A i, j \in 0 .. n : i <= j => f[i] <= f[j]
      /\ \A j \in 1 .. n : f[j - 1] < m /\ s[f[j - 1] + 1] = t[j] => f[j] = f[j - 1] + 1
  BY FoundGrows
<1> HIDE DEF f
<1> DEFINE T == {i \in Nat : i \in 1 .. m => i <= f[at[i]]}
<1>2. 0 \in T
  OBVIOUS
<1>3. ASSUME NEW i \in T PROVE i + 1 \in T
  <2>1. i \in Nat
    BY <1>3
  <2>2. ASSUME i + 1 \in 1 .. m PROVE i + 1 <= f[at[i + 1]]
    <3> DEFINE a == at[i + 1]
    <3>1. a \in 1 .. n /\ a - 1 \in 0 .. n /\ a \in 0 .. n /\ s[i + 1] = t[a]
      BY <2>2 DEF StandsIn
    <3>2. f[a - 1] \in 0 .. m /\ f[a] \in 0 .. m /\ f[a - 1] <= f[a]
      BY <1>1, <3>1
    <3>3. i <= f[a - 1]
      <4>1. CASE i = 0
        BY <3>2, <4>1
      <4>2. CASE i # 0
        <5>1. i \in 1 .. m /\ i < i + 1
          BY <2>1, <2>2, <4>2
        <5>2. at[i] < a /\ at[i] \in 1 .. n /\ i <= f[at[i]]
          BY <1>3, <2>2, <5>1 DEF StandsIn
        <5>3. at[i] \in 0 .. n /\ at[i] <= a - 1
          BY <3>1, <5>2
        <5>4. f[at[i]] <= f[a - 1] /\ f[at[i]] \in 0 .. m
          BY <1>1, <3>1, <5>3
        <5> QED BY <2>1, <3>2, <5>2, <5>4
      <4> QED BY <4>1, <4>2
    <3>4. CASE i = f[a - 1]
      <4>1. f[a - 1] < m /\ s[f[a - 1] + 1] = t[a]
        BY <2>1, <2>2, <3>1, <3>4
      <4>2. f[a] = f[a - 1] + 1
        BY <1>1, <3>1, <4>1
      <4> QED BY <2>1, <3>4, <4>2
    <3>5. CASE i < f[a - 1]
      BY <2>1, <3>2, <3>5
    <3> QED BY <2>1, <3>2, <3>3, <3>4, <3>5
  <2> QED BY <2>1, <2>2
<1>4. Nat \subseteq T
  <2> HIDE DEF T
  <2> QED BY <1>2, <1>3, NatSetInduction
<1>5. n \in 0 .. n /\ f[n] \in 0 .. m
  BY <1>1
<1>6. f[n] = m
  <2>1. CASE m = 0
    BY <1>5, <2>1
  <2>2. CASE m # 0
    <3>1. m \in 1 .. m /\ m <= f[at[m]] /\ at[m] \in 1 .. n
      BY <1>4, <2>2 DEF StandsIn
    <3>2. at[m] \in 0 .. n /\ at[m] <= n
      BY <3>1
    <3>3. f[at[m]] <= f[n] /\ f[at[m]] \in 0 .. m
      BY <1>1, <1>5, <3>2
    <3> QED BY <1>5, <3>1, <3>3
  <2> QED BY <2>1, <2>2
<1> QED BY <1>6 DEF Embeds, f

-----------------------------------------------------------------------------
(* The theorems.                                                           *)

\* Neither the ring buffer nor the word that is read ever exceeds its size,
\* and the report is never put off: for any commands and reporting period.
THEOREM TypeCorrect == Spec => []TypeOK
<1>1. Inv => TypeOK
  BY DEF Inv, Typed
<1> QED BY <1>1, Invariance, PTL

\* However often the buffer overruns and the framing slips, whatever is
\* written and however much of it: the Arduino recognises only commands that
\* were written, in the order in which they were.
THEOREM RecognisesOnlySent == Spec => []OnlySentCommands
<1>1. ASSUME Inv PROVE OnlySentCommands
  <2>1. PICK src, at : Traced(src, at)
    BY <1>1 DEF Inv, Origin
  <2>2. PICK m \in Nat, n \in Nat : Len(done) = m /\ Len(sent) = n
    BY <1>1 DEF Inv, Typed, TypeOK
  <2>3. StandsIn(done, sent, m, n, at)
    BY <2>1, <2>2 DEF Traced, StandsIn
  <2>4. Embeds(done, sent)
    BY <2>2, <2>3, EmbedsBy
  <2> QED BY <2>4 DEF OnlySentCommands
<1> QED BY <1>1, Invariance, PTL

\* As long as no more than three commands are ever under way, no letter is
\* lost and the Arduino recognises every command, in order.
THEOREM ThreeCommandsFit == Spec => []ThreeFit
<1>1. ASSUME Inv PROVE ThreeFit
  <2>1. SUFFICES ASSUME peak <= 3 PROVE ~ lost /\ done = SubSeq(sent, 1, Len(done))
    BY DEF ThreeFit
  <2>2. InStep
    BY <1>1, <2>1 DEF Inv, ThreeInv
  <2>3. sent \in Seq(Command) /\ done \in Seq(Command) /\ Len(done) \in 0 .. Len(sent)
    BY <1>1, <2>2 DEF Inv, Typed, TypeOK, InStep
  <2>4. /\ SubSeq(sent, 1, Len(done)) \in Seq(Command)
        /\ Len(SubSeq(sent, 1, Len(done))) = Len(done)
        /\ \A i \in 1 .. Len(done) : SubSeq(sent, 1, Len(done))[i] = sent[i]
    BY <2>3
  <2>5. done = SubSeq(sent, 1, Len(done))
    BY <2>2, <2>3, <2>4, SeqEqual DEF InStep
  <2> QED BY <2>2, <2>5 DEF InStep
<1> QED BY <1>1, Invariance, PTL

-----------------------------------------------------------------------------
(* The report.  frequency counts the rounds since the last one: a round    *)
(* that has begun is counted by its end, whichever end that is.            *)

RoundsCounted == rounds <= IF phase = "delay" THEN frequency ELSE frequency + 1

LEMMA NextRounds == Typed /\ RoundsCounted /\ [Next]_vars => RoundsCounted'
<1> SUFFICES ASSUME Typed, RoundsCounted, [Next]_vars PROVE RoundsCounted'
  OBVIOUS
<1>0. frequency \in Nat /\ rounds \in Nat /\ FREQUENCY \in Nat \ {0}
  BY FrequencyAssumption DEF Typed, TypeOK
<1> USE DEF RoundsCounted
<1>1. ASSUME NEW c \in Offered, GatewayWrites(c) PROVE RoundsCounted'
  BY <1>1 DEF GatewayWrites
<1>2. CASE Arrive
  BY <1>2 DEF Arrive
<1>3. CASE BeginRound
  BY <1>0, <1>3 DEF BeginRound
<1>4. CASE NothingToRead \/ ReadTimesOut
  <2>1. phase # "delay" /\ EndRound /\ rounds' = rounds
    BY <1>4 DEF NothingToRead, ReadTimesOut, history
  <2> QED BY <1>0, <2>1 DEF EndRound
<1>5. CASE ReadBytes
  <2>1. /\ phase # "delay" /\ rounds' = rounds
        /\ EndRound \/ (phase' = "wait" /\ frequency' = frequency)
    BY <1>5 DEF ReadBytes
  <2> QED BY <1>0, <2>1 DEF EndRound
<1>6. CASE UNCHANGED vars
  BY <1>6 DEF vars, history
<1> QED BY <1>1, <1>2, <1>3, <1>4, <1>5, <1>6 DEF Next, Loop

\* Of any FREQUENCY + 1 rounds of loop() one begins with a report, whatever
\* the rounds read: for any commands, in any number, and any reporting period.
THEOREM ReportsKept == Spec => []ReportsInTime
<1>1. Init => RoundsCounted
  BY DEF Init, RoundsCounted
<1>2. Inv => Typed
  BY DEF Inv
<1>3. Typed /\ RoundsCounted /\ [Next]_vars => RoundsCounted'
  BY NextRounds
<1>4. Typed /\ RoundsCounted => ReportsInTime
  <2> SUFFICES ASSUME Typed, RoundsCounted PROVE rounds <= FREQUENCY
    BY DEF ReportsInTime
  <2>1. /\ phase \in {"read", "wait", "delay"} /\ rounds \in Nat
        /\ frequency \in Nat /\ frequency <= FREQUENCY /\ FREQUENCY \in Nat
        /\ phase \in {"read", "wait"} => frequency < FREQUENCY
    BY FrequencyAssumption DEF Typed, TypeOK, Counted
  <2> QED BY <2>1 DEF RoundsCounted
<1> QED BY <1>1, <1>2, <1>3, <1>4, Invariance, PTL DEF Spec
=============================================================================
