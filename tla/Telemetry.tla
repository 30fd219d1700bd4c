----------------------------- MODULE Telemetry -----------------------------
(***************************************************************************)
(* The way of a sensor record: the Arduino writes reports of records       *)
(* (printT1, printT2); the serial line hands them to the gateway in chunks *)
(* that begin and end anywhere; makeSerial pieces the records together;    *)
(* serialEvent sends them in one CoAP PUT and waits for the answer; the    *)
(* platform opens a database connection and inserts them one by one        *)
(* (handlePUT, rawInsert).                                                 *)
(*                                                                         *)
(* A record is Width letters and an "@".  Letter j of record k is <<k, j>>;*)
(* the first is an R, as no other is, and letter Width + 1 is the "@".     *)
(* The decisions serialEvent takes afterwards are in ModuleMain.           *)
(***************************************************************************)
EXTENDS Integers, FiniteSets, Sequences, SequencesExt

CONSTANTS
    Width,       \* letters of a record: 17
    MaxCon,      \* connections the database accepts
    MaxReports,  \* bound: reports
    MaxChunks,   \* bound: serial events
    MaxFaults    \* bound: lost messages, early time-outs, failed statements

ASSUME WidthAssumption == Width \in Nat /\ Width >= 2
ASSUME ConAssumption   == MaxCon \in Nat

VARIABLES
    line,        \* letters written and not yet read by the gateway
    written,     \* records written
    reports,     \* the first record of each report
    readString,  \* the beginning of a record
    waits,       \* the PUT that serialEvent waits for, 0: none
    puts,        \* the PUTs, each with its records, how many are dealt with,
                 \* whether it has a connection, and where it is
    con,         \* open connections
    SENSOR_DATA, \* the table, in the order of RCV_DATE
    chunks, faults,
    \* history
    torn,        \* reports that a chunk has torn (see Tears)
    abandoned    \* PUTs whose answer was not waited for

arduino  == <<written, reports>>
platform == <<con, SENSOR_DATA>>
history  == <<torn, abandoned>>
vars     == <<line, arduino, readString, waits, puts, platform, chunks, faults, history>>

Init ==
    /\ line = << >> /\ written = 0 /\ reports = {} /\ readString = << >>
    /\ waits = 0 /\ puts = << >> /\ con = 0 /\ SENSOR_DATA = << >>
    /\ chunks = 0 /\ faults = 0 /\ torn = {} /\ abandoned = {}

Fault == faults < MaxFaults /\ faults' = faults + 1

-----------------------------------------------------------------------------
(* The Arduino.                                                            *)

Letters(k) == [j \in 1 .. Width + 1 |-> <<k, j>>]
Record(k)  == SubSeq(Letters(k), 1, Width)

\* printT1 writes two records, none if the sensor fails; printT2 writes one.
Report ==
    /\ Cardinality(reports) < MaxReports
    /\ reports' = reports \cup {written + 1}
    /\ \E n \in {1, 3} :
          /\ written' = written + n
          /\ line' = line \o FlattenSeq([i \in 1 .. n |-> Letters(written + i)])
    /\ UNCHANGED <<readString, waits, puts, platform, chunks, faults, history>>

-----------------------------------------------------------------------------
(* The gateway.                                                            *)

IsAt(l) == l[2] = Width + 1
IsR(l)  == l[2] = 1

\* data.split("@"), which leaves out empty fields at the end.  cut[i] are the
\* fields of the first i letters.
split(s) ==
    LET cut[i \in 0 .. Len(s)] ==
            IF i = 0 THEN << << >> >>
            ELSE LET fields == cut[i - 1]
                     n      == Len(fields)
                 IN  IF IsAt(s[i]) THEN Append(fields, << >>)
                                   ELSE [fields EXCEPT ![n] = Append(@, s[i])]
        all  == cut[Len(s)]
        full == {n \in DOMAIN all : all[n] # << >>}
    IN  SubSeq(all, 1, Max({0} \cup full))

\* Mutant: any chunk begins a record.
makeSerialAny(data) ==
    LET fields == split(data)
        pieces == [fields EXCEPT ![1] = readString \o @]
        rest   == pieces[Len(pieces)]
        whole  == Len(rest) >= Width
    IN  IF fields = << >>
        THEN [resList |-> << >>, readString |-> readString]
        ELSE [resList    |-> IF whole THEN pieces ELSE Front(pieces),
              readString |-> IF whole THEN << >> ELSE rest]

\* Mutant: a record is complete with the letter after its last.
makeSerialLate(data) ==
    LET fields == split(data)
        pieces == [fields EXCEPT ![1] = readString \o @]
        rest   == pieces[Len(pieces)]
        whole  == Len(rest) > Width
    IN  IF (readString = << >> /\ ~IsR(data[1])) \/ fields = << >>
        THEN [resList |-> << >>, readString |-> readString]
        ELSE [resList    |-> IF whole THEN pieces ELSE Front(pieces),
              readString |-> IF whole THEN << >> ELSE rest]

\* makeSerial: what it returns and the readString it leaves.  A chunk that
\* does not begin with R is thrown away unless a record is begun.
makeSerial(data) ==
    LET fields == split(data)
        pieces == [fields EXCEPT ![1] = readString \o @]
        rest   == pieces[Len(pieces)]
        whole  == Len(rest) >= Width
    IN  IF (readString = << >> /\ ~IsR(data[1])) \/ fields = << >>
        THEN [resList |-> << >>, readString |-> readString]
        ELSE [resList    |-> IF whole THEN pieces ELSE Front(pieces),
              readString |-> IF whole THEN << >> ELSE rest]

ReportOf(k) == CHOOSE r \in reports : r <= k /\ \A q \in reports : q <= k => q <= r

\* A chunk tears a report that begins inside of it, and one whose "@" it
\* begins with.
Tears(data) ==
    {r \in reports : \E i \in 2 .. Len(data) : data[i] = <<r, 1>>}
        \cup (IF IsAt(data[1]) THEN {ReportOf(data[1][1])} ELSE {})

\* Mutant: what arrives after available() is lost.
serialEventDrops ==
    /\ waits = 0 /\ chunks < MaxChunks /\ chunks' = chunks + 1
    /\ \E n \in 1 .. Len(line) :
          LET data == SubSeq(line, 1, n)
              m    == makeSerial(data)
          IN  /\ line' = << >>
              /\ readString' = m.readString
              /\ torn' = torn \cup Tears(data)
              /\ IF m.resList = << >>
                 THEN UNCHANGED <<waits, puts>>
                 ELSE /\ waits' = Len(puts) + 1
                      /\ puts' = Append(puts, [recs |-> m.resList, done |-> 0, con |-> FALSE,
                                               at |-> "sent"])
    /\ UNCHANGED <<arduino, platform, faults, abandoned>>

\* serialEvent reads what is available, and sends what makeSerial returns.
serialEvent ==
    /\ waits = 0 /\ chunks < MaxChunks /\ chunks' = chunks + 1
    /\ \E n \in 1 .. Len(line) :
          LET data == SubSeq(line, 1, n)
              m    == makeSerial(data)
          IN  /\ line' = SubSeq(line, n + 1, Len(line))
              /\ readString' = m.readString
              /\ torn' = torn \cup Tears(data)
              /\ IF m.resList = << >>
                 THEN UNCHANGED <<waits, puts>>
                 ELSE /\ waits' = Len(puts) + 1
                      /\ puts' = Append(puts, [recs |-> m.resList, done |-> 0, con |-> FALSE,
                                               at |-> "sent"])
    /\ UNCHANGED <<arduino, platform, faults, abandoned>>

\* waitForResponse returns with the answer, or without one after the time-out.
Answered ==
    /\ waits # 0 /\ puts[waits].at = "answered" /\ waits' = 0
    /\ UNCHANGED <<line, arduino, readString, puts, platform, chunks, faults, history>>

TimesOut ==
    /\ waits # 0 /\ waits' = 0 /\ abandoned' = abandoned \cup {waits}
    /\ IF puts[waits].at = "lost" THEN UNCHANGED faults ELSE Fault
    /\ UNCHANGED <<line, arduino, readString, puts, platform, chunks, torn>>

-----------------------------------------------------------------------------
(* The platform.                                                           *)

Lost(p) ==
    /\ puts[p].at = "sent" /\ puts' = [puts EXCEPT ![p].at = "lost"] /\ Fault
    /\ UNCHANGED <<line, arduino, readString, waits, platform, chunks, history>>

\* handlePUT begins with a connection of its own; the constructor keeps to
\* itself that there is none.
handlePUT(p) ==
    /\ puts[p].at = "sent"
    /\ puts' = [puts EXCEPT ![p].at = "inserts", ![p].con = con < MaxCon]
    /\ con' = IF con < MaxCon THEN con + 1 ELSE con
    /\ UNCHANGED <<line, arduino, readString, waits, SENSOR_DATA, chunks, faults, history>>

\* One turn of the loop of rawInsert, and the answer OK after the last.
rawInsert(p) ==
    /\ puts[p].at = "inserts" /\ puts[p].con
    /\ SENSOR_DATA' = Append(SENSOR_DATA, puts[p].recs[puts[p].done + 1])
    /\ puts' = [puts EXCEPT ![p].done = @ + 1,
                            ![p].at = IF puts[p].done + 1 = Len(puts[p].recs) THEN "answered" ELSE @]
    /\ UNCHANGED <<line, arduino, readString, waits, con, chunks, faults, history>>

\* Mutant: a record that fails is skipped.
rawInsertFailsOne(p) ==
    /\ puts[p].at = "inserts"
    /\ IF puts[p].con THEN Fault ELSE UNCHANGED faults
    /\ puts' = [puts EXCEPT ![p].done = @ + 1,
                            ![p].at = IF puts[p].done + 1 = Len(puts[p].recs) THEN "answered" ELSE @]
    /\ UNCHANGED <<line, arduino, readString, waits, platform, chunks, history>>

\* A statement that fails, or the want of a connection, ends the loop; the
\* answer is OK all the same.
rawInsertFails(p) ==
    /\ puts[p].at = "inserts"
    /\ IF puts[p].con THEN Fault ELSE UNCHANGED faults
    /\ puts' = [puts EXCEPT ![p].at = "answered"]
    /\ UNCHANGED <<line, arduino, readString, waits, platform, chunks, history>>

\* Nobody closes a connection; the collector may, when its PUT is answered.
Collect ==
    /\ con > Cardinality({p \in DOMAIN puts : puts[p].at = "inserts" /\ puts[p].con})
    /\ con' = con - 1
    /\ UNCHANGED <<line, arduino, readString, waits, puts, SENSOR_DATA, chunks, faults, history>>

Platform(p) == Lost(p) \/ handlePUT(p) \/ rawInsert(p) \/ rawInsertFails(p)

Next ==
    \/ Report \/ serialEvent \/ Answered \/ TimesOut \/ Collect
    \/ \E p \in DOMAIN puts : Platform(p)

Spec == Init /\ [][Next]_vars

-----------------------------------------------------------------------------
(* Properties.                                                             *)

RECORDS == {Record(k) : k \in 1 .. written}

TypeOK ==
    /\ \A i \in DOMAIN line : line[i] \in (1 .. written) \X (1 .. Width + 1)
    /\ reports \subseteq 1 .. written /\ torn \subseteq reports
    /\ Len(readString) < Width /\ waits \in 0 .. Len(puts) /\ abandoned \subseteq DOMAIN puts
    /\ \A p \in DOMAIN puts : /\ puts[p].recs # << >> /\ puts[p].done \in 0 .. Len(puts[p].recs)
                              /\ puts[p].at \in {"sent", "lost", "inserts", "answered"}
    /\ con \in 0 .. MaxCon

Increasing(s) == \A i, j \in DOMAIN s : i < j => s[i][1][1] < s[j][1][1]

forwarded == FlattenSeq([p \in DOMAIN puts |-> puts[p].recs])

\* However the line is cut into chunks, and whatever chunks are thrown away,
\* the gateway sends only whole records, each at most once and in the order in
\* which the Arduino wrote them: none is pieced together from two.
ForwardsWhole == ToSet(forwarded) \subseteq RECORDS /\ Increasing(forwarded)

\* A report whose first letter begins a chunk and that is never cut in front of
\* an "@" is sent completely, whatever became of those before it.
Resynchronises ==
    line = << >> =>
        \A k \in 1 .. written : ReportOf(k) \notin torn => Record(k) \in ToSet(forwarded)

\* The table has records in the order in which they were written, unless the
\* gateway has given up a PUT, and none of them twice.
InOrder ==
    /\ abandoned = {} => Increasing(SENSOR_DATA)
    /\ IsInjective(SENSOR_DATA)

\* Of a PUT it has the first so many records, and all of them if the database
\* accepted the connection and nothing failed.
NoHoles ==
    \A p \in DOMAIN puts :
        LET stored(i) == puts[p].recs[i] \in ToSet(SENSOR_DATA)
        IN  /\ \A i, j \in DOMAIN puts[p].recs : i < j /\ stored(j) => stored(i)
            /\ puts[p].at = "answered" /\ puts[p].con /\ faults = 0 =>
                   \A i \in DOMAIN puts[p].recs : stored(i)

StoresFaithfully == InOrder /\ NoHoles
=============================================================================
