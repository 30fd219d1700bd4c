------------------------ MODULE PlatformMain_proofs ------------------------
(***************************************************************************)
(* What holds of the platform server for any number of connections, any    *)
(* set of commands and any number of requests and failures.                *)
(***************************************************************************)
EXTENDS PlatformMain, FiniteSetTheorems, TLAPS

-----------------------------------------------------------------------------
(* The UPDATE statement keeps the shape of the row.                        *)

LEMMA UpdateType ==
    ASSUME NEW r \in Row, NEW c \in Command
    PROVE  Update(r, c) \in Row
<1>1. CASE c.dev = "MOTOR"
  <2>1. Update(r, c) = UpdateMotor(r, c)
    BY <1>1 DEF Update
  <2>2. UpdateMotor(r, c) \in Row
    BY DEF UpdateMotor, Row, Device, Relay
  <2> QED BY <2>1, <2>2
<1>2. CASE c.dev # "MOTOR"
  <2>1. c \in RelayCommand
    BY <1>2 DEF Command, MotorCommand, RelayCommand
  <2>2. Update(r, c) = UpdateRelay(r, c)
    BY <1>2 DEF Update
  <2>3. UpdateRelay(r, c) \in Row
    BY <2>1 DEF UpdateRelay, Row, Device, RelayCommand
  <2> QED BY <2>2, <2>3
<1> QED BY <1>1, <1>2

\* A thread that serves a request serves a control command.
ServesCommand == \A s \in Session : pc[s] \in Serving => req[s] \in Command

\* Once a thread has assigned payload it is a command; only a crash empties
\* it, and a crash ends the threads.
PayloadAssigned == (\E s \in Session : pc[s] = "send") => payload \in Command

-----------------------------------------------------------------------------
(* Type correctness.  The datagrams are commands because a thread sends its*)
(* request or the payload, and both are commands by the time it sends.     *)

Typed == TypeOK /\ ServesCommand /\ PayloadAssigned

LEMMA InitTyped == Init => Typed
BY DEF Init, Typed, TypeOK, ServesCommand, PayloadAssigned, PC, Serving, Row, InitRow, NoRequest,
       Reply, NoReply

LEMMA AppTyped ==
    ASSUME Typed, NEW s \in Session, App(s) \/ User(s)
    PROVE  Typed'
<1> USE DEF Typed, TypeOK, ServesCommand, PayloadAssigned, server, tables, world, counts, history
<1>1. CASE Accept(s)
  BY <1>1 DEF Accept, PC, Serving, Reply
<1>2. ASSUME NEW r \in Offered \cup {StateRequest}, AppSend(s, r) PROVE Typed'
  <2>1. r \in Request
    BY OfferedAssumption DEF Request
  <2> QED BY <1>2, <2>1 DEF AppSend
<1>3. CASE AppClose(s)
  BY <1>3 DEF AppClose, Request
<1>4. CASE AppDie(s)
  BY <1>4 DEF AppDie
<1>5. CASE AppReceive(s)
  BY <1>5 DEF AppReceive, Reply
<1>6. CASE AppSeesClose(s)
  BY <1>6 DEF AppSeesClose
<1> QED BY <1>1, <1>2, <1>3, <1>4, <1>5, <1>6 DEF App, User

LEMMA ThreadTyped ==
    ASSUME Typed, NEW s \in Session, Thread(s)
    PROVE  Typed'
<1> USE DEF Typed, TypeOK, ServesCommand, PayloadAssigned, Goto, server, tables, world, counts, history
<1>1. CASE OpenDatabase(s)
  <2>1. \/ db' = [db EXCEPT ![s] = TRUE] /\ faults' = faults
        \/ db' = [db EXCEPT ![s] = FALSE] /\ faults' = faults + 1
    BY <1>1 DEF OpenDatabase
  <2>3. db' \in [Session -> BOOLEAN]
    BY <2>1, Zenon
  <2>4. faults' \in Nat
    BY <2>1
  <2>2. pc' \in [Session -> PC] /\ ServesCommand' /\ PayloadAssigned'
    BY <1>1 DEF OpenDatabase, PC, Serving
  <2> QED BY <1>1, <2>2, <2>3, <2>4 DEF OpenDatabase
<1>2. CASE ReadControl(s)
  BY <1>2 DEF ReadControl, PC, Serving, Request
<1>3. CASE ReadState(s)
  <2>0. \/ outbox' = outbox
        \/ outbox' = [outbox EXCEPT ![s] = "row"]
        \/ outbox' = [outbox EXCEPT ![s] = "F"]
    BY <1>3, Zenon DEF ReadState
  <2>1. outbox' \in [Session -> Reply]
    BY <2>0 DEF Reply
  <2>4. faults' \in Nat
    BY <1>3 DEF ReadState
  <2>2. pc' \in [Session -> PC] /\ ServesCommand' /\ PayloadAssigned'
    BY <1>3 DEF ReadState, PC, Serving
  <2>3. inbox' \in [Session -> Request \cup {NoRequest}]
    BY <1>3 DEF ReadState
  <2> QED BY <1>3, <2>1, <2>2, <2>3, <2>4 DEF ReadState
<1>4. CASE ReadClose(s)
  BY <1>4 DEF ReadClose, PC, Serving
<1>5. CASE AssignPayload(s)
  BY <1>5 DEF AssignPayload, PC, Serving
<1>6. CASE CoapSend(s)
  <2>1. req[s] \in Command
    BY <1>6 DEF CoapSend, Serving
  <2>2. PICK m \in {req[s], payload} :
          /\ wire' = [wire EXCEPT ![s] = m]
          /\ net' = net \cup {[id |-> sent', ses |-> s, msg |-> m, code |-> "GET"]}
    BY <1>6 DEF CoapSend
  <2>3. sent' \in Nat /\ tok' \in [Session -> Nat]
    BY <1>6 DEF CoapSend
  <2>4. pc' \in [Session -> PC] /\ ServesCommand' /\ PayloadAssigned'
    BY <1>6, <2>1 DEF CoapSend, PC, Serving
  <2>5. wire' \in [Session -> Command \cup {NoCommand}]
    BY <2>1, <2>2
  <2>6. payload \in Command
    BY <1>6 DEF CoapSend
  <2>7. net' \subseteq Message
    BY <2>1, <2>2, <2>3, <2>6 DEF Message
  <2> QED BY <1>6, <2>3, <2>4, <2>5, <2>7 DEF CoapSend
<1>7. CASE CoapResponse(s)
  BY <1>7 DEF CoapResponse, PC, Serving, Mishap
<1>8. CASE CoapTimeout(s)
  BY ZenonT(40), <1>8 DEF CoapTimeout, PC, Serving, Mishap, Unanswered
<1>9. CASE InsertLog(s)
  <2>1. CASE log' = Append(log, req[s]) /\ Goto(s, "update") /\ UNCHANGED <<faults, trouble>>
    <3>1. req[s] \in Command
      BY <1>9 DEF InsertLog, Serving
    <3>2. log' \in Seq(Command)
      BY <2>1, <3>1
    <3> QED BY <1>9, <2>1, <3>2 DEF InsertLog, PC, Serving
  <2>2. CASE StatementFails(s, "nolog") /\ log' = log
    <3>1. faults' \in Nat
      BY <2>2 DEF StatementFails
    <3>2. trouble' \in [Session -> SUBSET Mishap]
      BY <2>2 DEF StatementFails, Mishap
    <3> QED BY <1>9, <2>2, <3>1, <3>2 DEF InsertLog, StatementFails, PC, Serving
  <2> QED BY <1>9, <2>1, <2>2 DEF InsertLog
<1>10. CASE UpdateState(s)
  <2>0. req[s] \in Command
    BY <1>10 DEF UpdateState, Serving
  <2>1. CASE row' = Update(row, req[s]) /\ Goto(s, "reply")
                 /\ UNCHANGED <<faults, trouble, unapplied>>
    <3>1. row' \in Row
      BY <2>0, <2>1, UpdateType
    <3> QED BY <1>10, <2>1, <3>1 DEF UpdateState, PC, Serving
  <2>2. CASE /\ StatementFails(s, "nostate") /\ row' = row
             /\ unapplied' = IF Toggles(req[s])
                             THEN [unapplied EXCEPT ![req[s].dev] = @ + 1]
                             ELSE unapplied
    <3>1. faults' \in Nat
      BY <2>2 DEF StatementFails
    <3>2. trouble' \in [Session -> SUBSET Mishap]
      BY <2>2 DEF StatementFails, Mishap
    <3>3. unapplied' \in [Device -> Nat]
      <4>1. \/ unapplied' = unapplied
            \/ unapplied' = [unapplied EXCEPT ![req[s].dev] = @ + 1]
        BY <2>2
      <4>2. unapplied \in [Device -> Nat]
        OBVIOUS
      <4> HIDE DEF Typed, TypeOK, ServesCommand, PayloadAssigned
      <4> QED BY <4>1, <4>2
    <3> QED BY <1>10, <2>2, <3>1, <3>2, <3>3 DEF UpdateState, StatementFails, PC, Serving
  <2> QED BY <1>10, <2>1, <2>2 DEF UpdateState
<1>11. CASE ReplyToApp(s)
  BY ZenonT(40), <1>11 DEF ReplyToApp, EndOfPass, PC, Serving, Reply
<1> QED BY <1>1, <1>2, <1>3, <1>4, <1>5, <1>6, <1>7, <1>8, <1>9, <1>10, <1>11
        DEF Thread

LEMMA GatewayTyped ==
    ASSUME Typed, NEW m \in net, Gateway(m)
    PROVE  Typed'
<1> USE DEF Typed, TypeOK, ServesCommand, PayloadAssigned, server, tables, counts, history
<1>1. m \in Message
  OBVIOUS
<1>2. \A c \in {"OK", "BAD"} : [m EXCEPT !.code = c] \in Message
  BY <1>1 DEF Message
<1>3. CASE GatewayPush(m)
  <2>1. [id |-> m.id, ses |-> m.ses, msg |-> m.msg] \in Entry
    BY <1>1 DEF Message, Entry
  <2>2. pushed' \in Seq(Entry)
    BY <1>3, <2>1 DEF GatewayPush
  <2>3. net' \subseteq Message
    BY <1>2, <1>3 DEF GatewayPush, Unanswered
  <2> QED BY <1>3, <2>2, <2>3 DEF GatewayPush
<1>4. CASE GatewayReject(m)
  <2>1. net' \subseteq Message
    BY <1>2, <1>4 DEF GatewayReject, Unanswered
  <2> QED BY <1>4, <2>1 DEF GatewayReject
<1>5. CASE GatewaySwallows(m)
  <2>1. net' \subseteq Message
    BY <1>2, <1>5 DEF GatewaySwallows, Unanswered
  <2>2. unwritten' \subseteq Nat /\ faults' \in Nat
    BY <1>1, <1>5 DEF GatewaySwallows, Message
  <2> QED BY <1>5, <2>1, <2>2 DEF GatewaySwallows
<1> QED BY <1>3, <1>4, <1>5 DEF Gateway

LEMMA CrashTyped ==
    ASSUME Typed, ServerCrash
    PROVE  Typed'
<1> USE DEF Typed, TypeOK, ServesCommand, PayloadAssigned, tables
<1>1. pc' \in [Session -> PC] /\ ServesCommand' /\ PayloadAssigned'
  BY DEF ServerCrash, PC, Serving
<1>2. abandoned' \subseteq Nat /\ faults' \in Nat
  <2>1. \A s \in Session : tok[s] \in Nat
    OBVIOUS
  <2> DEFINE W == {t \in Session : pc[t] = "wait"}
  <2>2. abandoned' = abandoned \cup {tok[s] : s \in W} /\ faults' = faults + 1
    BY DEF ServerCrash
  <2>3. W \subseteq Session /\ abandoned \subseteq Nat /\ faults \in Nat
    OBVIOUS
  <2>4. {tok[s] : s \in W} \subseteq Nat
    BY <2>1, <2>3
  <2>5. faults' \in Nat
    BY <2>2, <2>3
  <2> HIDE DEF W, Typed, TypeOK, ServesCommand, PayloadAssigned
  <2> QED BY <2>2, <2>3, <2>4, <2>5
<1>4. net' \subseteq Message
  BY DEF ServerCrash, Unanswered
<1>3. unapplied' \in [Device -> Nat]
  <2> DEFINE Cut(d) == Cardinality({s \in Session :
                         pc[s] = "update" /\ Toggles(req[s]) /\ req[s].dev = d})
  <2>1. unapplied' = [d \in Device |-> unapplied[d] + Cut(d)]
    BY DEF ServerCrash
  <2>2. ASSUME NEW d \in Device PROVE Cut(d) \in Nat
    <3> DEFINE T == {s \in Session :
                       pc[s] = "update" /\ Toggles(req[s]) /\ req[s].dev = d}
    <3>1. T \subseteq Session
      OBVIOUS
    <3> HIDE DEF T
    <3>2. IsFiniteSet(T)
      BY <3>1, SessionAssumption, FS_Subset DEF SessionAssumption
    <3>3. Cardinality(T) \in Nat
      BY <3>2, FS_CardinalityType
    <3> QED BY <3>3 DEF T
  <2>3. \A d \in Device : unapplied[d] \in Nat
    OBVIOUS
  <2> HIDE DEF Cut, Typed, TypeOK, ServesCommand, PayloadAssigned
  <2> QED BY <2>1, <2>2, <2>3
<1> QED BY <1>1, <1>2, <1>3, <1>4 DEF ServerCrash

LEMMA StutterTyped == Typed /\ UNCHANGED vars => Typed'
BY DEF Typed, TypeOK, ServesCommand, PayloadAssigned,
       vars, server, tables, world, counts, history

LEMMA NextTyped == Typed /\ [Next]_vars => Typed'
BY AppTyped, ThreadTyped, GatewayTyped, CrashTyped, StutterTyped DEF Next

THEOREM TypeInvariance == Spec => []Typed
<1>1. Typed /\ [Next]_vars => Typed'
  BY NextTyped
<1> QED BY <1>1, InitTyped, PTL DEF Spec

\* Every variable of the platform server keeps values of its kind, for any
\* finite set of connections and whatever fails.
THEOREM TypeCorrect == Spec => []TypeOK
<1>1. Typed => TypeOK
  BY DEF Typed
<1> QED BY <1>1, TypeInvariance, PTL

-----------------------------------------------------------------------------
(* A command that leaks comes from a rival.  While a thread is about to    *)
(* send, the field payload holds its own command or that of a thread which *)
(* has assigned the field since.                                           *)

PayloadExplained ==
    \A s \in Session : pc[s] = "send" => payload \in {req[s]} \cup rivals[s]

RivalInv == OnlyRivalsLeak /\ PayloadExplained

LEMMA InitRivalInv == Init => RivalInv
BY DEF Init, RivalInv, OnlyRivalsLeak, PayloadExplained

LEMMA NextRivalInv == Typed /\ RivalInv /\ [Next]_vars => RivalInv'
<1> SUFFICES ASSUME Typed, RivalInv, [Next]_vars PROVE RivalInv'
  OBVIOUS
<1> USE DEF RivalInv, OnlyRivalsLeak, PayloadExplained, Goto
<1>0. /\ pc \in [Session -> PC] /\ req \in [Session -> Request \cup {NoRequest}]
      /\ wire \in [Session -> Command \cup {NoCommand}]
      /\ rivals \in [Session -> SUBSET Command]
  BY DEF Typed, TypeOK
<1>1. ASSUME NEW s \in Session, App(s) \/ User(s) PROVE RivalInv'
  BY <1>0, <1>1 DEF App, User, Accept, AppSend, AppClose, AppDie, AppReceive,
                    AppSeesClose, server, history
<1>2. ASSUME NEW s \in Session, Thread(s) PROVE RivalInv'
  <2>1. CASE AssignPayload(s)
    BY <1>0, <2>1 DEF AssignPayload
  <2>2. CASE CoapSend(s)
    BY <1>0, <2>2 DEF CoapSend
  <2>3. CASE CoapResponse(s) \/ CoapTimeout(s)
    BY <1>0, <2>3 DEF CoapResponse, CoapTimeout
  <2>4. CASE InsertLog(s) \/ UpdateState(s)
    BY <1>0, <2>4 DEF InsertLog, UpdateState, StatementFails
  <2>5. CASE ReplyToApp(s)
    BY <1>0, <2>5 DEF ReplyToApp, EndOfPass
  <2>6. CASE OpenDatabase(s) \/ ReadControl(s) \/ ReadState(s) \/ ReadClose(s)
    BY <1>0, <2>6 DEF OpenDatabase, ReadControl, ReadState, ReadClose, history
  <2> QED BY <1>2, <2>1, <2>2, <2>3, <2>4, <2>5, <2>6 DEF Thread
<1>3. ASSUME NEW m \in net, Gateway(m) PROVE RivalInv'
  BY <1>3 DEF Gateway, GatewayPush, GatewaySwallows, GatewayReject, server, history
<1>4. CASE ServerCrash
  BY <1>4 DEF ServerCrash
<1>5. CASE UNCHANGED vars
  BY <1>5 DEF vars, server, history
<1> QED BY <1>1, <1>2, <1>3, <1>4, <1>5 DEF Next

\* The race on the static field payload, for any number of threads: what a
\* thread sends its gateway is what its app asked for, or the command of a
\* thread that assigned the field between this thread's assignment and send.
THEOREM RivalsOnly == Spec => []OnlyRivalsLeak
<1>1. Typed /\ RivalInv /\ [Next]_vars => RivalInv'
  BY NextRivalInv
<1>2. RivalInv => OnlyRivalsLeak
  BY DEF RivalInv
<1> QED BY <1>1, <1>2, InitRivalInv, TypeInvariance, PTL DEF Spec

-----------------------------------------------------------------------------
(* What the gateway has executed, and when.                                *)

LEMMA AppendFacts ==
    ASSUME NEW S, NEW q \in Seq(S), NEW e \in S
    PROVE  /\ DOMAIN Append(q, e) = (DOMAIN q) \cup {Len(q) + 1}
           /\ Append(q, e)[Len(q) + 1] = e
           /\ \A i \in DOMAIN q : i < Len(q) + 1 /\ Append(q, e)[i] = q[i]
OBVIOUS

\* The number of a CoAP request identifies it: requests are numbered as they
\* are sent, one datagram at most is under way for each, and a request that is
\* still under way to the gateway has not been executed.
Numbered ==
    /\ \A s \in Session : pc[s] = "wait" => tok[s] <= sent
    /\ \A m \in net : m.id <= sent
    /\ \A i \in DOMAIN pushed : pushed[i].id <= sent
    /\ \A m, n \in net : m.id = n.id => m = n
    /\ \A m \in net : m.code = "GET" => \A i \in DOMAIN pushed : pushed[i].id # m.id

\* The datagram that a thread waits for is its own.
Owned ==
    \A s \in Session, m \in net :
        pc[s] = "wait" /\ m.id = tok[s] => m.ses = s /\ m.msg = wire[s]

\* A request under way has a thread that waits for it, or was given up.
Expected ==
    \A m \in net : m.code = "GET" =>
        m.id \in abandoned \/ (pc[m.ses] = "wait" /\ tok[m.ses] = m.id)

\* A thread that waits, waits for the newest request of its connection.
Newest ==
    \A s \in Session : pc[s] = "wait" =>
        /\ \A m \in net : m.ses = s => m.id <= tok[s]
        /\ \A i \in DOMAIN pushed : pushed[i].ses = s => pushed[i].id <= tok[s]

Served(i, s, c) ==
    i \in unwritten \/ \E n \in DOMAIN pushed : pushed[n] = [id |-> i, ses |-> s, msg |-> c]

\* The gateway says OK after it has executed the request or failed to write it.
OkIsTrue == \A m \in net : m.code = "OK" => Served(m.id, m.ses, m.msg)

\* What a thread without mishaps has behind it.
Achieved ==
    \A s \in Session : trouble[s] = {} =>
        /\ pc[s] \in {"log", "update", "reply"} => Served(tok[s], s, wire[s])
        /\ pc[s] \in {"update", "reply"} => \E i \in DOMAIN log : log[i] = req[s]

OrderInv == Numbered /\ Owned /\ Expected /\ Newest /\ OkIsTrue /\ Achieved /\ InOrderUnlessAbandoned

LEMMA InitOrder == Init => OrderInv
BY DEF Init, OrderInv, Numbered, Owned, Expected, Newest, OkIsTrue, Achieved, Served,
       InOrderUnlessAbandoned

\* Discarding responses leaves what is known of the rest.
LEMMA UnansweredSub ==
    ASSUME NEW N, NEW I
    PROVE  Unanswered(N, I) \subseteq N
BY DEF Unanswered

\* Steps by which no thread begins or ends to wait, and nothing is executed.
LEMMA QuietOrder ==
    ASSUME Typed, OrderInv, UNCHANGED <<tok, sent, wire, pushed, unwritten, abandoned, net>>,
           pc' \in [Session -> PC], req' \in [Session -> Request \cup {NoRequest}],
           log' = log, trouble' = trouble,
           \A s \in Session : \/ pc'[s] = pc[s] /\ req'[s] = req[s]
                              \/ {pc[s], pc'[s]} \cap {"wait", "log", "update", "reply"} = {}
    PROVE  OrderInv'
<1>1. \A s \in Session : /\ pc'[s] = "wait" <=> pc[s] = "wait"
                         /\ pc'[s] \in {"log", "update", "reply"} => pc'[s] = pc[s] /\ req'[s] = req[s]
  OBVIOUS
<1>2. Numbered' /\ Owned' /\ Newest' /\ OkIsTrue' /\ InOrderUnlessAbandoned'
  BY <1>1 DEF OrderInv, Numbered, Owned, Newest, OkIsTrue, Served, InOrderUnlessAbandoned
<1>3. Expected'
  <2>1. \A m \in net : m.ses \in Session
    BY DEF Typed, TypeOK, Message
  <2> QED BY <1>1, <2>1 DEF OrderInv, Expected
<1>4. Achieved'
  BY <1>1 DEF OrderInv, Achieved, Served
<1> QED BY <1>2, <1>3, <1>4 DEF OrderInv

LEMMA SendOrder ==
    ASSUME Typed, OrderInv, NEW s \in Session, CoapSend(s)
    PROVE  OrderInv'
<1>1. PICK c \in {req[s], payload} :
         /\ wire' = [wire EXCEPT ![s] = c]
         /\ net' = net \cup {[id |-> sent + 1, ses |-> s, msg |-> c, code |-> "GET"]}
  BY DEF CoapSend
<1>2. /\ pc[s] = "send" /\ pc' = [pc EXCEPT ![s] = "wait"] /\ tok' = [tok EXCEPT ![s] = sent + 1]
      /\ sent' = sent + 1 /\ UNCHANGED <<req, log, trouble, pushed, unwritten, abandoned>>
  BY DEF CoapSend, Goto, tables
<1>3. /\ pc \in [Session -> PC] /\ tok \in [Session -> Nat] /\ sent \in Nat
      /\ wire \in [Session -> Command \cup {NoCommand}] /\ net \subseteq Message /\ pushed \in Seq(Entry)
  BY DEF Typed, TypeOK
<1>4. /\ \A m \in net : m.id \in Nat /\ m.id <= sent /\ m.ses \in Session
      /\ \A i \in DOMAIN pushed : pushed[i].id \in Nat /\ pushed[i].id <= sent
      /\ \A t \in Session : tok[t] \in Nat /\ (pc[t] = "wait" => tok[t] <= sent)
  <2>1. \A m \in net : m.id \in Nat /\ m.id <= sent /\ m.ses \in Session
    BY <1>3 DEF OrderInv, Numbered, Message
  <2>2. \A i \in DOMAIN pushed : pushed[i] \in Entry
    BY <1>3
  <2>3. \A i \in DOMAIN pushed : pushed[i].id \in Nat /\ pushed[i].id <= sent
    BY <2>2 DEF OrderInv, Numbered, Entry
  <2>4. \A t \in Session : tok[t] \in Nat /\ (pc[t] = "wait" => tok[t] <= sent)
    BY <1>3 DEF OrderInv, Numbered
  <2> QED BY <2>1, <2>3, <2>4
<1> DEFINE new == [id |-> sent + 1, ses |-> s, msg |-> c, code |-> "GET"]
<1>5. new.id = sent + 1 /\ new.ses = s /\ new.msg = c /\ new.code = "GET"
  OBVIOUS
<1>6. net' = net \cup {new}
  BY <1>1
<1> HIDE DEF new
<1>7. \A t \in Session : t # s => pc'[t] = pc[t] /\ tok'[t] = tok[t] /\ wire'[t] = wire[t]
  BY <1>1, <1>2, <1>3
<1>8. pc'[s] = "wait" /\ tok'[s] = sent + 1 /\ wire'[s] = c
  BY <1>1, <1>2, <1>3
<1>9. Numbered'
  BY <1>2, <1>3, <1>4, <1>5, <1>6, <1>7, <1>8 DEF OrderInv, Numbered
<1>10. Owned'
  BY <1>2, <1>3, <1>4, <1>5, <1>6, <1>7, <1>8 DEF OrderInv, Owned
<1>11. Expected'
  <2>1. \A m \in net : m.code = "GET" /\ m.id \notin abandoned => m.ses # s
    BY <1>2 DEF OrderInv, Expected
  <2> QED BY <1>2, <1>4, <1>5, <1>6, <1>7, <1>8, <2>1 DEF OrderInv, Expected
<1>12. Newest'
  BY <1>2, <1>3, <1>4, <1>5, <1>6, <1>7, <1>8 DEF OrderInv, Newest
<1>13. OkIsTrue' /\ InOrderUnlessAbandoned'
  BY <1>2, <1>5, <1>6 DEF OrderInv, OkIsTrue, Served, InOrderUnlessAbandoned
<1>14. Achieved'
  BY <1>2, <1>7, <1>8 DEF OrderInv, Achieved, Served
<1> QED BY <1>9, <1>10, <1>11, <1>12, <1>13, <1>14 DEF OrderInv

LEMMA ResponseOrder ==
    ASSUME Typed, OrderInv, NEW s \in Session, CoapResponse(s)
    PROVE  OrderInv'
<1>1. PICK r \in net :
         /\ r.code # "GET" /\ r.id = tok[s] /\ net' = net \ {r}
         /\ trouble' = IF r.code = "OK" THEN trouble
                       ELSE [trouble EXCEPT ![s] = @ \cup {"rejected"}]
  BY DEF CoapResponse
<1>2. /\ pc[s] = "wait" /\ pc' = [pc EXCEPT ![s] = "log"]
      /\ UNCHANGED <<req, tok, sent, log, wire, pushed, unwritten, abandoned>>
  BY DEF CoapResponse, Goto, tables, counts
<1>3. pc \in [Session -> PC] /\ trouble \in [Session -> SUBSET Mishap] /\ net \subseteq Message
  BY DEF Typed, TypeOK
<1>4. \A t \in Session : t # s => pc'[t] = pc[t] /\ trouble'[t] = trouble[t]
  BY <1>1, <1>2, <1>3
<1>5. pc'[s] = "log" /\ (trouble'[s] = {} => r.code = "OK")
  BY <1>1, <1>2, <1>3
<1>6. Numbered' /\ Owned' /\ Newest' /\ OkIsTrue' /\ InOrderUnlessAbandoned'
  BY <1>1, <1>2, <1>4, <1>5 DEF OrderInv, Numbered, Owned, Newest, OkIsTrue, Served,
                                InOrderUnlessAbandoned
<1>7. Expected'
  <2>1. \A m \in net : m.ses \in Session
    BY <1>3 DEF Message
  <2>2. \A m \in net : m.code = "GET" => m.id # r.id
    BY <1>1 DEF OrderInv, Numbered
  <2> QED BY <1>1, <1>2, <1>4, <2>1, <2>2 DEF OrderInv, Expected
<1>8. Achieved'
  <2>1. trouble'[s] = {} => Served(tok[s], s, wire[s])
    BY <1>1, <1>2, <1>5 DEF OrderInv, OkIsTrue, Owned
  <2> QED BY <1>2, <1>4, <1>5, <2>1 DEF OrderInv, Achieved, Served
<1> QED BY <1>6, <1>7, <1>8 DEF OrderInv

LEMMA TimeoutOrder ==
    ASSUME Typed, OrderInv, NEW s \in Session, CoapTimeout(s)
    PROVE  OrderInv'
<1>1. /\ pc[s] = "wait" /\ pc' = [pc EXCEPT ![s] = "log"]
      /\ trouble' = [trouble EXCEPT ![s] = @ \cup {"timeout"}]
      /\ abandoned' = abandoned \cup {tok[s]} /\ net' \subseteq net
      /\ UNCHANGED <<req, tok, sent, log, wire, pushed, unwritten>>
  BY UnansweredSub DEF CoapTimeout, Goto, tables, counts
<1>2. pc \in [Session -> PC] /\ trouble \in [Session -> SUBSET Mishap] /\ net \subseteq Message
  BY DEF Typed, TypeOK
<1>3. \A t \in Session : t # s => pc'[t] = pc[t] /\ trouble'[t] = trouble[t]
  BY <1>1, <1>2
<1>4. pc'[s] = "log" /\ trouble'[s] # {}
  BY <1>1, <1>2
<1>5. Numbered' /\ Owned' /\ Newest' /\ OkIsTrue' /\ InOrderUnlessAbandoned'
  BY <1>1, <1>3, <1>4 DEF OrderInv, Numbered, Owned, Newest, OkIsTrue, Served,
                          InOrderUnlessAbandoned
<1>6. Expected'
  <2>1. \A m \in net : m.ses \in Session
    BY <1>2 DEF Message
  <2> QED BY <1>1, <1>3, <1>4, <2>1 DEF OrderInv, Expected
<1>7. Achieved'
  BY <1>1, <1>3, <1>4 DEF OrderInv, Achieved, Served
<1> QED BY <1>5, <1>6, <1>7 DEF OrderInv

LEMMA LogOrder ==
    ASSUME Typed, OrderInv, NEW s \in Session, InsertLog(s)
    PROVE  OrderInv'
<1>1. /\ pc[s] = "log" /\ UNCHANGED <<req, tok, sent, net, wire, pushed, unwritten, abandoned>>
  BY DEF InsertLog, world
<1>2. /\ pc \in [Session -> PC] /\ trouble \in [Session -> SUBSET Mishap] /\ net \subseteq Message
      /\ log \in Seq(Command)
  BY DEF Typed, TypeOK
<1>3. req[s] \in Command
  BY <1>1 DEF Typed, ServesCommand, Serving
<1>4. \/ pc' = [pc EXCEPT ![s] = "update"] /\ trouble' = trouble /\ log' = Append(log, req[s])
      \/ /\ pc' = [pc EXCEPT ![s] = "reply"] /\ log' = log
         /\ trouble' = [trouble EXCEPT ![s] = @ \cup {"nolog"}]
  BY DEF InsertLog, StatementFails, Goto
<1>5. \A t \in Session : t # s => pc'[t] = pc[t] /\ trouble'[t] = trouble[t]
  BY <1>2, <1>4
<1>6. \/ pc'[s] = "update" /\ trouble'[s] = trouble[s] /\ log' = Append(log, req[s])
      \/ pc'[s] = "reply" /\ trouble'[s] # {}
  BY <1>2, <1>4
<1>7. \A c \in Command : (\E i \in DOMAIN log : log[i] = c) => \E i \in DOMAIN log' : log'[i] = c
  BY <1>2, <1>3, <1>4, AppendFacts
<1>8. pc'[s] = "update" => \E i \in DOMAIN log' : log'[i] = req[s]
  BY <1>2, <1>3, <1>6, AppendFacts
<1>9. Numbered' /\ Owned' /\ Newest' /\ OkIsTrue' /\ InOrderUnlessAbandoned'
  BY <1>1, <1>5, <1>6 DEF OrderInv, Numbered, Owned, Newest, OkIsTrue, Served,
                          InOrderUnlessAbandoned
<1>10. Expected'
  <2>1. \A m \in net : m.ses \in Session
    BY <1>2 DEF Message
  <2> QED BY <1>1, <1>5, <2>1 DEF OrderInv, Expected
<1>11. Achieved'
  <2>1. \A t \in Session : pc[t] \in {"update", "reply"} => req[t] \in Command
    BY DEF Typed, ServesCommand, Serving
  <2>2. \A t \in Session : trouble'[t] = {} /\ pc'[t] \in {"log", "update", "reply"}
                               => Served(tok[t], t, wire[t])'
    BY <1>1, <1>5, <1>6 DEF OrderInv, Achieved, Served
  <2>3. \A t \in Session : trouble'[t] = {} /\ pc'[t] \in {"update", "reply"}
                               => \E i \in DOMAIN log' : log'[i] = req[t]
    <3> SUFFICES ASSUME NEW t \in Session, trouble'[t] = {}, pc'[t] \in {"update", "reply"}
                 PROVE  \E i \in DOMAIN log' : log'[i] = req[t]
      OBVIOUS
    <3>1. CASE t = s
      BY <1>6, <1>8, <3>1
    <3>2. CASE t # s
      BY <1>5, <1>7, <2>1, <3>2 DEF OrderInv, Achieved
    <3> QED BY <3>1, <3>2
  <2> QED BY <1>1, <2>2, <2>3 DEF Achieved
<1> QED BY <1>9, <1>10, <1>11 DEF OrderInv

LEMMA UpdateOrder ==
    ASSUME Typed, OrderInv, NEW s \in Session, UpdateState(s) \/ ReplyToApp(s)
    PROVE  OrderInv'
<1>1. /\ pc[s] \in {"update", "reply"} /\ UNCHANGED <<sent, net, log, pushed, unwritten, abandoned>>
  BY DEF UpdateState, ReplyToApp, world, tables, counts
<1>2. /\ pc \in [Session -> PC] /\ trouble \in [Session -> SUBSET Mishap] /\ net \subseteq Message
      /\ req \in [Session -> Request \cup {NoRequest}] /\ tok \in [Session -> Nat]
      /\ wire \in [Session -> Command \cup {NoCommand}]
  BY DEF Typed, TypeOK
<1>3. \A t \in Session : t # s => /\ pc'[t] = pc[t] /\ trouble'[t] = trouble[t] /\ req'[t] = req[t]
                                  /\ tok'[t] = tok[t] /\ wire'[t] = wire[t]
  BY <1>2 DEF UpdateState, ReplyToApp, StatementFails, EndOfPass, Goto
<1>4. \/ pc'[s] = "reply" /\ pc[s] = "update" /\ req'[s] = req[s] /\ tok'[s] = tok[s] /\ wire'[s] = wire[s]
         /\ (trouble'[s] = {} => trouble[s] = {})
      \/ pc'[s] \in {"read", "closed"}
  BY <1>2 DEF UpdateState, ReplyToApp, StatementFails, Goto
<1>5. Numbered' /\ Owned' /\ Newest' /\ OkIsTrue' /\ InOrderUnlessAbandoned'
  BY <1>1, <1>3, <1>4 DEF OrderInv, Numbered, Owned, Newest, OkIsTrue, Served,
                          InOrderUnlessAbandoned
<1>6. Expected'
  <2>1. \A m \in net : m.ses \in Session
    BY <1>2 DEF Message
  <2> QED BY <1>1, <1>3, <2>1 DEF OrderInv, Expected
<1>7. Achieved'
  BY <1>1, <1>3, <1>4 DEF OrderInv, Achieved, Served
<1> QED BY <1>5, <1>6, <1>7 DEF OrderInv

LEMMA GatewayOrder ==
    ASSUME Typed, OrderInv, NEW m \in net, Gateway(m)
    PROVE  OrderInv'
<1>1. /\ m.code = "GET"
      /\ UNCHANGED <<pc, req, tok, sent, log, wire, trouble, abandoned>>
      /\ \/ pushed' = Append(pushed, [id |-> m.id, ses |-> m.ses, msg |-> m.msg])
         \/ pushed' = pushed
      /\ unwritten \subseteq unwritten'
  BY DEF Gateway, GatewayPush, GatewaySwallows, GatewayReject, server, tables, counts, history
<1>2. PICK c \in {"OK", "BAD"} :
         /\ net' = Unanswered((net \ {m}) \cup {[m EXCEPT !.code = c]}, abandoned)
         /\ \/ c = "OK" /\ pushed' = Append(pushed, [id |-> m.id, ses |-> m.ses, msg |-> m.msg])
            \/ (c = "OK" => m.id \in unwritten') /\ pushed' = pushed
  BY DEF Gateway, GatewayPush, GatewaySwallows, GatewayReject, history
<1>3. /\ net \subseteq Message /\ m \in Message /\ pushed \in Seq(Entry)
  BY DEF Typed, TypeOK
<1> DEFINE e == [id |-> m.id, ses |-> m.ses, msg |-> m.msg]
           r == [m EXCEPT !.code = c]
<1>4. r.id = m.id /\ r.ses = m.ses /\ r.msg = m.msg /\ r.code = c
  BY <1>3 DEF Message
<1>5. e \in Entry /\ e.id = m.id /\ e.ses = m.ses
  BY <1>3 DEF Message, Entry
<1>6. net' \subseteq (net \ {m}) \cup {r}
  BY <1>2, UnansweredSub
<1>7. \A i \in DOMAIN pushed : i \in DOMAIN pushed' /\ pushed'[i] = pushed[i]
  BY <1>1, <1>3, <1>5, AppendFacts
<1>8. \A i \in DOMAIN pushed' : \/ i \in DOMAIN pushed /\ pushed'[i] = pushed[i]
                                \/ pushed'[i] = e
  BY <1>2, <1>3, <1>5, AppendFacts
<1>9. c = "OK" => m.id \in unwritten' \/ \E n \in DOMAIN pushed' : pushed'[n] = e
  BY <1>2, <1>3, <1>5, AppendFacts
<1>10. \A i, j \in DOMAIN pushed' : i < j =>
          \/ i \in DOMAIN pushed /\ j \in DOMAIN pushed /\ pushed'[i] = pushed[i] /\ pushed'[j] = pushed[j]
          \/ i \in DOMAIN pushed /\ pushed'[i] = pushed[i] /\ pushed'[j] = e
  <2>1. CASE pushed' = pushed
    BY <2>1
  <2>2. CASE pushed' = Append(pushed, e)
    <3>1. pushed' = Append(pushed, e) /\ Len(pushed) \in Nat
      BY <1>2, <1>3, <2>2
    <3>2. \A i \in DOMAIN pushed : i \in Nat
      BY <1>3
    <3>3. DOMAIN pushed' = DOMAIN pushed \cup {Len(pushed) + 1}
      BY <1>3, <1>5, <3>1, AppendFacts
    <3>4. pushed'[Len(pushed) + 1] = e /\ \A i \in DOMAIN pushed : i < Len(pushed) + 1
      BY <1>3, <1>5, <3>1, AppendFacts
    <3> HIDE DEF e
    <3> QED BY <1>7, <3>1, <3>2, <3>3, <3>4
  <2> QED BY <1>2, <2>1, <2>2
<1> HIDE DEF e, r
<1>11. Numbered'
  <2>1. \A n \in net : n.id <= sent
    BY DEF OrderInv, Numbered
  <2>2. \A i \in DOMAIN pushed' : pushed'[i].id <= sent
    BY <1>5, <1>8, <2>1 DEF OrderInv, Numbered
  <2>3. \A n, o \in net' : n.id = o.id => n = o
    BY <1>4, <1>6 DEF OrderInv, Numbered
  <2>4. \A n \in net' : n.code = "GET" => n \in net /\ n.id # m.id
    BY <1>4, <1>6 DEF OrderInv, Numbered
  <2>5. \A n \in net' : n.code = "GET" => \A i \in DOMAIN pushed' : pushed'[i].id # n.id
    BY <1>5, <1>8, <2>4 DEF OrderInv, Numbered
  <2> QED BY <1>1, <1>4, <1>6, <2>1, <2>2, <2>3, <2>5 DEF OrderInv, Numbered
<1>12. Owned'
  BY <1>1, <1>4, <1>6 DEF OrderInv, Owned
<1>13. Expected'
  BY <1>1, <1>4, <1>6 DEF OrderInv, Expected
<1>14. Newest'
  BY <1>1, <1>4, <1>5, <1>6, <1>8 DEF OrderInv, Newest
<1>15. \A i, s, d : Served(i, s, d) => Served(i, s, d)'
  BY <1>1, <1>7 DEF Served
<1>16. OkIsTrue'
  <2>1. c = "OK" => Served(r.id, r.ses, r.msg)'
    BY <1>4, <1>9 DEF e, Served
  <2> QED BY <1>4, <1>6, <1>15, <2>1 DEF OrderInv, OkIsTrue
<1>17. Achieved'
  BY <1>1, <1>15 DEF OrderInv, Achieved
<1>18. InOrderUnlessAbandoned'
  <2>1. \A i \in DOMAIN pushed : pushed[i].ses = m.ses =>
           \/ pushed[i].id < m.id
           \/ m.id \in abandoned /\ pushed[i].id # m.id
    <3> SUFFICES ASSUME NEW i \in DOMAIN pushed, pushed[i].ses = m.ses
                 PROVE  \/ pushed[i].id < m.id
                        \/ m.id \in abandoned /\ pushed[i].id # m.id
      OBVIOUS
    <3>1. pushed[i].id # m.id /\ pushed[i].id \in Nat /\ m.id \in Nat /\ m.ses \in Session
      <4>1. pushed[i] \in Entry
        BY <1>3
      <4>2. pushed[i].id \in Nat
        BY <4>1 DEF Entry
      <4>3. m.id \in Nat /\ m.ses \in Session
        BY <1>3 DEF Message
      <4> QED BY <1>1, <4>2, <4>3 DEF OrderInv, Numbered
    <3>2. CASE m.id \in abandoned
      BY <3>1, <3>2
    <3>3. CASE pc[m.ses] = "wait" /\ tok[m.ses] = m.id
      BY <3>1, <3>3 DEF OrderInv, Newest
    <3> QED BY <1>1, <3>2, <3>3 DEF OrderInv, Expected
  <2> QED BY <1>1, <1>5, <1>10, <2>1 DEF OrderInv, InOrderUnlessAbandoned
<1> QED BY <1>11, <1>12, <1>13, <1>14, <1>16, <1>17, <1>18 DEF OrderInv

LEMMA CrashOrder ==
    ASSUME Typed, OrderInv, ServerCrash
    PROVE  OrderInv'
<1>1. /\ \A s \in Session : pc'[s] = "closed"
      /\ abandoned' = abandoned \cup {tok[s] : s \in {t \in Session : pc[t] = "wait"}}
      /\ net' \subseteq net
      /\ UNCHANGED <<sent, log, pushed, unwritten>>
  BY UnansweredSub DEF ServerCrash, tables
<1>2. \A s \in Session : pc[s] = "wait" => tok[s] \in abandoned'
  BY <1>1
<1>3. \A m \in net : m.ses \in Session
  BY DEF Typed, TypeOK, Message
<1>4. Expected'
  BY <1>1, <1>2, <1>3 DEF OrderInv, Expected
<1>5. Numbered' /\ Owned' /\ Newest' /\ OkIsTrue' /\ Achieved' /\ InOrderUnlessAbandoned'
  BY <1>1 DEF OrderInv, Numbered, Owned, Newest, OkIsTrue, Served, Achieved,
              InOrderUnlessAbandoned
<1> QED BY <1>4, <1>5 DEF OrderInv

LEMMA AppOrder ==
    ASSUME Typed, OrderInv, NEW s \in Session, App(s) \/ User(s)
    PROVE  OrderInv'
<1>1. /\ UNCHANGED <<req, tok, sent, wire, pushed, unwritten, abandoned, net, log, trouble>>
      /\ pc' = pc \/ (pc[s] = "closed" /\ pc' = [pc EXCEPT ![s] = "start"])
  BY DEF App, User, Accept, AppSend, AppClose, AppDie, AppReceive, AppSeesClose,
         server, tables, counts, history
<1>2. pc \in [Session -> PC] /\ req \in [Session -> Request \cup {NoRequest}]
  BY DEF Typed, TypeOK
<1>3. Typed'
  BY AppTyped
<1>4. pc' \in [Session -> PC] /\ req' \in [Session -> Request \cup {NoRequest}]
  BY <1>3 DEF Typed, TypeOK
<1>5. \A t \in Session : \/ pc'[t] = pc[t] /\ req'[t] = req[t]
                         \/ {pc[t], pc'[t]} \cap {"wait", "log", "update", "reply"} = {}
  BY <1>1, <1>2
<1> QED BY <1>1, <1>4, <1>5, QuietOrder

LEMMA EarlyOrder ==
    ASSUME Typed, OrderInv, NEW s \in Session,
           OpenDatabase(s) \/ ReadControl(s) \/ ReadState(s) \/ ReadClose(s) \/ AssignPayload(s)
    PROVE  OrderInv'
<1>1. /\ UNCHANGED <<tok, sent, wire, pushed, unwritten, abandoned, net, log, trouble>>
      /\ pc[s] \in {"start", "read", "assign"}
      /\ pc' = pc \/ \E l \in {"read", "assign", "closed", "send"} : pc' = [pc EXCEPT ![s] = l]
      /\ req' = req \/ req' = [req EXCEPT ![s] = inbox[s]]
  BY DEF OpenDatabase, ReadControl, ReadState, ReadClose, AssignPayload, Goto,
         tables, world, counts, history
<1>2. pc \in [Session -> PC] /\ req \in [Session -> Request \cup {NoRequest}]
  BY DEF Typed, TypeOK
<1>3. Typed'
  BY ThreadTyped DEF Thread
<1>4. pc' \in [Session -> PC] /\ req' \in [Session -> Request \cup {NoRequest}]
  BY <1>3 DEF Typed, TypeOK
<1>5. pc'[s] \in {"start", "read", "assign", "closed", "send"}
  BY <1>1, <1>2
<1>6. \A t \in Session : t # s => pc'[t] = pc[t] /\ req'[t] = req[t]
  BY <1>1, <1>2
<1>7. \A t \in Session : \/ pc'[t] = pc[t] /\ req'[t] = req[t]
                         \/ {pc[t], pc'[t]} \cap {"wait", "log", "update", "reply"} = {}
  BY <1>1, <1>5, <1>6
<1> QED BY <1>1, <1>4, <1>7, QuietOrder

LEMMA StutterOrder == OrderInv /\ UNCHANGED vars => OrderInv'
BY DEF OrderInv, Numbered, Owned, Expected, Newest, OkIsTrue, Served, Achieved,
       InOrderUnlessAbandoned, vars, server, tables, world, counts, history

LEMMA NextOrder == Typed /\ OrderInv /\ [Next]_vars => OrderInv'
<1> SUFFICES ASSUME Typed, OrderInv, [Next]_vars PROVE OrderInv'
  OBVIOUS
<1>1. ASSUME NEW s \in Session, App(s) \/ User(s) PROVE OrderInv'
  BY <1>1, AppOrder
<1>2. ASSUME NEW s \in Session, Thread(s) PROVE OrderInv'
  BY <1>2, EarlyOrder, SendOrder, ResponseOrder, TimeoutOrder, LogOrder, UpdateOrder DEF Thread
<1>3. ASSUME NEW m \in net, Gateway(m) PROVE OrderInv'
  BY <1>3, GatewayOrder
<1>4. CASE ServerCrash
  BY <1>4, CrashOrder
<1>5. CASE UNCHANGED vars
  BY <1>5, StutterOrder
<1> QED BY <1>1, <1>2, <1>3, <1>4, <1>5 DEF Next

LEMMA OrderInvariance == Spec => []OrderInv
<1>1. Typed /\ OrderInv /\ [Next]_vars => OrderInv'
  BY NextOrder
<1> QED BY <1>1, InitOrder, TypeInvariance, PTL DEF Spec

\* The gateway executes no request twice, and those of one connection in the
\* order they were made unless the earlier one was given up: for any number
\* of threads, requests, time-outs and crashes.
THEOREM InOrder == Spec => []InOrderUnlessAbandoned
<1>1. OrderInv => InOrderUnlessAbandoned
  BY DEF OrderInv
<1> QED BY <1>1, OrderInvariance, PTL

\* An "S" for a command that met no mishap and no rival is true but for one
\* thing: the command was logged, and executed under its own request unless the
\* gateway failed to write it to the serial line.
THEOREM Honest == Spec => []HonestWhenClean
<1>1. OrderInv /\ OnlyRivalsLeak => HonestWhenClean
  <2> SUFFICES ASSUME OrderInv, OnlyRivalsLeak, NEW s \in Session,
                      pc[s] = "reply", rivals[s] = {}, trouble[s] = {}
               PROVE  /\ tok[s] \in unwritten \/ \E i \in DOMAIN pushed :
                            pushed[i] = [id |-> tok[s], ses |-> s, msg |-> req[s]]
                      /\ \E i \in DOMAIN log : log[i] = req[s]
    BY DEF HonestWhenClean
  <2>1. wire[s] = req[s]
    BY DEF OnlyRivalsLeak
  <2> QED BY <2>1 DEF OrderInv, Achieved, Served
<1> QED BY <1>1, OrderInvariance, RivalsOnly, PTL

-----------------------------------------------------------------------------
(* Toggles are counted.  Logs(q, d) are the entries of the table q that    *)
(* toggle the column of d, Pending(d) the threads whose UPDATE is to come. *)

Logs(q, d) == {i \in DOMAIN q : q[i] = ToggleOf(d)}
Pending(d) == {s \in Session : pc[s] = "update" /\ req[s] = ToggleOf(d)}
Applied(d) == Cardinality(Logs(log, d)) - Cardinality(Pending(d)) - unapplied[d]

LEMMA TogglesOf ==
    ASSUME NEW c \in Command, NEW d \in Device
    PROVE  (Toggles(c) /\ c.dev = d) <=> c = ToggleOf(d)
BY DEF Command, RelayCommand, MotorCommand, Device, Relay, Toggles, ToggleOf, Cmd

LEMMA UpdateFlips ==
    ASSUME NEW r \in Row, NEW c \in Command, NEW d \in Device
    PROVE  IF c = ToggleOf(d) THEN Update(r, c).aux[d] = ~ r.aux[d]
                              ELSE Update(r, c).aux[d] = r.aux[d]
<1>1. /\ r.val \in [Device -> BOOLEAN] /\ r.aux \in [Device -> BOOLEAN]
      /\ r = [val |-> r.val, aux |-> r.aux]
  BY DEF Row
<1>2. CASE c.dev = "MOTOR"
  BY <1>1, <1>2 DEF Update, UpdateMotor, Command, RelayCommand, MotorCommand, Device, Relay,
                    ToggleOf, Cmd
<1>3. CASE c.dev # "MOTOR"
  BY <1>1, <1>3 DEF Update, UpdateRelay, Command, RelayCommand, MotorCommand, Device, Relay,
                    ToggleOf, Cmd
<1> QED BY <1>2, <1>3

LEMMA LogsFacts ==
    ASSUME NEW q \in Seq(Command), NEW d \in Device
    PROVE  /\ IsFiniteSet(Logs(q, d)) /\ Cardinality(Logs(q, d)) \in Nat
           /\ \A c \in Command :
                Cardinality(Logs(Append(q, c), d)) =
                    Cardinality(Logs(q, d)) + (IF c = ToggleOf(d) THEN 1 ELSE 0)
<1>1. DOMAIN q = 1 .. Len(q) /\ Len(q) \in Nat
  OBVIOUS
<1>2. IsFiniteSet(1 .. Len(q))
  BY <1>1, FS_Interval
<1>3. Logs(q, d) \subseteq 1 .. Len(q)
  BY <1>1 DEF Logs
<1>4. IsFiniteSet(Logs(q, d)) /\ Cardinality(Logs(q, d)) \in Nat
  BY <1>2, <1>3, FS_Subset, FS_CardinalityType
<1>5. ASSUME NEW c \in Command
      PROVE  Cardinality(Logs(Append(q, c), d)) =
                 Cardinality(Logs(q, d)) + (IF c = ToggleOf(d) THEN 1 ELSE 0)
  <2>1. Len(q) + 1 \notin Logs(q, d)
    BY <1>1, <1>3
  <2>2. CASE c = ToggleOf(d)
    <3>1. Logs(Append(q, c), d) = Logs(q, d) \cup {Len(q) + 1}
      BY <2>2, AppendFacts DEF Logs
    <3> QED BY <1>4, <2>1, <2>2, <3>1, FS_AddElement
  <2>3. CASE c # ToggleOf(d)
    <3>1. Logs(Append(q, c), d) = Logs(q, d)
      BY <2>3, AppendFacts DEF Logs
    <3> QED BY <1>4, <2>3, <3>1
  <2> QED BY <2>2, <2>3
<1> QED BY <1>4, <1>5

LEMMA PendingFacts ==
    ASSUME NEW d \in Device
    PROVE  IsFiniteSet(Pending(d)) /\ Cardinality(Pending(d)) \in Nat
<1>1. Pending(d) \subseteq Session
  BY DEF Pending
<1> QED BY <1>1, SessionAssumption, FS_Subset, FS_CardinalityType DEF SessionAssumption

Odd(n) == n % 2 = 1

LEMMA OddFacts == ~ Odd(0) /\ \A n \in Nat : Odd(n + 1) = ~ Odd(n)
<1>1. ~ Odd(0)
  BY DEF Odd
<1>2. ASSUME NEW n \in Nat PROVE Odd(n + 1) = ~ Odd(n)
  BY <1>2 DEF Odd
<1> QED BY <1>1, <1>2

Counted == \A d \in Device : Applied(d) \in Nat /\ row.aux[d] = Odd(Applied(d))

LEMMA InitCounted == Init => Counted
<1> SUFFICES ASSUME Init, NEW d \in Device
             PROVE  Applied(d) \in Nat /\ row.aux[d] = Odd(Applied(d))
  BY DEF Counted
<1>1. Logs(log, d) = {} /\ Pending(d) = {} /\ unapplied[d] = 0 /\ row.aux[d] = FALSE
  BY DEF Init, Logs, Pending, InitRow
<1>2. Cardinality({}) = 0
  BY FS_EmptySet
<1>3. Applied(d) = 0
  BY <1>1, <1>2 DEF Applied
<1>4. FALSE <=> Odd(0)
  BY OddFacts
<1>5. row.aux[d] = Odd(0)
  BY <1>1, <1>4, Zenon DEF Odd
<1> QED BY <1>3, <1>5

\* Steps by which no toggle is logged, applied or lost.
LEMMA QuietCounted ==
    ASSUME Counted, UNCHANGED <<log, unapplied, row>>,
           \A s \in Session, d \in Device :
               (pc'[s] = "update" /\ req'[s] = ToggleOf(d)) <=> (pc[s] = "update" /\ req[s] = ToggleOf(d))
    PROVE  Counted'
<1>1. \A d \in Device : Pending(d)' = Pending(d)
  BY DEF Pending
<1>2. \A d \in Device : Applied(d)' = Applied(d)
  BY <1>1 DEF Applied
<1> QED BY <1>2 DEF Counted

LEMMA LogCounted ==
    ASSUME Typed, Counted, NEW s \in Session, InsertLog(s)
    PROVE  Counted'
<1>1. pc \in [Session -> PC] /\ log \in Seq(Command) /\ unapplied \in [Device -> Nat]
  BY DEF Typed, TypeOK
<1>2. pc[s] = "log" /\ req' = req /\ row' = row /\ unapplied' = unapplied
  BY DEF InsertLog
<1>3. req[s] \in Command
  BY <1>2 DEF Typed, ServesCommand, Serving
<1>4. CASE log' = Append(log, req[s]) /\ pc' = [pc EXCEPT ![s] = "update"]
  <2> SUFFICES ASSUME NEW d \in Device PROVE (Applied(d) \in Nat /\ row.aux[d] = Odd(Applied(d)))'
    BY DEF Counted
  <2>1. s \notin Pending(d)
    BY <1>2 DEF Pending
  <2>2. Pending(d)' = IF req[s] = ToggleOf(d) THEN Pending(d) \cup {s} ELSE Pending(d)
    BY <1>1, <1>2, <1>4 DEF Pending
  <2>3. Cardinality(Pending(d)') = Cardinality(Pending(d)) + (IF req[s] = ToggleOf(d) THEN 1 ELSE 0)
    <3>1. CASE req[s] = ToggleOf(d)
      BY <2>1, <2>2, <3>1, PendingFacts, FS_AddElement
    <3>2. CASE req[s] # ToggleOf(d)
      BY <2>2, <3>2, PendingFacts
    <3> QED BY <3>1, <3>2
  <2>4. Cardinality(Logs(log, d)') = Cardinality(Logs(log, d)) + (IF req[s] = ToggleOf(d) THEN 1 ELSE 0)
    <3>1. Logs(log, d)' = Logs(Append(log, req[s]), d)
      BY <1>4 DEF Logs
    <3> QED BY <1>1, <1>3, <3>1, LogsFacts
  <2>5. /\ Cardinality(Logs(log, d)) \in Nat /\ Cardinality(Pending(d)) \in Nat /\ unapplied[d] \in Nat
    BY <1>1, LogsFacts, PendingFacts
  <2>6. Applied(d)' = Applied(d)
    BY <1>2, <2>3, <2>4, <2>5 DEF Applied
  <2> QED BY <1>2, <2>6 DEF Counted
<1>5. CASE log' = log /\ pc' = [pc EXCEPT ![s] = "reply"]
  BY <1>1, <1>2, <1>5, QuietCounted
<1> QED BY <1>4, <1>5 DEF InsertLog, StatementFails, Goto

LEMMA UpdateCounted ==
    ASSUME Typed, Counted, NEW s \in Session, UpdateState(s)
    PROVE  Counted'
<1>1. /\ pc \in [Session -> PC] /\ log \in Seq(Command) /\ unapplied \in [Device -> Nat]
      /\ row \in Row
  BY DEF Typed, TypeOK
<1>2. pc[s] = "update" /\ pc' = [pc EXCEPT ![s] = "reply"] /\ req' = req /\ log' = log
  BY DEF UpdateState, StatementFails, Goto
<1>3. req[s] \in Command
  BY <1>2 DEF Typed, ServesCommand, Serving
<1> SUFFICES ASSUME NEW d \in Device PROVE (Applied(d) \in Nat /\ row.aux[d] = Odd(Applied(d)))'
  BY DEF Counted
<1>4. /\ Cardinality(Logs(log, d)) \in Nat /\ Cardinality(Pending(d)) \in Nat /\ unapplied[d] \in Nat
      /\ Applied(d) \in Nat /\ row.aux[d] = Odd(Applied(d))
  BY <1>1, LogsFacts, PendingFacts DEF Counted
<1>5. Logs(log, d)' = Logs(log, d)
  BY <1>2 DEF Logs
<1>6. CASE req[s] = ToggleOf(d)
  <2>1. s \in Pending(d) /\ Pending(d)' = Pending(d) \ {s}
    BY <1>1, <1>2, <1>6 DEF Pending
  <2>2. Cardinality(Pending(d)') = Cardinality(Pending(d)) - 1
    BY <2>1, PendingFacts, FS_RemoveElement
  <2>3. CASE row' = Update(row, req[s]) /\ unapplied' = unapplied
    <3>1. Applied(d)' = Applied(d) + 1
      BY <1>4, <1>5, <2>2, <2>3 DEF Applied
    <3>2. row'.aux[d] = ~ row.aux[d]
      BY <1>1, <1>3, <1>6, <2>3, UpdateFlips
    <3>3. Odd(Applied(d)') = ~ Odd(Applied(d))
      BY <1>4, <3>1, OddFacts
    <3> QED BY <1>4, <3>1, <3>2, <3>3
  <2>4. CASE row' = row /\ unapplied' = [unapplied EXCEPT ![d] = @ + 1]
    <3>1. Applied(d)' = Applied(d)
      BY <1>1, <1>4, <1>5, <2>2, <2>4 DEF Applied
    <3> QED BY <1>4, <2>4, <3>1
  <2>5. Toggles(req[s]) /\ req[s].dev = d
    BY <1>3, <1>6, TogglesOf
  <2> QED BY <2>3, <2>4, <2>5 DEF UpdateState
<1>7. CASE req[s] # ToggleOf(d)
  <2>1. Pending(d)' = Pending(d)
    BY <1>1, <1>2, <1>7 DEF Pending
  <2>2. ~ (Toggles(req[s]) /\ req[s].dev = d)
    BY <1>3, <1>7, TogglesOf
  <2>3. unapplied'[d] = unapplied[d]
    BY <1>1, <2>2 DEF UpdateState
  <2>4. row'.aux[d] = row.aux[d]
    BY <1>1, <1>3, <1>7, UpdateFlips DEF UpdateState
  <2>5. Applied(d)' = Applied(d)
    BY <1>5, <2>1, <2>3 DEF Applied
  <2> QED BY <1>4, <2>4, <2>5
<1> QED BY <1>6, <1>7

LEMMA CrashCounted ==
    ASSUME Typed, Counted, ServerCrash
    PROVE  Counted'
<1> SUFFICES ASSUME NEW d \in Device PROVE (Applied(d) \in Nat /\ row.aux[d] = Odd(Applied(d)))'
  BY DEF Counted
<1>1. log \in Seq(Command) /\ unapplied \in [Device -> Nat]
  BY DEF Typed, TypeOK
<1>2. log' = log /\ row' = row /\ \A s \in Session : pc'[s] = "closed"
  BY DEF ServerCrash, tables
<1>3. Pending(d) = {s \in Session : pc[s] = "update" /\ Toggles(req[s]) /\ req[s].dev = d}
  <2>1. \A s \in Session : pc[s] = "update" => req[s] \in Command
    BY DEF Typed, ServesCommand, Serving
  <2> QED BY <2>1, TogglesOf DEF Pending
<1>4. unapplied'[d] = unapplied[d] + Cardinality(Pending(d))
  BY <1>3 DEF ServerCrash
<1>5. Cardinality(Pending(d)') = 0
  <2>1. Pending(d)' = {}
    BY <1>2 DEF Pending
  <2> QED BY <2>1, FS_EmptySet
<1>6. Logs(log, d)' = Logs(log, d)
  BY <1>2 DEF Logs
<1>7. /\ Cardinality(Logs(log, d)) \in Nat /\ Cardinality(Pending(d)) \in Nat /\ unapplied[d] \in Nat
  BY <1>1, LogsFacts, PendingFacts
<1>8. Applied(d)' = Applied(d)
  BY <1>4, <1>5, <1>6, <1>7 DEF Applied
<1> QED BY <1>2, <1>8 DEF Counted

LEMMA NextCounted == Typed /\ Counted /\ [Next]_vars => Counted'
<1> SUFFICES ASSUME Typed, Counted, [Next]_vars PROVE Counted'
  OBVIOUS
<1>0. pc \in [Session -> PC] /\ req \in [Session -> Request \cup {NoRequest}]
  BY DEF Typed, TypeOK
<1>1. ASSUME NEW s \in Session, App(s) \/ User(s) PROVE Counted'
  <2>1. /\ UNCHANGED <<req, log, row, unapplied>>
        /\ pc' = pc \/ (pc[s] = "closed" /\ pc' = [pc EXCEPT ![s] = "start"])
    BY <1>1 DEF App, User, Accept, AppSend, AppClose, AppDie, AppReceive, AppSeesClose,
                server, tables, history
  <2> QED BY <1>0, <2>1, QuietCounted
<1>2. ASSUME NEW s \in Session, Thread(s) PROVE Counted'
  <2>1. CASE InsertLog(s)
    BY <2>1, LogCounted
  <2>2. CASE UpdateState(s)
    BY <2>2, UpdateCounted
  <2>3. CASE ~ InsertLog(s) /\ ~ UpdateState(s)
    <3>1. /\ UNCHANGED <<log, row, unapplied>> /\ pc[s] # "update"
          /\ pc' = pc \/ \E l \in PC \ {"update"} : pc' = [pc EXCEPT ![s] = l]
          /\ \A t \in Session : t # s => req'[t] = req[t]
      <4>1. CASE OpenDatabase(s) \/ ReadControl(s) \/ ReadState(s) \/ ReadClose(s) \/ AssignPayload(s)
        BY <1>0, <4>1 DEF OpenDatabase, ReadControl, ReadState, ReadClose, AssignPayload, Goto,
                          tables, history, PC, Serving
      <4>2. CASE CoapSend(s) \/ CoapResponse(s) \/ CoapTimeout(s) \/ ReplyToApp(s)
        BY <1>0, <4>2 DEF CoapSend, CoapResponse, CoapTimeout, ReplyToApp, EndOfPass, Goto,
                          tables, PC, Serving
      <4> QED BY <1>2, <2>3, <4>1, <4>2 DEF Thread
    <3>2. \A t \in Session : \/ pc'[t] = pc[t] /\ req'[t] = req[t]
                             \/ pc[t] # "update" /\ pc'[t] # "update"
      BY <1>0, <3>1
    <3> QED BY <3>1, <3>2, QuietCounted
  <2> QED BY <2>1, <2>2, <2>3
<1>3. ASSUME NEW m \in net, Gateway(m) PROVE Counted'
  BY <1>3, QuietCounted DEF Gateway, GatewayPush, GatewaySwallows, GatewayReject, server, tables, history
<1>4. CASE ServerCrash
  BY <1>4, CrashCounted
<1>5. CASE UNCHANGED vars
  BY <1>5, QuietCounted DEF vars, server, tables, history
<1> QED BY <1>1, <1>2, <1>3, <1>4, <1>5 DEF Next

\* No toggle is lost to a race: for any number of threads the toggled columns
\* count the entries of CONTROL_LOG, less the UPDATEs still to come or failed.
THEOREM Parity == Spec => []ToggleParity
<1>1. Typed /\ Counted /\ [Next]_vars => Counted'
  BY NextCounted
<1>2. Counted => ToggleParity
  <2> SUFFICES ASSUME Counted, NEW d \in Device
               PROVE  Applied(d) >= 0 /\ row.aux[d] = (Applied(d) % 2 = 1)
    BY DEF ToggleParity, Applied, Logs, Pending
  <2> QED BY DEF Counted, Odd
<1> QED BY <1>1, <1>2, InitCounted, TypeInvariance, PTL DEF Spec
=============================================================================
