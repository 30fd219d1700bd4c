---------------------------- MODULE PlatformMain ----------------------------
(***************************************************************************)
(* The command path of the platform server: the threads that serve the     *)
(* apps (PlatformMain.Session.run), the CoAP request each of them makes of *)
(* the gateway (PlatformCoapSend) and the two SQL statements by which it   *)
(* records the command (Database.insertControl).                           *)
(*                                                                         *)
(* One element of Session stands for a TCP connection and the thread that  *)
(* serves it.  A control request is served in five steps, and the threads  *)
(* interleave between any two of them:                                     *)
(*                                                                         *)
(*   read -> assign -> send -> wait -> log -> update -> reply -> read ...  *)
(*                                                                         *)
(* assign writes the static field payload, which send reads again.         *)
(***************************************************************************)
EXTENDS Commands, Sequences, FiniteSets

CONSTANTS
    Session,      \* connections, and the threads that serve them
    Offered,      \* the control commands the apps use
    MaxRequests,  \* bound: control requests the apps make in all
    MaxFaults     \* bound: database failures, lost writes, crashes and kills

ASSUME OfferedAssumption == Offered \subseteq Command
ASSUME SessionAssumption == IsFiniteSet(Session)
ASSUME BoundAssumption   == MaxRequests \in Nat /\ MaxFaults \in Nat

\* The requests that are no control command: REQUEST_STATE and COLSE.
StateRequest == [dev |-> "server", op |-> "STATE"]
CloseRequest == [dev |-> "server", op |-> "CLOSE"]
Request      == Command \cup {StateRequest, CloseRequest}
NoRequest    == NoCommand

\* What the app reads from the socket: a reply, or nothing yet.
NoReply == "none"
Reply   == {"S", "F", "row", NoReply}

VARIABLES
    \* the server process
    pc,        \* where each thread is in Session.run
    req,       \* the request it serves (dataArray[0])
    db,        \* whether its Database object has a connection
    payload,   \* the static field PlatformMain.payload
    tok,       \* the CoAP request it made last
    \* the database
    log,       \* table CONTROL_LOG, in insertion order
    row,       \* table CURRENT_STATE
    \* the apps and the networks
    app,       \* the other end of each connection
    inbox,     \* bytes the server has not read yet
    outbox,    \* bytes the app has not read yet
    net,       \* CoAP requests and responses under way
    asked, sent, faults,
    \* history
    wire,      \* the command each thread sent last
    rivals,    \* commands other threads assigned between its assign and send
    trouble,   \* what went wrong while it served its request
    pushed,    \* the commands the gateway executed, in order
    unwritten, \* the CoAP requests it answered OK and could not execute
    abandoned, \* the CoAP requests whose sender stopped waiting
    unapplied  \* toggles in CONTROL_LOG that never reached CURRENT_STATE

server  == <<pc, req, db, payload, tok>>
tables  == <<log, row>>
world   == <<app, inbox, outbox, net>>
counts  == <<asked, sent, faults>>
history == <<wire, rivals, trouble, pushed, unwritten, abandoned, unapplied>>
vars    == <<server, tables, world, counts, history>>

Serving == {"assign", "send", "wait", "log", "update", "reply"}
PC      == {"closed", "start", "read"} \cup Serving
\* A datagram: a request to the gateway, or its response with a code.
Message == [id : Nat, ses : Session, msg : Command, code : {"GET", "OK", "BAD"}]
Mishap  == {"timeout", "rejected", "nolog", "nostate"}
Entry   == [id : Nat, ses : Session, msg : Command]

Init ==
    /\ pc = [s \in Session |-> "closed"]
    /\ req = [s \in Session |-> NoRequest]
    /\ db = [s \in Session |-> FALSE]
    /\ payload = NoCommand
    /\ tok = [s \in Session |-> 0]
    /\ log = << >>
    /\ row = InitRow
    /\ app = [s \in Session |-> "gone"]
    /\ inbox = [s \in Session |-> NoRequest]
    /\ outbox = [s \in Session |-> NoReply]
    /\ net = {}
    /\ asked = 0 /\ sent = 0 /\ faults = 0
    /\ wire = [s \in Session |-> NoCommand]
    /\ rivals = [s \in Session |-> {}]
    /\ trouble = [s \in Session |-> {}]
    /\ pushed = << >> /\ unwritten = {}
    /\ abandoned = {}
    /\ unapplied = [d \in Device |-> 0]

-----------------------------------------------------------------------------
(* The apps: one connection each, at most one request outstanding.         *)

\* ServerSocket.accept and new Thread(session).start().
Accept(s) ==
    /\ pc[s] = "closed" /\ app[s] = "gone"
    /\ pc' = [pc EXCEPT ![s] = "start"]
    /\ app' = [app EXCEPT ![s] = "idle"]
    /\ inbox' = [inbox EXCEPT ![s] = NoRequest]
    /\ outbox' = [outbox EXCEPT ![s] = NoReply]
    /\ UNCHANGED <<req, db, payload, tok, tables, net, counts, history>>

\* MainActivity.CommuTask writes a request and blocks in read.
AppSend(s, r) ==
    /\ app[s] = "idle" /\ pc[s] # "closed"
    /\ r \in Command => asked < MaxRequests
    /\ app' = [app EXCEPT ![s] = "waiting"]
    /\ inbox' = [inbox EXCEPT ![s] = r]
    /\ asked' = IF r \in Command THEN asked + 1 ELSE asked
    /\ UNCHANGED <<server, tables, outbox, net, sent, faults, history>>

AppReceive(s) ==
    /\ app[s] = "waiting" /\ outbox[s] # NoReply
    /\ app' = [app EXCEPT ![s] = "idle"]
    /\ outbox' = [outbox EXCEPT ![s] = NoReply]
    /\ UNCHANGED <<server, tables, inbox, net, counts, history>>

\* onDestroy sends COLSE and closes the socket; the app does not wait.
AppClose(s) ==
    /\ app[s] = "idle"
    /\ app' = [app EXCEPT ![s] = "gone"]
    /\ inbox' = [inbox EXCEPT ![s] = CloseRequest]
    /\ UNCHANGED <<server, tables, outbox, net, counts, history>>

\* The app is killed: no COLSE, the server will read the end of the stream.
AppDie(s) ==
    /\ app[s] # "gone" /\ faults < MaxFaults
    /\ faults' = faults + 1
    /\ app' = [app EXCEPT ![s] = "gone"]
    /\ UNCHANGED <<server, tables, inbox, outbox, net, asked, sent, history>>

\* The server closed the connection: read returns -1, or the next write fails.
AppSeesClose(s) ==
    /\ app[s] # "gone" /\ pc[s] = "closed" /\ outbox[s] = NoReply
    /\ app' = [app EXCEPT ![s] = "gone"]
    /\ UNCHANGED <<server, tables, inbox, outbox, net, counts, history>>

-----------------------------------------------------------------------------
(* A session thread.                                                       *)

Goto(s, label) == pc' = [pc EXCEPT ![s] = label]

\* The locals of one pass of the loop, dead once the pass is over.
EndOfPass(s) ==
    /\ req' = [req EXCEPT ![s] = NoRequest]
    /\ tok' = [tok EXCEPT ![s] = 0]
    /\ wire' = [wire EXCEPT ![s] = NoCommand]
    /\ rivals' = [rivals EXCEPT ![s] = {}]
    /\ trouble' = [trouble EXCEPT ![s] = {}]

\* new Database(): an exception leaves con and state null and is swallowed.
OpenDatabase(s) ==
    /\ pc[s] = "start"
    /\ Goto(s, "read")
    /\ \/ db' = [db EXCEPT ![s] = TRUE] /\ faults' = faults
       \/ /\ faults < MaxFaults /\ faults' = faults + 1
          /\ db' = [db EXCEPT ![s] = FALSE]
    /\ UNCHANGED <<req, payload, tok, tables, world, asked, sent, history>>

\* Mutant: a branch forgets to assign payload before it sends.
ReadControlNoAssign(s) ==
    /\ pc[s] = "read" /\ inbox[s] \in Command
    /\ Goto(s, "send")
    /\ req' = [req EXCEPT ![s] = inbox[s]]
    /\ inbox' = [inbox EXCEPT ![s] = NoRequest]
    /\ UNCHANGED <<db, payload, tok, tables, app, outbox, net, counts, history>>

\* Mutant: whatever is read is taken for a control request and forwarded.
ReadControlAny(s) ==
    /\ pc[s] = "read" /\ inbox[s] # NoRequest
    /\ Goto(s, "assign")
    /\ req' = [req EXCEPT ![s] = inbox[s]]
    /\ inbox' = [inbox EXCEPT ![s] = NoRequest]
    /\ UNCHANGED <<db, payload, tok, tables, app, outbox, net, counts, history>>

\* wfIn.read returns a control request.
ReadControl(s) ==
    /\ pc[s] = "read" /\ inbox[s] \in Command
    /\ Goto(s, "assign")
    /\ req' = [req EXCEPT ![s] = inbox[s]]
    /\ inbox' = [inbox EXCEPT ![s] = NoRequest]
    /\ UNCHANGED <<db, payload, tok, tables, app, outbox, net, counts, history>>

\* REQUEST_STATE: select catches SQLException only, so that without a
\* connection the NullPointerException ends the session without a reply.
ReadState(s) ==
    /\ pc[s] = "read" /\ inbox[s] = StateRequest
    /\ inbox' = [inbox EXCEPT ![s] = NoRequest]
    /\ \/ /\ db[s]
          /\ \/ outbox' = [outbox EXCEPT ![s] = "row"] /\ faults' = faults
             \/ /\ faults < MaxFaults /\ faults' = faults + 1
                /\ outbox' = [outbox EXCEPT ![s] = "F"]
          /\ pc' = pc
       \/ /\ ~ db[s]
          /\ Goto(s, "closed")
          /\ UNCHANGED <<outbox, faults>>
    /\ UNCHANGED <<req, db, payload, tok, tables, app, net, asked, sent, history>>

\* COLSE, or the end of the stream: leave the loop, close the streams.
ReadClose(s) ==
    /\ pc[s] = "read"
    /\ \/ inbox[s] = CloseRequest
       \/ inbox[s] = NoRequest /\ app[s] = "gone"
    /\ Goto(s, "closed")
    /\ inbox' = [inbox EXCEPT ![s] = NoRequest]
    /\ db' = [db EXCEPT ![s] = FALSE]
    /\ UNCHANGED <<req, payload, tok, tables, app, outbox, net, counts, history>>

\* payload = "APP_...": every thread that is about to send may read this.
AssignPayload(s) ==
    /\ pc[s] = "assign"
    /\ Goto(s, "send")
    /\ payload' = req[s]
    /\ rivals' = [t \in Session |->
                    IF t # s /\ pc[t] = "send" THEN rivals[t] \cup {req[s]}
                                               ELSE rivals[t]]
    /\ UNCHANGED <<req, db, tok, tables, world, counts,
                   wire, trouble, pushed, unwritten, abandoned, unapplied>>

\* Mutant: request.send() without request.waitForResponse().
CoapSendNoWait(s) ==
    /\ pc[s] = "send"
    /\ Goto(s, "log")
    /\ sent' = sent + 1
    /\ tok' = [tok EXCEPT ![s] = sent']
    /\ \E m \in {req[s], payload} :
          /\ wire' = [wire EXCEPT ![s] = m]
          /\ net' = net \cup {[id |-> sent', ses |-> s, msg |-> m, code |-> "GET"]}
    /\ UNCHANGED <<req, db, payload, tables, app, inbox, outbox,
                   asked, faults, rivals, trouble, pushed, unwritten, abandoned, unapplied>>

\* new PlatformCoapSend(method, uri, payload).  The field is neither volatile
\* nor guarded: the thread may read its own store or the current value.
CoapSend(s) ==
    /\ pc[s] = "send"
    /\ Goto(s, "wait")
    /\ sent' = sent + 1
    /\ tok' = [tok EXCEPT ![s] = sent']
    /\ \E m \in {req[s], payload} :
          /\ wire' = [wire EXCEPT ![s] = m]
          /\ net' = net \cup {[id |-> sent', ses |-> s, msg |-> m, code |-> "GET"]}
    /\ UNCHANGED <<req, db, payload, tables, app, inbox, outbox,
                   asked, faults, rivals, trouble, pushed, unwritten, abandoned, unapplied>>

\* A response that nobody waits for any more is discarded.
Unanswered(msgs, ids) == {m \in msgs : m.code = "GET" \/ m.id \notin ids}

\* request.waitForResponse returns a response; its code is not looked at.
CoapResponse(s) ==
    /\ pc[s] = "wait"
    /\ \E r \in net :
          /\ r.code # "GET" /\ r.id = tok[s]
          /\ net' = net \ {r}
          /\ trouble' = IF r.code = "OK" THEN trouble
                        ELSE [trouble EXCEPT ![s] = @ \cup {"rejected"}]
    /\ Goto(s, "log")
    /\ UNCHANGED <<req, db, payload, tok, tables, app, inbox, outbox, counts,
                   wire, rivals, pushed, unwritten, abandoned, unapplied>>

\* Mutant: no break after the time-out: the loop waits again.
CoapTimeoutLoops(s) == pc[s] = "wait" /\ UNCHANGED vars

\* After the last retransmission it returns null: "Request timed out", break.
CoapTimeout(s) ==
    /\ pc[s] = "wait"
    /\ Goto(s, "log")
    /\ trouble' = [trouble EXCEPT ![s] = @ \cup {"timeout"}]
    /\ abandoned' = abandoned \cup {tok[s]}
    /\ net' = Unanswered(net, {tok[s]})
    /\ UNCHANGED <<req, db, payload, tok, tables, app, inbox, outbox, counts,
                   wire, rivals, pushed, unwritten, unapplied>>

-----------------------------------------------------------------------------
(* Database.insertControl: two statements, each committed by itself.       *)

\* The statement throws: without a connection always, else as a fault.
StatementFails(s, mishap) ==
    /\ Goto(s, "reply")
    /\ trouble' = [trouble EXCEPT ![s] = @ \cup {mishap}]
    /\ IF db[s] THEN faults < MaxFaults /\ faults' = faults + 1
                ELSE faults' = faults

\* Mutant: the INSERT is not executed.
InsertLogSkips(s) ==
    /\ pc[s] = "log" /\ log' = log
    /\ Goto(s, "update")
    /\ UNCHANGED <<req, db, payload, tok, row, world, counts, history>>

InsertLog(s) ==
    /\ pc[s] = "log"
    /\ \/ /\ db[s]
          /\ log' = Append(log, req[s])
          /\ Goto(s, "update")
          /\ UNCHANGED <<faults, trouble>>
       \/ StatementFails(s, "nolog") /\ log' = log
    /\ UNCHANGED <<req, db, payload, tok, row, world, asked, sent,
                   wire, rivals, pushed, unwritten, abandoned, unapplied>>

UpdateState(s) ==
    /\ pc[s] = "update"
    /\ \/ /\ row' = Update(row, req[s])
          /\ Goto(s, "reply")
          /\ UNCHANGED <<faults, trouble, unapplied>>
       \/ /\ StatementFails(s, "nostate") /\ row' = row
          /\ unapplied' = IF Toggles(req[s])
                          THEN [unapplied EXCEPT ![req[s].dev] = @ + 1]
                          ELSE unapplied
    /\ UNCHANGED <<req, db, payload, tok, log, world, asked, sent,
                   wire, rivals, pushed, unwritten, abandoned>>

\* The value insertControl returns is dropped: the reply is always "S".
ReplyToApp(s) ==
    /\ pc[s] = "reply"
    /\ \/ Goto(s, "read") /\ outbox' = [outbox EXCEPT ![s] = "S"] /\ db' = db
       \/ /\ app[s] = "gone"
          /\ Goto(s, "closed") /\ db' = [db EXCEPT ![s] = FALSE] /\ outbox' = outbox
    /\ EndOfPass(s)
    /\ UNCHANGED <<payload, tables, app, inbox, net, counts,
                   pushed, unwritten, abandoned, unapplied>>

-----------------------------------------------------------------------------
(* The rest of the world.                                                  *)

\* The gateway executes a request, once whatever is retransmitted, and says OK.
GatewayPush(m) ==
    /\ m \in net /\ m.code = "GET"
    /\ net' = Unanswered((net \ {m}) \cup {[m EXCEPT !.code = "OK"]}, abandoned)
    /\ pushed' = Append(pushed, [id |-> m.id, ses |-> m.ses, msg |-> m.msg])
    /\ UNCHANGED <<server, tables, app, inbox, outbox, counts,
                   wire, rivals, trouble, unwritten, abandoned, unapplied>>

\* The write to the serial port fails: push prints the IOException and returns,
\* and the handler answers OK for a command that nobody executed.
GatewaySwallows(m) ==
    /\ m \in net /\ m.code = "GET"
    /\ faults < MaxFaults /\ faults' = faults + 1
    /\ net' = Unanswered((net \ {m}) \cup {[m EXCEPT !.code = "OK"]}, abandoned)
    /\ unwritten' = unwritten \cup {m.id}
    /\ UNCHANGED <<server, tables, app, inbox, outbox, asked, sent,
                   wire, rivals, trouble, pushed, abandoned, unapplied>>

\* Its serial port is not open: the handler answers BAD_REQUEST.
GatewayReject(m) ==
    /\ m \in net /\ m.code = "GET"
    /\ net' = Unanswered((net \ {m}) \cup {[m EXCEPT !.code = "BAD"]}, abandoned)
    /\ UNCHANGED <<server, tables, app, inbox, outbox, counts, history>>

\* The server process dies and is started again: the tables stay, the static
\* field and the threads go.  What was between INSERT and UPDATE is cut short.
ServerCrash ==
    /\ faults < MaxFaults /\ faults' = faults + 1
    /\ \E s \in Session : pc[s] # "closed"
    /\ pc' = [s \in Session |-> "closed"]
    /\ payload' = NoCommand
    /\ req' = [s \in Session |-> NoRequest]
    /\ tok' = [s \in Session |-> 0]
    /\ wire' = [s \in Session |-> NoCommand]
    /\ rivals' = [s \in Session |-> {}]
    /\ trouble' = [s \in Session |-> {}]
    /\ abandoned' = abandoned \cup {tok[s] : s \in {t \in Session : pc[t] = "wait"}}
    /\ net' = Unanswered(net, abandoned')
    /\ unapplied' = [d \in Device |-> unapplied[d] +
          Cardinality({s \in Session :
                         pc[s] = "update" /\ Toggles(req[s]) /\ req[s].dev = d})]
    /\ db' = [s \in Session |-> FALSE]
    /\ UNCHANGED <<tables, app, inbox, outbox, asked, sent, pushed, unwritten>>

Gateway(m) ==
    \/ GatewayPush(m)
    \/ GatewaySwallows(m)
    \/ GatewayReject(m)

App(s) ==
    \/ AppReceive(s)
    \/ AppSeesClose(s)

Thread(s) ==
    \/ OpenDatabase(s)
    \/ ReadControl(s)
    \/ ReadState(s)
    \/ ReadClose(s)
    \/ AssignPayload(s)
    \/ CoapSend(s)
    \/ CoapResponse(s)
    \/ CoapTimeout(s)
    \/ InsertLog(s)
    \/ UpdateState(s)
    \/ ReplyToApp(s)

User(s) ==
    \/ Accept(s)
    \/ \E r \in Offered \cup {StateRequest} : AppSend(s, r)
    \/ AppClose(s)
    \/ AppDie(s)

Next ==
    \/ \E s \in Session : App(s) \/ Thread(s) \/ User(s)
    \/ \E m \in net : Gateway(m)
    \/ ServerCrash

Spec == Init /\ [][Next]_vars

\* Every thread is scheduled, every statement and every CoAP exchange ends (a
\* response or the time-out), and a blocked read of an app returns once there
\* are bytes or the connection is closed.  No fairness for users or gateway.
Fairness == \A s \in Session : WF_vars(Thread(s)) /\ WF_vars(App(s))

FairSpec == Spec /\ Fairness

-----------------------------------------------------------------------------
(* Properties.                                                             *)

\* Every variable holds values of its kind: threads are at a step of run,
\* tables hold commands and Booleans, datagrams carry commands.
TypeOK ==
    /\ pc \in [Session -> PC]
    /\ req \in [Session -> Request \cup {NoRequest}]
    /\ db \in [Session -> BOOLEAN]
    /\ payload \in Command \cup {NoCommand}
    /\ tok \in [Session -> Nat]
    /\ log \in Seq(Command)
    /\ row \in Row
    /\ app \in [Session -> {"gone", "idle", "waiting"}]
    /\ inbox \in [Session -> Request \cup {NoRequest}]
    /\ outbox \in [Session -> Reply]
    /\ net \subseteq Message
    /\ asked \in Nat /\ sent \in Nat /\ faults \in Nat
    /\ wire \in [Session -> Command \cup {NoCommand}]
    /\ rivals \in [Session -> SUBSET Command]
    /\ trouble \in [Session -> SUBSET Mishap]
    /\ pushed \in Seq(Entry)
    /\ unwritten \subseteq Nat
    /\ abandoned \subseteq Nat
    /\ unapplied \in [Device -> Nat]

\* A thread sends its gateway either the command its app asked for or one
\* that another thread assigned to the shared field payload between this
\* thread's assignment and its send: no older command, and never an empty
\* payload, reaches the wire.
OnlyRivalsLeak ==
    \A s \in Session :
        pc[s] \in {"wait", "log", "update", "reply"} =>
            wire[s] \in {req[s]} \cup rivals[s]

\* "S" is false for three reasons only.  A thread that is about to answer, had
\* no rival and met no mishap has logged its app's command; and the gateway has
\* executed that command, under the CoAP request made for it, unless its write
\* failed on the serial line, of which the OK it sends back says nothing.
HonestWhenClean ==
    \A s \in Session :
        (pc[s] = "reply" /\ rivals[s] = {} /\ trouble[s] = {}) =>
            /\ tok[s] \in unwritten \/ \E i \in DOMAIN pushed :
                  pushed[i] = [id |-> tok[s], ses |-> s, msg |-> req[s]]
            /\ \E i \in DOMAIN log : log[i] = req[s]

\* The gateway executes a request at most once, and the requests of one
\* connection in the order they were made, unless the earlier one was given
\* up (time-out or crash): such a command can still be executed, and then
\* after commands that were asked for later.
InOrderUnlessAbandoned ==
    \A i, j \in DOMAIN pushed :
        (i < j /\ pushed[i].ses = pushed[j].ses) =>
            \/ pushed[i].id < pushed[j].id
            \/ pushed[j].id \in abandoned /\ pushed[i].id # pushed[j].id

\* The toggled columns (LIGHT_AUTO, HITTE_AUTO, HUMID_AUTO, MOTOR_ON) count
\* modulo two the toggles of CONTROL_LOG, less those whose UPDATE is still to
\* come, failed, or was cut short by a crash: no toggle is lost to a race.
ToggleOf(d) == IF d = "MOTOR" THEN Cmd(d, "OF") ELSE Cmd(d, "AU")

ToggleParity ==
    \A d \in Device :
        LET logged  == Cardinality({i \in DOMAIN log : log[i] = ToggleOf(d)})
            pending == Cardinality({s \in Session :
                                      pc[s] = "update" /\ req[s] = ToggleOf(d)})
            applied == logged - pending - unapplied[d]
        IN  applied >= 0 /\ row.aux[d] = (applied % 2 = 1)

\* Nobody waits for ever: an app that waits for a reply gets one, or sees the
\* connection closed, whatever the gateway, the database and the other
\* threads do.
EveryRequestEnds ==
    \A s \in Session : (app[s] = "waiting") ~> (app[s] # "waiting")

\* PlatformMain, at every control branch: String response = "S";//failed : F
\* That is: the app is told "S" only if its command did not fail.
FailureIsReported ==
    [][\A s \in Session : (outbox[s] # "S" /\ outbox'[s] = "S") => trouble[s] = {}]_vars
=============================================================================
