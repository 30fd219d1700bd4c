------------------------------ MODULE Commands ------------------------------
(***************************************************************************)
(* The vocabulary every part of the vivarium shares: the twelve control    *)
(* commands.  The app sends a two digit code ("10", "11", ... "42"), the   *)
(* platform translates it to a 17 byte literal ("APP_LIGHT_ON00000", ...)  *)
(* that travels unchanged to the gateway and the Arduino.  Here a command  *)
(* is a record of the device it addresses and of the operation.            *)
(***************************************************************************)
EXTENDS Naturals

Relay  == {"LIGHT", "HITTE", "HUMID"}
Device == Relay \cup {"MOTOR"}

RelayCommand == [dev : Relay, op : {"ON", "OF", "AU"}]
MotorCommand == [dev : {"MOTOR"}, op : {"LE", "RI", "OF"}]
Command      == RelayCommand \cup MotorCommand

Cmd(d, o) == [dev |-> d, op |-> o]

\* The empty string: the initial value of the static field payload.
NoCommand == [dev |-> "none", op |-> "none"]

(***************************************************************************)
(* The only row of the table CURRENT_STATE.  val[d] is the column LIGHT,   *)
(* HITTE, HUMID or MOTOR; aux[d] the column LIGHT_AUTO, HITTE_AUTO,        *)
(* HUMID_AUTO or MOTOR_ON.                                                 *)
(***************************************************************************)
Row     == [val : [Device -> BOOLEAN], aux : [Device -> BOOLEAN]]
InitRow == [val |-> [d \in Device |-> FALSE], aux |-> [d \in Device |-> FALSE]]

\* ON, OF, LE and RI store a value; AU and the motor's OF negate a column.
Toggles(c) == c.op = "AU" \/ c = Cmd("MOTOR", "OF")

\* Mutant: the AU commands store TRUE, as the ON commands do.
UpdateRelaySets(row, c) ==
    IF c.op = "AU" THEN [row EXCEPT !.aux[c.dev] = TRUE]
                   ELSE [row EXCEPT !.val[c.dev] = (c.op = "ON")]

\* UPDATE CURRENT_STATE SET ..., one statement of the database server.
UpdateRelay(row, c) ==
    IF c.op = "AU" THEN [row EXCEPT !.aux[c.dev] = ~ @]
                   ELSE [row EXCEPT !.val[c.dev] = (c.op = "ON")]

UpdateMotor(row, c) ==
    IF c.op = "OF" THEN [row EXCEPT !.aux["MOTOR"] = ~ @]
                   ELSE [row EXCEPT !.val["MOTOR"] = (c.op = "LE")]

Update(row, c) == IF c.dev = "MOTOR" THEN UpdateMotor(row, c)
                                     ELSE UpdateRelay(row, c)
=============================================================================
