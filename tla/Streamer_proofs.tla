-------------------------- MODULE Streamer_proofs --------------------------
(***************************************************************************)
(* Proofs about Streamer.                                                  *)
(***************************************************************************)
EXTENDS Streamer, TLAPS

-----------------------------------------------------------------------------
(* Types.                                                                  *)

\* Changing one field of a record keeps its type.
LEMMA DeviceField == ASSUME NEW d \in Device
                     PROVE  /\ \A b \in BOOLEAN : /\ [d EXCEPT !.present = b] \in Device
                                                  /\ [d EXCEPT !.mapped = b] \in Device
                                                  /\ [d EXCEPT !.streaming = b] \in Device
                            /\ \A s \in {"OFF", "ON", "PAUSED"} : [d EXCEPT !.state = s] \in Device
                            /\ \A n \in 0 .. NB_BUFFER : [d EXCEPT !.queued = n] \in Device
  BY Zenon DEF Device

LEMMA DeviceStep == ASSUME NEW d \in Device
                    PROVE  /\ [d EXCEPT !.state = "PAUSED", !.streaming = FALSE, !.queued = 0] \in Device
                           /\ [d EXCEPT !.state = "OFF", !.streaming = FALSE, !.queued = 0] \in Device
                           /\ [d EXCEPT !.state = "ON", !.streaming = TRUE] \in Device
                           /\ d.queued > 0 => [d EXCEPT !.queued = @ - 1] \in Device
                           /\ d.queued < NB_BUFFER => [d EXCEPT !.queued = @ + 1] \in Device
                           /\ Opened(d) \in Device
  <1>1. 0 \in 0 .. NB_BUFFER /\ NB_BUFFER \in 0 .. NB_BUFFER
    BY BufferAssumption
  <1>2. ASSUME NEW s \in {"OFF", "PAUSED"}
        PROVE  [d EXCEPT !.state = s, !.streaming = FALSE, !.queued = 0] \in Device
    <2>1. [d EXCEPT !.state = s] \in Device
      BY DeviceField
    <2>2. [[d EXCEPT !.state = s] EXCEPT !.streaming = FALSE] \in Device
      BY <2>1, DeviceField
    <2> QED BY <2>2, <1>1, DeviceField
  <1>3. [d EXCEPT !.state = "ON", !.streaming = TRUE] \in Device
    <2>1. [d EXCEPT !.state = "ON"] \in Device
      BY DeviceField
    <2> QED BY <2>1, DeviceField
  <1>4. Opened(d) \in Device
    <2>1. [d EXCEPT !.mapped = TRUE] \in Device
      BY DeviceField
    <2>2. [[d EXCEPT !.mapped = TRUE] EXCEPT !.queued = NB_BUFFER] \in Device
      BY <2>1, <1>1, DeviceField
    <2> QED BY <2>2, DeviceField DEF Opened
  <1>5. d.queued > 0 => d.queued - 1 \in 0 .. NB_BUFFER
    BY BufferAssumption DEF Device
  <1>6. d.queued < NB_BUFFER => d.queued + 1 \in 0 .. NB_BUFFER
    BY BufferAssumption DEF Device
  <1> QED BY <1>2, <1>3, <1>4, <1>5, <1>6, DeviceField

LEMMA BufferStep == ASSUME NEW b \in Buffer, NEW f \in Content
                    PROVE  /\ [b EXCEPT !.head = f] \in Buffer
                           /\ [b EXCEPT !.tail = f] \in Buffer
                           /\ [b EXCEPT !.freed = TRUE] \in Buffer
  BY DEF Buffer

LEMMA InitType == Init => TypeOK
  <1> SUFFICES ASSUME Init PROVE TypeOK
    OBVIOUS
  <1>1. buf \in Buffer /\ dev \in Device
    <2>1. buf \in Buffer
      BY DEF Init, Buffer, Content
    <2>2. 0 \in 0 .. NB_BUFFER
      BY BufferAssumption
    <2>3. dev \in Device
      BY <2>2, Zenon DEF Init, Device
    <2> QED BY <2>1, <2>3
  <1>2. copy \in [Clients -> Halves]
    BY DEF Init, Halves, Content, Whole
  <1> QED
    BY <1>1, <1>2 DEF Init, TypeOK, Content, MainPlace, CamPlace, Place

LEMMA MainType == TypeOK /\ (Main \/ Signal \/ Unplug \/ ServerFails) => TypeOK'
  <1> SUFFICES ASSUME TypeOK, Main \/ Signal \/ Unplug \/ ServerFails PROVE TypeOK'
    OBVIOUS
  <1> USE DEF TypeOK, procs, camVars, cliVars, MainPlace
  <1>1. CASE OpenInput
    BY <1>1, DeviceStep DEF OpenInput, CallFails
  <1>2. CASE OpenOutput
    BY <1>2 DEF OpenOutput, CallFails
  <1>3. CASE RunPlugins
    BY <1>3 DEF RunPlugins, CallFails, CamPlace
  <1>4. CASE StopInputs
    BY <1>4 DEF StopInputs
  <1>5. CASE StopOutputs
    BY <1>5 DEF StopOutputs
  <1>6. CASE DestroyReturns
    BY <1>6 DEF DestroyReturns
  <1>7. CASE CloseHandles
    BY <1>7 DEF CloseHandles
  <1>8. CASE Signal
    BY <1>8 DEF Signal
  <1>9. CASE Unplug
    BY <1>9, DeviceField DEF Unplug
  <1>10. CASE ServerFails
    BY <1>10 DEF ServerFails, CallFails
  <1> QED
    BY <1>1, <1>2, <1>3, <1>4, <1>5, <1>6, <1>7, <1>8, <1>9, <1>10 DEF Main

LEMMA CameraType == TypeOK /\ Camera => TypeOK'
  <1> SUFFICES ASSUME TypeOK, Camera PROVE TypeOK'
    OBVIOUS
  <1> USE DEF TypeOK, cliVars, Cam, CamPlace, Exit1, procs
  <1>1. CASE CamTop
    BY <1>1 DEF CamTop
  <1>2. CASE CamPaused
    BY <1>2 DEF CamPaused
  <1>3. CASE CamEnable
    BY <1>3, DeviceStep DEF CamEnable
  <1>4. CASE Grab
    BY <1>4, DeviceStep DEF Grab, CanStream, Content, Frames
  <1>5. CASE GrabEmpty
    BY <1>5, DeviceStep DEF GrabEmpty, CanStream, Content, Frames
  <1>6. CASE GrabFails
    BY <1>6 DEF GrabFails
  <1>7. CASE Fill
    BY <1>7 DEF Fill
  <1>8. CASE Requeue
    BY <1>8, DeviceStep DEF Requeue, CanRequeue
  <1>9. CASE RequeueFails
    BY <1>9 DEF RequeueFails
  <1>10. CASE Keep
    BY <1>10 DEF Keep
  <1>11. CASE Drop
    BY <1>11 DEF Drop, Content
  <1>12. CASE CamLock
    BY <1>12 DEF CamLock, Lock
  <1>13. CASE Write1
    BY <1>13, BufferStep DEF Write1
  <1>14. CASE Write2
    <2>1. buf' \in Buffer
      BY <1>14, BufferStep DEF Write2
    <2>2. pc' \in [Clients -> Place]
      BY <1>14 DEF Write2, Place
    <2>3. ticket' \in [Clients -> {"none", "asked", "ready"}]
      BY <1>14 DEF Write2
    <2>4. db' \in {"free", "camera", "destroyed"} \cup Clients /\ grabbed' \in Content
      BY <1>14 DEF Write2, Unlock, Content
    <2> QED BY <1>14, <2>1, <2>2, <2>3, <2>4 DEF Write2
  <1>15. CASE CamClose
    BY <1>15, DeviceStep DEF CamClose
  <1>16. CASE CamFree
    BY <1>16, BufferStep DEF CamFree
  <1> QED
    BY <1>1, <1>2, <1>3, <1>4, <1>5, <1>6, <1>7, <1>8, <1>9, <1>10, <1>11, <1>12, <1>13,
       <1>14, <1>15, <1>16 DEF Camera

Visit(c) == Connect(c) \/ ConnectResolution(c) \/ SpuriousWakeup(c) \/ Send(c) \/ SendFails(c) \/ Http(c)

LEMMA ClientType == ASSUME TypeOK, NEW c \in Clients, Visit(c) PROVE TypeOK'
  <1> USE DEF TypeOK, camVars, Client, Place, Resolving
  <1>1. CASE Connect(c)
    <2>1. PICK w \in Asks[c] \ {"resolution"} :
             Client(c, "none", "lock") /\ want' = [want EXCEPT ![c] = w]
      BY <1>1 DEF Connect
    <2>2. w \in {"none", "stream", "snapshot", "resolution"}
      BY AskAssumption
    <2> QED BY <1>1, <2>1, <2>2 DEF Connect
  <1>2. CASE ConnectResolution(c)
    BY <1>2 DEF ConnectResolution
  <1>3. CASE SpuriousWakeup(c)
    BY <1>3 DEF SpuriousWakeup
  <1>4. CASE Send(c)
    BY <1>4 DEF Send, Whole, Halves, Content
  <1>5. CASE SendFails(c)
    BY <1>5 DEF SendFails, Whole, Halves, Content
  <1>6. CASE Wait(c)
    BY <1>6 DEF Wait
  <1>7. CASE Relock(c)
    BY <1>7 DEF Relock, Lock
  <1>8. CASE NoMemory(c)
    BY <1>8 DEF NoMemory, Unlock
  <1>9. CASE Copy1(c)
    <2>1. PICK f \in Readable(buf.head) : copy' = [copy EXCEPT ![c].head = f]
      BY <1>9 DEF Copy1
    <2>2. f \in Content \cup {Junk}
      BY DEF Readable, Buffer
    <2>3. copy' \in [Clients -> Halves]
      BY <2>1, <2>2 DEF Halves
    <2>4. status' \in {"running", "exit 0", "exit 1", "signal", "call failed"}
      BY <1>9 DEF Copy1
    <2> QED BY <1>9, <2>3, <2>4 DEF Copy1
  <1>10. CASE Copy2(c)
    <2>1. PICK f \in Readable(buf.tail) : copy' = [copy EXCEPT ![c].tail = f]
      BY <1>10 DEF Copy2
    <2>2. f \in Content \cup {Junk}
      BY DEF Readable, Buffer
    <2>3. copy' \in [Clients -> Halves]
      BY <2>1, <2>2 DEF Halves
    <2>4. status' \in {"running", "exit 0", "exit 1", "signal", "call failed"}
      BY <1>10 DEF Copy2
    <2> QED BY <1>10, <2>3, <2>4 DEF Copy2, Unlock
  <1>11. CASE Pause(c)
    BY <1>11, DeviceField DEF Pause, Resolve, InGrab
  <1>12. CASE StreamOff(c)
    BY <1>12, DeviceStep DEF StreamOff, Resolve, InGrab
  <1>13. CASE Unmap(c)
    BY <1>13, DeviceField DEF Unmap, Resolve, InGrab
  <1>14. CASE Reopen(c)
    BY <1>14, DeviceStep DEF Reopen, Resolve, InGrab
  <1>15. CASE StreamOn(c)
    BY <1>15, DeviceStep DEF StreamOn, Resolve, InGrab
  <1>16. CASE ResolveFreed(c)
    BY <1>16 DEF ResolveFreed
  <1> QED
    BY <1>1, <1>2, <1>3, <1>4, <1>5, <1>6, <1>7, <1>8, <1>9, <1>10, <1>11, <1>12, <1>13,
       <1>14, <1>15, <1>16 DEF Visit, Http

LEMMA StutterType == TypeOK /\ UNCHANGED vars => TypeOK'
  BY DEF TypeOK, vars, procs, camVars, cliVars

LEMMA NextCases == Next <=> Main \/ Signal \/ Unplug \/ ServerFails \/ Camera \/ \E c \in Clients : Visit(c)
  BY DEF Next, Visit

(***************************************************************************)
(* Every variable keeps its type (the state of mjpg-streamer's threads,    *)
(* its buffer, the mutex and the device).                                  *)
(***************************************************************************)
THEOREM TypeCorrect == Spec => []TypeOK
  <1>1. TypeOK /\ [Next]_vars => TypeOK'
    BY MainType, CameraType, ClientType, StutterType, NextCases
  <1> QED BY InitType, <1>1, PTL DEF Spec
-----------------------------------------------------------------------------
(* The inductive invariant: what the mutex, the stop flag and the places   *)
(* of the threads tell about each other and about the two halves.          *)

Copying == {"copy 1", "copy 2"}

StopInv ==
    /\ stop <=> main \in {"stop inputs", "stop outputs", "close", "hung"}
    /\ db = "destroyed" \/ cancelled \/ buf.freed => stop
    /\ cam \in {"close", "free", "gone"} => stop

LockInv ==
    /\ cam \in {"write 1", "write 2"} => db \in {"camera", "destroyed"}
    /\ \A c \in Clients : pc[c] \in Copying => db \in {c, "destroyed"}

TicketInv ==
    \A c \in Clients :
        /\ pc[c] \in {"none", "lock", "send"} \cup Resolving => ticket[c] = "none"
        /\ pc[c] = "wait" <=> ticket[c] = "asked"
        /\ pc[c] \in {"woken"} \cup Copying => stop \/ ticket[c] = "ready"

HalfInv ==
    /\ stop \/ cam = "write 2" \/ buf.head = buf.tail
    /\ cam = "write 2" => stop \/ buf.head = grabbed
    /\ cam \in {"fill", "requeue", "keep", "lock", "write 1", "write 2"} => grabbed \in Frames
    /\ \A c \in Clients : pc[c] = "copy 2" => stop \/ copy[c].head = buf.tail

IInv == TypeOK /\ StopInv /\ LockInv /\ TicketInv /\ HalfInv

LEMMA InitInv == Init => IInv
  <1> SUFFICES ASSUME Init PROVE IInv
    OBVIOUS
  <1>1. StopInv
    BY Zenon DEF Init, StopInv
  <1>2. LockInv
    BY DEF Init, LockInv, Copying
  <1>3. TicketInv
    BY DEF Init, TicketInv, Copying, Resolving
  <1>4. HalfInv
    BY DEF Init, HalfInv
  <1> QED BY InitType, <1>1, <1>2, <1>3, <1>4 DEF IInv

\* What a step must leave alone for StopInv to stay.
LEMMA StopKept == ASSUME StopInv, main' = main, stop' = stop, cancelled' = cancelled,
                         buf'.freed = buf.freed, db' = "destroyed" => db = "destroyed",
                         cam' \in {"close", "free", "gone"} => stop
                  PROVE  StopInv'
  BY Zenon DEF StopInv

\* A client is not one of the other values of db.
LEMMA NamesOfHolders == \A c \in Clients : c # "free" /\ c # "camera" /\ c # "destroyed"
  BY ClientAssumption

LEMMA MainStop == ASSUME TypeOK, StopInv, Main \/ Signal \/ Unplug \/ ServerFails PROVE StopInv'
  <1> USE DEF StopInv, procs, camVars, cliVars
  <1>1. CASE OpenInput
    BY <1>1 DEF OpenInput, CallFails, Opened
  <1>2. CASE OpenOutput
    BY <1>2 DEF OpenOutput, CallFails
  <1>3. CASE RunPlugins
    BY <1>3 DEF RunPlugins, CallFails
  <1>4. CASE StopInputs
    BY <1>4 DEF StopInputs
  <1>5. CASE StopOutputs
    BY <1>5 DEF StopOutputs
  <1>6. CASE DestroyReturns
    BY <1>6 DEF DestroyReturns
  <1>7. CASE CloseHandles
    BY <1>7 DEF CloseHandles
  <1>8. CASE Signal
    BY <1>8 DEF Signal
  <1>9. CASE Unplug
    BY <1>9 DEF Unplug
  <1>10. CASE ServerFails
    BY <1>10 DEF ServerFails, CallFails
  <1> QED
    BY <1>1, <1>2, <1>3, <1>4, <1>5, <1>6, <1>7, <1>8, <1>9, <1>10 DEF Main

LEMMA CameraStop == ASSUME TypeOK, StopInv, Camera PROVE StopInv'
  <1> USE DEF StopInv, procs, cliVars, Cam
  <1>1. CASE CamTop
    BY <1>1 DEF CamTop
  <1>2. CASE CamPaused
    <2>1. main' = main /\ stop' = stop /\ cancelled' = cancelled
      BY <1>2 DEF CamPaused
    <2>2. buf'.freed = buf.freed
      BY <1>2 DEF CamPaused
    <2>3. db' = "destroyed" => db = "destroyed"
      BY <1>2 DEF CamPaused
    <2>4. cam' \in {"close", "free", "gone"} => stop
      BY <1>2 DEF CamPaused
    <2> QED BY <2>1, <2>2, <2>3, <2>4, StopKept
  <1>3. CASE CamEnable
    BY <1>3 DEF CamEnable, Exit1
  <1>4. CASE Grab
    BY <1>4 DEF Grab, Frames
  <1>5. CASE GrabEmpty
    BY <1>5 DEF GrabEmpty, Frames
  <1>6. CASE GrabFails
    BY <1>6 DEF GrabFails
  <1>7. CASE Fill
    BY <1>7 DEF Fill
  <1>8. CASE Requeue
    BY <1>8 DEF Requeue
  <1>9. CASE RequeueFails
    BY <1>9 DEF RequeueFails
  <1>10. CASE Keep
    BY <1>10 DEF Keep
  <1>11. CASE Drop
    BY <1>11 DEF Drop
  <1>12. CASE CamLock
    BY <1>12 DEF CamLock, Lock
  <1>13. CASE Write1
    <2>1. main' = main /\ stop' = stop /\ cancelled' = cancelled
      BY <1>13 DEF Write1
    <2>2. buf'.freed = buf.freed
      BY <1>13 DEF Write1, TypeOK, Buffer
    <2>3. db' = "destroyed" => db = "destroyed"
      BY <1>13 DEF Write1
    <2>4. cam' \in {"close", "free", "gone"} => stop
      BY <1>13 DEF Write1
    <2> QED BY <2>1, <2>2, <2>3, <2>4, StopKept
  <1>14. CASE Write2
    <2>1. main' = main /\ stop' = stop /\ cancelled' = cancelled
      BY <1>14 DEF Write2
    <2>2. buf'.freed = buf.freed
      BY <1>14 DEF Write2, TypeOK, Buffer
    <2>3. db' = "destroyed" => db = "destroyed"
      BY <1>14 DEF Write2, Unlock
    <2>4. cam' \in {"close", "free", "gone"} => stop
      BY <1>14 DEF Write2
    <2> QED BY <2>1, <2>2, <2>3, <2>4, StopKept
  <1>15. CASE CamClose
    BY <1>15 DEF CamClose
  <1>16. CASE CamFree
    BY <1>16 DEF CamFree
  <1> QED
    BY <1>1, <1>2, <1>3, <1>4, <1>5, <1>6, <1>7, <1>8, <1>9, <1>10, <1>11, <1>12, <1>13, <1>14, <1>15, <1>16 DEF Camera

LEMMA ClientStop == ASSUME TypeOK, StopInv, NEW c \in Clients, Visit(c) PROVE StopInv'
  <1> USE DEF StopInv, camVars, Client, Resolving
  <1>1. CASE Connect(c)
    <2>1. main' = main /\ stop' = stop /\ cancelled' = cancelled
      BY <1>1 DEF Connect
    <2>2. buf'.freed = buf.freed
      BY <1>1 DEF Connect
    <2>3. db' = "destroyed" => db = "destroyed"
      BY <1>1 DEF Connect
    <2>4. cam' \in {"close", "free", "gone"} => stop
      BY <1>1 DEF Connect
    <2> QED BY <2>1, <2>2, <2>3, <2>4, StopKept
  <1>2. CASE ConnectResolution(c)
    BY <1>2 DEF ConnectResolution
  <1>3. CASE SpuriousWakeup(c)
    BY <1>3 DEF SpuriousWakeup
  <1>4. CASE Send(c)
    BY <1>4 DEF Send
  <1>5. CASE SendFails(c)
    BY <1>5 DEF SendFails
  <1>6. CASE Wait(c)
    <2>1. main' = main /\ stop' = stop /\ cancelled' = cancelled
      BY <1>6 DEF Wait
    <2>2. buf'.freed = buf.freed
      BY <1>6 DEF Wait
    <2>3. db' = "destroyed" => db = "destroyed"
      BY <1>6 DEF Wait
    <2>4. cam' \in {"close", "free", "gone"} => stop
      BY <1>6 DEF Wait
    <2> QED BY <2>1, <2>2, <2>3, <2>4, StopKept
  <1>7. CASE Relock(c)
    <2>1. main' = main /\ stop' = stop /\ cancelled' = cancelled
      BY <1>7 DEF Relock
    <2>2. buf'.freed = buf.freed
      BY <1>7 DEF Relock
    <2>3. db' = "destroyed" => db = "destroyed"
      BY <1>7, NamesOfHolders DEF Relock, Lock
    <2>4. cam' \in {"close", "free", "gone"} => stop
      BY <1>7 DEF Relock
    <2> QED BY <2>1, <2>2, <2>3, <2>4, StopKept
  <1>8. CASE NoMemory(c)
    BY <1>8 DEF NoMemory, Unlock
  <1>9. CASE Copy1(c)
    BY <1>9 DEF Copy1, Readable
  <1>10. CASE Copy2(c)
    BY <1>10 DEF Copy2, Unlock, Readable
  <1>11. CASE Pause(c)
    BY <1>11 DEF Pause, Resolve
  <1>12. CASE StreamOff(c)
    <2>1. main' = main /\ stop' = stop /\ cancelled' = cancelled
      BY <1>12 DEF StreamOff, Resolve
    <2>2. buf'.freed = buf.freed
      BY <1>12 DEF StreamOff, Resolve
    <2>3. db' = "destroyed" => db = "destroyed"
      BY <1>12 DEF StreamOff, Resolve
    <2>4. cam' \in {"close", "free", "gone"} => stop
      BY <1>12 DEF StreamOff, Resolve
    <2> QED BY <2>1, <2>2, <2>3, <2>4, StopKept
  <1>13. CASE Unmap(c)
    BY <1>13 DEF Unmap, Resolve
  <1>14. CASE Reopen(c)
    <2>1. main' = main /\ stop' = stop /\ cancelled' = cancelled
      BY <1>14 DEF Reopen, Resolve
    <2>2. buf'.freed = buf.freed
      BY <1>14 DEF Reopen, Resolve
    <2>3. db' = "destroyed" => db = "destroyed"
      BY <1>14 DEF Reopen, Resolve
    <2>4. cam' \in {"close", "free", "gone"} => stop
      BY <1>14 DEF Reopen, Resolve
    <2> QED BY <2>1, <2>2, <2>3, <2>4, StopKept
  <1>15. CASE StreamOn(c)
    BY <1>15 DEF StreamOn, Resolve
  <1>16. CASE ResolveFreed(c)
    BY <1>16 DEF ResolveFreed
  <1> QED
    BY <1>1, <1>2, <1>3, <1>4, <1>5, <1>6, <1>7, <1>8, <1>9, <1>10, <1>11, <1>12, <1>13, <1>14, <1>15, <1>16 DEF Visit, Http

LEMMA MainLock == ASSUME TypeOK, LockInv, Main \/ Signal \/ Unplug \/ ServerFails PROVE LockInv'
  <1> USE DEF LockInv, TypeOK, Copying, procs, camVars, cliVars
  <1>1. CASE OpenInput
    BY <1>1 DEF OpenInput, CallFails, Opened
  <1>2. CASE OpenOutput
    BY <1>2 DEF OpenOutput, CallFails
  <1>3. CASE RunPlugins
    BY <1>3 DEF RunPlugins, CallFails
  <1>4. CASE StopInputs
    BY <1>4 DEF StopInputs
  <1>5. CASE StopOutputs
    BY <1>5 DEF StopOutputs
  <1>6. CASE DestroyReturns
    BY <1>6 DEF DestroyReturns
  <1>7. CASE CloseHandles
    BY <1>7 DEF CloseHandles
  <1>8. CASE Signal
    BY <1>8 DEF Signal
  <1>9. CASE Unplug
    BY <1>9 DEF Unplug
  <1>10. CASE ServerFails
    BY <1>10 DEF ServerFails, CallFails
  <1> QED
    BY <1>1, <1>2, <1>3, <1>4, <1>5, <1>6, <1>7, <1>8, <1>9, <1>10 DEF Main

LEMMA CameraLock == ASSUME TypeOK, LockInv, Camera PROVE LockInv'
  <1> USE DEF LockInv, TypeOK, Copying, procs, cliVars, Cam
  <1>1. CASE CamTop
    BY <1>1 DEF CamTop
  <1>2. CASE CamPaused
    BY <1>2 DEF CamPaused
  <1>3. CASE CamEnable
    BY <1>3 DEF CamEnable, Exit1
  <1>4. CASE Grab
    BY <1>4 DEF Grab, Frames
  <1>5. CASE GrabEmpty
    BY <1>5 DEF GrabEmpty, Frames
  <1>6. CASE GrabFails
    BY <1>6 DEF GrabFails
  <1>7. CASE Fill
    BY <1>7 DEF Fill
  <1>8. CASE Requeue
    BY <1>8 DEF Requeue
  <1>9. CASE RequeueFails
    BY <1>9 DEF RequeueFails
  <1>10. CASE Keep
    BY <1>10 DEF Keep
  <1>11. CASE Drop
    BY <1>11 DEF Drop
  <1>12. CASE CamLock
    <2>1. cam' = "write 1" /\ pc' = pc
      BY <1>12 DEF CamLock
    <2>2. CASE db = "free" /\ db' = "camera"
      BY <2>1, <2>2, NamesOfHolders
    <2>3. CASE db = "destroyed" /\ db' = "destroyed"
      BY <2>1, <2>3
    <2> QED BY <1>12, <2>2, <2>3 DEF CamLock, Lock
  <1>13. CASE Write1
    BY <1>13 DEF Write1
  <1>14. CASE Write2
    <2>1. cam' = "top" /\ cam = "write 2"
      BY <1>14 DEF Write2
    <2>2. \A d \in Clients : pc'[d] \in Copying => pc[d] \in Copying
      BY <1>14 DEF Write2
    <2>3. CASE db = "destroyed"
      BY <1>14, <2>1, <2>3 DEF Write2, Unlock
    <2>4. CASE db = "camera"
      BY <2>1, <2>2, <2>4, NamesOfHolders
    <2> QED BY <2>1, <2>3, <2>4
  <1>15. CASE CamClose
    BY <1>15 DEF CamClose
  <1>16. CASE CamFree
    BY <1>16 DEF CamFree
  <1> QED
    BY <1>1, <1>2, <1>3, <1>4, <1>5, <1>6, <1>7, <1>8, <1>9, <1>10, <1>11, <1>12, <1>13, <1>14, <1>15, <1>16 DEF Camera

LEMMA ClientLock == ASSUME TypeOK, LockInv, NEW c \in Clients, Visit(c) PROVE LockInv'
  <1> USE DEF LockInv, TypeOK, Copying, camVars, Client, Resolving
  <1>1. CASE Connect(c)
    BY <1>1 DEF Connect
  <1>2. CASE ConnectResolution(c)
    BY <1>2 DEF ConnectResolution
  <1>3. CASE SpuriousWakeup(c)
    BY <1>3 DEF SpuriousWakeup
  <1>4. CASE Send(c)
    BY <1>4 DEF Send
  <1>5. CASE SendFails(c)
    BY <1>5 DEF SendFails
  <1>6. CASE Wait(c)
    BY <1>6 DEF Wait
  <1>7. CASE Relock(c)
    <2>1. cam' = cam /\ \A d \in Clients : d # c => pc'[d] = pc[d]
      BY <1>7 DEF Relock
    <2>2. CASE db = "free" /\ db' = c
      BY <2>1, <2>2, NamesOfHolders
    <2>3. CASE db = "destroyed" /\ db' = "destroyed"
      BY <2>1, <2>3
    <2> QED BY <1>7, <2>2, <2>3 DEF Relock, Lock
  <1>8. CASE NoMemory(c)
    <2>1. cam' = cam /\ pc[c] = "copy 1" /\ pc'[c] \notin Copying /\ \A d \in Clients : d # c => pc'[d] = pc[d]
      BY <1>8 DEF NoMemory
    <2>2. CASE db = "destroyed"
      BY <1>8, <2>1, <2>2 DEF NoMemory, Unlock
    <2>3. CASE db = c
      BY <2>1, <2>3, NamesOfHolders
    <2> QED BY <2>1, <2>2, <2>3
  <1>9. CASE Copy1(c)
    BY <1>9 DEF Copy1, Readable
  <1>10. CASE Copy2(c)
    <2>1. cam' = cam /\ pc[c] = "copy 2" /\ pc'[c] \notin Copying /\ \A d \in Clients : d # c => pc'[d] = pc[d]
      BY <1>10 DEF Copy2
    <2>2. CASE db = "destroyed"
      BY <1>10, <2>1, <2>2 DEF Copy2, Unlock
    <2>3. CASE db = c
      BY <2>1, <2>3, NamesOfHolders
    <2> QED BY <2>1, <2>2, <2>3
  <1>11. CASE Pause(c)
    BY <1>11 DEF Pause, Resolve
  <1>12. CASE StreamOff(c)
    BY <1>12 DEF StreamOff, Resolve
  <1>13. CASE Unmap(c)
    BY <1>13 DEF Unmap, Resolve
  <1>14. CASE Reopen(c)
    BY <1>14 DEF Reopen, Resolve
  <1>15. CASE StreamOn(c)
    BY <1>15 DEF StreamOn, Resolve
  <1>16. CASE ResolveFreed(c)
    BY <1>16 DEF ResolveFreed
  <1> QED
    BY <1>1, <1>2, <1>3, <1>4, <1>5, <1>6, <1>7, <1>8, <1>9, <1>10, <1>11, <1>12, <1>13, <1>14, <1>15, <1>16 DEF Visit, Http

LEMMA MainTicket == ASSUME TypeOK, StopInv, TicketInv, Main \/ Signal \/ Unplug \/ ServerFails PROVE TicketInv'
  <1> USE DEF TicketInv, TypeOK, Copying, procs, camVars, cliVars
  <1>1. CASE OpenInput
    BY <1>1 DEF OpenInput, CallFails, Opened
  <1>2. CASE OpenOutput
    BY <1>2 DEF OpenOutput, CallFails
  <1>3. CASE RunPlugins
    BY <1>3 DEF RunPlugins, CallFails
  <1>4. CASE StopInputs
    BY <1>4 DEF StopInputs
  <1>5. CASE StopOutputs
    BY <1>5 DEF StopOutputs
  <1>6. CASE DestroyReturns
    BY <1>6 DEF DestroyReturns
  <1>7. CASE CloseHandles
    BY <1>7 DEF CloseHandles
  <1>8. CASE Signal
    BY <1>8 DEF Signal
  <1>9. CASE Unplug
    BY <1>9 DEF Unplug
  <1>10. CASE ServerFails
    BY <1>10 DEF ServerFails, CallFails
  <1> QED
    BY <1>1, <1>2, <1>3, <1>4, <1>5, <1>6, <1>7, <1>8, <1>9, <1>10 DEF Main

LEMMA CameraTicket == ASSUME TypeOK, StopInv, TicketInv, Camera PROVE TicketInv'
  <1> USE DEF TicketInv, TypeOK, Copying, procs, cliVars, Cam
  <1>1. CASE CamTop
    BY <1>1 DEF CamTop
  <1>2. CASE CamPaused
    BY <1>2 DEF CamPaused
  <1>3. CASE CamEnable
    BY <1>3 DEF CamEnable, Exit1
  <1>4. CASE Grab
    BY <1>4 DEF Grab, Frames
  <1>5. CASE GrabEmpty
    BY <1>5 DEF GrabEmpty, Frames
  <1>6. CASE GrabFails
    BY <1>6 DEF GrabFails
  <1>7. CASE Fill
    BY <1>7 DEF Fill
  <1>8. CASE Requeue
    BY <1>8 DEF Requeue
  <1>9. CASE RequeueFails
    BY <1>9 DEF RequeueFails
  <1>10. CASE Keep
    BY <1>10 DEF Keep
  <1>11. CASE Drop
    BY <1>11 DEF Drop
  <1>12. CASE CamLock
    BY <1>12 DEF CamLock, Lock
  <1>13. CASE Write1
    BY <1>13 DEF Write1
  <1>14. CASE Write2
    <2> SUFFICES ASSUME NEW d \in Clients
                 PROVE  /\ pc'[d] \in {"none", "lock", "send"} \cup Resolving => ticket'[d] = "none"
                        /\ pc'[d] = "wait" <=> ticket'[d] = "asked"
                        /\ pc'[d] \in {"woken"} \cup Copying => stop' \/ ticket'[d] = "ready"
      BY Zenon
    <2>1. pc'[d] = (IF pc[d] = "wait" THEN "woken" ELSE pc[d]) /\ stop' = stop
      BY <1>14 DEF Write2
    <2>2. ticket'[d] = IF ticket[d] = "asked" THEN "ready" ELSE ticket[d]
      BY <1>14 DEF Write2
    <2>3. CASE pc[d] = "wait"
      BY <2>1, <2>2, <2>3 DEF Resolving
    <2>4. CASE pc[d] # "wait"
      BY <2>1, <2>2, <2>4
    <2> QED BY <2>3, <2>4
  <1>15. CASE CamClose
    BY <1>15 DEF CamClose
  <1>16. CASE CamFree
    BY <1>16 DEF CamFree
  <1> QED
    BY <1>1, <1>2, <1>3, <1>4, <1>5, <1>6, <1>7, <1>8, <1>9, <1>10, <1>11, <1>12, <1>13, <1>14, <1>15, <1>16 DEF Camera

LEMMA ClientTicket == ASSUME TypeOK, StopInv, TicketInv, NEW c \in Clients, Visit(c) PROVE TicketInv'
  <1> USE DEF TicketInv, TypeOK, Copying, camVars, Client, Resolving
  <1>1. CASE Connect(c)
    <2>1. pc[c] = "none" /\ pc' = [pc EXCEPT ![c] = "lock"] /\ stop' = stop /\ ticket' = ticket
      BY <1>1 DEF Connect
    <2> QED BY <2>1
  <1>2. CASE ConnectResolution(c)
    BY <1>2 DEF ConnectResolution
  <1>3. CASE SpuriousWakeup(c)
    BY <1>3 DEF SpuriousWakeup
  <1>4. CASE Send(c)
    BY ZenonT(40), <1>4 DEF Send
  <1>5. CASE SendFails(c)
    BY <1>5 DEF SendFails
  <1>6. CASE Wait(c)
    <2>1. CASE db = "free"
      <3>1. pc[c] = "lock" /\ pc' = [pc EXCEPT ![c] = "wait"] /\ ticket' = [ticket EXCEPT ![c] = "asked"] /\ stop' = stop
        BY <1>6, <2>1 DEF Wait
      <3> QED BY <3>1
    <2>2. CASE db = "destroyed"
      <3>1. pc[c] = "lock" /\ pc' = [pc EXCEPT ![c] = "woken"] /\ ticket' = ticket /\ stop' = stop
        BY <1>6, <2>2 DEF Wait
      <3>2. stop
        BY <2>2, Zenon DEF StopInv
      <3> QED BY <3>1, <3>2
    <2> QED BY <1>6, <2>1, <2>2 DEF Wait
  <1>7. CASE Relock(c)
    BY <1>7 DEF Relock, Lock
  <1>8. CASE NoMemory(c)
    BY <1>8 DEF NoMemory, Unlock
  <1>9. CASE Copy1(c)
    BY <1>9 DEF Copy1, Readable
  <1>10. CASE Copy2(c)
    BY <1>10 DEF Copy2, Unlock, Readable
  <1>11. CASE Pause(c)
    BY <1>11 DEF Pause, Resolve
  <1>12. CASE StreamOff(c)
    BY ZenonT(40), <1>12 DEF StreamOff, Resolve
  <1>13. CASE Unmap(c)
    BY <1>13 DEF Unmap, Resolve
  <1>14. CASE Reopen(c)
    BY ZenonT(40), <1>14 DEF Reopen, Resolve
  <1>15. CASE StreamOn(c)
    BY <1>15 DEF StreamOn, Resolve
  <1>16. CASE ResolveFreed(c)
    BY <1>16 DEF ResolveFreed
  <1> QED
    BY <1>1, <1>2, <1>3, <1>4, <1>5, <1>6, <1>7, <1>8, <1>9, <1>10, <1>11, <1>12, <1>13, <1>14, <1>15, <1>16 DEF Visit, Http

LEMMA MainHalf == ASSUME TypeOK, StopInv, LockInv, HalfInv, Main \/ Signal \/ Unplug \/ ServerFails PROVE HalfInv'
  <1> USE DEF HalfInv, TypeOK, Copying, procs, camVars, cliVars
  <1>1. CASE OpenInput
    BY <1>1 DEF OpenInput, CallFails, Opened
  <1>2. CASE OpenOutput
    BY <1>2 DEF OpenOutput, CallFails
  <1>3. CASE RunPlugins
    BY <1>3 DEF RunPlugins, CallFails
  <1>4. CASE StopInputs
    BY <1>4 DEF StopInputs
  <1>5. CASE StopOutputs
    BY <1>5 DEF StopOutputs
  <1>6. CASE DestroyReturns
    BY <1>6 DEF DestroyReturns
  <1>7. CASE CloseHandles
    BY <1>7 DEF CloseHandles
  <1>8. CASE Signal
    BY <1>8 DEF Signal
  <1>9. CASE Unplug
    BY <1>9 DEF Unplug
  <1>10. CASE ServerFails
    BY <1>10 DEF ServerFails, CallFails
  <1> QED
    BY <1>1, <1>2, <1>3, <1>4, <1>5, <1>6, <1>7, <1>8, <1>9, <1>10 DEF Main

LEMMA CameraHalf == ASSUME TypeOK, StopInv, LockInv, HalfInv, Camera PROVE HalfInv'
  <1> USE DEF HalfInv, TypeOK, Copying, procs, cliVars, Cam
  <1>1. CASE CamTop
    BY <1>1 DEF CamTop
  <1>2. CASE CamPaused
    BY <1>2 DEF CamPaused
  <1>3. CASE CamEnable
    BY <1>3 DEF CamEnable, Exit1
  <1>4. CASE Grab
    BY <1>4 DEF Grab, Frames
  <1>5. CASE GrabEmpty
    BY <1>5 DEF GrabEmpty, Frames
  <1>6. CASE GrabFails
    BY <1>6 DEF GrabFails
  <1>7. CASE Fill
    BY <1>7 DEF Fill
  <1>8. CASE Requeue
    BY <1>8 DEF Requeue
  <1>9. CASE RequeueFails
    BY <1>9 DEF RequeueFails
  <1>10. CASE Keep
    BY <1>10 DEF Keep
  <1>11. CASE Drop
    BY <1>11 DEF Drop
  <1>12. CASE CamLock
    BY <1>12 DEF CamLock, Lock
  <1>13. CASE Write1
    <2>1. cam = "write 1" /\ cam' = "write 2" /\ grabbed' = grabbed /\ stop' = stop /\ pc' = pc /\ copy' = copy
      BY <1>13 DEF Write1
    <2>2. buf'.head = grabbed /\ buf'.tail = buf.tail
      BY <1>13 DEF Write1, Buffer
    <2> QED BY <2>1, <2>2
  <1>14. CASE Write2
    <2>1. cam = "write 2" /\ cam' = "top" /\ stop' = stop /\ copy' = copy
      BY <1>14 DEF Write2
    <2>2. buf'.tail = grabbed /\ buf'.head = buf.head
      BY <1>14 DEF Write2, Buffer
    <2>3. \A d \in Clients : pc'[d] = "copy 2" => pc[d] = "copy 2"
      BY <1>14 DEF Write2
    <2>4. CASE stop
      BY <2>1, <2>4
    <2>5. CASE ~stop
      <3>1. db = "camera"
        BY <2>1, <2>5, Zenon DEF LockInv, StopInv
      <3>2. \A d \in Clients : pc[d] # "copy 2"
        BY <3>1, NamesOfHolders DEF LockInv
      <3> QED BY <2>1, <2>2, <2>3, <2>5, <3>2
    <2> QED BY <2>4, <2>5
  <1>15. CASE CamClose
    BY <1>15 DEF CamClose
  <1>16. CASE CamFree
    <2>1. cam = "free" /\ cam' = "gone" /\ stop' = stop
      BY <1>16 DEF CamFree
    <2>2. stop
      BY <2>1, Zenon DEF StopInv
    <2> QED BY <2>1, <2>2
  <1> QED
    BY <1>1, <1>2, <1>3, <1>4, <1>5, <1>6, <1>7, <1>8, <1>9, <1>10, <1>11, <1>12, <1>13, <1>14, <1>15, <1>16 DEF Camera

LEMMA ClientHalf == ASSUME TypeOK, StopInv, LockInv, HalfInv, NEW c \in Clients, Visit(c) PROVE HalfInv'
  <1> USE DEF HalfInv, TypeOK, Copying, camVars, Client, Resolving
  <1>1. CASE Connect(c)
    <2>1. pc' = [pc EXCEPT ![c] = "lock"] /\ stop' = stop /\ copy' = copy /\ buf' = buf /\ cam' = cam /\ grabbed' = grabbed
      BY <1>1 DEF Connect
    <2> QED BY <2>1
  <1>2. CASE ConnectResolution(c)
    BY <1>2 DEF ConnectResolution
  <1>3. CASE SpuriousWakeup(c)
    BY <1>3 DEF SpuriousWakeup
  <1>4. CASE Send(c)
    BY <1>4 DEF Send
  <1>5. CASE SendFails(c)
    BY <1>5 DEF SendFails
  <1>6. CASE Wait(c)
    BY <1>6 DEF Wait
  <1>7. CASE Relock(c)
    BY <1>7 DEF Relock, Lock
  <1>8. CASE NoMemory(c)
    BY <1>8 DEF NoMemory, Unlock
  <1>9. CASE Copy1(c)
    <2>1. pc[c] = "copy 1" /\ pc' = [pc EXCEPT ![c] = "copy 2"] /\ stop' = stop /\ buf' = buf /\ cam' = cam /\ grabbed' = grabbed
      BY <1>9 DEF Copy1
    <2>2. PICK f \in Readable(buf.head) : copy' = [copy EXCEPT ![c].head = f]
      BY <1>9 DEF Copy1
    <2>3. \A d \in Clients : d # c => copy'[d] = copy[d]
      BY <2>2
    <2>4. copy'[c].head = f
      BY <2>2 DEF Halves
    <2>5. CASE stop
      BY <2>1, <2>5
    <2>6. CASE ~stop
      <3>1. ~buf.freed
        BY <2>6, Zenon DEF StopInv
      <3>2. f = buf.head
        BY <2>2, <3>1 DEF Readable
      <3>3. cam # "write 2"
        <4>1. db = c
          BY <2>1, <2>6, Zenon DEF LockInv, StopInv, Copying
        <4> QED BY <4>1, NamesOfHolders DEF LockInv
      <3>4. buf.head = buf.tail
        BY <2>6, <3>3
      <3> QED BY <2>1, <2>3, <2>4, <2>6, <3>2, <3>3, <3>4
    <2> QED BY <2>5, <2>6
  <1>10. CASE Copy2(c)
    BY ZenonT(40), <1>10 DEF Copy2, Unlock, Readable
  <1>11. CASE Pause(c)
    BY <1>11 DEF Pause, Resolve
  <1>12. CASE StreamOff(c)
    BY ZenonT(40), <1>12 DEF StreamOff, Resolve
  <1>13. CASE Unmap(c)
    BY <1>13 DEF Unmap, Resolve
  <1>14. CASE Reopen(c)
    BY ZenonT(40), <1>14 DEF Reopen, Resolve
  <1>15. CASE StreamOn(c)
    BY <1>15 DEF StreamOn, Resolve
  <1>16. CASE ResolveFreed(c)
    BY <1>16 DEF ResolveFreed
  <1> QED
    BY <1>1, <1>2, <1>3, <1>4, <1>5, <1>6, <1>7, <1>8, <1>9, <1>10, <1>11, <1>12, <1>13, <1>14, <1>15, <1>16 DEF Visit, Http

LEMMA StutterInv == IInv /\ UNCHANGED vars => IInv'
  <1> SUFFICES ASSUME IInv, UNCHANGED vars PROVE IInv'
    OBVIOUS
  <1> USE DEF IInv, vars, procs, camVars, cliVars
  <1>1. TypeOK'
    BY StutterType
  <1>2. StopInv'
    BY Zenon DEF StopInv
  <1>3. LockInv' /\ TicketInv'
    BY DEF LockInv, TicketInv
  <1>4. HalfInv'
    BY DEF HalfInv
  <1> QED BY <1>1, <1>2, <1>3, <1>4

LEMMA StepInv == IInv /\ [Next]_vars => IInv'
  <1> SUFFICES ASSUME IInv, [Next]_vars PROVE IInv'
    OBVIOUS
  <1> USE DEF IInv
  <1>1. CASE Main \/ Signal \/ Unplug \/ ServerFails
    BY <1>1, MainType, MainStop, MainLock, MainTicket, MainHalf
  <1>2. CASE Camera
    BY <1>2, CameraType, CameraStop, CameraLock, CameraTicket, CameraHalf
  <1>3. ASSUME NEW c \in Clients, Visit(c) PROVE IInv'
    BY <1>3, ClientType, ClientStop, ClientLock, ClientTicket, ClientHalf
  <1> QED BY <1>1, <1>2, <1>3, StutterInv, NextCases

LEMMA Invariant == Spec => []IInv
  BY InitInv, StepInv, PTL DEF Spec

-----------------------------------------------------------------------------
(* The refinement: each step of the threads is a step of FrameBuffer, or   *)
(* changes nothing that FrameBuffer has.                                   *)

GotOf(p, k) == [c \in Clients |-> IF p[c] = "send" THEN k[c] ELSE Whole(NoFrame)]
Got == GotOf(pc, copy)

LEMMA SameWhole == \A f : FB!Whole(f) = Whole(f)
  BY DEF FB!Whole, Whole

LEMMA InitMaps == Init => FB!Init
  <1> SUFFICES ASSUME Init PROVE FB!Init
    OBVIOUS
  <1>1. buf.tail = NoFrame /\ ticket = [c \in Clients |-> "none"] /\ stop = FALSE
    BY DEF Init
  <1>2. [c \in Clients |-> IF pc[c] = "send" THEN copy[c] ELSE Whole(NoFrame)]
          = [c \in Clients |-> Whole(NoFrame)]
    BY DEF Init
  <1> QED BY <1>1, <1>2, SameWhole DEF FB!Init

\* Nobody's frame changes while nobody begins or ends to send.
LEMMA GotSame == ASSUME \A d \in Clients : pc'[d] = "send" <=> pc[d] = "send",
                        \A d \in Clients : pc[d] = "send" => copy'[d] = copy[d]
                 PROVE  Got' = Got
  BY DEF Got, GotOf

LEMMA Stutters == ASSUME buf'.tail = buf.tail, Got' = Got, ticket' = ticket, stop' = stop
                  PROVE  UNCHANGED FB!fbVars
  BY DEF FB!fbVars, Got, GotOf

LEMMA MainMaps == ASSUME IInv, Main \/ Signal \/ Unplug \/ ServerFails PROVE [FB!Next]_FB!fbVars
  <1> USE DEF cliVars
  <1>1. buf' = buf /\ pc' = pc /\ copy' = copy /\ ticket' = ticket
    BY DEF Main, Signal, Unplug, ServerFails, OpenInput, OpenOutput, RunPlugins, StopInputs, StopOutputs,
           DestroyReturns, CloseHandles
  <1>2. Got' = Got
    BY <1>1, GotSame
  <1>3. CASE Signal
    <2>1. FB!Stop
      BY <1>1, <1>2, <1>3 DEF Signal, FB!Stop, Got, GotOf
    <2> QED BY <2>1 DEF FB!Next
  <1>4. CASE Main \/ Unplug \/ ServerFails
    <2>1. stop' = stop
      BY <1>4 DEF Main, Unplug, ServerFails, OpenInput, OpenOutput, RunPlugins, StopInputs, StopOutputs,
                  DestroyReturns, CloseHandles, procs
    <2> QED BY <1>1, <1>2, <2>1, Stutters
  <1> QED BY <1>3, <1>4

LEMMA CameraMaps == ASSUME IInv, Camera PROVE [FB!Next]_FB!fbVars
  <1> USE DEF IInv, TypeOK
  <1>1. CASE Write2
    <2>1. buf'.tail = grabbed /\ stop' = stop
      BY <1>1 DEF Write2, Buffer, procs
    <2>2. grabbed \in Frames
      BY <1>1 DEF Write2, HalfInv
    <2>3. ticket' = [c \in Clients |-> IF ticket[c] = "asked" THEN "ready" ELSE ticket[c]]
      BY <1>1 DEF Write2
    <2>4. Got' = Got
      <3>1. copy' = copy /\ \A d \in Clients : pc'[d] = "send" <=> pc[d] = "send"
        BY <1>1 DEF Write2
      <3> QED BY <3>1, GotSame
    <2>5. FB!Publish
      BY <2>1, <2>2, <2>3, <2>4 DEF FB!Publish, Got, GotOf
    <2> QED BY <2>5 DEF FB!Next
  <1>2. CASE ~Write2
    <2>1. stop' = stop /\ pc' = pc /\ copy' = copy /\ ticket' = ticket
      BY <1>2 DEF Camera, CamTop, CamPaused, CamEnable, Grab, GrabEmpty, GrabFails, Fill, Requeue,
                  RequeueFails, Keep, Drop, CamLock, Write1, CamClose, CamFree, Cam, cliVars
    <2>2. Got' = Got
      BY <2>1, GotSame
    <2>3. CASE Write1 \/ CamFree
      <3>1. buf'.tail = buf.tail
        BY <2>3 DEF Write1, CamFree, Buffer
      <3> QED BY <2>1, <2>2, <3>1, Stutters
    <2>4. CASE ~Write1 /\ ~CamFree
      <3>1. buf' = buf
        BY <1>2, <2>4 DEF Camera, CamTop, CamPaused, CamEnable, Grab, GrabEmpty, GrabFails, Fill,
                          Requeue, RequeueFails, Keep, Drop, CamLock, CamClose
      <3> QED BY <2>1, <2>2, <3>1, Stutters
    <2> QED BY <2>3, <2>4
  <1> QED BY <1>1, <1>2

LEMMA ClientMaps == ASSUME IInv, NEW c \in Clients, Visit(c) PROVE [FB!Next]_FB!fbVars
  <1> USE DEF IInv, TypeOK, Client, camVars
  <1>1. CASE Wait(c)
    <2>1. buf' = buf /\ stop' = stop /\ copy' = copy /\ pc[c] = "lock"
      BY <1>1 DEF Wait
    <2>2. Got' = Got
      <3>1. \A d \in Clients : pc'[d] = "send" <=> pc[d] = "send"
        BY <1>1 DEF Wait
      <3> QED BY <2>1, <3>1, GotSame
    <2>3. CASE db = "free"
      <3>1. ticket[c] = "none"
        BY <2>1 DEF TicketInv
      <3>2. FB!Ask(c)
        BY <1>1, <2>1, <2>2, <2>3, <3>1 DEF Wait, FB!Ask, Got, GotOf
      <3> QED BY <3>2 DEF FB!Next
    <2>4. CASE db # "free"
      <3>1. ticket' = ticket
        BY <1>1, <2>4 DEF Wait
      <3> QED BY <2>1, <2>2, <3>1, Stutters
    <2> QED BY <2>3, <2>4
  <1>2. CASE SpuriousWakeup(c)
    <2>1. buf' = buf /\ stop' = stop /\ copy' = copy /\ pc[c] = "wait"
      BY <1>2 DEF SpuriousWakeup
    <2>2. Got' = Got
      <3>1. \A d \in Clients : pc'[d] = "send" <=> pc[d] = "send"
        BY <1>2 DEF SpuriousWakeup
      <3> QED BY <2>1, <3>1, GotSame
    <2>3. ticket[c] = "asked"
      BY <2>1 DEF TicketInv
    <2>4. FB!Rouse(c)
      BY <1>2, <2>1, <2>2, <2>3 DEF SpuriousWakeup, FB!Rouse, Got, GotOf
    <2> QED BY <2>4 DEF FB!Next
  <1>3. CASE NoMemory(c)
    <2>1. buf' = buf /\ stop' = stop /\ copy' = copy /\ pc[c] = "copy 1"
      BY <1>3 DEF NoMemory
    <2>2. Got' = Got
      <3>1. \A d \in Clients : pc'[d] = "send" <=> pc[d] = "send"
        BY <1>3 DEF NoMemory
      <3> QED BY <2>1, <3>1, GotSame
    <2>3. stop \/ ticket[c] = "ready"
      BY <2>1 DEF TicketInv, Copying
    <2>4. FB!Refuse(c)
      BY <1>3, <2>1, <2>2, <2>3 DEF NoMemory, FB!Refuse, Got, GotOf
    <2> QED BY <2>4 DEF FB!Next
  <1>4. CASE Copy2(c)
    <2>1. buf' = buf /\ stop' = stop /\ pc[c] = "copy 2" /\ pc' = [pc EXCEPT ![c] = "send"]
      BY <1>4 DEF Copy2
    <2>2. PICK f \in Readable(buf.tail) : copy' = [copy EXCEPT ![c].tail = f]
      BY <1>4 DEF Copy2
    <2>3. ticket' = [ticket EXCEPT ![c] = "none"]
      BY <1>4 DEF Copy2
    <2>4. f \in Content \cup {Junk}
      BY DEF Readable, Buffer
    <2>5. copy[c] \in Halves
      OBVIOUS
    <2> DEFINE h == [head |-> copy[c].head, tail |-> f]
    <2>6. copy'[c] = h
      BY <2>2, <2>5 DEF Halves
    <2>7. h \in Halves
      BY <2>4, <2>5 DEF Halves
    <2>8. Got' = [Got EXCEPT ![c] = h]
      <3>1. \A d \in Clients : d # c => pc'[d] = pc[d] /\ copy'[d] = copy[d]
        BY <2>1, <2>2
      <3>2. pc'[c] = "send"
        BY <2>1
      <3> HIDE DEF h
      <3> QED BY <2>6, <3>1, <3>2, Zenon DEF Got, GotOf
    <2>9. stop \/ (ticket[c] = "ready" /\ h = Whole(buf.tail))
      <3> SUFFICES ASSUME ~stop PROVE ticket[c] = "ready" /\ h = Whole(buf.tail)
        OBVIOUS
      <3>1. ticket[c] = "ready"
        BY <2>1 DEF TicketInv, Copying
      <3>2. copy[c].head = buf.tail
        BY <2>1 DEF HalfInv
      <3>3. f = buf.tail
        BY <2>2, Zenon DEF Readable, StopInv
      <3> QED BY <3>1, <3>2, <3>3 DEF Whole
    <2>10. FB!Halves = Halves
      BY DEF FB!Halves, FB!Content, Halves, Content
    <2> HIDE DEF h
    <2>11. FB!Deliver(c)
      BY <2>1, <2>3, <2>7, <2>8, <2>9, <2>10, SameWhole DEF FB!Deliver, Got, GotOf
    <2> QED BY <2>11 DEF FB!Next
  <1>5. CASE Send(c) \/ SendFails(c)
    <2>1. buf' = buf /\ stop' = stop /\ ticket' = ticket /\ copy' = [copy EXCEPT ![c] = Whole(NoFrame)]
      BY <1>5 DEF Send, SendFails
    <2>2. PICK to \in {"lock", "none"} : pc' = [pc EXCEPT ![c] = to]
      BY <1>5 DEF Send, SendFails
    <2>3. Got' = [Got EXCEPT ![c] = Whole(NoFrame)]
      <3>1. \A d \in Clients : d # c => pc'[d] = pc[d] /\ copy'[d] = copy[d]
        BY <2>1, <2>2
      <3>2. pc'[c] # "send"
        BY <2>2
      <3> QED BY <3>1, <3>2, Zenon DEF Got, GotOf
    <2>4. FB!Consume(c)
      BY <2>1, <2>3, SameWhole DEF FB!Consume, Got, GotOf
    <2> QED BY <2>4 DEF FB!Next
  <1>6. CASE Copy1(c)
    <2>1. buf' = buf /\ stop' = stop /\ ticket' = ticket /\ pc[c] = "copy 1" /\ pc' = [pc EXCEPT ![c] = "copy 2"]
      BY <1>6 DEF Copy1
    <2>2. PICK f \in Readable(buf.head) : copy' = [copy EXCEPT ![c].head = f]
      BY <1>6 DEF Copy1
    <2>3. \A d \in Clients : d # c => pc'[d] = pc[d] /\ copy'[d] = copy[d]
      BY <2>1, <2>2
    <2>4. pc[c] # "send" /\ pc'[c] # "send"
      BY <2>1
    <2>5. Got' = Got
      BY <2>3, <2>4, GotSame
    <2> QED BY <2>1, <2>5, Stutters
  <1>7. CASE Connect(c) \/ ConnectResolution(c) \/ Relock(c)
    <2>1. buf' = buf /\ stop' = stop /\ ticket' = ticket /\ copy' = copy
      BY <1>7 DEF Connect, ConnectResolution, Relock
    <2>2. \A d \in Clients : pc'[d] = "send" <=> pc[d] = "send"
      <3>1. pc[c] # "send"
        BY <1>7 DEF Connect, ConnectResolution, Relock
      <3>2. PICK to \in {"lock", "pause", "copy 1"} : pc' = [pc EXCEPT ![c] = to]
        BY <1>7 DEF Connect, ConnectResolution, Relock
      <3> QED BY <3>1, <3>2
    <2> QED BY <2>1, <2>2, GotSame, Stutters
  <1>8. CASE Pause(c) \/ StreamOff(c) \/ Unmap(c) \/ Reopen(c) \/ StreamOn(c) \/ ResolveFreed(c)
    <2>1. buf' = buf /\ stop' = stop /\ ticket' = ticket /\ copy' = copy
      BY <1>8 DEF Pause, StreamOff, Unmap, Reopen, StreamOn, ResolveFreed, Resolve
    <2>2. \A d \in Clients : pc'[d] = "send" <=> pc[d] = "send"
      <3>1. pc[c] # "send"
        BY <1>8 DEF Pause, StreamOff, Unmap, Reopen, StreamOn, ResolveFreed, Resolve, Resolving
      <3>2. PICK to \in {"streamoff", "unmap", "reopen", "streamon", "none"} : pc' = [pc EXCEPT ![c] = to]
        BY <1>8 DEF Pause, StreamOff, Unmap, Reopen, StreamOn, ResolveFreed, Resolve
      <3> QED BY <3>1, <3>2
    <2> QED BY <2>1, <2>2, GotSame, Stutters
  <1> QED BY <1>1, <1>2, <1>3, <1>4, <1>5, <1>6, <1>7, <1>8 DEF Visit, Http

LEMMA StepMaps == IInv /\ [Next]_vars => [FB!Next]_FB!fbVars
  <1> SUFFICES ASSUME IInv, [Next]_vars PROVE [FB!Next]_FB!fbVars
    OBVIOUS
  <1>1. CASE UNCHANGED vars
    <2>1. buf' = buf /\ pc' = pc /\ copy' = copy /\ ticket' = ticket /\ stop' = stop
      BY <1>1 DEF vars, procs, cliVars
    <2> QED BY <2>1, GotSame, Stutters
  <1> QED BY <1>1, MainMaps, CameraMaps, ClientMaps, NextCases

(***************************************************************************)
(* mjpg-streamer's buffer, mutex and condition implement FrameBuffer, for  *)
(* any number of clients and pictures: what a client sends is one whole    *)
(* frame, the newest when it was copied, and published after it asked      *)
(* unless it was roused for nothing; only a shutdown may break this.       *)
(***************************************************************************)
THEOREM Implements == Spec => Promise
  <1>1. Init => FB!Init
    BY InitMaps
  <1>2. IInv /\ [Next]_vars => [FB!Next]_FB!fbVars
    BY StepMaps
  <1> QED BY <1>1, <1>2, Invariant, PTL DEF Spec, Promise, FB!Spec

-----------------------------------------------------------------------------
(* Why the process ends.  Before SIGINT and with the camera there, a       *)
(* resolution command keeps the device paused while it has it in pieces,   *)
(* and the camera thread begins no uvcGrab on a paused device.             *)

Late == {"streamoff", "unmap", "reopen", "streamon"}

Begun ==
    /\ main = "open input" => cam = "none" /\ server = "none" /\ dev.state = "OFF"
    /\ server = "none" => \A c \in Clients : pc[c] = "none"

OneResolves == \A c, d \in Clients : pc[c] \in Resolving /\ pc[d] \in Resolving => c = d

Paused ==
    \A c \in Clients : /\ pc[c] \in Late => dev.state = "PAUSED"
                       /\ pc[c] = "streamon" => dev.mapped

Usable ==
    /\ dev.state = "OFF" /\ main # "open input" => dev.mapped
    /\ dev.state = "ON" => dev.mapped /\ dev.streaming

Grabbing ==
    /\ cam \in InGrab => dev.state # "PAUSED"
    /\ cam \in {"dequeue", "fill", "requeue"} => dev.state = "ON"
    /\ cam \in {"fill", "requeue"} => dev.queued < NB_BUFFER

Undisturbed == Paused /\ Usable /\ (hit \/ Grabbing)

ReasonInv == Begun /\ OneResolves /\ (stop \/ ~dev.present \/ Undisturbed)

LEMMA InitReason == Init => ReasonInv
  <1> SUFFICES ASSUME Init PROVE ReasonInv
    OBVIOUS
  <1>1. /\ main = "open input" /\ cam = "none" /\ server = "none" /\ dev.state = "OFF"
        /\ \A c \in Clients : pc[c] = "none"
    BY DEF Init
  <1>2. Begun /\ OneResolves
    BY <1>1 DEF Begun, OneResolves, Resolving
  <1>3. Undisturbed
    BY <1>1 DEF Undisturbed, Paused, Usable, Grabbing, InGrab, Late
  <1> QED BY <1>2, <1>3 DEF ReasonInv

\* Steps that leave the device and the progress of the camera thread alone,
\* and by which no resolution command begins or goes on.
LEMMA SameReason ==
    ASSUME ReasonInv, dev' = dev, stop' = stop, hit' = hit,
           server' = "none" => server = "none" /\ pc' = pc,
           main' = "open input" => server' = server \/ server # "none",
           main' = main \/ (main # "open input" /\ main' # "open input"),
           cam' = cam \/ (cam # "none" /\ cam' \notin InGrab),
           \A c \in Clients : pc'[c] \in Resolving => pc'[c] = pc[c]
    PROVE  ReasonInv'
  <1>1. Begun'
    BY DEF ReasonInv, Begun
  <1>2. OneResolves'
    BY DEF ReasonInv, OneResolves
  <1>3. Paused => Paused'
    BY DEF Paused, Late, Resolving
  <1>4. Usable => Usable'
    BY DEF Usable
  <1>5. Grabbing => Grabbing'
    BY DEF Grabbing, InGrab
  <1> QED BY <1>1, <1>2, <1>3, <1>4, <1>5 DEF ReasonInv, Undisturbed

LEMMA MainReason == ASSUME IInv, ReasonInv, Main \/ Signal \/ Unplug \/ ServerFails PROVE ReasonInv'
  <1> USE DEF procs, camVars, cliVars
  <1>1. CASE OpenInput
    <2>1. CASE dev.present /\ dev' = Opened(dev) /\ main' = "open output"
      <3>1. /\ dev'.state = dev.state /\ dev'.mapped /\ main = "open input" /\ main' = "open output"
            /\ cam' = cam /\ server' = server /\ pc' = pc /\ stop' = stop /\ hit' = hit
        BY <1>1, <2>1 DEF OpenInput, Opened, IInv, TypeOK, Device
      <3> QED BY <3>1 DEF ReasonInv, Begun, OneResolves, Undisturbed, Paused, Usable, Grabbing,
                          InGrab, Late
    <2>2. CASE dev' = dev /\ main' = main
      BY <1>1, <2>2, SameReason DEF OpenInput
    <2> QED BY <1>1, <2>1, <2>2 DEF OpenInput
  <1>2. CASE OpenOutput
    BY <1>2, SameReason DEF OpenOutput
  <1>3. CASE RunPlugins
    <2>1. CASE cam = "none" /\ cam' = "top"
      BY <1>3, <2>1 DEF RunPlugins, ReasonInv, Begun, OneResolves, Undisturbed, Paused, Usable, Grabbing,
                        InGrab
    <2>2. CASE cam' = cam
      BY <1>3, <2>2, SameReason DEF RunPlugins
    <2> QED BY <1>3, <2>1, <2>2 DEF RunPlugins
  <1>4. CASE StopInputs \/ StopOutputs \/ DestroyReturns \/ CloseHandles
    BY <1>4, SameReason DEF StopInputs, StopOutputs, DestroyReturns, CloseHandles
  <1>5. CASE Signal
    BY <1>5 DEF Signal, ReasonInv, Begun, OneResolves
  <1>6. CASE Unplug
    <2>1. dev'.present = FALSE /\ dev'.state = dev.state
      BY <1>6 DEF Unplug, IInv, TypeOK, Device
    <2> QED BY <1>6, <2>1 DEF Unplug, ReasonInv, Begun, OneResolves
  <1>7. CASE ServerFails
    BY <1>7, SameReason DEF ServerFails
  <1> QED BY <1>1, <1>2, <1>3, <1>4, <1>5, <1>6, <1>7 DEF Main

LEMMA CameraReason == ASSUME IInv, ReasonInv, Camera PROVE ReasonInv'
  <1> USE DEF Cam, cliVars, procs
  <1>0. dev \in Device /\ NB_BUFFER \in Nat
    BY BufferAssumption DEF IInv, TypeOK
  <1>1. CASE CamTop
    <2>1. cam = "top" /\ cam' \in {"close", "paused"} /\ hit' = FALSE
      BY <1>1 DEF CamTop
    <2>2. UNCHANGED <<dev, pc, main, server, stop>>
      BY <1>1 DEF CamTop
    <2> QED BY <2>1, <2>2 DEF ReasonInv, Begun, OneResolves, Undisturbed, Paused, Usable, Grabbing, InGrab
  <1>2. CASE CamPaused
    <2>1. /\ cam = "paused" /\ (cam' = "close" \/ (cam' = "enable" /\ dev.state # "PAUSED"))
          /\ UNCHANGED <<dev, pc, main, server, stop, hit>>
      BY <1>2 DEF CamPaused
    <2> QED BY <2>1 DEF ReasonInv, Begun, OneResolves, Undisturbed, Paused, Usable, Grabbing, InGrab
  <1>3. CASE CamEnable
    <2>1. cam = "enable" /\ cam' = "dequeue" /\ UNCHANGED <<pc, main, server, stop, hit>>
      BY <1>3 DEF CamEnable
    <2>2. CASE dev' = dev /\ (dev.state # "OFF" \/ ~dev.present)
      <3>1. dev.state \in {"OFF", "ON", "PAUSED"}
        BY <1>0 DEF Device
      <3> QED BY <2>1, <2>2, <3>1 DEF ReasonInv, Begun, OneResolves, Undisturbed, Paused, Usable,
                                      Grabbing, InGrab
    <2>3. CASE dev.state = "OFF" /\ dev' = [dev EXCEPT !.state = "ON", !.streaming = TRUE]
      <3>1. /\ dev'.state = "ON" /\ dev'.streaming /\ dev'.mapped = dev.mapped
            /\ dev'.present = dev.present
        BY <1>0, <2>3 DEF Device
      <3> QED BY <2>1, <2>3, <3>1 DEF ReasonInv, Begun, OneResolves, Undisturbed, Paused, Usable,
                                      Grabbing, InGrab, Late
    <2> QED BY <1>3, <2>2, <2>3 DEF CamEnable
  <1>4. CASE Grab \/ GrabEmpty
    <2>1. /\ cam = "dequeue" /\ cam' \in {"fill", "top", "keep"}
          /\ UNCHANGED <<pc, main, server, stop, hit>>
          /\ dev.queued > 0 /\ dev' = [dev EXCEPT !.queued = @ - 1]
      BY <1>4 DEF Grab, GrabEmpty
    <2>2. /\ dev'.state = dev.state /\ dev'.streaming = dev.streaming /\ dev'.mapped = dev.mapped
          /\ dev'.present = dev.present /\ dev'.queued = dev.queued - 1
      BY <1>0, <2>1 DEF Device
    <2>3. dev'.queued < NB_BUFFER
      BY <1>0, <2>1, <2>2 DEF Device
    <2> QED BY <2>1, <2>2, <2>3 DEF ReasonInv, Begun, OneResolves, Undisturbed, Paused, Usable, Grabbing,
                                    InGrab, Late
  <1>5. CASE GrabFails \/ RequeueFails
    <2>1. UNCHANGED <<pc, main, server, stop, hit, cam, dev>>
      BY <1>5 DEF GrabFails, RequeueFails
    <2> QED BY <2>1, SameReason
  <1>6. CASE Fill
    <2>1. cam = "fill" /\ cam' = "requeue" /\ UNCHANGED <<pc, main, server, stop, hit, dev>>
      BY <1>6 DEF Fill
    <2> QED BY <2>1 DEF ReasonInv, Begun, OneResolves, Undisturbed, Paused, Usable, Grabbing, InGrab
  <1>7. CASE Requeue
    <2>1. /\ cam = "requeue" /\ cam' = "keep" /\ UNCHANGED <<pc, main, server, stop, hit>>
          /\ dev' = [dev EXCEPT !.queued = @ + 1]
      BY <1>7 DEF Requeue
    <2>2. /\ dev'.state = dev.state /\ dev'.streaming = dev.streaming /\ dev'.mapped = dev.mapped
          /\ dev'.present = dev.present
      BY <1>0, <2>1 DEF Device
    <2> QED BY <2>1, <2>2 DEF ReasonInv, Begun, OneResolves, Undisturbed, Paused, Usable, Grabbing, InGrab
  <1>8. CASE Keep \/ Drop \/ CamLock \/ Write1 \/ CamFree
    <2>1. /\ UNCHANGED <<pc, main, server, stop, hit, dev>>
          /\ cam # "none" /\ cam' \in {"lock", "top", "write 1", "write 2", "gone"}
      BY <1>8 DEF Keep, Drop, CamLock, Write1, CamFree
    <2> QED BY <2>1, SameReason DEF InGrab
  <1>9. CASE Write2
    <2>1. /\ UNCHANGED <<main, server, stop, hit, dev>> /\ cam = "write 2" /\ cam' = "top"
          /\ pc' = [c \in Clients |-> IF pc[c] = "wait" THEN "woken" ELSE pc[c]]
      BY <1>9 DEF Write2
    <2>2. \A c \in Clients : pc'[c] \in Resolving => pc'[c] = pc[c]
      BY <2>1 DEF Resolving
    <2>3. server = "none" => \A c \in Clients : pc'[c] = "none"
      BY <2>1 DEF ReasonInv, Begun
    <2> QED BY <2>1, <2>2, <2>3 DEF ReasonInv, Begun, OneResolves, Undisturbed, Paused, Usable, Grabbing,
                                    InGrab, Late, Resolving
  <1>10. CASE CamClose
    <2>1. cam = "close" /\ cam' = "free" /\ UNCHANGED <<pc, main, server, stop>>
      BY <1>10 DEF CamClose
    <2>2. stop
      BY <2>1, Zenon DEF IInv, StopInv
    <2> QED BY <2>1, <2>2 DEF ReasonInv, Begun, OneResolves
  <1> QED BY <1>1, <1>2, <1>3, <1>4, <1>5, <1>6, <1>7, <1>8, <1>9, <1>10 DEF Camera

\* A client that is not in a resolution command goes from place to place.
LEMMA ViewerReason ==
    ASSUME IInv, ReasonInv, NEW c \in Clients, server # "none", server' # "none",
           NEW to \in Place \ Resolving, pc' = [pc EXCEPT ![c] = to],
           UNCHANGED <<dev, stop, hit, main, cam>>
    PROVE  ReasonInv'
  <1>1. \A d \in Clients : pc'[d] \in Resolving => pc'[d] = pc[d]
    BY DEF IInv, TypeOK
  <1> QED BY <1>1, SameReason

LEMMA ResolveReason ==
    ASSUME IInv, ReasonInv, NEW c \in Clients,
           Pause(c) \/ StreamOff(c) \/ Unmap(c) \/ Reopen(c) \/ StreamOn(c)
    PROVE  ReasonInv'
  <1>0. /\ dev \in Device /\ pc \in [Clients -> Place]
    BY DEF IInv, TypeOK
  <1>1. PICK to \in Late \cup {"none"} :
           /\ pc[c] \in Resolving /\ pc' = [pc EXCEPT ![c] = to]
           /\ UNCHANGED <<main, stop, server, cam>>
           /\ hit' = (hit \/ (pc[c] = "pause" /\ cam \in InGrab))
    BY DEF Pause, StreamOff, Unmap, Reopen, StreamOn, Resolve, Client, camVars, Resolving, Late
  <1>2. /\ pc'[c] = to /\ \A d \in Clients : d # c => pc'[d] = pc[d] /\ pc[d] \notin Resolving
    BY <1>0, <1>1 DEF ReasonInv, OneResolves
  <1>3. dev'.present = dev.present /\ server # "none" /\ main # "open input"
    <2>1. dev'.present = dev.present
      BY <1>0 DEF Pause, StreamOff, Unmap, Reopen, StreamOn, Opened, Device
    <2>2. server # "none"
      BY <1>1 DEF ReasonInv, Begun, Resolving
    <2> QED BY <2>1, <2>2 DEF ReasonInv, Begun
  <1>4. Begun' /\ OneResolves'
    BY <1>1, <1>2, <1>3 DEF Begun, OneResolves
  <1>5. ASSUME dev.present, Undisturbed PROVE Undisturbed'
    <2>1. /\ pc[c] \in Late => dev.state = "PAUSED"
          /\ pc[c] = "streamon" => dev.mapped
      BY <1>5 DEF Undisturbed, Paused
    <2>2. CASE Pause(c)
      <3>1. pc[c] = "pause" /\ dev'.state = "PAUSED" /\ dev'.mapped = dev.mapped /\ to = "streamoff"
        BY <1>0, <1>2, <2>2 DEF Pause, Resolve, Client, Device
      <3> QED BY <1>1, <1>2, <1>5, <3>1 DEF Undisturbed, Paused, Usable, Grabbing, InGrab, Late, Resolving
    <2>3. CASE StreamOff(c)
      <3>1. pc[c] = "streamoff" /\ dev'.state = "PAUSED" /\ to = "unmap"
        BY <1>0, <1>2, <1>5, <2>3 DEF StreamOff, Resolve, Client, Device
      <3>2. hit \/ cam \notin InGrab
        BY <1>5, <2>1, <3>1 DEF Undisturbed, Grabbing, Late
      <3> QED BY <1>1, <1>2, <3>1, <3>2 DEF Undisturbed, Paused, Usable, Grabbing, InGrab, Late, Resolving
    <2>4. CASE Unmap(c)
      <3>1. pc[c] = "unmap" /\ dev'.state = dev.state /\ to = "reopen"
        BY <1>0, <1>2, <2>4 DEF Unmap, Resolve, Client, Device
      <3>2. hit \/ cam \notin InGrab
        BY <1>5, <2>1, <3>1 DEF Undisturbed, Grabbing, Late
      <3> QED BY <1>1, <1>2, <2>1, <3>1, <3>2 DEF Undisturbed, Paused, Usable, Grabbing, InGrab, Late,
                                                 Resolving
    <2>5. CASE Reopen(c)
      <3>1. pc[c] = "reopen" /\ dev'.state = dev.state /\ dev'.mapped /\ to = "streamon"
        BY <1>0, <1>2, <1>5, <2>5 DEF Reopen, Resolve, Client, Device, Opened
      <3>2. hit \/ cam \notin InGrab
        BY <1>5, <2>1, <3>1 DEF Undisturbed, Grabbing, Late
      <3> QED BY <1>1, <1>2, <2>1, <3>1, <3>2 DEF Undisturbed, Paused, Usable, Grabbing, InGrab, Late,
                                                 Resolving
    <2>6. CASE StreamOn(c)
      <3>1. /\ pc[c] = "streamon" /\ dev'.state = "ON" /\ dev'.mapped = dev.mapped /\ dev'.streaming
            /\ to = "none"
        BY <1>0, <1>2, <1>5, <2>6 DEF StreamOn, Resolve, Client, Device
      <3>2. hit \/ cam \notin InGrab
        BY <1>5, <2>1, <3>1 DEF Undisturbed, Grabbing, Late
      <3> QED BY <1>1, <1>2, <2>1, <3>1, <3>2 DEF Undisturbed, Paused, Usable, Grabbing, InGrab, Late,
                                                 Resolving
    <2> QED BY <2>2, <2>3, <2>4, <2>5, <2>6
  <1> QED BY <1>1, <1>3, <1>4, <1>5 DEF ReasonInv

LEMMA ClientReason == ASSUME IInv, ReasonInv, NEW c \in Clients, Visit(c) PROVE ReasonInv'
  <1> USE DEF Client, camVars
  <1>0. pc \in [Clients -> Place]
    BY DEF IInv, TypeOK
  <1>1. CASE Connect(c)
    <2>1. /\ server # "none" /\ server' # "none" /\ pc' = [pc EXCEPT ![c] = "lock"]
          /\ UNCHANGED <<dev, stop, hit, main, cam>>
      BY <1>1 DEF Connect
    <2> QED BY <2>1, ViewerReason DEF Place, Resolving
  <1>2. CASE ConnectResolution(c)
    <2>1. /\ server # "none" /\ server' # "none" /\ pc' = [pc EXCEPT ![c] = "pause"]
          /\ \A d \in Clients : pc[d] \notin Resolving
          /\ UNCHANGED <<dev, stop, hit, main, cam>>
      BY <1>2 DEF ConnectResolution
    <2>2. pc'[c] = "pause" /\ \A d \in Clients : d # c => pc'[d] = pc[d]
      BY <1>0, <2>1
    <2>3. \A d \in Clients : pc'[d] \notin Late
      BY <2>1, <2>2 DEF Late, Resolving
    <2>4. Begun' /\ OneResolves'
      BY <2>1, <2>2 DEF ReasonInv, Begun, OneResolves
    <2> QED BY <2>1, <2>3, <2>4 DEF ReasonInv, Undisturbed, Paused, Usable, Grabbing, Late
  <1>3. CASE ResolveFreed(c)
    <2>1. pc[c] \in Resolving /\ pc' = [pc EXCEPT ![c] = "none"] /\ UNCHANGED <<dev, stop, hit, main, cam, server>>
      BY <1>3 DEF ResolveFreed
    <2>2. server # "none"
      BY <2>1 DEF ReasonInv, Begun, Resolving
    <2> QED BY <2>1, <2>2, ViewerReason DEF Place, Resolving
  <1>4. CASE SpuriousWakeup(c) \/ Send(c) \/ SendFails(c) \/ Wait(c) \/ Relock(c) \/ NoMemory(c)
             \/ Copy1(c) \/ Copy2(c)
    <2>1. PICK to \in {"woken", "lock", "none", "wait", "copy 1", "copy 2", "send"} :
             pc' = [pc EXCEPT ![c] = to]
      BY <1>4 DEF SpuriousWakeup, Send, SendFails, Wait, Relock, NoMemory, Copy1, Copy2
    <2>2. pc[c] # "none" /\ UNCHANGED <<dev, stop, hit, main, cam, server>>
      BY <1>4 DEF SpuriousWakeup, Send, SendFails, Wait, Relock, NoMemory, Copy1, Copy2
    <2>3. server # "none"
      BY <2>2 DEF ReasonInv, Begun
    <2>4. to \in Place \ Resolving
      BY DEF Place, Resolving
    <2> QED BY <2>1, <2>2, <2>3, <2>4, ViewerReason
  <1> QED BY <1>1, <1>2, <1>3, <1>4, ResolveReason DEF Visit, Http

LEMMA StepReason == IInv /\ ReasonInv /\ [Next]_vars => ReasonInv'
  <1> SUFFICES ASSUME IInv, ReasonInv, [Next]_vars PROVE ReasonInv'
    OBVIOUS
  <1>1. CASE UNCHANGED vars
    BY <1>1, SameReason DEF vars, procs, camVars, cliVars
  <1> QED BY <1>1, MainReason, CameraReason, ClientReason, NextCases

\* The steps that end the process, and what must be so when they are taken.
LEMMA EndReason ==
    ASSUME IInv, ReasonInv, Next, status = "running", status' \notin {"running", "call failed"}
    PROVE  stop \/ ~dev.present \/ hit
  <1> SUFFICES ASSUME ~stop, dev.present, ~hit PROVE FALSE
    OBVIOUS
  <1>1. Usable /\ Grabbing /\ ~buf.freed /\ main # "close"
    BY DEF ReasonInv, Undisturbed, IInv, StopInv
  <1>2. CASE Main \/ Signal \/ Unplug \/ ServerFails
    BY <1>1, <1>2 DEF Main, Signal, Unplug, ServerFails, CallFails, OpenInput, OpenOutput, RunPlugins,
                      StopInputs, StopOutputs, DestroyReturns, CloseHandles, procs
  <1>3. CASE Camera
    BY <1>1, <1>3 DEF Camera, CamTop, CamPaused, CamEnable, Grab, GrabEmpty, GrabFails, Fill, Requeue,
                      RequeueFails, Keep, Drop, CamLock, Write1, Write2, CamClose, CamFree, Cam, procs,
                      CanStream, CanRequeue, Usable, Grabbing
  <1>4. ASSUME NEW c \in Clients, Visit(c) PROVE FALSE
    BY <1>1, <1>4 DEF Visit, Http, Connect, ConnectResolution, SpuriousWakeup, Send, SendFails, Wait, Relock,
                      NoMemory, Copy1, Copy2, Pause, StreamOff, Unmap, Reopen, StreamOn, Resolve,
                      ResolveFreed
  <1> QED BY <1>2, <1>3, <1>4, NextCases

(***************************************************************************)
(* Unless a call of the start-up or of the server thread fails, the        *)
(* process ends only after SIGINT, without its camera, or when a           *)
(* resolution command began during a uvcGrab: for any number of clients    *)
(* and buffers, a command that begins elsewhere in the round is harmless.  *)
(***************************************************************************)
THEOREM EndsOnlyForAReason == Spec => EndsForAReason
  <1>1. IInv /\ ReasonInv /\ [Next]_vars
          => [status = "running" /\ status' \notin {"running", "call failed"}
                => stop \/ ~dev.present \/ hit]_vars
    BY EndReason
  <1> QED BY <1>1, InitReason, StepReason, Invariant, PTL DEF Spec, EndsForAReason
=============================================================================
