---------------------------- MODULE NotifyPumpProofs ---------------------------
(***************************************************************************)
(* Safety of NotifyPump for every set of buffers and command lines and any *)
(* number of events: the inductive invariant and its proof.                *)
(***************************************************************************)
EXTENDS NotifyPump, TLAPS

(***************************************************************************)
(* The inductive invariant follows the one buffer of the session through   *)
(* the pump.  Before the first arm there is none; in the loop it is in     *)
(* exactly one place: with the library, with the callback, behind the      *)
(* signalled event, on the completion port, or with the pump.  Nothing of  *)
(* this holds after the loop: a callback that has begun runs on.           *)
(***************************************************************************)
BeforeArm == {"start", "callback", "iocp", "noqueue", "event", "arm"}
InLoop    == {"wait", "waiting", "emit", "complete", "rearm"}

\* No notification is on its way to the pump.
Quiet == cb = Idle /\ posted = {} /\ ~signalled

\* The notification in slot is on its way to the pump, in one place.
InFlight ==
  \/ cb.at \in {"store", "check", "signal"} /\ cb.b = slot /\ posted = {} /\ ~signalled
  \/ cb = Idle /\ posted = {} /\ signalled
  \/ cb = Idle /\ posted = {slot} /\ ~signalled

NothingYet ==
  pc \in BeforeArm =>
    /\ slot = None /\ Quiet
    /\ \A b \in Buffers : buf[b] = "none"
    /\ received = 0 /\ delivered = 0

Binding ==
  /\ pc \in BeforeArm \ {"event", "arm"} => bound = "none"
  /\ pc = "event" => bound = "callback"
  /\ pc \in InLoop \cup {"arm"} => bound \in {"callback", "iocp"}
  /\ pc \in InLoop \cup {"arm"} /\ bound = "callback" => pumpEvent /\ event = "open"
  /\ pc \in InLoop /\ bound = "iocp" => cb = Idle

OneBuffer ==
  pc \in InLoop => slot \in Buffers /\ \A b \in Buffers \ {slot} : buf[b] = "none"

Waiting ==
  pc \in {"wait", "waiting"} =>
    /\ received < cmd.max
    /\ \/ buf[slot] = "armed" /\ Quiet /\ received = delivered
       \/ buf[slot] = "ready" /\ InFlight /\ received + 1 = delivered

Pumping ==
  /\ pc = "emit" => buf[slot] = "ready" /\ Quiet /\ received + 1 = delivered
                    /\ received < cmd.max
  /\ pc = "complete" => buf[slot] = "ready" /\ Quiet /\ received = delivered
  /\ pc = "rearm" => buf[slot] = "idle" /\ Quiet /\ received = delivered
                     /\ received < cmd.max

\* A callback stores a buffer the library has given up.
StoresDelivered ==
  cb.at = "store" => cb.b \in Buffers /\ buf[cb.b] # "armed"

\* QuietUnlessGivenUp, and what Disconnect has freed so far.
SafeEnd ==
  pc \in AfterLoop /\ ~gaveUp /\ cmd.max # 0 =>
    /\ cb = Idle /\ posted = {}
    /\ \A b \in Buffers : buf[b] \notin {"armed", "freed twice"}
    /\ pc \in {"close", "closed", "sleep", "query", "free"} =>
         \A b \in Buffers : buf[b] # "freed"
    /\ pc \in {"closequeue", "free2", "closequeue2", "end"} => slot = None

Counted == received <= delivered /\ received <= cmd.max

IndInv ==
  /\ TypeOK /\ NothingYet /\ Binding /\ OneBuffer /\ Waiting /\ Pumping
  /\ StoresDelivered /\ SafeEnd /\ Counted

--------------------------------------------------------------------------------
\* The cap of a command line is a number.
LEMMA CmdTyped ==
  ASSUME TypeOK
  PROVE  cmd.max \in Nat /\ received \in Nat /\ delivered \in Nat
BY CommandsAssumption DEF TypeOK, StateTyped, Command

Callback == [at : {"idle", "store", "check", "signal"}, b : Buffers \cup {None}]

\* An idle callback record is a callback record.
LEMMA IdleTyped == Idle \in Callback /\ Idle.at = "idle"
BY DEF Idle, Callback

\* While a callback runs, the pump waits for it, or has left its loop.
LEMMA CallbackRuns ==
  ASSUME IndInv, cb.at \in {"store", "check", "signal"}
  PROVE  /\ cb # Idle
         /\ pc \notin BeforeArm \cup {"emit", "complete", "rearm"}
         /\ pc \in {"wait", "waiting"} =>
              /\ slot \in Buffers /\ buf[slot] = "ready" /\ cb.b = slot
              /\ posted = {} /\ ~signalled
              /\ received + 1 = delivered /\ received < cmd.max
              /\ pumpEvent /\ event = "open"
<1>1. cb # Idle
  BY IdleTyped
<1>2. pc \notin BeforeArm \cup {"emit", "complete", "rearm"}
  BY <1>1 DEF IndInv, NothingYet, Pumping, Quiet
<1>3. ASSUME pc \in {"wait", "waiting"}
      PROVE  /\ slot \in Buffers /\ buf[slot] = "ready" /\ cb.b = slot
             /\ posted = {} /\ ~signalled
             /\ received + 1 = delivered /\ received < cmd.max
  BY <1>1, <1>3 DEF IndInv, Waiting, InFlight, Quiet, OneBuffer, InLoop
<1>4. ASSUME pc \in {"wait", "waiting"}
      PROVE  pumpEvent /\ event = "open"
  BY <1>1, <1>4 DEF IndInv, Binding, InLoop
<1> QED BY <1>1, <1>2, <1>3, <1>4

\* An armed buffer is the one the pump waits for, or the loop is over.
LEMMA ArmedWhere ==
  ASSUME IndInv, NEW b \in Buffers, buf[b] = "armed"
  PROVE  /\ pc \notin BeforeArm \cup {"emit", "complete", "rearm"}
         /\ pc \in {"wait", "waiting"} =>
              b = slot /\ Quiet /\ received = delivered /\ received < cmd.max
<1>1. pc \notin BeforeArm
  BY DEF IndInv, NothingYet
<1>2. pc \in InLoop => b = slot
  BY DEF IndInv, OneBuffer
<1>3. pc \notin {"emit", "complete", "rearm"}
  BY <1>2 DEF IndInv, Pumping, InLoop
<1>4. ASSUME pc \in {"wait", "waiting"}
      PROVE  b = slot /\ Quiet /\ received = delivered /\ received < cmd.max
  BY <1>2, <1>4 DEF IndInv, Waiting, InLoop
<1> QED BY <1>1, <1>3, <1>4

\* Before it arms, the pump has nothing on its way, and at most the buffer it
\* completed.
LEMMA BeforeArming ==
  ASSUME IndInv, pc \in {"arm", "rearm"}
  PROVE  /\ Quiet /\ received = delivered
         /\ received < cmd.max \/ received = 0
         /\ slot = None \/ (slot \in Buffers /\ received < cmd.max)
         /\ \A b \in ArmTargets : b \in Buffers /\ \A c \in Buffers \ {b} : buf[c] = "none"
<1>1. Quiet /\ received = delivered
  BY DEF IndInv, NothingYet, Pumping, BeforeArm
<1>2. received < cmd.max \/ received = 0
  BY DEF IndInv, NothingYet, Pumping, BeforeArm
<1>3. slot = None \/ (slot \in Buffers /\ received < cmd.max)
  <2>1. pc = "arm" => slot = None
    BY DEF IndInv, NothingYet, BeforeArm
  <2>2. pc = "rearm" => slot \in Buffers /\ received < cmd.max
    BY DEF IndInv, Pumping, OneBuffer, InLoop
  <2> QED BY <2>1, <2>2
<1>4. \A b \in ArmTargets : b \in Buffers /\ \A c \in Buffers \ {b} : buf[c] = "none"
  BY NoneAssumption DEF IndInv, NothingYet, OneBuffer, BeforeArm, InLoop, ArmTargets
<1> QED BY <1>1, <1>2, <1>3, <1>4

\* Before the queue is bound nothing has been delivered.
LEMMA InitIndInv == Init => IndInv
<1> SUFFICES ASSUME Init PROVE IndInv
  OBVIOUS
<1> USE DEF Init
<1>1. TypeOK
  <2>1. StateTyped
    BY DEF StateTyped
  <2>2. EventTyped
    BY DEF EventTyped
  <2>3. LibraryTyped
    BY IdleTyped DEF LibraryTyped, Callback
  <2> QED BY <2>1, <2>2, <2>3 DEF TypeOK
<1>2. NothingYet /\ Binding /\ OneBuffer /\ Waiting /\ Pumping
  BY DEF NothingYet, Binding, OneBuffer, Waiting, Pumping, Quiet, BeforeArm, InLoop
<1>3. StoresDelivered /\ SafeEnd /\ Counted
  BY <1>1, CmdTyped DEF StoresDelivered, SafeEnd, AfterLoop, Counted, Idle
<1> QED BY <1>1, <1>2, <1>3 DEF IndInv

--------------------------------------------------------------------------------
\* Each step of the pump thread keeps the invariant.
LEMMA PumpThreadIndInv ==
  ASSUME IndInv, PumpThread
  PROVE  IndInv'
<1> USE DEF IndInv, Goto, pumpVars, libraryVars
<1>1. CASE StartPump
  <2> USE <1>1 DEF StartPump
  <2>1. TypeOK'
    <3>1. StateTyped'  BY DEF TypeOK, StateTyped
    <3>2. EventTyped'  BY DEF TypeOK, EventTyped
    <3>3. LibraryTyped'  BY DEF TypeOK, LibraryTyped
    <3> QED BY <3>1, <3>2, <3>3 DEF TypeOK
  <2>2. NothingYet'  BY DEF NothingYet, BeforeArm, Quiet
  <2>3. Binding'  BY DEF Binding, BeforeArm, InLoop
  <2>4. OneBuffer'  BY DEF OneBuffer, InLoop
  <2>5. Waiting'  BY DEF Waiting
  <2>6. Pumping'  BY DEF Pumping
  <2>7. StoresDelivered'  BY DEF StoresDelivered, Idle
  <2>8. SafeEnd'  BY DEF SafeEnd, AfterLoop, TypeOK, StateTyped, NothingYet, Quiet, Idle, BeforeArm
  <2>9. Counted'  BY DEF Counted
  <2> QED BY <2>1, <2>2, <2>3, <2>4, <2>5, <2>6, <2>7, <2>8, <2>9
<1>2. CASE Sleep
  <2> USE <1>2 DEF Sleep, AfterPump
  <2>1. TypeOK'
    <3>1. StateTyped'  BY DEF TypeOK, StateTyped
    <3>2. EventTyped'  BY DEF TypeOK, EventTyped
    <3>3. LibraryTyped'  BY DEF TypeOK, LibraryTyped
    <3> QED BY <3>1, <3>2, <3>3 DEF TypeOK
  <2>2. NothingYet'  BY DEF NothingYet, BeforeArm
  <2>3. Binding'  BY DEF Binding, BeforeArm, InLoop
  <2>4. OneBuffer'  BY DEF OneBuffer, InLoop
  <2>5. Waiting'  BY DEF Waiting
  <2>6. Pumping'  BY DEF Pumping
  <2>7. StoresDelivered'  BY DEF StoresDelivered, Idle
  <2>8. SafeEnd'  BY DEF SafeEnd, AfterLoop, TypeOK, StateTyped, NothingYet, Quiet, Idle, BeforeArm
  <2>9. Counted'  BY DEF Counted
  <2> QED BY <2>1, <2>2, <2>3, <2>4, <2>5, <2>6, <2>7, <2>8, <2>9
<1>3. CASE QueryAfterPump
  <2> USE <1>3 DEF QueryAfterPump
  <2>1. TypeOK'
    <3>1. StateTyped'  BY DEF TypeOK, StateTyped
    <3>2. EventTyped'  BY DEF TypeOK, EventTyped
    <3>3. LibraryTyped'  BY DEF TypeOK, LibraryTyped
    <3> QED BY <3>1, <3>2, <3>3 DEF TypeOK
  <2>2. NothingYet'  BY DEF NothingYet, BeforeArm
  <2>3. Binding'  BY DEF Binding, BeforeArm, InLoop
  <2>4. OneBuffer'  BY DEF OneBuffer, InLoop
  <2>5. Waiting'  BY DEF Waiting
  <2>6. Pumping'  BY DEF Pumping
  <2>7. StoresDelivered'  BY DEF StoresDelivered, Idle
  <2>8. SafeEnd'  BY DEF SafeEnd, AfterLoop
  <2>9. Counted'  BY DEF Counted
  <2> QED BY <2>1, <2>2, <2>3, <2>4, <2>5, <2>6, <2>7, <2>8, <2>9
<1>4. CASE PumpWithoutQueue
  <2> USE <1>4 DEF PumpWithoutQueue, AfterPump
  <2>1. TypeOK'
    <3>1. StateTyped'  BY DEF TypeOK, StateTyped
    <3>2. EventTyped'  BY DEF TypeOK, EventTyped
    <3>3. LibraryTyped'  BY DEF TypeOK, LibraryTyped
    <3> QED BY <3>1, <3>2, <3>3 DEF TypeOK
  <2>2. NothingYet'  BY DEF NothingYet, BeforeArm, Quiet
  <2>3. Binding'  BY DEF Binding, BeforeArm, InLoop
  <2>4. OneBuffer'  BY DEF OneBuffer, InLoop
  <2>5. Waiting'  BY DEF Waiting
  <2>6. Pumping'  BY DEF Pumping
  <2>7. StoresDelivered'  BY DEF StoresDelivered, Idle
  <2>8. SafeEnd'  BY DEF SafeEnd, AfterLoop, TypeOK, StateTyped, NothingYet, Quiet, Idle, BeforeArm
  <2>9. Counted'  BY DEF Counted
  <2> QED BY <2>1, <2>2, <2>3, <2>4, <2>5, <2>6, <2>7, <2>8, <2>9
<1>5. CASE ConnectQueueToCallback
  <2> USE <1>5 DEF ConnectQueueToCallback, AfterPump
  <2>1. TypeOK'
    <3>1. StateTyped'  BY DEF TypeOK, StateTyped
    <3>2. EventTyped'  BY DEF TypeOK, EventTyped
    <3>3. LibraryTyped'  BY DEF TypeOK, LibraryTyped
    <3> QED BY <3>1, <3>2, <3>3 DEF TypeOK
  <2>2. NothingYet'  BY DEF NothingYet, BeforeArm, Quiet
  <2>3. Binding'  BY DEF Binding, BeforeArm, InLoop
  <2>4. OneBuffer'  BY DEF OneBuffer, InLoop
  <2>5. Waiting'  BY DEF Waiting
  <2>6. Pumping'  BY DEF Pumping
  <2>7. StoresDelivered'  BY DEF StoresDelivered, Idle
  <2>8. SafeEnd'  BY DEF SafeEnd, AfterLoop, TypeOK, StateTyped, NothingYet, Quiet, Idle, BeforeArm
  <2>9. Counted'  BY DEF Counted
  <2> QED BY <2>1, <2>2, <2>3, <2>4, <2>5, <2>6, <2>7, <2>8, <2>9
<1>6. CASE CreateIocpQueue
  <2> USE <1>6 DEF CreateIocpQueue, AfterPump
  <2>1. TypeOK'
    <3>1. StateTyped'  BY DEF TypeOK, StateTyped
    <3>2. EventTyped'  BY DEF TypeOK, EventTyped
    <3>3. LibraryTyped'  BY DEF TypeOK, LibraryTyped
    <3> QED BY <3>1, <3>2, <3>3 DEF TypeOK
  <2>2. NothingYet'  BY DEF NothingYet, BeforeArm, Quiet
  <2>3. Binding'  BY DEF Binding, BeforeArm, InLoop
  <2>4. OneBuffer'  BY DEF OneBuffer, InLoop
  <2>5. Waiting'  BY DEF Waiting
  <2>6. Pumping'  BY DEF Pumping
  <2>7. StoresDelivered'  BY DEF StoresDelivered, Idle
  <2>8. SafeEnd'  BY DEF SafeEnd, AfterLoop, TypeOK, StateTyped, NothingYet, Quiet, Idle, BeforeArm
  <2>9. Counted'  BY DEF Counted
  <2> QED BY <2>1, <2>2, <2>3, <2>4, <2>5, <2>6, <2>7, <2>8, <2>9
<1>7. CASE CreatePumpEvent
  <2> USE <1>7 DEF CreatePumpEvent, AfterPump
  <2>1. TypeOK'
    <3>1. StateTyped'  BY DEF TypeOK, StateTyped
    <3>2. EventTyped'  BY DEF TypeOK, EventTyped
    <3>3. LibraryTyped'  BY DEF TypeOK, LibraryTyped
    <3> QED BY <3>1, <3>2, <3>3 DEF TypeOK
  <2>2. NothingYet'  BY DEF NothingYet, BeforeArm, Quiet
  <2>3. Binding'  BY DEF Binding, BeforeArm, InLoop
  <2>4. OneBuffer'  BY DEF OneBuffer, InLoop
  <2>5. Waiting'  BY DEF Waiting
  <2>6. Pumping'  BY DEF Pumping
  <2>7. StoresDelivered'  BY DEF StoresDelivered, Idle
  <2>8. SafeEnd'  BY DEF SafeEnd, AfterLoop, TypeOK, StateTyped, NothingYet, Quiet, Idle, BeforeArm
  <2>9. Counted'  BY DEF Counted
  <2> QED BY <2>1, <2>2, <2>3, <2>4, <2>5, <2>6, <2>7, <2>8, <2>9
<1>8. CASE ArmNotification
  <2> USE <1>8
  <2>1. /\ Quiet /\ received = delivered
        /\ received < cmd.max \/ received = 0
        /\ slot = None \/ (slot \in Buffers /\ received < cmd.max)
        /\ \A b \in ArmTargets : b \in Buffers /\ \A c \in Buffers \ {b} : buf[c] = "none"
    BY BeforeArming DEF ArmNotification
  <2>2. /\ pc \in {"arm", "rearm"}
        /\ UNCHANGED <<cmd, gaveUp, clock, pumpEvent, received, event, signalled, bound,
                       posted, cb, delivered>>
    BY DEF ArmNotification
  <2>3. Quiet'
    BY <2>1, <2>2 DEF Quiet
  <2>4. cmd.max \in Nat /\ received \in Nat
    BY CmdTyped
  <2>5. CASE \E b \in ArmTargets : /\ pc' = LoopOrDone /\ slot' = b
                                  /\ buf' = [buf EXCEPT ![b] = "armed"]
    <3>1. /\ slot' \in Buffers /\ LibraryTyped' /\ buf'[slot'] = "armed"
          /\ \A c \in Buffers \ {slot'} : buf'[c] = "none"
      BY <2>1, <2>2, <2>5 DEF TypeOK, LibraryTyped
    <3>2. pc' = LoopOrDone
      BY <2>5
    <3>3. /\ pc' \in {"wait", "close"} /\ (pc' = "wait" => received < cmd.max)
          /\ (pc' = "close" => cmd.max = 0)
      BY <2>1, <2>4, <3>2 DEF LoopOrDone
    <3>4. TypeOK'
      <4>1. StateTyped'
        BY <2>2, <3>1, <3>3 DEF TypeOK, StateTyped
      <4>2. EventTyped'
        BY <2>2 DEF TypeOK, EventTyped
      <4> QED BY <3>1, <4>1, <4>2 DEF TypeOK
    <3>5. NothingYet' /\ Binding' /\ OneBuffer'
      BY <2>2, <2>3, <3>1, <3>3
      DEF NothingYet, Binding, OneBuffer, Quiet, BeforeArm, InLoop
    <3>6. Waiting' /\ Pumping' /\ SafeEnd'
      BY <2>1, <2>2, <2>3, <3>1, <3>3 DEF Waiting, Pumping, SafeEnd, AfterLoop
    <3>7. StoresDelivered' /\ Counted'
      BY <2>1, <2>2, IdleTyped DEF StoresDelivered, Counted, Quiet
    <3> QED BY <3>4, <3>5, <3>6, <3>7
  <2>6. CASE \E b \in ArmTargets : /\ pc' = "close" /\ slot' = b
                                  /\ buf' = [buf EXCEPT ![b] = "idle"]
    <3>1. /\ slot' \in Buffers /\ LibraryTyped'
          /\ \A c \in Buffers : buf'[c] \in {"none", "idle"}
      <4>1. PICK b \in ArmTargets : slot' = b /\ buf' = [buf EXCEPT ![b] = "idle"]
        BY <2>6
      <4>2. b \in Buffers /\ \A c \in Buffers \ {b} : buf[c] = "none"
        BY <2>1
      <4>3. buf'[b] = "idle" /\ \A c \in Buffers \ {b} : buf'[c] = buf[c]
        BY <4>1, <4>2 DEF TypeOK, LibraryTyped
      <4>4. LibraryTyped'
        BY <2>2, <4>1, <4>2 DEF TypeOK, LibraryTyped
      <4> QED BY <4>1, <4>2, <4>3, <4>4
    <3>2. pc' = "close"
      BY <2>6
    <3>3. TypeOK'
      <4>1. StateTyped'
        BY <2>2, <3>1, <3>2 DEF TypeOK, StateTyped
      <4>2. EventTyped'
        BY <2>2 DEF TypeOK, EventTyped
      <4> QED BY <3>1, <4>1, <4>2 DEF TypeOK
    <3>4. NothingYet' /\ Binding' /\ OneBuffer' /\ Waiting' /\ Pumping'
      BY <3>2 DEF NothingYet, Binding, OneBuffer, Waiting, Pumping, BeforeArm, InLoop
    <3>5. StoresDelivered' /\ Counted' /\ SafeEnd'
      BY <2>1, <2>2, <3>1, <3>2, IdleTyped DEF StoresDelivered, Counted, SafeEnd, Quiet
    <3> QED BY <3>3, <3>4, <3>5
  <2>7. CASE pc' = "close" /\ slot = None /\ slot' = slot /\ buf' = buf
    <3>1. TypeOK'
      <4>1. StateTyped'
        BY <2>2, <2>7 DEF TypeOK, StateTyped
      <4>2. EventTyped' /\ LibraryTyped'
        BY <2>2, <2>7 DEF TypeOK, EventTyped, LibraryTyped
      <4> QED BY <4>1, <4>2 DEF TypeOK
    <3>2. NothingYet' /\ Binding' /\ OneBuffer' /\ Waiting' /\ Pumping'
      BY <2>7 DEF NothingYet, Binding, OneBuffer, Waiting, Pumping, BeforeArm, InLoop
    <3>3. StoresDelivered' /\ Counted' /\ SafeEnd'
      <4>1. Quiet /\ \A c \in Buffers : buf[c] = "none"
        BY <2>1, <2>2, <2>7, NoneAssumption DEF NothingYet, Pumping, OneBuffer, InLoop, BeforeArm
      <4> QED BY <2>2, <2>7, <4>1 DEF StoresDelivered, Counted, SafeEnd, Quiet
    <3> QED BY <3>1, <3>2, <3>3
  <2> QED BY <2>5, <2>6, <2>7 DEF ArmNotification
<1>9. CASE CheckDeadline
  <2> USE <1>9 DEF CheckDeadline
  <2>1. TypeOK'
    <3>1. StateTyped'  BY DEF TypeOK, StateTyped
    <3>2. EventTyped'  BY DEF TypeOK, EventTyped
    <3>3. LibraryTyped'  BY DEF TypeOK, LibraryTyped
    <3> QED BY <3>1, <3>2, <3>3 DEF TypeOK
  <2>2. NothingYet'  BY DEF NothingYet, BeforeArm
  <2>3. Binding'  BY DEF Binding, BeforeArm, InLoop
  <2>4. OneBuffer'  BY DEF OneBuffer, InLoop
  <2>5. Waiting'
    BY DEF Waiting, TypeOK, StateTyped, LibraryTyped, OneBuffer, InLoop, Pumping,
         Quiet, InFlight, Idle
  <2>6. Pumping'  BY DEF Pumping
  <2>7. StoresDelivered'  BY DEF StoresDelivered, Idle
  <2>8. SafeEnd'  BY DEF SafeEnd, AfterLoop
  <2>9. Counted'  BY DEF Counted
  <2> QED BY <2>1, <2>2, <2>3, <2>4, <2>5, <2>6, <2>7, <2>8, <2>9
<1>10. CASE WaitSignalled
  <2> USE <1>10 DEF WaitSignalled
  <2>1. TypeOK'
    <3>1. StateTyped'  BY DEF TypeOK, StateTyped
    <3>2. EventTyped'  BY DEF TypeOK, EventTyped
    <3>3. LibraryTyped'  BY DEF TypeOK, LibraryTyped
    <3> QED BY <3>1, <3>2, <3>3 DEF TypeOK
  <2>2. NothingYet'  BY DEF NothingYet, BeforeArm
  <2>3. Binding'  BY DEF Binding, BeforeArm, InLoop
  <2>4. OneBuffer'  BY DEF OneBuffer, InLoop
  <2>5. Waiting'  BY DEF Waiting
  <2>6. Pumping'
    BY DEF Pumping, TypeOK, StateTyped, LibraryTyped, OneBuffer, InLoop, Waiting,
         Quiet, InFlight, Idle
  <2>7. StoresDelivered'  BY DEF StoresDelivered, Idle
  <2>8. SafeEnd'  BY DEF SafeEnd, AfterLoop
  <2>9. Counted'  BY DEF Counted
  <2> QED BY <2>1, <2>2, <2>3, <2>4, <2>5, <2>6, <2>7, <2>8, <2>9
<1>11. CASE GetQueuedCompletionStatus
  <2> USE <1>11 DEF GetQueuedCompletionStatus
  <2>1. TypeOK'
    <3>1. StateTyped'
      BY DEF TypeOK, StateTyped, EventTyped, LibraryTyped, OneBuffer, InLoop
    <3>2. EventTyped'  BY DEF TypeOK, EventTyped
    <3>3. LibraryTyped'  BY DEF TypeOK, LibraryTyped
    <3> QED BY <3>1, <3>2, <3>3 DEF TypeOK
  <2>2. NothingYet'  BY DEF NothingYet, BeforeArm
  <2>3. Binding'  BY DEF Binding, BeforeArm, InLoop
  <2>4. OneBuffer'
    BY DEF OneBuffer, InLoop, TypeOK, StateTyped, LibraryTyped, Waiting, Pumping,
         Quiet, InFlight, Idle
  <2>5. Waiting'  BY DEF Waiting
  <2>6. Pumping'
    BY DEF Pumping, TypeOK, StateTyped, LibraryTyped, OneBuffer, InLoop, Waiting,
         Quiet, InFlight, Idle
  <2>7. StoresDelivered'  BY DEF StoresDelivered, Idle
  <2>8. SafeEnd'  BY DEF SafeEnd, AfterLoop
  <2>9. Counted'  BY DEF Counted
  <2> QED BY <2>1, <2>2, <2>3, <2>4, <2>5, <2>6, <2>7, <2>8, <2>9
<1>12. CASE WaitTimesOut
  <2> USE <1>12 DEF WaitTimesOut
  <2>1. TypeOK'
    <3>1. StateTyped'  BY DEF TypeOK, StateTyped
    <3>2. EventTyped'  BY DEF TypeOK, EventTyped
    <3>3. LibraryTyped'  BY DEF TypeOK, LibraryTyped
    <3> QED BY <3>1, <3>2, <3>3 DEF TypeOK
  <2>2. NothingYet'  BY DEF NothingYet, BeforeArm
  <2>3. Binding'  BY DEF Binding, BeforeArm, InLoop
  <2>4. OneBuffer'  BY DEF OneBuffer, InLoop
  <2>5. Waiting'  BY DEF Waiting
  <2>6. Pumping'  BY DEF Pumping
  <2>7. StoresDelivered'  BY DEF StoresDelivered, Idle
  <2>8. SafeEnd'  BY DEF SafeEnd, AfterLoop
  <2>9. Counted'  BY DEF Counted
  <2> QED BY <2>1, <2>2, <2>3, <2>4, <2>5, <2>6, <2>7, <2>8, <2>9
<1>13. CASE Emit
  <2> USE <1>13 DEF Emit
  <2>1. TypeOK'
    <3>1. StateTyped'  BY CmdTyped DEF TypeOK, StateTyped
    <3>2. EventTyped'  BY DEF TypeOK, EventTyped
    <3>3. LibraryTyped'  BY DEF TypeOK, LibraryTyped
    <3> QED BY <3>1, <3>2, <3>3 DEF TypeOK
  <2>2. NothingYet'  BY DEF NothingYet, BeforeArm
  <2>3. Binding'  BY DEF Binding, BeforeArm, InLoop
  <2>4. OneBuffer'  BY DEF OneBuffer, InLoop
  <2>5. Waiting'  BY DEF Waiting
  <2>6. Pumping'  BY DEF Pumping, Quiet
  <2>7. StoresDelivered'  BY DEF StoresDelivered, Idle
  <2>8. SafeEnd'  BY DEF SafeEnd, AfterLoop
  <2>9. Counted'
    BY CmdTyped DEF Pumping, Counted
  <2> QED BY <2>1, <2>2, <2>3, <2>4, <2>5, <2>6, <2>7, <2>8, <2>9
<1>14. CASE CompleteNotification
  <2> USE <1>14 DEF CompleteNotification
  <2>1. TypeOK'
    <3>1. StateTyped'  BY DEF TypeOK, StateTyped
    <3>2. EventTyped'  BY DEF TypeOK, EventTyped
    <3>3. LibraryTyped'  BY DEF TypeOK, LibraryTyped
    <3> QED BY <3>1, <3>2, <3>3 DEF TypeOK
  <2>2. NothingYet'  BY DEF NothingYet, BeforeArm
  <2>3. Binding'  BY DEF Binding, BeforeArm, InLoop
  <2>4. OneBuffer'
    BY DEF OneBuffer, InLoop, TypeOK, StateTyped, LibraryTyped, Waiting, Pumping,
         Quiet, InFlight, Idle
  <2>5. Waiting'  BY DEF Waiting
  <2>6. Pumping'
    <3>1. /\ slot \in Buffers /\ Quiet /\ received = delivered
          /\ cmd.max \in Nat /\ received \in Nat
      BY CmdTyped DEF Pumping, OneBuffer, InLoop
    <3>2. pc' = "rearm" => buf'[slot] = "idle" /\ received < cmd.max
      <4>1. pc' = "rearm" => buf' = [buf EXCEPT ![slot] = "idle"] /\ ~(received >= cmd.max)
        OBVIOUS
      <4>2. buf' = [buf EXCEPT ![slot] = "idle"] => buf'[slot] = "idle"
        BY <3>1 DEF TypeOK, LibraryTyped
      <4> QED BY <3>1, <4>1, <4>2
    <3>3. pc' \notin {"emit", "complete"} /\ Quiet'
      BY <3>1 DEF Quiet
    <3> QED BY <3>1, <3>2, <3>3 DEF Pumping
  <2>7. StoresDelivered'
    BY DEF StoresDelivered, Idle, TypeOK, StateTyped, LibraryTyped, OneBuffer, InLoop,
         Waiting, Pumping, Quiet, InFlight
  <2>8. SafeEnd'
    BY DEF SafeEnd, AfterLoop, TypeOK, StateTyped, LibraryTyped, OneBuffer, InLoop, Waiting,
         Pumping, Quiet, InFlight, Idle
  <2>9. Counted'  BY DEF Counted
  <2> QED BY <2>1, <2>2, <2>3, <2>4, <2>5, <2>6, <2>7, <2>8, <2>9
<1>15. CASE ClearPumpEvent
  <2> USE <1>15 DEF ClearPumpEvent
  <2>1. TypeOK'
    <3>1. StateTyped'  BY DEF TypeOK, StateTyped
    <3>2. EventTyped'  BY DEF TypeOK, EventTyped
    <3>3. LibraryTyped'  BY DEF TypeOK, LibraryTyped
    <3> QED BY <3>1, <3>2, <3>3 DEF TypeOK
  <2>2. NothingYet'  BY DEF NothingYet, BeforeArm
  <2>3. Binding'  BY DEF Binding, BeforeArm, InLoop
  <2>4. OneBuffer'  BY DEF OneBuffer, InLoop
  <2>5. Waiting'  BY DEF Waiting
  <2>6. Pumping'  BY DEF Pumping
  <2>7. StoresDelivered'  BY DEF StoresDelivered, Idle
  <2>8. SafeEnd'  BY DEF SafeEnd, AfterLoop
  <2>9. Counted'  BY DEF Counted
  <2> QED BY <2>1, <2>2, <2>3, <2>4, <2>5, <2>6, <2>7, <2>8, <2>9
<1>16. CASE CloseEvent
  <2> USE <1>16 DEF CloseEvent, AfterPump
  <2>1. TypeOK'
    <3>1. StateTyped'  BY DEF TypeOK, StateTyped
    <3>2. EventTyped'  BY DEF TypeOK, EventTyped
    <3>3. LibraryTyped'  BY DEF TypeOK, LibraryTyped
    <3> QED BY <3>1, <3>2, <3>3 DEF TypeOK
  <2>2. NothingYet'  BY DEF NothingYet, BeforeArm
  <2>3. Binding'  BY DEF Binding, BeforeArm, InLoop
  <2>4. OneBuffer'  BY DEF OneBuffer, InLoop
  <2>5. Waiting'  BY DEF Waiting
  <2>6. Pumping'  BY DEF Pumping
  <2>7. StoresDelivered'  BY DEF StoresDelivered, Idle
  <2>8. SafeEnd'  BY DEF SafeEnd, AfterLoop
  <2>9. Counted'  BY DEF Counted
  <2> QED BY <2>1, <2>2, <2>3, <2>4, <2>5, <2>6, <2>7, <2>8, <2>9
<1>17. CASE FreeNotification
  <2> USE <1>17 DEF FreeNotification
  <2>1. TypeOK'
    <3>1. StateTyped'  BY DEF TypeOK, StateTyped
    <3>2. EventTyped'  BY DEF TypeOK, EventTyped
    <3>3. LibraryTyped'  BY DEF TypeOK, LibraryTyped
    <3> QED BY <3>1, <3>2, <3>3 DEF TypeOK
  <2>2. NothingYet'  BY DEF NothingYet, BeforeArm
  <2>3. Binding'  BY DEF Binding, BeforeArm, InLoop
  <2>4. OneBuffer'  BY DEF OneBuffer, InLoop
  <2>5. Waiting'  BY DEF Waiting
  <2>6. Pumping'  BY DEF Pumping
  <2>7. StoresDelivered'
    BY DEF StoresDelivered, Idle, TypeOK, StateTyped, LibraryTyped, OneBuffer, InLoop,
         Waiting, Pumping, Quiet, InFlight
  <2>8. SafeEnd'
    <3> SUFFICES ASSUME pc' \in AfterLoop, ~gaveUp, cmd.max # 0
                 PROVE  /\ cb = Idle /\ posted = {} /\ slot' = None
                        /\ pc' \in {"closequeue", "closequeue2"}
                        /\ \A b \in Buffers : buf'[b] \notin {"armed", "freed twice"}
      BY DEF SafeEnd
    <3>1. /\ cb = Idle /\ posted = {}
          /\ \A b \in Buffers : buf[b] \notin {"armed", "freed twice"}
          /\ slot = None \/ \A b \in Buffers : buf[b] # "freed"
      BY DEF SafeEnd, AfterLoop
    <3>2. \A b \in Buffers : buf'[b] \notin {"armed", "freed twice"}
      BY <3>1 DEF TypeOK, LibraryTyped
    <3> QED BY <3>1, <3>2
  <2>9. Counted'  BY DEF Counted
  <2> QED BY <2>1, <2>2, <2>3, <2>4, <2>5, <2>6, <2>7, <2>8, <2>9
<1>18. CASE CloseEventQueue
  <2> USE <1>18 DEF CloseEventQueue
  <2>1. TypeOK'
    <3>1. StateTyped'  BY DEF TypeOK, StateTyped
    <3>2. EventTyped'  BY DEF TypeOK, EventTyped
    <3>3. LibraryTyped'  BY DEF TypeOK, LibraryTyped
    <3> QED BY <3>1, <3>2, <3>3 DEF TypeOK
  <2>2. NothingYet'  BY DEF NothingYet, BeforeArm
  <2>3. Binding'  BY DEF Binding, BeforeArm, InLoop
  <2>4. OneBuffer'  BY DEF OneBuffer, InLoop
  <2>5. Waiting'  BY DEF Waiting
  <2>6. Pumping'  BY DEF Pumping
  <2>7. StoresDelivered'  BY DEF StoresDelivered, Idle
  <2>8. SafeEnd'  BY DEF SafeEnd, AfterLoop
  <2>9. Counted'  BY DEF Counted
  <2> QED BY <2>1, <2>2, <2>3, <2>4, <2>5, <2>6, <2>7, <2>8, <2>9
<1> QED BY <1>1, <1>2, <1>3, <1>4, <1>5, <1>6, <1>7, <1>8, <1>9, <1>10, <1>11, <1>12, <1>13, <1>14, <1>15, <1>16, <1>17, <1>18
        DEF PumpThread

\* A failed wait ends the loop with the pump given up: nothing else is promised.
LEMMA WaitFailsIndInv ==
  ASSUME IndInv, WaitFails
  PROVE  IndInv'
<1> USE DEF IndInv
<1>1. /\ pc = "waiting" /\ pc' = "close" /\ gaveUp' = TRUE /\ posted' \subseteq posted
      /\ UNCHANGED <<cmd, clock, slot, pumpEvent, received, event, signalled,
                     buf, bound, cb, delivered>>
  BY DEF WaitFails, Goto, pumpVars
<1>2. TypeOK'
  <2>1. StateTyped'
    BY <1>1 DEF TypeOK, StateTyped
  <2>2. EventTyped'
    BY <1>1 DEF TypeOK, EventTyped
  <2>3. LibraryTyped'
    BY <1>1 DEF TypeOK, LibraryTyped
  <2> QED BY <2>1, <2>2, <2>3 DEF TypeOK
<1>3. NothingYet' /\ Binding' /\ OneBuffer' /\ Waiting' /\ Pumping'
  BY <1>1 DEF NothingYet, Binding, OneBuffer, Waiting, Pumping, BeforeArm, InLoop
<1>4. StoresDelivered' /\ Counted'
  BY <1>1 DEF StoresDelivered, Counted
<1>5. SafeEnd'
  BY <1>1 DEF SafeEnd
<1> QED BY <1>2, <1>3, <1>4, <1>5

--------------------------------------------------------------------------------
\* Each step of the callback thread keeps the invariant.
LEMMA CallbackThreadIndInv ==
  ASSUME IndInv, CallbackThread
  PROVE  IndInv'
<1> USE DEF IndInv, pumpVars
<1>1. CASE StoreNotification
  <2> USE <1>1 DEF StoreNotification
  <2>1. /\ cb # Idle
        /\ pc \notin BeforeArm \cup {"emit", "complete", "rearm"}
        /\ pc \in {"wait", "waiting"} =>
             /\ slot \in Buffers /\ buf[slot] = "ready" /\ cb.b = slot
             /\ posted = {} /\ ~signalled
             /\ received + 1 = delivered /\ received < cmd.max
             /\ pumpEvent /\ event = "open"
    BY CallbackRuns
  <2>2. /\ cb'.at = "check" /\ cb'.b = cb.b /\ slot' = cb.b /\ cb' \in Callback
        /\ cb.b \in Buffers /\ buf[cb.b] # "armed"
    BY DEF TypeOK, LibraryTyped, StoresDelivered, Callback
  <2>3. pc' = pc
    OBVIOUS
  <2>4. TypeOK'
    <3>1. StateTyped'
      BY <2>2 DEF TypeOK, StateTyped
    <3>2. EventTyped'
      BY <2>2 DEF TypeOK, EventTyped
    <3>3. LibraryTyped'
      BY <2>2 DEF TypeOK, LibraryTyped, Callback
    <3> QED BY <3>1, <3>2, <3>3 DEF TypeOK
  <2>5. NothingYet' /\ Pumping'
    BY <2>1, <2>3 DEF NothingYet, Pumping
  <2>6. Binding'
    BY <2>1, <2>3 DEF Binding, InLoop, BeforeArm
  <2>7. OneBuffer'
    BY <2>1, <2>2, <2>3 DEF OneBuffer, InLoop
  <2>8. Waiting'
    BY <2>1, <2>2, <2>3 DEF Waiting, InFlight
  <2>9. StoresDelivered'
    BY <2>2, IdleTyped DEF StoresDelivered
  <2>10. SafeEnd'
    BY <2>1, <2>3 DEF SafeEnd
  <2>11. Counted'
    BY DEF Counted
  <2> QED BY <2>4, <2>5, <2>6, <2>7, <2>8, <2>9, <2>10, <2>11
<1>2. CASE CheckPumpEvent
  <2> USE <1>2 DEF CheckPumpEvent
  <2>1. /\ cb # Idle
        /\ pc \notin BeforeArm \cup {"emit", "complete", "rearm"}
        /\ pc \in {"wait", "waiting"} =>
             /\ slot \in Buffers /\ buf[slot] = "ready" /\ cb.b = slot
             /\ posted = {} /\ ~signalled
             /\ received + 1 = delivered /\ received < cmd.max
             /\ pumpEvent /\ event = "open"
    BY CallbackRuns
  <2>2. /\ cb' \in Callback
        /\ \/ pumpEvent /\ cb'.at = "signal" /\ cb'.b = cb.b
           \/ ~pumpEvent /\ cb' = Idle
    BY IdleTyped DEF TypeOK, LibraryTyped, Callback
  <2>3. pc' = pc
    OBVIOUS
  <2>4. TypeOK'
    <3>1. StateTyped'
      BY <2>2 DEF TypeOK, StateTyped
    <3>2. EventTyped'
      BY <2>2 DEF TypeOK, EventTyped
    <3>3. LibraryTyped'
      BY <2>2 DEF TypeOK, LibraryTyped, Callback
    <3> QED BY <3>1, <3>2, <3>3 DEF TypeOK
  <2>5. NothingYet' /\ Pumping'
    BY <2>1, <2>3 DEF NothingYet, Pumping
  <2>6. Binding'
    BY <2>1, <2>3 DEF Binding, InLoop, BeforeArm
  <2>7. OneBuffer'
    BY <2>1, <2>2, <2>3 DEF OneBuffer, InLoop
  <2>8. Waiting'
    BY <2>1, <2>2, <2>3 DEF Waiting, InFlight
  <2>9. StoresDelivered'
    BY <2>2, IdleTyped DEF StoresDelivered
  <2>10. SafeEnd'
    BY <2>1, <2>3 DEF SafeEnd
  <2>11. Counted'
    BY DEF Counted
  <2> QED BY <2>4, <2>5, <2>6, <2>7, <2>8, <2>9, <2>10, <2>11
<1>3. CASE SignalPumpEvent
  <2> USE <1>3 DEF SignalPumpEvent
  <2>1. /\ cb # Idle
        /\ pc \notin BeforeArm \cup {"emit", "complete", "rearm"}
        /\ pc \in {"wait", "waiting"} =>
             /\ slot \in Buffers /\ buf[slot] = "ready" /\ cb.b = slot
             /\ posted = {} /\ ~signalled
             /\ received + 1 = delivered /\ received < cmd.max
             /\ pumpEvent /\ event = "open"
    BY CallbackRuns
  <2>2. cb' = Idle /\ cb' \in Callback /\ signalled' \in BOOLEAN
    BY IdleTyped
  <2>3. pc' = pc
    OBVIOUS
  <2>4. TypeOK'
    <3>1. StateTyped'
      BY <2>2 DEF TypeOK, StateTyped
    <3>2. EventTyped'
      BY <2>2 DEF TypeOK, EventTyped
    <3>3. LibraryTyped'
      BY <2>2 DEF TypeOK, LibraryTyped, Callback
    <3> QED BY <3>1, <3>2, <3>3 DEF TypeOK
  <2>5. NothingYet' /\ Pumping'
    BY <2>1, <2>3 DEF NothingYet, Pumping
  <2>6. Binding'
    BY <2>1, <2>3 DEF Binding, InLoop, BeforeArm
  <2>7. OneBuffer'
    BY <2>1, <2>2, <2>3 DEF OneBuffer, InLoop
  <2>8. Waiting'
    BY <2>1, <2>2, <2>3 DEF Waiting, InFlight
  <2>9. StoresDelivered'
    BY <2>2, IdleTyped DEF StoresDelivered
  <2>10. SafeEnd'
    BY <2>1, <2>3 DEF SafeEnd
  <2>11. Counted'
    BY DEF Counted
  <2> QED BY <2>4, <2>5, <2>6, <2>7, <2>8, <2>9, <2>10, <2>11
<1> QED BY <1>1, <1>2, <1>3 DEF CallbackThread

\* A delivery keeps the invariant.
LEMMA DeliverIndInv ==
  ASSUME IndInv, NEW b \in Buffers, Deliver(b)
  PROVE  IndInv'
<1> USE DEF IndInv
<1>1. /\ buf[b] = "armed" /\ buf' = [buf EXCEPT ![b] = "ready"] /\ delivered' = delivered + 1
      /\ UNCHANGED <<cmd, gaveUp, pc, clock, slot, pumpEvent, received, event, signalled, bound>>
      /\ \/ bound = "callback" /\ cb = Idle /\ cb' = [at |-> "store", b |-> b] /\ posted' = posted
         \/ bound = "iocp" /\ posted' = posted \cup {b} /\ cb' = cb
  BY DEF Deliver, pumpVars
<1>2. /\ pc \notin BeforeArm \cup {"emit", "complete", "rearm"}
      /\ pc \in {"wait", "waiting"} =>
           b = slot /\ Quiet /\ received = delivered /\ received < cmd.max
  BY <1>1, ArmedWhere
<1>3. /\ buf' \in [Buffers -> {"none", "idle", "armed", "ready", "freed", "freed twice"}]
      /\ buf'[b] = "ready"
      /\ \A c \in Buffers \ {b} : buf'[c] = buf[c]
  BY <1>1 DEF TypeOK, LibraryTyped
<1>4. cb' \in Callback /\ (cb'.at = "store" => cb'.b \in Buffers /\ buf'[cb'.b] # "armed")
  <2>1. CASE cb' = [at |-> "store", b |-> b]
    BY <1>3, <2>1 DEF Callback
  <2>2. CASE cb' = cb
    <3>1. cb \in Callback
      BY DEF TypeOK, LibraryTyped, Callback
    <3>2. cb.at = "store" => cb.b \in Buffers /\ buf[cb.b] # "armed"
      BY DEF StoresDelivered
    <3> QED BY <1>3, <2>2, <3>1, <3>2
  <2> QED BY <1>1, <2>1, <2>2
<1>5. TypeOK'
  <2>1. delivered' \in Nat
    BY <1>1, CmdTyped
  <2>2. StateTyped'
    BY <1>1, <2>1 DEF TypeOK, StateTyped
  <2>3. EventTyped'
    BY <1>1 DEF TypeOK, EventTyped
  <2>4. posted' \subseteq Buffers
    BY <1>1 DEF TypeOK, LibraryTyped
  <2>5. LibraryTyped'
    BY <1>1, <1>3, <1>4, <2>4 DEF TypeOK, LibraryTyped, Callback
  <2> QED BY <2>2, <2>3, <2>5 DEF TypeOK
<1>6. NothingYet' /\ Pumping'
  BY <1>1, <1>2 DEF NothingYet, Pumping
<1>7. Binding'
  BY <1>1, <1>2 DEF Binding, BeforeArm, InLoop
<1>8. OneBuffer'
  BY <1>1, <1>2, <1>3 DEF OneBuffer, InLoop
<1>9. Waiting'
  <2> SUFFICES ASSUME pc \in {"wait", "waiting"} PROVE Waiting'
    BY <1>1 DEF Waiting
  <2>1. buf'[slot'] = "ready" /\ received' + 1 = delivered' /\ received' < cmd'.max
    BY <1>1, <1>2, <1>3
  <2>2. InFlight'
    BY <1>1, <1>2 DEF InFlight, Quiet
  <2> QED BY <2>1, <2>2 DEF Waiting
<1>10. StoresDelivered'
  BY <1>4 DEF StoresDelivered
<1>11. SafeEnd'
  BY <1>1, <1>3, NoneAssumption DEF SafeEnd, AfterLoop, TypeOK, StateTyped
<1>12. Counted'
  BY <1>1, CmdTyped DEF Counted
<1> QED BY <1>5, <1>6, <1>7, <1>8, <1>9, <1>10, <1>11, <1>12

\* The clock keeps the invariant.
LEMMA TickIndInv ==
  ASSUME IndInv, Tick
  PROVE  IndInv'
<1> USE DEF IndInv, Tick, pumpVars, libraryVars
<1>1. TypeOK'
  <2>1. StateTyped'
    BY DEF TypeOK, StateTyped
  <2>2. EventTyped' /\ LibraryTyped'
    BY DEF TypeOK, EventTyped, LibraryTyped
  <2> QED BY <2>1, <2>2 DEF TypeOK
<1>2. NothingYet'  BY DEF NothingYet, BeforeArm, Quiet
<1>3. Binding'  BY DEF Binding, BeforeArm, InLoop
<1>4. OneBuffer'  BY DEF OneBuffer, InLoop
<1>5. Waiting'
  BY DEF Waiting, TypeOK, StateTyped, LibraryTyped, OneBuffer, InLoop, Pumping, Quiet,
       InFlight, Idle
<1>6. Pumping'  BY DEF Pumping, Quiet
<1>7. StoresDelivered'  BY DEF StoresDelivered, Idle
<1>8. SafeEnd'  BY DEF SafeEnd, AfterLoop
<1>9. Counted'  BY DEF Counted
<1> QED BY <1>1, <1>2, <1>3, <1>4, <1>5, <1>6, <1>7, <1>8, <1>9

\* Every behaviour of a session keeps the inductive invariant.
THEOREM PumpInvariant == Spec => []IndInv
<1>1. IndInv /\ UNCHANGED vars => IndInv'
  <2> SUFFICES ASSUME IndInv, UNCHANGED vars PROVE IndInv'
    OBVIOUS
  <2> USE DEF IndInv, vars
  <2>1. StateTyped' /\ Counted'
    BY DEF TypeOK, StateTyped, Counted
  <2>5. EventTyped' /\ LibraryTyped'
    BY DEF TypeOK, EventTyped, LibraryTyped
  <2>2. NothingYet' /\ Binding' /\ OneBuffer'
    BY DEF NothingYet, Binding, OneBuffer, Quiet
  <2>3. Waiting' /\ Pumping'
    BY DEF Waiting, Pumping, InFlight, Quiet
  <2>4. StoresDelivered' /\ SafeEnd'
    BY DEF StoresDelivered, SafeEnd
  <2> QED BY <2>1, <2>2, <2>3, <2>4, <2>5 DEF TypeOK
<1>2. IndInv /\ [Next]_vars => IndInv'
  BY <1>1, PumpThreadIndInv, WaitFailsIndInv, CallbackThreadIndInv, DeliverIndInv, TickIndInv
  DEF Next, Ended
<1> QED BY InitIndInv, <1>2, PTL DEF Spec

\* The session, its buffers, its queue and its event keep their types
\* (PumpNotifications, HandleQueueNotification, Disconnect).
THEOREM PumpTypeCorrect == Spec => []TypeOK
BY PumpInvariant, PTL DEF IndInv

\* For any number of events and any --max, a notification that
\* EmitCompleteAndRearm formats, completes or re-arms is delivered and not armed
\* again, and no callback or completion can touch it meanwhile.
THEOREM PumpAlwaysOwnsBuffer == Spec => []PumpOwnsBuffer
<1>1. IndInv => PumpOwnsBuffer
  BY NoneAssumption DEF IndInv, PumpOwnsBuffer, OneBuffer, Pumping, Quiet, InLoop
<1> QED BY <1>1, PumpInvariant, PTL

\* While ConsumeNotification waits, a delivered notification is always on its
\* way to it: the callback still has to signal, the event is signalled, or the
\* completion port holds it.
THEOREM WakeupNeverLost == Spec => []NoLostWakeup
<1>1. IndInv => NoLostWakeup
  <2> SUFFICES ASSUME IndInv, pc \in {"wait", "waiting"},
                      NEW b \in Buffers, buf[b] = "ready"
               PROVE  \/ cb.at \in {"store", "signal"} \/ (cb.at = "check" /\ pumpEvent)
                      \/ signalled
                      \/ posted # {}
    BY DEF NoLostWakeup
  <2>1. b = slot
    BY DEF IndInv, OneBuffer, InLoop
  <2>2. InFlight
    BY <2>1 DEF IndInv, Waiting
  <2>3. cb.at = "check" => pumpEvent
    BY DEF IndInv, Binding, InLoop, Idle
  <2> QED BY <2>2, <2>3 DEF InFlight
<1> QED BY <1>1, PumpInvariant, PTL

\* notifications_received_ never exceeds the deliveries or --max, and equals the
\* deliveries whenever the pump waits with nothing on its way to it.
THEOREM AlwaysCountedOnce == Spec => []CountedOnce
<1>1. IndInv => CountedOnce
  BY DEF IndInv, CountedOnce, Counted, Waiting, InFlight, Idle
<1> QED BY <1>1, PumpInvariant, PTL

\* Whatever the events do, a pump that did not give its wait up and was not run
\* with --max 0 leaves no armed buffer, no running callback and no packet behind
\* for RunRefs' last query and Disconnect, and no buffer is freed twice.
THEOREM AlwaysQuietUnlessGivenUp == Spec => []QuietUnlessGivenUp
<1>1. IndInv => QuietUnlessGivenUp
  BY DEF IndInv, QuietUnlessGivenUp, SafeEnd
<1> QED BY <1>1, PumpInvariant, PTL
================================================================================
