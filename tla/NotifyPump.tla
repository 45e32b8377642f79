------------------------------ MODULE NotifyPump -------------------------------
(***************************************************************************)
(* One EspSession after a successful install: RunMonitor, RunRules with    *)
(* its hold, and RunRefs --from-notify pump notifications through a queue  *)
(* callback or a completion port, then disconnect twice (the command and   *)
(* the destructor).                                                        *)
(*                                                                         *)
(* The pump thread, a thread-pool thread of espclient.dll that runs        *)
(* OnQueueNotification, and the clock interleave.  The library is          *)
(* external: an armed buffer is the library's until it delivers it, once;  *)
(* it delivers nothing after the buffer is freed or the queue is closed;   *)
(* a callback that has begun runs on.                                      *)
(***************************************************************************)
EXTENDS Naturals

CONSTANTS
  Buffers,        \* values EspAllocateEventNotification may return
  None,           \* the null notification
  Commands,       \* the command lines of the run, a subset of Command
  MaxEvents       \* bound on the events the driver produces

Command == [caller : {"monitor", "rules", "refs"},
            iocp   : BOOLEAN,   \* --iocp
            queue  : BOOLEAN,   \* the document needs a queue
            hold   : BOOLEAN,   \* rules: --duration was given
            max    : Nat]       \* --max; a large value stands for no --max

ASSUME NoneAssumption     == None \notin Buffers
ASSUME CommandsAssumption == Commands \subseteq Command
ASSUME EventsAssumption   == MaxEvents \in Nat

VARIABLES
  cmd, pc,                 \* the command and its thread
  slot,                    \* EspSession::notification_
  pumpEvent,               \* EspSession::pump_event_ is not null
  received,                \* EspSession::notifications_received_
  event, signalled,        \* the auto-reset event of PumpNotifications
  clock,                   \* 0, 1 (the hold is over), 2 (the pump's deadline too)
  buf, bound, posted,      \* external: buffers, queue binding, completion port
  cb, delivered,           \* external: the callback thread, deliveries so far
  gaveUp                   \* history: the pump left its loop without its notification

pumpVars    == <<slot, pumpEvent, received, event, signalled>>
libraryVars == <<buf, bound, posted, cb, delivered>>
vars == <<cmd, pc, slot, pumpEvent, received, event, signalled, clock,
          buf, bound, posted, cb, delivered, gaveUp>>

Idle == [at |-> "idle", b |-> None]

Init ==
  /\ cmd \in Commands
  /\ pc = "start"
  /\ slot = None /\ pumpEvent = FALSE /\ received = 0
  /\ event = "none" /\ signalled = FALSE /\ clock = 0
  /\ buf = [b \in Buffers |-> "none"] /\ bound = "none" /\ posted = {}
  /\ cb = Idle /\ delivered = 0 /\ gaveUp = FALSE

Goto(from, to) == pc = from /\ pc' = to

--------------------------------------------------------------------------------
(***************************************************************************)
(* The callers.                                                            *)
(***************************************************************************)
\* RunRules holds only with --duration, and sleeps by itself when no rule
\* needs the queue; RunMonitor and RunRefs always call the pump.  Only refs
\* ignores --iocp.
StartPump ==
  /\ pc = "start"
  /\ pc' = IF cmd.caller = "rules" /\ ~cmd.hold       THEN "free"
           ELSE IF cmd.caller = "rules" /\ ~cmd.queue THEN "sleep"
           ELSE IF cmd.iocp /\ cmd.caller # "refs"    THEN "iocp"
           ELSE "callback"
  /\ UNCHANGED <<cmd, gaveUp, clock, pumpVars, libraryVars>>

\* RunRules sleeps for what is left of the duration.  RunRefs queries the
\* notification once more when no rule of the document has a <query>.
AfterPump ==
  CASE cmd.caller = "rules" -> "sleep"
    [] cmd.caller = "refs"  -> "query"
    [] OTHER                -> "free"

\* sleep_for, in RunRules or in a pump that has no queue.
Sleep ==
  /\ clock >= 1
  /\ \/ Goto("sleep", "free")
     \/ Goto("noqueue", AfterPump)
  /\ UNCHANGED <<cmd, gaveUp, clock, pumpVars, libraryVars>>

QueryAfterPump ==
  /\ Goto("query", "free")
  /\ UNCHANGED <<cmd, gaveUp, clock, pumpVars, libraryVars>>

--------------------------------------------------------------------------------
(***************************************************************************)
(* PumpNotifications and PumpNotificationsIocp.                            *)
(***************************************************************************)
PumpWithoutQueue ==
  /\ ~cmd.queue
  /\ \/ Goto("callback", "noqueue")
     \/ Goto("iocp", AfterPump)
  /\ UNCHANGED <<cmd, gaveUp, clock, pumpVars, libraryVars>>

ConnectQueueToCallback ==
  /\ cmd.queue
  /\ \/ Goto("callback", "event")   /\ bound' = "callback"
     \/ Goto("callback", AfterPump) /\ UNCHANGED bound
  /\ UNCHANGED <<cmd, gaveUp, clock, pumpVars, buf, posted, cb, delivered>>

CreateIocpQueue ==
  /\ cmd.queue
  /\ \/ Goto("iocp", "arm")     /\ bound' = "iocp"
     \/ Goto("iocp", AfterPump) /\ UNCHANGED bound
  /\ UNCHANGED <<cmd, gaveUp, clock, pumpVars, buf, posted, cb, delivered>>

\* Fault: pump_event_ is not set before the first arm.
CreatePumpEvent_Late ==
  /\ Goto("event", "arm")
  /\ event' = "open" /\ UNCHANGED pumpEvent
  /\ UNCHANGED <<cmd, gaveUp, clock, slot, received, signalled, libraryVars>>

CreatePumpEvent ==
  /\ \/ Goto("event", "arm")     /\ event' = "open" /\ pumpEvent' = TRUE
     \/ Goto("event", AfterPump) /\ UNCHANGED <<event, pumpEvent>>
  /\ UNCHANGED <<cmd, gaveUp, clock, slot, received, signalled, libraryVars>>

\* The buffer ArmNotification arms: the one it has, or a new one.
ArmTargets == IF slot = None THEN {b \in Buffers : buf[b] = "none"} ELSE {slot}

\* Fault: one notification more than the cap.
LoopOrDone_OffByOne == IF received <= cmd.max THEN "wait" ELSE "close"

LoopOrDone == IF received < cmd.max THEN "wait" ELSE "close"

\* Armed (ERROR_IO_PENDING counts as armed), refused, or no buffer at all.
ArmNotification ==
  /\ pc \in {"arm", "rearm"}
  /\ \/ /\ pc' = LoopOrDone
        /\ \E b \in ArmTargets : slot' = b /\ buf' = [buf EXCEPT ![b] = "armed"]
     \/ /\ pc' = "close"
        /\ \E b \in ArmTargets : slot' = b /\ buf' = [buf EXCEPT ![b] = "idle"]
     \/ pc' = "close" /\ slot = None /\ UNCHANGED <<slot, buf>>
  /\ UNCHANGED <<cmd, gaveUp, clock, pumpEvent, received, event, signalled,
                 bound, posted, cb, delivered>>

\* ConsumeNotification looks at the clock before it waits for the rest.
CheckDeadline ==
  /\ pc = "wait"
  /\ pc' = IF clock = 2 THEN "close" ELSE "waiting"
  /\ gaveUp' = (clock = 2)
  /\ UNCHANGED <<cmd, clock, pumpVars, libraryVars>>

WaitSignalled ==
  /\ event = "open" /\ signalled
  /\ Goto("waiting", "emit") /\ signalled' = FALSE
  /\ UNCHANGED <<cmd, gaveUp, clock, slot, pumpEvent, received, event, libraryVars>>

GetQueuedCompletionStatus ==
  /\ bound = "iocp"
  /\ Goto("waiting", "emit")
  /\ \E b \in posted :
       /\ posted' = posted \ {b}
       /\ slot' = IF slot = None THEN b ELSE slot
  /\ UNCHANGED <<cmd, gaveUp, clock, pumpEvent, received, event, signalled,
                 buf, bound, cb, delivered>>

\* Fault: a wait that times out is entered again without a look at the clock.
WaitTimesOut_Retries ==
  /\ clock = 2 /\ Goto("waiting", "waiting")
  /\ UNCHANGED <<cmd, gaveUp, clock, pumpVars, libraryVars>>

WaitTimesOut ==
  /\ clock = 2 /\ Goto("waiting", "close") /\ gaveUp' = TRUE
  /\ UNCHANGED <<cmd, clock, pumpVars, libraryVars>>

\* The wait may also fail before the deadline: any other result ends the loop.
\* A FALSE from GetQueuedCompletionStatus may have taken a packet with it.
WaitFails ==
  /\ Goto("waiting", "close") /\ gaveUp' = TRUE
  /\ \/ UNCHANGED posted
     \/ \E b \in posted : posted' = posted \ {b}
  /\ UNCHANGED <<cmd, clock, pumpVars, buf, bound, cb, delivered>>

--------------------------------------------------------------------------------
(***************************************************************************)
(* EmitCompleteAndRearm.  Emit counts and formats the buffer, and runs     *)
(* QueryFromNotification when a rule asked for it; both only read it.      *)
(***************************************************************************)
\* Fault: the next read is armed before this notification is completed.
Emit_RearmsFirst ==
  /\ Goto("emit", "complete")
  /\ received' = received + 1
  /\ buf' = [buf EXCEPT ![slot] = "armed"]
  /\ UNCHANGED <<cmd, gaveUp, clock, slot, pumpEvent, event, signalled,
                 bound, posted, cb, delivered>>

Emit ==
  /\ Goto("emit", "complete")
  /\ received' = received + 1
  /\ UNCHANGED <<cmd, gaveUp, clock, slot, pumpEvent, event, signalled, libraryVars>>

\* Fault: the cap is not looked at before the buffer is armed again.
CompleteNotification_NoCap ==
  /\ Goto("complete", "rearm")
  /\ buf' = [buf EXCEPT ![slot] = "idle"]
  /\ UNCHANGED <<cmd, gaveUp, clock, pumpVars, bound, posted, cb, delivered>>

CompleteNotification ==
  /\ \/ /\ pc = "complete"
        /\ pc' = IF received >= cmd.max THEN "close" ELSE "rearm"
        /\ buf' = [buf EXCEPT ![slot] = "idle"]
     \/ Goto("complete", "close") /\ UNCHANGED buf
  /\ UNCHANGED <<cmd, gaveUp, clock, pumpVars, bound, posted, cb, delivered>>

\* The pump returns: pump_event_ is cleared, then the event is closed.
ClearPumpEvent ==
  /\ Goto("close", "closed")
  /\ pumpEvent' = FALSE
  /\ UNCHANGED <<cmd, gaveUp, clock, slot, received, event, signalled, libraryVars>>

CloseEvent ==
  /\ Goto("closed", AfterPump)
  /\ event' = IF event = "open" THEN "closed" ELSE event
  /\ signalled' = FALSE
  /\ UNCHANGED <<cmd, gaveUp, clock, slot, pumpEvent, received, libraryVars>>

--------------------------------------------------------------------------------
(***************************************************************************)
(* Disconnect, by the command ("free", "closequeue") and by the            *)
(* destructor ("free2", "closequeue2").                                    *)
(***************************************************************************)
FreeNotification ==
  /\ \/ Goto("free", "closequeue")
     \/ Goto("free2", "closequeue2")
  /\ slot' = None
  /\ buf' = IF slot = None THEN buf
            ELSE [buf EXCEPT ![slot] = IF @ = "freed" THEN "freed twice"
                                                      ELSE "freed"]
  /\ UNCHANGED <<cmd, gaveUp, clock, pumpEvent, received, event, signalled,
                 bound, posted, cb, delivered>>

CloseEventQueue ==
  /\ \/ Goto("closequeue", "free2")
     \/ Goto("closequeue2", "end")
  /\ bound' = "closed"
  /\ UNCHANGED <<cmd, gaveUp, clock, pumpVars, buf, posted, cb, delivered>>

--------------------------------------------------------------------------------
(***************************************************************************)
(* The library's delivery and the callback thread.                         *)
(***************************************************************************)
Deliver(b) ==
  /\ buf[b] = "armed" /\ delivered < MaxEvents
  /\ buf' = [buf EXCEPT ![b] = "ready"]
  /\ delivered' = delivered + 1
  /\ \/ /\ bound = "callback" /\ cb = Idle
        /\ cb' = [at |-> "store", b |-> b] /\ UNCHANGED posted
     \/ /\ bound = "iocp"
        /\ posted' = posted \cup {b} /\ UNCHANGED cb
  /\ UNCHANGED <<cmd, gaveUp, pc, clock, pumpVars, bound>>

\* HandleQueueNotification: store the pointer, read pump_event_, signal.
StoreNotification ==
  /\ cb.at = "store"
  /\ slot' = cb.b
  /\ cb' = [cb EXCEPT !.at = "check"]
  /\ UNCHANGED <<cmd, gaveUp, pc, clock, pumpEvent, received, event, signalled,
                 buf, bound, posted, delivered>>

CheckPumpEvent ==
  /\ cb.at = "check"
  /\ cb' = IF pumpEvent THEN [cb EXCEPT !.at = "signal"] ELSE Idle
  /\ UNCHANGED <<cmd, gaveUp, pc, clock, pumpVars, buf, bound, posted, delivered>>

SignalPumpEvent ==
  /\ cb.at = "signal"
  /\ signalled' = (signalled \/ event = "open")
  /\ cb' = Idle
  /\ UNCHANGED <<cmd, gaveUp, pc, clock, slot, pumpEvent, received, event,
                 buf, bound, posted, delivered>>

Tick ==
  /\ clock < 2 /\ clock' = clock + 1
  /\ UNCHANGED <<cmd, gaveUp, pc, pumpVars, libraryVars>>

--------------------------------------------------------------------------------
PumpThread ==
  \/ StartPump \/ Sleep \/ QueryAfterPump
  \/ PumpWithoutQueue \/ ConnectQueueToCallback \/ CreateIocpQueue
  \/ CreatePumpEvent \/ ArmNotification
  \/ CheckDeadline \/ WaitSignalled \/ GetQueuedCompletionStatus \/ WaitTimesOut
  \/ Emit \/ CompleteNotification \/ ClearPumpEvent \/ CloseEvent
  \/ FreeNotification \/ CloseEventQueue

CallbackThread == StoreNotification \/ CheckPumpEvent \/ SignalPumpEvent

Ended == pc = "end" /\ UNCHANGED vars

Next ==
  \/ PumpThread \/ WaitFails \/ CallbackThread \/ Tick
  \/ \E b \in Buffers : Deliver(b)
  \/ Ended

\* The pump thread and the clock run on; a wait need not fail, and no event has
\* to come.
Spec     == Init /\ [][Next]_vars
FairSpec == Spec /\ WF_vars(PumpThread) /\ WF_vars(Tick)

--------------------------------------------------------------------------------
StateTyped ==
  /\ cmd \in Commands
  /\ pc \in {"start", "callback", "iocp", "noqueue", "event", "arm", "wait", "waiting",
             "emit", "complete", "rearm", "close", "closed", "sleep", "query",
             "free", "closequeue", "free2", "closequeue2", "end"}
  /\ slot \in Buffers \cup {None}
  /\ received \in Nat /\ delivered \in Nat /\ clock \in 0..2

EventTyped ==
  /\ pumpEvent \in BOOLEAN /\ signalled \in BOOLEAN /\ gaveUp \in BOOLEAN
  /\ event \in {"none", "open", "closed"}

LibraryTyped ==
  /\ buf \in [Buffers -> {"none", "idle", "armed", "ready", "freed", "freed twice"}]
  /\ bound \in {"none", "callback", "iocp", "closed"}
  /\ posted \subseteq Buffers
  /\ cb \in [at : {"idle", "store", "check", "signal"}, b : Buffers \cup {None}]

TypeOK == StateTyped /\ EventTyped /\ LibraryTyped

\* While the pump formats, queries, completes or re-arms a notification the
\* buffer is its own: delivered and not armed again, so neither the library
\* nor a callback touches it.
PumpOwnsBuffer ==
  /\ pc \in {"emit", "complete"} => slot # None /\ buf[slot] = "ready"
  /\ pc = "rearm" => slot # None /\ buf[slot] = "idle"
  /\ pc \in {"emit", "complete", "rearm"} => cb = Idle /\ posted = {}

\* While the pump waits, a delivered notification is on its way to it: its
\* callback still has to signal, the event is signalled, or the port has it.
\* The order of pump_event_ and the first arm is what this rests on.
NoLostWakeup ==
  pc \in {"wait", "waiting"} /\ (\E b \in Buffers : buf[b] = "ready") =>
    \/ cb.at \in {"store", "signal"} \/ (cb.at = "check" /\ pumpEvent)
    \/ signalled
    \/ posted # {}

\* Every notification the pump counted was delivered, once; the cap holds.
CountedOnce ==
  /\ received <= delivered
  /\ received <= cmd.max
  /\ pc \in {"wait", "waiting"} /\ cb = Idle /\ ~signalled /\ posted = {} => received = delivered

\* Where the command is once its pump has left the loop.
AfterLoop == {"close", "closed", "sleep", "query", "free",
              "closequeue", "free2", "closequeue2", "end"}

\* After the loop RunRefs reads the buffer and Disconnect frees it, twice
\* over.  A pump that ended by itself (its cap reached, an arm or a complete
\* refused) has left nothing to the library by then: no armed buffer that it
\* could still fill, no callback that will store a pointer into notification_
\* again, no packet on the port, and no buffer is freed twice.  Only a pump
\* that gave its wait up, at the deadline or because the wait failed, and one
\* that armed for --max 0 may leave such work behind.
QuietUnlessGivenUp ==
  pc \in AfterLoop /\ ~gaveUp /\ cmd.max # 0 =>
    /\ cb = Idle /\ posted = {}
    /\ \A b \in Buffers : buf[b] \notin {"armed", "freed twice"}

\* Every pump ends and its session is disconnected: the deadline is enough,
\* no event has to arrive.
CommandEnds == <>(pc = "end")

--------------------------------------------------------------------------------
(***************************************************************************)
(* Statements of the repository's documents that the code does not meet:   *)
(* README.md, "Statements the code does not meet".                         *)
(***************************************************************************)
\* The comment in PumpNotifications: without a queue "the hold still has to
\* be honored", or the transient rules go before a trigger can reach them.
HoldWithoutQueue ==
  cmd.caller = "monitor" /\ ~cmd.queue
    /\ pc \in {"free", "closequeue", "free2", "closequeue2", "end"} => clock >= 1

\* Disconnect may run twice: the second one finds nothing left to free.
FreedOnce == \A b \in Buffers : buf[b] # "freed twice"
================================================================================
