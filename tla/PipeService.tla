----------------------------- MODULE PipeService -------------------------------
(***************************************************************************)
(* The protected service and its named pipe: ServiceMain and ServeLoop,    *)
(* the control handler on the dispatcher's thread, the thread that         *)
(* connects the session, PipeServer::ServeOne, and the clients that ipc    *)
(* starts, each with one PipeClient and one exchange.                      *)
(*                                                                         *)
(* Windows is external: one pipe instance at a time, whose bytes are lost  *)
(* when it is disconnected; FlushFileBuffers returns once the peer has     *)
(* read everything or closed.  A transfer that timed out is cancelled and  *)
(* not waited for: what it may still write into is memory, not modelled.   *)
(* A request is its kind; its frame may have a bad length (a document      *)
(* longer than the pipe buffer) or stop short (the client died).           *)
(***************************************************************************)
EXTENDS Naturals

CONSTANTS
  Clients,            \* the ipc commands of the run
  None,               \* no client
  Kinds,              \* the request kinds they send
  Modes,              \* subset of {"service", "foreground"}
  kConnectAttempts    \* how often a busy pipe is tried (5 in the code)

ASSUME NoneAssumption  == None \notin Clients
ASSUME KindsAssumption == Kinds \subseteq {"Ping", "Status", "Exports", "Exercise", "Rules"}
ASSUME ModesAssumption == Modes \subseteq {"service", "foreground"}
ASSUME AttemptsAssumption == kConnectAttempts \in Nat \ {0}

VARIABLES
  mode, status,       \* how the process was started; SERVICE_STATUS
  stopRequested,      \* g_stop_requested
  handler,            \* the dispatcher's thread: "idle", or the state it will report
  svc, serving,       \* the service thread, and the decoded request's client
  conn,               \* the connect thread of ServeLoop
  uninstall,          \* a service uninstall command elsewhere
  inst, peer,         \* external: the pipe instance, and the client connected to it
  frame, reply,       \* external: bytes under way to the server and to the client
  client, kind,       \* each ipc command and its request kind
  attempts,
  handled, written,   \* history: requests run, replies written
  late                \* history: requests run after STOP was requested

service == <<mode, status, stopRequested, handler, conn, uninstall>>
pipe    == <<inst, peer, frame, reply>>
ipc     == <<client, kind, attempts>>
history == <<handled, written, late>>
vars == <<mode, status, stopRequested, handler, svc, serving, conn, uninstall, inst, peer,
          frame, reply, client, kind, attempts, handled, written, late>>

Init ==
  /\ mode \in Modes /\ status = "START_PENDING"
  /\ stopRequested = FALSE /\ handler = "idle"
  /\ svc = "start" /\ serving = None /\ conn = "none" /\ uninstall = "no"
  /\ inst = "none" /\ peer = None /\ frame = "none" /\ reply = None
  /\ client = [c \in Clients |-> "idle"] /\ kind \in [Clients -> Kinds]
  /\ attempts = [c \in Clients |-> 0]
  /\ handled = [c \in Clients |-> 0] /\ written = {} /\ late = 0

ClientOpen(c) == c # None /\ client[c] \in {"open", "sent", "answered"}

--------------------------------------------------------------------------------
(***************************************************************************)
(* ServeLoop up to its loop.  RUNNING is reported before any of it.        *)
(***************************************************************************)
ServiceMain ==
  /\ svc = "start" /\ svc' = "trust"
  /\ status' = IF mode = "service" THEN "RUNNING" ELSE status
  /\ UNCHANGED <<mode, stopRequested, handler, serving, conn, uninstall, pipe, ipc, history>>

\* The stop event cannot be made, or the process is not SYSTEM with TCB.
StartRefused ==
  /\ svc = "trust" /\ svc' = "ended"
  /\ UNCHANGED <<service, serving, pipe, ipc, history>>

\* Provisioning never stops the service; the connect thread is started only
\* when the library was loaded.
StartConnectThread ==
  /\ svc = "trust" /\ svc' = "loop"
  /\ conn' \in {"none", "running"}
  /\ UNCHANGED <<mode, status, stopRequested, handler, serving, uninstall, pipe, ipc, history>>

ConnectThreadEnds ==
  /\ conn = "running" /\ conn' = "ended"
  /\ UNCHANGED <<mode, status, stopRequested, handler, svc, serving, uninstall, pipe, ipc,
                 history>>

(***************************************************************************)
(* ServiceControlHandler, on the dispatcher's thread: the flag is stored   *)
(* or the state is read first, and ReportStatus comes after it, so that it *)
(* may overwrite what the service thread has reported in between.  STOP is *)
(* delivered only while the last report accepts it.                        *)
(***************************************************************************)
ControlStop ==
  /\ mode = "service" /\ svc # "stopped" /\ status = "RUNNING" /\ handler = "idle"
  /\ stopRequested' = TRUE /\ handler' = "STOP_PENDING"

HandleStop ==
  /\ ControlStop
  /\ UNCHANGED <<mode, status, svc, serving, conn, uninstall, pipe, ipc, history>>

HandleInterrogate ==
  /\ mode = "service" /\ svc \notin {"start", "stopped"} /\ handler = "idle"
  /\ handler' = status
  /\ UNCHANGED <<mode, status, stopRequested, svc, serving, conn, uninstall, pipe, ipc, history>>

ReportStatus ==
  /\ handler # "idle" /\ status' = handler /\ handler' = "idle"
  /\ UNCHANGED <<mode, stopRequested, svc, serving, conn, uninstall, pipe, ipc, history>>

ServiceControlHandler == HandleStop \/ HandleInterrogate \/ ReportStatus

--------------------------------------------------------------------------------
(***************************************************************************)
(* PipeServer::ServeOne.  stop_event_ is set only by Stop, which the same  *)
(* thread calls after the loop, so the wait for a client never sees it.    *)
(***************************************************************************)
\* Fault: the loop does not look at the flag.
CreateNamedPipe_IgnoresStop ==
  /\ svc = "loop" /\ svc' = "created" /\ inst' = "open"
  /\ UNCHANGED <<service, serving, peer, frame, reply, ipc, history>>

\* From here on a client can open the instance.  A ServeOne that fails ends
\* the loop.
CreateNamedPipe ==
  /\ svc = "loop" /\ ~stopRequested
  /\ \/ svc' = "created" /\ inst' = "open"
     \/ svc' = "stop" /\ UNCHANGED inst
  /\ UNCHANGED <<service, serving, peer, frame, reply, ipc, history>>

ConnectNamedPipe ==
  /\ svc = "created" /\ svc' = "listen"
  /\ UNCHANGED <<service, serving, pipe, ipc, history>>

LoopEnds ==
  /\ svc = "loop" /\ stopRequested /\ svc' = "stop"
  /\ UNCHANGED <<service, serving, pipe, ipc, history>>

\* Fault: the wait for a client has no timeout.
Accept_Forever == svc = "listen" /\ peer # None /\ svc' = "read"

\* The wait ends when a client is there or after kConnectTimeoutMs; then the
\* read is tried in either case.
Accept == svc = "listen" /\ svc' = "read"

AcceptStep == Accept /\ UNCHANGED <<service, serving, pipe, ipc, history>>

\* ReadExactly of the length and of the body, and DecodeFrame.
ReadRequest ==
  /\ svc = "read" /\ peer # None /\ frame = "good"
  /\ svc' = "handle" /\ serving' = peer /\ frame' = "none"
  /\ UNCHANGED <<service, inst, peer, reply, ipc, history>>

\* No client, a closed client, a length outside 4..kPipeBufferSize, nothing
\* within kIoTimeoutMs or a failing read: no reply.
ReadFails ==
  /\ svc = "read" /\ svc' = "flush" /\ frame' = "none"
  /\ UNCHANGED <<service, serving, inst, peer, reply, ipc, history>>

\* The handler runs its request in the service's session.
Handle ==
  /\ svc = "handle" /\ svc' = "write"
  /\ handled' = [handled EXCEPT ![serving] = @ + 1]
  /\ late' = IF stopRequested THEN late + 1 ELSE late
  /\ UNCHANGED <<service, serving, pipe, ipc, written>>

\* A write that fails or times out leaves less than a frame, which the client
\* cannot take for a reply.
WriteReply ==
  /\ svc = "write" /\ svc' = "flush" /\ serving' = None
  /\ \/ ClientOpen(peer) /\ reply' = serving /\ written' = written \cup {serving}
     \/ UNCHANGED <<reply, written>>
  /\ UNCHANGED <<service, inst, peer, frame, ipc, handled, late>>

\* Fault: the instance is disconnected without FlushFileBuffers.
FlushFileBuffers_Skipped == svc = "flush"

FlushFileBuffers == svc = "flush" /\ (reply = None \/ ~ClientOpen(peer))

\* Fault: the instance is kept for the next client, with an unread reply.
Recycle_KeepsReply ==
  inst' = "none" /\ peer' = None /\ frame' = "none" /\ UNCHANGED reply

\* DisconnectNamedPipe and the close of its last handle drop what is left in
\* the instance.
Recycle == inst' = "none" /\ peer' = None /\ frame' = "none" /\ reply' = None

DisconnectNamedPipe ==
  /\ FlushFileBuffers /\ Recycle /\ svc' = "loop"
  /\ UNCHANGED <<service, serving, ipc, history>>

\* CreateEvent or ConnectNamedPipe fails: the handle is closed, under a client
\* that may have opened the instance already, and the loop ends.
ConnectNamedPipeFails ==
  /\ svc = "created" /\ svc' = "stop" /\ Recycle
  /\ UNCHANGED <<service, serving, ipc, history>>

--------------------------------------------------------------------------------
(***************************************************************************)
(* The end of ServeLoop and of ServiceMain.                                *)
(***************************************************************************)
Stop ==
  /\ svc = "stop" /\ svc' = "join"
  /\ UNCHANGED <<service, serving, pipe, ipc, history>>

\* Fault: the connect thread is not joined.
Join_Skipped == svc = "join"

Join == svc = "join" /\ conn # "running"

DisconnectSession ==
  /\ Join /\ svc' = "ended"
  /\ UNCHANGED <<service, serving, pipe, ipc, history>>

ReportStopped ==
  /\ svc = "ended" /\ svc' = "stopped"
  /\ status' = IF mode = "service" THEN "STOPPED" ELSE status
  /\ UNCHANGED <<mode, stopRequested, handler, serving, conn, uninstall, pipe, ipc, history>>

\* Uninstall sends STOP, looks neither at the result nor at the status, and
\* deletes the registration.
Uninstall ==
  /\ mode = "service" /\ svc # "start" /\ uninstall = "no" /\ uninstall' = "removed"
  /\ ControlStop \/ UNCHANGED <<stopRequested, handler>>
  /\ UNCHANGED <<mode, status, svc, serving, conn, pipe, ipc, history>>

--------------------------------------------------------------------------------
(***************************************************************************)
(* PipeClient, driven by RunIpc.                                           *)
(***************************************************************************)
Becomes(c, to) == client' = [client EXCEPT ![c] = to]

\* Fault: a missing pipe is tried again without counting the attempt.
ClientConnect_RetriesMissing(c) ==
  /\ client[c] = "idle" /\ inst = "open" /\ peer = None
  /\ Becomes(c, "open") /\ peer' = c
  /\ UNCHANGED <<service, svc, serving, inst, frame, reply, kind, attempts,
                 history>>

\* Only ERROR_PIPE_BUSY is tried again, kConnectAttempts times; between two
\* instances the pipe does not exist and the command fails at once.
ClientConnect(c) ==
  /\ client[c] = "idle"
  /\ CASE inst = "open" /\ peer = None -> Becomes(c, "open") /\ peer' = c /\ UNCHANGED attempts
       [] inst = "open" /\ peer # None ->
            /\ attempts' = [attempts EXCEPT ![c] = @ + 1]
            /\ Becomes(c, IF attempts[c] + 1 = kConnectAttempts THEN "busy" ELSE "idle")
            /\ UNCHANGED peer
       [] OTHER -> Becomes(c, "no pipe") /\ UNCHANGED <<peer, attempts>>
  /\ UNCHANGED <<service, svc, serving, inst, frame, reply, kind, history>>

\* Exchange writes its frame; a document over the pipe buffer makes a length
\* the server refuses.
ClientSend(c) ==
  /\ client[c] = "open"
  /\ IF peer = c
     THEN /\ Becomes(c, "sent")
          /\ frame' \in {"good"} \cup (IF kind[c] = "Rules" THEN {"long"} ELSE {})
     ELSE Becomes(c, "disconnected") /\ UNCHANGED frame
  /\ UNCHANGED <<service, svc, serving, inst, peer, reply, kind, attempts,
                 history>>

ClientRead(c) ==
  /\ client[c] = "sent"
  /\ \/ peer = c /\ reply # None /\ reply' = None
        /\ Becomes(c, IF reply = c THEN "answered" ELSE "misled")
     \/ peer # c /\ Becomes(c, "disconnected") /\ UNCHANGED reply
  /\ UNCHANGED <<service, svc, serving, inst, peer, frame, kind, attempts,
                 history>>

\* kIoTimeoutMs without an answer: RunIpc reports the error and ends, and the
\* request is not sent again.
ClientTimesOut(c) ==
  /\ client[c] = "sent" /\ Becomes(c, "timed out")
  /\ UNCHANGED <<service, svc, serving, pipe, kind, attempts, history>>

\* The command is killed, maybe in the middle of its frame.
ClientDies(c) ==
  /\ client[c] = "open" /\ Becomes(c, "dead")
  /\ frame' \in IF peer = c THEN {"none", "short"} ELSE {frame}
  /\ UNCHANGED <<service, svc, serving, inst, peer, reply, kind, attempts,
                 history>>

ClientClose(c) ==
  /\ client[c] = "answered" /\ Becomes(c, "ok")
  /\ UNCHANGED <<service, svc, serving, pipe, kind, attempts, history>>

--------------------------------------------------------------------------------
ServiceStep ==
  \/ ServiceMain \/ StartRefused \/ StartConnectThread \/ CreateNamedPipe \/ LoopEnds
  \/ ConnectNamedPipe \/ ConnectNamedPipeFails \/ AcceptStep
  \/ ReadRequest \/ ReadFails \/ Handle \/ WriteReply \/ DisconnectNamedPipe
  \/ Stop \/ DisconnectSession \/ ReportStopped

ClientStep(c) ==
  \/ ClientConnect(c) \/ ClientSend(c) \/ ClientRead(c) \/ ClientTimesOut(c)
  \/ ClientClose(c)

Next ==
  \/ ServiceStep \/ ConnectThreadEnds \/ ServiceControlHandler \/ Uninstall
  \/ \E c \in Clients : ClientStep(c) \/ ClientDies(c)

\* Threads keep running and EspConnectClient returns.  The service's waits for
\* a client, a request and a write have time-outs; FlushFileBuffers has none,
\* and returns because the client's own read of the reply has one.
Fairness ==
  /\ WF_vars(ServiceStep) /\ WF_vars(ConnectThreadEnds)
  /\ \A c \in Clients : WF_vars(ClientStep(c))

Spec == Init /\ [][Next]_vars /\ Fairness

--------------------------------------------------------------------------------
(***************************************************************************)
(* Properties.                                                             *)
(***************************************************************************)
States == {"START_PENDING", "RUNNING", "STOP_PENDING", "STOPPED"}

ServiceTyped ==
  /\ mode \in Modes /\ status \in States /\ handler \in States \cup {"idle"}
  /\ svc \in {"start", "trust", "loop", "created", "listen", "read", "handle", "write", "flush",
              "stop", "join", "ended", "stopped"}
  /\ stopRequested \in BOOLEAN /\ conn \in {"none", "running", "ended"}
  /\ uninstall \in {"no", "removed"}

PipeTyped ==
  /\ inst \in {"none", "open"} /\ frame \in {"none", "good", "long", "short"}
  /\ {peer, serving, reply} \subseteq Clients \cup {None}

ClientTyped ==
  /\ client \in [Clients -> {"idle", "open", "sent", "answered", "ok", "busy", "no pipe",
                             "disconnected", "timed out", "dead", "misled"}]
  /\ kind \in [Clients -> Kinds] /\ attempts \in [Clients -> 0..kConnectAttempts]
  /\ handled \in [Clients -> Nat] /\ written \subseteq Clients
  /\ late \in Nat

TypeOK == ServiceTyped /\ PipeTyped /\ ClientTyped

\* A client is answered only with the reply to its own request, and no request
\* runs in the service twice, although a command that timed out may have been
\* served (PipeClient::Exchange, RunIpc, ServeOne).
OwnAnswerOnce ==
  \A c \in Clients :
    /\ client[c] # "misled"
    /\ handled[c] <= 1
    /\ client[c] \in {"answered", "ok"} => handled[c] = 1

\* A reply the server has written reaches its client, unless the client itself
\* gave up: the instance is not torn down under it (ServeOne's flush).
WrittenReplyArrives ==
  \A c \in written : client[c] # "disconnected"

\* The session is torn down by the service thread alone: the connect thread
\* has ended and no request is being handled (ServeLoop's join).
TeardownAlone == svc \in {"ended", "stopped"} => conn # "running" /\ inst = "none"

\* After STOP was requested at most one more request runs: the one whose
\* exchange was under way.  Nothing wakes ServeOne, so a client that comes
\* before it gives up is still served, but no second instance is made.
OneAfterStop == late <= 1

\* Once STOP was requested the service thread ends and reports STOPPED, although
\* nothing wakes ServeOne.  It depends on the connected ipc command: it reads
\* its reply, gives up after kIoTimeoutMs or dies, and only then does
\* FlushFileBuffers return.  The report need not be the last one: the handler's
\* own ReportStatus may come after it.
StopCompletes == stopRequested ~> svc = "stopped"

\* Every ipc command ends.
ClientsEnd ==
  \A c \in Clients :
    <>(client[c] \in {"ok", "busy", "no pipe", "disconnected", "timed out", "dead", "misled"})

--------------------------------------------------------------------------------
(***************************************************************************)
(* Statements of the repository's documents that the code does not meet:   *)
(* README.md, "Statements the code does not meet".                         *)
(***************************************************************************)
\* service uninstall has stopped the service when it reports it removed.
UninstallStops == uninstall = "removed" => svc = "stopped"

\* The server ends a client's connection only after the client closed it or
\* after Stop was called.
ServedUntilDisconnect ==
  [][\A c \in Clients : peer = c /\ client[c] = "answered" /\ peer' # c => stopRequested]_vars
================================================================================
