--------------------------- MODULE PipeServiceProofs ---------------------------
(***************************************************************************)
(* Safety of PipeService for every set of ipc commands: the inductive      *)
(* invariant and its proof.                                                *)
(***************************************************************************)
EXTENDS PipeService, TLAPS

(***************************************************************************)
(* The inductive invariant.  A client is connected once, so all that can   *)
(* happen to its request happens between its connection and the end of     *)
(* that instance; the invariant follows the request through ServeOne.      *)
(***************************************************************************)
\* An instance exists only inside ServeOne, and what is under way in it
\* belongs to the client connected to it.
Instance ==
  /\ inst = IF svc \in {"created", "listen", "read", "handle", "write", "flush"} THEN "open" ELSE "none"
  /\ inst = "none" => peer = None
  /\ peer = None => frame = "none"
  /\ svc \in {"handle", "write"} => serving = peer /\ peer # None
  /\ reply # None => svc = "flush" /\ reply = peer

\* The connect thread exists only between its start and the join.
Threads ==
  /\ svc \in {"start", "trust"} => conn = "none"
  /\ svc \in {"ended", "stopped"} => conn # "running"

\* A command that has not connected has no request anywhere.
NotYet(c) ==
  client[c] = "idle" =>
    peer # c /\ handled[c] = 0 /\ c \notin written /\ attempts[c] < kConnectAttempts

\* The request of the connected client has not run before it is handled, and
\* it was sent before it was read.
Connected(c) ==
  peer = c =>
    /\ frame \in {"good", "long"} => client[c] # "open"
    /\ svc \in {"handle", "write"} => client[c] # "open"
    /\ svc \in {"created", "listen", "read", "handle"} => handled[c] = 0
    /\ svc = "write" => handled[c] = 1

\* A reply exists only for a request that ran, and its client still waits for
\* it where it can read it, or has given up.
Answered(c) ==
  /\ c \in written => client[c] \notin {"idle", "open", "disconnected"}
  /\ c \in written /\ client[c] = "sent" => peer = c /\ reply = c
  /\ reply = c => handled[c] = 1
  /\ client[c] \in {"answered", "ok"} => handled[c] = 1
  /\ client[c] # "misled" /\ handled[c] <= 1

\* The request that runs late is the one of the last instance.
LateOnce ==
  /\ late \in {0, 1}
  /\ late = 1 => stopRequested /\ svc \notin {"created", "listen", "read", "handle"}

IndInv ==
  /\ TypeOK /\ Instance /\ Threads /\ LateOnce
  /\ \A c \in Clients : NotYet(c) /\ Connected(c) /\ Answered(c)

--------------------------------------------------------------------------------
\* One more attempt within the limit.
LEMMA OneMoreAttempt ==
  ASSUME NEW n \in 0..kConnectAttempts, n < kConnectAttempts
  PROVE  n + 1 \in 0..kConnectAttempts /\ (n + 1 # kConnectAttempts => n + 1 < kConnectAttempts)
BY AttemptsAssumption

\* At the start there is no instance, no connect thread and no request.
LEMMA InitIndInv == Init => IndInv
<1> SUFFICES ASSUME Init PROVE IndInv
  OBVIOUS
<1> USE DEF Init
<1>1. ServiceTyped
  BY DEF ServiceTyped, States
<1>2. PipeTyped
  BY DEF PipeTyped
<1>3. ClientTyped
  <2>1. 0 \in 0..kConnectAttempts
    BY AttemptsAssumption
  <2> QED BY <2>1 DEF ClientTyped
<1>4. Instance /\ Threads /\ LateOnce
  BY DEF Instance, Threads, LateOnce
<1>5. \A c \in Clients : NotYet(c)
  BY NoneAssumption, AttemptsAssumption DEF NotYet
<1>6. \A c \in Clients : Connected(c)
  BY NoneAssumption DEF Connected
<1>7. ASSUME NEW c \in Clients PROVE Answered(c)
  <2>1. reply # c
    BY NoneAssumption
  <2>2. client[c] = "idle" /\ handled[c] = 0 /\ c \notin written
    OBVIOUS
  <2> QED BY <2>1, <2>2 DEF Answered
<1> QED BY <1>1, <1>2, <1>3, <1>4, <1>5, <1>6, <1>7 DEF IndInv, TypeOK

--------------------------------------------------------------------------------
\* Each step of the service thread keeps the invariant.
LEMMA ServiceStepIndInv ==
  ASSUME IndInv, ServiceStep
  PROVE  IndInv'
<1> USE DEF IndInv, service, pipe, ipc, history, States
<1>1. CASE ServiceMain
  <2> USE <1>1 DEF ServiceMain
  <2>1. ServiceTyped'
    BY DEF TypeOK, ServiceTyped
  <2>2. PipeTyped'
    BY DEF TypeOK, PipeTyped
  <2>3. ClientTyped'
    BY DEF TypeOK, ClientTyped
  <2>4. Instance'
    BY DEF Instance
  <2>5. Threads'
    BY DEF Threads
  <2>6. \A c \in Clients : NotYet(c)'
    BY DEF NotYet
  <2>7. \A c \in Clients : Connected(c)'
    BY DEF Connected
  <2>8. \A c \in Clients : Answered(c)'
    BY DEF Answered
  <2>9. LateOnce'
    BY DEF LateOnce
  <2> QED BY <2>1, <2>2, <2>3, <2>4, <2>5, <2>6, <2>7, <2>8, <2>9 DEF TypeOK
<1>2. CASE StartRefused
  <2> USE <1>2 DEF StartRefused
  <2>1. ServiceTyped'
    BY DEF TypeOK, ServiceTyped
  <2>2. PipeTyped'
    BY DEF TypeOK, PipeTyped
  <2>3. ClientTyped'
    BY DEF TypeOK, ClientTyped
  <2>4. Instance'
    BY DEF Instance
  <2>5. Threads'
    BY DEF Threads
  <2>6. \A c \in Clients : NotYet(c)'
    BY DEF NotYet
  <2>7. \A c \in Clients : Connected(c)'
    BY DEF Connected
  <2>8. \A c \in Clients : Answered(c)'
    BY DEF Answered
  <2>9. LateOnce'
    BY DEF LateOnce
  <2> QED BY <2>1, <2>2, <2>3, <2>4, <2>5, <2>6, <2>7, <2>8, <2>9 DEF TypeOK
<1>3. CASE StartConnectThread
  <2> USE <1>3 DEF StartConnectThread
  <2>1. ServiceTyped'
    BY DEF TypeOK, ServiceTyped
  <2>2. PipeTyped'
    BY DEF TypeOK, PipeTyped
  <2>3. ClientTyped'
    BY DEF TypeOK, ClientTyped
  <2>4. Instance'
    BY DEF Instance
  <2>5. Threads'
    BY DEF Threads
  <2>6. \A c \in Clients : NotYet(c)'
    BY DEF NotYet
  <2>7. \A c \in Clients : Connected(c)'
    BY DEF Connected
  <2>8. \A c \in Clients : Answered(c)'
    BY DEF Answered
  <2>9. LateOnce'
    BY DEF LateOnce
  <2> QED BY <2>1, <2>2, <2>3, <2>4, <2>5, <2>6, <2>7, <2>8, <2>9 DEF TypeOK
<1>4. CASE CreateNamedPipe
  <2> USE <1>4 DEF CreateNamedPipe
  <2>1. ServiceTyped'
    BY DEF TypeOK, ServiceTyped
  <2>2. PipeTyped'
    BY DEF TypeOK, PipeTyped
  <2>3. ClientTyped'
    BY DEF TypeOK, ClientTyped
  <2>4. Instance'
    BY DEF Instance
  <2>5. Threads'
    BY DEF Threads
  <2>6. \A c \in Clients : NotYet(c)'
    BY DEF NotYet, TypeOK, ClientTyped, Instance
  <2>7. \A c \in Clients : Connected(c)'
    BY NoneAssumption DEF Connected, TypeOK, PipeTyped, ClientTyped, Instance, NotYet
  <2>8. \A c \in Clients : Answered(c)'
    BY DEF Answered, TypeOK, ClientTyped, Instance
  <2>9. LateOnce'
    BY DEF LateOnce
  <2> QED BY <2>1, <2>2, <2>3, <2>4, <2>5, <2>6, <2>7, <2>8, <2>9 DEF TypeOK
<1>5. CASE LoopEnds
  <2> USE <1>5 DEF LoopEnds
  <2>1. ServiceTyped'
    BY DEF TypeOK, ServiceTyped
  <2>2. PipeTyped'
    BY DEF TypeOK, PipeTyped
  <2>3. ClientTyped'
    BY DEF TypeOK, ClientTyped
  <2>4. Instance'
    BY DEF Instance
  <2>5. Threads'
    BY DEF Threads
  <2>6. \A c \in Clients : NotYet(c)'
    BY DEF NotYet
  <2>7. \A c \in Clients : Connected(c)'
    BY DEF Connected
  <2>8. \A c \in Clients : Answered(c)'
    BY DEF Answered
  <2>9. LateOnce'
    BY DEF LateOnce
  <2> QED BY <2>1, <2>2, <2>3, <2>4, <2>5, <2>6, <2>7, <2>8, <2>9 DEF TypeOK
<1>6. CASE AcceptStep
  <2> USE <1>6 DEF AcceptStep, Accept
  <2>1. ServiceTyped'
    BY DEF TypeOK, ServiceTyped
  <2>2. PipeTyped'
    BY DEF TypeOK, PipeTyped
  <2>3. ClientTyped'
    BY DEF TypeOK, ClientTyped
  <2>4. Instance'
    BY DEF Instance
  <2>5. Threads'
    BY DEF Threads
  <2>6. \A c \in Clients : NotYet(c)'
    BY DEF NotYet
  <2>7. \A c \in Clients : Connected(c)'
    BY DEF Connected
  <2>8. \A c \in Clients : Answered(c)'
    BY DEF Answered
  <2>9. LateOnce'
    BY DEF LateOnce
  <2> QED BY <2>1, <2>2, <2>3, <2>4, <2>5, <2>6, <2>7, <2>8, <2>9 DEF TypeOK
<1>7. CASE ReadRequest
  <2> USE <1>7 DEF ReadRequest
  <2>1. ServiceTyped'
    BY DEF TypeOK, ServiceTyped
  <2>2. PipeTyped'
    BY DEF TypeOK, PipeTyped
  <2>3. ClientTyped'
    BY DEF TypeOK, ClientTyped
  <2>4. Instance'
    BY DEF Instance
  <2>5. Threads'
    BY DEF Threads
  <2>6. \A c \in Clients : NotYet(c)'
    BY DEF NotYet
  <2>7. \A c \in Clients : Connected(c)'
    BY DEF Connected
  <2>8. \A c \in Clients : Answered(c)'
    BY DEF Answered
  <2>9. LateOnce'
    BY DEF LateOnce
  <2> QED BY <2>1, <2>2, <2>3, <2>4, <2>5, <2>6, <2>7, <2>8, <2>9 DEF TypeOK
<1>8. CASE ReadFails
  <2> USE <1>8 DEF ReadFails, ClientOpen
  <2>1. ServiceTyped'
    BY DEF TypeOK, ServiceTyped
  <2>2. PipeTyped'
    BY DEF TypeOK, PipeTyped
  <2>3. ClientTyped'
    BY DEF TypeOK, ClientTyped
  <2>4. Instance'
    BY DEF Instance
  <2>5. Threads'
    BY DEF Threads
  <2>6. \A c \in Clients : NotYet(c)'
    BY DEF NotYet
  <2>7. \A c \in Clients : Connected(c)'
    BY DEF Connected
  <2>8. \A c \in Clients : Answered(c)'
    BY DEF Answered
  <2>9. LateOnce'
    BY DEF LateOnce
  <2> QED BY <2>1, <2>2, <2>3, <2>4, <2>5, <2>6, <2>7, <2>8, <2>9 DEF TypeOK
<1>9. CASE ConnectNamedPipe
  <2> USE <1>9 DEF ConnectNamedPipe
  <2>1. ServiceTyped'
    BY DEF TypeOK, ServiceTyped
  <2>2. PipeTyped'
    BY DEF TypeOK, PipeTyped
  <2>3. ClientTyped'
    BY DEF TypeOK, ClientTyped
  <2>4. Instance'
    BY DEF Instance
  <2>5. Threads'
    BY DEF Threads
  <2>6. \A c \in Clients : NotYet(c)'
    BY DEF NotYet
  <2>7. \A c \in Clients : Connected(c)'
    BY DEF Connected
  <2>8. \A c \in Clients : Answered(c)'
    BY DEF Answered
  <2>9. LateOnce'
    BY DEF LateOnce
  <2> QED BY <2>1, <2>2, <2>3, <2>4, <2>5, <2>6, <2>7, <2>8, <2>9 DEF TypeOK
<1>10. CASE Handle
  <2> USE <1>10 DEF Handle
  <2>a. /\ serving \in Clients /\ serving = peer /\ handled[serving] = 0
        /\ client[serving] \notin {"idle", "answered", "ok", "misled"}
    BY DEF TypeOK, PipeTyped, Instance, Connected, NotYet, Answered
  <2>b. /\ handled'[serving] = 1
        /\ \A c \in Clients \ {serving} : handled'[c] = handled[c]
        /\ UNCHANGED <<client, written, peer, reply, frame>>
    <3>1. handled \in [Clients -> Nat]
      BY DEF TypeOK, ClientTyped
    <3>2. handled' = [handled EXCEPT ![serving] = 1]
      BY <2>a
    <3> QED BY <2>a, <3>1, <3>2
  <2>1. ServiceTyped'
    BY DEF TypeOK, ServiceTyped
  <2>2. PipeTyped'
    BY DEF TypeOK, PipeTyped
  <2>3. ClientTyped'
    <3>1. handled \in [Clients -> Nat]
      BY DEF TypeOK, ClientTyped
    <3>2. handled' = [handled EXCEPT ![serving] = 1]
      BY <2>a
    <3>3. handled' \in [Clients -> Nat]
      BY <2>a, <3>1, <3>2
    <3>4. late' \in Nat
      BY DEF LateOnce
    <3> QED BY <3>3, <3>4 DEF TypeOK, ClientTyped
  <2>4. Instance'
    BY NoneAssumption DEF Instance, TypeOK, PipeTyped
  <2>5. Threads'
    BY DEF Threads
  <2>6. \A c \in Clients : NotYet(c)'
    BY DEF NotYet, TypeOK, ClientTyped, Instance
  <2>7. \A c \in Clients : Connected(c)'
    BY <2>a, <2>b DEF Connected
  <2>8. \A c \in Clients : Answered(c)'
    BY <2>a, <2>b DEF Answered, Instance
  <2>9. LateOnce'
    BY DEF LateOnce
  <2> QED BY <2>1, <2>2, <2>3, <2>4, <2>5, <2>6, <2>7, <2>8, <2>9 DEF TypeOK
<1>11. CASE WriteReply
  <2> USE <1>11 DEF WriteReply, ClientOpen
  <2>1. ServiceTyped'
    BY DEF TypeOK, ServiceTyped
  <2>2. PipeTyped'
    BY DEF TypeOK, PipeTyped
  <2>3. ClientTyped'
    <3>1. serving \in Clients
      BY DEF TypeOK, PipeTyped, Instance
    <3> QED BY <3>1 DEF TypeOK, ClientTyped
  <2>4. Instance'
    BY NoneAssumption DEF Instance, TypeOK, PipeTyped
  <2>5. Threads'
    BY DEF Threads
  <2>6. \A c \in Clients : NotYet(c)'
    BY DEF NotYet, TypeOK, ClientTyped, Instance
  <2>7. \A c \in Clients : Connected(c)'
    BY DEF Connected, TypeOK, ClientTyped, Instance
  <2>8. \A c \in Clients : Answered(c)'
    <3>1. /\ serving = peer /\ peer \in Clients /\ handled[peer] = 1 /\ reply = None
          /\ client[peer] \notin {"idle", "open"} /\ UNCHANGED <<client, peer, handled>>
      BY DEF TypeOK, PipeTyped, Instance, Connected, NotYet
    <3>2. CASE ClientOpen(peer) /\ reply' = serving /\ written' = written \cup {serving}
      <4>1. client[peer] \in {"sent", "answered"}
        BY <3>1, <3>2
      <4>2. ASSUME NEW c \in Clients, c # peer PROVE Answered(c)'
        BY <3>1, <3>2, <4>2 DEF Answered
      <4>3. Answered(peer)'
        BY <3>1, <3>2, <4>1 DEF Answered
      <4> QED BY <4>2, <4>3
    <3>3. CASE UNCHANGED <<reply, written>>
      BY <3>1, <3>3 DEF Answered
    <3> QED BY <3>2, <3>3
  <2>9. LateOnce'
    BY DEF LateOnce
  <2> QED BY <2>1, <2>2, <2>3, <2>4, <2>5, <2>6, <2>7, <2>8, <2>9 DEF TypeOK
<1>12. CASE DisconnectNamedPipe
  <2> USE <1>12 DEF DisconnectNamedPipe, FlushFileBuffers, Recycle, ClientOpen
  <2>1. ServiceTyped'
    BY DEF TypeOK, ServiceTyped
  <2>2. PipeTyped'
    BY DEF TypeOK, PipeTyped
  <2>3. ClientTyped'
    BY DEF TypeOK, ClientTyped
  <2>4. Instance'
    BY DEF Instance
  <2>5. Threads'
    BY DEF Threads
  <2>6. \A c \in Clients : NotYet(c)'
    BY NoneAssumption DEF NotYet, TypeOK, PipeTyped, ClientTyped, Instance, Connected
  <2>7. \A c \in Clients : Connected(c)'
    BY DEF Connected
  <2>8. \A c \in Clients : Answered(c)'
    BY NoneAssumption DEF Answered, TypeOK, PipeTyped, ClientTyped, Instance,
         Connected, NotYet
  <2>9. LateOnce'
    BY DEF LateOnce
  <2> QED BY <2>1, <2>2, <2>3, <2>4, <2>5, <2>6, <2>7, <2>8, <2>9 DEF TypeOK
<1>13. CASE Stop
  <2> USE <1>13 DEF Stop
  <2>1. ServiceTyped'
    BY DEF TypeOK, ServiceTyped
  <2>2. PipeTyped'
    BY DEF TypeOK, PipeTyped
  <2>3. ClientTyped'
    BY DEF TypeOK, ClientTyped
  <2>4. Instance'
    BY DEF Instance
  <2>5. Threads'
    BY DEF Threads
  <2>6. \A c \in Clients : NotYet(c)'
    BY DEF NotYet
  <2>7. \A c \in Clients : Connected(c)'
    BY DEF Connected
  <2>8. \A c \in Clients : Answered(c)'
    BY DEF Answered
  <2>9. LateOnce'
    BY DEF LateOnce
  <2> QED BY <2>1, <2>2, <2>3, <2>4, <2>5, <2>6, <2>7, <2>8, <2>9 DEF TypeOK
<1>14. CASE DisconnectSession
  <2> USE <1>14 DEF DisconnectSession, Join
  <2>1. ServiceTyped'
    BY DEF TypeOK, ServiceTyped
  <2>2. PipeTyped'
    BY DEF TypeOK, PipeTyped
  <2>3. ClientTyped'
    BY DEF TypeOK, ClientTyped
  <2>4. Instance'
    BY DEF Instance
  <2>5. Threads'
    BY DEF Threads
  <2>6. \A c \in Clients : NotYet(c)'
    BY DEF NotYet
  <2>7. \A c \in Clients : Connected(c)'
    BY DEF Connected
  <2>8. \A c \in Clients : Answered(c)'
    BY DEF Answered
  <2>9. LateOnce'
    BY DEF LateOnce
  <2> QED BY <2>1, <2>2, <2>3, <2>4, <2>5, <2>6, <2>7, <2>8, <2>9 DEF TypeOK
<1>15. CASE ReportStopped
  <2> USE <1>15 DEF ReportStopped
  <2>1. ServiceTyped'
    BY DEF TypeOK, ServiceTyped
  <2>2. PipeTyped'
    BY DEF TypeOK, PipeTyped
  <2>3. ClientTyped'
    BY DEF TypeOK, ClientTyped
  <2>4. Instance'
    BY DEF Instance
  <2>5. Threads'
    BY DEF Threads
  <2>6. \A c \in Clients : NotYet(c)'
    BY DEF NotYet
  <2>7. \A c \in Clients : Connected(c)'
    BY DEF Connected
  <2>8. \A c \in Clients : Answered(c)'
    BY DEF Answered
  <2>9. LateOnce'
    BY DEF LateOnce
  <2> QED BY <2>1, <2>2, <2>3, <2>4, <2>5, <2>6, <2>7, <2>8, <2>9 DEF TypeOK
<1>16. CASE ConnectNamedPipeFails
  <2> USE <1>16 DEF ConnectNamedPipeFails, Recycle
  <2>1. ServiceTyped'
    BY DEF TypeOK, ServiceTyped
  <2>2. PipeTyped'
    BY DEF TypeOK, PipeTyped
  <2>3. ClientTyped'
    BY DEF TypeOK, ClientTyped
  <2>4. Instance'
    BY DEF Instance
  <2>5. Threads'
    BY DEF Threads
  <2>6. \A c \in Clients : NotYet(c)'
    BY NoneAssumption DEF NotYet, TypeOK, PipeTyped, ClientTyped, Instance, Connected
  <2>7. \A c \in Clients : Connected(c)'
    BY DEF Connected
  <2>8. \A c \in Clients : Answered(c)'
    BY NoneAssumption DEF Answered, TypeOK, PipeTyped, ClientTyped, Instance,
         Connected, NotYet
  <2>9. LateOnce'
    BY DEF LateOnce
  <2> QED BY <2>1, <2>2, <2>3, <2>4, <2>5, <2>6, <2>7, <2>8, <2>9 DEF TypeOK
<1> QED BY <1>1, <1>2, <1>3, <1>4, <1>5, <1>6, <1>7, <1>8, <1>9, <1>10, <1>11, <1>12, <1>13,
           <1>14, <1>15, <1>16
        DEF ServiceStep

\* The connect thread, the control handler and an uninstall keep the invariant.
LEMMA OtherStepsIndInv ==
  ASSUME IndInv, ConnectThreadEnds \/ ServiceControlHandler \/ Uninstall
  PROVE  IndInv'
<1> USE DEF IndInv, pipe, ipc, history, States
<1>1. CASE ConnectThreadEnds
  <2> USE <1>1 DEF ConnectThreadEnds
  <2>1. ServiceTyped'
    BY DEF TypeOK, ServiceTyped
  <2>2. PipeTyped'
    BY DEF TypeOK, PipeTyped
  <2>3. ClientTyped'
    BY DEF TypeOK, ClientTyped
  <2>4. Instance'
    BY DEF Instance
  <2>5. Threads'
    BY DEF Threads
  <2>6. \A c \in Clients : NotYet(c)'
    BY DEF NotYet
  <2>7. \A c \in Clients : Connected(c)'
    BY DEF Connected
  <2>8. \A c \in Clients : Answered(c)'
    BY DEF Answered
  <2>9. LateOnce'
    BY DEF LateOnce
  <2> QED BY <2>1, <2>2, <2>3, <2>4, <2>5, <2>6, <2>7, <2>8, <2>9 DEF TypeOK
<1>2. CASE HandleStop
  <2> USE <1>2 DEF HandleStop, ControlStop
  <2>1. ServiceTyped'
    BY DEF TypeOK, ServiceTyped
  <2>2. PipeTyped'
    BY DEF TypeOK, PipeTyped
  <2>3. ClientTyped'
    BY DEF TypeOK, ClientTyped
  <2>4. Instance'
    BY DEF Instance
  <2>5. Threads'
    BY DEF Threads
  <2>6. \A c \in Clients : NotYet(c)'
    BY DEF NotYet
  <2>7. \A c \in Clients : Connected(c)'
    BY DEF Connected
  <2>8. \A c \in Clients : Answered(c)'
    BY DEF Answered
  <2>9. LateOnce'
    BY DEF LateOnce
  <2> QED BY <2>1, <2>2, <2>3, <2>4, <2>5, <2>6, <2>7, <2>8, <2>9 DEF TypeOK
<1>3. CASE Uninstall
  <2> USE <1>3 DEF Uninstall, ControlStop
  <2>1. ServiceTyped'
    BY DEF TypeOK, ServiceTyped
  <2>2. PipeTyped'
    BY DEF TypeOK, PipeTyped
  <2>3. ClientTyped'
    BY DEF TypeOK, ClientTyped
  <2>4. Instance'
    BY DEF Instance
  <2>5. Threads'
    BY DEF Threads
  <2>6. \A c \in Clients : NotYet(c)'
    BY DEF NotYet
  <2>7. \A c \in Clients : Connected(c)'
    BY DEF Connected
  <2>8. \A c \in Clients : Answered(c)'
    BY DEF Answered
  <2>9. LateOnce'
    BY DEF LateOnce
  <2> QED BY <2>1, <2>2, <2>3, <2>4, <2>5, <2>6, <2>7, <2>8, <2>9 DEF TypeOK
<1>4. CASE HandleInterrogate
  <2> USE <1>4 DEF HandleInterrogate
  <2>1. ServiceTyped'
    BY DEF TypeOK, ServiceTyped
  <2>2. PipeTyped'
    BY DEF TypeOK, PipeTyped
  <2>3. ClientTyped'
    BY DEF TypeOK, ClientTyped
  <2>4. Instance'
    BY DEF Instance
  <2>5. Threads'
    BY DEF Threads
  <2>6. \A c \in Clients : NotYet(c)'
    BY DEF NotYet
  <2>7. \A c \in Clients : Connected(c)'
    BY DEF Connected
  <2>8. \A c \in Clients : Answered(c)'
    BY DEF Answered
  <2>9. LateOnce'
    BY DEF LateOnce
  <2> QED BY <2>1, <2>2, <2>3, <2>4, <2>5, <2>6, <2>7, <2>8, <2>9 DEF TypeOK
<1>5. CASE ReportStatus
  <2> USE <1>5 DEF ReportStatus
  <2>1. ServiceTyped'
    BY DEF TypeOK, ServiceTyped
  <2>2. PipeTyped'
    BY DEF TypeOK, PipeTyped
  <2>3. ClientTyped'
    BY DEF TypeOK, ClientTyped
  <2>4. Instance'
    BY DEF Instance
  <2>5. Threads'
    BY DEF Threads
  <2>6. \A c \in Clients : NotYet(c)'
    BY DEF NotYet
  <2>7. \A c \in Clients : Connected(c)'
    BY DEF Connected
  <2>8. \A c \in Clients : Answered(c)'
    BY DEF Answered
  <2>9. LateOnce'
    BY DEF LateOnce
  <2> QED BY <2>1, <2>2, <2>3, <2>4, <2>5, <2>6, <2>7, <2>8, <2>9 DEF TypeOK
<1> QED BY <1>1, <1>2, <1>3, <1>4, <1>5 DEF ServiceControlHandler

--------------------------------------------------------------------------------
\* Each step of an ipc command keeps the invariant.
LEMMA ClientIndInv ==
  ASSUME IndInv, NEW d \in Clients, ClientStep(d) \/ ClientDies(d)
  PROVE  IndInv'
<1> USE DEF IndInv, service, pipe, history, States
<1>1. CASE ClientConnect(d)
  <2> USE <1>1 DEF ClientConnect, Becomes
  <2>a. /\ attempts[d] \in 0..kConnectAttempts /\ attempts[d] < kConnectAttempts
        /\ UNCHANGED <<handled, written, kind>>
    BY DEF TypeOK, ClientTyped, NotYet
  <2>b. \/ client' = [client EXCEPT ![d] = "open"] /\ peer' = d /\ attempts' = attempts
        \/ /\ client' = [client EXCEPT ![d] = "no pipe"] /\ peer' = peer /\ attempts' = attempts
        \/ /\ attempts' = [attempts EXCEPT ![d] = attempts[d] + 1] /\ peer' = peer
           /\ client' = [client EXCEPT ![d] = "busy"]
        \/ /\ attempts' = [attempts EXCEPT ![d] = attempts[d] + 1] /\ peer' = peer
           /\ client' = [client EXCEPT ![d] = "idle"]
           /\ attempts[d] + 1 # kConnectAttempts
    OBVIOUS
  <2>1. ServiceTyped'
    BY DEF TypeOK, ServiceTyped
  <2>2. PipeTyped'
    BY DEF TypeOK, PipeTyped
  <2>3. ClientTyped'
    <3>1. attempts[d] + 1 \in 0..kConnectAttempts
      BY <2>a, OneMoreAttempt
    <3>2. attempts' \in [Clients -> 0..kConnectAttempts]
      BY <2>b, <3>1 DEF TypeOK, ClientTyped
    <3>3. client' \in [Clients -> {"idle", "open", "sent", "answered", "ok", "busy", "no pipe",
                                   "disconnected", "timed out", "dead", "misled"}]
      BY <2>b DEF TypeOK, ClientTyped
    <3> QED BY <2>a, <3>2, <3>3 DEF TypeOK, ClientTyped
  <2>4. Instance'
    <3>1. /\ UNCHANGED <<svc, serving, inst, frame, reply>>
          /\ peer' = peer \/ (peer' = d /\ peer = None /\ inst = "open")
      OBVIOUS
    <3>2. d # None
      BY NoneAssumption
    <3>3. CASE peer' = peer
      BY <3>1, <3>3 DEF Instance
    <3>4. CASE peer' = d /\ peer = None /\ inst = "open"
      BY <3>1, <3>2, <3>4 DEF Instance
    <3> QED BY <3>1, <3>3, <3>4
  <2>5. Threads'
    BY DEF Threads
  <2>6. \A c \in Clients : NotYet(c)'
    <3> SUFFICES ASSUME NEW c \in Clients, client'[c] = "idle"
                 PROVE  /\ peer' # c /\ handled'[c] = 0 /\ c \notin written'
                        /\ attempts'[c] < kConnectAttempts
      BY DEF NotYet
    <3>1. CASE c # d
      <4>1. client'[c] = client[c] /\ attempts'[c] = attempts[c] /\ peer' \in {peer, d}
        BY <2>b, <3>1 DEF TypeOK, ClientTyped
      <4> QED BY <2>a, <3>1, <4>1 DEF NotYet
    <3>2. CASE c = d
      <4>1. /\ peer' = peer /\ attempts[d] + 1 # kConnectAttempts
            /\ attempts'[d] = attempts[d] + 1
        BY <2>b, <3>2 DEF TypeOK, ClientTyped
      <4>2. attempts'[d] < kConnectAttempts
        BY <2>a, <4>1, OneMoreAttempt
      <4> QED BY <2>a, <3>2, <4>1, <4>2 DEF NotYet
    <3> QED BY <3>1, <3>2
  <2>7. \A c \in Clients : Connected(c)'
    BY NoneAssumption DEF Connected, TypeOK, PipeTyped, ClientTyped, Instance, NotYet
  <2>8. \A c \in Clients : Answered(c)'
    <3> SUFFICES ASSUME NEW c \in Clients PROVE Answered(c)'
      OBVIOUS
    <3>1. CASE c # d
      <4>1. client'[c] = client[c] /\ peer' \in {peer, d} /\ (peer' # peer => peer = None)
        BY <2>b, <3>1 DEF TypeOK, ClientTyped
      <4>2. c \in written /\ client[c] = "sent" => peer = c
        BY DEF Answered
      <4> QED BY <2>a, <3>1, <4>1, <4>2, NoneAssumption DEF Answered
    <3>2. CASE c = d
      <4>1. client'[d] \in {"open", "no pipe", "busy", "idle"}
        BY <2>b DEF TypeOK, ClientTyped
      <4>2. handled[d] = 0 /\ d \notin written /\ peer # d
        BY DEF NotYet
      <4>3. reply # d
        BY <4>2, NoneAssumption DEF Instance
      <4> QED BY <2>a, <3>2, <4>1, <4>2, <4>3 DEF Answered
    <3> QED BY <3>1, <3>2
  <2>9. LateOnce'
    BY DEF LateOnce
  <2> QED BY <2>1, <2>2, <2>3, <2>4, <2>5, <2>6, <2>7, <2>8, <2>9 DEF TypeOK
<1>2. CASE ClientSend(d)
  <2> USE <1>2 DEF ClientSend, Becomes
  <2>1. ServiceTyped'
    BY DEF TypeOK, ServiceTyped
  <2>2. PipeTyped'
    BY DEF TypeOK, PipeTyped
  <2>3. ClientTyped'
    BY DEF TypeOK, ClientTyped
  <2>4. Instance'
    BY NoneAssumption DEF Instance, TypeOK, PipeTyped
  <2>5. Threads'
    BY DEF Threads
  <2>6. \A c \in Clients : NotYet(c)'
    BY DEF NotYet, TypeOK, ClientTyped
  <2>7. \A c \in Clients : Connected(c)'
    BY DEF Connected, TypeOK, ClientTyped
  <2>8. \A c \in Clients : Answered(c)'
    BY DEF Answered, TypeOK, ClientTyped
  <2>9. LateOnce'
    BY DEF LateOnce
  <2> QED BY <2>1, <2>2, <2>3, <2>4, <2>5, <2>6, <2>7, <2>8, <2>9 DEF TypeOK
<1>3. CASE ClientRead(d)
  <2> USE <1>3 DEF ClientRead, Becomes
  <2>1. ServiceTyped'
    BY DEF TypeOK, ServiceTyped
  <2>2. PipeTyped'
    BY DEF TypeOK, PipeTyped
  <2>3. ClientTyped'
    BY DEF TypeOK, ClientTyped
  <2>4. Instance'
    BY DEF Instance
  <2>5. Threads'
    BY DEF Threads
  <2>6. \A c \in Clients : NotYet(c)'
    BY DEF NotYet, TypeOK, ClientTyped
  <2>7. \A c \in Clients : Connected(c)'
    BY DEF Connected, TypeOK, ClientTyped
  <2>8. \A c \in Clients : Answered(c)'
    BY NoneAssumption DEF Answered, TypeOK, PipeTyped, ClientTyped, Instance,
         Connected, NotYet
  <2>9. LateOnce'
    BY DEF LateOnce
  <2> QED BY <2>1, <2>2, <2>3, <2>4, <2>5, <2>6, <2>7, <2>8, <2>9 DEF TypeOK
<1>4. CASE ClientTimesOut(d)
  <2> USE <1>4 DEF ClientTimesOut, Becomes
  <2>1. ServiceTyped'
    BY DEF TypeOK, ServiceTyped
  <2>2. PipeTyped'
    BY DEF TypeOK, PipeTyped
  <2>3. ClientTyped'
    BY DEF TypeOK, ClientTyped
  <2>4. Instance'
    BY DEF Instance
  <2>5. Threads'
    BY DEF Threads
  <2>6. \A c \in Clients : NotYet(c)'
    BY DEF NotYet, TypeOK, ClientTyped
  <2>7. \A c \in Clients : Connected(c)'
    BY DEF Connected, TypeOK, ClientTyped
  <2>8. \A c \in Clients : Answered(c)'
    BY DEF Answered, TypeOK, ClientTyped
  <2>9. LateOnce'
    BY DEF LateOnce
  <2> QED BY <2>1, <2>2, <2>3, <2>4, <2>5, <2>6, <2>7, <2>8, <2>9 DEF TypeOK
<1>5. CASE ClientClose(d)
  <2> USE <1>5 DEF ClientClose, Becomes
  <2>1. ServiceTyped'
    BY DEF TypeOK, ServiceTyped
  <2>2. PipeTyped'
    BY DEF TypeOK, PipeTyped
  <2>3. ClientTyped'
    BY DEF TypeOK, ClientTyped
  <2>4. Instance'
    BY DEF Instance
  <2>5. Threads'
    BY DEF Threads
  <2>6. \A c \in Clients : NotYet(c)'
    BY DEF NotYet
  <2>7. \A c \in Clients : Connected(c)'
    BY DEF Connected
  <2>8. \A c \in Clients : Answered(c)'
    BY DEF Answered
  <2>9. LateOnce'
    BY DEF LateOnce
  <2> QED BY <2>1, <2>2, <2>3, <2>4, <2>5, <2>6, <2>7, <2>8, <2>9 DEF TypeOK
<1>6. CASE ClientDies(d)
  <2> USE <1>6 DEF ClientDies, Becomes
  <2>1. ServiceTyped'
    BY DEF TypeOK, ServiceTyped
  <2>2. PipeTyped'
    BY DEF TypeOK, PipeTyped
  <2>3. ClientTyped'
    BY DEF TypeOK, ClientTyped
  <2>4. Instance'
    BY NoneAssumption DEF Instance, TypeOK, PipeTyped
  <2>5. Threads'
    BY DEF Threads
  <2>6. \A c \in Clients : NotYet(c)'
    BY DEF NotYet
  <2>7. \A c \in Clients : Connected(c)'
    BY DEF Connected
  <2>8. \A c \in Clients : Answered(c)'
    BY DEF Answered
  <2>9. LateOnce'
    BY DEF LateOnce
  <2> QED BY <2>1, <2>2, <2>3, <2>4, <2>5, <2>6, <2>7, <2>8, <2>9 DEF TypeOK
<1> QED BY <1>1, <1>2, <1>3, <1>4, <1>5, <1>6
        DEF ClientStep

--------------------------------------------------------------------------------
\* Every behaviour of the service and its clients keeps the inductive invariant.
THEOREM ServiceInvariant == Spec => []IndInv
<1>1. IndInv /\ UNCHANGED vars => IndInv'
  <2> SUFFICES ASSUME IndInv, UNCHANGED vars PROVE IndInv'
    OBVIOUS
  <2> USE DEF IndInv, vars
  <2>1. ServiceTyped'
    BY DEF TypeOK, ServiceTyped
  <2>2. PipeTyped'
    BY DEF TypeOK, PipeTyped
  <2>3. ClientTyped'
    BY DEF TypeOK, ClientTyped
  <2>4. Instance'
    BY DEF Instance
  <2>5. Threads'
    BY DEF Threads
  <2>6. \A c \in Clients : NotYet(c)'
    BY DEF NotYet
  <2>7. \A c \in Clients : Connected(c)'
    BY DEF Connected
  <2>8. \A c \in Clients : Answered(c)'
    BY DEF Answered
  <2>9. LateOnce'
    BY DEF LateOnce
  <2> QED BY <2>1, <2>2, <2>3, <2>4, <2>5, <2>6, <2>7, <2>8, <2>9 DEF TypeOK
<1>2. IndInv /\ [Next]_vars => IndInv'
  BY <1>1, ServiceStepIndInv, OtherStepsIndInv, ClientIndInv DEF Next
<1> QED BY InitIndInv, <1>2, PTL DEF Spec

\* The service, its pipe instance and the ipc commands keep their types
\* (ServeLoop, PipeServer, PipeClient).
THEOREM ServiceTypeCorrect == Spec => []TypeOK
BY ServiceInvariant, PTL DEF IndInv

\* With any number of ipc commands that time out, die or find the pipe busy, a
\* client is answered only with the reply to its own request, and no request runs
\* in the service twice (PipeClient::Exchange, RunIpc, ServeOne).
THEOREM AlwaysOwnAnswerOnce == Spec => []OwnAnswerOnce
<1>1. IndInv => OwnAnswerOnce
  BY DEF IndInv, OwnAnswerOnce, Answered
<1> QED BY <1>1, ServiceInvariant, PTL

\* A reply ServeOne has written reaches its client unless the client gave up.
THEOREM WrittenReplyAlwaysArrives == Spec => []WrittenReplyArrives
<1>1. IndInv => WrittenReplyArrives
  BY DEF IndInv, WrittenReplyArrives, Answered, TypeOK, ClientTyped
<1> QED BY <1>1, ServiceInvariant, PTL

\* At most one request runs after STOP was requested, whenever it comes (ServeLoop).
THEOREM AtMostOneAfterStop == Spec => []OneAfterStop
<1>1. IndInv => OneAfterStop
  BY DEF IndInv, OneAfterStop, LateOnce
<1> QED BY <1>1, ServiceInvariant, PTL

\* The service thread tears the session down only after the connect thread has
\* ended and with no pipe instance left (ServeLoop).
THEOREM AlwaysTeardownAlone == Spec => []TeardownAlone
<1>1. IndInv => TeardownAlone
  BY DEF IndInv, TeardownAlone, Instance, Threads
<1> QED BY <1>1, ServiceInvariant, PTL
================================================================================
