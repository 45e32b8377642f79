---------------------------- MODULE ClientRegistry -----------------------------
(***************************************************************************)
(* Several esptool processes sharing the driver's registry of clients.     *)
(*                                                                         *)
(* Each process runs one command.  "rules" (and monitor, which prepares    *)
(* its session the same way) and "persist" first release leftover clients  *)
(* (CleanOrphanClients: enumerate, probe each id by connecting to it,      *)
(* unregister the ones without persistent rules), then register and        *)
(* connect a client of their own, install their document, disconnect, and  *)
(* unregister what they registered; persist-rules keeps its client when    *)
(* the driver lists a persistent rule.  "unregister" is unregister --all.  *)
(* Every call into the driver is a step of its own, so the steps of the    *)
(* processes interleave between any two calls.                             *)
(*                                                                         *)
(* The driver is external: a client is registered under an id and an       *)
(* altitude, at most one session is connected to it, a connect needs a     *)
(* registered client without a session, an unregister a client without a   *)
(* session, and a process that dies loses its sessions and nothing else.   *)
(***************************************************************************)
EXTENDS Integers, FiniteSets

CONSTANTS
  Procs,          \* esptool processes
  Ids,            \* client GUIDs
  None,           \* no process
  Commands,       \* subset of {"rules", "persist", "unregister"}
  FreshOptions,   \* values of --fresh the commands are started with
  Tries,          \* kAltitudeCollisionTries
  MayPersist,     \* a document of the rules command may hold persistent rules
  Faults,         \* a call into the driver may fail for no modelled reason
  Crashes         \* a process may die between two calls

ASSUME NoneAssumption    == None \notin Procs
ASSUME TriesAssumption   == Tries \in Nat \ {0}
ASSUME CommandAssumption == Commands \subseteq {"rules", "persist", "unregister"}
ASSUME FlagAssumption    == /\ FreshOptions \subseteq BOOLEAN
                            /\ {MayPersist, Faults, Crashes} \subseteq BOOLEAN

VARIABLES
  registered,   \* driver: ids in the client table
  altitude,     \* driver: altitude slot of each registered id
  owner,        \* driver: the process whose session is connected to an id
  persistent,   \* driver: ids that hold persistent rules
  cmd, fresh,   \* command line of each process
  id,           \* client id of each process (EspSession::client_id_)
  pc,           \* next call of each process
  todo, cur,    \* ids still to release, id being probed or released
  attempt,      \* altitude attempt of EspSession::Connect
  owned,        \* EspSession::registered_this_session_
  keep,         \* not EspSession::unregister_on_disconnect_
  code,         \* exit code: 0, 1, or -1 while running
  seeded        \* history: clients with persistent rules at the start

driver  == <<registered, altitude, owner, persistent>>
session == <<attempt, owned, keep, code>>
vars == <<registered, altitude, owner, persistent, cmd, fresh, id, pc, todo, cur,
          attempt, owned, keep, code, seeded>>

(***************************************************************************)
(* The driver's answers.                                                   *)
(***************************************************************************)
Connectable(i)    == i \in registered /\ owner[i] = None
Unregisterable(i) == i \in registered /\ owner[i] = None
Collides(i, slot) == i \in registered \/ \E j \in registered : altitude[j] = slot

\* A call may fail although the driver's state allows it.
MayFail(possible) == ~possible \/ Faults

RemoveClient(i) ==
  /\ registered' = registered \ {i}
  /\ persistent' = persistent \ {i}
  /\ UNCHANGED <<altitude, owner>>

Goto(p, label) == pc' = [pc EXCEPT ![p] = label]

\* Clients left by earlier runs: some crashed, some kept by persist-rules.
Init ==
  /\ registered \in SUBSET Ids
  /\ persistent \in SUBSET registered
  /\ altitude \in [Ids -> 0 .. Tries]
  /\ \A i, j \in registered : altitude[i] = altitude[j] => i = j
  /\ \A i \in Ids \ registered : altitude[i] = 0
  /\ owner = [i \in Ids |-> None]
  /\ seeded = persistent
  /\ cmd \in [Procs -> Commands]
  /\ fresh \in [Procs -> FreshOptions]
  /\ id \in [Procs -> Ids]
  /\ pc = [p \in Procs |-> "start"]
  /\ todo = [p \in Procs |-> {}]
  /\ cur = id
  /\ attempt = [p \in Procs |-> 0]
  /\ owned = [p \in Procs |-> FALSE]
  /\ keep = [p \in Procs |-> FALSE]
  /\ code = [p \in Procs |-> -1]

--------------------------------------------------------------------------------
(***************************************************************************)
(* CleanOrphanClients, and the loop of unregister --all.                   *)
(***************************************************************************)
Enumerate(p) ==
  /\ pc[p] = "start"
  /\ \/ todo' = [todo EXCEPT ![p] = registered] /\ Goto(p, "scan")
        /\ UNCHANGED code
     \/ /\ Faults /\ UNCHANGED todo
        /\ IF cmd[p] = "unregister"
           THEN Goto(p, "done") /\ code' = [code EXCEPT ![p] = 1]
           ELSE Goto(p, "register") /\ UNCHANGED code
  /\ UNCHANGED <<driver, cmd, fresh, id, cur, attempt, owned, keep, seeded>>

\* The next id: probed first unless the client is released whatever it holds.
NextId(p) ==
  /\ pc[p] = "scan"
  /\ \E i \in todo[p] :
       /\ cur'  = [cur EXCEPT ![p] = i]
       /\ todo' = [todo EXCEPT ![p] = @ \ {i}]
  /\ Goto(p, IF cmd[p] = "unregister" \/ fresh[p] THEN "release" ELSE "probe")
  /\ UNCHANGED <<driver, cmd, fresh, id, session, seeded>>

\* ConnectExisting; a client that cannot be inspected is preserved.
ProbeConnect(p) ==
  /\ pc[p] = "probe"
  /\ \/ /\ Connectable(cur[p])
        /\ owner' = [owner EXCEPT ![cur[p]] = p]
        /\ Goto(p, "count")
     \/ /\ MayFail(Connectable(cur[p]))
        /\ Goto(p, "scan") /\ UNCHANGED owner
  /\ UNCHANGED <<registered, altitude, persistent, cmd, fresh, id, todo, cur,
                 session, seeded>>

\* Fault: a failed enumeration is taken for "no persistent rules".
ProbeCount_TrustsFailure(p) ==
  /\ pc[p] = "count"
  /\ owner' = [owner EXCEPT ![cur[p]] = None]
  /\ \/ Goto(p, IF cur[p] \in persistent THEN "scan" ELSE "release")
     \/ Faults /\ Goto(p, "release")
  /\ UNCHANGED <<registered, altitude, persistent, cmd, fresh, id, todo, cur,
                 session, seeded>>

\* EnumerateRuleIds(persistent) and the checker's Disconnect.  Nothing else can
\* touch the client while the checker is connected to it.
ProbeCount(p) ==
  /\ pc[p] = "count"
  /\ owner' = [owner EXCEPT ![cur[p]] = None]
  /\ \/ Goto(p, IF cur[p] \in persistent THEN "scan" ELSE "release")
     \/ Faults /\ Goto(p, "scan")
  /\ UNCHANGED <<registered, altitude, persistent, cmd, fresh, id, todo, cur,
                 session, seeded>>

\* UnregisterClientId, issued after the probe's session is gone.  unregister
\* --all exits with 1 unless every id it enumerated was released by itself.
Release(p) ==
  /\ pc[p] = "release"
  /\ \/ /\ Unregisterable(cur[p])
        /\ RemoveClient(cur[p]) /\ UNCHANGED code
     \/ /\ MayFail(Unregisterable(cur[p]))
        /\ UNCHANGED driver
        /\ code' = IF cmd[p] = "unregister" THEN [code EXCEPT ![p] = 1] ELSE code
  /\ Goto(p, "scan")
  /\ UNCHANGED <<cmd, fresh, id, todo, cur, attempt, owned, keep, seeded>>

ScanDone(p) ==
  /\ pc[p] = "scan" /\ todo[p] = {}
  /\ IF cmd[p] = "unregister"
     THEN Goto(p, "done") /\ code' = [code EXCEPT ![p] = IF @ = 1 THEN 1 ELSE 0]
     ELSE Goto(p, "register") /\ code' = code
  /\ UNCHANGED <<driver, cmd, fresh, id, todo, cur, attempt, owned, keep, seeded>>

--------------------------------------------------------------------------------
(***************************************************************************)
(* EspSession::Connect, the install, and Disconnect.                       *)
(***************************************************************************)
\* The successful EspRegisterClient.
Registers(p) ==
  /\ registered' = registered \cup {id[p]}
  /\ altitude' = [altitude EXCEPT ![id[p]] = attempt[p]]
  /\ owned' = [owned EXCEPT ![p] = TRUE]
  /\ Goto(p, "connect")
  /\ UNCHANGED <<attempt, code>>

\* The last EspRegisterClient failed.
GivesUp(p) ==
  /\ Goto(p, "done") /\ code' = [code EXCEPT ![p] = 1]
  /\ UNCHANGED <<registered, altitude, owned, attempt>>

\* Fault: one attempt too many.
Retries_OffByOne(p) ==
  /\ Collides(id[p], attempt[p])
  /\ attempt[p] < Tries
  /\ attempt' = [attempt EXCEPT ![p] = @ + 1]
  /\ UNCHANGED <<registered, altitude, owned, pc, code>>

\* Fault: after the last altitude the first one is tried again.
Retries_StartOver(p) ==
  /\ Collides(id[p], attempt[p])
  /\ attempt' = [attempt EXCEPT ![p] = (@ + 1) % Tries]
  /\ UNCHANGED <<registered, altitude, owned, pc, code>>

\* A collision is retried at the next altitude while attempts are left.
Retries(p) ==
  /\ Collides(id[p], attempt[p])
  /\ attempt[p] + 1 < Tries
  /\ attempt' = [attempt EXCEPT ![p] = @ + 1]
  /\ UNCHANGED <<registered, altitude, owned, pc, code>>

\* One EspRegisterClient call.  Any failure but a collision, and the collision
\* of the last attempt, end the command with 1.
RegisterClient(p) ==
  /\ pc[p] = "register"
  /\ \/ ~Collides(id[p], attempt[p]) /\ Registers(p)
     \/ Retries(p)
     \/ /\ Faults \/ (Collides(id[p], attempt[p]) /\ attempt[p] + 1 >= Tries)
        /\ GivesUp(p)
  /\ UNCHANGED <<owner, persistent, cmd, fresh, id, todo, cur, keep, seeded>>

\* EspConnectClient; when it fails the session has nothing to disconnect and
\* releases its registration.
ConnectClient(p) ==
  /\ pc[p] = "connect"
  /\ \/ /\ Connectable(id[p])
        /\ owner' = [owner EXCEPT ![id[p]] = p]
        /\ Goto(p, "install") /\ UNCHANGED code
     \/ /\ MayFail(Connectable(id[p])) /\ UNCHANGED owner
        /\ Goto(p, "unregister") /\ code' = [code EXCEPT ![p] = 1]
  /\ UNCHANGED <<registered, altitude, persistent, cmd, fresh, id, todo, cur,
                 attempt, owned, keep, seeded>>

\* PrepareRulesSession after Connect, and for persist-rules the enumeration of
\* persistent rule ids.  Any part of the document may have been armed; the
\* install is Ok only when all of it was.
InstallDocument(p) ==
  /\ pc[p] = "install"
  /\ \E ok, armsPersistent, listed \in BOOLEAN :
       /\ armsPersistent => cmd[p] = "persist" \/ MayPersist
       /\ ~listed => Faults
       /\ persistent' = IF armsPersistent THEN persistent \cup {id[p]} ELSE persistent
       /\ LET success == cmd[p] = "persist" => listed /\ armsPersistent
          IN /\ code' = [code EXCEPT ![p] = IF ok /\ success THEN 0 ELSE 1]
             /\ keep' = [keep EXCEPT ![p] = cmd[p] = "persist" /\ ok /\ success]
  /\ Goto(p, "disconnect")
  /\ UNCHANGED <<registered, altitude, owner, cmd, fresh, id, todo, cur, attempt,
                 owned, seeded>>

DisconnectClient(p) ==
  /\ pc[p] = "disconnect"
  /\ owner' = [owner EXCEPT ![id[p]] = None]
  /\ Goto(p, "unregister")
  /\ UNCHANGED <<registered, altitude, persistent, cmd, fresh, id, todo, cur,
                 session, seeded>>

\* Fault: the session forgets to unregister what it registered.
UnregisterIfOwned_Forgets(p) ==
  /\ pc[p] = "unregister"
  /\ owned' = [owned EXCEPT ![p] = FALSE]
  /\ Goto(p, "done")
  /\ UNCHANGED <<driver, cmd, fresh, id, todo, cur, attempt, keep, code, seeded>>

\* UnregisterIfOwned; its result is recorded and otherwise ignored.
UnregisterIfOwned(p) ==
  /\ pc[p] = "unregister"
  /\ IF owned[p] /\ ~keep[p]
     THEN /\ owned' = [owned EXCEPT ![p] = FALSE]
          /\ \/ Unregisterable(id[p]) /\ RemoveClient(id[p])
             \/ MayFail(Unregisterable(id[p])) /\ UNCHANGED driver
     ELSE UNCHANGED <<driver, owned>>
  /\ Goto(p, "done")
  /\ UNCHANGED <<cmd, fresh, id, todo, cur, attempt, keep, code, seeded>>

\* The process is killed; the driver closes its session.
Crash(p) ==
  /\ Crashes
  /\ pc[p] \notin {"done", "crashed"}
  /\ owner' = [i \in Ids |-> IF owner[i] = p THEN None ELSE owner[i]]
  /\ Goto(p, "crashed")
  /\ UNCHANGED <<registered, altitude, persistent, cmd, fresh, id, todo, cur,
                 session, seeded>>

Ended == \A p \in Procs : pc[p] \in {"done", "crashed"}

Step(p) ==
  \/ Enumerate(p) \/ NextId(p) \/ ProbeConnect(p) \/ ProbeCount(p)
  \/ Release(p) \/ ScanDone(p) \/ RegisterClient(p) \/ ConnectClient(p)
  \/ InstallDocument(p) \/ DisconnectClient(p) \/ UnregisterIfOwned(p)

Next == \/ \E p \in Procs : Step(p) \/ Crash(p)
        \/ Ended /\ UNCHANGED vars

Spec == Init /\ [][Next]_vars

\* The scheduler runs every live process and every driver call returns.
FairSpec == Spec /\ \A p \in Procs : WF_vars(Step(p))
--------------------------------------------------------------------------------
(***************************************************************************)
(* Properties.                                                             *)
(***************************************************************************)
\* Every variable holds a value of its kind; the exit code is set for every
\* process that ran to its end.
TypeOK ==
  /\ registered \subseteq Ids /\ persistent \subseteq registered
  /\ altitude \in [Ids -> 0 .. Tries]
  /\ owner \in [Ids -> Procs \cup {None}]
  /\ cmd \in [Procs -> Commands] /\ fresh \in [Procs -> FreshOptions]
  /\ id \in [Procs -> Ids] /\ cur \in [Procs -> Ids]
  /\ pc \in [Procs -> {"start", "scan", "probe", "count", "release", "register",
                       "connect", "install", "disconnect", "unregister", "done",
                       "crashed"}]
  /\ todo \in [Procs -> SUBSET Ids]
  /\ attempt \in [Procs -> 0 .. Tries - 1]
  /\ owned \in [Procs -> BOOLEAN] /\ keep \in [Procs -> BOOLEAN]
  /\ code \in [Procs -> {-1, 0, 1}]
  /\ \A p \in Procs : pc[p] = "done" => code[p] # -1
  /\ seeded \subseteq Ids

\* Nobody asked for persistent rules to be released.
NobodyReleases == \A p \in Procs : ~fresh[p] /\ cmd[p] # "unregister"

\* A client that an earlier persist-rules kept is never released by the sweeps
\* of later commands, whatever fails, dies or collides with its GUID, unless
\* --fresh or unregister asks for it (CleanOrphanClients).
PersistClientsPreserved ==
  NobodyReleases => seeded \subseteq registered \cap persistent

\* The orphans of crashed sessions and the registrations of the commands
\* themselves are gone once every command has ended: when a sweep or a
\* command's own unregister is refused because another process is probing the
\* client, that process releases it (CleanOrphanClients, UnregisterIfOwned).
\* The clients of persist-rules, and those with persistent rules, are exempt.
NoOrphansLeft ==
  ~Crashes /\ Ended =>
    registered \subseteq seeded \cup {id[p] : p \in {q \in Procs : cmd[q] = "persist"}}

\* rules/README.md says of persist-rules that it leaves the client registered
\* when at least one persistent rule id is verified, and the comment on
\* CleanOrphanClients that a client with persistent rules is preserved.
PersistSurvives ==
  NobodyReleases =>
    \A p \in Procs : pc[p] = "done" /\ cmd[p] = "persist" /\ code[p] = 0
                       => id[p] \in registered \cap persistent

\* A statement the code does not meet (README.md):
\* docs/esptool_tech_reference.md ends the sequence of the rules command with
\* "Disconnects and unregisters".
RulesUnregisters ==
  ~Crashes /\ Ended =>
    \A p \in Procs : cmd[p] = "rules" => id[p] \notin registered \ seeded

\* Every command ends: the altitude retries and the sweeps are bounded, and no
\* call waits for another process (EspSession::Connect, CleanOrphanClients).
CommandsEnd == \A p \in Procs : <>(pc[p] \in {"done", "crashed"})
================================================================================
