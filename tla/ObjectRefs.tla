------------------------------ MODULE ObjectRefs -------------------------------
(***************************************************************************)
(* Object references, the views unwrapped from them, and the buffers the   *)
(* queries return: query, refs, refs --from-notify, context, and monitor   *)
(* with <query> rules, each over one EspSession from Connect to Disconnect, *)
(* with the sweep that monitor and refs --from-notify begin with.          *)
(*                                                                         *)
(* espclient.dll is external: a reference is an address, free for reuse    *)
(* once closed; a call succeeds, fails (a missing export counts as a       *)
(* failure) or succeeds with a null handle, which Adopt refuses.  A view   *)
(* is non-owning and is identified with the reference it came from.        *)
(***************************************************************************)
EXTENDS Naturals, Sequences, SequencesExt

CONSTANTS
  Addresses,       \* values a create or duplicate export may return
  Null,            \* the null handle
  Commands,        \* the command lines of the run
  MaxNotified,     \* bound on the notifications one command pumps
  MaxClients       \* bound on the registered clients a sweep finds

ASSUME NullAssumption    == Null \notin Addresses
ASSUME NotifiedAssumption == MaxNotified \in Nat
ASSUME ClientsAssumption  == MaxClients \in Nat

Outcomes == {"ok", "null", "fail"}

VARIABLES
  cmd, missing,          \* options; which of the close and free exports are missing
  pc, exit,
  stored,                \* EspSession::object_refs_
  ref, second,           \* the command's reference; its duplicate, or by_id
  view,                  \* the reference whose view the queries use
  stepOk,                \* a create step of Steps() is ok
  keys, left,            \* the decoded notification; notifications still to come
  file, child,           \* the triggers of --from-notify
  open, buffers,         \* external: open references, buffers not yet freed
  arrays,                \* external: the sweep's enumeration arrays, not freed
  stale, minted          \* history: a closed object was used; a reference was opened

library == <<open, buffers, stale, minted>>
locals  == <<ref, second, view, keys, left>>
vars == <<cmd, missing, pc, exit, stored, ref, second, view, stepOk, keys, left,
          file, child, open, buffers, arrays, stale, minted>>

NoKeys == [fo |-> FALSE, path |-> FALSE, pid |-> FALSE, event |-> 0]

--------------------------------------------------------------------------------
(***************************************************************************)
(* The kind tables and the options of one command line.  An option is ""   *)
(* (absent), "ok", "bad" (does not parse) or "null" (a zero GUID or id).   *)
(***************************************************************************)
CanonicalQueryKind(kind) ==
  CASE kind \in {"process-token", "thread-token"} -> "token"
    [] kind = "stream"                            -> "filestream"
    [] OTHER                                      -> kind

KindHasReferenceCreate ==
  {"process", "thread", "process-token", "thread-token", "token", "file",
   "fileobject", "stream", "filestream", "registry", "volume", "disk",
   "desktop", "pipe", "mailslot", "event"}

QueryKinds ==
  {"client", "desktop", "disk", "fileobject", "file", "filestream", "ktm",
   "mailslot", "pipe", "process", "registry-key-object", "registry", "thread",
   "token", "volume"}

\* ResolvePid, ResolveTid: an absent option is the caller's own id.
ResolveId(option) == option # "bad"

\* The zero GUID parses; CreateVolumeReference and the by-id creates refuse it.
ParseGuidOption(option) == option \in {"ok", "null"}

ParseFileIdHex(option) == option = "ok"

\* CreateReferenceForKind reaches an export only with the natural key of its
\* kind.
CreateReferenceForKind(o) ==
  \/ o.kind \in {"process", "process-token"} /\ ResolveId(o.pid)
  \/ o.kind \in {"thread", "thread-token"} /\ ResolveId(o.tid)
  \/ o.kind = "token" /\ ResolveId(IF o.tid # "" /\ o.pid = "" THEN o.tid ELSE o.pid)
  \/ o.kind = "desktop"
  \/ o.kind = "volume" /\ ParseGuidOption(o.volume) /\ o.volume # "null"
  \/ o.kind \in {"registry", "disk", "pipe", "mailslot"} /\ o.path # ""
  \/ /\ o.kind \in {"file", "fileobject", "stream", "filestream"}
     /\ IF o.fileId # ""
        THEN ParseGuidOption(o.volume) /\ o.volume # "null" /\ ParseFileIdHex(o.fileId)
        ELSE o.path # ""
  \/ o.kind = "event" /\ o.event = "ok"

--------------------------------------------------------------------------------
Init ==
  /\ cmd \in Commands /\ missing \in SUBSET {"close", "free"}
  /\ pc = (IF cmd.name \in {"monitor", "notify"} THEN "sweep" ELSE "connect") /\ exit = 1
  /\ stored = << >> /\ ref = Null /\ second = Null /\ view = Null
  /\ stepOk = FALSE /\ keys = NoKeys
  /\ left = IF cmd.name = "monitor" THEN MaxNotified ELSE 1
  /\ file = "none" /\ child = "none"
  /\ open = {} /\ buffers = 0 /\ arrays = 0 /\ stale = FALSE /\ minted = FALSE

Goto(from, to) == pc = from /\ pc' = to

\* A buffer the library returned is given back by FreeEspBuffer.
FreeEspBuffer(returned) ==
  buffers' = IF returned /\ "free" \in missing THEN buffers + 1 ELSE buffers

\* A library call that takes handle h.
Uses(h) == stale' = (stale \/ h \notin open)

\* Adopt: the call's result is recorded whatever the handle; only a success
\* with a handle is stored.
Adopt(outcome, h, slot) ==
  /\ minted' = (minted \/ outcome = "ok")
  /\ IF outcome = "ok"
     THEN h \in Addresses \ open /\ open' = open \cup {h} /\ slot' = h
     ELSE h = Null /\ open' = open /\ slot' = Null

Created(outcome, h, slot) ==
  /\ Adopt(outcome, h, slot)
  /\ stored' = IF outcome = "ok" THEN Append(stored, h) ELSE stored
  /\ stepOk' = (stepOk \/ outcome # "fail")

\* Fault: the copy kept in object_refs_ is not cleared.
CloseReference_KeepsStored(h) ==
  /\ open' = IF h # Null /\ "close" \notin missing THEN open \ {h} ELSE open
  /\ stale' = (stale \/ (h # Null /\ "close" \notin missing /\ h \notin open))
  /\ stored' = stored

\* CloseReference: CloseOne, then every stored entry equal to it is reset.
CloseReference(h) ==
  /\ open' = IF h # Null /\ "close" \notin missing THEN open \ {h} ELSE open
  /\ stale' = (stale \/ (h # Null /\ "close" \notin missing /\ h \notin open))
  /\ stored' = [i \in DOMAIN stored |-> IF stored[i] = h THEN Null ELSE stored[i]]

--------------------------------------------------------------------------------
(***************************************************************************)
(* CleanOrphanClients (ClientRegistry models what it does to the clients): *)
(* EspEnumerateRegisteredClients returns an array when there are clients,  *)
(* and without --fresh every client it can connect to is asked for its     *)
(* rule ids.  None of these arrays is freed.                               *)
(***************************************************************************)
CleanOrphanClients ==
  /\ Goto("sweep", "connect")
  /\ \E clients \in 0..MaxClients :
       \E probed \in 0..(IF cmd.fresh THEN 0 ELSE clients) :
         arrays' = probed + (IF clients = 0 THEN 0 ELSE 1)
  /\ UNCHANGED <<cmd, missing, exit, stored, locals, stepOk, file, child, library>>

(***************************************************************************)
(* Connect and the branches of RunQuery, RunRefs and RunContext.           *)
(***************************************************************************)
Branch ==
  CASE cmd.name = "context" -> "context"
    [] cmd.name = "notify"  -> "trigger"
    [] cmd.name = "monitor" -> "pump"
    [] cmd.name = "query"   ->
         IF cmd.kind = "" THEN "smoke" ELSE IF cmd.kind = "client" THEN "client"
         ELSE IF \/ CanonicalQueryKind(cmd.kind) \notin QueryKinds
                 \/ cmd.kind \notin KindHasReferenceCreate THEN "viewless" ELSE "create"
    [] OTHER                -> "create"

\* RunConnectedAction goes on after a failed Connect; the others disconnect.
Connect ==
  /\ pc = "connect"
  /\ pc' \in {Branch, IF Branch \in {"context", "smoke"} THEN Branch ELSE "disconnect"}
  /\ UNCHANGED <<cmd, missing, arrays, exit, stored, locals, stepOk, file, child, library>>

\* query --kind client: the client handle is the object; what the query
\* returned does not matter to the exit code.
QueryClient ==
  /\ Goto("client", "disconnect")
  /\ LET asks  == cmd.props # "" \/ cmd.supported # ""
         valid == "bad" \notin {cmd.props, cmd.supported}
     IN  exit' = IF asks /\ valid THEN 0 ELSE 1
  /\ \E b \in BOOLEAN : FreeEspBuffer(b /\ cmd.props = "ok")
  /\ UNCHANGED <<cmd, missing, arrays, stored, locals, stepOk, file, child, open, stale, minted>>

\* A kind with no query export or no create: only --supported does anything.
QueryViewless ==
  /\ Goto("viewless", "disconnect")
  /\ exit' = IF cmd.supported = "ok" THEN 0 ELSE 1
  /\ UNCHANGED <<cmd, missing, arrays, stored, locals, stepOk, file, child, library>>

\* Fault: the exit code tells that the options were valid.
CreateRef_ExitByOptions(outcome, h) ==
  /\ CreateReferenceForKind(cmd) /\ Created(outcome, h, ref)
  /\ pc' = IF outcome = "ok" THEN "unwrap" ELSE "disconnect"
  /\ exit' = 0

CreateRef(outcome, h) ==
  /\ CreateReferenceForKind(cmd) /\ Created(outcome, h, ref)
  /\ pc' = IF outcome = "ok" THEN "unwrap" ELSE "disconnect"
  /\ exit' = IF outcome = "ok" THEN 0 ELSE 1

CreateRefused ==
  /\ ~CreateReferenceForKind(cmd) /\ pc' = "disconnect"
  /\ UNCHANGED <<exit, stored, ref, stepOk, open, minted>>

CreateStep ==
  /\ pc = "create"
  /\ \/ \E outcome \in Outcomes, h \in Addresses \cup {Null} : CreateRef(outcome, h)
     \/ CreateRefused
  /\ UNCHANGED <<cmd, missing, arrays, second, view, keys, left, file, child, buffers, stale>>

\* UnwrapReference; RunRefs then reads the type and the id through the view.
Unwrap ==
  /\ Goto("unwrap", "duplicate")
  /\ view' \in {Null, ref} /\ Uses(ref)
  /\ UNCHANGED <<cmd, missing, arrays, exit, stored, ref, second, stepOk, keys, left, file, child,
                 open, buffers, minted>>

--------------------------------------------------------------------------------
(***************************************************************************)
(* ApplyOptionalRefOps.                                                    *)
(***************************************************************************)
DuplicateReference(outcome, h) ==
  /\ Adopt(outcome, h, second) /\ Uses(ref)
  /\ stored' = IF outcome = "ok" THEN Append(stored, h) ELSE stored
  /\ UNCHANGED stepOk

Duplicate ==
  /\ Goto("duplicate", "close copy")
  /\ IF cmd.duplicate
     THEN \E outcome \in Outcomes, h \in Addresses \cup {Null} : DuplicateReference(outcome, h)
     ELSE UNCHANGED <<stored, second, stepOk, open, stale, minted>>
  /\ UNCHANGED <<cmd, missing, arrays, exit, ref, view, keys, left, file, child, buffers>>

CloseCopy ==
  /\ Goto("close copy", "query")
  /\ CloseReference(second) /\ second' = Null
  /\ UNCHANGED <<cmd, missing, arrays, exit, ref, view, stepOk, keys, left, file, child, buffers,
                 minted>>

\* QueryKind: not for events, never without a view or an id.
Query ==
  /\ Goto("query", "context ops")
  /\ IF /\ cmd.props = "ok" /\ view # Null
        /\ CanonicalQueryKind(cmd.kind) \in QueryKinds
     THEN Uses(view) /\ \E b \in BOOLEAN : FreeEspBuffer(b)
     ELSE UNCHANGED <<stale, buffers>>
  /\ UNCHANGED <<cmd, missing, arrays, exit, stored, locals, stepOk, file, child, open, minted>>

\* SetEventObjectContextKey and EnumerateEventObjectContextKeys.
ContextOps ==
  /\ Goto("context ops", "close ref")
  /\ IF cmd.set \/ cmd.enum THEN Uses(ref) ELSE UNCHANGED stale
  /\ \E b \in BOOLEAN : FreeEspBuffer(b /\ cmd.enum)
  /\ UNCHANGED <<cmd, missing, arrays, exit, stored, locals, stepOk, file, child, open, minted>>

CloseRef ==
  /\ Goto("close ref", "disconnect")
  /\ CloseReference(ref) /\ ref' = Null
  /\ UNCHANGED <<cmd, missing, arrays, exit, second, view, stepOk, keys, left, file, child, buffers,
                 minted>>

\* QueryAllProperties: every query export with no ids, and its buffer freed.
QueryAllProperties ==
  /\ Goto("smoke", "disconnect")
  /\ exit' = 0
  /\ \E b \in BOOLEAN : FreeEspBuffer(b)
  /\ UNCHANGED <<cmd, missing, arrays, stored, locals, stepOk, file, child, open, stale, minted>>

\* ExerciseContextKeys: the enumerated keys are not freed.
ExerciseContextKeys ==
  /\ Goto("context", "disconnect")
  /\ exit' = 0
  /\ \E returned \in {0, 1} : buffers' = buffers + returned
  /\ UNCHANGED <<cmd, missing, arrays, stored, locals, stepOk, file, child, open, stale, minted>>

--------------------------------------------------------------------------------
(***************************************************************************)
(* refs --from-notify: a trigger, the pump, and QueryFromNotification on   *)
(* its one notification; monitor pumps several.                            *)
(***************************************************************************)
\* SpawnFoCreateTrigger: GetTempFileNameW makes the file, and its name is kept
\* only when CreateFileW opens it too.
SpawnFoCreateTrigger ==
  /\ cmd.wantsFo
  /\ file' \in {"none", "abandoned", "there"} /\ UNCHANGED child

SpawnProcessCreateTrigger ==
  /\ ~cmd.wantsFo
  /\ child' \in {"none", "running"} /\ UNCHANGED file

Trigger ==
  /\ Goto("trigger", "pump")
  /\ SpawnFoCreateTrigger \/ SpawnProcessCreateTrigger
  /\ UNCHANGED <<cmd, missing, arrays, exit, stored, locals, stepOk, library>>

Notified ==
  /\ Goto("pump", "natural") /\ left > 0 /\ left' = left - 1
  /\ keys' \in [fo : BOOLEAN, path : BOOLEAN, pid : BOOLEAN, event : {0, 1, 2}]
  /\ UNCHANGED <<cmd, missing, arrays, exit, stored, ref, second, view, stepOk, file, child,
                 library>>

\* The key of the natural reference: the notification's path or pid, else the
\* fallback the trigger left; none when the keys do not decode.
NaturalKeys ==
  IF keys.fo
  THEN (IF keys.path THEN {"own"} ELSE {}) \cup (IF file = "there" THEN {"fallback"} ELSE {})
  ELSE IF keys.pid THEN {"own"} ELSE IF child = "running" THEN {"fallback"} ELSE {}

Natural(outcome, h) ==
  /\ NaturalKeys # {}
  /\ Created(outcome, h, ref)
  /\ pc' = IF outcome = "ok" THEN "natural view" ELSE "pump"

\* With both keys a Fo event tries the notification's path first and then the
\* fallback; the two attempts together have the outcomes of one.
NaturalStep ==
  /\ pc = "natural"
  /\ \/ \E outcome \in Outcomes, h \in Addresses \cup {Null} : Natural(outcome, h)
     \/ /\ NaturalKeys = {} /\ pc' = "pump"
        /\ UNCHANGED <<stored, ref, stepOk, open, minted>>
  /\ UNCHANGED <<cmd, missing, arrays, exit, second, view, keys, left, file, child, buffers, stale>>

NaturalView ==
  /\ pc = "natural view"
  /\ view' \in {Null, ref} /\ Uses(ref)
  /\ pc' = IF view' = Null THEN "close natural" ELSE "by id"
  /\ UNCHANGED <<cmd, missing, arrays, exit, stored, ref, second, stepOk, keys, left, file, child,
                 open, buffers, minted>>

\* GetEventObjectId, and a second reference by that id when it is not zero.
\* Fault: the natural reference is closed once its object id is known.
ById_ClosesNatural(id, outcome, h) ==
  /\ Goto("by id", "by id view")
  /\ id = 0 /\ outcome = "fail" /\ h = Null
  /\ CloseReference(ref) /\ ref' = Null
  /\ UNCHANGED <<cmd, missing, arrays, exit, second, view, stepOk, keys, left, file, child, buffers,
                 minted>>

ById(id, outcome, h) ==
  /\ Goto("by id", "by id view")
  /\ Uses(view)
  /\ IF id = 0
     THEN outcome = "fail" /\ h = Null /\ UNCHANGED <<stored, second, stepOk, open, minted>>
     ELSE Created(outcome, h, second)
  /\ UNCHANGED <<cmd, missing, arrays, exit, ref, view, keys, left, file, child, buffers>>

ByIdView ==
  /\ Goto("by id view", "recipes")
  /\ IF second = Null
     THEN UNCHANGED <<view, stale>>
     ELSE view' \in {view, second} /\ Uses(second)
  /\ UNCHANGED <<cmd, missing, arrays, exit, stored, ref, second, stepOk, keys, left, file, child,
                 open, buffers, minted>>

\* The recipes of the document that match the event; 0 matches everything.
Matching == {r \in cmd.recipes : r.event = 0 \/ keys.event = 0 \/ r.event = keys.event}

\* Queries go to query_view, context keys to context_ref: both belong to by_id
\* when its view could be had, else to the natural reference.
Recipes ==
  /\ Goto("recipes", "close by id")
  /\ IF Matching # {}
     THEN Uses(view) /\ \E b \in BOOLEAN : FreeEspBuffer(b)
     ELSE UNCHANGED <<stale, buffers>>
  /\ UNCHANGED <<cmd, missing, arrays, exit, stored, locals, stepOk, file, child, open, minted>>

CloseById ==
  /\ Goto("close by id", "close natural")
  /\ CloseReference(second) /\ second' = Null
  /\ UNCHANGED <<cmd, missing, arrays, exit, ref, view, stepOk, keys, left, file, child, buffers,
                 minted>>

CloseNatural ==
  /\ Goto("close natural", "pump")
  /\ CloseReference(ref) /\ ref' = Null /\ view' = Null
  /\ UNCHANGED <<cmd, missing, arrays, exit, second, stepOk, keys, left, file, child, buffers,
                 minted>>

\* The pump ends at its limit or its deadline; refs reads its exit code from
\* the recorded steps, monitor from the count of notifications.
PumpEnds ==
  /\ Goto("pump", "disconnect")
  /\ LET good == IF cmd.name = "monitor" THEN left < MaxNotified ELSE stepOk
     IN  exit' = IF good THEN 0 ELSE 1
  /\ UNCHANGED <<cmd, missing, arrays, stored, locals, stepOk, file, child, library>>

--------------------------------------------------------------------------------
\* Disconnect closes what object_refs_ still holds.
Disconnect ==
  /\ Goto("disconnect", "clean")
  /\ LET held == ToSet(stored) \ {Null}
     IN  /\ open' = IF "close" \in missing THEN open ELSE open \ held
         /\ stale' = (stale \/ ("close" \notin missing /\ ~held \subseteq open))
  /\ stored' = << >>
  /\ UNCHANGED <<cmd, missing, arrays, exit, locals, stepOk, file, child, buffers, minted>>

\* Fault: the temporary file is deleted only when a reference was created.
CleanTriggers_OnSuccess ==
  /\ file'  = IF file = "there" /\ exit = 0 THEN "none" ELSE file
  /\ child' = IF child = "running" THEN "ended" ELSE child

\* After the disconnect the child is terminated and the file is deleted; the
\* results of TerminateProcess and DeleteFileW are not looked at.
CleanTriggers ==
  /\ file'  \in IF file = "there" THEN {"none", "undeletable"} ELSE {file}
  /\ child' \in IF child = "running" THEN {"ended", "survived"} ELSE {child}

Clean ==
  /\ Goto("clean", "done") /\ CleanTriggers
  /\ UNCHANGED <<cmd, missing, arrays, exit, stored, locals, stepOk, library>>

Done == pc = "done" /\ UNCHANGED vars

Next ==
  \/ CleanOrphanClients \/ Connect \/ QueryClient \/ QueryViewless \/ CreateStep \/ Unwrap
  \/ Duplicate \/ CloseCopy \/ Query \/ ContextOps \/ CloseRef
  \/ QueryAllProperties \/ ExerciseContextKeys
  \/ Trigger \/ Notified \/ NaturalStep \/ NaturalView
  \/ \E id \in {0, 1}, outcome \in Outcomes, h \in Addresses \cup {Null} : ById(id, outcome, h)
  \/ ByIdView \/ Recipes \/ CloseById \/ CloseNatural \/ PumpEnds
  \/ Disconnect \/ Clean \/ Done

Spec == Init /\ [][Next]_vars

--------------------------------------------------------------------------------
(***************************************************************************)
(* Properties.                                                             *)
(***************************************************************************)
\* Types of the command's state and of the references.
CommandTyped ==
  /\ cmd \in Commands /\ missing \subseteq {"close", "free"} /\ left \in Nat
  /\ file \in {"none", "abandoned", "there", "undeletable"}
  /\ child \in {"none", "running", "ended", "survived"}
  /\ arrays \in Nat
  /\ exit \in {0, 1} /\ stepOk \in BOOLEAN /\ minted \in BOOLEAN

RefsTyped ==
  /\ stored \in Seq(Addresses \cup {Null})
  /\ ref \in Addresses \cup {Null} /\ second \in Addresses \cup {Null}
  /\ view \in Addresses \cup {Null}
  /\ open \subseteq Addresses /\ buffers \in Nat /\ stale \in BOOLEAN

TypeOK == CommandTyped /\ RefsTyped

\* object_refs_ holds exactly the references that are open, each once, so that
\* Disconnect closes every one that is left and none again; and no reference is
\* passed to the library after it was closed, nor a view after the reference it
\* was unwrapped from, although addresses are reused (CloseReference,
\* CloseOwned, ApplyOptionalRefOps, QueryFromNotification).
RefsOwned ==
  /\ "close" \notin missing =>
       /\ ToSet(stored) \ {Null} = open
       /\ \A i, j \in DOMAIN stored : stored[i] = stored[j] /\ stored[i] # Null => i = j
  /\ ~stale

\* A command ends with no reference open and with every query result given
\* back, whichever step failed, unless the export that closes or frees them is
\* missing; and the trigger's child process and the temporary file it opened
\* are gone unless TerminateProcess or DeleteFileW refused (RunRefs).  Two kinds
\* of buffer are never freed and are left out: the keys that context enumerates
\* (ContextKeysFreed) and the arrays of the sweep (SweepArraysFreed).
NothingKept ==
  pc = "done" =>
    /\ open = {} \/ "close" \in missing
    /\ buffers = 0 \/ "free" \in missing \/ cmd.name = "context"
    /\ child # "running" /\ file # "there"

\* refs exits 0 exactly when the library opened a reference, and refs
\* --from-notify never fails when one was opened (RunRefs).
ExitTellsCreated ==
  pc = "done" =>
    /\ cmd.name = "refs" => (exit = 0 <=> minted)
    /\ cmd.name = "notify" /\ minted => exit = 0

--------------------------------------------------------------------------------
(***************************************************************************)
(* Statements of the repository's documents that the code does not meet:   *)
(* README.md, "Statements the code does not meet".                         *)
(***************************************************************************)
\* context gives back every buffer the library returned to it.
ContextKeysFreed == pc = "done" /\ cmd.name = "context" /\ "free" \notin missing => buffers = 0

\* The sweep of monitor and of refs --from-notify frees its enumeration arrays.
SweepArraysFreed == pc = "done" /\ "free" \notin missing => arrays = 0

\* query returns 0 whatever failed, a failed Connect included.
QueryAlwaysZero == pc = "done" /\ cmd.name = "query" => exit = 0
================================================================================
