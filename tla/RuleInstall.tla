------------------------------ MODULE RuleInstall ------------------------------
(***************************************************************************)
(* One EspSession installing rule documents: the prologue that             *)
(* PrepareRulesSession runs before the install, EspSession::InstallRules   *)
(* itself (gate and create every rule, submit every created rule on its    *)
(* own, compact rules_), and EspSession::Disconnect.                       *)
(*                                                                         *)
(* Three callers drive it.  "rules" (also monitor and refs) and "persist"  *)
(* prepare a session, install one document and disconnect; "service" is    *)
(* the pipe host, whose client connects on a background thread and which   *)
(* installs the document of every Rules request into the same session; its *)
(* Exercise requests call every export of the library on that session.     *)
(*                                                                         *)
(* espclient.dll and the driver are external: EspCreateRule may fail or    *)
(* return any handle that is not open (a closed handle's value may come    *)
(* back), EspUpdateRules may accept or reject any entry, and a handle      *)
(* stays open until EspCloseRule.  "armed" holds the entries the driver    *)
(* accepted in this session, with what their descriptor captured, and      *)
(* "withdrawn" those of them that were taken back from the driver since.   *)
(***************************************************************************)
EXTENDS RuleActions

CONSTANTS
  Handles,        \* values EspCreateRule may return
  Null,           \* the null handle
  Documents,      \* rule documents a caller may install
  Roles,          \* subset of {"rules", "persist", "service"}
  MaxInstalls     \* bound on the Rules requests one service session serves

ASSUME NullAssumption      == Null \notin Handles
ASSUME DocumentsAssumption == Documents \subseteq Seq(RuleSpec)
ASSUME RolesAssumption     == Roles \subseteq {"rules", "persist", "service"}
ASSUME BoundsAssumption    == MaxInstalls \in Nat

VARIABLES
  role, phase, doc, installs, status,  \* the caller and its progress
  client, queue, compat, patch,        \* EspSession: handles and options
  hasCloseRule,                        \* espclient.dll exports EspCloseRule
  rules,                               \* EspSession::rules_
  k, entries, before, allOk,           \* locals of InstallRules
  committed, rejected, wr,             \* locals of InstallRules
  open, armed, withdrawn,              \* external: open handles, driver rules
  stray                                \* open handles no variable of the tool holds

callerVars  == <<role, doc, installs, status>>
sessionVars == <<client, queue, compat, hasCloseRule, patch>>
loopVars    == <<entries, before, allOk, committed, rejected, wr>>
vars == <<role, phase, doc, installs, status, client, queue, compat, hasCloseRule, patch,
          rules, k, entries, before, allOk, committed, rejected, wr, open, armed,
          withdrawn, stray>>

(***************************************************************************)
(* A submitted entry: the handle, the predecessor the submit loop checks   *)
(* (subrule_anchors), and what EspCreateRule captured from the descriptor. *)
(* "spec" and "index" say which rule of the document it came from.         *)
(***************************************************************************)
Entry == [rule     : Handles,
          anchor   : Handles \cup {Null},
          sub      : Handles \cup {Null},
          selector : Int,
          lifetime : Int,
          spec     : RuleSpec,
          index    : Nat]

\* RunPersistRules sets every rule's lifetime before it installs.
ForcePersistent(d) ==
  [i \in DOMAIN d |-> [d[i] EXCEPT !.lifetime = "Persistent"]]

CallerDocuments(r) ==
  CASE r = "rules"   -> Documents
    [] r = "persist" -> {ForcePersistent(d) : d \in Documents}
    [] OTHER         -> {<<>>}

Init ==
  /\ role \in Roles
  /\ doc \in CallerDocuments(role)
  /\ compat \in (IF role = "service" THEN {FALSE} ELSE BOOLEAN)
  /\ hasCloseRule \in BOOLEAN
  /\ phase = (IF role = "service" THEN "ready" ELSE "connect")
  /\ client = "pending" /\ queue = FALSE /\ patch = "untried"
  /\ rules = <<>> /\ entries = <<>> /\ rejected = {}
  /\ k = 1 /\ before = 0 /\ wr = 0 /\ committed = 0 /\ allOk = TRUE
  /\ status = "none" /\ installs = 0
  /\ open = {} /\ armed = {} /\ withdrawn = {} /\ stray = {}

--------------------------------------------------------------------------------
(***************************************************************************)
(* PrepareRulesSession.                                                    *)
(***************************************************************************)
Connect ==
  /\ client = "pending"
  /\ phase \in {"connect", "ready", "build", "submit", "compact"}
  /\ \E ok \in BOOLEAN :
       /\ client' = IF ok THEN "open" ELSE "failed"
       /\ phase'  = IF phase # "connect" THEN phase
                    ELSE IF ok THEN "queue" ELSE "end"
  /\ UNCHANGED <<queue, compat, hasCloseRule, patch, callerVars, rules, k, loopVars,
                 open, armed, withdrawn, stray>>

\* The event-type bypass patch may fail first; a queue is created only when
\* some rule resolves to the queue-backed selector.
CreateQueue ==
  /\ phase = "queue"
  /\ \/ phase' = "end"    /\ queue' = FALSE
     \/ phase' = "remove" /\ queue' = DocumentNeedsQueue(doc)
  /\ UNCHANGED <<client, compat, hasCloseRule, patch, callerVars, rules, k, loopVars,
                 open, armed, withdrawn, stray>>

RemoveAllRules ==
  /\ phase = "remove"
  /\ \/ phase' = "ready" /\ armed' = {} /\ withdrawn' = {}
     \/ phase' = "end"   /\ UNCHANGED <<armed, withdrawn>>
  /\ UNCHANGED <<sessionVars, callerVars, rules, k, loopVars, open, stray>>

--------------------------------------------------------------------------------
(***************************************************************************)
(* InstallRules: preconditions and the build loop.                         *)
(***************************************************************************)
\* Where the caller is once InstallRules has returned.
Returned == IF role = "service" THEN "ready" ELSE "end"

\* The documents the caller may pass now.  The service refuses a document
\* that needs the compat patch before it calls InstallRules.
Requests ==
  IF role = "service" THEN {d \in Documents : ~DocumentRequiresEnforceCompat(d)}
                      ELSE {doc}

MayInstall == phase = "ready" /\ (role = "service" => installs < MaxInstalls)

\* No client, no rule, a queue-backed rule without a queue; or an export is
\* missing or a document collection cannot be installed.
InstallRejected ==
  /\ MayInstall
  /\ doc' \in Requests
  /\ installs' = installs + 1
  /\ status' = "Failed" /\ phase' = Returned
  /\ entries' = <<>>
  /\ UNCHANGED <<role, sessionVars, rules, k, before, allOk, committed,
                 rejected, wr, open, armed, withdrawn, stray>>

InstallBegin ==
  /\ MayInstall
  /\ client = "open"
  /\ \E d \in Requests :
       /\ d # <<>>
       /\ DocumentNeedsQueue(d) => queue
       /\ doc' = d
  /\ installs' = installs + 1
  /\ status' = "running" /\ phase' = "build"
  /\ k' = 1 /\ entries' = <<>> /\ before' = Len(rules) /\ allOk' = TRUE
  /\ committed' = 0 /\ rejected' = {} /\ wr' = 0
  /\ UNCHANGED <<role, sessionVars, rules, open, armed, withdrawn, stray>>

Building == phase = "build" /\ k <= Len(doc)

\* Fault: the opt-in is not consulted.
RewriteRefused_NoOptIn(spec) ==
  /\ Selector(spec) = kActionRewrite
  /\ IF IsEnforceCompatEventType(spec.eventType)
     THEN patch = "failed"
     ELSE EventModifyKindForEvent(spec.eventType) = 0
            \/ ~SupportsEnforcePayload(spec.eventType)

\* The enforcing selector is refused for an event type that needs the patch
\* without the opt-in or after the patch failed, that has no modify kind, or
\* that the driver cannot deny.
RewriteRefused(spec) ==
  /\ Selector(spec) = kActionRewrite
  /\ IF IsEnforceCompatEventType(spec.eventType)
     THEN ~compat \/ patch = "failed"
     ELSE EventModifyKindForEvent(spec.eventType) = 0
            \/ ~SupportsEnforcePayload(spec.eventType)

GatesPass(spec) ==
  spec.eventType # 0 /\ ~SelectorConflicts(spec) /\ ~RewriteRefused(spec)

\* The rule is refused by a gate, or its filter tree cannot be built.
SkipRule ==
  /\ Building
  /\ ~GatesPass(doc[k]) \/ doc[k].filter = "tree"
  /\ allOk' = FALSE /\ k' = k + 1
  /\ UNCHANGED <<phase, callerVars, sessionVars, rules, entries, before,
                 committed, rejected, wr, open, armed, withdrawn, stray>>

\* EnsureEnforceCompatPatch, first attempt, fails; the outcome is cached.
PatchFails ==
  /\ Building
  /\ GatesPass(doc[k]) /\ NeedsCompatPatch(doc[k]) /\ patch = "untried"
  /\ patch' = "failed"
  /\ allOk' = FALSE /\ k' = k + 1
  /\ UNCHANGED <<phase, callerVars, client, queue, compat, hasCloseRule, rules, entries,
                 before, committed, rejected, wr, open, armed, withdrawn, stray>>

PatchAfter(spec) == IF NeedsCompatPatch(spec) THEN "ok" ELSE patch

CreateRuleFails ==
  /\ Building
  /\ GatesPass(doc[k])
  /\ patch' = PatchAfter(doc[k])
  /\ allOk' = FALSE /\ k' = k + 1
  /\ UNCHANGED <<phase, callerVars, client, queue, compat, hasCloseRule, rules, entries,
                 before, committed, rejected, wr, open, armed, withdrawn, stray>>

\* The entry built for rule number k, whose handle is h.  A MatchSubrules
\* descriptor captures the last handle in rules_; the entry is anchored to it
\* only when it was created by this install.
NewEntry(h) ==
  LET spec    == doc[k]
      chained == Selector(spec) = kActionMatchSubrules
  IN [rule     |-> h,
      anchor   |-> IF chained /\ Len(rules) > before
                   THEN entries[Len(entries)].rule ELSE Null,
      sub      |-> IF chained /\ rules # <<>> THEN rules[Len(rules)] ELSE Null,
      selector |-> Selector(spec),
      lifetime |-> value_or(spec.modifier_override, LifetimeToFfi(spec)),
      spec     |-> spec,
      index    |-> k]

CreateRule ==
  /\ Building
  /\ GatesPass(doc[k])
  /\ patch' = PatchAfter(doc[k])
  /\ \E h \in Handles \ open :
       /\ open'    = open \cup {h}
       /\ rules'   = Append(rules, h)
       /\ entries' = Append(entries, NewEntry(h))
  /\ k' = k + 1
  /\ UNCHANGED <<phase, callerVars, client, queue, compat, hasCloseRule, before, allOk,
                 committed, rejected, wr, armed, withdrawn, stray>>

BuildDone ==
  /\ phase = "build" /\ k > Len(doc)
  /\ IF entries = <<>>
     THEN phase' = Returned /\ status' = "Failed"
     ELSE phase' = "submit" /\ status' = status
  /\ k' = 1
  /\ UNCHANGED <<role, doc, installs, sessionVars, rules, loopVars, open, armed, withdrawn, stray>>

--------------------------------------------------------------------------------
(***************************************************************************)
(* InstallRules: the submit loop, compaction and the returned status.      *)
(***************************************************************************)
Submitting == phase = "submit" /\ k <= Len(entries)

\* Fault: a rule is submitted although its anchor was rejected.
AnchorRejected_Never == FALSE

AnchorRejected ==
  entries[k].anchor # Null /\ entries[k].anchor \in rejected

SubmitAccepted ==
  /\ Submitting
  /\ ~AnchorRejected
  /\ armed' = armed \cup {entries[k]}
  /\ committed' = committed + 1 /\ k' = k + 1
  /\ UNCHANGED <<phase, callerVars, sessionVars, rules, entries, before, allOk,
                 rejected, wr, open, withdrawn, stray>>

\* EspCloseRule, when the library exports it.
AfterClose(handles) == IF hasCloseRule THEN open \ handles ELSE open

\* Fault: one refusal closes every handle of the install.
SubmitRefused_ClosesBatch ==
  /\ Submitting
  /\ rejected' = rejected \cup {entries[k].rule}
  /\ open'  = AfterClose({rules[i] : i \in before + 1 .. Len(rules)})
  /\ rules' = [rules EXCEPT ![before + k] = Null]
  /\ k' = k + 1
  /\ UNCHANGED <<phase, callerVars, sessionVars, entries, before, allOk,
                 committed, wr, armed, withdrawn, stray>>

\* The driver rejects the entry, or its anchor was rejected before it.
SubmitRefused ==
  /\ Submitting
  /\ rejected' = rejected \cup {entries[k].rule}
  /\ open'  = AfterClose({rules[before + k]})
  /\ rules' = [rules EXCEPT ![before + k] = Null]
  /\ k' = k + 1
  /\ UNCHANGED <<phase, callerVars, sessionVars, entries, before, allOk,
                 committed, wr, armed, withdrawn, stray>>

\* Fault: rules that were skipped while building are forgotten.
InstallStatus_ForgetsSkips ==
  IF committed = 0 THEN "Failed" ELSE IF rejected = {} THEN "Complete" ELSE "Partial"

InstallStatus ==
  IF committed = 0 THEN "Failed"
  ELSE IF allOk /\ rejected = {} THEN "Complete" ELSE "Partial"

\* Fault: compaction starts one slot early.
SubmitDone_OffByOne ==
  /\ phase = "submit" /\ k > Len(entries)
  /\ IF rejected = {}
     THEN phase' = Returned /\ status' = InstallStatus /\ k' = 1 /\ wr' = 0
     ELSE phase' = "compact" /\ status' = status /\ k' = before /\ wr' = before
  /\ UNCHANGED <<role, doc, installs, sessionVars, rules, entries, before,
                 allOk, committed, rejected, open, armed, withdrawn, stray>>

SubmitDone ==
  /\ phase = "submit" /\ k > Len(entries)
  /\ IF rejected = {}
     THEN phase' = Returned /\ status' = InstallStatus /\ k' = 1 /\ wr' = 0
     ELSE phase' = "compact" /\ status' = status /\ k' = before + 1 /\ wr' = before
  /\ UNCHANGED <<role, doc, installs, sessionVars, rules, entries, before,
                 allOk, committed, rejected, open, armed, withdrawn, stray>>

CompactSlot ==
  /\ phase = "compact" /\ k <= Len(rules)
  /\ IF rules[k] # Null
     THEN rules' = [rules EXCEPT ![wr + 1] = rules[k]] /\ wr' = wr + 1
     ELSE rules' = rules /\ wr' = wr
  /\ k' = k + 1
  /\ UNCHANGED <<phase, callerVars, sessionVars, entries, before, allOk,
                 committed, rejected, open, armed, withdrawn, stray>>

\* Fault: rules_ is not resized after compaction.
CompactDone_NoResize ==
  /\ phase = "compact" /\ k > Len(rules)
  /\ phase' = Returned /\ status' = InstallStatus
  /\ k' = 1 /\ wr' = 0
  /\ UNCHANGED <<role, doc, installs, sessionVars, rules, entries, before, allOk,
                 committed, rejected, open, armed, withdrawn, stray>>

CompactDone ==
  /\ phase = "compact" /\ k > Len(rules)
  /\ rules' = SubSeq(rules, 1, wr)
  /\ phase' = Returned /\ status' = InstallStatus
  /\ k' = 1 /\ wr' = 0
  /\ UNCHANGED <<role, doc, installs, sessionVars, entries, before, allOk,
                 committed, rejected, open, armed, withdrawn, stray>>

--------------------------------------------------------------------------------
(***************************************************************************)
(* Disconnect: called once by the command (the service joins its connect   *)
(* thread first) and once more by ~EspSession.                             *)
(***************************************************************************)
Disconnect ==
  /\ \/ phase = "ready" /\ role = "service" /\ client # "pending"
     \/ phase \in {"end", "closed"}
  /\ phase' = IF phase = "closed" THEN "gone" ELSE "closed"
  /\ open'  = AfterClose({rules[i] : i \in DOMAIN rules} \ {Null})
  /\ rules' = <<>> /\ entries' = <<>>
  /\ queue' = FALSE /\ client' = "closed"
  /\ armed' = {} /\ withdrawn' = {} /\ status' = "none"
  /\ UNCHANGED <<role, doc, installs, compat, hasCloseRule, patch, k, before, allOk,
                 committed, rejected, wr, stray>>

(***************************************************************************)
(* A service's Exercise request between two installs (EspExercise:         *)
(* PrepareSession, RunInProcess), as far as it touches this state: it      *)
(* creates the session's queue when there is a client and no queue, its    *)
(* EspRemoveAllRulesForClient withdraws every rule while rules_ keeps the  *)
(* handles, and its EspCreateRule may return a handle that no one keeps.   *)
(***************************************************************************)
Exercise ==
  /\ phase = "ready" /\ role = "service"
  /\ queue' \in {queue, queue \/ client = "open"}
  /\ withdrawn' \in {withdrawn} \cup {armed : c \in {client} \cap {"open"}}
  /\ \/ UNCHANGED <<open, stray>>
     \/ \E h \in Handles \ open : open' = open \cup {h} /\ stray' = stray \cup {h}
  /\ UNCHANGED <<phase, callerVars, client, compat, hasCloseRule, patch, rules, k,
                 loopVars, armed>>

Install ==
  \/ SkipRule \/ PatchFails \/ CreateRuleFails \/ CreateRule \/ BuildDone
  \/ SubmitAccepted \/ SubmitRefused \/ SubmitDone \/ CompactSlot \/ CompactDone

\* The process has exited.
Terminated == phase = "gone" /\ UNCHANGED vars

Next ==
  \/ Connect \/ CreateQueue \/ RemoveAllRules
  \/ InstallRejected \/ InstallBegin \/ Install
  \/ Exercise \/ Disconnect \/ Terminated

Spec == Init /\ [][Next]_vars

--------------------------------------------------------------------------------
(***************************************************************************)
(* Properties.                                                             *)
(***************************************************************************)
\* Every variable holds a value of its kind, and a handle in rules_ is one
\* EspCreateRule returned or the null a refused submit leaves.
TypeOK ==
  /\ role \in Roles
  /\ phase \in {"connect", "queue", "remove", "ready", "build", "submit",
                "compact", "end", "closed", "gone"}
  /\ doc \in Seq(RuleSpec)
  /\ installs \in Nat
  /\ status \in {"none", "running", "Complete", "Partial", "Failed"}
  /\ client \in {"pending", "open", "failed", "closed"}
  /\ queue \in BOOLEAN /\ compat \in BOOLEAN /\ hasCloseRule \in BOOLEAN
  /\ patch \in {"untried", "ok", "failed"}
  /\ rules \in Seq(Handles \cup {Null})
  /\ k \in Nat \ {0} /\ before \in Nat /\ wr \in Nat /\ committed \in Nat
  /\ entries \in Seq(Entry)
  /\ allOk \in BOOLEAN
  /\ rejected \subseteq Handles
  /\ open \subseteq Handles
  /\ armed \subseteq Entry /\ withdrawn \subseteq Entry
  /\ stray \subseteq Handles

\* The handles of the rules the driver accepted in this session, and the rules
\* it still holds.
ArmedHandles == {e.rule : e \in armed}
LiveRules == armed \ withdrawn

\* A MatchSubrules rule the driver accepted refers to a rule that the driver
\* accepted before it and whose handle is still open, never to a rule that was
\* rejected and closed between the build loop and the submit loop, and never
\* to a stale handle of an earlier install (EspRuleInstall.cpp, submit loop).
\* A predecessor of an earlier install may have been withdrawn by an Exercise
\* request since; one of the same install is in the driver whenever the rule is.
SubrulesAnchored ==
  /\ \A e \in armed : e.sub # Null => e.sub \in ArmedHandles /\ e.sub \in open
  /\ \A e \in LiveRules : e.anchor # Null => \E a \in LiveRules : a.rule = e.anchor

\* Between installs rules_ is dense, holds no handle twice, and holds exactly
\* the handles of the rules the driver accepted, whether or not an Exercise
\* request has withdrawn them since (it removes the rules and leaves rules_
\* alone).  With EspCloseRule exported no other handle is open but those that
\* Exercise requests created and dropped, and only these outlive Disconnect.
HandlesBalanced ==
  /\ phase \in {"ready", "end"} =>
       LET held == {rules[i] : i \in DOMAIN rules}
       IN /\ \A i, j \in DOMAIN rules : rules[i] = rules[j] => i = j
          /\ held = ArmedHandles
          /\ held \subseteq open
          /\ hasCloseRule => open = held \cup stray
  /\ phase \in {"closed", "gone"} => rules = <<>> /\ (hasCloseRule => open = stray)

\* The status InstallRules returned says exactly what the driver accepted:
\* Complete when it took every rule of the document, Failed when it took none,
\* Partial otherwise.  The
\* commands turn anything but Complete into a non-zero exit code.
StatusHonest ==
  LET Armed(i) == \E e \in armed : e.index = i /\ \E j \in DOMAIN entries : entries[j] = e
  IN /\ status = "Complete" => \A i \in DOMAIN doc : Armed(i)
     /\ status = "Partial"  => /\ \E i \in DOMAIN doc : Armed(i)
                               /\ \E i \in DOMAIN doc : ~Armed(i)
     /\ status = "Failed"   => \A i \in DOMAIN doc : ~Armed(i)

\* An armed rule that asks for "deny" carries the enforcing selector, for an
\* event type whose driver record has the enforce bit; and an armed enforcing
\* rule of a type only the patched client can build was built under the opt-in
\* with the patch in effect.  The service therefore never arms one.
DenyEnforces ==
  \A e \in armed :
    /\ e.spec.actionName = "deny" =>
         e.selector = kActionDeny /\ IsDriverEnforceCapable(e.spec.eventType)
    /\ e.selector = kActionRewrite /\ IsEnforceCompatEventType(e.spec.eventType)
         => compat /\ patch = "ok" /\ role # "service"

\* A queue-backed rule is accepted only in a session that has a queue, and the
\* queue lives as long as the rule.  The service creates none for a document:
\* it arms such a rule only after an Exercise request has created the queue.
QueueBackedHasQueue ==
  \A e \in armed : e.selector = kActionQueueBacked => queue

\* A statement the code does not meet (README.md): rules/README.md says of
\* persist-rules that it forces the lifetime to
\* Persistent on every rule.  The command exits with 0 when the install is
\* Complete and the driver lists at least one persistent rule.
PersistForced ==
  LET Persistent(e) == e.lifetime = kLifetimePersistFfi
  IN role = "persist" /\ status = "Complete" /\ (\E e \in armed : Persistent(e))
       => \A e \in armed : Persistent(e)

\* While the session lasts no step of an install takes an accepted rule or its
\* handle away, its own or an earlier install's: the rules go only all at once,
\* withdrawn by an Exercise request of the service between two installs, and
\* the handles stay open even then.
ArmedRulesStay ==
  [][phase' \notin {"closed", "gone"} =>
       /\ \/ LiveRules \subseteq LiveRules'
          \/ role = "service" /\ phase = "ready" /\ LiveRules' = {}
       /\ \A e \in armed : e.rule \in open => e.rule \in open']_vars

--------------------------------------------------------------------------------
(***************************************************************************)
(* Refinement: the decision the abstract contract sees for each rule.      *)
(***************************************************************************)
OutcomeOf(i) ==
  LET mine == {j \in DOMAIN entries : entries[j].index = i}
  IN IF \E j \in mine : entries[j] \in armed
     THEN "armed"
     ELSE IF \/ phase = "build" /\ (i >= k \/ mine # {})
             \/ phase = "submit" /\ \E j \in mine : j >= k
          THEN "pending"
          ELSE "refused"

Outcome == IF status = "none" THEN <<>> ELSE [i \in DOMAIN doc |-> OutcomeOf(i)]

Contract == INSTANCE InstallContract WITH outcome <- Outcome, status <- status

\* Every step of the install loops is a step of the contract or leaves it
\* unchanged.
RefinesContract == Contract!CSpec
================================================================================
