# A TLA+ model of esptool

`esptool` is a C++20 harness for the Windows Endpoint Security Platform. It
drives `espclient.dll`, which talks to the driver `wesp.sys`: it registers and
connects clients, installs rule documents, pumps event notifications, keeps
persistent rules, and offers the same over a named pipe from a service. These
modules model the parts of its own code (`src/esptool/src`) that keep state or
run concurrently. The library, the driver and Windows are external: they are
modelled by the answers the code has to cope with.

## Inventory

| Component | State | Operations | Hard behaviour | What makes it correct |
| --- | --- | --- | --- | --- |
| Rule install, `esp/EspRuleInstall.cpp` | `rules_`, the locals of `InstallRules`, the cached patch outcome | gates, `EspCreateRule`, `EspUpdateRules` per rule, compaction | failure at any of four stages of any rule; descriptors built before the first submit; several installs in one session, and the service's `Exercise` requests between them | no rule refers to a dead handle, no handle leaks or is closed while armed, the status is honest, a deny is armed only where it can block |
| Client registration and sweep, `cli/Commands.cpp`, `esp/EspSession.cpp` | the driver's client table, `registered_this_session_`, `unregister_on_disconnect_` | enumerate, probe, unregister; register with altitude retry, connect, disconnect | several processes, each call a separate step; crashes; collisions | persistent clients are kept, orphans are released, commands end |
| Notification pump, `esp/EspSession.cpp` | `notification_`, `pump_event_`, the count | connect queue, arm, complete, re-arm, callback / IOCP | callback thread, deadline, late callbacks | a buffer has one user at a time, no delivery is missed, each is counted once, the pump ends |
| Filter construction, `esp/EspFilterBuild.cpp`, `esp/EspFilterAttach.h` | `filters_` and blobs | leaf, binary, not, tree, attach | a failing call or a missing export in the middle of a tree | no filter handle is lost or closed twice; a rule's filters stay open until `Disconnect` |
| References and queries, `esp/EspRefs.cpp` | `object_refs_`, views, query buffers | mint, duplicate, unwrap, query, close | failures half way; addresses reused | one owner per reference, nothing used after its close, nothing kept |
| Collections, `esp/EspRuleInstall.cpp`, `esp/EspRefs.cpp` | `collections_`, `named_collections_` | create, open, fill, name, close | several documents in one session | a filter gets the collection of its own document |
| Pipe channel and service, `ipc/PipeChannel.cpp`, `ppl/ProtectedService.cpp` | pipe instance, stop flag, session, connect thread | frame, serve one, connect with retry, exchange; control handler, join, stop | time-outs on both sides, cancelled I/O, STOP at any time | own answers only, none lost, teardown alone, STOP ends the serving |
| Trust and worker hop, `process/SameImage.cpp`, `ppl/*`, `cli/Options.cpp` | token attribute, plan, child process | probe, plan, hop, launch with retry, wait, set, verify, clear; the isolated sweep | a retry of a launch that happened; token writes that do nothing; a process per export that may hang | the driver command runs with the token that was planned |
| Enforce-compat patch, `esp/EspEnforceCompat.cpp` | bytes and protection of one code page | locate, protect, write, restore, revert | a failure between two steps; later sessions in the same image | all or nothing, idempotent |
| Rule parser, `model/RuleParser.cpp` | current rule and collection, combinator stack | start tag, end tag, text, end of document | empty elements, nesting, misplaced elements, numeric limits | the document holds what was written |
| Session teardown, `esp/EspSession.cpp` | all handle vectors of `EspSession` | `Disconnect`, twice | handles with two owners | every handle closed once |
| Export exercise, `esp/EspExercise.cpp` | none of its own: the session of its caller | every export once, in process or in a process each | runs on the service's live session | what it withdraws and leaves behind does not mislead the next install |
| Decoders, paths, catalogue, loading, utilities | none beyond a call | pure functions and text | byte layout | not modelled, see below |

The components meet in `EspSession`: a command (`RunRules`, `RunMonitor`,
`RunPersistRules`) first sweeps the driver's client table, then connects a
session, installs its document, possibly pumps notifications, and disconnects.
Processes share nothing but the driver's table. The service shares one session
between its connect thread and its request handler, whose `Rules` and `Exercise`
requests work on it in turn. `PROJECT.json` lists every
component with its sources, and the hazards at their lines.

## Modules

**RuleActions** holds the tables the install decides with: the selector a rule
resolves to (with the truncation of the 64-bit action to `U32`), whether that
needs a queue, the driver's capability record per event type, and which types
need the in-memory compat patch.

**RuleInstall** is one `EspSession` that installs documents. `rules` is
`rules_`; `k`, `entries` (with the parallel `subrule_anchors` as the field
`anchor`), `before`, `allOk`, `committed`, `rejected` and `wr` are the locals of
`InstallRules`; `patch` is the cached outcome of `EnsureEnforceCompatPatch`;
`hasCloseRule` is whether the library exports `EspCloseRule`. `open` and `armed`
are external: the handles the library has open and the entries the driver
accepted, `withdrawn` those of them taken back since. The actions follow the code: `Connect`, `CreateQueue`,
`RemoveAllRules` (the prologue in `PrepareRulesSession`), `InstallRejected` and
`InstallBegin` (the preconditions), one step per rule in the build loop
(`SkipRule`, `PatchFails`, `CreateRuleFails`, `CreateRule`), one per entry in the
submit loop (`SubmitAccepted`, `SubmitRefused`), one per slot in the compaction
(`CompactSlot`, `CompactDone`), and `Disconnect`. In the service `Connect` may
happen between any two of them, and `Exercise` between two installs: an Exercise
request calls every export on the service's live session, which creates its queue
(`EspExercise.cpp:479`), withdraws all its rules while `rules_` keeps their handles
(`:130`), and may get a rule handle that nobody keeps (`:247`, `stray`). A closed
handle's value may be returned again by `EspCreateRule`.

**InstallContract** is what `InstallRules` promises its callers: each rule is
decided once, a decision is not taken back, and the status summarises the
decisions exactly. `RuleInstall` implements it (`RefinesContract`, checked and
proved) under the mapping `Outcome`, which reads the decision about a rule off
the loops.

**ClientRegistry** is several processes over the driver's client table. Each
runs `rules`, `persist` or `unregister` (`--all`); each call into the driver is
a step. `id` is the GUID of the document's client; two processes, or a process
and a client left behind, may share it. `altitude` is the offset from the base
altitude in steps. The driver's name scan is not modelled: the reference on the
driver says that no trace covers it. `InstallDocument` is the whole of
`PrepareRulesSession` after `Connect`, reduced to what the registry sees: whether
a persistent rule was armed and whether the command will report success.
With `Faults` any call may fail; with `Crashes` a process may die at any step
and the driver closes its session. A second session on a connected client is
refused; the code relies on it ("Could not connect to inspect; fail-closed
preserve").

**NotifyPump** is a session after its install, from `PumpNotifications` or
`PumpNotificationsIocp` to the second `Disconnect`. Three actors interleave: the
pump thread, the library's thread that runs `HandleQueueNotification` in three
steps (store `notification_`, read `pump_event_`, signal), and the clock, whose
three values are before the hold ends, before the deadline, and past it. A wait
ends with its notification, at the deadline, or by failing at any time
(`WaitFails`; the code takes every other result for the end of the loop); `gaveUp`
records the last two. A buffer is idle, armed (the library's), ready, or freed.

**FilterBuild** walks a filter tree as `CreateFilterTree` does. A tree is a
function on paths, so that the recursion is a walk and `built` stands for the
locals `left`, `right` and `child`. `filters` is `filters_`; `lacking` is what
this library does not export. `Slots` says where `AttachFilterToDescriptor` puts
the root, by event class. `Disconnect` closes `filters_` in one step and `rules_` in
the next, as the code does, and both once more in the destructor.

**ObjectRefs** runs `query`, `refs`, `refs --from-notify`, `context` and
`monitor` with `<query>` rules over one session. `stored` is `object_refs_`,
`open` the references the library has open, `buffers` the query results not yet
freed, and `arrays` the enumeration arrays that the sweep of `monitor` and
`refs --from-notify` leaves (`CleanOrphanClients`; what the sweep does to the clients
is ClientRegistry's). A closed address may come back from the next create call, which is what
makes a stale copy in `stored` dangerous.

**Collections** covers the collections of a document over several installs of one
session, and the `collections` command in all its forms. `owned` is
`collections_`, `named` is `named_collections_`, `content` (external) what the
library holds under each handle and which declaration it came from.

**PipeService** composes the pipe with the service: `ServiceMain` and
`ServeLoop`, the control handler, the connect thread, `ServeOne` with its framing
checks, `Uninstall`, and the `ipc` clients with their attempts and time-outs. The
handler is a thread of its own: it stores the flag, or reads the state it was
asked for, in one step and reports in another, so that its report may come after
the service's own `STOPPED`. One pipe instance exists at a time, from
`CreateNamedPipe` on, also while `ConnectNamedPipe` may still fail. `late` counts the
requests that run after STOP.

**WorkerHop** is the dispatch of one command line over up to `MaxProcesses`
processes, each a copy of the same program: probe, plan, hop, launch and retry,
token change and verification, command. `attr` is the token attribute of each
process; a child starts with a copy of its parent's. With `exercise --isolated` the
process that runs the command starts a `--worker call-one` process per export
(`CreateCallOne`), which plans its own token from a line without the user's flags,
may hang, and is terminated after a time-out; `swept` counts the outcomes.

**CompatPatch** is the in-memory patch over every image of a few addresses, for
several sessions of one process. `bytes` and `prot` outlive the session;
`session` is the attempt and the answer that `EspSession` caches.

**RuleParser** is the pass over the nodes of the XML reader. `xml` is the reader's
element stack, which the code does not see; `rule`, `coll`, `inEntry`, `stack` and
`roots` are the parser's own idea of where it is. Character data comes as text, white
space or CDATA; the parser takes the first two. A rule's attributes only matter as
accepted or refused. `seen`, `texts`, `lost`, `plain` and `indirect` record what was
written, for the properties. `StackAgrees` is the
order-preserving map between the parser's stack and the combinators open in `xml`.

The modules named **...Proofs** hold the theorems about the module they are named
after, and **DocumentProofs** those about RuleParser, Collections and FilterBuild.
It extends all three, which is why they use different names for their
specifications (`ParserSpec`, `Spec`, `FilterSpec`) and variables; no theorem
relates two of them. See Proofs below.

The **MC** modules hold the documents, command lines and symmetry sets of the
runs; `MCRuleParser` also holds `DocumentKept`, whose tree walk is recursive.
Definitions whose names carry an underscore, such as `SubmitRefused_ClosesBatch`,
are deliberate faults: put in the place of the definition before the underscore
they make a property fail, which shows that the property can.

## Runs

| Run | Module | Shows |
| --- | --- | --- |
| `rule_install` | RuleInstall | a command or `persist-rules` with one document, or the service with two, its client connecting meanwhile and Exercise requests between them; no dead anchors, no lost or doubled handles, no accepted rule taken away by an install, honest status (the contract), denies that block |
| `registry_commands` | ClientRegistry | with failing calls, deaths and GUID collisions no command releases a client kept by an earlier `persist-rules`, and every command ends |
| `sweep_orphans` | ClientRegistry | three sweeps that block each other leave no orphan |
| `persist_survives` | ClientRegistry | violation: a sweep releases a client that `persist-rules` has just kept |
| `notify_pump` | NotifyPump | the buffer has one user, no wake-up is lost, each notification is counted once, after the loop nothing is armed or under way unless the pump gave up waiting, the pump ends |
| `filter_trees` | FilterBuild | every tree, failing at every node, with and without the exports, to the second `Disconnect` |
| `object_refs` | ObjectRefs | references, views, buffers, triggers and exit codes of five commands |
| `collections` | Collections | collections of repeated installs and of the command |
| `pipe_service` | PipeService | two clients against the service loop, the control handler, the connect thread, STOP and uninstall; at most one request runs after STOP |
| `worker_hop` | WorkerHop | every trust plan, host and inherited token, with failing launches, waits and token writes, and an isolated sweep whose exports hang |
| `compat_patch` | CompatPatch | three sessions over every image of three addresses |
| `parse_documents` | RuleParser | every document of up to five start tags |

Bounds. *rule_install*: three rules suffice for a chain of two subrules behind a
rule that is refused, and for a refused entry between two accepted ones, the cases
the compaction and the anchors are about; with three handles over two installs
closed values come back. `U32` is 10000 instead of 2^32: larger than every event
type and selector, so that only a deliberately large action is truncated.
`MaxInstalls` bounds the Rules requests one service session serves; Exercise requests
are not bounded. The run uses the symmetry of the handles. *ClientRegistry*:
two GUIDs give a shared and a foreign client; two altitude attempts give a retry
that succeeds and one that runs out; three processes let two sweeps block a third.
*notify_pump*: two buffers and two events let a second delivery meet the first
one's handling; the caps 0, 1 and "more" are the three cases of `--max`.
*filter_trees*: eight handles are as many as the largest two-rule document
creates; the trees nest in either child. *object_refs*: three addresses hold a
reference, its duplicate and the one by id; two notifications let the second find
what the first left; `MaxClients` is 2, a sweep that probes none, some or all. *collections*: four handles for two declarations in two
installs. *pipe_service*: two clients give one that waits while another is served; a busy pipe is tried
`kConnectAttempts = 3` times instead of 5, enough for a client that gets in late and
one that gives up. *worker_hop*: four processes are a parent, a worker and the retry,
or a parent, a worker and the `call-one` processes of two exports. *compat_patch*:
three addresses give none, one and several matches; three sessions let one find a
page that an earlier one left writable. *parse_documents*: five start tags reach
depth two with siblings, `MaxDepth` is 2 and the numbers have 3 bits, so that both
limits lie within reach.

Deadlock is checked where a finished system stutters by an action of its own
(`Terminated`, `Ended`, `Done`); it is not checked in `pipe_service`,
`worker_hop`, `compat_patch`, `collections` and `parse_documents`, where the
command, the service or the document simply ends. In `pipe_service` and
`worker_hop` the liveness properties exclude a stop before that end.

Fairness. Weak fairness only, and never of a call's success: of every process of
`ClientRegistry` (each call into the library returns); of the pump thread and the clock (the pump's waits have a
time-out); of the service's steps, the connect thread's return and the clients'
steps; of every process of `WorkerHop`. In the service the waits for a client, a
request and a write have time-outs and `EspConnectClient` returns, but
`FlushFileBuffers` has no time-out: `StopCompletes` rests on the connected client,
which is an `ipc` command that reads its reply or gives up after its own time-out. In
`WorkerHop` a wait that fails is not assumed to happen, a `call-one` process may
hang for ever, and the parent's wait for its worker is `INFINITE`
(`SameImage.cpp:283`), so that `CommandEnds` assumes that each call a command makes
itself returns. Nothing is assumed of the driver's events, of callbacks, of STOP, of the
control handler or of crashes.

## Statements the code does not meet

`persist_survives` is a run: between `EspRegisterClient` and `EspConnectClient` a
new client looks like an orphan. A sweep that counts its rules then and is delayed
unregisters it after it was given persistent rules, connected, disconnected and
reported as kept. Clients that were persistent before the sweep began are safe
(`PersistClientsPreserved`, proved).

The following are definitions in the modules that state what a document or comment
of the repository says; named as an INVARIANT (`ServedUntilDisconnect` as a
PROPERTY) in the configuration of their module, TLC refutes each of them. `RulesUnregisters`
needs `sweep_orphans` with `MayPersist = TRUE`, `CombinatorCeiling` needs
`parse_documents` with `MaxDepth = 1`; the others the configuration as it is.

| Definition | Statement | Code |
| --- | --- | --- |
| `RuleInstall!PersistForced` | rules/README.md:17, persist-rules forces the lifetime on every rule | `EspRuleInstall.cpp:523` prefers the rule's `modifier` attribute |
| `ClientRegistry!RulesUnregisters` | docs/esptool_tech_reference.md:278, "Disconnects and unregisters" | `EspSession.cpp:167`: refused while a sweep probes the client, the result is not looked at; with persistent rules (`MayPersist`) nobody releases it later |
| `NotifyPump!HoldWithoutQueue` | EspSession.cpp:540, without a queue "the hold still has to be honored" | `EspSession.cpp:585`: the completion-port pump returns at once |
| `NotifyPump!FreedOnce` | tests/EspSessionFailClosedTest.cpp:209, "Disconnect is safe twice" | `EspSession.cpp:493`: a late callback stores the pointer after it was freed |
| `FilterBuild!RuleCarriesFilter` | docs/esptool_tech_reference.md:681, the rule gets the tree's handle | `EspRuleInstall.cpp:321`: a process-create rule keeps only a process leaf at the root |
| `FilterBuild!EmptyProcessCreateBare` | rules/README.md:278, an empty filter leaves the event configuration null | `EspRuleInstall.cpp:320` binds the blob always |
| `FilterBuild!NumericOperatorsAccepted` | rules/README.md:327, numeric comparand 4 is "Less Than or Equal" | `EspFilterBuild.cpp:102` takes comparand 4 for a collection first |
| `ObjectRefs!ContextKeysFreed` | docs/wesp_re_tech_reference.md:2972, enumeration arrays are freed with `EspFreeMemory` | `EspSession.cpp:478` returns without it |
| `ObjectRefs!SweepArraysFreed` | docs/wesp_re_tech_reference.md:2972, enumeration arrays are freed with `EspFreeMemory` | `EspSession.cpp:228` and `:255` return without it |
| `ObjectRefs!QueryAlwaysZero` | Commands.cpp:518, query always returns 0 | `Commands.cpp:1051` returns 1 after a failed connect with `--kind` |
| `Collections!LifetimeAsked` | README.md:428, `--lifetime` is the collection's lifetime | `EspRefs.cpp:26` writes no lifetime |
| `PipeService!UninstallStops` | docs/esptool_tech_reference.md:571, uninstall "Stops and deletes" | `ProtectedService.cpp:281` sends STOP and does not wait |
| `PipeService!ServedUntilDisconnect` | PipeChannel.h:43, serves a connection "until the client disconnects or Stop is called" | `PipeChannel.cpp:277` disconnects after one exchange |
| `WorkerHop!OneWorker` | SameImage.h:23, the outcome is the "Result of CreateProcessW on this image" | `SameImage.cpp:285`: a failed wait is retried as if no worker had started |
| `WorkerHop!HopChangesToken` | README.md:94, a hop only when the token needs stamping or cleanup | `Options.cpp:415`: the worker plans again and may do neither |
| `CompatPatch!LocatedUniquely` | EspEnforceCompat.h:312, fails on more than one match | `EspEnforceCompat.cpp:328`: a known address that matches ends the search |
| `RuleParser!EntryDirect` | rules/README.md:49, an entry is a direct child of a collection | `RuleParser.cpp:294` takes one anywhere below |
| `RuleParser!EntryRefusedOutside` | rules/README.md:74, refused outside a collection | `RuleParser.cpp:379`: the end of a nested collection ends the outer one |
| `MCRuleParser!EntryTextKept` | rules/README.md:405, an entry is a "Collection item text payload" | `RuleParser.cpp:383` drops CDATA sections |
| `MCRuleParser!CombinatorCeiling` | rules/README.md:33, nesting is bounded by `kMaxDepth` | `RuleParser.cpp:434` adds one `And` after the check |

A library without the export of a combinator also leaves that combinator's
children open (`EspFilterBuild.cpp:165`); `FiltersOwned` says what still holds then.

## Proofs

The theorems hold for every value of the constants that satisfies the named
assumptions of the modules: any document, any number of processes, clients,
notifications, images, sessions and command lines. Hardly any of the properties
is inductive by itself, so each module has an invariant (`IndInv`; in
DocumentProofs `ParserInv`, `CollectionInv` and `FilterInv`) that says where
everything is at each step of the code; TLC checked every one of them on the
configuration of its run before it was proved.

| Module | Proved | Invariant |
| --- | --- | --- |
| `RuleInstallProofs` | `TypeOK`, `SubrulesAnchored`, `HandlesBalanced`, `DenyEnforces`, `QueueBackedHasQueue`, `ArmedRulesStay` | while building, the tail of `rules_` after `before` is exactly the handles of `entries`; while submitting, a slot of that tail is its entry's handle, or null when the entry was rejected; an entry's captured predecessor is an earlier entry or an armed rule of an earlier install; the slots the compaction has written are the non-null slots it has read; what an Exercise request leaves is in no slot, and what it withdraws is withdrawn with its anchors |
| `RuleInstallProofs` | `RefinesContract`, `StatusHonest` | `RefInv`, on top of the former: at most one entry for each rule of the document (`OneEntryPerRule`); `all_ok` is true exactly if every rule met so far has an entry (`AllOkFits`); `committed` is zero and `rejected` empty exactly if no entry, or every entry, submitted so far is armed (`CountsFit`) |
| `ClientRegistryProofs` | `TypeOK`, `PersistClientsPreserved`, `NoOrphansLeft` | an id about to be released was counted empty while the counting session kept everybody else out (`ReleaseSafe`, `SessionHeld`); a session owns only a registration that did not exist before it (`OwnedSafe`); for the orphans, `OrphanInv`: every client nobody wants to keep has a process that will still deal with it (`CaredFor`) |
| `NotifyPumpProofs` | `TypeOK`, `PumpOwnsBuffer`, `NoLostWakeup`, `CountedOnce`, `QuietUnlessGivenUp` | the session's one buffer is in exactly one place: with the library, with the callback, behind the signalled event, on the completion port, or with the pump (`Waiting`, `Pumping`) |
| `PipeServiceProofs` | `TypeOK`, `OwnAnswerOnce`, `WrittenReplyArrives`, `TeardownAlone`, `OneAfterStop` | a pipe instance exists only inside `ServeOne`, and what is under way in it belongs to its one client (`Instance`); a request has not run before it is handled (`Connected`); a reply exists only for a request that ran (`Answered`); once a request has run after STOP the loop makes no further instance |
| `WorkerHopProofs` | `TypeOK`, `TokenAsPlanned`, `WorkerIsLast`, `SuccessWasEarned` | between `Dispatch` and `PrepareThisProcess` the plan still fits the token (`PlanFits`); a process that may hop has not touched its token (`HopsUntouched`); workers carry `--worker` and launchers do not (`WorkersFlagged`); the processes a sweep has started run `call-one` and start none (`CallsOne`) |
| `ObjectRefsProofs` | `TypeOK`, `RefsOwned`, `NothingKept`, `ExitTellsCreated` | between its creation and its close the reference in hand is open, the second one differs from it, and the view belongs to one of the two (`InHand`) |
| `CompatPatchProofs` | `TypeOK`, `RefusalLeavesNoPatch`, `OneSitePatched` | what differs from the loaded image is the one match, patched (`OnlyTheMatchChanged`) |
| `DocumentProofs`, parser | `ReaderAgrees`, `RefusedOutOfRange` | at most one `rule` is open in the reader, and combinators are open only inside it (`NestingInv`); `rule` is the last rule exactly while one is open, `coll` is the last collection or none, `inEntry` holds only inside an entry (`BelievedInv`); the stack holds the open combinators, in order (`StackInv`) |
| `DocumentProofs`, collections | `TypeOK`, `FilterGetsItsCollection`, `ClosedOnceByTheEnd`, `ExtendedHonest` | the handles in `owned` are the open ones (`OpenInv`); the pairs in `named` follow the order of the declarations and none is left out while `all_ok` holds (`NamedInv`); the collection in hand is that of the current declaration, with the entries passed so far (`CurrentInv`); what the extended command has done at each step (`PhaseInv`) |
| `DocumentProofs`, filters | `FilterTypeOK`, `FiltersOwned`, `RuleFiltersLive` | the handles in locals of the walk are the node just built and the first children of the combinators whose second child is under way; each is open, differs from the others and is not in `filters_` yet (`HeldInv`); with no export missing every other open handle is in `filters_` (`OwnedInv`); whatever a rule refers to is in `filters_` (`LiveInv`) |

The arguments, where they are not those of the invariant:

* `SubrulesAnchored`: an entry reaches the driver only if its anchor was not
  rejected, and then the anchor, being earlier in `entries`, has been accepted.
* `RefinesContract`: every step of the loops maps to one decision of
  `InstallContract` or to none. What needs the invariant is the last step of an
  install: the status is computed from `committed`, `rejected` and `all_ok`, and
  `RefInv` says that these three agree with the decisions.
* `NoOrphansLeft`: the release of an orphan, or a command's own unregister, is
  refused only while another process has a session on the client. That process
  is counting its rules, and releases it afterwards, or is a command with that
  GUID, and unregisters it. `OrphansNeverLeft` assumes what this needs: at least
  one command (without one nobody sweeps), no call that fails by itself and no
  persistent rules in a document of `rules`, since the code gives up after a
  failed call and keeps a client with persistent rules on purpose.
* `OneSitePatched`: the patched bytes match too, so that patching a site does not
  change what `FindFromFfiPatchSite` finds (`PatchKeepsMatches`): a later session
  finds the site that an earlier one patched, and no other.
* `QuietUnlessGivenUp` is where the invariant of the pump ends: once the pump has
  given up waiting, a callback that has begun runs on, which is what refutes
  `FreedOnce`.
* `RuleFiltersLive` ends where `Disconnect` begins to close: the code closes
  `filters_` before `rules_`, and between the two a rule is open without its filters.
* `ReaderAgrees`: the end of a combinator always finds its own entry on top of the
  stack (`AgreesPop`), so the parser's "mismatched" error cannot be reached from a
  well-formed document.
* `FilterGetsItsCollection`: `FindNamedCollection` takes the first pair with the
  name. The pairs are ordered as the declarations are, so that pair is the first
  declaration of the name that was created.
* `RefusedOutOfRange` needs that the bound `2^(Bits - 1)` is a number, which the
  prover does not know of powers; `PowerOfTwo` gets it by counting subsets.
* `FiltersOwned`: a handle leaves the locals in one of three ways. A combinator's
  call moves its children to `filters_` whatever it returns, a second child that
  fails closes the first, and the root goes to `filters_`. A combinator without
  its export does none of these, which is the exception the property states.

Beyond the hypotheses of `OrphansNeverLeft` the proofs cite the named assumptions
on the constants and nothing else; TLC evaluates these on the constants of the
runs. `TreesAssumption` of `FilterBuild` and `DocumentsAssumption` of `Collections`
say that the children of a node, the declarations and the entries are vectors,
numbered without gaps; `ElementsAssumption` of `RuleParser`, that the digits of a
type have no sign.
`LinesAssumption` of `WorkerHop` says that the command lines are records of the
options that matter there.

Model-checked only:

* liveness: `CommandsEnd`, `CommandEnds` of `NotifyPump` and of
  `WorkerHop`, `StopCompletes`, `ClientsEnd`. The prover has no rule for fairness;
* `DocumentKept` of the parser: it compares with what the recursive `Nodes` of
  `MCRuleParser` computes, which takes induction over the document.

## Not modelled

* Notification decoding (`EspNotifyFormat.cpp`) and NT path conversion: one buffer
  or one string in, text out. What could be wrong is the byte layout of an
  undocumented ABI or the wording, neither of which the source settles.
* Of the export exercise (`EspExercise.cpp`) what the calls mean to the driver, the
  handles other than rule handles that it drops, and the registration it repeats
  under the session's GUID. Its effect on the service's session is in RuleInstall, its
  isolated form in WorkerHop.
* The memory a cancelled transfer may still write to (`PipeChannel.cpp:79`): its
  buffer is out of scope by then, and no modelled state depends on it.
* Library loading, status text, the utilities and most of option parsing: no
  protocol state. The options that decide a trust plan are in `WorkerHop`.
* `ApplyEventTypeBypassPatch`, a one-byte patch behind an option of its own, and
  the hash of the library file, which is only logged.
* Installing and configuring the service with the service control manager: a
  sequence of calls with no state of the program's own.
* `unregister --guid` and the commands of `RunConnectedAction`, which connect
  without a sweep.
* The data race on the session's `steps_` and `warnings_` between the connect
  thread and the request handler (`ProtectedService.cpp:104`): the vectors hold
  log text, which no module has.
