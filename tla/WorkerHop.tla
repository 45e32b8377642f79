------------------------------ MODULE WorkerHop --------------------------------
(***************************************************************************)
(* Dispatch of one command line: the trust probe, the trust plan, the hop  *)
(* to a same-image worker process, the change of the process token, and    *)
(* the command, with the call-one processes that exercise --isolated       *)
(* starts, one per export.  A process is a number; 1 is the one the user   *)
(* started.                                                                *)
(*                                                                         *)
(* Windows is external: a child starts with a copy of its parent's token   *)
(* and is never a protected process (CreateProcessW is called without a    *)
(* protection level); a token write may fail, or report success and leave  *)
(* the token as it was.                                                    *)
(***************************************************************************)
EXTENDS Naturals, FiniteSets

CONSTANTS
  Lines,             \* the option records of the run
  Exports,           \* the exports an isolated sweep calls
  MaxProcesses       \* bound on the processes of one command

Processes   == 1..MaxProcesses
Permissions == {"full", "restricted"}

\* "rules" stands for the driver commands that have no part in the hop.
Commands == {"status", "rules", "exercise", "call-one", "provision", "token set",
             "token clear"}

\* The options that the trust plan, the hop and the dispatch look at.
Line == [command : Commands, isolated : BOOLEAN, worker : BOOLEAN, noHop : BOOLEAN,
         forceHop : BOOLEAN, noProvision : BOOLEAN, forceProvision : BOOLEAN,
         noAutoProvision : BOOLEAN, clear : BOOLEAN, permission : Permissions \cup {""}]

ASSUME ProcessesAssumption == MaxProcesses \in Nat \ {0}
ASSUME ExportsAssumption   == Exports \in Nat
ASSUME LinesAssumption     == Lines \subseteq Line

VARIABLES
  systemTcb, testSigning,      \* the host: SYSTEM with SeTcbPrivilege; bcdedit testsigning
  opts, plan, pc, exit,        \* per process: effective options, TrustPlan, its thread
  ppl, attr,                   \* per process: IsAntimalwareLight, WESP://Permission
  worker, tries,               \* the child waited for, RunSameImage calls of LaunchWorker
  swept,                       \* outcomes of RunIsolated
  before,                      \* history: the attribute when the process started
  children, calls              \* history: the workers and the call-one processes started

host  == <<systemTcb, testSigning>>
sweep == <<swept, calls>>
vars  == <<systemTcb, testSigning, opts, plan, pc, exit, ppl, attr, worker, tries, swept,
           before, children, calls>>

NoPlan == [noProvision |-> FALSE, stamp |-> FALSE, clean |-> FALSE, child |-> FALSE,
           target |-> "restricted"]

Init ==
  /\ systemTcb \in BOOLEAN /\ testSigning \in BOOLEAN
  /\ \E line \in Lines, p \in BOOLEAN, a \in Permissions \cup {"absent"} :
       /\ opts = [q \in Processes |-> line]
       /\ ppl  = [q \in Processes |-> q = 1 /\ p]
       /\ attr = [q \in Processes |-> a] /\ before = [q \in Processes |-> a]
  /\ pc = [q \in Processes |-> IF q = 1 THEN "dispatch" ELSE "unborn"]
  /\ plan = [q \in Processes |-> NoPlan] /\ exit = [q \in Processes |-> 1]
  /\ worker = [q \in Processes |-> 0] /\ tries = [q \in Processes |-> 0]
  /\ children = [q \in Processes |-> {}]
  /\ swept = [q \in Processes |-> 0] /\ calls = [q \in Processes |-> {}]

--------------------------------------------------------------------------------
(***************************************************************************)
(* The trust plan.                                                         *)
(***************************************************************************)
CommandNeedsWorker(o) == o.command \in {"rules", "exercise", "call-one", "provision"}

\* exercise --isolated.
Sweeps(o) == o.command = "exercise" /\ o.isolated

CommandNeedsSystemContext(o) == o.command \in {"token set", "token clear"}

ResolvePermission(o, isPpl) ==
  IF o.permission # "" THEN o.permission ELSE IF isPpl THEN "full" ELSE "restricted"

\* The order of the tests decides between flags that contradict one another.
EffectiveNoProvision(o, isPpl, ts) ==
  \/ o.noProvision
  \/ /\ ~o.forceProvision /\ o.permission = "" /\ ~o.noAutoProvision
     /\ ts /\ ~isPpl /\ o.command # "provision"

AutoNoProvision(o, isPpl, ts) == ~o.noProvision /\ EffectiveNoProvision(o, isPpl, ts)

EvaluateTrustPlan(o, isPpl, ts, a) ==
  LET noProvision == EffectiveNoProvision(o, isPpl, ts)
      target      == ResolvePermission(o, isPpl)
      clean       == noProvision /\ a # "absent" /\ ts /\ ~isPpl
      stamp       == ~noProvision /\ CommandNeedsWorker(o) /\ a # target
  IN  [noProvision |-> noProvision, target |-> target, clean |-> clean, stamp |-> stamp,
       child |-> /\ ~o.worker /\ ~o.noHop /\ CommandNeedsWorker(o)
                 /\ o.forceHop \/ stamp \/ clean]

--------------------------------------------------------------------------------
Set(f, p, value) == [f EXCEPT ![p] = value]
Exits(p, code) == pc' = Set(pc, p, "done") /\ exit' = Set(exit, p, code)

\* Dispatch: ProbeCurrentTrustContext and the plan.  A failed probe ends a
\* worker command; another command goes on with an empty context.
Dispatch(p) ==
  /\ pc[p] = "dispatch"
  /\ \/ LET thePlan == EvaluateTrustPlan(opts[p], ppl[p], testSigning, attr[p])
        IN  /\ plan' = Set(plan, p, thePlan)
            /\ opts' = Set(opts, p, [opts[p] EXCEPT
                         !.noProvision = @ \/ AutoNoProvision(opts[p], ppl[p], testSigning),
                         !.clear = @ \/ thePlan.clean])
            /\ pc' = Set(pc, p, IF thePlan.child THEN "hop" ELSE "prepare")
            /\ UNCHANGED exit
     \/ /\ CommandNeedsWorker(opts[p])
        /\ Exits(p, 1) /\ UNCHANGED <<plan, opts>>
  /\ UNCHANGED <<host, ppl, attr, worker, tries, before, children, sweep>>

--------------------------------------------------------------------------------
(***************************************************************************)
(* HopToWorker, LaunchWorker and RunSameImage.                             *)
(***************************************************************************)
\* Fault: --worker is not put in front of the child's arguments.
WorkerArguments_NoFlag(o) == o

\* The parent's tokens with one --worker in front, and the flags the plan set.
WorkerArguments(o) == [o EXCEPT !.worker = TRUE]

\* RequireSystemWithTcb, and LaunchWorker's refusal to hop from a worker.
HopToWorker(p) ==
  /\ pc[p] = "hop"
  /\ IF systemTcb /\ ~opts[p].worker
     THEN pc' = Set(pc, p, "launch") /\ UNCHANGED exit
     ELSE Exits(p, 1)
  /\ UNCHANGED <<host, opts, plan, ppl, attr, worker, tries, before, children, sweep>>

\* Fault: the launch is retried until a worker was waited for.
NotLaunched_Forever(p) ==
  pc' = Set(pc, p, "launch") /\ UNCHANGED <<tries, exit>>

\* LaunchWorker: a RunSameImage that reports "not created" is tried a second
\* time without the standard handles.
NotLaunched(p) ==
  /\ tries' = Set(tries, p, tries[p] + 1)
  /\ IF tries[p] = 0
     THEN pc' = Set(pc, p, "launch") /\ UNCHANGED exit
     ELSE Exits(p, 1)

\* No image path, no handle list, or CreateProcessW failed.
LaunchFails(p) ==
  /\ pc[p] = "launch" /\ NotLaunched(p)
  /\ UNCHANGED <<host, opts, plan, ppl, attr, worker, before, children, sweep>>

\* CreateProcessW: q gets the arguments and a copy of p's token, and p waits.
CreateProcess(p, q, arguments, waiting) ==
  /\ pc[q] = "unborn" /\ \A r \in 1..(q - 1) : pc[r] # "unborn"
  /\ pc'   = [pc EXCEPT ![p] = waiting, ![q] = "dispatch"]
  /\ opts' = Set(opts, q, arguments)
  /\ attr' = Set(attr, q, attr[p]) /\ before' = Set(before, q, attr[p])
  /\ worker' = Set(worker, p, q)

CreateWorker(p) ==
  /\ pc[p] = "launch"
  /\ \E q \in Processes :
       /\ CreateProcess(p, q, WorkerArguments(opts[p]), "wait")
       /\ children' = Set(children, p, children[p] \cup {q})
  /\ UNCHANGED <<host, plan, exit, ppl, tries, sweep>>

\* Fault: the parent exits 0 once its worker has ended.
WorkerEnded_ExitZero(p) == Exits(p, 0)

WorkerEnded(p) == Exits(p, exit[worker[p]])

Wait(p) ==
  /\ pc[p] = "wait" /\ pc[worker[p]] = "done" /\ WorkerEnded(p)
  /\ UNCHANGED <<host, opts, plan, ppl, attr, worker, tries, before, children, sweep>>

\* WaitForSingleObject or GetExitCodeProcess fails: outcome.created is still
\* false, although the worker was created.
WaitFails(p) ==
  /\ pc[p] = "wait" /\ NotLaunched(p)
  /\ UNCHANGED <<host, opts, plan, ppl, attr, worker, before, children, sweep>>

--------------------------------------------------------------------------------
(***************************************************************************)
(* PrepareThisProcess and the command.                                     *)
(***************************************************************************)
\* Fault: the status of NtSetInformationToken is believed.
SetWespPermission_Unverified(p, permission, ok) ==
  attr'[p] \in {attr[p], permission}

\* ADD, then REPLACE; the attribute is read back, and only the value asked for
\* counts as success.
SetWespPermission(p, permission, ok) ==
  attr'[p] \in {attr[p], permission} /\ (ok => attr'[p] = permission)

\* DELETE, and the attribute is read back.
DeleteWespPermission(p, ok) ==
  attr'[p] \in {attr[p], "absent"} /\ (ok => attr'[p] = "absent")

Writes(p) == \E a \in Permissions \cup {"absent"} : attr' = Set(attr, p, a)

\* Clearing comes before stamping: with --clear-attribute nothing is stamped.
PrepareThisProcess(p, ok) ==
  /\ Writes(p)
  /\ IF plan[p].clean \/ opts[p].clear
     THEN DeleteWespPermission(p, ok)
     ELSE IF plan[p].stamp
     THEN SetWespPermission(p, plan[p].target, ok)
     ELSE ok /\ attr'[p] = attr[p]

EnsureWorkerOrTcb(p) ==
  /\ pc[p] = "prepare"
  /\ \/ /\ CommandNeedsWorker(opts[p]) /\ systemTcb
        /\ \E ok \in BOOLEAN :
             /\ PrepareThisProcess(p, ok)
             /\ IF ok THEN pc' = Set(pc, p, "run") /\ UNCHANGED exit ELSE Exits(p, 1)
     \/ /\ ~CommandNeedsWorker(opts[p]) /\ (systemTcb \/ ~CommandNeedsSystemContext(opts[p]))
        /\ pc' = Set(pc, p, "run") /\ UNCHANGED <<attr, exit>>
     \/ /\ CommandNeedsWorker(opts[p]) \/ CommandNeedsSystemContext(opts[p])
        /\ ~systemTcb /\ Exits(p, 1) /\ UNCHANGED attr
  /\ UNCHANGED <<host, opts, plan, ppl, worker, tries, before, children, sweep>>

\* token set resolves its own permission; token clear deletes.
RunToken(p, ok) ==
  /\ Writes(p)
  /\ IF opts[p].command = "token set"
     THEN SetWespPermission(p, ResolvePermission(opts[p], ppl[p]), ok)
     ELSE DeleteWespPermission(p, ok)

\* DispatchLocal and DispatchEsp: a driver command may succeed or fail, an
\* isolated sweep fails only before its first export; provision tells whether
\* the token has the attribute.  A call with call-one's arguments may hang.
Run(p) ==
  /\ pc[p] = "run"
  /\ \/ /\ CommandNeedsSystemContext(opts[p])
        /\ \E ok \in BOOLEAN : RunToken(p, ok) /\ Exits(p, IF ok THEN 0 ELSE 1)
     \/ /\ opts[p].command = "provision"
        /\ Exits(p, IF systemTcb /\ attr[p] # "absent" THEN 0 ELSE 1) /\ UNCHANGED attr
     \/ /\ ~CommandNeedsSystemContext(opts[p]) /\ opts[p].command # "provision"
        /\ \E code \in {0, 1} :
             /\ Sweeps(opts[p]) => swept[p] = (IF code = 0 THEN Exports ELSE 0)
             /\ Exits(p, code) /\ UNCHANGED attr
     \/ /\ opts[p].command = "call-one"
        /\ pc' = Set(pc, p, "hung") /\ UNCHANGED <<attr, exit>>
  /\ UNCHANGED <<host, opts, plan, ppl, worker, tries, before, children, sweep>>

--------------------------------------------------------------------------------
(***************************************************************************)
(* RunIsolated: one hidden same-image process per export, waited for with  *)
(* a time-out.  Its command line has --worker and no other trust flag.     *)
(***************************************************************************)
\* Fault: the call-one processes are started without --worker.
CallOneArguments_NoFlag ==
  [command |-> "call-one", isolated |-> FALSE, worker |-> FALSE, noHop |-> FALSE,
   forceHop |-> FALSE, noProvision |-> FALSE, forceProvision |-> FALSE,
   noAutoProvision |-> FALSE, clear |-> FALSE, permission |-> ""]

CallOneArguments ==
  [command |-> "call-one", isolated |-> FALSE, worker |-> TRUE, noHop |-> FALSE,
   forceHop |-> FALSE, noProvision |-> FALSE, forceProvision |-> FALSE,
   noAutoProvision |-> FALSE, clear |-> FALSE, permission |-> ""]

CreateCallOne(p) ==
  /\ pc[p] = "run" /\ Sweeps(opts[p]) /\ swept[p] < Exports
  /\ \E q \in Processes :
       /\ CreateProcess(p, q, CallOneArguments, "call")
       /\ calls' = Set(calls, p, calls[p] \cup {q})
  /\ UNCHANGED <<host, plan, exit, ppl, tries, swept, children>>

\* The outcome is recorded, and the sweep goes on to the next export.
Recorded(p) == swept' = Set(swept, p, swept[p] + 1)

\* RunSameImage created no process.
CallOneNotCreated(p) ==
  /\ pc[p] = "run" /\ Sweeps(opts[p]) /\ swept[p] < Exports /\ Recorded(p)
  /\ UNCHANGED <<host, opts, plan, pc, exit, ppl, attr, worker, tries, before, children, calls>>

CallOneEnds(p) ==
  /\ pc[p] = "call" /\ pc[worker[p]] = "done"
  /\ pc' = Set(pc, p, "run") /\ Recorded(p)
  /\ UNCHANGED <<host, opts, plan, exit, ppl, attr, worker, tries, before, children, calls>>

\* WaitForSingleObject or GetExitCodeProcess fails; the process stays.
CallOneWaitFails(p) ==
  /\ pc[p] = "call" /\ pc' = Set(pc, p, "run") /\ Recorded(p)
  /\ UNCHANGED <<host, opts, plan, exit, ppl, attr, worker, tries, before, children, calls>>

\* Fault: the wait has no time-out.
CallOneTimesOut_Never(p) == FALSE

\* The time-out: TerminateProcess, whose result is not looked at.
CallOneTimesOut(p) ==
  /\ pc[p] = "call" /\ pc[worker[p]] # "done" /\ Recorded(p)
  /\ \/ /\ pc' = [pc EXCEPT ![p] = "run", ![worker[p]] = "done"]
        /\ exit' = Set(exit, worker[p], 1)
     \/ pc' = Set(pc, p, "run") /\ UNCHANGED exit
  /\ UNCHANGED <<host, opts, plan, ppl, attr, worker, tries, before, children, calls>>

--------------------------------------------------------------------------------
\* The steps a process goes on to take.  A failing wait is not one of them.
Proceeds(p) ==
  \/ Dispatch(p) \/ HopToWorker(p) \/ LaunchFails(p) \/ CreateWorker(p) \/ Wait(p)
  \/ EnsureWorkerOrTcb(p) \/ Run(p)
  \/ CreateCallOne(p) \/ CallOneNotCreated(p) \/ CallOneEnds(p) \/ CallOneTimesOut(p)

Step(p) == Proceeds(p) \/ WaitFails(p) \/ CallOneWaitFails(p)

Next == \E p \in Processes : Step(p)

Spec == Init /\ [][Next]_vars /\ \A p \in Processes : WF_vars(Proceeds(p))

--------------------------------------------------------------------------------
(***************************************************************************)
(* Properties.                                                             *)
(***************************************************************************)
TypeOK ==
  /\ systemTcb \in BOOLEAN /\ testSigning \in BOOLEAN
  /\ opts \in [Processes -> Line] /\ ppl \in [Processes -> BOOLEAN]
  /\ plan \in [Processes -> [noProvision : BOOLEAN, stamp : BOOLEAN, clean : BOOLEAN,
                             child : BOOLEAN, target : Permissions]]
  /\ pc \in [Processes -> {"unborn", "dispatch", "hop", "launch", "wait", "prepare", "run",
                           "call", "hung", "done"}]
  /\ exit \in [Processes -> {0, 1}] /\ tries \in [Processes -> 0..2]
  /\ attr \in [Processes -> Permissions \cup {"absent"}]
  /\ before \in [Processes -> Permissions \cup {"absent"}]
  /\ worker \in [Processes -> 0..MaxProcesses]
  /\ children \in [Processes -> SUBSET Processes]
  /\ swept \in [Processes -> 0..Exports] /\ calls \in [Processes -> SUBSET Processes]

\* A driver command runs only with the token its own process planned: no
\* attribute on a test-signed host without protection when nothing is
\* provisioned, else the permission that was resolved, whatever was inherited
\* and however the token writes failed (PrepareThisProcess, SetWespPermission).
\* A process that hops keeps its own token: Dispatch hops before it prepares.
TokenAsPlanned ==
  \A p \in Processes :
    /\ pc[p] \in {"run", "call", "hung"} /\ CommandNeedsWorker(opts[p]) =>
         /\ plan[p].noProvision /\ testSigning /\ ~ppl[p] => attr[p] = "absent"
         /\ ~plan[p].noProvision /\ ~opts[p].clear => attr[p] = plan[p].target
    /\ children[p] # {} => attr[p] = before[p]

\* A worker never hops, whatever flags the command line had and whatever its
\* own plan says of its token.  The only processes a worker starts are the
\* call-one processes of exercise --isolated, and those, which plan their token
\* anew from a line without the user's trust flags, start none.
WorkerIsLast ==
  \A p \in Processes :
    /\ p # 1 => children[p] = {}
    /\ \A q \in calls[p] : Sweeps(opts[p]) /\ children[q] = {} /\ calls[q] = {}

\* The user sees success only if a process that ran the user's command
\* succeeded (HopToWorker hands on the worker's exit code).
SuccessWasEarned ==
  pc[1] = "done" /\ exit[1] = 0 =>
    \E p \in Processes : /\ pc[p] = "done" /\ exit[p] = 0 /\ children[p] = {}
                         /\ opts[p].command = opts[1].command

\* The command ends: no cycle of hops and retries, and a sweep gets past the
\* export that hangs its process (RunIsolated's time-out).
CommandEnds == <>(pc[1] = "done")

--------------------------------------------------------------------------------
(***************************************************************************)
(* Statements of the repository's documents that the code does not meet:   *)
(* README.md, "Statements the code does not meet".                         *)
(***************************************************************************)
\* A hop runs the command in one worker: the second launch is for a worker
\* that could not be created.
OneWorker == Cardinality(children[1]) <= 1

\* A worker is started without --force-hop only for a token that has to be
\* stamped or cleaned.
HopChangesToken ==
  \A p \in children[1] :
    pc[p] = "run" /\ ~opts[p].forceHop => plan[p].stamp \/ plan[p].clean
================================================================================
