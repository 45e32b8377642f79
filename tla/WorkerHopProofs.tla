---------------------------- MODULE WorkerHopProofs ----------------------------
(***************************************************************************)
(* Safety of WorkerHop for every set of command lines and any number of    *)
(* processes: the inductive invariant and its proof.                       *)
(***************************************************************************)
EXTENDS WorkerHop, TLAPS

(***************************************************************************)
(* The inductive invariant.                                                *)
(***************************************************************************)
\* Between Dispatch and PrepareThisProcess the plan of a process still fits
\* its token: no other process writes it.
PlanFits(p) ==
  pc[p] = "prepare" /\ CommandNeedsWorker(opts[p]) =>
    /\ plan[p].clean => opts[p].clear
    /\ plan[p].clean = (plan[p].noProvision /\ attr[p] # "absent" /\ testSigning /\ ~ppl[p])
    /\ plan[p].stamp = (~plan[p].noProvision /\ attr[p] # plan[p].target)

TokenFits(p) ==
  pc[p] \in {"run", "call", "hung"} /\ CommandNeedsWorker(opts[p]) =>
    /\ plan[p].noProvision /\ testSigning /\ ~ppl[p] => attr[p] = "absent"
    /\ ~plan[p].noProvision /\ ~opts[p].clear => attr[p] = plan[p].target

\* A process that may hop has not touched its token, and only such a process
\* has children.
HopsUntouched(p) ==
  /\ pc[p] \in {"dispatch", "hop", "launch", "wait"} => attr[p] = before[p]
  /\ children[p] # {} => pc[p] \in {"launch", "wait", "done"} /\ attr[p] = before[p]

\* A worker carries --worker, and a process that launches does not; the child
\* waited for exists, and a hop's has its parent's command.
WorkersFlagged(p) ==
  /\ p # 1 /\ pc[p] # "unborn" => opts[p].worker
  /\ pc[p] \in {"launch", "wait"} => ~opts[p].worker
  /\ p # 1 => children[p] = {}
  /\ pc[p] \in {"wait", "call"} => worker[p] \in Processes \ {1} /\ pc[worker[p]] # "unborn"
  /\ pc[p] = "wait" => opts[worker[p]].command = opts[p].command

\* Only a sweep starts call-one processes, and it keeps to its exports.
CallsOne(p) ==
  /\ pc[p] = "unborn" => calls[p] = {}
  /\ pc[p] = "call" => Sweeps(opts[p]) /\ swept[p] < Exports
  /\ \A q \in calls[p] : /\ Sweeps(opts[p]) /\ q \in Processes \ {1} /\ pc[q] # "unborn"
                         /\ opts[q].command = "call-one"

\* LaunchWorker tries twice.
TriesLeft(p) ==
  /\ pc[p] \in {"unborn", "dispatch", "hop"} => tries[p] = 0
  /\ pc[p] \in {"launch", "wait"} => tries[p] \in {0, 1}

IndInv ==
  /\ TypeOK
  /\ pc[1] # "unborn"
  /\ \A p \in Processes : /\ PlanFits(p) /\ TokenFits(p)
                         /\ HopsUntouched(p) /\ WorkersFlagged(p) /\ TriesLeft(p)
                         /\ CallsOne(p)
  /\ SuccessWasEarned

--------------------------------------------------------------------------------
(***************************************************************************)
(* Options and plans.                                                      *)
(***************************************************************************)
Plan == [noProvision : BOOLEAN, stamp : BOOLEAN, clean : BOOLEAN, child : BOOLEAN,
         target : Permissions]

\* The arguments a worker is started with are a command line.
LEMMA WorkerArgumentsTyped ==
  ASSUME NEW o \in Line
  PROVE  /\ WorkerArguments(o) \in Line /\ WorkerArguments(o).worker
         /\ WorkerArguments(o).command = o.command
BY DEF Line, WorkerArguments

\* ResolvePermission yields one of the two permission levels.
LEMMA ResolveTyped ==
  ASSUME NEW o \in Line, NEW isPpl \in BOOLEAN
  PROVE  ResolvePermission(o, isPpl) \in Permissions
BY DEF Line, ResolvePermission, Permissions

\* What EvaluateTrustPlan decides about the token, and that it never sends a
\* worker on another hop.
LEMMA PlanDecides ==
  ASSUME NEW o \in Line, NEW isPpl \in BOOLEAN, NEW ts \in BOOLEAN, NEW a,
         NEW thePlan, thePlan = EvaluateTrustPlan(o, isPpl, ts, a)
  PROVE  /\ thePlan \in Plan
         /\ thePlan.clean = (thePlan.noProvision /\ a # "absent" /\ ts /\ ~isPpl)
         /\ CommandNeedsWorker(o) =>
              thePlan.stamp = (~thePlan.noProvision /\ a # thePlan.target)
         /\ thePlan.child => ~o.worker
<1> DEFINE noProvision == EffectiveNoProvision(o, isPpl, ts)
<1> DEFINE target == ResolvePermission(o, isPpl)
<1>1. noProvision \in BOOLEAN
  BY DEF EffectiveNoProvision, Line
<1>2. target \in Permissions
  BY ResolveTyped
<1>3. o.worker \in BOOLEAN /\ o.noHop \in BOOLEAN /\ o.forceHop \in BOOLEAN
  BY DEF Line
<1>4. CommandNeedsWorker(o) \in BOOLEAN
  BY DEF CommandNeedsWorker
<1> HIDE DEF noProvision, target
<1> DEFINE clean == noProvision /\ a # "absent" /\ ts /\ ~isPpl
<1> DEFINE stamp == ~noProvision /\ CommandNeedsWorker(o) /\ a # target
<1> DEFINE child == /\ ~o.worker /\ ~o.noHop /\ CommandNeedsWorker(o)
                    /\ o.forceHop \/ stamp \/ clean
<1>5. thePlan = [noProvision |-> noProvision, target |-> target, clean |-> clean,
                 stamp |-> stamp, child |-> child]
  BY DEF EvaluateTrustPlan, noProvision, target
<1>6. clean \in BOOLEAN /\ stamp \in BOOLEAN /\ child \in BOOLEAN
  BY <1>1, <1>3, <1>4
<1>7. (CommandNeedsWorker(o) => stamp = (~noProvision /\ a # target)) /\ (child => ~o.worker)
  BY <1>1, <1>4
<1>8. clean = (noProvision /\ a # "absent" /\ ts /\ ~isPpl)
  OBVIOUS
<1> HIDE DEF clean, stamp, child
<1>9. thePlan \in Plan
  BY <1>1, <1>2, <1>5, <1>6 DEF Plan
<1> QED BY <1>5, <1>7, <1>8, <1>9

--------------------------------------------------------------------------------
\* Only the first process exists, and it has resolved nothing.
LEMMA InitIndInv == Init => IndInv
<1> SUFFICES ASSUME Init PROVE IndInv
  OBVIOUS
<1>0. 1 \in Processes
  BY ProcessesAssumption DEF Processes
<1>1. TypeOK
  <2>1. PICK line \in Lines, b \in BOOLEAN, a \in Permissions \cup {"absent"} :
          /\ opts = [q \in Processes |-> line]
          /\ ppl  = [q \in Processes |-> q = 1 /\ b]
          /\ attr = [q \in Processes |-> a] /\ before = [q \in Processes |-> a]
    BY DEF Init
  <2>2. opts \in [Processes -> Line]
    BY <2>1, LinesAssumption
  <2>3. ppl \in [Processes -> BOOLEAN]
    BY <2>1
  <2>4. /\ attr \in [Processes -> Permissions \cup {"absent"}]
        /\ before \in [Processes -> Permissions \cup {"absent"}]
    BY <2>1
  <2>5. plan \in [Processes -> Plan]
    BY DEF Init, NoPlan, Plan, Permissions
  <2>6. /\ pc \in [Processes -> {"unborn", "dispatch", "hop", "launch", "wait", "prepare",
                                "run", "call", "hung", "done"}]
        /\ exit \in [Processes -> {0, 1}] /\ tries \in [Processes -> 0..2]
        /\ worker \in [Processes -> 0..MaxProcesses]
        /\ children \in [Processes -> SUBSET Processes]
        /\ swept \in [Processes -> 0..Exports] /\ calls \in [Processes -> SUBSET Processes]
    BY ProcessesAssumption, ExportsAssumption DEF Init
  <2> QED BY <2>2, <2>3, <2>4, <2>5, <2>6 DEF Init, TypeOK, Plan
<1>2. \A p \in Processes : /\ PlanFits(p) /\ TokenFits(p)
                          /\ HopsUntouched(p) /\ WorkersFlagged(p) /\ TriesLeft(p)
                          /\ CallsOne(p)
  BY DEF Init, PlanFits, TokenFits, HopsUntouched, WorkersFlagged, TriesLeft, CallsOne
<1>3. pc[1] = "dispatch"
  BY <1>0 DEF Init
<1> QED BY <1>1, <1>2, <1>3 DEF IndInv, SuccessWasEarned


\* What a step leaves alone of a process r it is not about.
Kept(r) ==
  /\ pc'[r] = pc[r] /\ opts'[r] = opts[r] /\ plan'[r] = plan[r] /\ exit'[r] = exit[r]
  /\ ppl'[r] = ppl[r] /\ attr'[r] = attr[r] /\ worker'[r] = worker[r] /\ tries'[r] = tries[r]
  /\ before'[r] = before[r] /\ children'[r] = children[r]
  /\ swept'[r] = swept[r] /\ calls'[r] = calls[r]

\* p goes on with its command line and starts no call-one process.
Advances(p) ==
  /\ pc[p] \notin {"unborn", "done"} /\ pc'[p] \notin {"unborn", "call"}
  /\ opts'[p].command = opts[p].command /\ opts'[p].isolated = opts[p].isolated
  /\ calls'[p] = calls[p]

\* What a step of p that touches no other process has to show.
LEMMA LocalStep ==
  ASSUME IndInv, NEW p \in Processes, TypeOK', UNCHANGED host, Advances(p),
         \A r \in Processes \ {p} : Kept(r),
         PlanFits(p)', TokenFits(p)', HopsUntouched(p)', WorkersFlagged(p)', TriesLeft(p)',
         pc'[p] = "done" /\ exit'[p] = 0 /\ children'[p] # {} =>
           \E r \in Processes \ {p} : /\ pc[r] = "done" /\ exit[r] = 0 /\ children[r] = {}
                                      /\ opts[r].command = opts[p].command
  PROVE  IndInv'
<1>1. (pc[1] # "unborn")'
  BY ProcessesAssumption DEF IndInv, Processes, Kept, Advances
<1>2. \A r \in Processes : /\ pc'[r] = "unborn" <=> pc[r] = "unborn"
                           /\ opts'[r].command = opts[r].command
                           /\ opts'[r].isolated = opts[r].isolated
                           /\ calls'[r] = calls[r]
  BY DEF Kept, Advances
<1>3. ASSUME NEW r \in Processes, r # p
      PROVE  (PlanFits(r) /\ TokenFits(r) /\ HopsUntouched(r) /\ TriesLeft(r))'
  BY <1>3 DEF IndInv, PlanFits, TokenFits, HopsUntouched, TriesLeft, host, Kept
<1>4. ASSUME NEW r \in Processes, r # p
      PROVE  WorkersFlagged(r)'
  BY <1>2, <1>4 DEF IndInv, WorkersFlagged, Kept
<1>5. ASSUME NEW r \in Processes
      PROVE  CallsOne(r)'
  <2>1. CallsOne(r)
    BY DEF IndInv
  <2>2. pc'[r] = "call" => pc[r] = "call" /\ swept'[r] = swept[r]
    BY DEF Kept, Advances
  <2> QED BY <1>2, <2>1, <2>2 DEF CallsOne, Sweeps
<1>6. SuccessWasEarned'
  <2> SUFFICES ASSUME pc'[1] = "done", exit'[1] = 0
               PROVE  \E r \in Processes : /\ pc'[r] = "done" /\ exit'[r] = 0 /\ children'[r] = {}
                                           /\ opts'[r].command = opts'[1].command
    BY DEF SuccessWasEarned
  <2>0. 1 \in Processes
    BY ProcessesAssumption DEF Processes
  <2>1. CASE p = 1
    <3>1. CASE children'[1] = {}
      BY <2>0, <3>1
    <3>2. CASE children'[1] # {}
      <4>1. PICK r \in Processes \ {p} : /\ pc[r] = "done" /\ exit[r] = 0 /\ children[r] = {}
                                         /\ opts[r].command = opts[p].command
        BY <2>1, <3>2
      <4> QED BY <1>2, <2>1, <4>1 DEF Kept
    <3> QED BY <3>1, <3>2
  <2>2. CASE p # 1
    <3>1. PICK r \in Processes : /\ pc[r] = "done" /\ exit[r] = 0 /\ children[r] = {}
                                 /\ opts[r].command = opts[1].command
      BY <2>0, <2>2 DEF IndInv, SuccessWasEarned, Kept
    <3>2. r # p
      BY <3>1 DEF Advances
    <3> QED BY <1>2, <2>0, <3>1, <3>2 DEF Kept
  <2> QED BY <2>1, <2>2
<1> QED BY <1>1, <1>3, <1>4, <1>5, <1>6 DEF IndInv

\* HopToWorker keeps the invariant.
LEMMA HopToWorkerIndInv ==
  ASSUME IndInv, NEW p \in Processes, HopToWorker(p)
  PROVE  IndInv'
<1> USE DEF HopToWorker, Set, Exits, sweep
<1>1. TypeOK'
  BY DEF IndInv, TypeOK, host, sweep
<1>2. PlanFits(p)'
  BY DEF IndInv, TypeOK, PlanFits
<1>3. TokenFits(p)'
  BY DEF IndInv, TypeOK, TokenFits
<1>4. HopsUntouched(p)'
  BY DEF IndInv, TypeOK, HopsUntouched
<1>5. WorkersFlagged(p)'
  BY DEF IndInv, TypeOK, WorkersFlagged
<1>6. TriesLeft(p)'
  BY DEF IndInv, TypeOK, TriesLeft
<1>7. UNCHANGED host
  OBVIOUS
<1>8. Advances(p)
  BY DEF IndInv, TypeOK, Advances
<1>9. \A r \in Processes \ {p} : Kept(r)
  BY DEF IndInv, TypeOK, Kept
<1>10. pc'[p] = "done" /\ exit'[p] = 0 /\ children'[p] # {} =>
         \E r \in Processes \ {p} : /\ pc[r] = "done" /\ exit[r] = 0 /\ children[r] = {}
                                    /\ opts[r].command = opts[p].command
  BY DEF IndInv, TypeOK
<1> HIDE DEF HopToWorker
<1> QED
  BY <1>1, <1>2, <1>3, <1>4, <1>5, <1>6, <1>7, <1>8, <1>9, <1>10, LocalStep

\* A failed launch keeps the invariant.
LEMMA LaunchFailsIndInv ==
  ASSUME IndInv, NEW p \in Processes, LaunchFails(p)
  PROVE  IndInv'
<1> USE DEF LaunchFails, Set, Exits, NotLaunched, sweep
<1>1. TypeOK'
  BY SMTT(60) DEF IndInv, TypeOK, host, sweep, Permissions, WorkersFlagged, TriesLeft, Processes
<1>2. PlanFits(p)'
  BY DEF IndInv, TypeOK, PlanFits
<1>3. TokenFits(p)'
  BY DEF IndInv, TypeOK, TokenFits
<1>4. HopsUntouched(p)'
  BY DEF IndInv, TypeOK, HopsUntouched
<1>5. WorkersFlagged(p)'
  BY DEF IndInv, TypeOK, WorkersFlagged
<1>6. TriesLeft(p)'
  BY DEF IndInv, TypeOK, TriesLeft
<1>7. UNCHANGED host
  OBVIOUS
<1>8. Advances(p)
  BY DEF IndInv, TypeOK, Advances
<1>9. \A r \in Processes \ {p} : Kept(r)
  BY DEF IndInv, TypeOK, Kept
<1>10. pc'[p] = "done" /\ exit'[p] = 0 /\ children'[p] # {} =>
         \E r \in Processes \ {p} : /\ pc[r] = "done" /\ exit[r] = 0 /\ children[r] = {}
                                    /\ opts[r].command = opts[p].command
  BY DEF IndInv, TypeOK
<1> HIDE DEF LaunchFails
<1> QED
  BY <1>1, <1>2, <1>3, <1>4, <1>5, <1>6, <1>7, <1>8, <1>9, <1>10, LocalStep

\* A failed wait keeps the invariant.
LEMMA WaitFailsIndInv ==
  ASSUME IndInv, NEW p \in Processes, WaitFails(p)
  PROVE  IndInv'
<1> USE DEF WaitFails, Set, Exits, NotLaunched, sweep
<1>1. TypeOK'
  BY SMTT(60) DEF IndInv, TypeOK, host, sweep, Permissions, WorkersFlagged, TriesLeft, Processes
<1>2. PlanFits(p)'
  BY DEF IndInv, TypeOK, PlanFits
<1>3. TokenFits(p)'
  BY DEF IndInv, TypeOK, TokenFits
<1>4. HopsUntouched(p)'
  BY DEF IndInv, TypeOK, HopsUntouched
<1>5. WorkersFlagged(p)'
  BY DEF IndInv, TypeOK, WorkersFlagged
<1>6. TriesLeft(p)'
  BY DEF IndInv, TypeOK, TriesLeft
<1>7. UNCHANGED host
  OBVIOUS
<1>8. Advances(p)
  BY DEF IndInv, TypeOK, Advances
<1>9. \A r \in Processes \ {p} : Kept(r)
  BY DEF IndInv, TypeOK, Kept
<1>10. pc'[p] = "done" /\ exit'[p] = 0 /\ children'[p] # {} =>
         \E r \in Processes \ {p} : /\ pc[r] = "done" /\ exit[r] = 0 /\ children[r] = {}
                                    /\ opts[r].command = opts[p].command
  BY DEF IndInv, TypeOK
<1> HIDE DEF WaitFails
<1> QED
  BY <1>1, <1>2, <1>3, <1>4, <1>5, <1>6, <1>7, <1>8, <1>9, <1>10, LocalStep

\* Dispatch keeps the invariant: its plan is made from the token the process has.
LEMMA DispatchIndInv ==
  ASSUME IndInv, NEW p \in Processes, Dispatch(p)
  PROVE  IndInv'
<1> DEFINE o       == opts[p]
<1> DEFINE thePlan == EvaluateTrustPlan(o, ppl[p], testSigning, attr[p])
<1> DEFINE auto    == o.noProvision \/ AutoNoProvision(o, ppl[p], testSigning)
<1> DEFINE cleared == o.clear \/ thePlan.clean
<1> DEFINE newOpts == [o EXCEPT !.noProvision = auto, !.clear = cleared]
<1>1. /\ pc[p] = "dispatch" /\ UNCHANGED <<host, ppl, attr, worker, tries, before, children, sweep>>
      /\ \/ /\ plan' = [plan EXCEPT ![p] = thePlan] /\ opts' = [opts EXCEPT ![p] = newOpts]
            /\ pc' = [pc EXCEPT ![p] = IF thePlan.child THEN "hop" ELSE "prepare"]
            /\ exit' = exit
         \/ /\ pc' = [pc EXCEPT ![p] = "done"] /\ exit' = [exit EXCEPT ![p] = 1]
            /\ plan' = plan /\ opts' = opts
  BY DEF Dispatch, Set, Exits
<1>2. o \in Line /\ ppl[p] \in BOOLEAN /\ testSigning \in BOOLEAN
  BY DEF IndInv, TypeOK
<1>3. /\ thePlan \in Plan
      /\ thePlan.clean = (thePlan.noProvision /\ attr[p] # "absent" /\ testSigning /\ ~ppl[p])
      /\ CommandNeedsWorker(o) =>
           thePlan.stamp = (~thePlan.noProvision /\ attr[p] # thePlan.target)
      /\ thePlan.child => ~o.worker
  BY <1>2, PlanDecides
<1> HIDE DEF thePlan
<1>4. cleared \in BOOLEAN /\ auto \in BOOLEAN /\ (thePlan.clean => cleared)
  BY <1>2, <1>3 DEF Line, Plan, AutoNoProvision, EffectiveNoProvision
<1> HIDE DEF auto, cleared
<1>5. /\ newOpts \in Line /\ newOpts.worker = o.worker /\ newOpts.command = o.command
      /\ newOpts.clear = cleared /\ newOpts.isolated = o.isolated
  BY <1>2, <1>4 DEF Line
<1>6. thePlan.clean => newOpts.clear
  BY <1>4, <1>5
<1>7. CommandNeedsWorker(newOpts) = CommandNeedsWorker(o)
  BY <1>5 DEF CommandNeedsWorker
<1> HIDE DEF newOpts
<1>8. TypeOK'
  <2>1. plan' \in [Processes -> Plan]
    BY <1>1, <1>3 DEF IndInv, TypeOK, Plan
  <2>2. opts' \in [Processes -> Line]
    BY <1>1, <1>5 DEF IndInv, TypeOK
  <2>3. pc' \in [Processes -> {"unborn", "dispatch", "hop", "launch", "wait", "prepare",
                               "run", "call", "hung", "done"}]
    BY <1>1 DEF IndInv, TypeOK
  <2>4. exit' \in [Processes -> {0, 1}]
    BY <1>1 DEF IndInv, TypeOK
  <2> QED BY <1>1, <2>1, <2>2, <2>3, <2>4 DEF IndInv, TypeOK, Plan, host, sweep
<1>9. PlanFits(p)'
  <2> SUFFICES ASSUME pc'[p] = "prepare", CommandNeedsWorker(opts'[p])
               PROVE  /\ plan'[p].clean => opts'[p].clear
                      /\ plan'[p].clean = (/\ plan'[p].noProvision /\ attr'[p] # "absent"
                                           /\ testSigning' /\ ~ppl'[p])
                      /\ plan'[p].stamp = (~plan'[p].noProvision /\ attr'[p] # plan'[p].target)
    BY DEF PlanFits
  <2>1. plan'[p] = thePlan /\ opts'[p] = newOpts
    BY <1>1 DEF IndInv, TypeOK
  <2>2. attr'[p] = attr[p] /\ testSigning' = testSigning /\ ppl'[p] = ppl[p]
    BY <1>1 DEF host
  <2> QED BY <1>3, <1>6, <1>7, <2>1, <2>2, Zenon
<1>10. TokenFits(p)'
  BY <1>1 DEF TokenFits, IndInv, TypeOK
<1>11. HopsUntouched(p)'
  BY <1>1 DEF HopsUntouched, IndInv, TypeOK
<1>12. WorkersFlagged(p)'
  BY <1>1, <1>5 DEF WorkersFlagged, IndInv, TypeOK
<1>13. TriesLeft(p)'
  BY <1>1 DEF TriesLeft, IndInv, TypeOK
<1>14. Advances(p)
  BY <1>1, <1>5 DEF IndInv, TypeOK, Advances, sweep
<1>15. \A r \in Processes \ {p} : Kept(r)
  BY <1>1 DEF IndInv, TypeOK, Kept, sweep
<1>16. pc'[p] = "done" /\ exit'[p] = 0 /\ children'[p] # {} =>
         \E r \in Processes \ {p} : /\ pc[r] = "done" /\ exit[r] = 0 /\ children[r] = {}
                                    /\ opts[r].command = opts[p].command
  BY <1>1 DEF IndInv, TypeOK
<1> QED BY <1>1, <1>8, <1>9, <1>10, <1>11, <1>12, <1>13, <1>14, <1>15, <1>16, LocalStep

\* The end of a wait keeps the invariant: the exit code is the worker's, which has
\* no worker of its own.
LEMMA WaitIndInv ==
  ASSUME IndInv, NEW p \in Processes, Wait(p)
  PROVE  IndInv'
<1> USE DEF Wait, Set, Exits, WorkerEnded, sweep
<1>1. worker[p] \in Processes \ {1} /\ pc[worker[p]] = "done" /\ worker[p] # p
  BY DEF IndInv, WorkersFlagged
<1>2. /\ children[worker[p]] = {} /\ exit[worker[p]] \in {0, 1}
      /\ opts[worker[p]].command = opts[p].command
  BY <1>1 DEF IndInv, TypeOK, WorkersFlagged
<1>3. TypeOK'
  BY <1>1, <1>2 DEF IndInv, TypeOK, host, sweep
<1>4. PlanFits(p)'
  BY <1>1, <1>2 DEF IndInv, TypeOK, PlanFits
<1>5. TokenFits(p)'
  BY <1>1, <1>2 DEF IndInv, TypeOK, TokenFits
<1>6. HopsUntouched(p)'
  BY <1>1, <1>2 DEF IndInv, TypeOK, HopsUntouched
<1>7. WorkersFlagged(p)'
  BY <1>1, <1>2 DEF IndInv, TypeOK, WorkersFlagged
<1>8. TriesLeft(p)'
  BY <1>1, <1>2 DEF IndInv, TypeOK, TriesLeft
<1>9. UNCHANGED host
  OBVIOUS
<1>10. Advances(p)
  BY DEF IndInv, TypeOK, Advances
<1>11. \A r \in Processes \ {p} : Kept(r)
  BY DEF IndInv, TypeOK, Kept
<1>12. pc'[p] = "done" /\ exit'[p] = 0 /\ children'[p] # {} =>
         \E r \in Processes \ {p} : /\ pc[r] = "done" /\ exit[r] = 0 /\ children[r] = {}
                                    /\ opts[r].command = opts[p].command
  BY <1>1, <1>2 DEF IndInv, TypeOK
<1> HIDE DEF Wait
<1> QED
  BY <1>3, <1>4, <1>5, <1>6, <1>7, <1>8, <1>9, <1>10, <1>11, <1>12, LocalStep

\* PrepareThisProcess succeeds only with the token the plan asked for.
LEMMA PrepareGivesToken ==
  ASSUME IndInv, NEW p \in Processes, pc[p] = "prepare", CommandNeedsWorker(opts[p]),
         PrepareThisProcess(p, TRUE)
  PROVE  /\ plan[p].noProvision /\ testSigning /\ ~ppl[p] => attr'[p] = "absent"
         /\ ~plan[p].noProvision /\ ~opts[p].clear => attr'[p] = plan[p].target
<1>1. PlanFits(p)
  BY DEF IndInv
<1>2. /\ plan[p].clean \in BOOLEAN /\ plan[p].stamp \in BOOLEAN
      /\ plan[p].noProvision \in BOOLEAN /\ opts[p].clear \in BOOLEAN
      /\ testSigning \in BOOLEAN /\ ppl[p] \in BOOLEAN
  BY DEF IndInv, TypeOK, Line
<1>3. CASE plan[p].clean \/ opts[p].clear
  <2>1. attr'[p] = "absent" /\ opts[p].clear
    BY <1>1, <1>3 DEF PrepareThisProcess, DeleteWespPermission, PlanFits
  <2> QED BY <2>1
<1>4. CASE ~(plan[p].clean \/ opts[p].clear) /\ plan[p].stamp
  <2>1. attr'[p] = plan[p].target /\ ~plan[p].noProvision
    BY <1>1, <1>4 DEF PrepareThisProcess, SetWespPermission, PlanFits
  <2> QED BY <2>1
<1>5. CASE ~(plan[p].clean \/ opts[p].clear) /\ ~plan[p].stamp
  <2>1. attr'[p] = attr[p]
    BY <1>5 DEF PrepareThisProcess
  <2> QED BY <1>1, <1>2, <1>5, <2>1 DEF PlanFits
<1> QED BY <1>2, <1>3, <1>4, <1>5

\* EnsureWorkerOrTcb keeps the invariant.
LEMMA EnsureWorkerOrTcbIndInv ==
  ASSUME IndInv, NEW p \in Processes, EnsureWorkerOrTcb(p)
  PROVE  IndInv'
<1> USE DEF EnsureWorkerOrTcb, Set, Exits, Writes, sweep
<1>1. \/ attr' = attr
      \/ \E a \in Permissions \cup {"absent"} : attr' = [attr EXCEPT ![p] = a]
  BY DEF PrepareThisProcess
<1>2. pc[p] = "prepare" /\ children[p] = {}
  BY DEF IndInv, HopsUntouched
<1>3. pc'[p] = "run" /\ CommandNeedsWorker(opts[p]) => PrepareThisProcess(p, TRUE)
  BY <1>2 DEF IndInv, TypeOK
<1>4. /\ UNCHANGED <<host, opts, plan, ppl, worker, tries, before, children, sweep>>
      /\ \/ pc' = [pc EXCEPT ![p] = "run"] /\ exit' = exit
         \/ pc' = [pc EXCEPT ![p] = "done"] /\ exit' = [exit EXCEPT ![p] = 1]
  OBVIOUS
<1> HIDE DEF EnsureWorkerOrTcb
<1>5. TypeOK'
  BY <1>1, <1>2, <1>3, <1>4, SMTT(60) DEF IndInv, TypeOK, host, sweep, Permissions,
       WorkersFlagged, TriesLeft, Processes
<1>6. PlanFits(p)'
  BY <1>1, <1>2, <1>3, <1>4 DEF IndInv, TypeOK, PlanFits
<1>7. TokenFits(p)'
  <2>1. opts'[p] = opts[p] /\ plan'[p] = plan[p] /\ ppl'[p] = ppl[p] /\ testSigning' = testSigning
    BY <1>4 DEF host
  <2>2. pc'[p] \in {"run", "done"}
    BY <1>4 DEF IndInv, TypeOK
  <2> QED BY <1>2, <1>3, <2>1, <2>2, PrepareGivesToken DEF TokenFits
<1>8. HopsUntouched(p)'
  BY <1>1, <1>2, <1>3, <1>4 DEF IndInv, TypeOK, HopsUntouched
<1>9. WorkersFlagged(p)'
  BY <1>1, <1>2, <1>3, <1>4 DEF IndInv, TypeOK, WorkersFlagged
<1>10. TriesLeft(p)'
  BY <1>1, <1>2, <1>3, <1>4 DEF IndInv, TypeOK, TriesLeft
<1>11. UNCHANGED host
  BY <1>1, <1>2, <1>3, <1>4
<1>12. Advances(p)
  BY <1>1, <1>2, <1>3, <1>4 DEF IndInv, TypeOK, Advances
<1>13. \A r \in Processes \ {p} : Kept(r)
  BY <1>1, <1>2, <1>3, <1>4, SMTT(60) DEF IndInv, TypeOK, Kept
<1>14. pc'[p] = "done" /\ exit'[p] = 0 /\ children'[p] # {} =>
         \E r \in Processes \ {p} : /\ pc[r] = "done" /\ exit[r] = 0 /\ children[r] = {}
                                    /\ opts[r].command = opts[p].command
  BY <1>1, <1>2, <1>3, <1>4 DEF IndInv, TypeOK
<1> QED
  BY <1>5, <1>6, <1>7, <1>8, <1>9, <1>10, <1>11, <1>12, <1>13, <1>14, LocalStep

\* The command keeps the invariant.
LEMMA RunIndInv ==
  ASSUME IndInv, NEW p \in Processes, Run(p)
  PROVE  IndInv'
<1> USE DEF Run, Set, Exits, Writes, RunToken, sweep
<1>1. \/ attr' = attr
      \/ \E a \in Permissions \cup {"absent"} : attr' = [attr EXCEPT ![p] = a]
  OBVIOUS
<1>2. pc[p] = "run" /\ children[p] = {}
  BY DEF IndInv, HopsUntouched
<1>3. \/ \E code \in {0, 1} : pc' = [pc EXCEPT ![p] = "done"] /\ exit' = [exit EXCEPT ![p] = code]
      \/ pc' = [pc EXCEPT ![p] = "hung"] /\ exit' = exit /\ attr' = attr
  OBVIOUS
<1>4. UNCHANGED <<host, opts, plan, ppl, worker, tries, before, children, sweep>>
  OBVIOUS
<1> HIDE DEF Run
<1>5. TypeOK'
  BY <1>1, <1>2, <1>3, <1>4, SMTT(60) DEF IndInv, TypeOK, host, sweep, Permissions,
       WorkersFlagged, TriesLeft, Processes
<1>6. PlanFits(p)'
  BY <1>1, <1>2, <1>3, <1>4 DEF IndInv, TypeOK, PlanFits
<1>7. TokenFits(p)'
  BY <1>1, <1>2, <1>3, <1>4 DEF IndInv, TypeOK, TokenFits, host
<1>8. HopsUntouched(p)'
  BY <1>1, <1>2, <1>3, <1>4 DEF IndInv, TypeOK, HopsUntouched
<1>9. WorkersFlagged(p)'
  BY <1>1, <1>2, <1>3, <1>4 DEF IndInv, TypeOK, WorkersFlagged
<1>10. TriesLeft(p)'
  BY <1>1, <1>2, <1>3, <1>4 DEF IndInv, TypeOK, TriesLeft
<1>11. UNCHANGED host
  BY <1>1, <1>2, <1>3, <1>4
<1>12. Advances(p)
  BY <1>1, <1>2, <1>3, <1>4 DEF IndInv, TypeOK, Advances
<1>13. \A r \in Processes \ {p} : Kept(r)
  BY <1>1, <1>2, <1>3, <1>4 DEF IndInv, TypeOK, Kept
<1>14. pc'[p] = "done" /\ exit'[p] = 0 /\ children'[p] # {} =>
         \E r \in Processes \ {p} : /\ pc[r] = "done" /\ exit[r] = 0 /\ children[r] = {}
                                    /\ opts[r].command = opts[p].command
  BY <1>1, <1>2, <1>3, <1>4 DEF IndInv, TypeOK, HopsUntouched
<1> QED
  BY <1>5, <1>6, <1>7, <1>8, <1>9, <1>10, <1>11, <1>12, <1>13, <1>14, LocalStep

\* What a new process changes: q gets a copy of p's token and carries --worker;
\* the other processes notice nothing.
LEMMA CreateProcessKeeps ==
  ASSUME IndInv, NEW p \in Processes, NEW q \in Processes, NEW arguments \in Line,
         arguments.worker, NEW waiting \in {"wait", "call"}, pc[p] \in {"launch", "run"},
         CreateProcess(p, q, arguments, waiting), UNCHANGED <<host, plan, exit, ppl, tries, swept>>,
         children' \in [Processes -> SUBSET Processes], calls' \in [Processes -> SUBSET Processes],
         \A r \in Processes \ {p} : children'[r] = children[r] /\ calls'[r] = calls[r]
  PROVE  /\ TypeOK' /\ (pc[1] # "unborn")' /\ SuccessWasEarned' /\ q \notin {p, 1}
         /\ pc'[p] = waiting /\ opts'[p] = opts[p] /\ attr'[p] = attr[p]
         /\ before'[p] = before[p] /\ worker'[p] = q
         /\ pc'[q] = "dispatch" /\ opts'[q] = arguments
         /\ \A r \in Processes : /\ pc'[r] = "unborn" => pc[r] = "unborn"
                                 /\ pc[r] # "unborn" => opts'[r] = opts[r]
         /\ \A r \in Processes \ {p} :
              (/\ PlanFits(r) /\ TokenFits(r) /\ HopsUntouched(r) /\ WorkersFlagged(r)
               /\ TriesLeft(r) /\ CallsOne(r))'
<1>1. /\ pc[q] = "unborn"
      /\ pc'   = [pc EXCEPT ![p] = waiting, ![q] = "dispatch"]
      /\ opts' = [opts EXCEPT ![q] = arguments]
      /\ attr' = [attr EXCEPT ![q] = attr[p]] /\ before' = [before EXCEPT ![q] = attr[p]]
      /\ worker' = [worker EXCEPT ![p] = q]
  BY DEF CreateProcess, Set
<1>2. 1 \in Processes
  BY ProcessesAssumption DEF Processes
<1>3. q # p /\ q # 1
  BY <1>1 DEF IndInv
<1>4. TypeOK'
  <2>1. opts' \in [Processes -> Line]
    BY <1>1 DEF IndInv, TypeOK
  <2>2. pc' \in [Processes -> {"unborn", "dispatch", "hop", "launch", "wait", "prepare",
                               "run", "call", "hung", "done"}]
    BY <1>1 DEF IndInv, TypeOK
  <2>3. /\ attr' \in [Processes -> Permissions \cup {"absent"}]
        /\ before' \in [Processes -> Permissions \cup {"absent"}]
    BY <1>1 DEF IndInv, TypeOK
  <2>4. worker' \in [Processes -> 0..MaxProcesses]
    BY <1>1, ProcessesAssumption DEF IndInv, TypeOK, Processes
  <2> QED BY <2>1, <2>2, <2>3, <2>4 DEF IndInv, TypeOK, host
<1>5. \A r \in Processes :
        /\ pc'[r] = (IF r = p THEN waiting ELSE IF r = q THEN "dispatch" ELSE pc[r])
        /\ r # q => opts'[r] = opts[r] /\ attr'[r] = attr[r] /\ before'[r] = before[r]
        /\ r # p => worker'[r] = worker[r]
  BY <1>1, <1>3 DEF IndInv, TypeOK
<1>6. /\ opts'[q] = arguments /\ attr'[q] = before'[q] /\ worker'[p] = q
      /\ children'[q] = {} /\ tries'[q] = 0 /\ calls'[q] = {}
  BY <1>1, <1>3 DEF IndInv, TypeOK, WorkersFlagged, TriesLeft, CallsOne
<1>7. \A r \in Processes : /\ pc'[r] = "unborn" => pc[r] = "unborn"
                           /\ pc[r] # "unborn" => opts'[r] = opts[r]
  BY <1>1, <1>5
<1>8. ASSUME NEW r \in Processes, r # p
      PROVE  (/\ PlanFits(r) /\ TokenFits(r) /\ HopsUntouched(r) /\ WorkersFlagged(r)
              /\ TriesLeft(r) /\ CallsOne(r))'
  <2>1. CASE r = q
    BY <1>3, <1>5, <1>6, <2>1
    DEF PlanFits, TokenFits, HopsUntouched, WorkersFlagged, TriesLeft, CallsOne
  <2>2. CASE r # q
    <3>1. /\ pc'[r] = pc[r] /\ opts'[r] = opts[r] /\ attr'[r] = attr[r]
          /\ before'[r] = before[r] /\ worker'[r] = worker[r] /\ children'[r] = children[r]
          /\ calls'[r] = calls[r]
      BY <1>5, <1>8, <2>2
    <3>2. (PlanFits(r) /\ TokenFits(r) /\ HopsUntouched(r) /\ TriesLeft(r))'
      BY <3>1 DEF IndInv, PlanFits, TokenFits, HopsUntouched, TriesLeft, host
    <3>3. WorkersFlagged(r)'
      <4>1. WorkersFlagged(r)
        BY DEF IndInv
      <4>2. pc[r] \in {"wait", "call"} =>
              /\ worker[r] \in Processes \ {1}
              /\ pc'[worker[r]] # "unborn" /\ opts'[worker[r]] = opts[worker[r]]
        BY <1>7, <4>1 DEF WorkersFlagged
      <4> QED BY <3>1, <4>1, <4>2 DEF WorkersFlagged
    <3>4. CallsOne(r)'
      <4>1. CallsOne(r)
        BY DEF IndInv
      <4>2. \A x \in calls[r] : pc'[x] # "unborn" /\ opts'[x] = opts[x]
        BY <1>7, <4>1 DEF CallsOne
      <4> QED BY <3>1, <4>1, <4>2 DEF CallsOne, Sweeps
    <3> QED BY <3>2, <3>3, <3>4
  <2> QED BY <2>1, <2>2
<1>9. SuccessWasEarned'
  <2> SUFFICES ASSUME pc'[1] = "done", exit'[1] = 0
               PROVE  \E r \in Processes : /\ pc'[r] = "done" /\ exit'[r] = 0 /\ children'[r] = {}
                                           /\ opts'[r].command = opts'[1].command
    BY DEF SuccessWasEarned
  <2>1. pc[1] = "done" /\ exit[1] = 0
    BY <1>2, <1>5
  <2>2. PICK r \in Processes : /\ pc[r] = "done" /\ exit[r] = 0 /\ children[r] = {}
                               /\ opts[r].command = opts[1].command
    BY <2>1 DEF IndInv, SuccessWasEarned
  <2>3. r # p /\ r # q
    BY <1>1, <2>2
  <2> QED BY <1>2, <1>3, <1>5, <2>2, <2>3
<1>10. (pc[1] # "unborn")'
  BY <1>1, <1>2, <1>3, <1>5 DEF IndInv
<1> QED BY <1>3, <1>4, <1>5, <1>6, <1>7, <1>8, <1>9, <1>10

\* CreateWorker keeps the invariant: only the first process launches, and the
\* new worker has its token, its command and the --worker flag.
LEMMA CreateWorkerIndInv ==
  ASSUME IndInv, NEW p \in Processes, CreateWorker(p)
  PROVE  IndInv'
<1>1. PICK q \in Processes :
        /\ CreateProcess(p, q, WorkerArguments(opts[p]), "wait")
        /\ children' = [children EXCEPT ![p] = children[p] \cup {q}]
  BY DEF CreateWorker, Set
<1>2. pc[p] = "launch" /\ UNCHANGED <<host, plan, exit, ppl, tries, swept>> /\ calls' = calls
  BY DEF CreateWorker, sweep
<1>3. /\ WorkerArguments(opts[p]) \in Line /\ WorkerArguments(opts[p]).worker
      /\ WorkerArguments(opts[p]).command = opts[p].command
  BY WorkerArgumentsTyped DEF IndInv, TypeOK
<1>4. /\ children' \in [Processes -> SUBSET Processes] /\ calls' \in [Processes -> SUBSET Processes]
      /\ \A r \in Processes \ {p} : children'[r] = children[r] /\ calls'[r] = calls[r]
  BY <1>1, <1>2 DEF IndInv, TypeOK
<1>5. /\ TypeOK' /\ (pc[1] # "unborn")' /\ SuccessWasEarned' /\ q \notin {p, 1}
      /\ pc'[p] = "wait" /\ opts'[p] = opts[p] /\ attr'[p] = attr[p]
      /\ before'[p] = before[p] /\ worker'[p] = q
      /\ pc'[q] = "dispatch" /\ opts'[q] = WorkerArguments(opts[p])
      /\ \A r \in Processes : /\ pc'[r] = "unborn" => pc[r] = "unborn"
                              /\ pc[r] # "unborn" => opts'[r] = opts[r]
      /\ \A r \in Processes \ {p} :
           (/\ PlanFits(r) /\ TokenFits(r) /\ HopsUntouched(r) /\ WorkersFlagged(r)
            /\ TriesLeft(r) /\ CallsOne(r))'
  BY <1>1, <1>2, <1>3, <1>4, CreateProcessKeeps
<1>6. (PlanFits(p) /\ TokenFits(p))'
  BY <1>5 DEF PlanFits, TokenFits
<1>7. HopsUntouched(p)'
  BY <1>2, <1>5 DEF IndInv, HopsUntouched
<1>8. WorkersFlagged(p)'
  <2>1. p = 1 /\ ~opts[p].worker
    BY <1>2 DEF IndInv, WorkersFlagged
  <2> QED BY <1>3, <1>5, <2>1 DEF WorkersFlagged
<1>9. TriesLeft(p)'
  BY <1>2, <1>5 DEF IndInv, TriesLeft
<1>10. CallsOne(p)'
  <2>1. CallsOne(p)
    BY DEF IndInv
  <2>2. \A x \in calls[p] : pc'[x] # "unborn" /\ opts'[x] = opts[x]
    BY <1>5, <2>1 DEF CallsOne
  <2> QED BY <1>2, <1>5, <2>1, <2>2 DEF CallsOne, Sweeps
<1> QED BY <1>5, <1>6, <1>7, <1>8, <1>9, <1>10 DEF IndInv

\* CreateCallOne keeps the invariant: the new process carries --worker and
\* another command than the sweep.
LEMMA CreateCallOneIndInv ==
  ASSUME IndInv, NEW p \in Processes, CreateCallOne(p)
  PROVE  IndInv'
<1>1. PICK q \in Processes :
        /\ CreateProcess(p, q, CallOneArguments, "call")
        /\ calls' = [calls EXCEPT ![p] = calls[p] \cup {q}]
  BY DEF CreateCallOne, Set
<1>2. /\ pc[p] = "run" /\ UNCHANGED <<host, plan, exit, ppl, tries, swept>> /\ children' = children
      /\ Sweeps(opts[p]) /\ swept[p] < Exports
  BY DEF CreateCallOne
<1>3. /\ CallOneArguments \in Line /\ CallOneArguments.worker
      /\ CallOneArguments.command = "call-one"
  <2>1. "call-one" \in Commands /\ "" \in Permissions \cup {""}
    BY Zenon DEF Commands
  <2>2. CallOneArguments \in Line
    BY <2>1 DEF CallOneArguments, Line
  <2> QED BY <2>2 DEF CallOneArguments
<1>4. /\ children' \in [Processes -> SUBSET Processes] /\ calls' \in [Processes -> SUBSET Processes]
      /\ \A r \in Processes \ {p} : children'[r] = children[r] /\ calls'[r] = calls[r]
  BY <1>1, <1>2 DEF IndInv, TypeOK
<1>5. /\ TypeOK' /\ (pc[1] # "unborn")' /\ SuccessWasEarned' /\ q \notin {p, 1}
      /\ pc'[p] = "call" /\ opts'[p] = opts[p] /\ attr'[p] = attr[p]
      /\ before'[p] = before[p] /\ worker'[p] = q
      /\ pc'[q] = "dispatch" /\ opts'[q] = CallOneArguments
      /\ \A r \in Processes : /\ pc'[r] = "unborn" => pc[r] = "unborn"
                              /\ pc[r] # "unborn" => opts'[r] = opts[r]
      /\ \A r \in Processes \ {p} :
           (/\ PlanFits(r) /\ TokenFits(r) /\ HopsUntouched(r) /\ WorkersFlagged(r)
            /\ TriesLeft(r) /\ CallsOne(r))'
  BY <1>1, <1>2, <1>3, <1>4, CreateProcessKeeps
<1>6. (PlanFits(p) /\ TokenFits(p))'
  BY <1>2, <1>5 DEF IndInv, PlanFits, TokenFits, host
<1>7. HopsUntouched(p)'
  BY <1>2, <1>5 DEF IndInv, HopsUntouched
<1>8. WorkersFlagged(p)'
  BY <1>2, <1>5 DEF IndInv, WorkersFlagged
<1>9. TriesLeft(p)'
  BY <1>5 DEF TriesLeft
<1>10. CallsOne(p)'
  <2>1. CallsOne(p)
    BY DEF IndInv
  <2>2. calls'[p] = calls[p] \cup {q}
    BY <1>1 DEF IndInv, TypeOK
  <2>3. \A x \in calls[p] : /\ pc'[x] # "unborn" /\ opts'[x] = opts[x]
                            /\ x \in Processes \ {1} /\ opts[x].command = "call-one"
    BY <1>5, <2>1 DEF CallsOne
  <2>4. \A x \in calls'[p] : /\ pc'[x] # "unborn" /\ x \in Processes \ {1}
                             /\ opts'[x].command = "call-one"
    BY <1>3, <1>5, <2>2, <2>3
  <2>5. Sweeps(opts[p])'
    BY <1>2, <1>5 DEF Sweeps
  <2> QED BY <1>2, <1>5, <2>4, <2>5 DEF CallsOne
<1> QED BY <1>5, <1>6, <1>7, <1>8, <1>9, <1>10 DEF IndInv

\* A recorded outcome keeps the invariant: created or not, ended, or given up.
LEMMA RecordedIndInv ==
  ASSUME IndInv, NEW p \in Processes, pc[p] \in {"run", "call"}, swept[p] < Exports,
         pc' = [pc EXCEPT ![p] = "run"], Recorded(p),
         UNCHANGED <<host, opts, plan, exit, ppl, attr, worker, tries, before, children, calls>>
  PROVE  IndInv'
<1>1. TypeOK'
  BY ExportsAssumption DEF IndInv, TypeOK, Recorded, Set, host
<1>2. PlanFits(p)' /\ HopsUntouched(p)' /\ WorkersFlagged(p)' /\ TriesLeft(p)'
  BY DEF IndInv, TypeOK, PlanFits, HopsUntouched, WorkersFlagged, TriesLeft
<1>3. TokenFits(p)'
  BY DEF IndInv, TypeOK, TokenFits, host
<1>4. \A r \in Processes \ {p} : Kept(r)
  BY DEF IndInv, TypeOK, Kept, Recorded, Set
<1>5. Advances(p)
  BY DEF IndInv, TypeOK, Advances
<1>6. pc'[p] # "done"
  BY DEF IndInv, TypeOK
<1> QED BY <1>1, <1>2, <1>3, <1>4, <1>5, <1>6, LocalStep

\* The time-out of a sweep keeps the invariant: the process it ends is done with
\* a failure.
LEMMA CallOneTimesOutIndInv ==
  ASSUME IndInv, NEW p \in Processes, CallOneTimesOut(p)
  PROVE  IndInv'
<1> DEFINE q == worker[p]
<1>1. pc[p] = "call" /\ pc[q] # "done" /\ q \in Processes \ {1} /\ swept[p] < Exports
  BY DEF CallOneTimesOut, IndInv, WorkersFlagged, CallsOne
<1>2. CASE pc' = [pc EXCEPT ![p] = "run"] /\ exit' = exit
  BY <1>1, <1>2, RecordedIndInv DEF CallOneTimesOut
<1>3. CASE pc' = [pc EXCEPT ![p] = "run", ![q] = "done"] /\ exit' = [exit EXCEPT ![q] = 1]
  <2>0. /\ UNCHANGED <<host, opts, plan, ppl, attr, worker, tries, before, children, calls>>
        /\ swept' = [swept EXCEPT ![p] = swept[p] + 1]
    BY DEF CallOneTimesOut, Recorded, Set
  <2>1. TypeOK'
    BY <1>1, <1>3, <2>0, ExportsAssumption DEF IndInv, TypeOK, host
  <2>2. \A r \in Processes :
          /\ pc'[r] = (IF r = q THEN "done" ELSE IF r = p THEN "run" ELSE pc[r])
          /\ r # q => exit'[r] = exit[r]
          /\ r # p => swept'[r] = swept[r]
    BY <1>1, <1>3, <2>0 DEF IndInv, TypeOK
  <2>3. pc[q] # "unborn" /\ pc[p] # "unborn" /\ 1 \in Processes
    BY <1>1, ProcessesAssumption DEF IndInv, WorkersFlagged, Processes
  <2>4. ASSUME NEW r \in Processes
        PROVE  (PlanFits(r) /\ TokenFits(r) /\ HopsUntouched(r) /\ TriesLeft(r))'
    BY <1>1, <2>0, <2>2 DEF IndInv, PlanFits, TokenFits, HopsUntouched, TriesLeft, host
  <2>5. ASSUME NEW r \in Processes
        PROVE  (WorkersFlagged(r) /\ CallsOne(r))'
    <3>1. WorkersFlagged(r) /\ CallsOne(r)
      BY DEF IndInv
    <3> QED BY <1>1, <2>0, <2>2, <2>3, <3>1 DEF WorkersFlagged, CallsOne
  <2>6. SuccessWasEarned'
    <3> SUFFICES ASSUME pc'[1] = "done", exit'[1] = 0
                 PROVE  \E r \in Processes :
                          /\ pc'[r] = "done" /\ exit'[r] = 0 /\ children'[r] = {}
                          /\ opts'[r].command = opts'[1].command
      BY DEF SuccessWasEarned
    <3>1. pc[1] = "done" /\ exit[1] = 0
      BY <1>1, <2>2, <2>3
    <3>2. PICK r \in Processes : /\ pc[r] = "done" /\ exit[r] = 0 /\ children[r] = {}
                                 /\ opts[r].command = opts[1].command
      BY <3>1 DEF IndInv, SuccessWasEarned
    <3> QED BY <1>1, <2>0, <2>2, <3>2
  <2>7. (pc[1] # "unborn")'
    BY <1>1, <2>2, <2>3 DEF IndInv
  <2> QED BY <2>1, <2>4, <2>5, <2>6, <2>7 DEF IndInv
<1> QED BY <1>2, <1>3 DEF CallOneTimesOut, Set

\* The other ends of an export's turn.
LEMMA SweepStepsIndInv ==
  ASSUME IndInv, NEW p \in Processes,
         CallOneNotCreated(p) \/ CallOneEnds(p) \/ CallOneWaitFails(p)
  PROVE  IndInv'
<1>1. CASE CallOneNotCreated(p)
  <2>1. pc' = [pc EXCEPT ![p] = "run"]
    BY <1>1 DEF CallOneNotCreated, IndInv, TypeOK
  <2> QED BY <1>1, <2>1, RecordedIndInv DEF CallOneNotCreated
<1>2. CASE CallOneEnds(p)
  <2>1. swept[p] < Exports
    BY <1>2 DEF CallOneEnds, IndInv, CallsOne
  <2> QED BY <1>2, <2>1, RecordedIndInv DEF CallOneEnds, Set
<1>3. CASE CallOneWaitFails(p)
  <2>1. swept[p] < Exports
    BY <1>3 DEF CallOneWaitFails, IndInv, CallsOne
  <2> QED BY <1>3, <2>1, RecordedIndInv DEF CallOneWaitFails, Set
<1> QED BY <1>1, <1>2, <1>3

--------------------------------------------------------------------------------
\* Every behaviour of a command line keeps the inductive invariant.
THEOREM HopInvariant == Spec => []IndInv
<1>1. IndInv /\ UNCHANGED vars => IndInv'
  BY DEF IndInv, vars, TypeOK, PlanFits, TokenFits, HopsUntouched, WorkersFlagged, TriesLeft,
         CallsOne, Sweeps, SuccessWasEarned, CommandNeedsWorker
<1>2. IndInv /\ [Next]_vars => IndInv'
  BY <1>1, DispatchIndInv, HopToWorkerIndInv, LaunchFailsIndInv, CreateWorkerIndInv,
     WaitIndInv, WaitFailsIndInv, EnsureWorkerOrTcbIndInv, RunIndInv, CreateCallOneIndInv,
     SweepStepsIndInv, CallOneTimesOutIndInv
  DEF Next, Step, Proceeds
<1> QED BY InitIndInv, <1>2, PTL DEF Spec

\* Options, plans, tokens and processes keep their types, and a command makes
\* at most two launches (Dispatch, LaunchWorker).
THEOREM HopTypeCorrect == Spec => []TypeOK
BY HopInvariant, PTL DEF IndInv

\* For every command line and every host: a driver command runs only with the
\* token its own process planned, however the token writes failed, and a process
\* that hops keeps its own token (Dispatch, PrepareThisProcess,
\* SetWespPermission).
THEOREM TokenAlwaysAsPlanned == Spec => []TokenAsPlanned
<1>1. IndInv => TokenAsPlanned
  BY DEF IndInv, TokenAsPlanned, TokenFits, HopsUntouched
<1> QED BY <1>1, HopInvariant, PTL

\* For every command line and any number of exports no worker ever hops, and the
\* call-one processes that a sweep starts start no process of their own
\* (EvaluateTrustPlan, LaunchWorker, RunIsolated, the --worker flag in front of
\* the children's arguments).
THEOREM WorkerAlwaysLast == Spec => []WorkerIsLast
<1>1. IndInv => WorkerIsLast
  <2> SUFFICES ASSUME IndInv, NEW p \in Processes
               PROVE  /\ p # 1 => children[p] = {}
                      /\ \A q \in calls[p] : Sweeps(opts[p]) /\ children[q] = {} /\ calls[q] = {}
    BY DEF WorkerIsLast
  <2>1. p # 1 => children[p] = {}
    BY DEF IndInv, WorkersFlagged
  <2>2. ASSUME NEW q \in calls[p]
        PROVE  Sweeps(opts[p]) /\ children[q] = {} /\ calls[q] = {}
    <3>1. Sweeps(opts[p]) /\ q \in Processes \ {1} /\ opts[q].command = "call-one"
      BY DEF IndInv, CallsOne
    <3>2. children[q] = {}
      BY <3>1 DEF IndInv, WorkersFlagged
    <3>3. calls[q] = {}
      BY <3>1 DEF IndInv, CallsOne, Sweeps, TypeOK
    <3> QED BY <3>1, <3>2, <3>3
  <2> QED BY <2>1, <2>2
<1> QED BY <1>1, HopInvariant, PTL

\* The user's process exits 0 only if a process that ran the user's command
\* itself exited 0 (HopToWorker, RunSameImage).
THEOREM SuccessAlwaysEarned == Spec => []SuccessWasEarned
BY HopInvariant, PTL DEF IndInv
================================================================================
