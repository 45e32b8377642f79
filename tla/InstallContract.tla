---------------------------- MODULE InstallContract ----------------------------
(***************************************************************************)
(* What EspSession::InstallRules promises its callers, without handles,    *)
(* entries or loops: every rule of the document is decided exactly once    *)
(* (accepted by the driver, "armed", or refused), no install takes a       *)
(* decision back, and the returned InstallStatus is the exact summary of   *)
(* those decisions.  The exit codes of rules, monitor, refs and            *)
(* persist-rules and the service's reply rest on this summary.             *)
(***************************************************************************)
EXTENDS Integers, Sequences

VARIABLES
  outcome,   \* the decision about each rule of the current document
  status     \* "none" before the first install, "running" during one

cvars == <<outcome, status>>

Verdict(o) ==
  LET Has(d) == \E i \in DOMAIN o : o[i] = d
  IN IF ~Has("armed") THEN "Failed" ELSE IF ~Has("refused") THEN "Complete" ELSE "Partial"

CInit == outcome = <<>> /\ status = "none"

\* A precondition fails: the whole document is refused at once.
Reject ==
  /\ status # "running" /\ status' = "Failed"
  /\ outcome' \in Seq({"refused"})

Begin ==
  /\ status # "running" /\ status' = "running"
  /\ outcome' \in Seq({"pending"}) /\ outcome' # <<>>

Decide ==
  /\ status = "running" /\ status' = status
  /\ \E i \in DOMAIN outcome, d \in {"armed", "refused"} :
       /\ outcome[i] = "pending"
       /\ outcome' = [outcome EXCEPT ![i] = d]

Finish ==
  /\ status = "running"
  /\ \A i \in DOMAIN outcome : outcome[i] # "pending"
  /\ status' = Verdict(outcome)
  /\ UNCHANGED outcome

Close ==
  /\ status # "running"
  /\ outcome' = <<>> /\ status' = "none"

CNext == Reject \/ Begin \/ Decide \/ Finish \/ Close

CSpec == CInit /\ [][CNext]_cvars
================================================================================
