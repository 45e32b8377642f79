----------------------------- MODULE MCWorkerHop -------------------------------
(***************************************************************************)
(* Every combination of the trust flags for a driver command and for       *)
(* provision; an isolated sweep with and without a hop; plain lines for    *)
(* the commands that stay in their process.                                *)
(***************************************************************************)
EXTENDS WorkerHop

TrustLines ==
  [command : {"rules", "provision"}, isolated : {FALSE}, worker : BOOLEAN, noHop : BOOLEAN, forceHop : BOOLEAN,
   noProvision : BOOLEAN, forceProvision : BOOLEAN, noAutoProvision : BOOLEAN,
   clear : BOOLEAN, permission : {"", "full"}]

PlainLines ==
  {[command |-> c, isolated |-> FALSE, worker |-> FALSE, noHop |-> FALSE, forceHop |-> f,
    noProvision |-> n, forceProvision |-> FALSE, noAutoProvision |-> FALSE, clear |-> FALSE, permission |-> ""] :
     c \in {"status", "token set", "token clear"}, f \in BOOLEAN, n \in BOOLEAN}

SweepLines ==
  [command : {"exercise"}, isolated : {TRUE}, worker : {FALSE}, noHop : BOOLEAN,
   forceHop : BOOLEAN, noProvision : BOOLEAN, forceProvision : {FALSE},
   noAutoProvision : {FALSE}, clear : {FALSE}, permission : {"", "full"}]

AllLines == TrustLines \cup SweepLines \cup PlainLines
DefaultLine ==
  {[command |-> "rules", isolated |-> FALSE, worker |-> FALSE, noHop |-> FALSE, forceHop |-> FALSE,
    noProvision |-> FALSE, forceProvision |-> FALSE, noAutoProvision |-> FALSE,
    clear |-> FALSE, permission |-> ""]}
================================================================================
