----------------------------- MODULE MCRuleInstall -----------------------------
(***************************************************************************)
(* Small instances of RuleInstall.  The rules below cover every gate of    *)
(* the build loop: the default queue-backed rule, a deny the client builds *)
(* natively (2000), a deny that needs the compat patch (1000), denies that *)
(* are refused (7000 has no modify kind, 8000 no enforce bit), a deny with *)
(* a conflicting selector, a subrule chain, a raw selector and a rule      *)
(* without an event type.                                                  *)
(***************************************************************************)
EXTENDS RuleInstall, TLC

Rule(e, action, name, selector, modifier, filter) ==
  [eventType |-> e, action |-> action, actionName |-> name,
   selector_override |-> selector, modifier_override |-> modifier,
   lifetime |-> "Transient", filter |-> filter]

Notify       == Rule(1000, 0, "", Unset, Unset, "tree")
NativeDeny   == Rule(2000, 0, "deny", Unset, Unset, "empty")
CompatDeny   == Rule(1000, 0, "deny", Unset, Unset, "empty")
NoKindDeny   == Rule(7000, 0, "deny", Unset, Unset, "empty")
NoBitDeny    == Rule(8000, 0, "deny", Unset, Unset, "empty")
Downgraded   == Rule(2000, 0, "deny", 4, Unset, "empty")
Subrules     == Rule(2001, 7, "", Unset, Unset, "empty")
RawQueue     == Rule(7000, 6, "", 1, Unset, "empty")
Truncated    == Rule(1000, U32, "", Unset, Unset, "empty")
NoEvent      == Rule(0, 6, "", Unset, Unset, "empty")
TransientRaw == Rule(2000, 6, "", Unset, 1, "empty")

Upto(S, n) == UNION {[1 .. m -> S] : m \in 0 .. n}

MCDocuments ==
  Upto({NativeDeny, CompatDeny, Subrules}, 3)
    \cup {<<a, b, Subrules>> : a, b \in {Notify, NoBitDeny, Downgraded}}
    \cup Upto({Notify, NativeDeny, NoBitDeny, Downgraded}, 2)
    \cup Upto({NoKindDeny, RawQueue, Truncated, NoEvent, TransientRaw}, 1)
    \cup {<<NativeDeny, TransientRaw>>}

\* What is done with a handle does not depend on its value.
Symmetry == Permutations(Handles)
================================================================================
