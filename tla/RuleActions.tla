------------------------------ MODULE RuleActions ------------------------------
(***************************************************************************)
(* The pure tables and predicates InstallRules decides with: which action  *)
(* selector a rule resolves to, whether it needs a queue, and which event  *)
(* types the driver can deny (EspRuleAbi.h, EspEnforceCompat.h,            *)
(* EspEventConfigAbi.h).                                                   *)
(*                                                                         *)
(* A rule is a record of the fields of model::RuleSpec that the decisions  *)
(* read.  An optional field that is not set holds Unset.                   *)
(***************************************************************************)
EXTENDS Integers, Sequences

CONSTANT U32   \* one past the largest std::uint32_t: 2^32 in the code

ASSUME U32Assumption == U32 \in Nat /\ U32 > 9000

Unset == -1

kActionQueueBacked    == 1
kActionNotifySuppress == 4
kActionRewrite        == 5
kActionDeny           == kActionRewrite
kActionMatchSubrules  == 7

kLifetimeTransientFfi == 1
kLifetimePersistFfi   == 3

(***************************************************************************)
(* The fields of a parsed rule.  "filter" only tells an empty filter from  *)
(* one whose tree the client library has to build.                         *)
(***************************************************************************)
RuleSpec ==
  [eventType         : Nat,
   action            : Nat,
   actionName        : {"", "deny", "suppress"},
   selector_override : Nat \cup {Unset},
   modifier_override : Nat \cup {Unset},
   lifetime          : {"Transient", "Persistent"},
   filter            : {"empty", "tree"}]

value_or(opt, default) == IF opt = Unset THEN default ELSE opt

\* Fault: the two named actions are swapped.
ActionSelectorForName_Swapped(name, fallback) ==
  CASE name = "deny"     -> kActionNotifySuppress
    [] name = "suppress" -> kActionDeny
    [] OTHER             -> fallback

ActionSelectorForName(name, fallback) ==
  CASE name = "deny"     -> kActionDeny
    [] name = "suppress" -> kActionNotifySuppress
    [] OTHER             -> fallback

(***************************************************************************)
(* The 64-bit action field is truncated to 32 bits after the test for      *)
(* zero, so an action that is a non-zero multiple of 2^32 becomes          *)
(* selector 0 and not the queue-backed default.                            *)
(***************************************************************************)
RawSelector(spec) ==
  IF spec.action # 0 THEN spec.action % U32 ELSE kActionQueueBacked

NamedSelector(spec) == ActionSelectorForName(spec.actionName, RawSelector(spec))

Selector(spec) == value_or(spec.selector_override, NamedSelector(spec))

SelectorConflicts(spec) ==
  /\ spec.actionName # ""
  /\ spec.selector_override # Unset
  /\ spec.selector_override # NamedSelector(spec)

\* Fault: only the raw action attribute is looked at.
ResolvedActionNeedsQueue_RawOnly(spec) == spec.action = kActionQueueBacked

ResolvedActionNeedsQueue(spec) == Selector(spec) = kActionQueueBacked

DocumentNeedsQueue(document) ==
  \E i \in DOMAIN document : ResolvedActionNeedsQueue(document[i])

LifetimeToFfi(spec) ==
  IF spec.lifetime = "Persistent" THEN kLifetimePersistFfi
                                  ELSE kLifetimeTransientFfi

(***************************************************************************)
(* Event types.                                                            *)
(***************************************************************************)
kEventFoCreate          == 2000
kEventFsQueryOpen       == 3007
kEventObCreateHandle    == 8000
kEventObDuplicateHandle == 8001

(***************************************************************************)
(* The capability record the driver keeps for an event type.               *)
(***************************************************************************)
DriverEventCapabilityMask(e) ==
  CASE e \in {1000, 2001}                                      ->  3
    [] e \in {2000, 7000, 7001}                                -> 27
    [] e \in {2002, 2003} \/ e \in (3000 .. 3008) \ {3007}
         \/ e \in {4000, 4002, 5000, 6000} \/ e \in 7002 .. 7014 -> 11
    [] e \in {2004, 3009}                                      ->  9
    [] e \in {3007, 8000, 8001}                                -> 25
    [] e = 9000                                                ->  7
    [] OTHER                                                   ->  0

\* mask & kDriverEnforceCapableBit (0x02)
IsDriverEnforceCapable(e) == (DriverEventCapabilityMask(e) \div 2) % 2 = 1

IsDispositionWritingCallback(e) ==
  \/ e = 1000
  \/ e \in 2001 .. 2003
  \/ e \in (3000 .. 3008) \ {kEventFsQueryOpen}
  \/ e \in {4000, 4002}

IsEnforceCompatEventType(e) ==
  IsDriverEnforceCapable(e) /\ IsDispositionWritingCallback(e)

EventModifyKindForEvent(e) ==
  CASE e = kEventFoCreate          -> 3
    [] e = kEventObCreateHandle    -> 1
    [] e = kEventObDuplicateHandle -> 2
    [] e = kEventFsQueryOpen       -> 4
    [] OTHER                       -> 0

SupportsEnforcePayload(e) == e = kEventFoCreate \/ IsEnforceCompatEventType(e)

\* The rule's enforcing descriptor can only be built by the patched client.
NeedsCompatPatch(spec) ==
  Selector(spec) = kActionRewrite /\ IsEnforceCompatEventType(spec.eventType)

DocumentRequiresEnforceCompat(document) ==
  \E i \in DOMAIN document : NeedsCompatPatch(document[i])
================================================================================
