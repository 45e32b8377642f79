------------------------------ MODULE FilterBuild ------------------------------
(***************************************************************************)
(* The filters of a rule document: CreateFilterTree builds one tree per    *)
(* rule from leaves and combinators, TryBuildRuleFilter hands the root to  *)
(* filters_, AttachFilterToDescriptor writes handles into the descriptor   *)
(* that EspCreateRule reads, and Disconnect closes filters_ twice (the     *)
(* command and the destructor).                                            *)
(*                                                                         *)
(* A tree is a function on a prefix-closed set of paths: <<>> is the root  *)
(* and p \o <<i>> the i-th child of p.  The recursion of CreateFilterTree  *)
(* is then a walk over paths, and `built` its local left, right and child. *)
(* A create call either fails and gives no handle, or gives a fresh one.   *)
(***************************************************************************)
EXTENDS Naturals, Sequences, FiniteSets, Functions

CONSTANTS
  FilterHandles,  \* values a create call may return
  None,           \* the null handle
  RuleDocuments,  \* sequences of rules
  Collections,    \* names of the collections the document installed
  Exports         \* exports that a library may lack

Parent(p) == SubSeq(p, 1, Len(p) - 1)

\* The children of a node are a vector: numbered from 1 without a gap.
IsTree(t) ==
  /\ DOMAIN t \subseteq Seq(Nat) /\ <<>> \in DOMAIN t
  /\ \A p \in DOMAIN t \ {<<>>} :
       /\ p[Len(p)] > 0 /\ Parent(p) \in DOMAIN t
       /\ \A j \in 1..p[Len(p)] : Append(Parent(p), j) \in DOMAIN t

WellFormedTrees ==
  \A d \in RuleDocuments : Len(d) \in Nat /\ \A k \in 1..Len(d) : IsTree(d[k].tree)

ASSUME NoneAssumption      == None \notin FilterHandles
ASSUME TreesAssumption     == WellFormedTrees

kFilterCtorEvent      == 4
kFilterCtorFileObject == 6
kFilterCtorProcess    == 10
kStringComparandCollection == 4

--------------------------------------------------------------------------------
(***************************************************************************)
(* What a leaf must look like.                                             *)
(***************************************************************************)
\* The payload each constructor's property takes.
LeafPayload(ctor, property) ==
  CASE <<ctor, property>> \in {<<1, 1>>, <<4, 1>>, <<9, 1>>} -> "Bool"
    [] <<ctor, property>> \in {<<4, 2>>, <<5, 2>>, <<6, 18>>, <<6, 28>>, <<9, 2>>,
                               <<11, 1>>, <<12, 3>>, <<16, 2>>} -> "Numeric"
    [] \/ <<ctor, property>> \in {<<5, 17>>, <<7, 1>>, <<8, 1>>, <<8, 2>>, <<10, 1>>}
       \/ ctor = 6 /\ property \in 1..10
       \/ ctor \in {2, 3, 13, 14, 15} /\ property = 1 -> "String"
    [] OTHER -> "None"

\* Comparand 4 is a collection whatever the property; then the numeric, the
\* Boolean and the string comparands.
FillComparand(n) ==
  LET payload == LeafPayload(n.ctor, n.property) IN
  IF n.comparand = kStringComparandCollection
  THEN /\ payload = "String"
       /\ IF n.collection # None THEN n.collection \in Collections
                                 ELSE n.value # "empty"
  ELSE \/ payload = "Numeric" /\ n.comparand \in 1..11 /\ n.value = "number"
       \/ payload = "Bool"
       \/ payload = "String" /\ n.comparand \in 1..3 /\ n.value # "empty"

LeafAccepted(n) == n.ctor \in 1..16 /\ n.property # 0 /\ FillComparand(n)

Combinators == {"and", "or", "xor"}
CombinatorExport(kind) ==
  CASE kind = "and" -> "EspCreateAndFilter"
    [] kind = "or"  -> "EspCreateOrFilter"
    [] kind = "xor" -> "EspCreateXorFilter"
    [] kind = "not" -> "EspCreateNotFilter"

Children(t, p) == {q \in DOMAIN t \ {<<>>} : Parent(q) = p}

IsEmptyFilter(t) == t[<<>>].kind = "leaf" /\ t[<<>>].ctor = 0 /\ Children(t, <<>>) = {}
HasCtorLeaf(t, ctor) == \E p \in DOMAIN t : t[p].kind = "leaf" /\ t[p].ctor = ctor

--------------------------------------------------------------------------------
(***************************************************************************)
(* Where AttachFilterToDescriptor puts the root.                           *)
(***************************************************************************)
DescriptorSlot(ctor) ==
  CASE ctor = kFilterCtorProcess -> "rule process"
    [] ctor = kFilterCtorEvent   -> "rule event"
    [] OTHER                     -> "none"

\* p is visited before q by a walk over the children in order.
Before(p, q) ==
  \/ Len(p) < Len(q) /\ SubSeq(q, 1, Len(p)) = p
  \/ \E i \in 1..Len(p) : i <= Len(q) /\ SubSeq(p, 1, i-1) = SubSeq(q, 1, i-1) /\ p[i] < q[i]

\* FilterRuleOffset: the slot of the first leaf that has one.
FilterRuleOffset(t) ==
  LET placed == {p \in DOMAIN t : t[p].kind = "leaf" /\ DescriptorSlot(t[p].ctor) # "none"} IN
  {DescriptorSlot(t[p].ctor) : p \in {x \in placed : \A y \in placed \ {x} : Before(x, y)}}

\* A file-object or pipe event: the file-object filter, and the descriptor's
\* slot when some leaf is about the process.
TypedIoSlots(event, t) ==
  {s \in {"file object"} : event = "file object" /\ HasCtorLeaf(t, kFilterCtorFileObject)}
  \cup {s \in FilterRuleOffset(t) : HasCtorLeaf(t, kFilterCtorProcess)}

ImageLoadSlot(t) == IF HasCtorLeaf(t, kFilterCtorFileObject) THEN "image" ELSE "config"

\* The slots that take the root of the tree, by event class.  A process
\* creation takes none: only the rewritten leaf of ChildImageLeaf.
Slots(event, t) ==
  CASE event \in {"thread", "process terminate", "registry"} -> {"config"}
    [] event = "image load"              -> {ImageLoadSlot(t)}
    [] event \in {"file object", "pipe"} -> TypedIoSlots(event, t)
    [] event = "process create"          -> {}
    [] OTHER                             -> FilterRuleOffset(t)

\* Every class but "other" gets a configuration blob at +96.
HasConfig(event) == event # "other"

--------------------------------------------------------------------------------
VARIABLES
  lacking,             \* exports this library does not have
  docRules, i, stage,  \* the document's rules, the one in hand, the session's thread
  path, built,         \* the walk: node in hand, handles held by local variables
  handle,              \* handle -> "none", "open", "closed", "closed twice"
  parts,               \* handle -> handles it was combined from
  filters,             \* EspSession::filters_
  refused,             \* leaf nodes the argument checks turned down
  created              \* created rules: index, slot -> handle, config blob or not

filterVars ==
  <<lacking, docRules, i, stage, path, built, handle, parts, filters, refused, created>>

FilterInit ==
  /\ lacking \in SUBSET Exports
  /\ docRules \in RuleDocuments
  /\ i = 1 /\ stage = "rule" /\ path = <<>> /\ built = <<>>
  /\ handle = [h \in FilterHandles |-> "none"] /\ parts = [h \in FilterHandles |-> {}]
  /\ filters = <<>> /\ refused = {} /\ created = {}

tree == docRules[i].tree
Node == tree[path]
\* Which fresh handle a call returns makes no difference.
Fresh == LET new == {h \in FilterHandles : handle[h] = "none"}
         IN  IF new = {} THEN {} ELSE {CHOOSE h \in new : TRUE}
Open(h) == handle' = [handle EXCEPT ![h] = "open"]
Shut(f, hs) == [h \in FilterHandles |-> IF h \notin hs THEN f[h]
                                  ELSE IF f[h] = "open" THEN "closed" ELSE "closed twice"]
Bind(p, h) == built' = [q \in DOMAIN built \cup {p} |-> IF q = p THEN h ELSE built[q]]

--------------------------------------------------------------------------------
\* TryBuildRuleFilter: an empty filter builds nothing.
StartRule ==
  /\ stage = "rule" /\ i <= Len(docRules)
  /\ stage' = IF IsEmptyFilter(tree) THEN "attach" ELSE "visit"
  /\ path' = <<>> /\ built' = <<>>
  /\ UNCHANGED <<lacking, docRules, i, handle, parts, filters, refused, created>>

CreateLeafFilter ==
  /\ stage = "visit" /\ Node.kind = "leaf"
  /\ \/ /\ ~LeafAccepted(Node)
        /\ stage' = "failed" /\ refused' = refused \cup {Node}
        /\ UNCHANGED <<built, handle>>
     \/ /\ LeafAccepted(Node) /\ stage' = "failed"
        /\ UNCHANGED <<built, handle, refused>>
     \/ /\ LeafAccepted(Node) /\ stage' = "built"
        /\ \E h \in Fresh : Open(h) /\ Bind(path, h)
        /\ UNCHANGED refused
  /\ UNCHANGED <<lacking, docRules, i, path, parts, filters, created>>

\* The arity of the node, then its first child.
VisitChildren ==
  /\ stage = "visit" /\ Node.kind # "leaf"
  /\ LET n == Cardinality(Children(tree, path)) IN
     IF (n >= 2 /\ Node.kind \in Combinators) \/ (n = 1 /\ Node.kind = "not")
       THEN path' = Append(path, 1) /\ UNCHANGED stage
       ELSE stage' = "failed" /\ UNCHANGED path
  /\ UNCHANGED <<lacking, docRules, i, built, handle, parts, filters, refused, created>>

\* Only the first two children of a combinator are ever built.
VisitSecond ==
  /\ stage = "built" /\ path # <<>>
  /\ tree[Parent(path)].kind \in Combinators /\ path[Len(path)] = 1
  /\ path' = Append(Parent(path), 2) /\ stage' = "visit"
  /\ UNCHANGED <<lacking, docRules, i, built, handle, parts, filters, refused, created>>

\* Fault: a second child that fails leaves the first one behind.
ChildFailed_KeepsLeft ==
  /\ stage = "failed" /\ path # <<>>
  /\ path' = Parent(path)
  /\ UNCHANGED <<lacking, docRules, i, stage, built, handle, parts, filters, refused, created>>

\* A second child that fails closes the first.
ChildFailed ==
  /\ stage = "failed" /\ path # <<>>
  /\ path' = Parent(path)
  /\ handle' = IF path[Len(path)] = 2 /\ "EspCloseFilter" \notin lacking
                 THEN Shut(handle, {built[Append(path', 1)]}) ELSE handle
  /\ UNCHANGED <<lacking, docRules, i, stage, built, parts, filters, refused, created>>

\* Fault: the children are closed once they are combined.
Combine_ReleasesChildren(p, kids) ==
  LET hs == {built[Append(p, kids[k])] : k \in DOMAIN kids} IN
  /\ stage' = "built"
  /\ \E h \in Fresh : /\ handle' = [Shut(handle, hs) EXCEPT ![h] = "open"] /\ Bind(p, h)
                      /\ parts' = [parts EXCEPT ![h] = hs]
  /\ UNCHANGED filters

\* CreateBinaryFilter and CreateNotFilter take the children over whatever the
\* library answers, but return before that when the export is missing.
Combine(p, kids) ==
  LET hs == [k \in DOMAIN kids |-> built[Append(p, kids[k])]] IN
  IF CombinatorExport(tree[p].kind) \in lacking
    THEN stage' = "failed" /\ UNCHANGED <<built, handle, parts, filters>>
    ELSE /\ filters' = filters \o hs
         /\ \/ stage' = "failed" /\ UNCHANGED <<built, handle, parts>>
            \/ /\ stage' = "built"
               /\ \E h \in Fresh : /\ Open(h) /\ Bind(p, h)
                                   /\ parts' = [parts EXCEPT ![h] = Range(hs)]

CreateBinaryFilter ==
  /\ stage = "built" /\ path # <<>>
  /\ tree[Parent(path)].kind \in Combinators /\ path[Len(path)] = 2
  /\ Combine(Parent(path), <<1, 2>>)
  /\ path' = Parent(path)
  /\ UNCHANGED <<lacking, docRules, i, refused, created>>

CreateNotFilter ==
  /\ stage = "built" /\ path # <<>> /\ tree[Parent(path)].kind = "not"
  /\ Combine(Parent(path), <<1>>)
  /\ path' = Parent(path)
  /\ UNCHANGED <<lacking, docRules, i, refused, created>>

--------------------------------------------------------------------------------
\* A failed tree skips the rule.
RuleFilterFailed ==
  /\ stage = "failed" /\ path = <<>>
  /\ stage' = "rule" /\ i' = i + 1
  /\ UNCHANGED <<lacking, docRules, path, built, handle, parts, filters, refused, created>>

RuleFilterBuilt ==
  /\ stage = "built" /\ path = <<>> /\ stage' = "attach"
  /\ filters' = Append(filters, built[<<>>])
  /\ UNCHANGED <<lacking, docRules, i, path, built, handle, parts, refused, created>>

\* The leaf a process creation is filtered by: a root that is a process leaf,
\* rewritten as a file-object leaf (whose property defaults to 1).
ChildImageLeaf ==
  IF /\ docRules[i].event = "process create"
     /\ Node.kind = "leaf" /\ Node.ctor = kFilterCtorProcess
    THEN {[Node EXCEPT !.ctor = kFilterCtorFileObject,
                       !.property = IF @ = 0 THEN 1 ELSE @]}
    ELSE {}

\* AttachFilterToDescriptor and EspCreateRule, which fails or keeps what the
\* descriptor refers to.  ChildImageLeaf may fail: the rule goes on without it.
CreateRule(slots) ==
  \/ UNCHANGED created
  \/ created' = created \cup
        {[rule |-> i, slots |-> slots, config |-> HasConfig(docRules[i].event)]}

AttachFilterToDescriptor ==
  /\ stage = "attach" /\ stage' = "rule" /\ i' = i + 1
  /\ LET root  == IF <<>> \in DOMAIN built THEN built[<<>>] ELSE None
         slots == IF root = None THEN <<>> ELSE [s \in Slots(docRules[i].event, tree) |-> root]
     IN \/ /\ \E n \in ChildImageLeaf : LeafAccepted(n)
           /\ \E h \in Fresh : /\ Open(h) /\ filters' = Append(filters, h)
                               /\ CreateRule([s \in {"image"} |-> h])
        \/ /\ CreateRule(slots)
           /\ UNCHANGED <<handle, filters>>
  /\ UNCHANGED <<lacking, docRules, path, built, parts, refused>>

\* Disconnect, by the command and again by the destructor: CloseOwned(filters_).
DisconnectFilters ==
  /\ \/ stage = "rule" /\ i > Len(docRules) /\ stage' = "closing"
     \/ stage = "disconnected" /\ stage' = "closing again"
  /\ handle' = IF "EspCloseFilter" \in lacking THEN handle
               ELSE [h \in FilterHandles |->
                       IF Cardinality({k \in DOMAIN filters : filters[k] = h}) > 1
                         THEN "closed twice" ELSE Shut(handle, Range(filters))[h]]
  /\ filters' = <<>>
  /\ UNCHANGED <<lacking, docRules, i, path, built, parts, refused, created>>

\* Then CloseOwned(rules_): the rules are closed after the filters they name.
DisconnectRules ==
  /\ \/ stage = "closing" /\ stage' = "disconnected"
     \/ stage = "closing again" /\ stage' = "end"
  /\ created' = {}
  /\ UNCHANGED <<lacking, docRules, i, path, built, handle, parts, filters, refused>>

Ended == stage = "end" /\ UNCHANGED filterVars

FilterNext ==
  \/ StartRule \/ CreateLeafFilter \/ VisitChildren \/ VisitSecond
  \/ ChildFailed \/ CreateBinaryFilter \/ CreateNotFilter
  \/ RuleFilterFailed \/ RuleFilterBuilt \/ AttachFilterToDescriptor
  \/ DisconnectFilters \/ DisconnectRules \/ Ended

FilterSpec == FilterInit /\ [][FilterNext]_filterVars

--------------------------------------------------------------------------------
\* The stages of the two runs of Disconnect.
Disconnecting == {"closing", "disconnected", "closing again", "end"}

FilterTypeOK ==
  /\ lacking \subseteq Exports /\ docRules \in RuleDocuments /\ i \in 1..(Len(docRules) + 1)
  /\ stage \in {"rule", "visit", "built", "failed", "attach"} \cup Disconnecting
  /\ stage \in {"visit", "built", "failed"} => path \in DOMAIN tree
  /\ Range(built) \subseteq FilterHandles
  /\ handle \in [FilterHandles -> {"none", "open", "closed", "closed twice"}]
  /\ parts \in [FilterHandles -> SUBSET FilterHandles]
  /\ filters \in Seq(FilterHandles)
  /\ \A r \in created : r.rule \in 1..Len(docRules) /\ Range(r.slots) \subseteq FilterHandles

OpenFilters == {h \in FilterHandles : handle[h] = "open"}

\* Between rules the session owns every filter handle that is open: a tree
\* that fails half way, at any node, leaves nothing behind, and filters_
\* holds no handle that was closed on the way.  A library that lacks the export
\* of a combinator leaves its children unowned.  No handle is closed twice, by
\* the clean-up of a failed tree, by the command's Disconnect or by the
\* destructor's.
FiltersOwned ==
  /\ stage \in {"rule"} \cup Disconnecting =>
       /\ Range(filters) \subseteq OpenFilters
       /\ lacking = {} => OpenFilters = Range(filters)
  /\ \A h \in FilterHandles : handle[h] # "closed twice"

\* What a created rule refers to, and all that was combined into it, is open
\* and owned by filters_ until Disconnect closes filters_: the descriptor holds
\* bare pointers.  Disconnect itself closes filters_ before rules_, so that is
\* the one moment when a rule is open and its filters are not.
RuleFiltersLive ==
  stage # "closing" => \A r \in created : \A s \in DOMAIN r.slots :
    LET h == r.slots[s] IN
    h \in OpenFilters \cap Range(filters) /\ parts[h] \subseteq OpenFilters

--------------------------------------------------------------------------------
(***************************************************************************)
(* Statements of the repository's documents that the code does not meet:   *)
(* README.md, "Statements the code does not meet".                         *)
(***************************************************************************)
\* EspCreateRule is given the FilterHandle of the rule's tree: a rule with a
\* filter is never created without one.
RuleCarriesFilter ==
  \A r \in created : ~IsEmptyFilter(docRules[r.rule].tree) => DOMAIN r.slots # {}

\* A ProcessCreate rule with an empty filter has no event configuration.
EmptyProcessCreateBare ==
  \A r \in created :
    docRules[r.rule].event = "process create" /\ IsEmptyFilter(docRules[r.rule].tree)
      => ~r.config

\* The numeric operators 1 to 11 are accepted on a numeric property.
NumericOperatorsAccepted ==
  \A n \in refused : ~(LeafPayload(n.ctor, n.property) = "Numeric"
                       /\ n.comparand \in 1..11 /\ n.value = "number")
================================================================================
