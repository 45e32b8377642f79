----------------------------- MODULE MCFilterBuild -----------------------------
(***************************************************************************)
(* Documents for FilterBuild: every event class, every combinator, leaves  *)
(* that pass and fail the argument checks, nesting in both children.       *)
(***************************************************************************)
EXTENDS FilterBuild

Leaf(ctor, property, comparand, value, collection) ==
  [kind |-> "leaf", ctor |-> ctor, property |-> property, comparand |-> comparand,
   value |-> value, collection |-> collection]
Inner(kind) == [kind |-> kind, ctor |-> 0, property |-> 0, comparand |-> 0,
                value |-> "empty", collection |-> None]

Empty   == Leaf(0, 0, 0, "empty", None)
Process == Leaf(10, 1, 1, "text", None)
Named   == Leaf(10, 1, 4, "empty", "images")
Unknown == Leaf(10, 1, 4, "empty", "nosuch")
Inline  == Leaf(6, 1, 4, "text", None)
File    == Leaf(6, 1, 3, "text", None)
Event   == Leaf(4, 2, 1, "number", None)
BadText == Leaf(4, 2, 1, "text", None)
Client  == Leaf(1, 1, 1, "number", None)
AtMost  == Leaf(12, 3, 4, "number", None)

One(n)         == [p \in {<<>>} |-> n]
Two(k, a, b)   == [p \in {<<>>, <<1>>, <<2>>} |->
                     IF p = <<>> THEN Inner(k) ELSE IF p = <<1>> THEN a ELSE b]
Negation(a)    == [p \in {<<>>, <<1>>} |-> IF p = <<>> THEN Inner("not") ELSE a]
Three(k, a, b, c) == [p \in {<<>>, <<1>>, <<2>>, <<3>>} |->
   IF p = <<>> THEN Inner(k) ELSE IF p = <<1>> THEN a ELSE IF p = <<2>> THEN b ELSE c]
Deep(k, j, a, b, c) ==    \* a, and the j-combination of b and c
  [p \in {<<>>, <<1>>, <<2>>, <<2, 1>>, <<2, 2>>} |->
     CASE p = <<>> -> Inner(k) [] p = <<1>> -> a [] p = <<2>> -> Inner(j)
       [] p = <<2, 1>> -> b [] OTHER -> c]
LeftDeep(k, a, b) ==      \* the negation of a, and b
  [p \in {<<>>, <<1>>, <<2>>, <<1, 1>>} |->
     CASE p = <<>> -> Inner(k) [] p = <<1>> -> Inner("not")
       [] p = <<1, 1>> -> a [] OTHER -> b]

Rule(event, t) == [event |-> event, tree |-> t]
Events == {"thread", "file object", "pipe", "process create", "process terminate",
           "image load", "registry", "other"}
Trees == {One(Empty), One(Process), One(Named), One(Unknown), One(Inline), One(AtMost),
          Two("and", Process, Client), Two("or", File, BadText),
          Three("xor", Event, Process, File), Negation(Process),
          [p \in {<<>>, <<1>>} |-> IF p = <<>> THEN Inner("or") ELSE File],
          LeftDeep("and", File, Process)}

AllDocuments ==
  {<<Rule(e, t)>> : e \in Events, t \in Trees}
  \cup {<<Rule("registry", Deep("and", "or", Process, File, Client)), Rule(e, t)>> :
          e \in {"file object", "process create"},
          t \in {One(Process), Two("or", Inline, File)}}
================================================================================
