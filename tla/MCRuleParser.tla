----------------------------- MODULE MCRuleParser -------------------------------
(***************************************************************************)
(* Instances of RuleParser, and the properties over whole filter trees,    *)
(* which need recursion.                                                   *)
(***************************************************************************)
EXTENDS RuleParser, FiniteSets, FiniteSetsExt

NoAttr == [none |-> TRUE]

RuleAttr ==
  [eventtype |-> "num", lifetime |-> "none", flags |-> "none",
   action |-> "none", selector |-> "none", modifier |-> "none",
   modifykind |-> "none", disposition |-> "none"]

RuleAttrs ==
  {RuleAttr,
   [RuleAttr EXCEPT !.action = "deny", !.eventtype = "none", !.disposition = "name"],
   [RuleAttr EXCEPT !.flags = "big"]}

LeafAttr ==
  [neg |-> FALSE, type |-> 0, operand |-> "none", property |-> "none",
   collection |-> "none", comparand |-> "none"]

\* Both ends of the range of the type, and one past each.
LeafAttrs ==
  {[LeafAttr EXCEPT !.type = 2^(Bits - 1) - 1],
   [LeafAttr EXCEPT !.type = 2^(Bits - 1)],
   [LeafAttr EXCEPT !.neg = TRUE, !.type = 2^(Bits - 1)],
   [LeafAttr EXCEPT !.neg = TRUE, !.type = 2^(Bits - 1) + 1],
   [LeafAttr EXCEPT !.comparand = "bad"],
   [LeafAttr EXCEPT !.collection = "c"]}

CollectionAttr == [type |-> "none", open |-> FALSE, guid |-> "none"]

Tag(names, empties, attrs) == [name : names, empty : empties, attr : attrs]

\* Elements of rules with filter trees.
FilterElements ==
  Tag({"esptool"}, {FALSE}, {NoAttr})
    \cup Tag({"rule"}, BOOLEAN, {RuleAttr})
    \cup Tag({"and", "not"}, BOOLEAN, {NoAttr})
    \cup Tag({"filter"}, {TRUE}, LeafAttrs)
    \cup Tag({"query"}, {TRUE}, {[kind |-> "process", properties |-> "num", context |-> {"set"}],
                                 [kind |-> "none", properties |-> "none", context |-> {}]})
    \cup Tag({"other"}, {FALSE}, {NoAttr})

\* Elements of collections, with those that may be misplaced.
CollectionElements ==
  Tag({"esptool", "collections", "other"}, {FALSE}, {NoAttr})
    \cup Tag({"esptool"}, {TRUE}, {NoAttr})
    \cup Tag({"collection"}, BOOLEAN, {CollectionAttr})
    \cup Tag({"collection"}, {TRUE}, {[CollectionAttr EXCEPT !.open = TRUE],
                                      [CollectionAttr EXCEPT !.open = TRUE, !.guid = "ok"]})
    \cup Tag({"entry"}, BOOLEAN, {NoAttr})
    \cup Tag({"client"}, {TRUE}, {[guid |-> "ok"], [guid |-> "bad"]})
    \cup Tag({"rule"}, BOOLEAN, RuleAttrs)
    \cup Tag({"query"}, {TRUE}, {[kind |-> "process", properties |-> "num", context |-> {"set"}]})
    \cup Tag({"filter"}, {TRUE}, {LeafAttr})
    \cup Tag({"or"}, {TRUE}, {NoAttr})

AllElements == FilterElements \cup CollectionElements

--------------------------------------------------------------------------------
\* The nodes of a filter in document order, each with the combinators over it.
RECURSIVE Nodes(_, _)
Nodes(node, path) ==
  << [path |-> path, kind |-> node.kind, tag |-> node.tag, type |-> node.type] >>
    \o FlattenSeq([i \in DOMAIN node.kids |-> Nodes(node.kids[i], Append(path, node.kind))])

\* What the elements of a rule say: one node, or an And over several.
Written(nodes) ==
  LET tops == Cardinality({i \in DOMAIN nodes : nodes[i].path = << >>}) IN
    CASE tops = 0 -> Nodes(EmptyFilter, << >>)
      [] tops = 1 -> nodes
      [] OTHER    -> << [path |-> << >>, kind |-> "and", tag |-> 0, type |-> 0] >>
                       \o [i \in DOMAIN nodes |->
                             [nodes[i] EXCEPT !.path = <<"and">> \o @]]

EntriesOf(c) == colls[c].entries

\* A document that parses holds what was written.  The filter of a rule has
\* exactly the nodes that the rule's elements wrote, in their order, under the
\* same combinators, with the numbers they wrote: nothing is lost, moved or
\* taken from another rule by the stack discipline of the pass.  Every
\* collection has the entries of its element, in order, if neither collections
\* nor entries are nested; each has every piece of its text in the document, as
\* long as no entry has a CDATA section, which the pass leaves out without an
\* error, or a piece whose value the reader does not give.
DocumentKept ==
  status = "ok" =>
    /\ \A r \in DOMAIN rules : Nodes(rules[r].filter, << >>) = Written(seen[r])
    /\ plain => [c \in DOMAIN colls |-> Len(EntriesOf(c))] = [c \in DOMAIN texts |-> Len(texts[c])]
    /\ plain /\ ~lost => texts = [c \in DOMAIN colls |-> EntriesOf(c)]

\* A statement the code does not meet, rules/README.md:405: the text of an
\* entry is the item, whatever form of text the document has it in.
EntryTextKept ==
  status = "ok" /\ plain => texts = [c \in DOMAIN colls |-> EntriesOf(c)]

\* Combinators over the deepest node of a finished filter.
Depth(filter) == Max({Len(Nodes(filter, << >>)[i].path) : i \in DOMAIN Nodes(filter, << >>)})

\* A statement the code does not meet, rules/README.md:33: the combinators of a
\* filter nest at most kMaxDepth deep.
CombinatorCeiling == \A r \in DOMAIN rules : Depth(rules[r].filter) <= MaxDepth
================================================================================
