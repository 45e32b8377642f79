------------------------------ MODULE RuleParser --------------------------------
(***************************************************************************)
(* The rule document parser: one pass over the nodes of an XmlLite reader, *)
(* which keeps its own idea of where it is (the current rule, the current  *)
(* collection, the open combinators) beside the reader's element stack.    *)
(*                                                                         *)
(* XmlLite is external: it reports start tags, end tags and text of a well *)
(* formed document, no end tag for an empty element, a node of its own     *)
(* type for a CDATA section, and may fail at any node.  Names are lower    *)
(* case already; an attribute value is "none" (absent), "" or a member of  *)
(* the class that its conversion tells apart: "num" fits 32 bits, "big"    *)
(* only 64, "bad" is no number.  Of a rule's attributes only their         *)
(* acceptance is kept.                                                     *)
(***************************************************************************)
EXTENDS Integers, Sequences, SequencesExt

CONSTANTS
  MaxDepth,        \* kMaxDepth, open combinators
  Bits,            \* width of a filter's type (32 in the code)
  Elements,        \* start tags of the run: [name, empty, attr]
  MaxStarts,       \* bound on the start tags of one document
  MaxTexts         \* bound on the text nodes of one document

\* The digits of a filter's type, without its sign.
UnsignedTypes == \A e \in Elements : e.name = "filter" => e.attr.type \in Nat

ASSUME DepthAssumption  == MaxDepth \in Nat \ {0}
ASSUME BitsAssumption   == Bits \in Nat \ {0}
ASSUME BoundAssumption  == MaxStarts \in Nat /\ MaxTexts \in Nat
ASSUME ElementsAssumption == UnsignedTypes

VARIABLES
  xml, tags, chunks,     \* external: open elements; start tags and texts read
  status,                \* "reading", "ok", or what the error names
  sawRoot, rootClosed,
  rule, coll,            \* current_rule, current_collection: an index, 0 is null
  inEntry, entryText,
  stack, roots,          \* open combinators; finished top-level nodes
  client, rules, colls,  \* outcome.document
  seen, texts, lost,     \* history: the filter nodes of each rule; the entry texts
                         \* written; a part of one was not taken
  plain, indirect        \* history: no collection or entry is nested in one; an
                         \* entry was taken that is no child of a collection

document == <<client, rules, colls>>
history  == <<seen, texts, lost, plain, indirect>>
parserVars == <<xml, tags, chunks, status, sawRoot, rootClosed, rule, coll, inEntry,
                entryText, stack, roots, document, history>>

--------------------------------------------------------------------------------
(***************************************************************************)
(* Attributes.                                                             *)
(***************************************************************************)
FilterKindFromTag == {"and", "or", "xor", "not"}

\* Fault: the bound of a positive number is used for a negative one.
ParseSigned32_NoMin(neg, parsed) ==
  [ok |-> parsed < 2^(Bits - 1), out |-> IF neg THEN 0 - parsed ELSE parsed]

\* A minus sign and an unsigned number; the negation is unsigned, then cast.
ParseSigned32(neg, parsed) ==
  LET wrapped == (2^Bits - (parsed % 2^Bits)) % 2^Bits IN
    [ok  |-> IF neg THEN parsed <= 2^(Bits - 1) ELSE parsed < 2^(Bits - 1),
     out |-> IF ~neg THEN parsed
             ELSE IF wrapped >= 2^(Bits - 1) THEN wrapped - 2^Bits ELSE wrapped]

ParseUnsigned32(value) == value = "num"

ParseUnsigned64(value) == value \in {"num", "big"}

\* A disposition is a name or a number from 1 to 5.
ParseRuleAttributes(a) ==
  /\ a.eventtype = "none" \/ ParseUnsigned32(a.eventtype)
  /\ a.lifetime \in {"none", "", "persistent", "transient"}
  /\ a.action \in {"none", "deny", "suppress"} \/ ParseUnsigned64(a.action)
  /\ \A name \in {"flags", "selector", "modifier", "modifykind"} :
       a[name] = "none" \/ ParseUnsigned32(a[name])
  /\ a.disposition # "bad"

\* A missing or unknown kind, a property list or a context word that is not one.
ParseQueryAttributes(a) ==
  /\ a.kind \notin {"none", "", "bad"}
  /\ a.properties \in {"none", "", "num"}
  /\ a.context \subseteq {"set", "enum", ""}

\* A guid="" is an absent one.
ParseCollectionAttributes(a) ==
  /\ a.type \in {"none", "", "string", "integer", "binary"}
  /\ a.guid # "bad"
  /\ a.open => a.guid \notin {"none", ""}

ParseClient(a) == a.guid # "bad"

\* A collection name without a comparand selects the collection comparand.
ParseLeafAttributes(a, tag) ==
  LET type == ParseSigned32(a.neg, a.type) IN
    [ok   |-> /\ type.ok
              /\ a.comparand \in {"none", "zero", "num"}
              /\ a.operand = "none" \/ ParseUnsigned64(a.operand)
              /\ a.property = "none" \/ ParseUnsigned32(a.property),
     leaf |-> [kind |-> "leaf", tag |-> tag, type |-> type.out, kids |-> << >>,
               comparand |-> IF /\ a.collection \notin {"none", ""}
                                /\ a.comparand \in {"none", "zero"}
                             THEN "collection" ELSE a.comparand]]

--------------------------------------------------------------------------------
(***************************************************************************)
(* Filter nodes.                                                           *)
(***************************************************************************)
Combinator(kind, tag, kids) ==
  [kind |-> kind, tag |-> tag, type |-> 0, kids |-> kids, comparand |-> "none"]

EmptyFilter == [kind |-> "leaf", tag |-> 0, type |-> 0, kids |-> << >>, comparand |-> "none"]

\* Append: a finished node goes to the innermost open combinator.
AppendNode(open, tops, node) ==
  IF open = << >>
  THEN stack' = open /\ roots' = Append(tops, node)
  ELSE /\ stack' = [open EXCEPT ![Len(open)].kids = Append(@, node)]
       /\ roots' = tops

\* Several top-level nodes become one And.
FinalizeRule(tops) ==
  CASE tops = << >>   -> EmptyFilter
    [] Len(tops) = 1  -> tops[1]
    [] OTHER          -> Combinator("and", 0, tops)

--------------------------------------------------------------------------------
ParserInit ==
  /\ xml = << >> /\ tags = 0 /\ chunks = 0 /\ status = "reading"
  /\ sawRoot = FALSE /\ rootClosed = FALSE /\ rule = 0 /\ coll = 0
  /\ inEntry = FALSE /\ entryText = 0 /\ stack = << >> /\ roots = << >>
  /\ client = [set |-> FALSE, guid |-> FALSE] /\ rules = << >> /\ colls = << >>
  /\ seen = << >> /\ texts = << >> /\ lost = FALSE /\ plain = TRUE /\ indirect = FALSE

\* The reader returns start tag e; only one element is outermost.
Reads(e) ==
  /\ status = "reading" /\ tags < MaxStarts
  /\ xml = << >> => tags = 0
  /\ tags' = tags + 1 /\ chunks' = chunks
  /\ xml' = IF e.empty THEN xml ELSE Append(xml, e.name)

\* A start tag past the root.
Inside(e, names) == sawRoot /\ e.name \in names /\ Reads(e)

Fails(error) ==
  /\ status' = error
  /\ UNCHANGED <<sawRoot, rootClosed, rule, coll, inEntry, entryText, stack, roots,
                 document, history>>

Root(e) ==
  /\ ~sawRoot /\ Reads(e)
  /\ \/ /\ e.name # "esptool" /\ Fails("root")
     \/ /\ e.name = "esptool" /\ sawRoot' = TRUE
        /\ UNCHANGED <<status, rootClosed, rule, coll, inEntry, entryText, stack,
                       roots, document, history>>

\* A second <client> keeps what it does not set again.
Client(e) ==
  /\ Inside(e, {"client"})
  /\ \/ ~ParseClient(e.attr) /\ Fails("client")
     \/ /\ ParseClient(e.attr)
        /\ client' = [set |-> TRUE, guid |-> client.guid \/ e.attr.guid \notin {"none", ""}]
        /\ UNCHANGED <<status, sawRoot, rootClosed, rule, coll, inEntry, entryText,
                       stack, roots, rules, colls, history>>

\* Fault: an empty <rule/> waits for its end tag.
Rule_NoEmpty(e) ==
  /\ Inside(e, {"rule"})
  /\ \/ rule # 0 /\ Fails("nested rule")
     \/ rule = 0 /\ ~ParseRuleAttributes(e.attr) /\ Fails("rule")
     \/ /\ rule = 0 /\ ParseRuleAttributes(e.attr) /\ stack' = << >> /\ roots' = << >>
        /\ rules' = Append(rules, [queries |-> 0, filter |-> EmptyFilter])
        /\ rule' = Len(rules) + 1
        /\ seen' = Append(seen, << >>)
        /\ UNCHANGED <<status, sawRoot, rootClosed, coll, inEntry, entryText,
                       client, colls, texts, lost, plain, indirect>>

Rule(e) ==
  /\ Inside(e, {"rule"})
  /\ \/ rule # 0 /\ Fails("nested rule")
     \/ rule = 0 /\ ~ParseRuleAttributes(e.attr) /\ Fails("rule")
     \/ /\ rule = 0 /\ ParseRuleAttributes(e.attr) /\ stack' = << >> /\ roots' = << >>
        /\ rules' = Append(rules, [queries |-> 0, filter |-> EmptyFilter])
        /\ rule' = IF e.empty THEN 0 ELSE Len(rules) + 1
        /\ seen' = Append(seen, << >>)
        /\ UNCHANGED <<status, sawRoot, rootClosed, coll, inEntry, entryText,
                       client, colls, texts, lost, plain, indirect>>

\* An unknown element, and <collections> outside a rule, change nothing.
Ignored(e) ==
  /\ Inside(e, {"collections", "other", "esptool"})
  /\ \/ e.name = "collections" /\ rule # 0 /\ Fails("collections")
     \/ /\ e.name = "collections" => rule = 0
        /\ UNCHANGED <<status, sawRoot, rootClosed, rule, coll, inEntry, entryText,
                       stack, roots, document, history>>

Nested == {"collection", "entry"} \cap Range(xml) # {}

Collection(e) ==
  /\ Inside(e, {"collection"})
  /\ \/ rule # 0 /\ Fails("collection in rule")
     \/ rule = 0 /\ ~ParseCollectionAttributes(e.attr) /\ Fails("collection")
     \/ /\ rule = 0 /\ ParseCollectionAttributes(e.attr)
        /\ colls' = Append(colls, [type |-> e.attr.type, open |-> e.attr.open,
                                   entries |-> << >>])
        /\ coll' = IF e.empty THEN 0 ELSE Len(colls) + 1
        /\ texts' = Append(texts, << >>) /\ plain' = (plain /\ ~Nested)
        /\ UNCHANGED <<status, sawRoot, rootClosed, rule, inEntry, entryText,
                       stack, roots, client, rules, seen, lost, indirect>>

\* An <entry> counts wherever current_collection is set.
Entry(e) ==
  /\ Inside(e, {"entry"})
  /\ \/ coll = 0 /\ Fails("entry")
     \/ /\ coll # 0 /\ inEntry' = ~e.empty /\ entryText' = 0
        /\ colls' = IF e.empty THEN [colls EXCEPT ![coll].entries = Append(@, 0)] ELSE colls
        /\ texts' = [texts EXCEPT ![Len(texts)] = Append(@, 0)]
        /\ plain' = (plain /\ "entry" \notin Range(xml))
        /\ indirect' = (indirect \/ Last(xml) # "collection")
        /\ UNCHANGED <<status, sawRoot, rootClosed, rule, coll, stack, roots,
                       client, rules, seen, lost>>

Query(e) ==
  /\ Inside(e, {"query"})
  /\ \/ rule = 0 /\ Fails("query outside")
     \/ rule # 0 /\ ~ParseQueryAttributes(e.attr) /\ Fails("query")
     \/ /\ rule # 0 /\ ParseQueryAttributes(e.attr)
        /\ rules' = [rules EXCEPT ![rule].queries = @ + 1]
        /\ UNCHANGED <<status, sawRoot, rootClosed, rule, coll, inEntry, entryText,
                       stack, roots, client, colls, history>>

\* Where the reader is inside the rule: its open combinators.
Path == SelectSeq(xml, LAMBDA name : name \in FilterKindFromTag)

Sees(kind, value) ==
  seen' = [seen EXCEPT ![rule] =
             Append(@, [path |-> Path, kind |-> kind, tag |-> tags', type |-> value])]

FilterLeaf(e) ==
  /\ Inside(e, {"filter"})
  /\ LET parsed == ParseLeafAttributes(e.attr, tags') IN
     \/ rule = 0 /\ Fails("filter outside")
     \/ rule # 0 /\ ~parsed.ok /\ Fails("filter")
     \/ /\ rule # 0 /\ parsed.ok /\ AppendNode(stack, roots, parsed.leaf)
        /\ Sees("leaf", IF e.attr.neg THEN 0 - e.attr.type ELSE e.attr.type)
        /\ UNCHANGED <<status, sawRoot, rootClosed, rule, coll, inEntry, entryText,
                       document, texts, lost, plain, indirect>>

FilterCombinator(e) ==
  /\ Inside(e, FilterKindFromTag)
  /\ LET node == Combinator(e.name, tags', << >>) IN
     \/ rule = 0 /\ Fails("combinator outside")
     \/ rule # 0 /\ Len(stack) >= MaxDepth /\ Fails("too deep")
     \/ /\ rule # 0 /\ Len(stack) < MaxDepth
        /\ IF e.empty
           THEN AppendNode(stack, roots, node)
           ELSE stack' = Append(stack, node) /\ roots' = roots
        /\ Sees(e.name, 0)
        /\ UNCHANGED <<status, sawRoot, rootClosed, rule, coll, inEntry, entryText,
                       document, texts, lost, plain, indirect>>

--------------------------------------------------------------------------------
(***************************************************************************)
(* End tags and text.                                                      *)
(***************************************************************************)
Ends(names) ==
  /\ status = "reading" /\ xml # << >> /\ Last(xml) \in names
  /\ xml' = Front(xml) /\ UNCHANGED <<tags, chunks, history>>

EndCombinator ==
  /\ Ends(FilterKindFromTag)
  /\ UNCHANGED <<sawRoot, rootClosed, rule, coll, inEntry, entryText, document>>
  /\ IF stack = << >>
     THEN status' = "mismatched" /\ UNCHANGED <<stack, roots>>
     ELSE status' = status /\ AppendNode(Front(stack), roots, Last(stack))

EndRule ==
  /\ Ends({"rule"})
  /\ rules' = IF rule # 0 THEN [rules EXCEPT ![rule].filter = FinalizeRule(roots)] ELSE rules
  /\ roots' = IF rule # 0 THEN << >> ELSE roots
  /\ rule' = 0
  /\ UNCHANGED <<status, sawRoot, rootClosed, coll, inEntry, entryText, stack,
                 client, colls>>

EndEntry ==
  /\ Ends({"entry"})
  /\ colls' = IF coll # 0 /\ inEntry
              THEN [colls EXCEPT ![coll].entries = Append(@, entryText)] ELSE colls
  /\ inEntry' = FALSE /\ entryText' = 0
  /\ UNCHANGED <<status, sawRoot, rootClosed, rule, coll, stack, roots, client, rules>>

EndOther ==
  /\ Ends({"collection", "esptool", "collections", "other", "client", "query", "filter"})
  /\ coll' = IF Last(xml) = "collection" THEN 0 ELSE coll
  /\ rootClosed' = (rootClosed \/ Last(xml) = "esptool")
  /\ UNCHANGED <<status, sawRoot, rule, inEntry, entryText, stack, roots, document>>

\* The node types the reader has for character data.
Taken == {"text", "whitespace"}
CharacterData == Taken \cup {"cdata"}

\* Fault: a text node replaces what was read of the entry.
Text_Replaces(type, value) ==
  /\ status = "reading" /\ xml # << >> /\ chunks < MaxTexts /\ chunks' = chunks + 1
  /\ entryText' = IF inEntry /\ type \in Taken /\ value THEN 1 ELSE entryText
  /\ texts' = IF plain /\ "entry" \in Range(xml)
              THEN [texts EXCEPT ![Len(texts)][Len(texts[Len(texts)])] = @ + 1] ELSE texts
  /\ lost' = (lost \/ ("entry" \in Range(xml) /\ ~(type \in Taken /\ value)))
  /\ UNCHANGED <<xml, tags, status, sawRoot, rootClosed, rule, coll, inEntry, stack,
                 roots, document, seen, plain, indirect>>

\* A comment splits the text of an entry into several nodes; GetValue may have
\* no value; a CDATA section is none of the taken types, and is passed over.
\* The text of an entry is abstracted to how many nodes of it were kept.
Text(type, value) ==
  /\ status = "reading" /\ xml # << >> /\ chunks < MaxTexts /\ chunks' = chunks + 1
  /\ entryText' = IF inEntry /\ type \in Taken /\ value THEN entryText + 1 ELSE entryText
  /\ texts' = IF plain /\ "entry" \in Range(xml)
              THEN [texts EXCEPT ![Len(texts)][Len(texts[Len(texts)])] = @ + 1]
              ELSE texts
  /\ lost' = (lost \/ ("entry" \in Range(xml) /\ ~(type \in Taken /\ value)))
  /\ UNCHANGED <<xml, tags, status, sawRoot, rootClosed, rule, coll, inEntry, stack,
                 roots, document, seen, plain, indirect>>

\* Read returns no more nodes: at the end of the document, or with an error.
ReadStops(wellFormed) ==
  /\ status = "reading"
  /\ wellFormed => xml = << >>
  /\ status' = IF ~sawRoot         THEN "empty"
               ELSE IF ~wellFormed THEN "not well formed"
               ELSE IF ~rootClosed THEN "root not closed"
               ELSE IF rule # 0    THEN "unterminated rule"
               ELSE "ok"
  /\ UNCHANGED <<xml, tags, chunks, sawRoot, rootClosed, rule, coll, inEntry,
                 entryText, stack, roots, document, history>>

\* Run, MakeXmlReader, SetInput, and the file behind ParseRuleFile: a document
\* of which no node is read.
Unreadable ==
  /\ status = "reading" /\ tags = 0
  /\ status' \in {"no COM", "no stream", "no reader", "file", "size", "read"}
  /\ UNCHANGED <<xml, tags, chunks, sawRoot, rootClosed, rule, coll, inEntry,
                 entryText, stack, roots, document, history>>

Element(e) ==
  \/ Root(e) \/ Client(e) \/ Rule(e) \/ Ignored(e) \/ Collection(e) \/ Entry(e)
  \/ Query(e) \/ FilterLeaf(e) \/ FilterCombinator(e)

ParserNext ==
  \/ \E e \in Elements : Element(e)
  \/ EndCombinator \/ EndRule \/ EndEntry \/ EndOther
  \/ \E type \in CharacterData, value \in BOOLEAN : Text(type, value)
  \/ ReadStops(TRUE) \/ ReadStops(FALSE) \/ Unreadable

ParserSpec == ParserInit /\ [][ParserNext]_parserVars

--------------------------------------------------------------------------------
(***************************************************************************)
(* Properties.                                                             *)
(***************************************************************************)
\* Types of the parser's state.
ParserTypeOK ==
  /\ status \in STRING /\ rule \in 0..Len(rules) /\ coll \in 0..Len(colls)
  /\ inEntry \in BOOLEAN /\ lost \in BOOLEAN /\ entryText \in 0..MaxTexts
  /\ tags \in 0..MaxStarts /\ chunks \in 0..MaxTexts
  /\ Len(seen) = Len(rules) /\ Len(texts) = Len(colls)

\* The stack holds exactly the open combinators, in their order.
StackAgrees ==
  LET opened == {k \in DOMAIN xml : xml[k] \in FilterKindFromTag} IN
  \E at \in [DOMAIN stack -> opened] :
    /\ Range(at) = opened
    /\ \A n \in DOMAIN stack : stack[n].kind = xml[at[n]]
    /\ \A m, n \in DOMAIN stack : m < n => at[m] < at[n]

\* What the parser believes is what the reader is at, although XmlLite reports
\* no end of an empty element: a rule is current exactly inside <rule>, and is
\* the last of the document (a pointer into the vector that no later
\* emplace_back moved); the stack holds exactly the open combinators; "in
\* entry" is believed only inside <entry>.
ReaderAgrees ==
  status = "reading" =>
    /\ rule = IF "rule" \in Range(xml) THEN Len(rules) ELSE 0
    /\ coll \in {0, Len(colls)}
    /\ StackAgrees
    /\ inEntry => "entry" \in Range(xml)

\* A leaf's number is refused only outside the range of its type, and is stored
\* as written: DocumentKept compares the stored one with the written one.
RefusedOutOfRange ==
  [][\A e \in Elements :
       /\ e.name = "filter" /\ rule # 0 /\ FilterLeaf(e) /\ status' = "filter"
       /\ {e.attr.comparand, e.attr.operand, e.attr.property} = {"none"}
       => (IF e.attr.neg THEN 0 - e.attr.type ELSE e.attr.type)
             \notin -(2^(Bits - 1)) .. (2^(Bits - 1) - 1)]_parserVars

--------------------------------------------------------------------------------
(***************************************************************************)
(* Statements of the repository's documents that the code does not meet:   *)
(* README.md, "Statements the code does not meet".                         *)
(***************************************************************************)
\* rules/README.md:49: an entry that is taken is a child of a collection.
EntryDirect == status = "ok" => ~indirect

\* rules/README.md:74: an <entry> is refused only outside <collection>.
EntryRefusedOutside == status = "entry" => "collection" \notin Range(xml)
================================================================================
