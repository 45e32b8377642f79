---------------------------- MODULE DocumentProofs -----------------------------
(***************************************************************************)
(* Safety of the three components that carry a rule document to the kernel *)
(* objects made from it: RuleParser reads it, Collections installs its     *)
(* collections and FilterBuild its filters.  No theorem relates the state  *)
(* of two of them.                                                         *)
(***************************************************************************)
EXTENDS RuleParser, Collections, FilterBuild,
        FiniteSetTheorems, SequenceTheorems, WellFoundedInduction, TLAPS

--------------------------------------------------------------------------------
(***************************************************************************)
(* Collections.  The invariant relates collections_ to the handles open in *)
(* the library, and named_collections_ to the declarations of the document *)
(* that InstallDocumentCollections has passed: their order is what makes   *)
(* the first pair of a name the first declaration of it.                   *)
(***************************************************************************)
\* Where an install session and where a collections command is.
InstallPcs == {"ready", "spec", "name", "entries", "installed", "inline"}
CommandPcs == {"create", "update", "id", "ids", "open", "close"}
LoopPcs == {"spec", "name", "entries", "installed"}

\* A record of content, not Null.
IsInfo(r) == r = [desc |-> r.desc, install |-> r.install, spec |-> r.spec,
                  opened |-> r.opened, entries |-> r.entries]

\* Types.
CollTyped ==
  /\ missing \subseteq {"create", "open", "close"} /\ exit \in {0, 1}
  /\ pc \in InstallPcs \cup CommandPcs \cup {"connect", "disconnect", "done"}
  /\ installs \in 0..MaxInstalls /\ allOk \in BOOLEAN /\ createdId \in BOOLEAN
  /\ collection \in Handles \cup {Null} /\ owned \in Seq(Handles)
  /\ open \subseteq Handles /\ DOMAIN content = Handles
  /\ content = [h \in Handles |-> content[h]]
  /\ IsVector(named) /\ spec \in Nat \ {0} /\ entry \in Nat \ {0}
  /\ IsVector(doc.colls) /\ \A s \in Range(doc.colls) : IsVector(s.entries)

\* What is owned is what is open, and the local handle is among it wherever
\* it is used.
OpenInv ==
  /\ stale = FALSE
  /\ pc # "done" => open = Range(owned)
  /\ pc = "done" /\ "close" \notin missing => open = {}
  /\ pc \in {"connect", "create"} => owned = << >>
  /\ pc \in {"update", "close"} => owned = <<collection>>
  /\ pc \in {"update", "close", "id", "name", "entries"} => collection \in open
  /\ pc = "inline" /\ collection # Null => collection \in open
  /\ \A h \in open : IsInfo(content[h])

\* What each stage of a command has behind it.
PhaseInv ==
  /\ pc \in InstallPcs => cmd.name = "install"
  /\ cmd.name = "extended" /\ pc \notin {"disconnect", "done"} => exit = 1
  /\ pc \in {"id", "ids", "open"} => "filled" \in did
  /\ pc = "open" /\ allOk /\ cmd.enum => "ids" \in did
  /\ cmd.name = "extended" /\ exit = 0 =>
       /\ "filled" \in did
       /\ cmd.enum => "ids" \in did
       /\ WantsOpen => "opened" \in did

\* named[k] is the collection of a declaration already passed.
Declared(k) ==
  LET made == content[named[k][2]] IN
  /\ named[k][2] \in open /\ made.install = installs
  /\ made.spec \in DOMAIN doc.colls /\ made.spec < spec
  /\ doc.colls[made.spec].name = named[k][1] /\ named[k][1] # ""
  /\ allOk => made.opened \/ made.entries = doc.colls[made.spec].entries

\* The named pairs are the named declarations passed, in their order, none
\* left out while all_ok holds.
NamedInv ==
  pc \in LoopPcs =>
    /\ \A k \in DOMAIN named : Declared(k)
    /\ \A j, k \in DOMAIN named : j < k => content[named[j][2]].spec < content[named[k][2]].spec
    /\ allOk => \A m \in DOMAIN doc.colls : m < spec /\ doc.colls[m].name # ""
                  => \E k \in DOMAIN named : content[named[k][2]].spec = m

\* The collection in hand is the one of the current declaration, with the
\* entries already passed.
CurrentInv ==
  /\ pc \in {"name", "entries"} =>
       spec \in DOMAIN doc.colls /\ content[collection].install = installs /\ content[collection].spec = spec
  /\ pc = "name" => content[collection].opened
  /\ pc = "entries" =>
       /\ entry <= Len(doc.colls[spec].entries) + 1
       /\ allOk => content[collection].entries = SubSeq(doc.colls[spec].entries, 1, entry - 1)
  /\ pc = "installed" /\ allOk => spec > Len(doc.colls)

\* Nothing that a filter was given is closed or replaced before the next
\* install.
UsedInv ==
  used # NoUse => pc \in {"ready", "disconnect"} /\ FilterGetsItsCollection

CollectionInv == CollTyped /\ OpenInv /\ PhaseInv /\ NamedInv /\ CurrentInv /\ UsedInv

--------------------------------------------------------------------------------
\* A vector is indexed from 1 to its length.
LEMMA VectorProperties ==
  ASSUME NEW s, IsVector(s)
  PROVE  Len(s) \in Nat /\ DOMAIN s = 1..Len(s) /\ \A k \in 1..Len(s) : s[k] \in Range(s)
<1>1. s \in Seq(Range(s))
  BY DEF IsVector
<1> QED BY <1>1

\* emplace_back: one element more, the others where they were.
LEMMA VectorAppend ==
  ASSUME NEW s, IsVector(s), NEW x
  PROVE  /\ IsVector(Append(s, x)) /\ Len(Append(s, x)) = Len(s) + 1
         /\ DOMAIN Append(s, x) = 1..(Len(s) + 1)
         /\ \A k \in 1..Len(s) : Append(s, x)[k] = s[k]
         /\ Append(s, x)[Len(s) + 1] = x
         /\ Range(Append(s, x)) = Range(s) \cup {x}
<1> DEFINE S == Range(s) \cup {x}
           t == Append(s, x)
<1>1. s \in Seq(Range(s))
  BY DEF IsVector
<1>2. s \in Seq(S)
  BY <1>1
<1>3. /\ t \in Seq(S) /\ Len(t) = Len(s) + 1 /\ Len(s) \in Nat /\ DOMAIN t = 1..(Len(s) + 1)
      /\ \A k \in 1..Len(s) : t[k] = s[k]
      /\ t[Len(s) + 1] = x /\ DOMAIN s = 1..Len(s)
  BY <1>2
<1> HIDE DEF t
<1>4. Range(t) \subseteq S
  BY <1>3 DEF Range
<1>5. S \subseteq Range(t)
  BY <1>3 DEF Range
<1>6. Range(t) = S
  BY <1>4, <1>5
<1>7. IsVector(t)
  BY <1>3, <1>6 DEF IsVector
<1> QED BY <1>3, <1>6, <1>7 DEF t

\* The same over the domains.
LEMMA DomainAppend ==
  ASSUME NEW s, IsVector(s), NEW x
  PROVE  /\ \A k \in DOMAIN s : k \in DOMAIN Append(s, x) /\ Append(s, x)[k] = s[k]
         /\ \A k \in DOMAIN Append(s, x) : k \in DOMAIN s \/ (k = Len(s) + 1 /\ Append(s, x)[k] = x)
         /\ Len(s) + 1 \in DOMAIN Append(s, x) /\ Append(s, x)[Len(s) + 1] = x
<1> DEFINE t == Append(s, x)
           n == Len(s)
<1>1. /\ DOMAIN t = 1..(n + 1) /\ t[n + 1] = x /\ \A k \in 1..n : t[k] = s[k]
  BY VectorAppend
<1>2. n \in Nat /\ DOMAIN s = 1..n
  BY VectorProperties
<1> HIDE DEF t, n
<1>3. \A k \in 1..(n + 1) : k \in 1..n \/ k = n + 1
  BY <1>2
<1>4. 1..n \subseteq 1..(n + 1) /\ n + 1 \in 1..(n + 1)
  BY <1>2
<1> QED BY <1>1, <1>2, <1>3, <1>4 DEF t, n

\* A sequence over any set is a vector.
LEMMA SeqIsVector ==
  ASSUME NEW S, NEW s \in Seq(S)
  PROVE  IsVector(s)
<1>1. DOMAIN s = 1..Len(s) /\ Len(s) \in Nat /\ s = [k \in 1..Len(s) |-> s[k]]
  OBVIOUS
<1>2. \A k \in 1..Len(s) : s[k] \in Range(s)
  BY <1>1 DEF Range
<1>3. s \in Seq(Range(s))
  BY <1>1, <1>2
<1> QED BY <1>3 DEF IsVector

\* The records of content, field by field.
LEMMA RecordUpdate ==
  ASSUME NEW a, NEW b, NEW c, NEW d, NEW e, NEW x
  PROVE  /\ [[desc |-> a, install |-> b, spec |-> c, opened |-> d, entries |-> e] EXCEPT !.entries = x]
              = [desc |-> a, install |-> b, spec |-> c, opened |-> d, entries |-> x]
         /\ [[desc |-> a, install |-> b, spec |-> c, opened |-> d, entries |-> e] EXCEPT !.opened = x]
              = [desc |-> a, install |-> b, spec |-> c, opened |-> x, entries |-> e]
         /\ [[desc |-> a, install |-> b, spec |-> c, opened |-> d, entries |-> e] EXCEPT !.spec = x]
              = [desc |-> a, install |-> b, spec |-> x, opened |-> d, entries |-> e]
OBVIOUS

\* The empty vector.
LEMMA EmptyVector == IsVector(<< >>) /\ Range(<< >>) = {} /\ Len(<< >>) = 0
BY DEF IsVector, Range

\* A nonempty set of positions has a first one.
LEMMA MinExists ==
  ASSUME NEW S, S \subseteq Nat, S # {}
  PROVE  Min(S) \in S /\ \A y \in S : Min(S) <= y
<1> DEFINE R == OpToRel(<, Nat)
<1>1. \E x \in S : \A y \in S : ~(<<y, x>> \in R)
  BY NatLessThanWellFounded, WFMin
<1>2. PICK x \in S : \A y \in S : ~(<<y, x>> \in R)
  BY <1>1
<1>a. \A a, b \in Nat : a < b => <<a, b>> \in R
  BY DEF OpToRel
<1>b. \A y \in S : ~(y < x)
  BY <1>2, <1>a, Zenon
<1>3. \A y \in S : x <= y
  <2> HIDE DEF R
  <2> QED BY <1>b
<1>4. \E z \in S : \A y \in S : z =< y
  BY <1>3
<1> QED BY <1>4 DEF Min

\* FindNamedCollection returns the handle of the first pair with the name.
LEMMA FirstNamed ==
  ASSUME IsVector(named), NEW name, FindNamedCollection(name) # Null
  PROVE  \E k \in DOMAIN named : /\ FindNamedCollection(name) = named[k][2] /\ named[k][1] = name
                                 /\ \A j \in DOMAIN named : named[j][1] = name => k <= j
<1> DEFINE I == {m \in 1..Len(named) : named[m][1] = name}
           k == SelectInSeq(named, LAMBDA pair : pair[1] = name)
<1>1. Len(named) \in Nat /\ DOMAIN named = 1..Len(named)
  BY VectorProperties
<1>2. k = IF I # {} THEN Min(I) ELSE 0
  BY DEF SelectInSeq
<1>3. FindNamedCollection(name) = IF k = 0 THEN Null ELSE named[k][2]
  BY DEF FindNamedCollection
<1> HIDE DEF k
<1>4. I # {} /\ k = Min(I)
  BY <1>2, <1>3
<1>5. I \subseteq Nat
  BY <1>1
<1>6. k \in I /\ \A y \in I : k <= y
  BY <1>4, <1>5, MinExists
<1> QED BY <1>1, <1>3, <1>6

\* The first declaration of a name, 0 if there is none.
FirstOf(cs, name) ==
  LET I == {m \in 1..Len(cs) : cs[m].name = name} IN IF I # {} THEN Min(I) ELSE 0

\* FirstOf is what its name says: a declaration with no earlier one of its
\* name.
LEMMA FirstDeclared ==
  ASSUME NEW cs, IsVector(cs), NEW name, NEW m \in DOMAIN cs, cs[m].name = name,
         \A j \in DOMAIN cs : cs[j].name = name => m <= j
  PROVE  FirstOf(cs, name) = m
<1> DEFINE I == {n \in 1..Len(cs) : cs[n].name = name}
<1>1. Len(cs) \in Nat /\ DOMAIN cs = 1..Len(cs)
  BY VectorProperties
<1>2. FirstOf(cs, name) = IF I # {} THEN Min(I) ELSE 0
  BY DEF FirstOf
<1>3. m \in I /\ I \subseteq Nat /\ \A j \in I : m <= j
  BY <1>1
<1>4. Min(I) \in I /\ \A y \in I : Min(I) <= y
  BY <1>3, MinExists
<1> HIDE DEF I
<1>5. Min(I) = m
  BY <1>3, <1>4
<1> QED BY <1>2, <1>3, <1>5

\* The entries sent so far, and one more.
LEMMA SubSeqGrows ==
  ASSUME NEW e, IsVector(e), NEW n \in 1..Len(e)
  PROVE  Append(SubSeq(e, 1, n - 1), e[n]) = SubSeq(e, 1, n + 1 - 1)
<1> DEFINE S == Range(e)
<1>1. e \in Seq(S) /\ Len(e) \in Nat /\ e[n] \in S
  BY VectorProperties DEF IsVector
<1> HIDE DEF S
<1>2. n + 1 - 1 = n
  OBVIOUS
<1>3. /\ SubSeq(e, 1, n) \in Seq(S) /\ Len(SubSeq(e, 1, n)) = n
      /\ \A k \in 1..n : SubSeq(e, 1, n)[k] = e[k]
  BY <1>1
<1>4. /\ SubSeq(e, 1, n - 1) \in Seq(S) /\ Len(SubSeq(e, 1, n - 1)) = n - 1
      /\ \A k \in 1..(n - 1) : SubSeq(e, 1, n - 1)[k] = e[k]
  BY <1>1
<1> DEFINE a == SubSeq(e, 1, n - 1)
           b == SubSeq(e, 1, n)
           c == Append(a, e[n])
<1> HIDE DEF a, b
<1>5. /\ c \in Seq(S) /\ Len(c) = n /\ \A k \in 1..n : c[k] = e[k]
  BY <1>1, <1>4 DEF a
<1> HIDE DEF c
<1>6. c = b
  BY <1>3, <1>5 DEF b
<1> QED BY <1>2, <1>6 DEF a, b, c

\* Before the first entry nothing was sent, after the last one all were.
LEMMA WholeSubSeq ==
  ASSUME NEW e, IsVector(e)
  PROVE  SubSeq(e, 1, Len(e) + 1 - 1) = e /\ SubSeq(e, 1, 1 - 1) = << >>
<1>1. e \in Seq(Range(e)) /\ Len(e) \in Nat /\ Len(e) + 1 - 1 = Len(e)
  BY DEF IsVector
<1> QED BY <1>1
--------------------------------------------------------------------------------
\* What Adopt and Owns do together.
LEMMA Adopted ==
  ASSUME CollTyped, OpenInv, pc # "done", NEW outcome, NEW h, NEW info, IsInfo(info),
         Adopt(outcome, h, info), Owns(outcome, h)
  PROVE  /\ collection' \in Handles \cup {Null} /\ owned' \in Seq(Handles)
         /\ open' = Range(owned') /\ open \subseteq open' /\ open' \subseteq Handles
         /\ DOMAIN content' = Handles /\ content' = [g \in Handles |-> content'[g]]
         /\ \A g \in open : content'[g] = content[g]
         /\ \A g \in open' : IsInfo(content'[g])
         /\ outcome = "ok" => /\ collection' \in open' \ open /\ content'[collection'] = info
                              /\ owned' = Append(owned, collection')
         /\ outcome # "ok" => collection' = Null /\ owned' = owned
<1>1. open = Range(owned) /\ owned \in Seq(Handles) /\ open \subseteq Handles /\ DOMAIN content = Handles
      /\ content = [g \in Handles |-> content[g]] /\ \A g \in open : IsInfo(content[g])
  BY DEF CollTyped, OpenInv
<1>2. CASE outcome = "ok"
  <2>1. /\ h \in Handles \ open /\ open' = open \cup {h} /\ collection' = h
        /\ content' = [content EXCEPT ![h] = info] /\ owned' = Append(owned, h)
    BY <1>2 DEF Adopt, Owns
  <2>2. IsVector(owned)
    BY <1>1, SeqIsVector
  <2>3. Range(owned') = Range(owned) \cup {h}
    BY <2>1, <2>2, VectorAppend
  <2>4. /\ DOMAIN content' = Handles /\ content'[h] = info
        /\ \A g \in Handles : g # h => content'[g] = content[g]
    BY <1>1, <2>1
  <2>5. content' = [g \in Handles |-> content'[g]]
    BY <1>1, <2>1
  <2>6. owned' \in Seq(Handles)
    BY <1>1, <2>1
  <2>7. \A g \in open : content'[g] = content[g]
    BY <1>1, <2>1, <2>4
  <2>8. \A g \in open' : IsInfo(content'[g])
    BY <1>1, <2>1, <2>4, <2>7
  <2> QED BY <1>1, <1>2, <2>1, <2>3, <2>4, <2>5, <2>6, <2>7, <2>8
<1>3. CASE outcome # "ok"
  <2>1. collection' = Null /\ open' = open /\ content' = content /\ owned' = owned
    BY <1>3 DEF Adopt, Owns
  <2> QED BY <1>1, <1>3, <2>1
<1> QED BY <1>2, <1>3

\* What an EspUpdateCollection of an open collection does.
LEMMA Updated ==
  ASSUME CollTyped, OpenInv, collection \in open, NEW ok \in BOOLEAN, NEW e, Update(ok, e)
  PROVE  /\ stale' = FALSE /\ open' = open
         /\ DOMAIN content' = Handles /\ content' = [g \in Handles |-> content'[g]]
         /\ \A g \in Handles : g # collection => content'[g] = content[g]
         /\ \A g \in open : IsInfo(content'[g])
         /\ content'[collection].install = content[collection].install
         /\ content'[collection].spec = content[collection].spec
         /\ content'[collection].opened = content[collection].opened
         /\ ok => content'[collection].entries = Append(content[collection].entries, e)
<1> DEFINE c == collection
           r == content[c]
<1>1. /\ stale = FALSE /\ DOMAIN content = Handles /\ c \in Handles /\ c \in open
      /\ content = [g \in Handles |-> content[g]] /\ \A g \in open : IsInfo(content[g])
      /\ open \subseteq Handles
  BY DEF CollTyped, OpenInv
<1>2. stale' = FALSE /\ open' = open
  BY <1>1 DEF Update, Uses
<1>3. CASE ~ok
  <2>1. content' = content
    BY <1>3 DEF Update
  <2> QED BY <1>1, <1>2, <1>3, <2>1
<1>4. CASE ok
  <2> DEFINE new == [r EXCEPT !.entries = Append(r.entries, e)]
  <2>1. content' = [content EXCEPT ![c] = new]
    BY <1>4 DEF Update
  <2>2. r = [desc |-> r.desc, install |-> r.install, spec |-> r.spec,
             opened |-> r.opened, entries |-> r.entries]
    BY <1>1 DEF IsInfo
  <2>3. new = [desc |-> r.desc, install |-> r.install, spec |-> r.spec,
               opened |-> r.opened, entries |-> Append(r.entries, e)]
    <3> DEFINE x == Append(r.entries, e)
               old == [desc |-> r.desc, install |-> r.install, spec |-> r.spec,
                       opened |-> r.opened, entries |-> r.entries]
    <3>1. new = [old EXCEPT !.entries = x]
      BY <2>2
    <3> HIDE DEF x, new
    <3>2. [old EXCEPT !.entries = x]
            = [desc |-> r.desc, install |-> r.install, spec |-> r.spec,
               opened |-> r.opened, entries |-> x]
      BY RecordUpdate
    <3> QED BY <3>1, <3>2 DEF x
  <2> HIDE DEF new, r, c
  <2>4. /\ IsInfo(new) /\ new.install = r.install /\ new.spec = r.spec
        /\ new.opened = r.opened /\ new.entries = Append(r.entries, e)
    BY <2>3 DEF IsInfo
  <2>5. /\ DOMAIN content' = Handles /\ content' = [g \in Handles |-> content'[g]]
        /\ \A g \in Handles : g # c => content'[g] = content[g]
        /\ content'[c] = new
    BY <1>1, <2>1
  <2>6. \A g \in open : IsInfo(content'[g])
    BY <1>1, <2>4, <2>5
  <2> QED BY <1>2, <2>4, <2>5, <2>6 DEF c, r
<1> QED BY <1>3, <1>4

\* What a collection is recorded as when it is created or opened.
LEMMA MadeInfo ==
  ASSUME NEW type
  PROVE  /\ IsInfo(Made(type)) /\ Made(type).install = installs /\ Made(type).spec = spec
         /\ Made(type).entries = << >>
         /\ IsInfo(Opened) /\ Opened.install = installs /\ Opened.spec = spec /\ Opened.opened = TRUE
         /\ IsInfo([Made(type) EXCEPT !.spec = 0])
<1> DEFINE d == WriteCollectionCreateDesc(type)
           z == WriteCollectionCreateDesc(0)
<1>1. Made(type) = [desc |-> d, install |-> installs, spec |-> spec, opened |-> FALSE, entries |-> << >>]
  BY DEF Made
<1>2. Opened = [[desc |-> z, install |-> installs, spec |-> spec, opened |-> FALSE, entries |-> << >>]
                  EXCEPT !.opened = TRUE]
  BY DEF Made, Opened
<1> HIDE DEF d, z
<1>3. Opened = [desc |-> z, install |-> installs, spec |-> spec, opened |-> TRUE, entries |-> << >>]
  BY <1>2, RecordUpdate
<1>4. [Made(type) EXCEPT !.spec = 0]
        = [desc |-> d, install |-> installs, spec |-> 0, opened |-> FALSE, entries |-> << >>]
  <2>1. [Made(type) EXCEPT !.spec = 0]
          = [[desc |-> d, install |-> installs, spec |-> spec, opened |-> FALSE, entries |-> << >>]
               EXCEPT !.spec = 0]
    BY DEF Made, d
  <2> DEFINE no == FALSE
             none == << >>
             zero == 0
  <2> HIDE DEF no, none, zero
  <2>2. [[desc |-> d, install |-> installs, spec |-> spec, opened |-> no, entries |-> none]
               EXCEPT !.spec = zero]
          = [desc |-> d, install |-> installs, spec |-> zero, opened |-> no, entries |-> none]
    BY RecordUpdate
  <2> QED BY <2>1, <2>2 DEF no, none, zero
<1>5. IsInfo(Made(type)) /\ Made(type).install = installs /\ Made(type).spec = spec
      /\ Made(type).entries = << >>
  BY <1>1 DEF IsInfo
<1>6. IsInfo(Opened) /\ Opened.install = installs /\ Opened.spec = spec /\ Opened.opened = TRUE
  BY <1>3 DEF IsInfo
<1>7. IsInfo([Made(type) EXCEPT !.spec = 0])
  BY <1>4 DEF IsInfo
<1> QED BY <1>5, <1>6, <1>7

--------------------------------------------------------------------------------
\* The invariant holds before Connect.
LEMMA CollectionInit ==
  ASSUME WellFormedDocuments, MaxInstalls \in Nat
  PROVE  Init => CollectionInv
<1> SUFFICES ASSUME Init PROVE CollectionInv
  OBVIOUS
<1>a. /\ pc = "connect" /\ exit = 1 /\ installs = 0 /\ spec = 1 /\ entry = 1 /\ allOk = FALSE
      /\ collection = Null /\ createdId = FALSE /\ owned = << >> /\ named = << >> /\ open = {}
      /\ missing \subseteq {"create", "open", "close"} /\ stale = FALSE /\ used = NoUse
  BY DEF Init
<1>1. doc.colls = << >> /\ IsVector(named) /\ IsVector(doc.colls) /\ Range(doc.colls) = {}
      /\ Range(owned) = {}
  BY EmptyVector DEF Init
<1>2. CollTyped
  <2>1. installs \in 0..MaxInstalls /\ owned \in Seq(Handles)
    BY <1>a
  <2>2. DOMAIN content = Handles /\ content = [h \in Handles |-> content[h]]
    BY DEF Init
  <2>3. pc \in InstallPcs \cup CommandPcs \cup {"connect", "disconnect", "done"}
    BY <1>a
  <2>4. \A s \in Range(doc.colls) : IsVector(s.entries)
    BY <1>1
  <2>5. allOk \in BOOLEAN /\ createdId \in BOOLEAN
    BY <1>a, Zenon
  <2>6. spec \in Nat \ {0} /\ entry \in Nat \ {0} /\ exit \in {0, 1}
    BY <1>a
  <2> QED BY <1>a, <1>1, <2>1, <2>2, <2>3, <2>4, <2>5, <2>6 DEF CollTyped
<1>3. OpenInv
  BY <1>a, <1>1 DEF OpenInv
<1>4. PhaseInv
  BY <1>a DEF PhaseInv, InstallPcs
<1>5. NamedInv /\ CurrentInv
  BY <1>a DEF NamedInv, CurrentInv, LoopPcs
<1>6. UsedInv
  BY <1>a DEF UsedInv
<1> QED BY <1>2, <1>3, <1>4, <1>5, <1>6 DEF CollectionInv

\* Connect preserves the invariant.
LEMMA ConnectInv ==
  ASSUME CollectionInv, NEW ok \in BOOLEAN, Connect(ok)
  PROVE  CollectionInv'
<1> USE DEF CollectionInv
<1>1. /\ pc = "connect" /\ pc' \in {"ready", "disconnect", "create"}
      /\ pc' = "ready" => cmd.name = "install"
  BY DEF Connect
<1>2. /\ exit' = IF cmd.name = "plain" THEN 0 ELSE 1
      /\ UNCHANGED <<cmd, missing, loop, allOk, collection, createdId, owned, named, library, used, did>>
  BY DEF Connect
<1>3. CollTyped'
  BY <1>1, <1>2 DEF CollTyped, CommandPcs, InstallPcs, loop, library
<1>4. OpenInv'
  BY <1>1, <1>2 DEF OpenInv, library
<1>5. PhaseInv'
  BY <1>1, <1>2 DEF PhaseInv, InstallPcs, WantsOpen
<1>6. NamedInv' /\ CurrentInv'
  BY <1>1 DEF NamedInv, CurrentInv, LoopPcs
<1>7. UsedInv'
  BY <1>1, <1>2 DEF UsedInv
<1> QED BY <1>3, <1>4, <1>5, <1>6, <1>7

\* The first step of an install, which clears named_collections_ and leaves
\* the collections of earlier installs owned, preserves the invariant.
LEMMA BeginInstallInv ==
  ASSUME WellFormedDocuments, MaxInstalls \in Nat, CollectionInv, NEW d \in Documents, BeginInstall(d)
  PROVE  CollectionInv'
<1> USE DEF CollectionInv
<1>1. /\ pc = "ready" /\ pc' \in {"installed", "spec"} /\ installs < MaxInstalls /\ cmd.name = "install"
      /\ doc' = d /\ installs' = installs + 1 /\ spec' = 1 /\ entry' = 1
      /\ named' = << >> /\ used' = NoUse /\ allOk' \in BOOLEAN
      /\ pc' = "installed" /\ allOk' => d.colls = << >>
      /\ UNCHANGED <<cmd, missing, exit, collection, createdId, owned, library, did>>
  BY DEF BeginInstall
<1>2. IsVector(d.colls) /\ \A s \in Range(d.colls) : IsVector(s.entries)
  BY DEF WellFormedDocuments
<1>3. installs' \in 0..MaxInstalls
  BY <1>1 DEF CollTyped
<1>4. CollTyped'
  BY <1>1, <1>2, <1>3, EmptyVector DEF CollTyped, CommandPcs, InstallPcs, library
<1>5. OpenInv'
  BY <1>1 DEF OpenInv, library
<1>6. PhaseInv'
  BY <1>1 DEF PhaseInv, InstallPcs
<1>7. NamedInv'
  <2>1. DOMAIN d.colls = 1..Len(d.colls) /\ Len(d.colls) \in Nat
    BY <1>2, VectorProperties
  <2>2. \A m \in DOMAIN doc'.colls : ~(m < spec')
    BY <1>1, <2>1
  <2>3. DOMAIN named' = {}
    BY <1>1
  <2> QED BY <2>2, <2>3 DEF NamedInv
<1>8. CurrentInv'
  BY <1>1, EmptyVector DEF CurrentInv
<1>9. UsedInv'
  BY <1>1 DEF UsedInv
<1> QED BY <1>4, <1>5, <1>6, <1>7, <1>8, <1>9

\* A declaration that gets no collection: the loop goes on to the next one.
LEMMA SpecFailedInv ==
  ASSUME CollectionInv, pc = "spec", pc' = "spec", spec' = spec + 1, allOk' = FALSE,
         entry' \in {1, entry}, stale' = FALSE, collection' = Null, owned' = owned,
         open' = open, content' = content,
         UNCHANGED <<cmd, missing, exit, installs, doc, createdId, named, used, did>>
  PROVE  CollectionInv'
<1> USE DEF CollectionInv
<1>1. CollTyped'
  <2>1. spec \in Nat \ {0} /\ entry \in Nat \ {0}
    BY DEF CollTyped
  <2>2. spec' \in Nat \ {0}
    BY <2>1
  <2>3. entry' \in Nat \ {0}
    BY <2>1
  <2>4. allOk' \in BOOLEAN
    BY Zenon
  <2> QED BY <2>2, <2>3, <2>4 DEF CollTyped
<1>2. OpenInv'
  BY DEF OpenInv
<1>3. PhaseInv'
  BY DEF PhaseInv
<1>4. NamedInv'
  <2>1. spec \in Nat /\ IsVector(doc.colls)
    BY DEF CollTyped
  <2>2. ASSUME NEW k \in DOMAIN named PROVE Declared(k)'
    <3> DEFINE m == content[named[k][2]].spec
    <3>1. Declared(k)
      BY DEF NamedInv, LoopPcs
    <3>2. m \in DOMAIN doc.colls /\ m < spec
      BY <3>1 DEF Declared
    <3>3. m \in Nat
      BY <2>1, <3>2, VectorProperties
    <3>4. m < spec + 1
      BY <2>1, <3>2, <3>3
    <3> QED BY <3>1, <3>4 DEF Declared
  <2> QED BY <2>2 DEF NamedInv, LoopPcs
<1>5. CurrentInv'
  BY DEF CurrentInv
<1>6. UsedInv'
  BY DEF UsedInv
<1> QED BY <1>1, <1>2, <1>3, <1>4, <1>5, <1>6

\* A declaration that gets its collection: the named ones are unchanged.
LEMMA NamedKept ==
  ASSUME CollectionInv, pc \in LoopPcs, pc' \in LoopPcs, spec' = spec, allOk' => allOk,
         open \subseteq open', \A k \in DOMAIN named : content'[named[k][2]] = content[named[k][2]],
         UNCHANGED <<installs, doc, named>>
  PROVE  NamedInv'
<1>1. \A k \in DOMAIN named : Declared(k)
  BY DEF CollectionInv, NamedInv
<1>2. ASSUME NEW k \in DOMAIN named PROVE Declared(k)'
  BY <1>1 DEF Declared
<1>3. \A j, k \in DOMAIN named : j < k => content'[named[j][2]].spec < content'[named[k][2]].spec
  BY DEF CollectionInv, NamedInv
<1>4. allOk' => \A m \in DOMAIN doc.colls : m < spec /\ doc.colls[m].name # ""
                  => \E k \in DOMAIN named : content'[named[k][2]].spec = m
  BY DEF CollectionInv, NamedInv
<1> QED BY <1>2, <1>3, <1>4 DEF NamedInv

\* Opening the collection of a declaration preserves the invariant.
LEMMA OpenSpecInv ==
  ASSUME CollectionInv, NEW outcome, NEW h, OpenSpec(outcome, h)
  PROVE  CollectionInv'
<1> USE DEF CollectionInv
<1>1. /\ pc = "spec" /\ spec \in DOMAIN doc.colls
      /\ Adopt(outcome, h, Opened) /\ Owns(outcome, h) /\ stale' = stale
      /\ UNCHANGED <<cmd, missing, exit, installs, doc, entry, createdId, named, used, did>>
  BY DEF OpenSpec, InSpec, OpenNamedCollection
<1>2. /\ IsInfo(Opened) /\ Opened.install = installs /\ Opened.spec = spec /\ Opened.opened = TRUE
  BY MadeInfo
<1>3. /\ collection' \in Handles \cup {Null} /\ owned' \in Seq(Handles)
      /\ open' = Range(owned') /\ open \subseteq open' /\ open' \subseteq Handles
      /\ DOMAIN content' = Handles /\ content' = [g \in Handles |-> content'[g]]
      /\ \A g \in open : content'[g] = content[g]
      /\ \A g \in open' : IsInfo(content'[g])
      /\ outcome = "ok" => collection' \in open' \ open /\ content'[collection'] = Opened
      /\ outcome # "ok" => collection' = Null /\ owned' = owned
  BY <1>1, <1>2, Adopted
<1>4. stale' = FALSE
  BY <1>1 DEF OpenInv
<1>5. CASE outcome = "ok"
  <2>1. pc' = "name" /\ UNCHANGED <<spec, allOk>>
    BY <1>5 DEF OpenSpec
  <2>2. CollTyped'
    BY <1>1, <1>3, <2>1 DEF CollTyped, InstallPcs
  <2>3. OpenInv'
    BY <1>1, <1>3, <1>4, <1>5, <2>1 DEF OpenInv
  <2>4. PhaseInv'
    BY <1>1, <2>1 DEF PhaseInv, InstallPcs, WantsOpen
  <2>5. NamedInv'
    <3>1. \A k \in DOMAIN named : content'[named[k][2]] = content[named[k][2]]
      BY <1>1, <1>3 DEF NamedInv, LoopPcs, Declared
    <3> QED BY <1>1, <1>3, <2>1, <3>1, NamedKept DEF LoopPcs
  <2>6. CurrentInv'
    BY <1>1, <1>2, <1>3, <1>5, <2>1 DEF CurrentInv
  <2>7. UsedInv'
    BY <1>1 DEF UsedInv
  <2> QED BY <2>2, <2>3, <2>4, <2>5, <2>6, <2>7
<1>6. CASE outcome # "ok"
  <2>1. pc' = "spec" /\ spec' = spec + 1 /\ allOk' = FALSE
    BY <1>6 DEF OpenSpec
  <2>2. open' = open /\ content' = content
    BY <1>1, <1>6 DEF Adopt
  <2> QED BY <1>1, <1>3, <1>4, <1>6, <2>1, <2>2, SpecFailedInv
<1> QED BY <1>5, <1>6

\* Creating the collection of a declaration preserves the invariant.
LEMMA CreateSpecInv ==
  ASSUME CollectionInv, NEW outcome, NEW h, CreateSpec(outcome, h)
  PROVE  CollectionInv'
<1> USE DEF CollectionInv
<1> DEFINE info == Made(doc.colls[spec].type)
<1>1. /\ pc = "spec" /\ spec \in DOMAIN doc.colls /\ entry' = 1
      /\ Adopt(outcome, h, info) /\ Owns(outcome, h) /\ stale' = stale
      /\ UNCHANGED <<cmd, missing, exit, installs, doc, createdId, named, used, did>>
  BY DEF CreateSpec, InSpec
<1>2. /\ IsInfo(info) /\ info.install = installs /\ info.spec = spec /\ info.entries = << >>
  BY MadeInfo
<1> HIDE DEF info
<1>3. /\ collection' \in Handles \cup {Null} /\ owned' \in Seq(Handles)
      /\ open' = Range(owned') /\ open \subseteq open' /\ open' \subseteq Handles
      /\ DOMAIN content' = Handles /\ content' = [g \in Handles |-> content'[g]]
      /\ \A g \in open : content'[g] = content[g]
      /\ \A g \in open' : IsInfo(content'[g])
      /\ outcome = "ok" => collection' \in open' \ open /\ content'[collection'] = info
      /\ outcome # "ok" => collection' = Null /\ owned' = owned
  BY <1>1, <1>2, Adopted
<1>4. stale' = FALSE
  BY <1>1 DEF OpenInv
<1>5. CASE outcome = "ok"
  <2>1. pc' = "entries" /\ UNCHANGED <<spec, allOk>>
    BY <1>5 DEF CreateSpec
  <2>2. CollTyped'
    BY <1>1, <1>3, <2>1 DEF CollTyped, InstallPcs
  <2>3. OpenInv'
    BY <1>1, <1>3, <1>4, <1>5, <2>1 DEF OpenInv
  <2>4. PhaseInv'
    BY <1>1, <2>1 DEF PhaseInv, InstallPcs, WantsOpen
  <2>5. NamedInv'
    <3>1. \A k \in DOMAIN named : content'[named[k][2]] = content[named[k][2]]
      BY <1>1, <1>3 DEF NamedInv, LoopPcs, Declared
    <3> QED BY <1>1, <1>3, <2>1, <3>1, NamedKept DEF LoopPcs
  <2>6. CurrentInv'
    <3> DEFINE e == doc.colls[spec].entries
    <3>1. IsVector(e)
      BY <1>1 DEF CollTyped, Range
    <3>2. SubSeq(e, 1, 1 - 1) = << >> /\ 1 <= Len(e) + 1
      BY <3>1, WholeSubSeq, VectorProperties
    <3> QED BY <1>1, <1>2, <1>3, <1>5, <2>1, <3>2 DEF CurrentInv
  <2>7. UsedInv'
    BY <1>1 DEF UsedInv
  <2> QED BY <2>2, <2>3, <2>4, <2>5, <2>6, <2>7
<1>6. CASE outcome # "ok"
  <2>1. pc' = "spec" /\ spec' = spec + 1 /\ allOk' = FALSE
    BY <1>6 DEF CreateSpec
  <2>2. open' = open /\ content' = content
    BY <1>1, <1>6 DEF Adopt
  <2> QED BY <1>1, <1>3, <1>4, <1>6, <2>1, <2>2, SpecFailedInv
<1> QED BY <1>5, <1>6

\* Sending an entry, sent or refused, preserves the invariant.
LEMMA UpdateSpecInv ==
  ASSUME CollectionInv, NEW ok \in BOOLEAN, UpdateSpec(ok)
  PROVE  CollectionInv'
<1> USE DEF CollectionInv
<1> DEFINE s == doc.colls[spec]
           e == s.entries
<1>1. /\ pc = "entries" /\ pc' = "entries" /\ spec \in DOMAIN doc.colls /\ entry \in DOMAIN e
      /\ entry' = entry + 1
      /\ UNCHANGED <<cmd, missing, exit, installs, doc, spec, collection, createdId, owned, named, used, did>>
  BY DEF UpdateSpec, InSpec
<1>2. \/ Update(ok, e[entry]) /\ allOk' = (allOk /\ ok)
      \/ ~ok /\ allOk' = FALSE /\ UNCHANGED library
  BY DEF UpdateSpec
<1>3. IsVector(e) /\ entry \in 1..Len(e) /\ Len(e) \in Nat
  <2>1. IsVector(e)
    BY <1>1 DEF CollTyped, Range
  <2> QED BY <1>1, <2>1, VectorProperties
<1>4. /\ collection \in open /\ open = Range(owned) /\ open \subseteq Handles
      /\ content[collection].install = installs /\ content[collection].spec = spec
  BY <1>1 DEF OpenInv, CurrentInv, CollTyped
<1>5. allOk' \in BOOLEAN /\ (allOk' => allOk /\ ok)
  BY <1>2
<1>6. /\ stale' = FALSE /\ open' = open
      /\ DOMAIN content' = Handles /\ content' = [g \in Handles |-> content'[g]]
      /\ \A g \in Handles : g # collection => content'[g] = content[g]
      /\ \A g \in open : IsInfo(content'[g])
      /\ content'[collection].install = content[collection].install
      /\ content'[collection].spec = content[collection].spec
      /\ ok => content'[collection].entries = Append(content[collection].entries, e[entry])
  <2>1. CASE Update(ok, e[entry])
    BY <1>4, <2>1, Updated
  <2>2. CASE ~ok /\ UNCHANGED library
    BY <2>2 DEF library, CollTyped, OpenInv
  <2> QED BY <1>2, <2>1, <2>2
<1>7. CollTyped'
  <2>1. entry' \in Nat \ {0}
    BY <1>1, <1>3
  <2> QED BY <1>1, <1>5, <1>6, <2>1 DEF CollTyped
<1>8. OpenInv'
  BY <1>1, <1>6 DEF OpenInv
<1>9. PhaseInv'
  BY <1>1 DEF PhaseInv, WantsOpen
<1>10. NamedInv'
  <2>1. ASSUME NEW k \in DOMAIN named PROVE content'[named[k][2]] = content[named[k][2]]
    <3> DEFINE g == named[k][2]
    <3>1. g \in open /\ content[g].spec \in DOMAIN doc.colls /\ content[g].spec < spec
      BY <1>1 DEF NamedInv, LoopPcs, Declared
    <3>2. content[g].spec \in Nat /\ spec \in Nat
      BY <3>1, VectorProperties DEF CollTyped
    <3>3. g # collection
      BY <1>4, <3>1, <3>2
    <3> QED BY <1>4, <1>6, <3>1, <3>3
  <2> QED BY <1>1, <1>5, <1>6, <2>1, NamedKept DEF LoopPcs
<1>11. CurrentInv'
  <2>1. entry' <= Len(e) + 1
    BY <1>1, <1>3
  <2>2. allOk' => content'[collection].entries = SubSeq(e, 1, entry' - 1)
    <3> SUFFICES ASSUME allOk' PROVE content'[collection].entries = SubSeq(e, 1, entry' - 1)
      OBVIOUS
    <3>1. content[collection].entries = SubSeq(e, 1, entry - 1)
      BY <1>1, <1>5 DEF CurrentInv
    <3>2. Append(SubSeq(e, 1, entry - 1), e[entry]) = SubSeq(e, 1, entry + 1 - 1)
      BY <1>3, SubSeqGrows
    <3>3. ok
      BY <1>5
    <3>4. content'[collection].entries = Append(content[collection].entries, e[entry])
      BY <1>6, <3>3
    <3>5. entry' - 1 = entry + 1 - 1
      <4>1. entry' = entry + 1 /\ entry \in Nat
        BY <1>1, <1>3
      <4> QED BY <4>1
    <3> HIDE DEF e
    <3> QED BY <3>1, <3>2, <3>4, <3>5
  <2> QED BY <1>1, <1>4, <1>6, <2>1, <2>2 DEF CurrentInv
<1>12. UsedInv'
  BY <1>1 DEF UsedInv
<1> QED BY <1>7, <1>8, <1>9, <1>10, <1>11, <1>12

\* Recording the name of a finished collection preserves the invariant.
LEMMA NameSpecInv ==
  ASSUME CollectionInv, NameSpec
  PROVE  CollectionInv'
<1> USE DEF CollectionInv
<1> DEFINE nm == doc.colls[spec].name
           e  == doc.colls[spec].entries
           pair == <<nm, collection>>
<1>1. /\ pc \in {"name", "entries"} /\ spec \in DOMAIN doc.colls
      /\ pc = "entries" => entry > Len(e)
      /\ named' = IF nm = "" THEN named ELSE Append(named, pair)
      /\ pc' = "spec" /\ spec' = spec + 1
      /\ UNCHANGED <<cmd, missing, exit, installs, doc, entry, allOk, collection,
                     createdId, owned, library, used, did>>
  BY DEF NameSpec, InSpec
<1>2. /\ IsVector(named) /\ IsVector(e) /\ spec \in Nat \ {0} /\ entry \in Nat \ {0}
      /\ IsVector(doc.colls) /\ Len(doc.colls) \in Nat /\ DOMAIN doc.colls = 1..Len(doc.colls)
      /\ Len(named) \in Nat /\ DOMAIN named = 1..Len(named) /\ Len(e) \in Nat
  <2>1. IsVector(e) /\ IsVector(named) /\ IsVector(doc.colls) /\ spec \in Nat \ {0} /\ entry \in Nat \ {0}
    BY <1>1 DEF CollTyped, Range
  <2> QED BY <2>1, VectorProperties
<1>a. pair[1] = nm /\ pair[2] = collection /\ doc.colls[spec].name = nm /\ doc.colls[spec].entries = e
  OBVIOUS
<1> HIDE DEF nm, e, pair
<1>3. UNCHANGED <<open, content, stale>> /\ spec' \in Nat \ {0}
  <2>1. spec \in Nat \ {0} /\ spec' = spec + 1
    BY <1>1, <1>2
  <2>2. spec' \in Nat \ {0}
    BY <2>1
  <2> QED BY <1>1, <2>2 DEF library
<1>4. /\ IsVector(Append(named, pair)) /\ DOMAIN Append(named, pair) = 1..(Len(named) + 1)
      /\ \A k \in 1..Len(named) : Append(named, pair)[k] = named[k]
      /\ Append(named, pair)[Len(named) + 1] = pair
  BY <1>2, VectorAppend
<1>5. pair[1] = nm /\ pair[2] = collection
  BY <1>a
<1>6. CollTyped'
  BY <1>1, <1>2, <1>3, <1>4 DEF CollTyped, InstallPcs
<1>7. OpenInv'
  BY <1>1, <1>3 DEF OpenInv
<1>8. PhaseInv'
  BY <1>1 DEF PhaseInv, InstallPcs, WantsOpen
<1>9. /\ collection \in open /\ content[collection].install = installs
      /\ content[collection].spec = spec
      /\ allOk => content[collection].opened \/ content[collection].entries = e
  <2>1. collection \in open /\ content[collection].install = installs /\ content[collection].spec = spec
    BY <1>1 DEF OpenInv, CurrentInv
  <2>2. CASE pc = "name"
    BY <2>1, <2>2 DEF CurrentInv
  <2>3. CASE pc = "entries"
    <3>1. entry <= Len(e) + 1 /\ (allOk => content[collection].entries = SubSeq(e, 1, entry - 1))
      BY <1>a, <2>3 DEF CurrentInv
    <3>a. entry > Len(e) /\ entry \in Nat /\ Len(e) \in Nat
      BY <1>1, <1>2, <2>3
    <3>2. entry = Len(e) + 1
      BY <3>1, <3>a
    <3>3. SubSeq(e, 1, Len(e) + 1 - 1) = e
      BY <1>2, WholeSubSeq
    <3> QED BY <2>1, <3>1, <3>2, <3>3
  <2> QED BY <1>1, <2>2, <2>3
<1>10. /\ \A k \in DOMAIN named : Declared(k)
       /\ \A j, k \in DOMAIN named : j < k => content[named[j][2]].spec < content[named[k][2]].spec
       /\ allOk => \A m \in DOMAIN doc.colls : m < spec /\ doc.colls[m].name # ""
                     => \E k \in DOMAIN named : content[named[k][2]].spec = m
  BY <1>1 DEF NamedInv, LoopPcs
<1>11. \A k \in DOMAIN named : content[named[k][2]].spec \in Nat /\ content[named[k][2]].spec < spec
  <2> SUFFICES ASSUME NEW k \in DOMAIN named
               PROVE  content[named[k][2]].spec \in Nat /\ content[named[k][2]].spec < spec
    OBVIOUS
  <2>1. content[named[k][2]].spec \in DOMAIN doc.colls /\ content[named[k][2]].spec < spec
    BY <1>10 DEF Declared
  <2>2. \A m \in DOMAIN doc.colls : m \in Nat
    BY <1>2
  <2> QED BY <2>1, <2>2
<1>b. /\ nm = "" => named' = named
      /\ nm # "" => named' = Append(named, pair)
      /\ DOMAIN named = 1..Len(named) /\ Len(named) \in Nat
  BY <1>1, <1>2
<1>c. /\ \A k \in DOMAIN named : k \in DOMAIN Append(named, pair) /\ Append(named, pair)[k] = named[k]
      /\ \A k \in DOMAIN Append(named, pair) :
           k \in DOMAIN named \/ (k = Len(named) + 1 /\ Append(named, pair)[k] = pair)
      /\ Len(named) + 1 \in DOMAIN Append(named, pair) /\ Append(named, pair)[Len(named) + 1] = pair
  BY <1>2, DomainAppend
<1>12. \A k \in DOMAIN named : named'[k] = named[k] /\ k \in DOMAIN named'
  BY <1>b, <1>c, Zenon
<1>13. \A k \in DOMAIN named' : k \in DOMAIN named \/ (nm # "" /\ k = Len(named) + 1 /\ named'[k] = pair)
  BY <1>b, <1>c, Zenon
<1>14. nm # "" => Len(named) + 1 \in DOMAIN named' /\ named'[Len(named) + 1] = pair
  BY <1>b, <1>c, Zenon
<1>15. ASSUME NEW k \in DOMAIN named' PROVE Declared(k)'
  <2>1. CASE k \in DOMAIN named
    <3>1. content[named[k][2]].spec < spec + 1
      BY <1>2, <1>11, <2>1
    <3>2. Declared(k) /\ named'[k] = named[k] /\ spec' = spec + 1
      BY <1>1, <1>10, <1>12, <2>1
    <3>3. UNCHANGED <<installs, doc, allOk, open, content>>
      BY <1>1, <1>3
    <3> QED BY <3>1, <3>2, <3>3 DEF Declared
  <2>2. CASE nm # "" /\ named'[k] = pair
    <3>1. named'[k][1] = nm /\ named'[k][2] = collection
      BY <1>5, <2>2
    <3>a. spec \in Nat /\ spec' = spec + 1 /\ spec \in DOMAIN doc.colls
      BY <1>1, <1>2
    <3>2. spec < spec'
      BY <3>a
    <3>3. UNCHANGED <<installs, doc, allOk, open, content, collection>>
      BY <1>1, <1>3
    <3> QED BY <1>9, <1>a, <2>2, <3>1, <3>2, <3>3, <3>a DEF Declared
  <2> QED BY <1>13, <2>1, <2>2
<1>16. ASSUME NEW j \in DOMAIN named', NEW k \in DOMAIN named', j < k
       PROVE  content'[named'[j][2]].spec < content'[named'[k][2]].spec
  <2>1. CASE j \in DOMAIN named /\ k \in DOMAIN named
    BY <1>3, <1>10, <1>12, <1>16, <2>1
  <2>2. CASE j \in DOMAIN named /\ named'[k] = pair
    BY <1>3, <1>5, <1>9, <1>11, <1>12, <2>2
  <2>3. CASE j = Len(named) + 1
    <3>1. k \in 1..Len(named) \/ k = Len(named) + 1
      BY <1>b, <1>13
    <3>2. Len(named) \in Nat /\ j < k
      BY <1>b, <1>16
    <3> QED BY <2>3, <3>1, <3>2
  <2> QED BY <1>13, <2>1, <2>2, <2>3
<1>17. ASSUME allOk', NEW m \in DOMAIN doc'.colls, m < spec', doc'.colls[m].name # ""
       PROVE  \E k \in DOMAIN named' : content'[named'[k][2]].spec = m
  <2>1. CASE m < spec
    BY <1>1, <1>3, <1>10, <1>12, <1>17, <2>1
  <2>2. CASE m = spec
    <3>1. nm # ""
      BY <1>1, <1>a, <1>17, <2>2
    <3> QED BY <1>3, <1>5, <1>9, <1>14, <2>2, <3>1
  <2>3. m < spec \/ m = spec
    <3>1. spec \in Nat /\ spec' = spec + 1 /\ doc' = doc /\ m < spec'
      BY <1>1, <1>2, <1>17
    <3>2. m \in Nat
      BY <1>2, <3>1
    <3> QED BY <3>1, <3>2
  <2> QED BY <2>1, <2>2, <2>3
<1>18. NamedInv'
  BY <1>15, <1>16, <1>17 DEF NamedInv
<1>19. CurrentInv' /\ UsedInv'
  BY <1>1 DEF CurrentInv, UsedInv
<1> QED BY <1>6, <1>7, <1>8, <1>18, <1>19

\* Leaving the loop over the declarations preserves the invariant.
LEMMA EndSpecsInv ==
  ASSUME CollectionInv, EndSpecs
  PROVE  CollectionInv'
<1> USE DEF CollectionInv
<1>1. /\ pc = "spec" /\ spec > Len(doc.colls) /\ pc' = "installed"
      /\ UNCHANGED <<cmd, missing, exit, loop, allOk, collection, createdId, owned,
                     named, library, used, did>>
  BY DEF EndSpecs
<1>2. UNCHANGED <<installs, doc, spec, entry, open, content, stale>>
  BY <1>1 DEF loop, library
<1>3. CollTyped'
  BY <1>1, <1>2 DEF CollTyped, InstallPcs
<1>4. OpenInv'
  BY <1>1, <1>2 DEF OpenInv
<1>5. PhaseInv'
  BY <1>1 DEF PhaseInv, InstallPcs, WantsOpen
<1>6. NamedInv'
  BY <1>1, <1>2, NamedKept DEF LoopPcs
<1>7. CurrentInv' /\ UsedInv'
  BY <1>1, <1>2 DEF CurrentInv, UsedInv
<1> QED BY <1>3, <1>4, <1>5, <1>6, <1>7

\* An install given up for its collections preserves the invariant.
LEMMA InstallFailsInv ==
  ASSUME CollectionInv, InstallFails
  PROVE  CollectionInv'
<1> USE DEF CollectionInv
<1>1. /\ pc = "installed" /\ pc' = "ready"
      /\ UNCHANGED <<cmd, missing, exit, loop, allOk, collection, createdId, owned,
                     named, library, used, did>>
  BY DEF InstallFails, Goto
<1>2. UNCHANGED <<installs, doc, spec, entry, open, content, stale>>
  BY <1>1 DEF loop, library
<1>3. CollTyped'
  BY <1>1, <1>2 DEF CollTyped, InstallPcs
<1>4. OpenInv'
  BY <1>1, <1>2 DEF OpenInv
<1>5. PhaseInv'
  BY <1>1 DEF PhaseInv, InstallPcs, WantsOpen
<1>6. NamedInv' /\ CurrentInv'
  BY <1>1 DEF NamedInv, CurrentInv, LoopPcs
<1>7. UsedInv'
  BY <1>1 DEF UsedInv
<1> QED BY <1>3, <1>4, <1>5, <1>6, <1>7

\* The handle that a name finds is the collection of the first declaration.
LEMMA FoundIsFirst ==
  ASSUME CollectionInv, pc = "installed", allOk, NEW name, FindNamedCollection(name) # Null
  PROVE  LET h    == FindNamedCollection(name)
             made == content[h]
             mine == FirstOf(doc.colls, name)
         IN  /\ h \in open /\ made.install = installs /\ made.spec = mine
             /\ made.opened \/ made.entries = doc.colls[mine].entries
<1> DEFINE h == FindNamedCollection(name)
           m == content[h].spec
<1>1. IsVector(named) /\ IsVector(doc.colls)
  BY DEF CollectionInv, CollTyped
<1>2. PICK k \in DOMAIN named : /\ h = named[k][2] /\ named[k][1] = name
                                /\ \A j \in DOMAIN named : named[j][1] = name => k <= j
  BY <1>1, FirstNamed
<1>3. /\ DOMAIN named = 1..Len(named) /\ Len(named) \in Nat
      /\ DOMAIN doc.colls = 1..Len(doc.colls) /\ Len(doc.colls) \in Nat
  BY <1>1, VectorProperties
<1> HIDE DEF h, m
<1>4. /\ \A j \in DOMAIN named : Declared(j)
      /\ \A n, j \in DOMAIN named : n < j => content[named[n][2]].spec < content[named[j][2]].spec
      /\ \A n \in DOMAIN doc.colls : n < spec /\ doc.colls[n].name # ""
            => \E j \in DOMAIN named : content[named[j][2]].spec = n
      /\ spec > Len(doc.colls) /\ spec \in Nat
  BY DEF CollectionInv, NamedInv, LoopPcs, CurrentInv, CollTyped
<1>5. /\ h \in open /\ content[h].install = installs /\ m \in DOMAIN doc.colls
      /\ doc.colls[m].name = name /\ name # ""
      /\ content[h].opened \/ content[h].entries = doc.colls[m].entries
  BY <1>2, <1>4 DEF Declared, m
<1>6. ASSUME NEW n \in DOMAIN doc.colls, doc.colls[n].name = name PROVE m <= n
  <2>a. spec > Len(doc.colls) /\ spec \in Nat
    BY <1>4
  <2>b. n \in Nat /\ m \in Nat
    <3>1. m \in DOMAIN doc.colls
      BY <1>5
    <3> QED BY <1>3, <3>1
  <2>1. n < spec
    BY <1>3, <2>a
  <2>2. PICK j \in DOMAIN named : content[named[j][2]].spec = n
    BY <1>4, <1>5, <1>6, <2>1
  <2>3. named[j][1] = name
    BY <1>4, <1>6, <2>2 DEF Declared
  <2>4. k <= j
    BY <1>2, <2>3
  <2>5. CASE k = j
    BY <1>2, <1>3, <2>2, <2>5 DEF m
  <2>6. CASE k < j
    <3>1. m < n
      BY <1>2, <1>4, <2>2, <2>6 DEF m
    <3> QED BY <2>b, <3>1
  <2> QED BY <1>3, <2>4, <2>5, <2>6
<1>7. FirstOf(doc.colls, name) = m
  BY <1>1, <1>5, <1>6, FirstDeclared
<1> QED BY <1>5, <1>7 DEF h, m

\* Looking a filter's collection up by name preserves the invariant: with
\* all_ok, the first pair of that name is the first declaration of it.
LEMMA BuildFilterInv ==
  ASSUME CollectionInv, BuildFilter
  PROVE  CollectionInv'
<1> USE DEF CollectionInv
<1> DEFINE h == FindNamedCollection(doc.filter)
<1>1. /\ pc = "installed" /\ pc' = "ready" /\ allOk
      /\ UNCHANGED <<cmd, missing, exit, loop, allOk, collection, createdId, owned,
                     named, open, content, did>>
      /\ \/ h = Null /\ UNCHANGED <<stale, used>>
         \/ /\ h # Null /\ Uses(h)
            /\ used' = [handle |-> h, install |-> installs, name |-> doc.filter]
  BY DEF BuildFilter, Goto
<1>2. UNCHANGED <<installs, doc, spec, entry>>
  BY <1>1 DEF loop
<1>3. h # Null => h \in open
  BY <1>1, FoundIsFirst
<1> HIDE DEF h
<1>4. stale' = FALSE
  BY <1>1, <1>3 DEF Uses, OpenInv
<1>5. CollTyped'
  BY <1>1, <1>2 DEF CollTyped, InstallPcs
<1>6. OpenInv'
  BY <1>1, <1>4 DEF OpenInv
<1>7. PhaseInv'
  BY <1>1 DEF PhaseInv, InstallPcs, WantsOpen
<1>8. NamedInv' /\ CurrentInv'
  BY <1>1 DEF NamedInv, CurrentInv, LoopPcs
<1>9. UsedInv'
  <2>1. CASE UNCHANGED used
    BY <1>1, <2>1 DEF UsedInv
  <2>2. CASE h # Null /\ used' = [handle |-> h, install |-> installs, name |-> doc.filter]
    <3>1. used'.handle = h /\ used'.install = installs /\ used'.name = doc.filter
      BY <2>2
    <3>2. /\ h \in open /\ content[h].install = installs
          /\ content[h].spec = FirstOf(doc.colls, doc.filter)
          /\ \/ content[h].opened
             \/ content[h].entries = doc.colls[FirstOf(doc.colls, doc.filter)].entries
      BY <1>1, <2>2, FoundIsFirst DEF h
    <3>3. FilterGetsItsCollection'
      <4> DEFINE mine == SelectInSeq(doc'.colls, LAMBDA s : s.name = used'.name)
      <4>1. mine = FirstOf(doc.colls, doc.filter)
        <5>1. mine = FirstOf(doc'.colls, used'.name)
          BY DEF SelectInSeq, FirstOf
        <5> QED BY <1>2, <3>1, <5>1
      <4> HIDE DEF mine
      <4>2. /\ used'.handle \in open' /\ content'[used'.handle].install = used'.install
            /\ content'[used'.handle].spec = mine
            /\ \/ content'[used'.handle].opened
               \/ content'[used'.handle].entries = doc'.colls[mine].entries
        BY <1>1, <1>2, <3>1, <3>2, <4>1
      <4>3. FilterGetsItsCollection' <=>
              (used' # NoUse =>
                 /\ used'.handle \in open' /\ content'[used'.handle].install = used'.install
                 /\ content'[used'.handle].spec = mine
                 /\ \/ content'[used'.handle].opened
                    \/ content'[used'.handle].entries = doc'.colls[mine].entries)
        BY DEF FilterGetsItsCollection, mine, NoUse, SelectInSeq
      <4> QED BY <4>2, <4>3
    <3> QED BY <1>1, <3>3 DEF UsedInv
  <2> QED BY <1>1, <2>1, <2>2
<1> QED BY <1>5, <1>6, <1>7, <1>8, <1>9

\* A filter's own collection preserves the invariant.
LEMMA InlineFilterInv ==
  ASSUME CollectionInv, NEW outcome, NEW h, InlineFilter(outcome, h)
  PROVE  CollectionInv'
<1> USE DEF CollectionInv
<1> DEFINE info == [Made(2) EXCEPT !.spec = 0]
<1>1. /\ pc = "installed" /\ pc' = "inline"
      /\ Adopt(outcome, h, info) /\ Owns(outcome, h)
      /\ UNCHANGED <<cmd, missing, exit, loop, allOk, createdId, named, stale, used, did>>
  BY DEF InlineFilter, Goto
<1>2. IsInfo(info)
  BY MadeInfo
<1> HIDE DEF info
<1>3. /\ collection' \in Handles \cup {Null} /\ owned' \in Seq(Handles)
      /\ open' = Range(owned') /\ open' \subseteq Handles
      /\ DOMAIN content' = Handles /\ content' = [g \in Handles |-> content'[g]]
      /\ \A g \in open' : IsInfo(content'[g])
      /\ outcome = "ok" => collection' \in open' \ open
      /\ outcome # "ok" => collection' = Null
  BY <1>1, <1>2, Adopted
<1>4. CollTyped'
  BY <1>1, <1>3 DEF CollTyped, InstallPcs, loop
<1>5. OpenInv'
  BY <1>1, <1>3 DEF OpenInv
<1>6. PhaseInv'
  BY <1>1 DEF PhaseInv, InstallPcs, WantsOpen
<1>7. NamedInv' /\ CurrentInv' /\ UsedInv'
  BY <1>1 DEF NamedInv, CurrentInv, UsedInv, LoopPcs
<1> QED BY <1>4, <1>5, <1>6, <1>7

\* Filling a filter's own collection preserves the invariant.
LEMMA InlineUpdateInv ==
  ASSUME CollectionInv, NEW ok \in BOOLEAN, InlineUpdate(ok)
  PROVE  CollectionInv'
<1> USE DEF CollectionInv
<1>1. /\ pc = "inline" /\ pc' = "ready"
      /\ UNCHANGED <<cmd, missing, exit, loop, allOk, collection, createdId, owned, named, used, did>>
      /\ \/ UNCHANGED library
         \/ collection # Null /\ Update(ok, <<"text">>)
  BY DEF InlineUpdate, Goto
<1>2. /\ stale' = FALSE /\ open' = open
      /\ DOMAIN content' = Handles /\ content' = [g \in Handles |-> content'[g]]
      /\ \A g \in open : IsInfo(content'[g])
  <2>1. CASE UNCHANGED library
    BY <2>1 DEF library, OpenInv, CollTyped
  <2>2. CASE collection # Null /\ Update(ok, <<"text">>)
    <3>1. collection \in open
      BY <1>1, <2>2 DEF OpenInv
    <3> QED BY <2>2, <3>1, Updated
  <2> QED BY <1>1, <2>1, <2>2
<1>3. CollTyped'
  BY <1>1, <1>2 DEF CollTyped, InstallPcs, loop
<1>4. OpenInv'
  BY <1>1, <1>2 DEF OpenInv
<1>5. PhaseInv'
  BY <1>1 DEF PhaseInv, InstallPcs, WantsOpen
<1>6. NamedInv' /\ CurrentInv'
  BY <1>1 DEF NamedInv, CurrentInv, LoopPcs
<1>7. UsedInv'
  BY <1>1 DEF UsedInv
<1> QED BY <1>3, <1>4, <1>5, <1>6, <1>7

\* The create of the collections command preserves the invariant.
LEMMA CreateInv ==
  ASSUME CollectionInv, NEW outcome, NEW h, Create(outcome, h)
  PROVE  CollectionInv'
<1> USE DEF CollectionInv
<1> DEFINE info == Made(CreateType)
<1>1. /\ pc = "create" /\ pc' = IF outcome = "ok" THEN "update" ELSE "disconnect"
      /\ Adopt(outcome, h, info) /\ Owns(outcome, h)
      /\ UNCHANGED <<cmd, missing, exit, loop, allOk, createdId, named, stale, used, did>>
  BY DEF Create
<1>2. IsInfo(info)
  BY MadeInfo
<1> HIDE DEF info
<1>3. /\ collection' \in Handles \cup {Null} /\ owned' \in Seq(Handles)
      /\ open' = Range(owned') /\ open' \subseteq Handles
      /\ DOMAIN content' = Handles /\ content' = [g \in Handles |-> content'[g]]
      /\ \A g \in open' : IsInfo(content'[g])
      /\ outcome = "ok" => collection' \in open' \ open /\ owned' = Append(owned, collection')
  BY <1>1, <1>2, Adopted
<1>4. CollTyped'
  BY <1>1, <1>3 DEF CollTyped, CommandPcs, loop
<1>5. pc' = "update" => owned' = <<collection'>>
  BY <1>1, <1>3 DEF OpenInv
<1>6. OpenInv'
  BY <1>1, <1>3, <1>5 DEF OpenInv
<1>7. PhaseInv'
  BY <1>1 DEF PhaseInv, InstallPcs, WantsOpen
<1>8. NamedInv' /\ CurrentInv' /\ UsedInv'
  BY <1>1 DEF NamedInv, CurrentInv, UsedInv, LoopPcs
<1> QED BY <1>4, <1>6, <1>7, <1>8

\* The first entry of the collections command preserves the invariant.
LEMMA FirstEntryInv ==
  ASSUME CollectionInv, NEW ok \in BOOLEAN, FirstEntry(ok)
  PROVE  CollectionInv'
<1> USE DEF CollectionInv
<1>1. /\ pc = "update" /\ Update(ok, <<"text">>) /\ allOk' = ok
      /\ did' = IF ok THEN did \cup {"filled"} ELSE did
      /\ UNCHANGED <<cmd, missing, exit, loop, collection, createdId, owned, named, used>>
  BY DEF FirstEntry
<1>2. /\ pc' \in {"disconnect", "close", "id"} /\ (~ok => pc' = "disconnect")
  BY DEF FirstEntry
<1>3. /\ stale' = FALSE /\ open' = open /\ collection \in open
      /\ DOMAIN content' = Handles /\ content' = [g \in Handles |-> content'[g]]
      /\ \A g \in open : IsInfo(content'[g])
  <2>1. collection \in open
    BY <1>1 DEF OpenInv
  <2> QED BY <1>1, <2>1, Updated
<1>4. CollTyped'
  BY <1>1, <1>2, <1>3 DEF CollTyped, CommandPcs, loop
<1>5. OpenInv'
  BY <1>1, <1>2, <1>3 DEF OpenInv
<1>6. PhaseInv'
  <2>1. pc' = "id" => "filled" \in did'
    BY <1>1, <1>2
  <2>2. cmd.name = "extended" => exit = 1
    BY <1>1 DEF PhaseInv
  <2> QED BY <1>1, <1>2, <2>1, <2>2 DEF PhaseInv, InstallPcs
<1>7. NamedInv' /\ CurrentInv' /\ UsedInv'
  BY <1>1, <1>2 DEF NamedInv, CurrentInv, UsedInv, LoopPcs
<1> QED BY <1>4, <1>5, <1>6, <1>7

\* The inspection of the extended command preserves the invariant.
LEMMA InspectInv ==
  ASSUME CollectionInv, NEW gotId \in BOOLEAN, Inspect(gotId)
  PROVE  CollectionInv'
<1> USE DEF CollectionInv
<1>1. /\ pc = "id" /\ pc' = "ids" /\ createdId' = gotId /\ Uses(collection)
      /\ UNCHANGED <<cmd, missing, exit, loop, allOk, collection, owned, named, open,
                     content, used, did>>
  BY DEF Inspect, Goto
<1>2. stale' = FALSE
  BY <1>1 DEF Uses, OpenInv
<1>3. CollTyped'
  BY <1>1 DEF CollTyped, CommandPcs, loop
<1>4. OpenInv'
  BY <1>1, <1>2 DEF OpenInv
<1>5. PhaseInv'
  BY <1>1 DEF PhaseInv, InstallPcs, WantsOpen
<1>6. NamedInv' /\ CurrentInv' /\ UsedInv'
  BY <1>1 DEF NamedInv, CurrentInv, UsedInv, LoopPcs
<1> QED BY <1>3, <1>4, <1>5, <1>6

\* The enumeration of ids preserves the invariant.
LEMMA EnumerateInv ==
  ASSUME CollectionInv, NEW ok \in BOOLEAN, EnumerateCollectionIds(ok)
  PROVE  CollectionInv'
<1> USE DEF CollectionInv
<1>1. /\ pc = "ids" /\ pc' = "open"
      /\ UNCHANGED <<cmd, missing, exit, loop, collection, createdId, owned, named, library, used>>
      /\ \/ ~cmd.enum /\ allOk' = allOk /\ did' = did
         \/ cmd.enum /\ allOk' = (allOk /\ ok) /\ did' = IF ok THEN did \cup {"ids"} ELSE did
  BY DEF EnumerateCollectionIds, Goto
<1>2. allOk' \in BOOLEAN /\ did \subseteq did' /\ (allOk' /\ cmd.enum => "ids" \in did')
  BY <1>1 DEF CollTyped
<1>3. CollTyped'
  BY <1>1, <1>2 DEF CollTyped, CommandPcs, loop, library
<1>4. OpenInv'
  BY <1>1 DEF OpenInv, library
<1>5. PhaseInv'
  <2>1. /\ "filled" \in did /\ (cmd.name = "extended" => exit = 1)
    BY <1>1 DEF PhaseInv
  <2> QED BY <1>1, <1>2, <2>1 DEF PhaseInv, InstallPcs
<1>6. NamedInv' /\ CurrentInv' /\ UsedInv'
  BY <1>1 DEF NamedInv, CurrentInv, UsedInv, LoopPcs
<1> QED BY <1>3, <1>4, <1>5, <1>6

\* Opening the collection again by its id preserves the invariant.
LEMMA OpenAgainInv ==
  ASSUME CollectionInv, NEW outcome, NEW h, OpenAgain(outcome, h)
  PROVE  CollectionInv'
<1> USE DEF CollectionInv
<1>1. /\ pc = "open" /\ pc' = "disconnect"
      /\ UNCHANGED <<cmd, missing, loop, allOk, createdId, named, used>>
  BY DEF OpenAgain, Goto
<1>2. /\ exit' \in {0, 1} /\ did \subseteq did' /\ (exit' = 0 => allOk)
      /\ exit' = 0 /\ WantsOpen => "opened" \in did'
  BY DEF OpenAgain
<1>3. /\ collection' \in Handles \cup {Null} /\ owned' \in Seq(Handles) /\ stale' = FALSE
      /\ open' = Range(owned') /\ open' \subseteq Handles
      /\ DOMAIN content' = Handles /\ content' = [g \in Handles |-> content'[g]]
      /\ \A g \in open' : IsInfo(content'[g])
  <2>1. CASE UNCHANGED <<owned, library, collection, did>>
    BY <1>1, <2>1 DEF library, OpenInv, CollTyped
  <2>2. CASE Adopt(outcome, h, Opened) /\ Owns(outcome, h) /\ stale' = stale
    <3>1. IsInfo(Opened)
      BY MadeInfo
    <3>2. stale' = FALSE
      BY <2>2 DEF OpenInv
    <3> QED BY <1>1, <2>2, <3>1, <3>2, Adopted
  <2> QED BY <2>1, <2>2 DEF OpenAgain, OpenNamedCollection
<1>4. CollTyped'
  BY <1>1, <1>2, <1>3 DEF CollTyped, loop
<1>5. OpenInv'
  BY <1>1, <1>3 DEF OpenInv
<1>6. PhaseInv'
  <2>1. "filled" \in did' /\ (allOk /\ cmd.enum => "ids" \in did')
    BY <1>1, <1>2 DEF PhaseInv
  <2> QED BY <1>1, <1>2, <2>1 DEF PhaseInv, InstallPcs, WantsOpen
<1>7. NamedInv' /\ CurrentInv' /\ UsedInv'
  BY <1>1 DEF NamedInv, CurrentInv, UsedInv, LoopPcs
<1> QED BY <1>4, <1>5, <1>6, <1>7

\* Closing the command's own collection, the only one owned, preserves the
\* invariant.
LEMMA CloseExercisedInv ==
  ASSUME CollectionInv, CloseExercised
  PROVE  CollectionInv'
<1> USE DEF CollectionInv
<1>1. /\ pc = "close" /\ pc' = "disconnect" /\ Uses(collection)
      /\ open' = open \ {collection} /\ owned' = << >>
      /\ UNCHANGED <<cmd, missing, exit, loop, allOk, collection, createdId, named,
                     content, used, did>>
  BY DEF CloseExercised, Goto
<1>2. stale' = FALSE
  BY <1>1 DEF Uses, OpenInv
<1>3. open' = {} /\ Range(owned') = {} /\ owned' \in Seq(Handles)
  <2>1. open = Range(<<collection>>)
    BY <1>1 DEF OpenInv
  <2>2. Range(<<collection>>) = {collection}
    BY DEF Range
  <2> QED BY <1>1, <2>1, <2>2, EmptyVector
<1>4. CollTyped'
  BY <1>1, <1>3 DEF CollTyped, loop
<1>5. OpenInv'
  BY <1>1, <1>2, <1>3 DEF OpenInv
<1>6. PhaseInv'
  BY <1>1 DEF PhaseInv, InstallPcs, WantsOpen
<1>7. NamedInv' /\ CurrentInv' /\ UsedInv'
  BY <1>1 DEF NamedInv, CurrentInv, UsedInv, LoopPcs
<1> QED BY <1>4, <1>5, <1>6, <1>7

\* What the filter was given depends on these alone.
LEMMA UsedKept ==
  ASSUME UsedInv, pc' \in {"ready", "disconnect"}, UNCHANGED <<used, open, content, doc>>
  PROVE  UsedInv'
BY DEF UsedInv, FilterGetsItsCollection, NoUse, SelectInSeq

\* Ending an install session preserves the invariant.
LEMMA StopInv ==
  ASSUME CollectionInv, Stop
  PROVE  CollectionInv'
<1> USE DEF CollectionInv
<1>1. /\ pc = "ready" /\ pc' = "disconnect" /\ exit' = 0
      /\ UNCHANGED <<cmd, missing, loop, allOk, collection, createdId, owned, named,
                     library, used, did>>
  BY DEF Stop, Goto
<1>2. CollTyped'
  BY <1>1 DEF CollTyped, loop, library
<1>3. OpenInv'
  BY <1>1 DEF OpenInv, library
<1>4. PhaseInv'
  BY <1>1 DEF PhaseInv, InstallPcs
<1>5. NamedInv' /\ CurrentInv'
  BY <1>1 DEF NamedInv, CurrentInv, LoopPcs
<1>6. UsedInv'
  BY <1>1, UsedKept DEF library, loop
<1> QED BY <1>2, <1>3, <1>4, <1>5, <1>6

\* Disconnect closes exactly what is owned, which is what is open.
LEMMA DisconnectCollInv ==
  ASSUME CollectionInv, Disconnect
  PROVE  CollectionInv'
<1> USE DEF CollectionInv
<1>1. /\ pc = "disconnect" /\ pc' = "done"
      /\ open' = IF "close" \in missing THEN open ELSE open \ Range(owned)
      /\ stale' = (stale \/ ("close" \notin missing /\ ~(Range(owned) \subseteq open)))
      /\ owned' = << >> /\ named' = << >> /\ used' = NoUse
      /\ UNCHANGED <<cmd, missing, exit, loop, allOk, collection, createdId, content, did>>
  BY DEF Disconnect, Goto
<1>2. open = Range(owned) /\ stale = FALSE
  BY <1>1 DEF OpenInv
<1>3. stale' = FALSE
  BY <1>1, <1>2
<1>4. open' \subseteq open /\ ("close" \notin missing => open' = {})
  BY <1>1, <1>2
<1>5. CollTyped'
  BY <1>1, <1>4, EmptyVector DEF CollTyped, loop
<1>6. OpenInv'
  BY <1>1, <1>3, <1>4 DEF OpenInv
<1>7. PhaseInv'
  BY <1>1 DEF PhaseInv, InstallPcs, WantsOpen
<1>8. NamedInv' /\ CurrentInv' /\ UsedInv'
  BY <1>1 DEF NamedInv, CurrentInv, UsedInv, LoopPcs
<1> QED BY <1>5, <1>6, <1>7, <1>8

\* Every step of a session preserves the invariant.
LEMMA CollectionStep ==
  ASSUME WellFormedDocuments, MaxInstalls \in Nat
  PROVE  CollectionInv /\ [Next]_vars => CollectionInv'
<1> SUFFICES ASSUME CollectionInv, [Next]_vars PROVE CollectionInv'
  OBVIOUS
<1>1. CASE UNCHANGED vars
  <2> USE DEF CollectionInv
  <2>1. UNCHANGED <<cmd, missing, pc, exit, installs, doc, spec, entry, allOk, collection, createdId,
                    owned, named, open, content, stale, used, did>>
    BY <1>1 DEF vars, loop, library
  <2>2. CollTyped' /\ OpenInv'
    BY <2>1 DEF CollTyped, OpenInv
  <2>3. PhaseInv'
    BY <2>1 DEF PhaseInv, WantsOpen
  <2>4. NamedInv' /\ CurrentInv'
    <3>1. CurrentInv'
      BY <2>1 DEF CurrentInv
    <3>2. NamedInv'
      BY <2>1, NamedKept DEF NamedInv
    <3> QED BY <3>1, <3>2
  <2>5. UsedInv'
    BY <2>1, UsedKept DEF UsedInv
  <2> QED BY <2>2, <2>3, <2>4, <2>5
<1>2. ASSUME NEW ok \in BOOLEAN,
             Connect(ok) \/ UpdateSpec(ok) \/ InlineUpdate(ok) \/ FirstEntry(ok)
               \/ Inspect(ok) \/ EnumerateCollectionIds(ok)
      PROVE  CollectionInv'
  BY <1>2, ConnectInv, UpdateSpecInv, InlineUpdateInv, FirstEntryInv, InspectInv, EnumerateInv
<1>3. ASSUME NEW outcome \in Outcomes, NEW h \in Handles \cup {Null},
             OpenSpec(outcome, h) \/ CreateSpec(outcome, h) \/ InlineFilter(outcome, h)
               \/ Create(outcome, h) \/ OpenAgain(outcome, h)
      PROVE  CollectionInv'
  BY <1>3, OpenSpecInv, CreateSpecInv, InlineFilterInv, CreateInv, OpenAgainInv
<1>4. ASSUME NEW d \in Documents, BeginInstall(d) PROVE CollectionInv'
  BY <1>4, BeginInstallInv
<1>5. CASE NameSpec \/ EndSpecs \/ InstallFails \/ BuildFilter \/ CloseExercised \/ Stop \/ Disconnect
  BY <1>5, NameSpecInv, EndSpecsInv, InstallFailsInv, BuildFilterInv, CloseExercisedInv,
     StopInv, DisconnectCollInv
<1> QED BY <1>1, <1>2, <1>3, <1>4, <1>5 DEF Next

\* The collection invariant holds in every session, for every set of handles,
\* documents and commands.
THEOREM CollectionInvariant == Spec => []CollectionInv
<1>1. Init => CollectionInv
  BY CollectionInit, DocumentsAssumption, InstallAssumption
<1>2. CollectionInv /\ [Next]_vars => CollectionInv'
  BY CollectionStep, DocumentsAssumption, InstallAssumption
<1> QED BY <1>1, <1>2, PTL DEF Spec

\* The types of the session's collections and of the command's progress.
THEOREM CollectionTypesCorrect == Spec => []TypeOK
<1>1. CollectionInv => TypeOK
  BY DEF CollectionInv, CollTyped, OpenInv, TypeOK
<1> QED BY <1>1, CollectionInvariant, PTL

\* A filter that names a collection is given an open handle of this install's
\* first declaration of that name, with all of its entries (or opened as it
\* was), over any number of installs in one session: BuildFilter after
\* InstallDocumentCollections.
THEOREM FilterAlwaysGetsItsCollection == Spec => []FilterGetsItsCollection
<1>1. CollectionInv => FilterGetsItsCollection
  BY DEF CollectionInv, UsedInv, FilterGetsItsCollection
<1> QED BY <1>1, CollectionInvariant, PTL

\* Whatever call failed, Disconnect leaves no collection open that the
\* library can close, and no call or second close gets a closed handle.
THEOREM CollectionsClosedOnce == Spec => []ClosedOnceByTheEnd
<1>1. CollectionInv => ClosedOnceByTheEnd
  BY DEF CollectionInv, OpenInv, ClosedOnceByTheEnd
<1> QED BY <1>1, CollectionInvariant, PTL

\* Exit code 0 of the extended collections command is only reached when every
\* step the command line asked for was done.
THEOREM ExtendedAlwaysHonest == Spec => []ExtendedHonest
<1>1. CollectionInv => ExtendedHonest
  BY DEF CollectionInv, PhaseInv, ExtendedHonest
<1> QED BY <1>1, CollectionInvariant, PTL

--------------------------------------------------------------------------------
(***************************************************************************)
(* The parser.  ReaderAgrees is not inductive: that a cleared stack agrees *)
(* when a rule starts needs that combinators are open only inside the one  *)
(* open rule, and that pushing and popping keep the order of the stack.    *)
(***************************************************************************)
\* A filter node of the stack.
IsNode(r) == r = [kind |-> r.kind, tag |-> r.tag, type |-> r.type, kids |-> r.kids,
                  comparand |-> r.comparand]

\* At most one <rule> is open, and combinators are open only inside it.
NestingInv ==
  /\ \A j, k \in DOMAIN xml : xml[j] = "rule" /\ xml[k] = "rule" => j = k
  /\ \A k \in DOMAIN xml : xml[k] \in FilterKindFromTag => \E j \in DOMAIN xml : j < k /\ xml[j] = "rule"

\* current_rule, current_collection and in_entry against the open elements.
BelievedInv ==
  /\ IsVector(rules) /\ IsVector(colls) /\ rule = IF "rule" \in Range(xml) THEN Len(rules) ELSE 0
  /\ "rule" \in Range(xml) => Len(rules) > 0
  /\ coll \in {0, Len(colls)}
  /\ inEntry => "entry" \in Range(xml)

\* The stack holds nodes, of the open combinators.
StackInv == IsVector(stack) /\ (\A n \in DOMAIN stack : IsNode(stack[n])) /\ StackAgrees

ParserInv == status = "reading" => IsVector(xml) /\ NestingInv /\ BelievedInv /\ StackInv

--------------------------------------------------------------------------------
\* The positions of the open combinators.
OpenTags(x) == {k \in DOMAIN x : x[k] \in FilterKindFromTag}

\* pop_back: one element less, the others where they were.
LEMMA FrontProperties ==
  ASSUME NEW s, IsVector(s), s # << >>
  PROVE  /\ Len(s) \in Nat /\ Len(s) > 0 /\ Len(s) \in DOMAIN s /\ Last(s) = s[Len(s)]
         /\ IsVector(Front(s)) /\ DOMAIN Front(s) = 1..(Len(s) - 1) /\ Len(Front(s)) = Len(s) - 1
         /\ \A k \in DOMAIN s : k \in DOMAIN Front(s) \/ k = Len(s)
         /\ \A k \in DOMAIN Front(s) : k \in DOMAIN s /\ k \in Nat /\ k < Len(s) /\ Front(s)[k] = s[k]
<1> DEFINE S == Range(s)
           n == Len(s)
           t == SubSeq(s, 1, n - 1)
<1>1. s \in Seq(S)
  BY DEF IsVector
<1>2. n \in Nat /\ n > 0 /\ DOMAIN s = 1..n
  BY <1>1
<1>3. /\ t \in Seq(S)
      /\ Len(t) = IF 1 <= n - 1 THEN n - 1 - 1 + 1 ELSE 0
      /\ \A k \in 1..(n - 1 - 1 + 1) : t[k] = s[1 + k - 1]
  BY <1>1, <1>2, SubSeqProperties
<1>4. Front(s) = t /\ Last(s) = s[n]
  BY DEF Front, Last
<1> HIDE DEF n, t, S
<1>5a. t \in Seq(S)
  BY <1>3
<1>5b. IsVector(t)
  BY <1>5a, SeqIsVector
<1>5. IsVector(t) /\ DOMAIN t = 1..Len(t)
  BY <1>5a, <1>5b
<1>6. Len(t) = n - 1 /\ n \in 1..n
  BY <1>2, <1>3
<1>7. \A k \in 1..n : k \in 1..(n - 1) \/ k = n
  BY <1>2
<1>8. ASSUME NEW k \in 1..(n - 1) PROVE k \in 1..n /\ k \in Nat /\ k < n /\ t[k] = s[k]
  <2>1. k \in 1..(n - 1 - 1 + 1) /\ 1 + k - 1 = k /\ k \in 1..n /\ k \in Nat /\ k < n
    BY <1>2
  <2> QED BY <1>3, <2>1
<1> QED BY <1>2, <1>4, <1>5, <1>6, <1>7, <1>8 DEF n

\* Writing an element of a vector keeps its length.
LEMMA ExceptVector ==
  ASSUME NEW s, IsVector(s), NEW k, NEW x
  PROVE  /\ IsVector([s EXCEPT ![k] = x]) /\ Len([s EXCEPT ![k] = x]) = Len(s)
         /\ DOMAIN [s EXCEPT ![k] = x] = DOMAIN s
<1> DEFINE S == Range(s) \cup {x}
           t == [s EXCEPT ![k] = x]
<1>1. s \in Seq(Range(s))
  BY DEF IsVector
<1>2. Len(s) \in Nat /\ DOMAIN s = 1..Len(s) /\ \A j \in 1..Len(s) : s[j] \in S
  BY <1>1
<1>3. t = [j \in 1..Len(s) |-> t[j]] /\ DOMAIN t = DOMAIN s /\ \A j \in 1..Len(s) : t[j] \in S
  BY <1>1, <1>2
<1> HIDE DEF t, S
<1>4. t \in Seq(S) /\ Len(t) = Len(s)
  BY <1>2, <1>3
<1>5. IsVector(t)
  BY <1>4, SeqIsVector
<1> QED BY <1>3, <1>4, <1>5 DEF t

\* The open elements after a start tag.
LEMMA RangeOfAppend ==
  ASSUME NEW s, IsVector(s), NEW x
  PROVE  Range(Append(s, x)) = Range(s) \cup {x}
<1> DEFINE t == Append(s, x)
<1>1. /\ \A k \in DOMAIN s : k \in DOMAIN t /\ t[k] = s[k]
      /\ \A k \in DOMAIN t : k \in DOMAIN s \/ (k = Len(s) + 1 /\ t[k] = x)
      /\ Len(s) + 1 \in DOMAIN t /\ t[Len(s) + 1] = x
  BY DomainAppend
<1> HIDE DEF t
<1>2. Range(t) \subseteq Range(s) \cup {x} /\ Range(s) \subseteq Range(t) /\ x \in Range(t)
  BY <1>1 DEF Range
<1> QED BY <1>2 DEF t

\* A start tag that is not empty.
LEMMA PushInv ==
  ASSUME IsVector(xml), NestingInv, NEW name, xml' = Append(xml, name),
         name = "rule" => "rule" \notin Range(xml),
         name \in FilterKindFromTag => "rule" \in Range(xml)
  PROVE  IsVector(xml') /\ NestingInv' /\ Range(xml') = Range(xml) \cup {name}
<1> DEFINE n == Len(xml) + 1
<1>1. /\ \A k \in DOMAIN xml : k \in DOMAIN xml' /\ xml'[k] = xml[k]
      /\ \A k \in DOMAIN xml' : k \in DOMAIN xml \/ (k = n /\ xml'[k] = name)
  BY DomainAppend
<1>2. IsVector(xml') /\ Range(xml') = Range(xml) \cup {name}
  BY VectorAppend, RangeOfAppend
<1>3. \A k \in DOMAIN xml : k < n
  <2>1. Len(xml) \in Nat /\ DOMAIN xml = 1..Len(xml)
    BY VectorProperties
  <2> QED BY <2>1
<1> HIDE DEF n
<1>4. \A k \in DOMAIN xml : xml[k] \in Range(xml)
  BY DEF Range
<1>5. \A j, k \in DOMAIN xml' : xml'[j] = "rule" /\ xml'[k] = "rule" => j = k
  BY <1>1, <1>4 DEF NestingInv
<1>6. ASSUME NEW k \in DOMAIN xml', xml'[k] \in FilterKindFromTag
      PROVE  \E j \in DOMAIN xml' : j < k /\ xml'[j] = "rule"
  <2>1. CASE k \in DOMAIN xml
    BY <1>1, <1>6, <2>1 DEF NestingInv
  <2>2. CASE k = n /\ xml'[k] = name
    <3>1. PICK j \in DOMAIN xml : xml[j] = "rule"
      BY <1>6, <2>2 DEF Range
    <3> QED BY <1>1, <1>3, <2>2, <3>1
  <2> QED BY <1>1, <2>1, <2>2
<1> QED BY <1>2, <1>5, <1>6 DEF NestingInv

\* An end tag.
LEMMA PopInv ==
  ASSUME IsVector(xml), NestingInv, xml # << >>, xml' = Front(xml)
  PROVE  /\ IsVector(xml') /\ NestingInv' /\ Range(xml') \subseteq Range(xml)
         /\ \A name \in Range(xml) : name # Last(xml) => name \in Range(xml')
         /\ Last(xml) = "rule" => "rule" \notin Range(xml')
         /\ Last(xml) \in Range(xml)
<1> DEFINE n == Len(xml)
<1>1. /\ n \in Nat /\ n \in DOMAIN xml /\ Last(xml) = xml[n] /\ IsVector(xml')
      /\ DOMAIN xml' = 1..(n - 1)
      /\ \A k \in DOMAIN xml : k \in DOMAIN xml' \/ k = n
      /\ \A k \in DOMAIN xml' : k \in DOMAIN xml /\ k \in Nat /\ k < n /\ xml'[k] = xml[k]
  BY FrontProperties
<1> HIDE DEF n
<1>2. /\ Range(xml') \subseteq Range(xml) /\ Last(xml) \in Range(xml)
      /\ \A name \in Range(xml) : name # Last(xml) => name \in Range(xml')
  BY <1>1 DEF Range
<1>3. Last(xml) = "rule" => "rule" \notin Range(xml')
  <2> SUFFICES ASSUME xml[n] = "rule", NEW k \in DOMAIN xml', xml'[k] = "rule" PROVE FALSE
    BY <1>1 DEF Range
  <2>1. k = n
    BY <1>1 DEF NestingInv
  <2>2. k < n /\ k \in Nat
    BY <1>1
  <2> QED BY <1>1, <2>1, <2>2
<1>4. \A j, k \in DOMAIN xml' : xml'[j] = "rule" /\ xml'[k] = "rule" => j = k
  BY <1>1 DEF NestingInv
<1>5. ASSUME NEW k \in DOMAIN xml', xml'[k] \in FilterKindFromTag
      PROVE  \E j \in DOMAIN xml' : j < k /\ xml'[j] = "rule"
  <2>1. PICK j \in DOMAIN xml : j < k /\ xml[j] = "rule"
    BY <1>1, <1>5 DEF NestingInv
  <2>2. j # n
    <3>1. k < n /\ k \in Nat /\ j < k /\ n \in Nat
      BY <1>1, <2>1
    <3> QED BY <3>1
  <2> QED BY <1>1, <2>1, <2>2
<1> QED BY <1>1, <1>2, <1>3, <1>4, <1>5 DEF NestingInv

--------------------------------------------------------------------------------
\* StackAgrees, for any xml and stack.
Agrees(x, st) ==
  \E at \in [DOMAIN st -> OpenTags(x)] :
    /\ Range(at) = OpenTags(x)
    /\ \A n \in DOMAIN st : st[n].kind = x[at[n]]
    /\ \A m, n \in DOMAIN st : m < n => at[m] < at[n]

\* Agrees is StackAgrees, now and in the next state.
LEMMA AgreesIsStackAgrees == /\ StackAgrees <=> Agrees(xml, stack)
                             /\ StackAgrees' <=> Agrees(xml', stack')
BY DEF StackAgrees, Agrees, OpenTags

\* Agreement depends on the open combinators and the kinds of the nodes only.
LEMMA AgreesSame ==
  ASSUME NEW x, NEW st, Agrees(x, st), NEW y, NEW su, OpenTags(y) = OpenTags(x),
         \A k \in OpenTags(x) : y[k] = x[k],
         DOMAIN su = DOMAIN st, \A n \in DOMAIN st : su[n].kind = st[n].kind
  PROVE  Agrees(y, su)
<1>1. PICK at \in [DOMAIN st -> OpenTags(x)] :
        /\ Range(at) = OpenTags(x)
        /\ \A n \in DOMAIN st : st[n].kind = x[at[n]]
        /\ \A m, n \in DOMAIN st : m < n => at[m] < at[n]
  BY DEF Agrees
<1>2. at \in [DOMAIN su -> OpenTags(y)] /\ Range(at) = OpenTags(y)
  BY <1>1
<1>3. \A n \in DOMAIN su : su[n].kind = y[at[n]]
  BY <1>1
<1> QED BY <1>1, <1>2, <1>3 DEF Agrees

\* A combinator's start tag with its node pushed keeps the agreement.
LEMMA AgreesPush ==
  ASSUME NEW x, IsVector(x), NEW st, IsVector(st), Agrees(x, st),
         NEW name \in FilterKindFromTag, NEW node, node.kind = name
  PROVE  Agrees(Append(x, name), Append(st, node))
<1> DEFINE y == Append(x, name)
           su == Append(st, node)
           nx == Len(x) + 1
           ns == Len(st) + 1
<1>1. /\ \A k \in DOMAIN x : k \in DOMAIN y /\ y[k] = x[k]
      /\ \A k \in DOMAIN y : k \in DOMAIN x \/ (k = nx /\ y[k] = name)
      /\ nx \in DOMAIN y /\ y[nx] = name
  BY DomainAppend
<1>2. /\ \A k \in DOMAIN st : k \in DOMAIN su /\ su[k] = st[k]
      /\ \A k \in DOMAIN su : k \in DOMAIN st \/ (k = ns /\ su[k] = node)
      /\ ns \in DOMAIN su /\ su[ns] = node
  BY DomainAppend
<1>3. (\A k \in DOMAIN x : k \in Nat /\ k < nx) /\ (\A k \in DOMAIN st : k \in Nat /\ k < ns)
      /\ nx \in Nat /\ ns \in Nat
  <2>1. Len(x) \in Nat /\ DOMAIN x = 1..Len(x) /\ Len(st) \in Nat /\ DOMAIN st = 1..Len(st)
    BY VectorProperties
  <2> QED BY <2>1
<1>4. PICK at \in [DOMAIN st -> OpenTags(x)] :
        /\ Range(at) = OpenTags(x)
        /\ \A n \in DOMAIN st : st[n].kind = x[at[n]]
        /\ \A m, n \in DOMAIN st : m < n => at[m] < at[n]
  BY DEF Agrees
<1> HIDE DEF y, su, nx, ns
<1>5. OpenTags(y) = OpenTags(x) \cup {nx}
  BY <1>1 DEF OpenTags
<1>6. DOMAIN su = DOMAIN st \cup {ns} /\ ns \notin DOMAIN st
  <2>1. ns \notin DOMAIN st
    <3>1. ns \in DOMAIN st => ns < ns /\ ns \in Nat
      BY <1>3
    <3> QED BY <3>1
  <2> QED BY <1>2, <2>1
<1> DEFINE bt == [n \in DOMAIN su |-> IF n = ns THEN nx ELSE at[n]]
<1>7. bt \in [DOMAIN su -> OpenTags(y)] /\ bt[ns] = nx /\ \A n \in DOMAIN st : bt[n] = at[n]
  BY <1>4, <1>5, <1>6
<1> HIDE DEF bt
<1>8. Range(bt) = OpenTags(y)
  <2>1. DOMAIN bt = DOMAIN su /\ DOMAIN at = DOMAIN st
    BY <1>4, <1>7
  <2>2. Range(bt) \subseteq OpenTags(y)
    BY <1>7, <2>1 DEF Range
  <2>3. Range(at) \subseteq Range(bt) /\ nx \in Range(bt)
    BY <1>6, <1>7, <2>1 DEF Range
  <2> QED BY <1>4, <1>5, <2>2, <2>3
<1>9. \A n \in DOMAIN su : su[n].kind = y[bt[n]]
  <2> SUFFICES ASSUME NEW n \in DOMAIN su PROVE su[n].kind = y[bt[n]]
    OBVIOUS
  <2>1. CASE n = ns
    BY <1>1, <1>2, <1>7, <2>1
  <2>2. CASE n \in DOMAIN st
    <3>1. at[n] \in DOMAIN x /\ st[n].kind = x[at[n]]
      BY <1>4, <2>2 DEF OpenTags
    <3> QED BY <1>1, <1>2, <1>7, <2>2, <3>1
  <2> QED BY <1>6, <2>1, <2>2
<1>10. ASSUME NEW m \in DOMAIN su, NEW n \in DOMAIN su, m < n PROVE bt[m] < bt[n]
  <2>1. CASE m \in DOMAIN st /\ n \in DOMAIN st
    BY <1>4, <1>7, <1>10, <2>1
  <2>2. CASE m \in DOMAIN st /\ n = ns
    <3>1. at[m] \in DOMAIN x
      BY <1>4, <2>2 DEF OpenTags
    <3> QED BY <1>3, <1>7, <2>2, <3>1
  <2>3. CASE m = ns
    <3>1. n \in Nat /\ n <= ns /\ ns \in Nat
      BY <1>3, <1>6
    <3> QED BY <1>10, <2>3, <3>1
  <2> QED BY <1>6, <2>1, <2>2, <2>3
<1>11. Agrees(y, su)
  BY <1>7, <1>8, <1>9, <1>10 DEF Agrees
<1> QED BY <1>11 DEF y, su

\* A combinator's end tag: the parser's stack cannot be empty there (the
\* "mismatched" error is unreachable), and popping keeps the agreement.
LEMMA AgreesPop ==
  ASSUME NEW x, IsVector(x), x # << >>, Last(x) \in FilterKindFromTag,
         NEW st, IsVector(st), Agrees(x, st)
  PROVE  st # << >> /\ Agrees(Front(x), Front(st))
<1> DEFINE y == Front(x)
           nx == Len(x)
<1>1. /\ nx \in Nat /\ nx \in DOMAIN x /\ Last(x) = x[nx]
      /\ \A k \in DOMAIN x : k \in DOMAIN y \/ k = nx
      /\ \A k \in DOMAIN y : k \in DOMAIN x /\ k \in Nat /\ k < nx /\ y[k] = x[k]
  BY FrontProperties
<1>2. PICK at \in [DOMAIN st -> OpenTags(x)] :
        /\ Range(at) = OpenTags(x)
        /\ \A n \in DOMAIN st : st[n].kind = x[at[n]]
        /\ \A m, n \in DOMAIN st : m < n => at[m] < at[n]
  BY DEF Agrees
<1> HIDE DEF y, nx
<1>3. nx \in OpenTags(x)
  BY <1>1 DEF OpenTags
<1>4. PICK top \in DOMAIN st : at[top] = nx
  BY <1>2, <1>3 DEF Range
<1>5. st # << >>
  BY <1>4
<1> DEFINE su == Front(st)
           ns == Len(st)
<1>6. /\ ns \in Nat /\ ns \in DOMAIN st
      /\ \A k \in DOMAIN st : k \in DOMAIN su \/ k = ns
      /\ \A k \in DOMAIN su : k \in DOMAIN st /\ k \in Nat /\ k < ns /\ su[k] = st[k]
  BY <1>5, FrontProperties
<1> HIDE DEF su, ns
<1>7. \A n \in DOMAIN st : at[n] \in Nat /\ at[n] <= nx
  <2> SUFFICES ASSUME NEW n \in DOMAIN st PROVE at[n] \in Nat /\ at[n] <= nx
    OBVIOUS
  <2>1. at[n] \in DOMAIN x
    BY <1>2 DEF OpenTags
  <2> QED BY <1>1, <2>1
<1>8. at[ns] = nx /\ top = ns
  <2>1. top = ns
    <3>1. CASE top \in DOMAIN su
      <4>1. at[top] < at[ns] /\ at[ns] <= nx /\ at[ns] \in Nat /\ nx \in Nat
        BY <1>1, <1>2, <1>6, <1>7, <3>1
      <4> QED BY <1>4, <4>1
    <3> QED BY <1>6, <3>1
  <2> QED BY <1>4, <2>1
<1>9. OpenTags(y) = OpenTags(x) \ {nx}
  <2>1. \A k \in OpenTags(y) : k \in OpenTags(x) /\ k # nx
    <3> SUFFICES ASSUME NEW k \in OpenTags(y) PROVE k \in OpenTags(x) /\ k # nx
      OBVIOUS
    <3>1. k \in DOMAIN y /\ y[k] \in FilterKindFromTag
      BY DEF OpenTags
    <3>2. k \in DOMAIN x /\ x[k] \in FilterKindFromTag /\ k \in Nat /\ k < nx /\ nx \in Nat
      BY <1>1, <3>1
    <3>3. k # nx
      BY <3>2
    <3> QED BY <3>2, <3>3 DEF OpenTags
  <2>2. \A k \in OpenTags(x) : k # nx => k \in OpenTags(y)
    BY <1>1 DEF OpenTags
  <2> QED BY <2>1, <2>2
<1>10. DOMAIN st = DOMAIN su \cup {ns} /\ ns \notin DOMAIN su
  <2>1. ns \notin DOMAIN su
    <3>1. ns \in DOMAIN su => ns < ns /\ ns \in Nat
      BY <1>6
    <3> QED BY <3>1
  <2> QED BY <1>6, <2>1
<1> DEFINE bt == [n \in DOMAIN su |-> at[n]]
<1>11. \A n \in DOMAIN su : at[n] \in OpenTags(y)
  <2> SUFFICES ASSUME NEW n \in DOMAIN su PROVE at[n] \in OpenTags(y)
    OBVIOUS
  <2>1. n \in DOMAIN st /\ n < ns
    BY <1>6
  <2>2. at[n] < at[ns] /\ at[n] \in Nat /\ at[n] \in OpenTags(x)
    BY <1>2, <1>6, <1>7, <2>1
  <2>3. at[n] # nx
    BY <1>1, <1>8, <2>2
  <2> QED BY <1>9, <2>2, <2>3
<1>12. bt \in [DOMAIN su -> OpenTags(y)] /\ DOMAIN bt = DOMAIN su /\ \A n \in DOMAIN su : bt[n] = at[n]
  BY <1>11
<1> HIDE DEF bt
<1>13. Range(bt) = OpenTags(y)
  <2>1. Range(bt) \subseteq OpenTags(y)
    BY <1>12 DEF Range
  <2>2. ASSUME NEW k \in OpenTags(y) PROVE k \in Range(bt)
    <3>1. k \in Range(at) /\ k # nx
      BY <1>2, <1>9
    <3>2. PICK n \in DOMAIN st : at[n] = k
      BY <1>2, <3>1 DEF Range
    <3>3. n \in DOMAIN su
      BY <1>6, <1>8, <3>1, <3>2
    <3> QED BY <1>12, <3>2, <3>3 DEF Range
  <2> QED BY <2>1, <2>2
<1>14. \A n \in DOMAIN su : su[n].kind = y[bt[n]]
  <2> SUFFICES ASSUME NEW n \in DOMAIN su PROVE su[n].kind = y[bt[n]]
    OBVIOUS
  <2>1. at[n] \in DOMAIN y /\ n \in DOMAIN st /\ su[n] = st[n] /\ bt[n] = at[n]
    BY <1>6, <1>11, <1>12 DEF OpenTags
  <2> QED BY <1>1, <1>2, <2>1
<1>15. \A m, n \in DOMAIN su : m < n => bt[m] < bt[n]
  BY <1>2, <1>6, <1>12
<1>16. Agrees(y, su)
  BY <1>12, <1>13, <1>14, <1>15 DEF Agrees
<1> QED BY <1>5, <1>16 DEF y, su

--------------------------------------------------------------------------------
\* A child added to a node leaves its kind.
LEMMA NodeUpdate ==
  ASSUME NEW r, IsNode(r), NEW x
  PROVE  IsNode([r EXCEPT !.kids = x]) /\ [r EXCEPT !.kids = x].kind = r.kind
<1> DEFINE a == r.kind
           b == r.tag
           c == r.type
           d == r.kids
           f == r.comparand
<1>1. r = [kind |-> a, tag |-> b, type |-> c, kids |-> d, comparand |-> f]
  BY DEF IsNode
<1> HIDE DEF a, b, c, d, f
<1>2. [r EXCEPT !.kids = x] = [kind |-> a, tag |-> b, type |-> c, kids |-> x, comparand |-> f]
  BY <1>1
<1>3. IsNode([kind |-> a, tag |-> b, type |-> c, kids |-> x, comparand |-> f])
  BY DEF IsNode
<1>4. [r EXCEPT !.kids = x].kind = a
  BY <1>2
<1> QED BY <1>2, <1>3, <1>4 DEF a

\* A stack of nodes.
IsStack(st) == IsVector(st) /\ \A n \in DOMAIN st : IsNode(st[n])

\* Append gives a finished node to the innermost combinator or to the top
\* level: the open combinators are the same.
LEMMA AppendKeeps ==
  ASSUME NEW op, IsStack(op), NEW tops, NEW node, AppendNode(op, tops, node)
  PROVE  /\ IsStack(stack') /\ DOMAIN stack' = DOMAIN op
         /\ \A n \in DOMAIN op : stack'[n].kind = op[n].kind
<1>1. CASE op = << >>
  BY <1>1 DEF AppendNode, IsStack
<1>2. CASE op # << >>
  <2> DEFINE n0 == Len(op)
             v == [op[n0] EXCEPT !.kids = Append(@, node)]
             t == [op EXCEPT ![n0] = v]
  <2>1. stack' = t
    BY <1>2 DEF AppendNode
  <2>2. n0 \in DOMAIN op
    BY <1>2, FrontProperties DEF IsStack
  <2>3. IsNode(v) /\ v.kind = op[n0].kind
    BY <2>2, NodeUpdate DEF IsStack
  <2>4. IsVector(t) /\ DOMAIN t = DOMAIN op
    BY ExceptVector DEF IsStack
  <2> HIDE DEF v, n0
  <2>5. \A n \in DOMAIN op : t[n] = IF n = n0 THEN v ELSE op[n]
    OBVIOUS
  <2> HIDE DEF t
  <2>6. \A n \in DOMAIN op : IsNode(t[n]) /\ t[n].kind = op[n].kind
    BY <2>3, <2>5 DEF IsStack
  <2> QED BY <2>1, <2>4, <2>6 DEF IsStack
<1> QED BY <1>1, <1>2

\* What a start tag does to the open elements.
LEMMA StartTag ==
  ASSUME IsVector(xml), NestingInv, NEW e, Reads(e),
         e.name = "rule" => "rule" \notin Range(xml),
         e.name \in FilterKindFromTag => "rule" \in Range(xml)
  PROVE  /\ IsVector(xml') /\ NestingInv'
         /\ Range(xml') = IF e.empty THEN Range(xml) ELSE Range(xml) \cup {e.name}
<1>1. CASE e.empty
  <2>1. xml' = xml
    BY <1>1 DEF Reads
  <2> QED BY <1>1, <2>1 DEF NestingInv
<1>2. CASE ~e.empty
  <2>1. xml' = Append(xml, e.name)
    BY <1>2 DEF Reads
  <2>2. IsVector(xml') /\ NestingInv' /\ Range(xml') = Range(xml) \cup {e.name}
    BY <2>1, PushInv
  <2> QED BY <1>2, <2>2
<1> QED BY <1>1, <1>2

\* A start tag that is no combinator's, or is empty, opens no combinator.
LEMMA OtherStartTag ==
  ASSUME IsVector(xml), NEW e, Reads(e), e.name \notin FilterKindFromTag \/ e.empty
  PROVE  OpenTags(xml') = OpenTags(xml) /\ \A k \in OpenTags(xml) : xml'[k] = xml[k]
<1>1. CASE e.empty
  BY <1>1 DEF Reads
<1>2. CASE ~e.empty
  <2>1. xml' = Append(xml, e.name) /\ e.name \notin FilterKindFromTag
    BY <1>2 DEF Reads
  <2>2. /\ \A k \in DOMAIN xml : k \in DOMAIN xml' /\ xml'[k] = xml[k]
        /\ \A k \in DOMAIN xml' : k \in DOMAIN xml \/ (k = Len(xml) + 1 /\ xml'[k] = e.name)
    BY <2>1, DomainAppend
  <2> QED BY <2>1, <2>2 DEF OpenTags
<1> QED BY <1>1, <1>2

\* An end tag that is no combinator's closes none.
LEMMA OtherEndTag ==
  ASSUME IsVector(xml), xml # << >>, xml' = Front(xml), Last(xml) \notin FilterKindFromTag
  PROVE  OpenTags(xml') = OpenTags(xml) /\ \A k \in OpenTags(xml) : xml'[k] = xml[k]
<1> DEFINE n == Len(xml)
<1>1. /\ Last(xml) = xml[n]
      /\ \A k \in DOMAIN xml : k \in DOMAIN xml' \/ k = n
      /\ \A k \in DOMAIN xml' : k \in DOMAIN xml /\ xml'[k] = xml[k]
  BY FrontProperties
<1> HIDE DEF n
<1> QED BY <1>1 DEF OpenTags

\* A step that keeps the open combinators and the kinds keeps StackInv.
LEMMA StackKept ==
  ASSUME StackInv, OpenTags(xml') = OpenTags(xml), \A k \in OpenTags(xml) : xml'[k] = xml[k],
         IsStack(stack'), DOMAIN stack' = DOMAIN stack,
         \A n \in DOMAIN stack : stack'[n].kind = stack[n].kind
  PROVE  StackInv'
<1>1. Agrees(xml, stack)
  BY AgreesIsStackAgrees DEF StackInv
<1>2. Agrees(xml', stack')
  BY <1>1, AgreesSame
<1>3. StackAgrees'
  BY <1>2, AgreesIsStackAgrees
<1> QED BY <1>3 DEF StackInv, IsStack

\* A parser that failed reads no more.
LEMMA FailsInv ==
  ASSUME NEW error, Fails(error), error # "reading"
  PROVE  ParserInv'
BY DEF Fails, ParserInv

\* A start tag that moves neither the rules nor the stack.
LEMMA PlainTagInv ==
  ASSUME ParserInv, NEW e, Reads(e), e.name \notin FilterKindFromTag, e.name # "rule",
         UNCHANGED <<rule, stack>>,
         IsVector(rules'), Len(rules') = Len(rules), IsVector(colls'),
         coll' \in {0, Len(colls')},
         inEntry' => (inEntry \/ (e.name = "entry" /\ ~e.empty))
  PROVE  ParserInv'
<1>1. IsVector(xml) /\ NestingInv /\ BelievedInv /\ StackInv
  BY DEF Reads, ParserInv
<1>2. /\ IsVector(xml') /\ NestingInv'
      /\ Range(xml') = IF e.empty THEN Range(xml) ELSE Range(xml) \cup {e.name}
  BY <1>1, StartTag
<1>3. OpenTags(xml') = OpenTags(xml) /\ \A k \in OpenTags(xml) : xml'[k] = xml[k]
  BY <1>1, OtherStartTag
<1>4. StackInv'
  BY <1>1, <1>3, StackKept DEF StackInv, IsStack
<1>5. BelievedInv'
  BY <1>1, <1>2 DEF BelievedInv
<1> QED BY <1>2, <1>4, <1>5 DEF ParserInv

\* The root element preserves the invariant.
LEMMA RootTagInv ==
  ASSUME ParserInv, NEW e, Root(e)
  PROVE  ParserInv'
<1>1. Reads(e) /\ status = "reading"
  BY DEF Root, Reads
<1>2. CASE e.name # "esptool" /\ Fails("root")
  BY <1>2, FailsInv
<1>3. CASE e.name = "esptool" /\ UNCHANGED <<rule, stack, rules, colls, coll, inEntry>>
  BY <1>1, <1>3, PlainTagInv DEF ParserInv, BelievedInv, FilterKindFromTag
<1> QED BY <1>2, <1>3 DEF Root, document

\* <client> preserves the invariant.
LEMMA ClientTagInv ==
  ASSUME ParserInv, NEW e, Client(e)
  PROVE  ParserInv'
<1>1. Reads(e) /\ status = "reading" /\ e.name = "client"
  BY DEF Client, Inside, Reads
<1>2. CASE Fails("client")
  BY <1>2, FailsInv
<1>3. CASE UNCHANGED <<rule, stack, rules, colls, coll, inEntry>>
  BY <1>1, <1>3, PlainTagInv DEF ParserInv, BelievedInv, FilterKindFromTag
<1> QED BY <1>2, <1>3 DEF Client, document

\* <collections>, an unknown element and a nested <esptool> preserve the
\* invariant.
LEMMA IgnoredTagInv ==
  ASSUME ParserInv, NEW e, Ignored(e)
  PROVE  ParserInv'
<1>1. Reads(e) /\ status = "reading" /\ e.name \in {"collections", "other", "esptool"}
  BY DEF Ignored, Inside, Reads
<1>2. CASE Fails("collections")
  BY <1>2, FailsInv
<1>3. CASE UNCHANGED <<rule, stack, rules, colls, coll, inEntry>>
  BY <1>1, <1>3, PlainTagInv DEF ParserInv, BelievedInv, FilterKindFromTag
<1> QED BY <1>2, <1>3 DEF Ignored, document

\* <collection> preserves the invariant.
LEMMA CollectionTagInv ==
  ASSUME ParserInv, NEW e, Collection(e)
  PROVE  ParserInv'
<1>1. Reads(e) /\ status = "reading" /\ e.name = "collection"
  BY DEF Collection, Inside, Reads
<1>2. CASE Fails("collection in rule") \/ Fails("collection")
  BY <1>2, FailsInv
<1>3. CASE /\ colls' = Append(colls, [type |-> e.attr.type, open |-> e.attr.open, entries |-> << >>])
           /\ coll' = IF e.empty THEN 0 ELSE Len(colls) + 1
           /\ UNCHANGED <<rule, stack, rules, inEntry>>
  <2>1. IsVector(colls) /\ IsVector(rules)
    BY <1>1 DEF ParserInv, BelievedInv
  <2>2. IsVector(colls') /\ Len(colls') = Len(colls) + 1
    BY <1>3, <2>1, VectorAppend
  <2>3. coll' \in {0, Len(colls')}
    BY <1>3, <2>2
  <2> QED BY <1>1, <1>3, <2>1, <2>2, <2>3, PlainTagInv DEF FilterKindFromTag
<1> QED BY <1>2, <1>3 DEF Collection

\* <entry> preserves the invariant: an empty one believes no entry open.
LEMMA EntryTagInv ==
  ASSUME ParserInv, NEW e, Entry(e)
  PROVE  ParserInv'
<1>1. Reads(e) /\ status = "reading" /\ e.name = "entry"
  BY DEF Entry, Inside, Reads
<1>2. CASE Fails("entry")
  BY <1>2, FailsInv
<1>3. CASE /\ inEntry' = ~e.empty
           /\ colls' = IF e.empty THEN [colls EXCEPT ![coll].entries = Append(@, 0)] ELSE colls
           /\ UNCHANGED <<rule, coll, stack, rules>>
  <2>1. IsVector(colls) /\ IsVector(rules) /\ coll \in {0, Len(colls)}
    BY <1>1 DEF ParserInv, BelievedInv
  <2>2. IsVector(colls') /\ Len(colls') = Len(colls)
    BY <1>3, <2>1, ExceptVector
  <2> QED BY <1>1, <1>3, <2>1, <2>2, PlainTagInv DEF FilterKindFromTag
<1> QED BY <1>2, <1>3 DEF Entry

\* <query> preserves the invariant.
LEMMA QueryTagInv ==
  ASSUME ParserInv, NEW e, Query(e)
  PROVE  ParserInv'
<1>1. Reads(e) /\ status = "reading" /\ e.name = "query"
  BY DEF Query, Inside, Reads
<1>2. CASE Fails("query outside") \/ Fails("query")
  BY <1>2, FailsInv
<1>3. CASE /\ rules' = [rules EXCEPT ![rule].queries = @ + 1]
           /\ UNCHANGED <<rule, coll, stack, colls, inEntry>>
  <2>1. IsVector(colls) /\ IsVector(rules) /\ coll \in {0, Len(colls)}
    BY <1>1 DEF ParserInv, BelievedInv
  <2>2. IsVector(rules') /\ Len(rules') = Len(rules)
    BY <1>3, <2>1, ExceptVector
  <2> QED BY <1>1, <1>3, <2>1, <2>2, PlainTagInv DEF FilterKindFromTag
<1> QED BY <1>2, <1>3 DEF Query

\* <rule> preserves the invariant: with no rule current none is open, so no
\* combinator is either and the cleared stack agrees.
LEMMA RuleTagInv ==
  ASSUME ParserInv, NEW e, Rule(e)
  PROVE  ParserInv'
<1>1. Reads(e) /\ status = "reading" /\ e.name = "rule"
  BY DEF Rule, Inside, Reads
<1>2. CASE Fails("nested rule") \/ Fails("rule")
  BY <1>2, FailsInv
<1>3. CASE /\ rule = 0 /\ stack' = << >>
           /\ rules' = Append(rules, [queries |-> 0, filter |-> EmptyFilter])
           /\ rule' = IF e.empty THEN 0 ELSE Len(rules) + 1
           /\ UNCHANGED <<coll, colls, inEntry>>
  <2>1. IsVector(xml) /\ NestingInv /\ BelievedInv /\ StackInv
    BY <1>1 DEF ParserInv
  <2>2. IsVector(rules) /\ Len(rules) \in Nat
    BY <2>1, VectorProperties DEF BelievedInv
  <2>3. "rule" \notin Range(xml)
    <3>1. "rule" \in Range(xml) => rule = Len(rules) /\ Len(rules) > 0
      BY <2>1 DEF BelievedInv
    <3> QED BY <1>3, <2>2, <3>1
  <2>4. /\ IsVector(xml') /\ NestingInv'
        /\ Range(xml') = IF e.empty THEN Range(xml) ELSE Range(xml) \cup {e.name}
    BY <1>1, <2>1, <2>3, StartTag DEF FilterKindFromTag
  <2>5. IsVector(rules') /\ Len(rules') = Len(rules) + 1
    BY <1>3, <2>2, VectorAppend
  <2>6. Len(rules') > 0
    BY <2>2, <2>5
  <2>7. BelievedInv'
    <3>1. rule' = IF "rule" \in Range(xml') THEN Len(rules') ELSE 0
      BY <1>1, <1>3, <2>3, <2>4, <2>5
    <3> QED BY <1>3, <2>1, <2>4, <2>5, <2>6, <3>1 DEF BelievedInv
  <2>8. StackInv'
    <3>1. OpenTags(xml) = {}
      BY <2>1, <2>3 DEF NestingInv, OpenTags, Range
    <3>2. OpenTags(xml') = {}
      BY <1>1, <2>1, <3>1, OtherStartTag DEF FilterKindFromTag
    <3> DEFINE at == [n \in DOMAIN stack' |-> 0]
    <3>3. DOMAIN stack' = {}
      BY <1>3
    <3>4. at \in [DOMAIN stack' -> OpenTags(xml')] /\ DOMAIN at = {}
      BY <3>3
    <3>5. Range(at) = OpenTags(xml')
      BY <3>2, <3>4 DEF Range
    <3>6. Agrees(xml', stack')
      BY <3>3, <3>4, <3>5 DEF Agrees
    <3>7. IsVector(stack')
      BY <1>3 DEF IsVector
    <3> QED BY <3>3, <3>6, <3>7, AgreesIsStackAgrees DEF StackInv
  <2> QED BY <2>4, <2>7, <2>8 DEF ParserInv
<1> QED BY <1>2, <1>3 DEF Rule

\* <filter> preserves the invariant.
LEMMA FilterLeafInv ==
  ASSUME ParserInv, NEW e, FilterLeaf(e)
  PROVE  ParserInv'
<1>1. Reads(e) /\ status = "reading" /\ e.name = "filter"
  BY DEF FilterLeaf, Inside, Reads
<1>2. CASE Fails("filter outside") \/ Fails("filter")
  BY <1>2, FailsInv
<1>3. CASE /\ AppendNode(stack, roots, ParseLeafAttributes(e.attr, tags').leaf)
           /\ UNCHANGED <<rule, coll, rules, colls, inEntry>>
  <2>1. IsVector(xml) /\ NestingInv /\ BelievedInv /\ StackInv
    BY <1>1 DEF ParserInv
  <2>2. /\ IsVector(xml') /\ NestingInv'
        /\ Range(xml') = IF e.empty THEN Range(xml) ELSE Range(xml) \cup {e.name}
    BY <1>1, <2>1, StartTag DEF FilterKindFromTag
  <2>3. OpenTags(xml') = OpenTags(xml) /\ \A k \in OpenTags(xml) : xml'[k] = xml[k]
    BY <1>1, <2>1, OtherStartTag DEF FilterKindFromTag
  <2>4. /\ IsStack(stack') /\ DOMAIN stack' = DOMAIN stack
        /\ \A n \in DOMAIN stack : stack'[n].kind = stack[n].kind
    BY <1>3, <2>1, AppendKeeps DEF StackInv, IsStack
  <2>5. StackInv'
    BY <2>1, <2>3, <2>4, StackKept
  <2>6. BelievedInv'
    BY <1>1, <1>3, <2>1, <2>2 DEF BelievedInv
  <2> QED BY <2>2, <2>5, <2>6 DEF ParserInv
<1> QED BY <1>2, <1>3 DEF FilterLeaf, document

\* <and>, <or>, <xor> and <not>, empty or not, preserve the invariant.
LEMMA FilterCombinatorInv ==
  ASSUME ParserInv, NEW e, FilterCombinator(e)
  PROVE  ParserInv'
<1>1. Reads(e) /\ status = "reading" /\ e.name \in FilterKindFromTag
  BY DEF FilterCombinator, Inside, Reads
<1>2. CASE Fails("combinator outside") \/ Fails("too deep")
  BY <1>2, FailsInv
<1>3. CASE /\ rule # 0
           /\ IF e.empty
              THEN AppendNode(stack, roots, Combinator(e.name, tags', << >>))
              ELSE stack' = Append(stack, Combinator(e.name, tags', << >>)) /\ roots' = roots
           /\ UNCHANGED <<rule, coll, rules, colls, inEntry>>
  <2>1. IsVector(xml) /\ NestingInv /\ BelievedInv /\ StackInv
    BY <1>1 DEF ParserInv
  <2>2. "rule" \in Range(xml) /\ e.name # "rule" /\ e.name # "entry"
    BY <1>1, <1>3, <2>1 DEF BelievedInv, FilterKindFromTag
  <2>3. /\ IsVector(xml') /\ NestingInv'
        /\ Range(xml') = IF e.empty THEN Range(xml) ELSE Range(xml) \cup {e.name}
    BY <1>1, <2>1, <2>2, StartTag
  <2>4. BelievedInv'
    BY <1>3, <2>1, <2>2, <2>3 DEF BelievedInv
  <2>5. CASE e.empty
    <3>1. OpenTags(xml') = OpenTags(xml) /\ \A k \in OpenTags(xml) : xml'[k] = xml[k]
      BY <1>1, <2>1, <2>5, OtherStartTag
    <3>2. /\ IsStack(stack') /\ DOMAIN stack' = DOMAIN stack
          /\ \A n \in DOMAIN stack : stack'[n].kind = stack[n].kind
      BY <1>3, <2>1, <2>5, AppendKeeps DEF StackInv, IsStack
    <3>3. StackInv'
      BY <2>1, <3>1, <3>2, StackKept
    <3> QED BY <2>3, <2>4, <3>3 DEF ParserInv
  <2>6. CASE ~e.empty
    <3> DEFINE node == Combinator(e.name, tags', << >>)
    <3>1. IsNode(node) /\ node.kind = e.name
      BY DEF IsNode, Combinator
    <3> HIDE DEF node
    <3>2. xml' = Append(xml, e.name) /\ stack' = Append(stack, node)
      BY <1>1, <1>3, <2>6 DEF Reads, node
    <3>3. IsVector(stack) /\ Agrees(xml, stack)
      BY <2>1, AgreesIsStackAgrees DEF StackInv
    <3>4. Agrees(xml', stack')
      BY <1>1, <2>1, <3>1, <3>2, <3>3, AgreesPush
    <3>5. IsVector(stack')
      BY <3>2, <3>3, VectorAppend
    <3>6. /\ \A k \in DOMAIN stack : stack'[k] = stack[k]
          /\ \A k \in DOMAIN stack' : k \in DOMAIN stack \/ stack'[k] = node
      BY <3>2, <3>3, DomainAppend
    <3>7. \A k \in DOMAIN stack' : IsNode(stack'[k])
      BY <2>1, <3>1, <3>6 DEF StackInv
    <3>8. StackInv'
      BY <3>4, <3>5, <3>7, AgreesIsStackAgrees DEF StackInv
    <3> QED BY <2>3, <2>4, <3>8 DEF ParserInv
  <2> QED BY <2>5, <2>6
<1> QED BY <1>2, <1>3 DEF FilterCombinator, document

--------------------------------------------------------------------------------
\* The end of a combinator preserves the invariant.
LEMMA EndCombinatorInv ==
  ASSUME ParserInv, EndCombinator
  PROVE  ParserInv'
<1>1. /\ status = "reading" /\ xml # << >> /\ Last(xml) \in FilterKindFromTag /\ xml' = Front(xml)
      /\ UNCHANGED <<rule, coll, inEntry, rules, colls>>
  BY DEF EndCombinator, Ends, document
<1>2. IsVector(xml) /\ NestingInv /\ BelievedInv /\ StackInv
  BY <1>1 DEF ParserInv
<1>3. IsVector(stack) /\ Agrees(xml, stack)
  BY <1>2, AgreesIsStackAgrees DEF StackInv
<1>4. stack # << >> /\ Agrees(Front(xml), Front(stack))
  BY <1>1, <1>2, <1>3, AgreesPop
<1>5. AppendNode(Front(stack), roots, Last(stack))
  BY <1>4 DEF EndCombinator
<1>6. IsStack(Front(stack))
  BY <1>2, <1>3, <1>4, FrontProperties DEF StackInv, IsStack
<1>7. /\ IsStack(stack') /\ DOMAIN stack' = DOMAIN Front(stack)
      /\ \A n \in DOMAIN Front(stack) : stack'[n].kind = Front(stack)[n].kind
  BY <1>5, <1>6, AppendKeeps
<1>8. Agrees(xml', stack')
  BY <1>1, <1>4, <1>7, AgreesSame
<1>9. StackInv'
  BY <1>7, <1>8, AgreesIsStackAgrees DEF StackInv, IsStack
<1>10. /\ IsVector(xml') /\ NestingInv' /\ Range(xml') \subseteq Range(xml)
       /\ \A tag \in Range(xml) : tag # Last(xml) => tag \in Range(xml')
  BY <1>1, <1>2, PopInv
<1>11. Last(xml) # "rule" /\ Last(xml) # "entry"
  BY <1>1 DEF FilterKindFromTag
<1>12. BelievedInv'
  BY <1>1, <1>2, <1>10, <1>11 DEF BelievedInv
<1> QED BY <1>9, <1>10, <1>12 DEF ParserInv

\* An end tag that moves neither the rules nor the stack.
LEMMA PlainEndInv ==
  ASSUME ParserInv, status = "reading", xml # << >>, xml' = Front(xml),
         Last(xml) \notin FilterKindFromTag, UNCHANGED stack,
         rule' = IF Last(xml) = "rule" THEN 0 ELSE rule,
         IsVector(rules'), Len(rules') = Len(rules), IsVector(colls'),
         coll' \in {0, Len(colls')}, inEntry' => inEntry /\ Last(xml) # "entry"
  PROVE  ParserInv'
<1>1. IsVector(xml) /\ NestingInv /\ BelievedInv /\ StackInv
  BY DEF ParserInv
<1>2. /\ IsVector(xml') /\ NestingInv' /\ Range(xml') \subseteq Range(xml)
      /\ \A tag \in Range(xml) : tag # Last(xml) => tag \in Range(xml')
      /\ Last(xml) = "rule" => "rule" \notin Range(xml')
  BY <1>1, PopInv
<1>3. OpenTags(xml') = OpenTags(xml) /\ \A k \in OpenTags(xml) : xml'[k] = xml[k]
  BY <1>1, OtherEndTag
<1>4. StackInv'
  BY <1>1, <1>3, StackKept DEF StackInv, IsStack
<1>5. BelievedInv'
  BY <1>1, <1>2 DEF BelievedInv
<1> QED BY <1>2, <1>4, <1>5 DEF ParserInv

\* The end of a rule preserves the invariant.
LEMMA EndRuleInv ==
  ASSUME ParserInv, EndRule
  PROVE  ParserInv'
<1>1. /\ status = "reading" /\ xml # << >> /\ Last(xml) = "rule" /\ xml' = Front(xml)
      /\ rules' = IF rule # 0 THEN [rules EXCEPT ![rule].filter = FinalizeRule(roots)] ELSE rules
      /\ rule' = 0 /\ UNCHANGED <<coll, inEntry, stack, colls>>
  BY DEF EndRule, Ends
<1>2. IsVector(colls) /\ IsVector(rules) /\ coll \in {0, Len(colls)}
  BY <1>1 DEF ParserInv, BelievedInv
<1>3. IsVector(rules') /\ Len(rules') = Len(rules)
  BY <1>1, <1>2, ExceptVector
<1> QED BY <1>1, <1>2, <1>3, PlainEndInv DEF FilterKindFromTag

\* The end of an entry preserves the invariant.
LEMMA EndEntryInv ==
  ASSUME ParserInv, EndEntry
  PROVE  ParserInv'
<1>1. /\ status = "reading" /\ xml # << >> /\ Last(xml) = "entry" /\ xml' = Front(xml)
      /\ colls' = IF coll # 0 /\ inEntry
                  THEN [colls EXCEPT ![coll].entries = Append(@, entryText)] ELSE colls
      /\ inEntry' = FALSE /\ UNCHANGED <<rule, coll, stack, rules>>
  BY DEF EndEntry, Ends
<1>2. IsVector(colls) /\ IsVector(rules) /\ coll \in {0, Len(colls)}
  BY <1>1 DEF ParserInv, BelievedInv
<1>3. IsVector(colls') /\ Len(colls') = Len(colls)
  BY <1>1, <1>2, ExceptVector
<1> QED BY <1>1, <1>2, <1>3, PlainEndInv DEF FilterKindFromTag

\* The end of any other element preserves the invariant.
LEMMA EndOtherInv ==
  ASSUME ParserInv, EndOther
  PROVE  ParserInv'
<1>1. /\ status = "reading" /\ xml # << >> /\ xml' = Front(xml)
      /\ Last(xml) \in {"collection", "esptool", "collections", "other", "client", "query", "filter"}
      /\ coll' = IF Last(xml) = "collection" THEN 0 ELSE coll
      /\ UNCHANGED <<rule, inEntry, stack, rules, colls>>
  BY DEF EndOther, Ends, document
<1>2. IsVector(colls) /\ IsVector(rules) /\ coll \in {0, Len(colls)}
  BY <1>1 DEF ParserInv, BelievedInv
<1>3. /\ Last(xml) \notin FilterKindFromTag /\ Last(xml) # "rule" /\ Last(xml) # "entry"
  BY <1>1 DEF FilterKindFromTag
<1>4. coll' \in {0, Len(colls')}
  BY <1>1, <1>2
<1> QED BY <1>1, <1>2, <1>3, <1>4, PlainEndInv

\* Every step of the parser preserves the invariant.
LEMMA ParserStep ==
  ASSUME ParserInv, [ParserNext]_parserVars
  PROVE  ParserInv'
<1>1. ASSUME NEW e \in Elements, Element(e) PROVE ParserInv'
  BY <1>1, RootTagInv, ClientTagInv, RuleTagInv, IgnoredTagInv, CollectionTagInv, EntryTagInv, QueryTagInv,
     FilterLeafInv, FilterCombinatorInv DEF Element
<1>2. CASE \/ \E type \in CharacterData, value \in BOOLEAN : Text(type, value)
           \/ UNCHANGED parserVars
  <2>1. UNCHANGED <<xml, status, rule, coll, inEntry, stack, rules, colls>>
    BY <1>2 DEF Text, parserVars, document
  <2> QED BY <2>1 DEF ParserInv, NestingInv, BelievedInv, StackInv, StackAgrees
<1>3. CASE ReadStops(TRUE) \/ ReadStops(FALSE) \/ Unreadable
  BY <1>3 DEF ReadStops, Unreadable, ParserInv
<1> QED
  BY <1>1, <1>2, <1>3, EndCombinatorInv, EndRuleInv, EndEntryInv, EndOtherInv DEF ParserNext

\* The parser invariant holds while any document is read, of any length and
\* depth.
THEOREM ParserInvariant == ParserSpec => []ParserInv
<1>1. ParserInit => ParserInv
  <2> SUFFICES ASSUME ParserInit PROVE ParserInv
    OBVIOUS
  <2>1. /\ xml = << >> /\ rule = 0 /\ coll = 0 /\ inEntry = FALSE /\ stack = << >>
        /\ rules = << >> /\ colls = << >>
    BY DEF ParserInit
  <2>2. DOMAIN xml = {} /\ DOMAIN stack = {} /\ Range(xml) = {}
    BY <2>1 DEF Range
  <2>3. IsVector(xml) /\ IsVector(stack) /\ IsVector(rules) /\ IsVector(colls)
    BY <2>1 DEF IsVector
  <2>4. NestingInv /\ BelievedInv
    BY <2>1, <2>2, <2>3 DEF NestingInv, BelievedInv
  <2> DEFINE at == [n \in DOMAIN stack |-> 0]
  <2>5. OpenTags(xml) = {}
    BY <2>2 DEF OpenTags
  <2>6. at \in [DOMAIN stack -> OpenTags(xml)] /\ Range(at) = OpenTags(xml)
    BY <2>2, <2>5 DEF Range
  <2>7. Agrees(xml, stack)
    BY <2>2, <2>6 DEF Agrees
  <2> QED BY <2>2, <2>3, <2>4, <2>7, AgreesIsStackAgrees DEF ParserInv, StackInv
<1> QED BY <1>1, ParserStep, PTL DEF ParserSpec

\* The parser's own idea of where it is (current_rule, the stack of open
\* combinators, in_entry) is the reader's position, whatever elements are
\* nested in whatever order and whichever of them are empty.
THEOREM ReaderAlwaysAgrees == ParserSpec => []ReaderAgrees
<1>1. ParserInv => ReaderAgrees
  BY DEF ParserInv, BelievedInv, StackInv, ReaderAgrees
<1> QED BY <1>1, ParserInvariant, PTL

\* A power of two is a number: it counts the subsets of a set.
LEMMA PowerOfTwo ==
  ASSUME NEW n \in Nat
  PROVE  2^n \in Nat
<1>1. IsFiniteSet(1..n) /\ Cardinality(1..n) = n
  <2>1. 1 \in Int /\ n \in Int /\ n - 1 + 1 = n /\ (1 > n => n = 0)
    OBVIOUS
  <2>2. IsFiniteSet(1..n) /\ Cardinality(1..n) = IF 1 > n THEN 0 ELSE n - 1 + 1
    BY <2>1, FS_Interval
  <2> QED BY <2>1, <2>2
<1>2. IsFiniteSet(SUBSET (1..n)) /\ Cardinality(SUBSET (1..n)) = 2^n
  BY <1>1, FS_SUBSET
<1> QED BY <1>2, FS_CardinalityType

\* ParseSigned32 refuses a leaf's number only when the type of Bits bits does
\* not hold it: the least negative number is accepted.
THEOREM RefusedOnlyOutOfRange == ParserSpec => RefusedOutOfRange
<1>1. ASSUME [ParserNext]_parserVars,
             NEW e \in Elements, e.name = "filter", rule # 0, FilterLeaf(e), status' = "filter",
             {e.attr.comparand, e.attr.operand, e.attr.property} = {"none"}
      PROVE  (IF e.attr.neg THEN 0 - e.attr.type ELSE e.attr.type)
                \notin -(2^(Bits - 1)) .. (2^(Bits - 1) - 1)
  <2>1. e.attr.comparand = "none" /\ e.attr.operand = "none" /\ e.attr.property = "none"
    BY <1>1
  <2>2. ~ParseLeafAttributes(e.attr, tags').ok
    <3>1. status = "reading"
      BY <1>1 DEF FilterLeaf, Inside, Reads
    <3> QED BY <1>1, <3>1 DEF FilterLeaf, Fails
  <2>3. ~ParseSigned32(e.attr.neg, e.attr.type).ok
    BY <2>1, <2>2 DEF ParseLeafAttributes
  <2> DEFINE h == 2^(Bits - 1)
             t == e.attr.type
  <2>4. h \in Nat /\ t \in Nat
    <3>1. Bits - 1 \in Nat
      BY BitsAssumption
    <3>2. 2^(Bits - 1) \in Nat
      BY <3>1, PowerOfTwo
    <3> QED BY <1>1, <3>2, ElementsAssumption DEF UnsignedTypes
  <2>5. IF e.attr.neg THEN ~(t <= h) ELSE ~(t < h)
    BY <2>3 DEF ParseSigned32
  <2> HIDE DEF h, t
  <2>6. (IF e.attr.neg THEN 0 - t ELSE t) \notin -h .. (h - 1)
    BY <2>4, <2>5
  <2> QED BY <2>6 DEF h, t
<1>2. [ParserNext]_parserVars =>
        [\A e \in Elements :
           /\ e.name = "filter" /\ rule # 0 /\ FilterLeaf(e) /\ status' = "filter"
           /\ {e.attr.comparand, e.attr.operand, e.attr.property} = {"none"}
           => (IF e.attr.neg THEN 0 - e.attr.type ELSE e.attr.type)
                 \notin -(2^(Bits - 1)) .. (2^(Bits - 1) - 1)]_parserVars
  BY <1>1
<1> QED BY <1>2, PTL DEF ParserSpec, RefusedOutOfRange

--------------------------------------------------------------------------------
(***************************************************************************)
(* Filters.  FiltersOwned speaks of the moments between rules; in between  *)
(* the handles that local variables of the recursion hold have to be       *)
(* accounted for.  Those are the node just built and the first children of *)
(* the combinators on the path whose second child is being built.          *)
(***************************************************************************)
\* CreateFilterTree is at a node.
Walking == stage \in {"visit", "built", "failed"}

\* The first children of the combinators whose second child is being built.
Lefts(p) == {Append(SubSeq(p, 1, j - 1), 1) : j \in {k \in 1..Len(p) : p[k] = 2}}

\* The nodes whose handle a local variable holds.
Held == IF Walking THEN Lefts(path) \cup (IF stage = "built" THEN {path} ELSE {}) ELSE {}

\* A second child is visited only under a combinator, and a combinator on the
\* way has two.
TreeStep(t, p, x) ==
  /\ x \in {1, 2} /\ Append(p, x) \in DOMAIN t
  /\ x = 2 => t[p].kind \in Combinators
  /\ t[p].kind \in Combinators => Append(p, 2) \in DOMAIN t
OnTheWay(t, p) == \A j \in 1..Len(p) : TreeStep(t, SubSeq(p, 1, j - 1), p[j])

\* The walk is inside the tree of the rule in hand.
WalkInv ==
  /\ Walking => i <= Len(docRules) /\ path \in Seq(Nat) /\ path \in DOMAIN tree /\ OnTheWay(tree, path)
  /\ stage = "attach" => i <= Len(docRules) /\ path = <<>>

\* Types.
FilterTyped ==
  /\ lacking \subseteq Exports /\ docRules \in RuleDocuments /\ i \in 1..(Len(docRules) + 1)
  /\ stage \in {"rule", "visit", "built", "failed", "attach"} \cup Disconnecting
  /\ Range(built) \subseteq FilterHandles
  /\ handle \in [FilterHandles -> {"none", "open", "closed", "closed twice"}]
  /\ parts \in [FilterHandles -> SUBSET FilterHandles]
  /\ filters \in Seq(FilterHandles)
  /\ \A r \in created : r.rule \in 1..Len(docRules)

\* Handles that only left, right and child hold.
LocalHandles == {built[q] : q \in Held}

\* Each local variable holds an open handle of its own, not yet in filters_.
HeldInv ==
  /\ Held \subseteq DOMAIN built
  /\ \A q \in Held : built[q] \in OpenFilters \ Range(filters)
  /\ \A q, r \in Held : built[q] = built[r] => q = r

\* Every open handle is in filters_ or in one local variable.
OwnedInv ==
  /\ Range(filters) \subseteq OpenFilters
  /\ \A j, k \in 1..Len(filters) : filters[j] = filters[k] => j = k
  /\ lacking = {} => OpenFilters \subseteq Range(filters) \cup LocalHandles
  /\ \A h \in FilterHandles : handle[h] # "closed twice"

\* What rules and combined filters refer to stays in filters_ until Disconnect.
LiveInv ==
  /\ RuleFiltersLive
  /\ stage = "attach" /\ <<>> \in DOMAIN built => built[<<>>] \in Range(filters)
  /\ stage \notin Disconnecting => \A h \in FilterHandles : parts[h] \subseteq Range(filters)
  /\ stage \in Disconnecting \ {"closing"} => created = {}
  /\ stage = "closing" => \A r \in created : Range(r.slots) \subseteq FilterHandles

FilterInv == FilterTyped /\ WalkInv /\ HeldInv /\ OwnedInv /\ LiveInv

\* The stages are told apart everywhere below.
USE DEF Disconnecting
--------------------------------------------------------------------------------
\* Going down one child and back.
LEMMA ParentAppend ==
  ASSUME NEW p \in Seq(Nat), NEW x \in Nat
  PROVE  /\ Append(p, x) \in Seq(Nat) /\ Append(p, x) # <<>>
         /\ Len(Append(p, x)) = Len(p) + 1 /\ Append(p, x)[Len(p) + 1] = x
         /\ Parent(Append(p, x)) = p
         /\ \A j \in 1..(Len(p) + 1) : SubSeq(Append(p, x), 1, j - 1) = SubSeq(p, 1, j - 1)
<1>1. /\ Append(p, x) \in Seq(Nat) /\ Len(Append(p, x)) = Len(p) + 1
      /\ Append(p, x)[Len(p) + 1] = x
      /\ \A k \in 1..Len(p) : Append(p, x)[k] = p[k]
  OBVIOUS
<1>2. SubSeq(Append(p, x), 1, Len(p)) = p
  BY <1>1
<1>3. ASSUME NEW j \in 1..(Len(p) + 1)
      PROVE  SubSeq(Append(p, x), 1, j - 1) = SubSeq(p, 1, j - 1)
  BY <1>1
<1> QED BY <1>1, <1>2, <1>3 DEF Parent

\* A path below the root is its parent and a child.
LEMMA SplitPath ==
  ASSUME NEW p \in Seq(Nat), p # <<>>
  PROVE  Parent(p) \in Seq(Nat) /\ p[Len(p)] \in Nat /\ p = Append(Parent(p), p[Len(p)])
<1>1. Len(p) \in Nat /\ Len(p) > 0 /\ p[Len(p)] \in Nat
  OBVIOUS
<1>2. /\ Parent(p) \in Seq(Nat) /\ Len(Parent(p)) = Len(p) - 1
      /\ \A k \in 1..(Len(p) - 1) : Parent(p)[k] = p[k]
  <2> DEFINE n == Len(p)
             q == SubSeq(p, 1, n - 1)
  <2>1. /\ q \in Seq(Nat)
        /\ Len(q) = IF 1 <= n - 1 THEN n - 1 - 1 + 1 ELSE 0
        /\ \A k \in 1..(n - 1 - 1 + 1) : q[k] = p[1 + k - 1]
    BY <1>1, SubSeqProperties
  <2>2. n \in Nat /\ n > 0 /\ Parent(p) = q
    BY <1>1 DEF Parent
  <2> HIDE DEF n, q
  <2>3. Len(q) = n - 1
    BY <2>1, <2>2
  <2>4. ASSUME NEW k \in 1..(n - 1) PROVE q[k] = p[k]
    <3>1. k \in 1..(n - 1 - 1 + 1) /\ 1 + k - 1 = k
      BY <2>2
    <3> QED BY <2>1, <3>1
  <2> QED BY <2>1, <2>2, <2>3, <2>4 DEF n
<1>4. /\ Append(Parent(p), p[Len(p)]) \in Seq(Nat) /\ Len(Append(Parent(p), p[Len(p)])) = Len(p)
      /\ \A k \in 1..Len(p) : Append(Parent(p), p[Len(p)])[k] = p[k]
  BY <1>1, <1>2
<1> QED BY <1>1, <1>2, <1>4

\* Going down to a second child adds its sibling to the handles held.
LEMMA LeftsAppend ==
  ASSUME NEW p \in Seq(Nat), NEW x \in Nat
  PROVE  Lefts(Append(p, x)) = Lefts(p) \cup (IF x = 2 THEN {Append(p, 1)} ELSE {})
<1> DEFINE pp == Append(p, x)
<1>1. /\ Len(p) \in Nat /\ Len(pp) = Len(p) + 1 /\ pp[Len(p) + 1] = x
      /\ \A k \in 1..Len(p) : pp[k] = p[k]
  OBVIOUS
<1>2. \A j \in 1..(Len(p) + 1) : SubSeq(pp, 1, j - 1) = SubSeq(p, 1, j - 1)
  BY ParentAppend
<1>3. SubSeq(pp, 1, Len(p) + 1 - 1) = p
  BY <1>1, <1>2
<1> HIDE DEF pp
<1>4. {k \in 1..Len(pp) : pp[k] = 2}
        = {k \in 1..Len(p) : p[k] = 2} \cup (IF x = 2 THEN {Len(p) + 1} ELSE {})
  BY <1>1
<1>5. \A j \in 1..Len(p) : Append(SubSeq(pp, 1, j - 1), 1) = Append(SubSeq(p, 1, j - 1), 1)
  BY <1>1, <1>2
<1>6. Append(SubSeq(pp, 1, Len(p) + 1 - 1), 1) = Append(p, 1)
  BY <1>3
<1>7. Lefts(pp) \subseteq Lefts(p) \cup (IF x = 2 THEN {Append(p, 1)} ELSE {})
  BY <1>1, <1>4, <1>5, <1>6 DEF Lefts
<1>8. Lefts(p) \subseteq Lefts(pp)
  BY <1>1, <1>4, <1>5 DEF Lefts
<1>9. x = 2 => Append(p, 1) \in Lefts(pp)
  BY <1>1, <1>4, <1>6 DEF Lefts
<1> QED BY <1>7, <1>8, <1>9 DEF pp

\* The same for the first and the second child.
LEMMA LeftsOfChildren ==
  ASSUME NEW p \in Seq(Nat)
  PROVE  Lefts(Append(p, 1)) = Lefts(p) /\ Lefts(Append(p, 2)) = Lefts(p) \cup {Append(p, 1)}
<1>1. \A x \in Nat : Lefts(Append(p, x)) = Lefts(p) \cup (IF x = 2 THEN {Append(p, 1)} ELSE {})
  BY LeftsAppend
<1>2. Lefts(Append(p, 1)) = Lefts(p) \cup (IF 1 = 2 THEN {Append(p, 1)} ELSE {})
  BY <1>1
<1>3. Lefts(Append(p, 2)) = Lefts(p) \cup (IF 2 = 2 THEN {Append(p, 1)} ELSE {})
  BY <1>1
<1> QED BY <1>2, <1>3

\* At the root no combinator waits for its second child.
LEMMA LeftsEmpty == Lefts(<<>>) = {}
BY DEF Lefts

\* The node in hand is not among the siblings held.
LEMMA NotLeft ==
  ASSUME NEW p \in Seq(Nat)
  PROVE  p \notin Lefts(p)
<1> SUFFICES ASSUME NEW j \in 1..Len(p), p[j] = 2, p = Append(SubSeq(p, 1, j - 1), 1)
             PROVE  FALSE
  BY DEF Lefts
<1>1. SubSeq(p, 1, j - 1) \in Seq(Nat) /\ Len(SubSeq(p, 1, j - 1)) = j - 1
  OBVIOUS
<1>2. p[j] = 1
  BY <1>1
<1> QED BY <1>2

\* A walk one node longer.
LEMMA OnTheWayAppend ==
  ASSUME NEW t, NEW p \in Seq(Nat), NEW x \in Nat
  PROVE  OnTheWay(t, Append(p, x)) <=> OnTheWay(t, p) /\ TreeStep(t, p, x)
<1> DEFINE pp == Append(p, x)
<1>1. /\ Len(p) \in Nat /\ Len(pp) = Len(p) + 1 /\ pp[Len(p) + 1] = x
      /\ \A k \in 1..Len(p) : pp[k] = p[k]
  OBVIOUS
<1>2. \A j \in 1..(Len(p) + 1) : SubSeq(pp, 1, j - 1) = SubSeq(p, 1, j - 1)
  BY ParentAppend
<1>3. SubSeq(pp, 1, Len(p) + 1 - 1) = p
  BY <1>1, <1>2
<1> HIDE DEF pp
<1>4. 1..Len(pp) = 1..Len(p) \cup {Len(p) + 1}
  BY <1>1
<1> DEFINE Q(j) == TreeStep(t, SubSeq(pp, 1, j - 1), pp[j])
<1>a. (\A j \in 1..Len(pp) : Q(j)) <=> (\A j \in 1..Len(p) : Q(j)) /\ Q(Len(p) + 1)
  <2> HIDE DEF Q
  <2> QED BY <1>4
<1>5. OnTheWay(t, pp) <=> /\ \A j \in 1..Len(p) : TreeStep(t, SubSeq(pp, 1, j - 1), pp[j])
                          /\ TreeStep(t, SubSeq(pp, 1, Len(p) + 1 - 1), pp[Len(p) + 1])
  BY <1>a DEF OnTheWay
<1>6. \A j \in 1..Len(p) : TreeStep(t, SubSeq(pp, 1, j - 1), pp[j]) <=> TreeStep(t, SubSeq(p, 1, j - 1), p[j])
  <2> SUFFICES ASSUME NEW j \in 1..Len(p)
               PROVE  TreeStep(t, SubSeq(pp, 1, j - 1), pp[j]) <=> TreeStep(t, SubSeq(p, 1, j - 1), p[j])
    OBVIOUS
  <2>1. pp[j] = p[j] /\ SubSeq(pp, 1, j - 1) = SubSeq(p, 1, j - 1)
    BY <1>1, <1>2
  <2> QED BY <2>1
<1> QED BY <1>1, <1>3, <1>5, <1>6 DEF OnTheWay, pp

\* A node with children has a first one, with two a second.
LEMMA FirstChildren ==
  ASSUME NEW t, IsTree(t), NEW p \in Seq(Nat)
  PROVE  /\ Cardinality(Children(t, p)) = 1 => Append(p, 1) \in DOMAIN t
         /\ Cardinality(Children(t, p)) >= 2 => {Append(p, 1), Append(p, 2)} \subseteq DOMAIN t
<1>1. ASSUME NEW q \in Children(t, p)
      PROVE  /\ q[Len(q)] \in Nat \ {0} /\ q = Append(p, q[Len(q)])
             /\ \A j \in 1..q[Len(q)] : Append(p, j) \in DOMAIN t
  <2>1. q \in Seq(Nat) /\ q # <<>> /\ q \in DOMAIN t /\ Parent(q) = p
    BY DEF Children, IsTree
  <2>2. q[Len(q)] \in Nat /\ q = Append(p, q[Len(q)])
    BY <2>1, SplitPath
  <2> QED BY <2>1, <2>2 DEF IsTree
<1>2. ASSUME Cardinality(Children(t, p)) = 1 PROVE Append(p, 1) \in DOMAIN t
  <2>1. Children(t, p) # {}
    <3>1. Cardinality({}) = 0
      BY FS_EmptySet
    <3>2. SUFFICES ASSUME Children(t, p) = {} PROVE FALSE
      OBVIOUS
    <3>3. Cardinality(Children(t, p)) = Cardinality({})
      BY <3>2, Zenon
    <3> QED BY <1>2, <3>1, <3>3
  <2>2. PICK q : q \in Children(t, p)
    BY <2>1
  <2>3. 1 \in 1..q[Len(q)]
    BY <1>1, <2>2
  <2> QED BY <1>1, <2>2, <2>3
<1>3. ASSUME Cardinality(Children(t, p)) >= 2
      PROVE  {Append(p, 1), Append(p, 2)} \subseteq DOMAIN t
  <2>1. \E q \in Children(t, p) : q # Append(p, 1)
    <3> SUFFICES ASSUME Children(t, p) \subseteq {Append(p, 1)} PROVE FALSE
      OBVIOUS
    <3>1. IsFiniteSet({Append(p, 1)}) /\ Cardinality({Append(p, 1)}) = 1
      BY FS_Singleton
    <3>2. Cardinality(Children(t, p)) <= 1
      BY <3>1, FS_Subset
    <3>3. Cardinality(Children(t, p)) \in Nat
      BY <3>1, FS_Subset, FS_CardinalityType
    <3> QED BY <1>3, <3>2, <3>3
  <2>2. PICK q \in Children(t, p) : q # Append(p, 1)
    BY <2>1
  <2>3. 1 \in 1..q[Len(q)] /\ 2 \in 1..q[Len(q)]
    BY <1>1, <2>2
  <2> QED BY <1>1, <2>2, <2>3
<1> QED BY <1>2, <1>3

\* Range of a sequence that grew.
LEMMA RangeAppend ==
  ASSUME NEW s \in Seq(FilterHandles), NEW h \in FilterHandles
  PROVE  Range(Append(s, h)) = Range(s) \cup {h}
<1>1. /\ Len(Append(s, h)) = Len(s) + 1 /\ Append(s, h)[Len(s) + 1] = h
      /\ \A k \in 1..Len(s) : Append(s, h)[k] = s[k]
      /\ DOMAIN s = 1..Len(s) /\ DOMAIN Append(s, h) = 1..(Len(s) + 1) /\ Len(s) \in Nat
  OBVIOUS
<1>2. Range(s) \cup {h} \subseteq Range(Append(s, h))
  BY <1>1 DEF Range
<1>3. Range(Append(s, h)) \subseteq Range(s) \cup {h}
  BY <1>1 DEF Range
<1> QED BY <1>2, <1>3

--------------------------------------------------------------------------------
\* FilterBuild counts as this module does.
\* The invariant holds before the first rule.
LEMMA FilterInvInit ==
  ASSUME WellFormedTrees
  PROVE  FilterInit => FilterInv
<1> SUFFICES ASSUME FilterInit PROVE FilterInv
  OBVIOUS
<1>1. Range(<<>>) = {} /\ Held = {} /\ OpenFilters = {}
  BY DEF Range, Held, Walking, OpenFilters, FilterInit
<1>2. FilterTyped
  BY <1>1 DEF FilterTyped, FilterInit, WellFormedTrees
<1>3. WalkInv /\ HeldInv
  BY <1>1 DEF WalkInv, HeldInv, Walking, FilterInit
<1>4. OwnedInv /\ LiveInv
  BY <1>1 DEF OwnedInv, LiveInv, RuleFiltersLive, FilterInit
<1> QED BY <1>2, <1>3, <1>4 DEF FilterInv

\* The tree of the rule in hand.
LEMMA TreeOfRule ==
  ASSUME WellFormedTrees, FilterTyped, i <= Len(docRules)
  PROVE  IsTree(tree) /\ <<>> \in DOMAIN tree
<1>1. docRules \in RuleDocuments /\ i \in 1..(Len(docRules) + 1)
  BY DEF FilterTyped
<1>2. Len(docRules) \in Nat /\ \A k \in 1..Len(docRules) : IsTree(docRules[k].tree)
  BY <1>1 DEF WellFormedTrees
<1>3. i \in 1..Len(docRules)
  BY <1>1, <1>2
<1> QED BY <1>2, <1>3 DEF tree, IsTree

\* Starting a rule's filter preserves the invariant.
LEMMA StartRuleInv ==
  ASSUME WellFormedTrees, FilterInv, StartRule
  PROVE  FilterInv'
<1> USE DEF FilterInv
<1>1. /\ UNCHANGED <<lacking, docRules, i, handle, parts, filters, refused, created>>
      /\ stage = "rule" /\ stage' \in {"attach", "visit"} /\ i <= Len(docRules) /\ path' = <<>> /\ built' = <<>>
  BY DEF StartRule
<1>2. Held = {} /\ Held' = {} /\ OpenFilters' = OpenFilters /\ Range(built') = {}
  BY <1>1, LeftsEmpty DEF Held, Walking, OpenFilters, Range
<1>3. FilterTyped'
  BY <1>1, <1>2 DEF FilterTyped
<1>4. WalkInv'
  BY <1>1, TreeOfRule DEF WalkInv, Walking, OnTheWay, tree
<1>5. HeldInv' /\ OwnedInv'
  BY <1>1, <1>2 DEF HeldInv, OwnedInv, LocalHandles
<1>6. LiveInv'
  <2>1. RuleFiltersLive'
    BY <1>1, <1>2 DEF LiveInv, RuleFiltersLive
  <2>2. ~(<<>> \in DOMAIN built')
    BY <1>1
  <2>3. stage' \notin Disconnecting /\ \A h \in FilterHandles : parts'[h] \subseteq Range(filters')
    BY <1>1 DEF LiveInv
  <2> QED BY <2>1, <2>2, <2>3 DEF LiveInv
<1> QED BY <1>3, <1>4, <1>5, <1>6

\* A walk that ends in a failure at the node in hand, changing no handle.
LEMMA NodeFailedInv ==
  ASSUME FilterInv, stage = "visit", stage' = "failed",
         UNCHANGED <<lacking, docRules, i, path, built, handle, parts, filters, created>>
  PROVE  FilterInv'
<1> USE DEF FilterInv
<1>1. Held' = Held /\ OpenFilters' = OpenFilters
  BY DEF Held, Walking, OpenFilters
<1>2. FilterTyped'
  BY DEF FilterTyped
<1>3. WalkInv'
  BY DEF WalkInv, Walking, tree
<1>4. HeldInv' /\ OwnedInv'
  BY <1>1 DEF HeldInv, OwnedInv, LocalHandles
<1>5. LiveInv'
  BY <1>1 DEF LiveInv, RuleFiltersLive
<1> QED BY <1>2, <1>3, <1>4, <1>5

\* A fresh handle is not open, so neither filters_ nor a local holds it.
LEMMA FreshIsNew ==
  ASSUME FilterInv, NEW h \in Fresh, Open(h)
  PROVE  /\ h \in FilterHandles /\ h \notin OpenFilters
         /\ OpenFilters' = OpenFilters \cup {h}
         /\ handle' \in [FilterHandles -> {"none", "open", "closed", "closed twice"}]
         /\ \A g \in FilterHandles : handle'[g] # "closed twice"
<1>1. h \in FilterHandles /\ handle[h] = "none"
  <2> DEFINE new == {g \in FilterHandles : handle[g] = "none"}
  <2>1. new # {} /\ h = CHOOSE g \in new : TRUE
    BY DEF Fresh
  <2>2. h \in new
    BY <2>1
  <2> QED BY <2>2
<1>2. /\ handle \in [FilterHandles -> {"none", "open", "closed", "closed twice"}]
      /\ \A g \in FilterHandles : handle[g] # "closed twice"
  BY DEF FilterInv, FilterTyped, OwnedInv
<1>3. handle' = [handle EXCEPT ![h] = "open"]
  BY DEF Open
<1>4. /\ handle' \in [FilterHandles -> {"none", "open", "closed", "closed twice"}]
      /\ \A g \in FilterHandles : handle'[g] = IF g = h THEN "open" ELSE handle[g]
  BY <1>1, <1>2, <1>3
<1>5. OpenFilters' = OpenFilters \cup {h} /\ h \notin OpenFilters
  BY <1>1, <1>4 DEF OpenFilters
<1>6. \A g \in FilterHandles : handle'[g] # "closed twice"
  BY <1>2, <1>4
<1> QED BY <1>1, <1>4, <1>5, <1>6

\* Creating a leaf, created or refused, preserves the invariant.
LEMMA CreateLeafInv ==
  ASSUME FilterInv, CreateLeafFilter
  PROVE  FilterInv'
<1> USE DEF FilterInv
<1>1. stage = "visit" /\ UNCHANGED <<lacking, docRules, i, path, parts, filters, created>>
  BY DEF CreateLeafFilter
<1>2. CASE stage' = "failed" /\ UNCHANGED <<built, handle>>
  BY <1>1, <1>2, NodeFailedInv
<1>3. CASE stage' = "built" /\ \E h \in Fresh : Open(h) /\ Bind(path, h)
  <2>1. PICK h \in Fresh : Open(h) /\ Bind(path, h)
    BY <1>3
  <2>2. path \in Seq(Nat) /\ path \notin Lefts(path)
    BY <1>1, NotLeft DEF WalkInv, Walking
  <2>3. Held = Lefts(path) /\ Held' = Lefts(path) \cup {path}
    BY <1>1, <1>3 DEF Held, Walking
  <2>4. /\ DOMAIN built' = DOMAIN built \cup {path} /\ built'[path] = h
        /\ \A q \in Held : built'[q] = built[q]
        /\ \A q \in DOMAIN built' : built'[q] \in Range(built) \cup {h}
    BY <2>1, <2>2, <2>3 DEF Bind, HeldInv, Range
  <2>a. /\ h \in FilterHandles /\ h \notin OpenFilters
        /\ OpenFilters' = OpenFilters \cup {h}
        /\ handle' \in [FilterHandles -> {"none", "open", "closed", "closed twice"}]
        /\ \A g \in FilterHandles : handle'[g] # "closed twice"
    BY <2>1, FreshIsNew
  <2>b. Range(built') \subseteq FilterHandles
    BY <2>4, <2>a DEF FilterTyped, Range
  <2>5. FilterTyped'
    BY <1>1, <1>3, <2>a, <2>b DEF FilterTyped
  <2>6. WalkInv'
    BY <1>1, <1>3 DEF WalkInv, Walking, tree
  <2>7. HeldInv'
    <3>1. Held' \subseteq DOMAIN built'
      BY <2>3, <2>4 DEF HeldInv
    <3>2. \A q \in Held' : built'[q] \in OpenFilters' \ Range(filters')
      BY <1>1, <2>3, <2>4, <2>a DEF HeldInv, OwnedInv
    <3>3. \A q, r \in Held' : built'[q] = built'[r] => q = r
      BY <2>3, <2>4, <2>a DEF HeldInv
    <3> QED BY <3>1, <3>2, <3>3 DEF HeldInv
  <2>8. OwnedInv'
    <3>1. lacking' = {} => OpenFilters' \subseteq Range(filters') \cup LocalHandles'
      <4>1. LocalHandles \cup {h} \subseteq LocalHandles'
        BY <2>3, <2>4 DEF LocalHandles
      <4> QED BY <1>1, <2>a, <4>1 DEF OwnedInv
    <3> QED BY <1>1, <2>a, <3>1 DEF OwnedInv
  <2>9. LiveInv'
    BY <1>1, <1>3, <2>1, FreshIsNew DEF LiveInv, RuleFiltersLive
  <2> QED BY <2>5, <2>6, <2>7, <2>8, <2>9
<1> QED BY <1>2, <1>3 DEF CreateLeafFilter

\* Going down to a first child preserves the invariant.
LEMMA VisitChildrenInv ==
  ASSUME WellFormedTrees, FilterInv, VisitChildren
  PROVE  FilterInv'
<1> USE DEF FilterInv
<1>1. stage = "visit" /\ UNCHANGED <<lacking, docRules, i, built, handle, parts, filters, created>>
  BY DEF VisitChildren
<1>2. CASE stage' = "failed" /\ path' = path
  BY <1>1, <1>2, NodeFailedInv
<1>3. CASE /\ stage' = stage /\ path' = Append(path, 1)
           /\ LET n == Cardinality(Children(tree, path)) IN
                (n >= 2 /\ Node.kind \in Combinators) \/ (n = 1 /\ Node.kind = "not")
  <2>1. path \in Seq(Nat) /\ IsTree(tree) /\ tree' = tree
    BY <1>1, TreeOfRule DEF WalkInv, Walking, tree
  <2>2. TreeStep(tree, path, 1)
    <3>1. Append(path, 1) \in DOMAIN tree
      BY <1>3, <2>1, FirstChildren
    <3>2. tree[path].kind \in Combinators => Append(path, 2) \in DOMAIN tree
      BY <1>3, <2>1, FirstChildren DEF Node, Combinators
    <3> QED BY <3>1, <3>2 DEF TreeStep
  <2>3. path' \in Seq(Nat) /\ path' \in DOMAIN tree /\ OnTheWay(tree, path')
    BY <1>1, <1>3, <2>1, <2>2, OnTheWayAppend, ParentAppend DEF WalkInv, Walking, TreeStep
  <2>a. Lefts(path') = Lefts(path)
    BY <1>3, <2>1, LeftsOfChildren
  <2>4. Held' = Held /\ OpenFilters' = OpenFilters
    BY <1>1, <1>3, <2>a DEF Held, Walking, OpenFilters
  <2>5. FilterTyped'
    BY <1>1, <1>3 DEF FilterTyped
  <2>6. WalkInv'
    BY <1>1, <1>3, <2>1, <2>3 DEF WalkInv, Walking
  <2>7. HeldInv' /\ OwnedInv'
    BY <1>1, <2>4 DEF HeldInv, OwnedInv, LocalHandles
  <2>8. LiveInv'
    BY <1>1, <1>3, <2>4 DEF LiveInv, RuleFiltersLive
  <2> QED BY <2>5, <2>6, <2>7, <2>8
<1> QED BY <1>2, <1>3 DEF VisitChildren

\* Going over to the second child, the first one's handle held, preserves
\* the invariant.
LEMMA VisitSecondInv ==
  ASSUME FilterInv, VisitSecond
  PROVE  FilterInv'
<1> USE DEF FilterInv
<1>1. /\ stage = "built" /\ stage' = "visit" /\ path # <<>>
      /\ tree[Parent(path)].kind \in Combinators /\ path[Len(path)] = 1
      /\ path' = Append(Parent(path), 2)
      /\ UNCHANGED <<lacking, docRules, i, built, handle, parts, filters, created>>
  BY DEF VisitSecond
<1> DEFINE p == Parent(path)
<1>2. p \in Seq(Nat) /\ path = Append(p, 1) /\ tree' = tree
  BY <1>1, SplitPath DEF WalkInv, Walking, tree
<1>3. OnTheWay(tree, p) /\ Append(p, 2) \in DOMAIN tree
  BY <1>1, <1>2, OnTheWayAppend DEF WalkInv, Walking, TreeStep
<1>4. OnTheWay(tree, path') /\ path' \in Seq(Nat)
  BY <1>1, <1>2, <1>3, OnTheWayAppend, ParentAppend DEF TreeStep
<1>a. Lefts(path) = Lefts(p) /\ Lefts(path') = Lefts(p) \cup {path}
  BY <1>1, <1>2, LeftsOfChildren
<1>5. Held' = Held /\ OpenFilters' = OpenFilters /\ LocalHandles' = LocalHandles
  <2>1. Held' = Held
    BY <1>1, <1>a DEF Held, Walking
  <2> QED BY <1>1, <2>1 DEF OpenFilters, LocalHandles
<1>6. FilterTyped'
  BY <1>1 DEF FilterTyped
<1>7. WalkInv'
  BY <1>1, <1>2, <1>3, <1>4 DEF WalkInv, Walking
<1>8. HeldInv'
  BY <1>1, <1>5 DEF HeldInv
<1>b. OwnedInv'
  <2>1. UNCHANGED <<lacking, filters, built, handle>>
    BY <1>1
  <2> QED BY <1>5, <2>1 DEF OwnedInv
<1>9. LiveInv'
  BY <1>1, <1>5 DEF LiveInv, RuleFiltersLive
<1> QED BY <1>6, <1>7, <1>8, <1>9, <1>b

\* A failed child, whose sibling goes to filters_, preserves the invariant.
LEMMA ChildFailedInv ==
  ASSUME WellFormedTrees, FilterInv, ChildFailed
  PROVE  FilterInv'
<1> USE DEF FilterInv
<1>1. /\ stage = "failed" /\ stage' = stage /\ path # <<>> /\ path' = Parent(path)
      /\ UNCHANGED <<lacking, docRules, i, built, parts, filters, created>>
  BY DEF ChildFailed
<1> DEFINE p == Parent(path)
           x == path[Len(path)]
           left == built[Append(p, 1)]
<1>2. p \in Seq(Nat) /\ x \in Nat /\ path = Append(p, x) /\ tree' = tree
  BY <1>1, SplitPath DEF WalkInv, Walking, tree
<1>3. OnTheWay(tree, p) /\ TreeStep(tree, p, x)
  BY <1>1, <1>2, OnTheWayAppend DEF WalkInv, Walking
<1>a. x \in {1, 2}
  BY <1>3 DEF TreeStep
<1>b. p \in DOMAIN tree
  <2>1. IsTree(tree) /\ path \in DOMAIN tree
    BY <1>1, TreeOfRule DEF WalkInv, Walking
  <2> QED BY <1>1, <2>1 DEF IsTree
<1>4. Held = Lefts(path) /\ Held' = Lefts(p)
  BY <1>1 DEF Held, Walking
<1>5. WalkInv'
  BY <1>1, <1>2, <1>3, <1>b DEF WalkInv, Walking
<1>6. CASE handle' = handle /\ (x = 2 => lacking # {})
  <2>1. OpenFilters' = OpenFilters
    BY <1>6 DEF OpenFilters
  <2>2. Held' \subseteq Held /\ (x = 1 => Held' = Held)
    BY <1>2, <1>4, LeftsOfChildren, <1>a
  <2>3. FilterTyped'
    BY <1>1, <1>6 DEF FilterTyped
  <2>4. HeldInv'
    BY <1>1, <2>1, <2>2 DEF HeldInv
  <2>5. OwnedInv'
    <3>1. UNCHANGED <<lacking, filters, built, handle>>
      BY <1>1, <1>6
    <3>2. lacking = {} => Held' = Held
      BY <1>6, <1>a, <2>2
    <3>3. lacking = {} => LocalHandles' = LocalHandles
      BY <3>1, <3>2 DEF LocalHandles
    <3> QED BY <2>1, <3>1, <3>3 DEF OwnedInv
  <2>6. LiveInv'
    BY <1>1, <2>1 DEF LiveInv, RuleFiltersLive
  <2> QED BY <1>5, <2>3, <2>4, <2>5, <2>6
<1>7. CASE x = 2 /\ handle' = Shut(handle, {left})
  <2>1. Held = Held' \cup {Append(p, 1)}
    BY <1>2, <1>4, <1>7, LeftsOfChildren
  <2>2. left \in OpenFilters \ Range(filters) /\ left \in FilterHandles
    BY <2>1 DEF HeldInv, OpenFilters
  <2>3. /\ handle' \in [FilterHandles -> {"none", "open", "closed", "closed twice"}]
        /\ OpenFilters' = OpenFilters \ {left}
        /\ \A h \in FilterHandles : handle'[h] # "closed twice"
    BY <1>7, <2>2 DEF Shut, OpenFilters, OwnedInv, FilterTyped
  <2>a. Append(p, 1) \notin Held'
    <3>1. path \in Seq(Nat) /\ Append(p, 1) \in Seq(Nat)
      BY <1>2
    <3>2. Append(p, 1) \notin Lefts(Append(p, 1)) /\ Lefts(Append(p, 1)) = Lefts(p)
      BY <1>2, <3>1, NotLeft, LeftsOfChildren
    <3> QED BY <1>4, <3>2
  <2>4. FilterTyped'
    BY <1>1, <2>3 DEF FilterTyped
  <2>5. HeldInv'
    BY <1>1, <2>1, <2>3, <2>a DEF HeldInv
  <2>6. OwnedInv'
    <3>1. UNCHANGED <<lacking, filters, built>>
      BY <1>1
    <3>2. LocalHandles \subseteq LocalHandles' \cup {left}
      BY <2>1, <3>1 DEF LocalHandles
    <3>3. Range(filters) \subseteq OpenFilters'
      BY <2>2, <2>3 DEF OwnedInv
    <3>4. lacking = {} => OpenFilters' \subseteq Range(filters) \cup LocalHandles'
      BY <2>3, <3>2 DEF OwnedInv
    <3> QED BY <2>3, <3>1, <3>3, <3>4 DEF OwnedInv
  <2>7. LiveInv'
    <3>1. Range(filters) \subseteq OpenFilters'
      BY <2>2, <2>3 DEF OwnedInv
    <3>2. \A h \in FilterHandles : parts[h] \subseteq Range(filters)
      BY <1>1 DEF LiveInv
    <3>3. RuleFiltersLive'
      BY <1>1, <3>1, <3>2 DEF LiveInv, RuleFiltersLive, OpenFilters
    <3> QED BY <1>1, <3>2, <3>3 DEF LiveInv
  <2> QED BY <1>5, <2>4, <2>5, <2>6, <2>7
<1>8. \/ x = 2 /\ handle' = Shut(handle, {left})
      \/ handle' = handle /\ (x = 2 => lacking # {})
  BY <1>1, <1>2 DEF ChildFailed
<1> QED BY <1>6, <1>7, <1>8

\* The handles of two nodes, or of one, taken over by filters_.
LEMMA TakenOver ==
  ASSUME FilterInv, NEW hs \in Seq(FilterHandles),
         \A j \in 1..Len(hs) : hs[j] \in OpenFilters \ Range(filters),
         \A j, k \in 1..Len(hs) : hs[j] = hs[k] => j = k
  PROVE  /\ filters \o hs \in Seq(FilterHandles)
         /\ Range(filters \o hs) = Range(filters) \cup Range(hs)
         /\ Range(hs) \subseteq OpenFilters
         /\ \A j, k \in 1..Len(filters \o hs) : (filters \o hs)[j] = (filters \o hs)[k] => j = k
<1> DEFINE f == filters
           g == f \o hs
<1>1. f \in Seq(FilterHandles) /\ \A j, k \in 1..Len(f) : f[j] = f[k] => j = k
  BY DEF FilterInv, FilterTyped, OwnedInv
<1>2. /\ g \in Seq(FilterHandles) /\ Len(g) = Len(f) + Len(hs) /\ Len(f) \in Nat /\ Len(hs) \in Nat
      /\ \A k \in 1..Len(f) : g[k] = f[k]
      /\ \A k \in 1..Len(hs) : g[Len(f) + k] = hs[k]
  BY <1>1
<1>3. DOMAIN f = 1..Len(f) /\ DOMAIN hs = 1..Len(hs) /\ DOMAIN g = 1..Len(g)
  BY <1>1, <1>2
<1>4. \A k \in 1..Len(f) : f[k] \in Range(f)
  BY <1>3 DEF Range
<1> HIDE DEF f, g
<1>5. \A k \in 1..Len(g) : k \in 1..Len(f) \/ (k - Len(f) \in 1..Len(hs) /\ g[k] = hs[k - Len(f)])
  <2> SUFFICES ASSUME NEW k \in 1..Len(g), k \notin 1..Len(f)
               PROVE  k - Len(f) \in 1..Len(hs) /\ g[k] = hs[k - Len(f)]
    OBVIOUS
  <2>1. k - Len(f) \in 1..Len(hs) /\ Len(f) + (k - Len(f)) = k
    BY <1>2
  <2> QED BY <1>2, <2>1
<1>6. Range(g) = Range(f) \cup Range(hs)
  <2>1. Range(g) \subseteq Range(f) \cup Range(hs)
    <3> SUFFICES ASSUME NEW k \in 1..Len(g) PROVE g[k] \in Range(f) \cup Range(hs)
      BY <1>3 DEF Range
    <3>1. CASE k \in 1..Len(f)
      BY <1>2, <1>4, <3>1
    <3>2. CASE k \notin 1..Len(f)
      BY <1>3, <1>5, <3>2 DEF Range
    <3> QED BY <3>1, <3>2
  <2>2. Range(f) \subseteq Range(g)
    BY <1>2, <1>3 DEF Range
  <2>3. Range(hs) \subseteq Range(g)
    <3> SUFFICES ASSUME NEW k \in 1..Len(hs) PROVE hs[k] \in Range(g)
      BY <1>3 DEF Range
    <3>1. Len(f) + k \in 1..Len(g)
      BY <1>2
    <3> QED BY <1>2, <1>3, <3>1 DEF Range
  <2> QED BY <2>1, <2>2, <2>3
<1>7. \A j, k \in 1..Len(g) : g[j] = g[k] => j = k
  <2> SUFFICES ASSUME NEW j \in 1..Len(g), NEW k \in 1..Len(g), g[j] = g[k] PROVE j = k
    OBVIOUS
  <2>1. CASE j \in 1..Len(f) /\ k \in 1..Len(f)
    BY <1>1, <1>2, <2>1 DEF f
  <2>2. CASE j \notin 1..Len(f) /\ k \notin 1..Len(f)
    <3>1. j - Len(f) = k - Len(f)
      BY <1>5, <2>2
    <3> QED BY <1>2, <3>1
  <2>a. \A m \in 1..Len(g) : m \in 1..Len(f) <=> g[m] \in Range(f)
    <3> SUFFICES ASSUME NEW m \in 1..Len(g) PROVE m \in 1..Len(f) <=> g[m] \in Range(f)
      OBVIOUS
    <3>1. CASE m \in 1..Len(f)
      BY <1>2, <1>4, <3>1
    <3>2. CASE m \notin 1..Len(f)
      BY <1>5, <3>2 DEF f
    <3> QED BY <3>1, <3>2
  <2>3. CASE j \in 1..Len(f) /\ k \notin 1..Len(f)
    BY <2>3, <2>a
  <2>4. CASE j \notin 1..Len(f) /\ k \in 1..Len(f)
    BY <2>4, <2>a
  <2> QED BY <2>1, <2>2, <2>3, <2>4
<1>8. Range(hs) \subseteq OpenFilters
  BY <1>3 DEF Range
<1> QED BY <1>2, <1>6, <1>7, <1>8 DEF f, g

\* CreateBinaryFilter or CreateNotFilter at p, whose children K are the last
\* nodes held: filters_ takes hs over, or the export is missing.
LEMMA CombineInv ==
  ASSUME FilterInv, stage = "built", NEW p \in Seq(Nat), p \in DOMAIN tree, OnTheWay(tree, p),
         NEW K, Held = Lefts(p) \cup K, K \cap Lefts(p) = {},
         NEW hs \in Seq(FilterHandles), Range(hs) = {built[q] : q \in K},
         \A j, k \in 1..Len(hs) : hs[j] = hs[k] => j = k,
         path' = p, UNCHANGED <<lacking, docRules, i, created>>,
         \/ lacking # {} /\ stage' = "failed" /\ UNCHANGED <<built, handle, parts, filters>>
         \/ filters' = filters \o hs /\ stage' = "failed" /\ UNCHANGED <<built, handle, parts>>
         \/ /\ filters' = filters \o hs /\ stage' = "built"
            /\ \E h \in Fresh : Open(h) /\ Bind(p, h) /\ parts' = [parts EXCEPT ![h] = Range(hs)]
  PROVE  FilterInv'
<1> USE DEF FilterInv
<1>1. WalkInv'
  BY DEF WalkInv, Walking, tree
<1>2. Lefts(p) \subseteq Held /\ K \subseteq Held
  OBVIOUS
<1>3. CASE lacking # {} /\ stage' = "failed" /\ UNCHANGED <<built, handle, parts, filters>>
  <2>1. Held' = Lefts(p) /\ OpenFilters' = OpenFilters
    BY <1>3 DEF Held, Walking, OpenFilters
  <2>2. FilterTyped'
    BY <1>3 DEF FilterTyped
  <2>3. HeldInv'
    BY <1>2, <1>3, <2>1 DEF HeldInv
  <2>4. OwnedInv'
    BY <1>3, <2>1 DEF OwnedInv
  <2>5. LiveInv'
    BY <1>3, <2>1 DEF LiveInv, RuleFiltersLive
  <2> QED BY <1>1, <2>2, <2>3, <2>4, <2>5
<1>4. /\ filters \o hs \in Seq(FilterHandles)
      /\ Range(filters \o hs) = Range(filters) \cup Range(hs)
      /\ Range(hs) \subseteq OpenFilters
      /\ \A j, k \in 1..Len(filters \o hs) : (filters \o hs)[j] = (filters \o hs)[k] => j = k
  <2>1. \A j \in 1..Len(hs) : hs[j] \in Range(hs)
    BY DEF Range
  <2>2. \A j \in 1..Len(hs) : hs[j] \in OpenFilters \ Range(filters)
    BY <1>2, <2>1 DEF HeldInv
  <2> QED BY <2>2, TakenOver
<1>5. \A q \in Lefts(p) : built[q] \notin Range(hs)
  BY <1>2 DEF HeldInv
<1>6. LocalHandles \subseteq {built[q] : q \in Lefts(p)} \cup Range(hs)
  BY DEF LocalHandles
<1>7. CASE filters' = filters \o hs /\ stage' = "failed" /\ UNCHANGED <<built, handle, parts>>
  <2>1. Held' = Lefts(p) /\ OpenFilters' = OpenFilters
    BY <1>7 DEF Held, Walking, OpenFilters
  <2>2. Range(filters') = Range(filters) \cup Range(hs)
    BY <1>4, <1>7
  <2>3. FilterTyped'
    BY <1>4, <1>7 DEF FilterTyped
  <2>4. HeldInv'
    BY <1>2, <1>5, <1>7, <2>1, <2>2 DEF HeldInv
  <2>5. OwnedInv'
    <3>1. LocalHandles' = {built[q] : q \in Lefts(p)}
      BY <1>7, <2>1 DEF LocalHandles
    <3>2. Range(filters') \subseteq OpenFilters'
      BY <1>4, <2>1, <2>2 DEF OwnedInv
    <3>3. lacking' = {} => OpenFilters' \subseteq Range(filters') \cup LocalHandles'
      BY <1>6, <2>1, <2>2, <3>1 DEF OwnedInv
    <3>4. \A j, k \in 1..Len(filters') : filters'[j] = filters'[k] => j = k
      BY <1>4, <1>7
    <3> QED BY <1>7, <3>2, <3>3, <3>4 DEF OwnedInv
  <2>6. LiveInv'
    <3>1. RuleFiltersLive'
      BY <1>7, <2>1, <2>2 DEF LiveInv, RuleFiltersLive
    <3>2. \A h \in FilterHandles : parts'[h] \subseteq Range(filters')
      BY <1>7, <2>2 DEF LiveInv
    <3> QED BY <1>7, <3>1, <3>2 DEF LiveInv
  <2> QED BY <1>1, <2>3, <2>4, <2>5, <2>6
<1>8. CASE /\ filters' = filters \o hs /\ stage' = "built"
           /\ \E h \in Fresh : Open(h) /\ Bind(p, h) /\ parts' = [parts EXCEPT ![h] = Range(hs)]
  <2>1. PICK h \in Fresh : Open(h) /\ Bind(p, h) /\ parts' = [parts EXCEPT ![h] = Range(hs)]
    BY <1>8
  <2>2. /\ h \in FilterHandles /\ h \notin OpenFilters
        /\ OpenFilters' = OpenFilters \cup {h}
        /\ handle' \in [FilterHandles -> {"none", "open", "closed", "closed twice"}]
        /\ \A g \in FilterHandles : handle'[g] # "closed twice"
    BY <2>1, FreshIsNew
  <2>3. Range(filters') = Range(filters) \cup Range(hs)
    BY <1>4, <1>8
  <2>4. p \notin Lefts(p) /\ Held' = Lefts(p) \cup {p}
    BY <1>8, NotLeft DEF Held, Walking
  <2>5. /\ DOMAIN built' = DOMAIN built \cup {p} /\ built'[p] = h
        /\ \A q \in Lefts(p) : built'[q] = built[q]
        /\ \A q \in DOMAIN built' : built'[q] \in Range(built) \cup {h}
    BY <1>2, <2>1, <2>4 DEF Bind, HeldInv, Range
  <2>6. Range(built') \subseteq FilterHandles
    <3>1. Range(built) \subseteq FilterHandles
      BY DEF FilterTyped
    <3>2. \A q \in DOMAIN built' : built'[q] \in FilterHandles
      BY <2>2, <2>5, <3>1
    <3> QED BY <3>2 DEF Range
  <2>7. Range(hs) \subseteq FilterHandles
    BY <1>4 DEF OpenFilters
  <2>8. parts' \in [FilterHandles -> SUBSET FilterHandles]
    BY <2>1, <2>2, <2>7 DEF FilterTyped
  <2>9. FilterTyped'
    BY <1>4, <1>8, <2>2, <2>6, <2>8 DEF FilterTyped
  <2>10. h \notin Range(filters')
    BY <1>4, <2>2, <2>3 DEF OwnedInv
  <2>11. HeldInv'
    <3>1. Held' \subseteq DOMAIN built'
      BY <1>2, <2>4, <2>5 DEF HeldInv
    <3>2. \A q \in Lefts(p) : built'[q] \in OpenFilters \ Range(filters')
      BY <1>2, <1>5, <2>3, <2>5 DEF HeldInv
    <3>3. \A q \in Held' : built'[q] \in OpenFilters' \ Range(filters')
      BY <2>2, <2>4, <2>5, <2>10, <3>2
    <3>4. \A q, r \in Lefts(p) : built'[q] = built'[r] => q = r
      BY <1>2, <2>5 DEF HeldInv
    <3>5. \A q, r \in Held' : built'[q] = built'[r] => q = r
      BY <2>2, <2>4, <2>5, <3>2, <3>4
    <3> QED BY <3>1, <3>3, <3>5 DEF HeldInv
  <2>12. OwnedInv'
    <3>1. {built[q] : q \in Lefts(p)} \cup {h} \subseteq LocalHandles'
      BY <2>4, <2>5 DEF LocalHandles
    <3>2. Range(filters') \subseteq OpenFilters'
      BY <1>4, <2>2, <2>3 DEF OwnedInv
    <3>3. lacking' = {} => OpenFilters' \subseteq Range(filters') \cup LocalHandles'
      BY <1>6, <2>2, <2>3, <3>1 DEF OwnedInv
    <3>4. \A j, k \in 1..Len(filters') : filters'[j] = filters'[k] => j = k
      BY <1>4, <1>8
    <3> QED BY <2>2, <3>2, <3>3, <3>4 DEF OwnedInv
  <2>13. LiveInv'
    <3>1. \A g \in FilterHandles : parts'[g] = IF g = h THEN Range(hs) ELSE parts[g]
      BY <2>1, <2>2 DEF FilterTyped
    <3>2. \A g \in FilterHandles : parts'[g] \subseteq Range(filters')
      BY <1>8, <2>3, <3>1 DEF LiveInv
    <3>3. RuleFiltersLive'
      <4>1. ASSUME NEW r \in created, NEW s \in DOMAIN r.slots
            PROVE  r.slots[s] \in OpenFilters' \cap Range(filters') /\ parts'[r.slots[s]] \subseteq OpenFilters'
        <5>1. r.slots[s] \in OpenFilters \cap Range(filters) /\ parts[r.slots[s]] \subseteq OpenFilters
          BY DEF LiveInv, RuleFiltersLive
        <5>2. r.slots[s] \in FilterHandles /\ r.slots[s] # h
          BY <2>2, <5>1 DEF OpenFilters
        <5> QED BY <2>2, <2>3, <3>1, <5>1, <5>2
      <4> QED BY <4>1 DEF RuleFiltersLive
    <3> QED BY <1>8, <3>2, <3>3 DEF LiveInv
  <2> QED BY <1>1, <2>9, <2>11, <2>12, <2>13
<1> QED BY <1>3, <1>7, <1>8

\* Where CreateBinaryFilter and CreateNotFilter stand in the walk.
LEMMA ParentOnTheWay ==
  ASSUME WellFormedTrees, FilterInv, Walking, path # <<>>
  PROVE  /\ Parent(path) \in Seq(Nat) /\ path[Len(path)] \in {1, 2}
         /\ path = Append(Parent(path), path[Len(path)])
         /\ Parent(path) \in DOMAIN tree /\ OnTheWay(tree, Parent(path))
         /\ TreeStep(tree, Parent(path), path[Len(path)])
<1> DEFINE p == Parent(path)
           x == path[Len(path)]
<1>1. path \in Seq(Nat) /\ path \in DOMAIN tree /\ OnTheWay(tree, path) /\ i <= Len(docRules)
  BY DEF FilterInv, WalkInv
<1>2. p \in Seq(Nat) /\ x \in Nat /\ path = Append(p, x)
  BY <1>1, SplitPath
<1>3. OnTheWay(tree, p) /\ TreeStep(tree, p, x)
  BY <1>1, <1>2, OnTheWayAppend
<1>4. p \in DOMAIN tree
  <2>1. IsTree(tree)
    BY <1>1, TreeOfRule DEF FilterInv
  <2> QED BY <1>1, <2>1 DEF IsTree
<1>5. x \in {1, 2}
  BY <1>3 DEF TreeStep
<1> QED BY <1>2, <1>3, <1>4, <1>5

\* Combining two children preserves the invariant.
LEMMA CreateBinaryInv ==
  ASSUME WellFormedTrees, FilterInv, CreateBinaryFilter
  PROVE  FilterInv'
<1> DEFINE p == Parent(path)
           K == {Append(p, 1), Append(p, 2)}
           hs == [k \in DOMAIN <<1, 2>> |-> built[Append(p, <<1, 2>>[k])]]
<1>1. /\ stage = "built" /\ path # <<>> /\ path[Len(path)] = 2 /\ Walking
      /\ path' = p /\ UNCHANGED <<lacking, docRules, i, created>>
  BY DEF CreateBinaryFilter, Walking
<1>2. /\ p \in Seq(Nat) /\ path = Append(p, 2) /\ p \in DOMAIN tree /\ OnTheWay(tree, p)
  BY <1>1, ParentOnTheWay
<1>3. /\ Lefts(path) = Lefts(p) \cup {Append(p, 1)} /\ Lefts(Append(p, 1)) = Lefts(p)
  BY <1>2, LeftsOfChildren
<1>4. Append(p, 1) \notin Lefts(p) /\ path \notin Lefts(path)
  <2>1. Append(p, 1) \in Seq(Nat) /\ path \in Seq(Nat)
    BY <1>2
  <2> QED BY <1>3, <2>1, NotLeft
<1>5. Held = Lefts(p) \cup K /\ K \cap Lefts(p) = {} /\ Append(p, 1) # Append(p, 2)
  BY <1>1, <1>2, <1>3, <1>4 DEF Held
<1>6. /\ built[Append(p, 1)] \in FilterHandles /\ built[Append(p, 2)] \in FilterHandles
      /\ built[Append(p, 1)] # built[Append(p, 2)]
  BY <1>5 DEF FilterInv, HeldInv, OpenFilters
<1>7. DOMAIN <<1, 2>> = 1..2 /\ <<1, 2>>[1] = 1 /\ <<1, 2>>[2] = 2
  OBVIOUS
<1>8. DOMAIN hs = 1..2 /\ hs[1] = built[Append(p, 1)] /\ hs[2] = built[Append(p, 2)]
  BY <1>7
<1>9. hs = [k \in 1..2 |-> hs[k]]
  BY <1>7
<1>10. (\/ lacking # {} /\ stage' = "failed" /\ UNCHANGED <<built, handle, parts, filters>>
        \/ filters' = filters \o hs /\ stage' = "failed" /\ UNCHANGED <<built, handle, parts>>
        \/ /\ filters' = filters \o hs /\ stage' = "built"
           /\ \E h \in Fresh : Open(h) /\ Bind(p, h) /\ parts' = [parts EXCEPT ![h] = Range(hs)])
  BY DEF CreateBinaryFilter, Combine
<1> HIDE DEF hs
<1>11. hs \in Seq(FilterHandles) /\ Len(hs) = 2
  <2>1. \A k \in 1..2 : hs[k] \in FilterHandles
    BY <1>6, <1>8
  <2> QED BY <1>9, <2>1
<1>12. \A j, k \in 1..Len(hs) : hs[j] = hs[k] => j = k
  BY <1>6, <1>8, <1>11
<1>13. Range(hs) = {built[q] : q \in K}
  BY <1>8 DEF Range
<1> HIDE DEF p, K
<1> QED BY <1>1, <1>2, <1>5, <1>10, <1>11, <1>12, <1>13, CombineInv

\* Negating a child preserves the invariant.
LEMMA CreateNotInv ==
  ASSUME WellFormedTrees, FilterInv, CreateNotFilter
  PROVE  FilterInv'
<1> DEFINE p == Parent(path)
           K == {Append(p, 1)}
           hs == [k \in DOMAIN <<1>> |-> built[Append(p, <<1>>[k])]]
<1>1. /\ stage = "built" /\ path # <<>> /\ tree[p].kind = "not" /\ Walking
      /\ path' = p /\ UNCHANGED <<lacking, docRules, i, created>>
  BY DEF CreateNotFilter, Walking
<1>2. /\ p \in Seq(Nat) /\ path = Append(p, 1) /\ p \in DOMAIN tree /\ OnTheWay(tree, p)
  <2>1. TreeStep(tree, p, path[Len(path)]) /\ path[Len(path)] \in {1, 2}
    BY <1>1, ParentOnTheWay
  <2>2. path[Len(path)] = 1
    BY <1>1, <2>1 DEF TreeStep, Combinators
  <2> QED BY <1>1, <2>2, ParentOnTheWay
<1>3. Lefts(path) = Lefts(p)
  BY <1>2, LeftsOfChildren
<1>4. path \notin Lefts(path)
  <2>1. path \in Seq(Nat)
    BY <1>2
  <2> QED BY <2>1, NotLeft
<1>5. Held = Lefts(p) \cup K /\ K \cap Lefts(p) = {}
  BY <1>1, <1>2, <1>3, <1>4 DEF Held
<1>6. built[Append(p, 1)] \in FilterHandles
  BY <1>5 DEF FilterInv, HeldInv, OpenFilters
<1>7. DOMAIN <<1>> = 1..1 /\ <<1>>[1] = 1
  OBVIOUS
<1>8. DOMAIN hs = 1..1 /\ hs[1] = built[Append(p, 1)]
  BY <1>7
<1>9. hs = [k \in 1..1 |-> hs[k]]
  BY <1>7
<1>10. (\/ lacking # {} /\ stage' = "failed" /\ UNCHANGED <<built, handle, parts, filters>>
        \/ filters' = filters \o hs /\ stage' = "failed" /\ UNCHANGED <<built, handle, parts>>
        \/ /\ filters' = filters \o hs /\ stage' = "built"
           /\ \E h \in Fresh : Open(h) /\ Bind(p, h) /\ parts' = [parts EXCEPT ![h] = Range(hs)])
  BY DEF CreateNotFilter, Combine
<1> HIDE DEF hs
<1>11. hs \in Seq(FilterHandles) /\ Len(hs) = 1
  <2>1. \A k \in 1..1 : hs[k] \in FilterHandles
    BY <1>6, <1>8
  <2> QED BY <1>9, <2>1
<1>12. \A j, k \in 1..Len(hs) : hs[j] = hs[k] => j = k
  BY <1>11
<1>13. Range(hs) = {built[q] : q \in K}
  BY <1>8 DEF Range
<1> HIDE DEF p, K
<1> QED BY <1>1, <1>2, <1>5, <1>10, <1>11, <1>12, <1>13, CombineInv

\* A rule given up for its filter preserves the invariant.
LEMMA RuleFilterFailedInv ==
  ASSUME WellFormedTrees, FilterInv, RuleFilterFailed
  PROVE  FilterInv'
<1> USE DEF FilterInv
<1>1. /\ stage = "failed" /\ path = <<>> /\ stage' = "rule" /\ i' = i + 1
      /\ UNCHANGED <<lacking, docRules, path, built, handle, parts, filters, refused, created>>
  BY DEF RuleFilterFailed
<1>2. Held = {} /\ Held' = {} /\ OpenFilters' = OpenFilters
  BY <1>1, LeftsEmpty DEF Held, Walking, OpenFilters
<1>3. FilterTyped'
  <2>1. i \in 1..(Len(docRules) + 1) /\ i <= Len(docRules) /\ docRules \in RuleDocuments
    BY <1>1 DEF FilterTyped, WalkInv, Walking
  <2>2. Len(docRules) \in Nat
    BY <2>1 DEF WellFormedTrees
  <2>3. i' \in 1..(Len(docRules') + 1)
    BY <1>1, <2>1, <2>2
  <2> QED BY <1>1, <2>3 DEF FilterTyped
<1>4. WalkInv'
  BY <1>1 DEF WalkInv, Walking
<1>5. HeldInv' /\ OwnedInv'
  BY <1>1, <1>2 DEF HeldInv, OwnedInv, LocalHandles
<1>6. LiveInv'
  BY <1>1, <1>2 DEF LiveInv, RuleFiltersLive
<1> QED BY <1>3, <1>4, <1>5, <1>6

\* One more handle in filters_.
LEMMA OneMore ==
  ASSUME FilterInv, NEW h \in FilterHandles, h \notin Range(filters)
  PROVE  /\ Append(filters, h) \in Seq(FilterHandles)
         /\ \A j, k \in 1..Len(Append(filters, h)) : Append(filters, h)[j] = Append(filters, h)[k] => j = k
<1> DEFINE f == filters
           g == Append(f, h)
<1>1. f \in Seq(FilterHandles) /\ \A j, k \in 1..Len(f) : f[j] = f[k] => j = k
  BY DEF FilterInv, FilterTyped, OwnedInv
<1>2. /\ g \in Seq(FilterHandles) /\ Len(g) = Len(f) + 1 /\ Len(f) \in Nat
      /\ \A k \in 1..Len(f) : g[k] = f[k]
      /\ g[Len(f) + 1] = h
  BY <1>1
<1>3. \A k \in 1..Len(f) : f[k] # h
  BY <1>1 DEF Range
<1> HIDE DEF f, g
<1>4. \A k \in 1..Len(g) : k \in 1..Len(f) \/ k = Len(f) + 1
  BY <1>2
<1>5. \A j, k \in 1..Len(g) : g[j] = g[k] => j = k
  BY <1>1, <1>2, <1>3, <1>4
<1> QED BY <1>2, <1>5 DEF f, g

\* The root handed to filters_ preserves the invariant.
LEMMA RuleFilterBuiltInv ==
  ASSUME FilterInv, RuleFilterBuilt
  PROVE  FilterInv'
<1> USE DEF FilterInv
<1> DEFINE h == built[<<>>]
<1>1. /\ stage = "built" /\ path = <<>> /\ stage' = "attach" /\ filters' = Append(filters, h)
      /\ UNCHANGED <<lacking, docRules, i, path, built, handle, parts, refused, created>>
  BY DEF RuleFilterBuilt
<1>2. Held = {<<>>} /\ Held' = {} /\ OpenFilters' = OpenFilters
  BY <1>1, LeftsEmpty DEF Held, Walking, OpenFilters
<1>3. h \in OpenFilters /\ h \notin Range(filters) /\ h \in FilterHandles /\ LocalHandles = {h}
  BY <1>2 DEF HeldInv, OpenFilters, LocalHandles
<1> HIDE DEF h
<1>4. /\ filters' \in Seq(FilterHandles)
      /\ \A j, k \in 1..Len(filters') : filters'[j] = filters'[k] => j = k
  BY <1>1, <1>3, OneMore
<1>5. Range(filters') = Range(filters) \cup {h}
  BY <1>1, <1>3, RangeAppend DEF FilterTyped
<1>6. FilterTyped'
  BY <1>1, <1>4 DEF FilterTyped
<1>7. WalkInv'
  BY <1>1 DEF WalkInv, Walking
<1>8. HeldInv'
  BY <1>2 DEF HeldInv
<1>9. OwnedInv'
  <2>1. Range(filters') \subseteq OpenFilters'
    BY <1>2, <1>3, <1>5 DEF OwnedInv
  <2>2. lacking' = {} => OpenFilters' \subseteq Range(filters') \cup LocalHandles'
    BY <1>1, <1>2, <1>3, <1>5 DEF OwnedInv
  <2> QED BY <1>1, <1>4, <2>1, <2>2 DEF OwnedInv
<1>10. LiveInv'
  <2>1. RuleFiltersLive'
    BY <1>1, <1>2, <1>5 DEF LiveInv, RuleFiltersLive
  <2>2. \A g \in FilterHandles : parts'[g] \subseteq Range(filters')
    BY <1>1, <1>5 DEF LiveInv
  <2>3. built'[<<>>] \in Range(filters')
    BY <1>1, <1>5 DEF h
  <2> QED BY <1>1, <2>1, <2>2, <2>3 DEF LiveInv
<1> QED BY <1>6, <1>7, <1>8, <1>9, <1>10

\* What CreateRule leaves: the rules there were, and one whose slots hold h.
LEMMA CreateRuleLive ==
  ASSUME WellFormedTrees, FilterInv, stage = "attach", NEW slots, CreateRule(slots),
         OpenFilters \subseteq OpenFilters', Range(filters) \subseteq Range(filters'),
         UNCHANGED <<docRules, parts>>,
         \A s \in DOMAIN slots : slots[s] \in FilterHandles /\ slots[s] \in OpenFilters' \cap Range(filters')
  PROVE  RuleFiltersLive' /\ \A r \in created' : r.rule \in 1..Len(docRules')
<1> DEFINE new == [rule |-> i, slots |-> slots, config |-> HasConfig(docRules[i].event)]
<1>1. \A h \in FilterHandles : parts[h] \subseteq OpenFilters
  BY DEF FilterInv, LiveInv, OwnedInv
<1>2. i \in 1..Len(docRules)
  <2>1. i \in 1..(Len(docRules) + 1) /\ i <= Len(docRules) /\ docRules \in RuleDocuments
    BY DEF FilterInv, FilterTyped, WalkInv
  <2>2. Len(docRules) \in Nat
    BY <2>1 DEF WellFormedTrees
  <2> QED BY <2>1, <2>2
<1>3. new.rule = i /\ new.slots = slots /\ created' \subseteq created \cup {new}
  BY DEF CreateRule
<1> HIDE DEF new
<1>4. ASSUME NEW r \in created'
      PROVE  /\ r.rule \in 1..Len(docRules')
             /\ \A s \in DOMAIN r.slots : /\ r.slots[s] \in OpenFilters' \cap Range(filters')
                                          /\ parts'[r.slots[s]] \subseteq OpenFilters'
  <2>1. CASE r \in created
    BY <2>1 DEF FilterInv, FilterTyped, LiveInv, RuleFiltersLive
  <2>2. CASE r = new
    BY <1>1, <1>2, <1>3, <2>2
  <2> QED BY <1>3, <2>1, <2>2
<1> QED BY <1>4 DEF RuleFiltersLive

\* Attaching the filter, or a path's own leaf, and creating the rule preserves
\* the invariant.
LEMMA AttachInv ==
  ASSUME WellFormedTrees, FilterInv, AttachFilterToDescriptor
  PROVE  FilterInv'
<1> USE DEF FilterInv
<1> DEFINE root  == IF <<>> \in DOMAIN built THEN built[<<>>] ELSE None
           slots == IF root = None THEN <<>> ELSE [s \in Slots(docRules[i].event, tree) |-> root]
<1>1. /\ stage = "attach" /\ stage' = "rule" /\ i' = i + 1
      /\ UNCHANGED <<lacking, docRules, path, built, parts>>
  BY DEF AttachFilterToDescriptor
<1>2. Held = {} /\ Held' = {} /\ LocalHandles = {}
  BY <1>1 DEF Held, Walking, LocalHandles
<1>3. WalkInv' /\ HeldInv'
  BY <1>1, <1>2 DEF WalkInv, HeldInv, Walking
<1>4. i' \in 1..(Len(docRules') + 1)
  <2>1. i \in 1..(Len(docRules) + 1) /\ i <= Len(docRules) /\ docRules \in RuleDocuments
    BY <1>1 DEF FilterTyped, WalkInv
  <2>2. Len(docRules) \in Nat
    BY <2>1 DEF WellFormedTrees
  <2> QED BY <1>1, <2>1, <2>2
<1>5. CASE CreateRule(slots) /\ UNCHANGED <<handle, filters>>
  <2>1. OpenFilters' = OpenFilters
    BY <1>5 DEF OpenFilters
  <2>2. \A s \in DOMAIN slots : slots[s] \in FilterHandles /\ slots[s] \in OpenFilters' \cap Range(filters')
    <3>1. CASE root = None
      BY <3>1
    <3>2. CASE root # None
      <4>1. root \in Range(filters)
        BY <1>1, <3>2 DEF LiveInv
      <4>2. root \in OpenFilters /\ root \in FilterHandles
        BY <4>1 DEF OwnedInv, OpenFilters
      <4> QED BY <1>5, <2>1, <3>2, <4>1, <4>2
    <3> QED BY <3>1, <3>2
  <2> HIDE DEF slots
  <2>3. RuleFiltersLive' /\ \A r \in created' : r.rule \in 1..Len(docRules')
    BY <1>1, <1>5, <2>1, <2>2, CreateRuleLive
  <2>4. FilterTyped'
    BY <1>1, <1>4, <1>5, <2>3 DEF FilterTyped
  <2>5. OwnedInv'
    BY <1>1, <1>2, <1>5, <2>1 DEF OwnedInv
  <2>6. LiveInv'
    BY <1>1, <1>5, <2>3 DEF LiveInv
  <2> QED BY <1>3, <2>4, <2>5, <2>6
<1>6. CASE \E h \in Fresh : /\ Open(h) /\ filters' = Append(filters, h)
                              /\ CreateRule([s \in {"image"} |-> h])
  <2>1. PICK h \in Fresh : /\ Open(h) /\ filters' = Append(filters, h)
                             /\ CreateRule([s \in {"image"} |-> h])
    BY <1>6
  <2>2. /\ h \in FilterHandles /\ h \notin OpenFilters
        /\ OpenFilters' = OpenFilters \cup {h}
        /\ handle' \in [FilterHandles -> {"none", "open", "closed", "closed twice"}]
        /\ \A g \in FilterHandles : handle'[g] # "closed twice"
    BY <2>1, FreshIsNew
  <2>3. /\ filters' \in Seq(FilterHandles)
        /\ \A j, k \in 1..Len(filters') : filters'[j] = filters'[k] => j = k
    BY <2>1, <2>2, OneMore DEF OwnedInv
  <2>4. Range(filters') = Range(filters) \cup {h}
    BY <2>1, <2>2, RangeAppend DEF FilterTyped
  <2>5. RuleFiltersLive' /\ \A r \in created' : r.rule \in 1..Len(docRules')
    <3> DEFINE leaf == [s \in {"image"} |-> h]
    <3>1. \A s \in DOMAIN leaf : leaf[s] \in FilterHandles /\ leaf[s] \in OpenFilters' \cap Range(filters')
      BY <2>2, <2>4
    <3>2. CreateRule(leaf)
      BY <2>1
    <3> HIDE DEF leaf
    <3> QED BY <1>1, <2>2, <2>4, <3>1, <3>2, CreateRuleLive
  <2>6. FilterTyped'
    BY <1>1, <1>4, <2>2, <2>3, <2>5 DEF FilterTyped
  <2>7. OwnedInv'
    <3>1. Range(filters') \subseteq OpenFilters'
      BY <2>2, <2>4 DEF OwnedInv
    <3>2. lacking' = {} => OpenFilters' \subseteq Range(filters') \cup LocalHandles'
      BY <1>1, <1>2, <2>2, <2>4 DEF OwnedInv
    <3> QED BY <2>2, <2>3, <3>1, <3>2 DEF OwnedInv
  <2>8. LiveInv'
    <3>1. \A g \in FilterHandles : parts'[g] \subseteq Range(filters')
      BY <1>1, <2>4 DEF LiveInv
    <3> QED BY <1>1, <2>5, <3>1 DEF LiveInv
  <2> QED BY <1>3, <2>6, <2>7, <2>8
<1> QED BY <1>5, <1>6 DEF AttachFilterToDescriptor

\* filters_ holds no handle twice, so CloseOwned closes each handle once.
LEMMA ClosesOnce ==
  ASSUME FilterInv, DisconnectFilters, "EspCloseFilter" \notin lacking
  PROVE  handle' = Shut(handle, Range(filters))
<1>1. ASSUME NEW h \in FilterHandles
      PROVE  ~(Cardinality({k \in DOMAIN filters : filters[k] = h}) > 1)
  <2> DEFINE ks == {k \in DOMAIN filters : filters[k] = h}
  <2>1. \A j, k \in ks : j = k
    <3>1. filters \in Seq(FilterHandles)
      BY DEF FilterInv, FilterTyped
    <3>2. DOMAIN filters = 1..Len(filters)
      BY <3>1
    <3> QED BY <3>2 DEF FilterInv, OwnedInv
  <2> HIDE DEF ks
  <2>2. CASE ks = {}
    <3>1. Cardinality(ks) = Cardinality({})
      BY <2>2, Zenon
    <3>2. Cardinality(ks) = 0
      BY <3>1, FS_EmptySet
    <3> QED BY <3>2 DEF ks
  <2>3. CASE ks # {}
    <3>1. PICK k : k \in ks
      BY <2>3
    <3>2. ks = {k}
      BY <2>1, <3>1
    <3>3. Cardinality(ks) = 1
      BY <3>2, FS_Singleton, Zenon
    <3> QED BY <3>3 DEF ks
  <2> QED BY <2>2, <2>3
<1>2. handle' = [h \in FilterHandles |->
                   IF Cardinality({k \in DOMAIN filters : filters[k] = h}) > 1
                     THEN "closed twice" ELSE Shut(handle, Range(filters))[h]]
  BY DEF DisconnectFilters
<1>3. handle' = [h \in FilterHandles |-> Shut(handle, Range(filters))[h]]
  BY <1>1, <1>2
<1> QED BY <1>3 DEF Shut

\* Disconnect preserves the invariant, the first time and the second.
LEMMA DisconnectInv ==
  ASSUME FilterInv, DisconnectFilters
  PROVE  FilterInv'
<1> USE DEF FilterInv
<1>1. /\ \/ stage = "rule" /\ stage' = "closing"
         \/ stage = "disconnected" /\ stage' = "closing again"
      /\ filters' = <<>>
      /\ UNCHANGED <<lacking, docRules, i, path, built, parts, refused, created>>
  BY DEF DisconnectFilters
<1>2. Held = {} /\ Held' = {} /\ LocalHandles = {} /\ Range(filters') = {}
  <2>1. ~Walking /\ ~Walking'
    BY <1>1 DEF Walking
  <2>2. Held = {} /\ Held' = {} /\ LocalHandles = {}
    BY <2>1 DEF Held, LocalHandles
  <2>3. filters' = <<>>
    BY <1>1
  <2> QED BY <2>2, <2>3 DEF Range
<1>b. stage' \in Disconnecting
  BY <1>1
<1>a. /\ filters' \in Seq(FilterHandles) /\ \A r \in created' : r.rule \in 1..Len(docRules')
      /\ \A j, k \in 1..Len(filters') : filters'[j] = filters'[k] => j = k
  <2>1. filters' = <<>> /\ created' = created /\ docRules' = docRules
    BY <1>1
  <2>2. /\ filters' \in Seq(FilterHandles)
        /\ \A j, k \in 1..Len(filters') : filters'[j] = filters'[k] => j = k
    BY <2>1
  <2>3. \A r \in created' : r.rule \in 1..Len(docRules')
    BY <2>1, Zenon DEF FilterTyped
  <2> QED BY <2>2, <2>3
<1>3. WalkInv' /\ HeldInv'
  BY <1>1, <1>2 DEF WalkInv, HeldInv, Walking
<1>4. LiveInv'
  <2>1. CASE stage = "rule"
    <3>1. ASSUME NEW r \in created PROVE Range(r.slots) \subseteq FilterHandles
      BY <2>1 DEF LiveInv, RuleFiltersLive, OpenFilters, Range
    <3>2. stage' = "closing" /\ created' = created
      BY <1>1, <2>1
    <3> QED BY <3>1, <3>2 DEF LiveInv, RuleFiltersLive
  <2>2. CASE stage = "disconnected"
    BY <1>1, <2>2 DEF LiveInv, RuleFiltersLive
  <2> QED BY <1>1, <2>1, <2>2
<1>5. CASE "EspCloseFilter" \in lacking
  <2>1. handle' = handle
    BY <1>5 DEF DisconnectFilters
  <2>2. FilterTyped'
    BY <1>1, <1>a, <1>b, <2>1 DEF FilterTyped
  <2>3. OwnedInv'
    <3>1. Range(filters') \subseteq OpenFilters' /\ lacking' # {}
      BY <1>1, <1>2, <1>5
    <3>2. \A h \in FilterHandles : handle'[h] # "closed twice"
      BY <2>1 DEF OwnedInv
    <3> QED BY <1>a, <3>1, <3>2 DEF OwnedInv
  <2> QED BY <1>3, <1>4, <2>2, <2>3
<1>6. CASE "EspCloseFilter" \notin lacking
  <2>1. handle' = Shut(handle, Range(filters))
    BY <1>6, ClosesOnce
  <2>2. /\ handle' \in [FilterHandles -> {"none", "open", "closed", "closed twice"}]
        /\ OpenFilters' = OpenFilters \ Range(filters)
        /\ \A h \in FilterHandles : handle'[h] # "closed twice"
    BY <2>1 DEF Shut, OpenFilters, OwnedInv, FilterTyped
  <2>3. FilterTyped'
    BY <1>1, <1>a, <1>b, <2>2 DEF FilterTyped
  <2>4. OwnedInv'
    <3>1. Range(filters') \subseteq OpenFilters'
      BY <1>2
    <3>2. lacking' = {} => OpenFilters' = {}
      BY <1>1, <1>2, <2>2 DEF OwnedInv
    <3> QED BY <1>a, <2>2, <3>1, <3>2 DEF OwnedInv
  <2> QED BY <1>3, <1>4, <2>3, <2>4
<1> QED BY <1>5, <1>6

\* So does closing the rules.
LEMMA DisconnectRulesInv ==
  ASSUME FilterInv, DisconnectRules
  PROVE  FilterInv'
<1> USE DEF FilterInv
<1>1. /\ \/ stage = "closing" /\ stage' = "disconnected"
         \/ stage = "closing again" /\ stage' = "end"
      /\ created' = {}
      /\ UNCHANGED <<lacking, docRules, i, path, built, handle, parts, filters, refused>>
  BY DEF DisconnectRules
<1>2. Held = {} /\ Held' = {} /\ OpenFilters' = OpenFilters /\ LocalHandles' = LocalHandles
  BY <1>1 DEF Held, Walking, OpenFilters, LocalHandles
<1>3. FilterTyped'
  BY <1>1 DEF FilterTyped
<1>4. WalkInv' /\ HeldInv'
  BY <1>1, <1>2 DEF WalkInv, HeldInv, Walking
<1>5. OwnedInv'
  BY <1>1, <1>2 DEF OwnedInv
<1>6. LiveInv'
  BY <1>1 DEF LiveInv, RuleFiltersLive
<1> QED BY <1>3, <1>4, <1>5, <1>6

\* Every step preserves the invariant.
LEMMA FilterInvStep ==
  ASSUME WellFormedTrees
  PROVE  FilterInv /\ [FilterNext]_filterVars => FilterInv'
<1> SUFFICES ASSUME FilterInv, [FilterNext]_filterVars PROVE FilterInv'
  OBVIOUS
<1>1. CASE UNCHANGED filterVars
  <2>1. Held' = Held /\ OpenFilters' = OpenFilters
    BY <1>1 DEF Held, Walking, OpenFilters, filterVars
  <2>2. FilterTyped' /\ WalkInv'
    BY <1>1 DEF FilterInv, FilterTyped, WalkInv, Walking, tree, filterVars
  <2>3. HeldInv' /\ OwnedInv'
    <3>1. UNCHANGED <<lacking, filters, built, handle>>
      BY <1>1 DEF filterVars
    <3>2. LocalHandles' = LocalHandles
      BY <2>1, <3>1 DEF LocalHandles
    <3>3. HeldInv'
      BY <2>1, <3>1 DEF FilterInv, HeldInv
    <3> QED BY <2>1, <3>1, <3>2, <3>3 DEF FilterInv, OwnedInv
  <2>4. LiveInv'
    BY <1>1, <2>1 DEF FilterInv, LiveInv, RuleFiltersLive, filterVars
  <2> QED BY <2>2, <2>3, <2>4 DEF FilterInv
<1>2. CASE FilterNext
  BY <1>1, <1>2, StartRuleInv, CreateLeafInv, VisitChildrenInv, VisitSecondInv, ChildFailedInv,
     CreateBinaryInv, CreateNotInv, RuleFilterFailedInv, RuleFilterBuiltInv, AttachInv, DisconnectInv,
     DisconnectRulesInv DEF FilterNext, Ended
<1> QED BY <1>1, <1>2

\* The filter invariant holds for every document of well-formed trees, every
\* set of handles and whatever exports are missing.
THEOREM FilterInvariant == FilterSpec => []FilterInv
<1>1. FilterInit => FilterInv
  BY FilterInvInit, TreesAssumption
<1>2. FilterInv /\ [FilterNext]_filterVars => FilterInv'
  BY FilterInvStep, TreesAssumption
<1> QED BY <1>1, <1>2, PTL DEF FilterSpec

\* No filter handle is closed twice, and with no export missing none is lost:
\* between rules and after Disconnect the open handles are those of filters_,
\* whatever create call of the recursion failed.
THEOREM FiltersAlwaysOwned == FilterSpec => []FiltersOwned
<1>1. FilterInv => FiltersOwned
  <2> SUFFICES ASSUME FilterInv PROVE FiltersOwned
    OBVIOUS
  <2>1. stage \in {"rule"} \cup Disconnecting => LocalHandles = {}
    BY DEF LocalHandles, Held, Walking
  <2> QED BY <2>1 DEF FilterInv, OwnedInv, FiltersOwned
<1> QED BY <1>1, FilterInvariant, PTL

\* The handles in a created rule's descriptor, and the handles they were
\* combined from, are open and owned until Disconnect closes filters_, and no
\* rule is left once it has closed rules_.
THEOREM RuleFiltersAlwaysLive == FilterSpec => []RuleFiltersLive
<1>1. FilterInv => RuleFiltersLive
  BY DEF FilterInv, LiveInv
<1> QED BY <1>1, FilterInvariant, PTL

\* The types of the walk's state.
THEOREM FilterTypesCorrect == FilterSpec => []FilterTypeOK
<1>1. FilterInv => FilterTypeOK
  <2> SUFFICES ASSUME FilterInv PROVE FilterTypeOK
    OBVIOUS
  <2>1. ASSUME NEW r \in created PROVE Range(r.slots) \subseteq FilterHandles
    BY DEF FilterInv, LiveInv, RuleFiltersLive, OpenFilters, Range
  <2> QED BY <2>1 DEF FilterInv, FilterTyped, WalkInv, Walking, FilterTypeOK
<1> QED BY <1>1, FilterInvariant, PTL
================================================================================
