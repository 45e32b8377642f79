---------------------------- MODULE MCCollections -------------------------------
(***************************************************************************)
(* Instances of Collections.                                               *)
(***************************************************************************)
EXTENDS Collections

CONSTANTS h1, h2, h3, h4

Spec0(name, type, entries) ==
  [name |-> name, type |-> type, entries |-> entries, open |-> FALSE, guid |-> "none"]

\* Two declarations of one name; a bad entry; an opened collection with and
\* without a usable GUID (the parser refuses none at all); no collection, with a
\* filter that names one or makes its own.
MCDocuments ==
  {[colls |-> <<Spec0("a", 2, <<<<"text">>>>), Spec0("a", 1, <<<<"num">>>>)>>, filter |-> "a"],
   [colls |-> <<Spec0("a", 1, <<<<"num">>, <<"bad">>>>)>>, filter |-> "a"],
   [colls |-> <<Spec0("a", 3, <<<<"h", "h", "-", "h", "h">>>>)>>, filter |-> "a"],
   [colls |-> <<Spec0("", 3, <<<<"h", "-">>>>)>>, filter |-> "value"],
   [colls |-> <<[Spec0("a", 2, << >>) EXCEPT !.open = TRUE, !.guid = "ok"]>>, filter |-> "a"],
   [colls |-> <<[Spec0("b", 2, << >>) EXCEPT !.open = TRUE, !.guid = "null"]>>, filter |-> "b"],
   [colls |-> << >>, filter |-> "a"],
   [colls |-> << >>, filter |-> "value"]}

Extended ==
  [name : {"extended"}, type : {1, 2, 3, 9}, open : BOOLEAN,
   guid : {"none", "ok", "null", "bad"}, lifetime : {0, 1, 3}, enum : BOOLEAN]

Base(name) ==
  [name |-> name, type |-> 2, open |-> FALSE, guid |-> "none", lifetime |-> 1,
   enum |-> FALSE]

MCCommands == Extended \cup {Base("plain"), Base("install")}
================================================================================
