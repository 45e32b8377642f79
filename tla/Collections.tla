------------------------------ MODULE Collections -------------------------------
(***************************************************************************)
(* Collections of one EspSession: the ones that InstallRules makes from a  *)
(* document before it builds the document's filters, over several installs *)
(* in the same session, and the ones of the collections command.  From     *)
(* Connect to Disconnect.                                                  *)
(*                                                                         *)
(* espclient.dll is external: a collection handle is an address, free for  *)
(* reuse once closed; a call succeeds, fails, or succeeds with a null      *)
(* handle, which Adopt refuses.                                            *)
(***************************************************************************)
EXTENDS Naturals, Sequences, SequencesExt

CONSTANTS
  Handles,         \* addresses the create and open exports may return
  Null,            \* the null handle
  Documents,       \* documents a session may install: [colls, filter]
  Commands,        \* command lines of the run
  MaxInstalls      \* bound on the installs of one session

IsVector(s) == s \in Seq(Range(s))

WellFormedDocuments ==
  \A d \in Documents : IsVector(d.colls) /\ \A s \in Range(d.colls) : IsVector(s.entries)

ASSUME HandleAssumption    == Null \notin Handles
ASSUME InstallAssumption   == MaxInstalls \in Nat
ASSUME DocumentsAssumption == WellFormedDocuments

NoUse == [handle |-> Null, install |-> 0, name |-> ""]

VARIABLES
  cmd, missing,          \* the command; the exports the library lacks
  pc, exit,
  installs, doc,         \* installs begun; the document of the last one
  spec, entry,           \* loop positions of InstallDocumentCollections
  allOk,                 \* all_ok there, ok in ExerciseCollectionsExtended
  collection,            \* the local handle
  createdId,             \* EspGetCollectionId filled created_id
  owned, named,          \* collections_, named_collections_
  open, content,         \* external: open handles; what each was made as
  stale, used, did       \* history: a closed handle was used; the handle a
                         \* filter was given; what the command achieved

library == <<open, content, stale>>
loop    == <<installs, doc, spec, entry>>
vars == <<cmd, missing, pc, exit, loop, allOk, collection, createdId, owned, named,
          library, used, did>>

--------------------------------------------------------------------------------
(***************************************************************************)
(* Entries.  A binary entry is a sequence of "h" (hex digit), "-" (one of  *)
(* the separators) and "x" (anything else); the others are classes.        *)
(***************************************************************************)
ParseHexBytes(text) ==
  LET hex == SelectSeq(text, LAMBDA ch : ch # "-") IN
    /\ hex # << >> /\ Len(hex) % 2 = 0
    /\ \A i \in DOMAIN hex : hex[i] = "h"

\* An entry that reaches EspUpdateCollection: a number, hex bytes, or a text
\* that expands to something of at most kMaxUtf16Bytes.
EntryUsable(type, e) ==
  CASE type = 1 -> e = <<"num">>
    [] type = 3 -> ParseHexBytes(e)
    [] OTHER    -> e = <<"text">>

\* The create descriptor: type and string subtype, all other bytes zero.
WriteCollectionCreateDesc(type) == [type |-> type, subtype |-> 1, lifetime |-> 0]

--------------------------------------------------------------------------------
Init ==
  /\ cmd \in Commands /\ missing \in SUBSET {"create", "open", "close"}
  /\ pc = "connect" /\ exit = 1
  /\ installs = 0 /\ doc = [colls |-> << >>, filter |-> ""] /\ spec = 1 /\ entry = 1
  /\ allOk = FALSE /\ collection = Null /\ createdId = FALSE
  /\ owned = << >> /\ named = << >>
  /\ open = {} /\ content = [h \in Handles |-> Null]
  /\ stale = FALSE /\ used = NoUse /\ did = {}

Goto(from, to) == pc = from /\ pc' = to

Uses(h) == stale' = (stale \/ h \notin open)

\* Adopt, for a handle made as info.
Adopt(outcome, h, info) ==
  IF outcome = "ok"
  THEN /\ h \in Handles \ open /\ open' = open \cup {h} /\ collection' = h
       /\ content' = [content EXCEPT ![h] = info]
  ELSE h = Null /\ collection' = Null /\ UNCHANGED <<open, content>>

Owns(outcome, h) == owned' = IF outcome = "ok" THEN Append(owned, h) ELSE owned

\* EspUpdateCollection adds entry e.
Update(ok, e) ==
  /\ Uses(collection) /\ open' = open
  /\ content' = IF ok THEN [content EXCEPT ![collection].entries = Append(@, e)] ELSE content

Made(type) ==
  [desc |-> WriteCollectionCreateDesc(type), install |-> installs, spec |-> spec,
   opened |-> FALSE, entries |-> << >>]

Opened == [Made(0) EXCEPT !.opened = TRUE]

OpenNamedCollection(outcome, h, isNull) ==
  /\ isNull \/ "open" \in missing => outcome = "fail"
  /\ Adopt(outcome, h, Opened) /\ Owns(outcome, h) /\ stale' = stale

FindNamedCollection(name) ==
  LET k == SelectInSeq(named, LAMBDA pair : pair[1] = name) IN
    IF k = 0 THEN Null ELSE named[k][2]

--------------------------------------------------------------------------------
(***************************************************************************)
(* Connect.  The plain collections command goes on without a client, and   *)
(* CreateStringCollection then refuses; its exit code is 0 whatever fails. *)
(***************************************************************************)
Connect(ok) ==
  /\ pc = "connect"
  /\ pc' = IF ok /\ cmd.name = "install" THEN "ready"
           ELSE IF ok /\ cmd.guid # "bad" THEN "create" ELSE "disconnect"
  /\ exit' = IF cmd.name = "plain" THEN 0 ELSE 1
  /\ UNCHANGED <<cmd, missing, loop, allOk, collection, createdId, owned, named,
                 library, used, did>>

--------------------------------------------------------------------------------
(***************************************************************************)
(* InstallRules of a document, as far as its collections.                  *)
(***************************************************************************)
\* Fault: the names of the previous document are kept.
BeginInstall_KeepsNames(d) ==
  /\ pc = "ready" /\ installs < MaxInstalls /\ cmd.name = "install"
  /\ doc' = d /\ installs' = installs + 1 /\ spec' = 1 /\ entry' = 1
  /\ named' = named /\ used' = NoUse
  /\ \/ "create" \in missing /\ allOk' = (d.colls = << >>) /\ pc' = "installed"
     \/ "create" \notin missing /\ allOk' = TRUE /\ pc' = "spec"
  /\ UNCHANGED <<cmd, missing, exit, collection, createdId, owned, library, did>>

\* A library without the exports satisfies a document without collections.
BeginInstall(d) ==
  /\ pc = "ready" /\ installs < MaxInstalls /\ cmd.name = "install"
  /\ doc' = d /\ installs' = installs + 1 /\ spec' = 1 /\ entry' = 1
  /\ named' = << >> /\ used' = NoUse
  /\ \/ "create" \in missing /\ allOk' = (d.colls = << >>) /\ pc' = "installed"
     \/ "create" \notin missing /\ allOk' = TRUE /\ pc' = "spec"
  /\ UNCHANGED <<cmd, missing, exit, collection, createdId, owned, library, did>>

InSpec(where) == pc = where /\ spec \in DOMAIN doc.colls

OpenSpec(outcome, h) ==
  /\ InSpec("spec") /\ doc.colls[spec].open
  /\ OpenNamedCollection(outcome, h, doc.colls[spec].guid = "null")
  /\ \/ outcome = "ok" /\ pc' = "name" /\ UNCHANGED <<spec, allOk>>
     \/ outcome # "ok" /\ pc' = "spec" /\ spec' = spec + 1 /\ allOk' = FALSE
  /\ UNCHANGED <<cmd, missing, exit, installs, doc, entry, createdId, named, used, did>>

CreateSpec(outcome, h) ==
  /\ InSpec("spec") /\ ~doc.colls[spec].open
  /\ Adopt(outcome, h, Made(doc.colls[spec].type)) /\ Owns(outcome, h) /\ entry' = 1
  /\ \/ outcome = "ok" /\ pc' = "entries" /\ UNCHANGED <<spec, allOk>>
     \/ outcome # "ok" /\ pc' = "spec" /\ spec' = spec + 1 /\ allOk' = FALSE
  /\ UNCHANGED <<cmd, missing, exit, installs, doc, createdId, named, stale, used, did>>

\* A bad entry is skipped with a warning, a refused one recorded; the next entry
\* follows either way.
UpdateSpec(ok) ==
  /\ InSpec("entries") /\ entry \in DOMAIN doc.colls[spec].entries
  /\ LET s == doc.colls[spec] IN
     \/ /\ EntryUsable(s.type, s.entries[entry]) /\ Update(ok, s.entries[entry])
        /\ allOk' = (allOk /\ ok)
     \/ /\ ~EntryUsable(s.type, s.entries[entry]) /\ ~ok
        /\ allOk' = FALSE /\ UNCHANGED library
  /\ pc' = pc /\ entry' = entry + 1
  /\ UNCHANGED <<cmd, missing, exit, installs, doc, spec, collection, createdId,
                 owned, named, used, did>>

\* Named even when entries failed.
NameSpec ==
  /\ \/ InSpec("name")
     \/ InSpec("entries") /\ entry > Len(doc.colls[spec].entries)
  /\ named' = IF doc.colls[spec].name = "" THEN named
              ELSE Append(named, <<doc.colls[spec].name, collection>>)
  /\ pc' = "spec" /\ spec' = spec + 1
  /\ UNCHANGED <<cmd, missing, exit, installs, doc, entry, allOk, collection,
                 createdId, owned, library, used, did>>

EndSpecs ==
  /\ pc = "spec" /\ spec > Len(doc.colls) /\ pc' = "installed"
  /\ UNCHANGED <<cmd, missing, exit, loop, allOk, collection, createdId, owned,
                 named, library, used, did>>

\* A failed InstallDocumentCollections fails the install: no filter is built.
InstallFails ==
  /\ Goto("installed", "ready") /\ ~allOk
  /\ UNCHANGED <<cmd, missing, exit, loop, allOk, collection, createdId, owned,
                 named, library, used, did>>

\* The collection comparand of a filter leaf; an unknown name is no filter.
BuildFilter ==
  /\ Goto("installed", "ready") /\ allOk /\ doc.filter # "value"
  /\ LET h == FindNamedCollection(doc.filter) IN
     \/ h = Null /\ UNCHANGED <<stale, used>>
     \/ /\ h # Null /\ Uses(h)
        /\ used' = [handle |-> h, install |-> installs, name |-> doc.filter]
  /\ UNCHANGED <<cmd, missing, exit, loop, allOk, collection, createdId, owned,
                 named, open, content, did>>

\* A leaf with a value and no name makes a collection of its own.
InlineFilter(outcome, h) ==
  /\ Goto("installed", "inline") /\ allOk /\ doc.filter = "value"
  /\ "create" \in missing => outcome = "fail"
  /\ Adopt(outcome, h, [Made(2) EXCEPT !.spec = 0]) /\ Owns(outcome, h)
  /\ UNCHANGED <<cmd, missing, exit, loop, allOk, createdId, named, stale, used, did>>

InlineUpdate(ok) ==
  /\ Goto("inline", "ready")
  /\ \/ collection = Null /\ ~ok /\ UNCHANGED library
     \/ collection # Null /\ Update(ok, <<"text">>)
  /\ UNCHANGED <<cmd, missing, exit, loop, allOk, collection, createdId, owned,
                 named, used, did>>

--------------------------------------------------------------------------------
(***************************************************************************)
(* The collections command: ExerciseCollections and the extended form.     *)
(***************************************************************************)
\* The value types 1 and 3; every other number makes a string collection.
CreateType == IF cmd.type \in {1, 3} THEN cmd.type ELSE 2

Create(outcome, h) ==
  /\ pc = "create"
  /\ ("create" \in missing \/ (cmd.name = "plain" /\ "close" \in missing))
       => outcome = "fail"
  /\ Adopt(outcome, h, Made(CreateType)) /\ Owns(outcome, h)
  /\ pc' = IF outcome = "ok" THEN "update" ELSE "disconnect"
  /\ UNCHANGED <<cmd, missing, exit, loop, allOk, createdId, named, stale, used, did>>

\* Fault: a refused entry does not end the command.
FirstEntry_Ignored(ok) ==
  /\ pc = "update" /\ Update(ok, <<"text">>)
  /\ pc' = IF cmd.name = "plain" THEN "close" ELSE "id"
  /\ allOk' = TRUE /\ did' = IF ok THEN did \cup {"filled"} ELSE did
  /\ UNCHANGED <<cmd, missing, exit, loop, collection, createdId, owned, named, used>>

FirstEntry(ok) ==
  /\ pc = "update" /\ Update(ok, <<"text">>)
  /\ pc' = IF ~ok THEN "disconnect" ELSE IF cmd.name = "plain" THEN "close" ELSE "id"
  /\ allOk' = ok /\ did' = IF ok THEN did \cup {"filled"} ELSE did
  /\ UNCHANGED <<cmd, missing, exit, loop, collection, createdId, owned, named, used>>

\* EspGetCollectionId, EspGetCollectionType and EspEnumerateCollectionEntries,
\* whose results only count where created_id is used.
Inspect(gotId) ==
  /\ Goto("id", "ids") /\ createdId' = gotId /\ Uses(collection)
  /\ UNCHANGED <<cmd, missing, exit, loop, allOk, collection, owned, named, open,
                 content, used, did>>

\* Only with --enum-ids; a lifetime outside 1..3 is refused.
EnumerateCollectionIds(ok) ==
  /\ Goto("ids", "open")
  /\ \/ ~cmd.enum /\ ok /\ UNCHANGED <<allOk, did>>
     \/ /\ cmd.enum /\ (ok => cmd.lifetime \in 1..3)
        /\ allOk' = (allOk /\ ok)
        /\ did' = IF ok THEN did \cup {"ids"} ELSE did
  /\ UNCHANGED <<cmd, missing, exit, loop, collection, createdId, owned, named,
                 library, used>>

WantsOpen == cmd.open \/ cmd.guid # "none"

\* Opens the GUID of the command line, or the created collection again.
OpenAgain(outcome, h) ==
  /\ Goto("open", "disconnect")
  /\ \/ /\ ~WantsOpen /\ outcome = "fail" /\ h = Null
        /\ exit' = IF allOk THEN 0 ELSE 1
        /\ UNCHANGED <<owned, library, collection, did>>
     \/ /\ WantsOpen
        /\ OpenNamedCollection(outcome, h, IF cmd.guid # "none" THEN cmd.guid = "null"
                                                             ELSE ~createdId)
        /\ exit' = IF allOk /\ outcome = "ok" THEN 0 ELSE 1
        /\ did' = IF outcome = "ok" THEN did \cup {"opened"} ELSE did
  /\ UNCHANGED <<cmd, missing, loop, allOk, createdId, named, used>>

\* Fault: collections_ keeps the handle that was closed.
CloseExercised_Kept ==
  /\ Goto("close", "disconnect") /\ Uses(collection)
  /\ open' = open \ {collection} /\ owned' = owned
  /\ UNCHANGED <<cmd, missing, exit, loop, allOk, collection, createdId, named,
                 content, used, did>>

\* ExerciseCollections inspects and closes its collection, then clears
\* collections_.
CloseExercised ==
  /\ Goto("close", "disconnect") /\ Uses(collection)
  /\ open' = open \ {collection} /\ owned' = << >>
  /\ UNCHANGED <<cmd, missing, exit, loop, allOk, collection, createdId, named,
                 content, used, did>>

--------------------------------------------------------------------------------
Stop ==
  /\ Goto("ready", "disconnect") /\ exit' = 0
  /\ UNCHANGED <<cmd, missing, loop, allOk, collection, createdId, owned, named,
                 library, used, did>>

\* Disconnect: CloseOwned over collections_, then the names go.
Disconnect ==
  /\ Goto("disconnect", "done")
  /\ open' = IF "close" \in missing THEN open ELSE open \ Range(owned)
  /\ stale' = (stale \/ ("close" \notin missing /\ ~(Range(owned) \subseteq open)))
  /\ owned' = << >> /\ named' = << >> /\ used' = NoUse
  /\ UNCHANGED <<cmd, missing, exit, loop, allOk, collection, createdId, content, did>>

Outcomes == {"ok", "null", "fail"}

Next ==
  \/ \E ok \in BOOLEAN :
       Connect(ok) \/ UpdateSpec(ok) \/ InlineUpdate(ok) \/ FirstEntry(ok)
         \/ Inspect(ok) \/ EnumerateCollectionIds(ok)
  \/ \E outcome \in Outcomes, h \in Handles \cup {Null} :
       OpenSpec(outcome, h) \/ CreateSpec(outcome, h) \/ InlineFilter(outcome, h)
         \/ Create(outcome, h) \/ OpenAgain(outcome, h)
  \/ \E d \in Documents : BeginInstall(d)
  \/ NameSpec \/ EndSpecs \/ InstallFails \/ BuildFilter
  \/ CloseExercised \/ Stop \/ Disconnect

Spec == Init /\ [][Next]_vars

--------------------------------------------------------------------------------
(***************************************************************************)
(* Properties.                                                             *)
(***************************************************************************)
\* Types of the session's state.
TypeOK ==
  /\ missing \subseteq {"create", "open", "close"} /\ exit \in {0, 1}
  /\ installs \in 0..MaxInstalls /\ allOk \in BOOLEAN /\ createdId \in BOOLEAN
  /\ collection \in Handles \cup {Null} /\ owned \in Seq(Handles)
  /\ open \subseteq Handles /\ stale \in BOOLEAN

\* A filter leaf that names a collection is given the one that its own document
\* declares first under that name, still open and holding every entry of the
\* declaration: never the collection of an earlier document of the session, and
\* never one of which an entry was skipped or refused.
FilterGetsItsCollection ==
  used # NoUse =>
    LET made == content[used.handle]
        mine == SelectInSeq(doc.colls, LAMBDA s : s.name = used.name) IN
      /\ used.handle \in open
      /\ made.install = used.install /\ made.spec = mine
      /\ \/ made.opened
         \/ made.entries = doc.colls[mine].entries

\* Whatever failed, an ended session has no collection open that the library can
\* close: failed entries, failed installs and repeated installs leave their
\* collections to Disconnect, which closes them; and no call, and no second
\* close, gets a handle that was closed.
ClosedOnceByTheEnd ==
  /\ pc = "done" /\ "close" \notin missing => open = {}
  /\ ~stale

\* Exit code 0 of the extended collections command says that the collection was
\* made and filled and that everything asked for beside it was done.
ExtendedHonest ==
  pc = "done" /\ cmd.name = "extended" /\ exit = 0 =>
    /\ "filled" \in did
    /\ cmd.enum => "ids" \in did
    /\ WantsOpen => "opened" \in did

--------------------------------------------------------------------------------
(***************************************************************************)
(* Statements of the repository's documents that the code does not meet:   *)
(* README.md, "Statements the code does not meet".                         *)
(***************************************************************************)
\* src/README.md:428: the collection is made with the lifetime of the command line.
LifetimeAsked ==
  \A h \in open : cmd.name = "extended" /\ ~content[h].opened
                    => content[h].desc.lifetime = cmd.lifetime
================================================================================
