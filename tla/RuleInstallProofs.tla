--------------------------- MODULE RuleInstallProofs ---------------------------
(***************************************************************************)
(* Safety of RuleInstall for every set of handles, documents and roles:    *)
(* the inductive invariant and its proof, and then the refinement of       *)
(* InstallContract.                                                        *)
(***************************************************************************)
EXTENDS RuleInstall, SequenceTheorems, TLAPS

(***************************************************************************)
(* The inductive invariant.  During compaction the slots between the write *)
(* and the read position hold stale copies, so only the other slots of     *)
(* rules_ are live.  A slot is settled once its entry has been submitted.  *)
(***************************************************************************)
Live == IF phase = "compact" THEN (1 .. wr) \cup (k .. Len(rules))
                             ELSE 1 .. Len(rules)

Settled == CASE phase = "build"  -> 1 .. before
             [] phase = "submit" -> 1 .. (before + k - 1)
             [] OTHER            -> Live

LoopShape ==
  /\ phase = "build" =>
       /\ Len(rules) = before + Len(entries)
       /\ rejected = {}
       /\ \A j \in 1 .. Len(entries) : rules[before + j] = entries[j].rule
  /\ phase = "submit" =>
       /\ Len(rules) = before + Len(entries)
       /\ k <= Len(entries) + 1
       /\ \A j \in k .. Len(entries) :
            rules[before + j] = entries[j].rule /\ entries[j].rule \notin rejected
       /\ \A j \in 1 .. (k - 1) :
            entries[j].rule \notin rejected => entries[j] \in armed
  /\ phase = "compact" => before <= wr /\ wr < k /\ k <= Len(rules) + 1
  /\ phase \in {"connect", "queue", "remove", "closed", "gone"} => rules = <<>>

SlotsOwned ==
  /\ \A i \in Live : rules[i] # Null => rules[i] \in open
  /\ \A i, j \in Live : rules[i] = rules[j] /\ rules[i] # Null => i = j
  /\ hasCloseRule => \A h \in open : h \in stray \/ \E i \in Live : rules[i] = h
  /\ stray \subseteq open /\ \A i \in Live : rules[i] \notin stray
  /\ \A i \in Live : rules[i] = Null =>
       \/ phase = "submit" /\ i > before /\ i < before + k /\ rejected # {}
       \/ phase = "compact" /\ i >= k

SlotsArmed ==
  /\ \A e \in armed : \E i \in Settled : rules[i] = e.rule
  /\ \A i \in Settled : rules[i] # Null => \E e \in armed : e.rule = rules[i]

Anchored ==
  /\ \A e \in armed : e.sub # Null => \E f \in armed : f.rule = e.sub
  /\ phase \in {"build", "submit"} =>
       \A j \in 1 .. Len(entries) : entries[j].sub # Null =>
         \/ entries[j].anchor = Null /\ \E f \in armed : f.rule = entries[j].sub
         \/ /\ entries[j].anchor = entries[j].sub
            /\ \E i \in 1 .. (j - 1) : entries[i].rule = entries[j].sub

HandleInv == LoopShape /\ SlotsOwned /\ SlotsArmed /\ Anchored

IndInv == TypeOK /\ HandleInv
--------------------------------------------------------------------------------
(***************************************************************************)
(* Types.                                                                  *)
(***************************************************************************)
\* The selector a rule resolves to and the lifetime written to its descriptor
\* (the expressions InstallRules fills the descriptor with) are integers.
LEMMA DescriptorTypes ==
  ASSUME NEW spec \in RuleSpec
  PROVE  /\ Selector(spec) \in Int
         /\ value_or(spec.modifier_override, LifetimeToFfi(spec)) \in Int
<1> Unset \in Int
  BY DEF Unset
<1> spec.action \in Nat
  BY DEF RuleSpec
<1> spec.selector_override \in Nat \cup {Unset} /\ spec.modifier_override \in Nat \cup {Unset}
  BY DEF RuleSpec
<1>1. RawSelector(spec) \in Int
  BY U32Assumption DEF RawSelector, kActionQueueBacked
<1>2. NamedSelector(spec) \in Int
  BY <1>1 DEF NamedSelector, ActionSelectorForName, kActionDeny, kActionRewrite,
              kActionNotifySuppress
<1>3. QED
  BY <1>2 DEF Selector, value_or, LifetimeToFfi,
              kLifetimePersistFfi, kLifetimeTransientFfi

\* RunPersistRules changes only the lifetime: the document stays a document.
LEMMA CallerDocumentsType ==
  ASSUME NEW r \in Roles, NEW d \in CallerDocuments(r)
  PROVE  d \in Seq(RuleSpec)
<1>1. ASSUME NEW c \in Documents PROVE ForcePersistent(c) \in Seq(RuleSpec)
  <2>1. c \in Seq(RuleSpec)
    BY DocumentsAssumption
  <2>2. \A i \in 1 .. Len(c) : [c[i] EXCEPT !.lifetime = "Persistent"] \in RuleSpec
    <3> SUFFICES ASSUME NEW i \in 1 .. Len(c)
                 PROVE  [c[i] EXCEPT !.lifetime = "Persistent"] \in RuleSpec
      OBVIOUS
    <3>1. c[i] \in RuleSpec
      BY <2>1
    <3>2. QED
      BY <3>1 DEF RuleSpec
  <2>3. ForcePersistent(c) \in [1 .. Len(c) -> RuleSpec]
    BY <2>1, <2>2 DEF ForcePersistent
  <2>4. QED
    BY <2>1, <2>3
<1>2. CASE r = "persist"
  <2>1. PICK c \in Documents : d = ForcePersistent(c)
    BY <1>2 DEF CallerDocuments
  <2>2. QED
    BY <1>1, <2>1
<1>3. CASE r = "rules"
  BY <1>3, DocumentsAssumption DEF CallerDocuments
<1>4. CASE r = "service"
  <2>1. d = <<>>
    BY <1>4 DEF CallerDocuments
  <2>2. QED
    BY <2>1
<1>5. QED
  BY <1>2, <1>3, <1>4, RolesAssumption

\* The entry built for a rule is an Entry.
LEMMA NewEntryType ==
  ASSUME TypeOK, LoopShape, Building, NEW h \in Handles
  PROVE  NewEntry(h) \in Entry
<1>1. doc[k] \in RuleSpec
  BY DEF TypeOK, Building
<1>2. Len(rules) > before => entries[Len(entries)].rule \in Handles
  <2> SUFFICES ASSUME Len(rules) > before PROVE entries[Len(entries)].rule \in Handles
    OBVIOUS
  <2>1. Len(entries) \in 1 .. Len(entries)
    BY DEF TypeOK, LoopShape, Building
  <2>2. entries[Len(entries)] \in Entry
    BY <2>1 DEF TypeOK
  <2>3. QED
    BY <2>2 DEF Entry
<1>3. rules # <<>> => rules[Len(rules)] \in Handles \cup {Null}
  BY DEF TypeOK
<1>4. QED
  BY <1>1, <1>2, <1>3, DescriptorTypes DEF NewEntry, Entry, TypeOK

\* Every step of the session keeps the types.
LEMMA TypeStep == TypeOK /\ LoopShape /\ [Next]_vars => TypeOK'
<1> SUFFICES ASSUME TypeOK, LoopShape, [Next]_vars PROVE TypeOK'
  OBVIOUS
<1> USE DEF TypeOK
<1>1. CASE Connect
  BY <1>1 DEF Connect, callerVars, loopVars
<1>2. CASE CreateQueue
  BY <1>2 DEF CreateQueue, callerVars, loopVars, DocumentNeedsQueue
<1>3. CASE RemoveAllRules
  BY <1>3 DEF RemoveAllRules, callerVars, sessionVars, loopVars
<1>4. Requests \subseteq Seq(RuleSpec) /\ Returned \in {"ready", "end"}
  BY DocumentsAssumption DEF Requests, Returned
<1>5. CASE InstallRejected
  BY <1>4, <1>5 DEF InstallRejected, sessionVars
<1>6. CASE InstallBegin
  BY <1>4, <1>6 DEF InstallBegin, sessionVars
<1>7. CASE SkipRule
  <2>1. /\ k' = k + 1
        /\ UNCHANGED <<phase, callerVars, sessionVars, rules, entries, before,
                       committed, rejected, wr, open, armed, withdrawn, stray>>
    BY <1>7 DEF SkipRule
  <2>2. allOk' \in BOOLEAN
    BY <1>7, Zenon DEF SkipRule
  <2>3. QED
    BY <2>1, <2>2 DEF callerVars, sessionVars
<1>8. CASE PatchFails
  <2>1. /\ patch' = "failed" /\ k' = k + 1
        /\ UNCHANGED <<phase, callerVars, client, queue, compat, hasCloseRule, rules, entries,
                       before, committed, rejected, wr, open, armed, withdrawn, stray>>
    BY <1>8 DEF PatchFails
  <2>2. allOk' \in BOOLEAN
    BY <1>8, Zenon DEF PatchFails
  <2>3. QED
    BY <2>1, <2>2 DEF callerVars
<1>9. CASE CreateRuleFails
  <2>1. /\ patch' = PatchAfter(doc[k]) /\ k' = k + 1
        /\ UNCHANGED <<phase, callerVars, client, queue, compat, hasCloseRule, rules, entries,
                       before, committed, rejected, wr, open, armed, withdrawn, stray>>
    BY <1>9 DEF CreateRuleFails
  <2>2. allOk' \in BOOLEAN
    BY <1>9, Zenon DEF CreateRuleFails
  <2>3. patch' \in {"untried", "ok", "failed"}
    BY <2>1 DEF PatchAfter
  <2>4. QED
    BY <2>1, <2>2, <2>3 DEF callerVars
<1>10. CASE CreateRule
  <2>1. PICK h \in Handles \ open :
          /\ open' = open \cup {h}
          /\ rules' = Append(rules, h)
          /\ entries' = Append(entries, NewEntry(h))
    BY <1>10 DEF CreateRule
  <2>2. NewEntry(h) \in Entry
    BY <1>10, NewEntryType DEF CreateRule
  <2>3. rules' \in Seq(Handles \cup {Null}) /\ entries' \in Seq(Entry)
    BY <2>1, <2>2
  <2>4. QED
    BY <1>10, <2>1, <2>3 DEF CreateRule, callerVars, PatchAfter
<1>11. CASE BuildDone
  BY <1>4, <1>11 DEF BuildDone, sessionVars, loopVars
<1>12. CASE SubmitAccepted
  BY <1>12 DEF SubmitAccepted, Submitting, callerVars, sessionVars
<1>13. CASE SubmitRefused
  <2>1. entries[k] \in Entry
    BY <1>13 DEF SubmitRefused, Submitting
  <2>2. rules' \in Seq(Handles \cup {Null})
    <3>1. before + k \in 1 .. Len(rules)
      BY <1>13 DEF SubmitRefused, Submitting, LoopShape
    <3>2. QED
      BY <1>13, <3>1, ExceptSeq, Null \in Handles \cup {Null} DEF SubmitRefused
  <2>3. open' \subseteq Handles /\ rejected' \subseteq Handles
    BY <1>13, <2>1 DEF SubmitRefused, AfterClose, Entry
  <2>4. k' = k + 1 /\ UNCHANGED <<phase, callerVars, sessionVars, entries,
                                  before, allOk, committed, wr, armed, withdrawn, stray>>
    BY <1>13 DEF SubmitRefused
  <2>5. QED
    BY <2>2, <2>3, <2>4 DEF callerVars, sessionVars
<1>14. InstallStatus \in {"Complete", "Partial", "Failed"}
  BY DEF InstallStatus
<1>15. CASE SubmitDone
  BY <1>4, <1>14, <1>15 DEF SubmitDone, sessionVars
<1>16. CASE CompactSlot
  <2>1. rules' \in Seq(Handles \cup {Null})
    <3>1. wr + 1 \in 1 .. Len(rules) /\ rules[k] \in Handles \cup {Null}
      BY <1>16 DEF CompactSlot, LoopShape
    <3>2. [rules EXCEPT ![wr + 1] = rules[k]] \in Seq(Handles \cup {Null})
      BY <3>1, ExceptSeq
    <3>3. QED
      BY <1>16, <3>2 DEF CompactSlot
  <2>2. QED
    BY <1>16, <2>1 DEF CompactSlot, callerVars, sessionVars
<1>17. CASE CompactDone
  <2>1. SubSeq(rules, 1, wr) \in Seq(Handles \cup {Null})
    BY <1>17 DEF CompactDone, LoopShape
  <2>2. QED
    BY <1>4, <1>14, <1>17, <2>1 DEF CompactDone, sessionVars
<1>18. CASE Disconnect
  <2>1. rules' \in Seq(Handles \cup {Null}) /\ entries' \in Seq(Entry)
    BY <1>18 DEF Disconnect
  <2>2. open' \subseteq Handles
    BY <1>18 DEF Disconnect, AfterClose
  <2>3. QED
    BY <1>18, <2>1, <2>2 DEF Disconnect
<1>19. CASE Exercise
  <2>1. /\ withdrawn' \in {withdrawn, armed}
        /\ open' \subseteq Handles /\ stray' \subseteq Handles
        /\ UNCHANGED <<phase, callerVars, client, compat, hasCloseRule, patch, rules, k,
                       loopVars, armed>>
    BY <1>19 DEF Exercise
  <2>2. queue' \in BOOLEAN
    BY <1>19 DEF Exercise
  <2>3. QED
    BY <2>1, <2>2 DEF callerVars, loopVars
<1>20. CASE UNCHANGED vars
  BY <1>20 DEF vars
<1>21. QED
  BY <1>1, <1>2, <1>3, <1>5, <1>6, <1>7, <1>8, <1>9, <1>10, <1>11, <1>12,
     <1>13, <1>15, <1>16, <1>17, <1>18, <1>19, <1>20 DEF Next, Install, Terminated

--------------------------------------------------------------------------------
(***************************************************************************)
(* The parts of the invariant about handles, one lemma per group of steps. *)
(***************************************************************************)
\* Steps that move no handle: the connection, the queue, and the rules the
\* build loop refuses.
LEMMA QuietStep ==
  ASSUME TypeOK, HandleInv, UNCHANGED hasCloseRule,
         UNCHANGED <<rules, entries, before, rejected, wr, open, armed, stray>>,
         phase' = phase, phase = "build" \/ k' = k
  PROVE  HandleInv'
<1> USE DEF HandleInv
<1>1. Live' = Live /\ Settled' = Settled
  BY DEF Live, Settled
<1>2. LoopShape'
  BY DEF LoopShape
<1>3. SlotsOwned'
  BY <1>1 DEF SlotsOwned
<1>4. SlotsArmed'
  BY <1>1 DEF SlotsArmed
<1>5. Anchored'
  BY DEF Anchored
<1>6. QED
  BY <1>2, <1>3, <1>4, <1>5

\* Steps between installs, and the steps that enter or leave an install without
\* touching a handle: every slot is settled before and after.
LEMMA BetweenInstalls ==
  ASSUME TypeOK, HandleInv, UNCHANGED hasCloseRule,
         UNCHANGED <<rules, open, armed, stray>>,
         phase \in {"connect", "queue", "remove", "ready", "end"},
         phase' \in {"queue", "remove", "ready", "end"},
         phase' \in {"queue", "remove"} => phase \in {"connect", "queue"}
  PROVE  HandleInv'
<1> USE DEF HandleInv
<1>1. Live' = Live /\ Settled' = Settled
  BY DEF Live, Settled
<1>2. LoopShape'
  BY DEF LoopShape
<1>3. SlotsOwned'
  BY <1>1 DEF SlotsOwned
<1>4. SlotsArmed'
  BY <1>1 DEF SlotsArmed
<1>5. Anchored'
  BY DEF Anchored
<1>6. QED
  BY <1>2, <1>3, <1>4, <1>5

\* InstallBegin: every slot of rules_ is settled, and none is pending yet.
LEMMA BeginStep ==
  ASSUME TypeOK, HandleInv, InstallBegin, UNCHANGED hasCloseRule
  PROVE  HandleInv'
<1> USE DEF HandleInv
<1>1. /\ phase = "ready" /\ phase' = "build"
      /\ entries' = <<>> /\ before' = Len(rules) /\ rejected' = {}
      /\ UNCHANGED <<rules, open, armed, stray>>
  BY DEF InstallBegin, MayInstall
<1>2. Live' = Live /\ Settled' = Settled
  BY <1>1 DEF Live, Settled, TypeOK
<1>3. LoopShape'
  BY <1>1 DEF LoopShape, TypeOK
<1>4. SlotsOwned'
  BY <1>1, <1>2 DEF SlotsOwned
<1>5. SlotsArmed'
  BY <1>1, <1>2 DEF SlotsArmed
<1>6. Anchored'
  BY <1>1 DEF Anchored
<1>7. QED
  BY <1>3, <1>4, <1>5, <1>6

\* CreateRule: the new handle was not open, so it differs from every handle in
\* rules_; a MatchSubrules entry captures the handle in the last slot, which is
\* settled or belongs to the entry before it.
LEMMA CreateStep ==
  ASSUME TypeOK, HandleInv, CreateRule, UNCHANGED hasCloseRule
  PROVE  HandleInv'
<1> USE DEF HandleInv
<1>1. PICK h \in Handles \ open :
        /\ open' = open \cup {h}
        /\ rules' = Append(rules, h)
        /\ entries' = Append(entries, NewEntry(h))
  BY DEF CreateRule
<1>2. /\ phase = "build" /\ phase' = "build"
      /\ UNCHANGED <<before, rejected, wr, armed, stray>>
  BY DEF CreateRule, Building
<1>3. NewEntry(h) \in Entry
  BY NewEntryType DEF CreateRule
<1>4. /\ Len(rules') = Len(rules) + 1
      /\ \A i \in 1 .. Len(rules) : rules'[i] = rules[i]
      /\ rules'[Len(rules) + 1] = h
  BY <1>1 DEF TypeOK
<1>5. /\ Len(entries') = Len(entries) + 1
      /\ \A j \in 1 .. Len(entries) : entries'[j] = entries[j]
      /\ entries'[Len(entries) + 1] = NewEntry(h)
  BY <1>1, <1>3, AppendProperties DEF TypeOK
<1>6. Len(rules) \in Nat /\ Len(entries) \in Nat /\ before \in Nat
      /\ Len(rules) = before + Len(entries)
  BY <1>2 DEF TypeOK, LoopShape
<1>7. LoopShape'
  <2>1. NewEntry(h).rule = h
    BY DEF NewEntry
  <2>2. \A j \in 1 .. Len(entries') : rules'[before' + j] = entries'[j].rule
    <3> SUFFICES ASSUME NEW j \in 1 .. Len(entries') PROVE rules'[before' + j] = entries'[j].rule
      OBVIOUS
    <3>1. CASE j = Len(entries) + 1
      BY <1>2, <1>4, <1>5, <1>6, <2>1, <3>1
    <3>2. CASE j \in 1 .. Len(entries)
      BY <1>2, <1>4, <1>5, <1>6, <3>2 DEF LoopShape
    <3>3. QED
      BY <1>5, <1>6, <3>1, <3>2
  <2>3. QED
    BY <1>2, <1>4, <1>5, <1>6, <2>2 DEF LoopShape
<1>8. Live = 1 .. Len(rules) /\ Live' = 1 .. (Len(rules) + 1)
      /\ Settled = 1 .. before /\ Settled' = 1 .. before
  BY <1>2, <1>4 DEF Live, Settled
<1>9. SlotsOwned'
  BY <1>1, <1>2, <1>4, <1>6, <1>8, NullAssumption DEF SlotsOwned
<1>10. SlotsArmed'
  BY <1>2, <1>4, <1>6, <1>8 DEF SlotsArmed
<1>11. Anchored'
  <2>1. ASSUME NewEntry(h).sub # Null
        PROVE  \/ NewEntry(h).anchor = Null /\ \E f \in armed : f.rule = NewEntry(h).sub
               \/ /\ NewEntry(h).anchor = NewEntry(h).sub
                  /\ \E i \in 1 .. Len(entries) : entries[i].rule = NewEntry(h).sub
    <3>1. /\ rules # <<>>
          /\ NewEntry(h).sub = rules[Len(rules)]
          /\ NewEntry(h).anchor = IF Len(rules) > before THEN entries[Len(entries)].rule ELSE Null
      BY <2>1 DEF NewEntry
    <3>2. Len(rules) \in 1 .. Len(rules)
      BY <3>1 DEF TypeOK
    <3>3. CASE Len(rules) > before
      <4>1. Len(entries) \in 1 .. Len(entries) /\ Len(rules) = before + Len(entries)
        BY <1>6, <3>3
      <4>2. rules[Len(rules)] = entries[Len(entries)].rule
        BY <1>2, <4>1 DEF LoopShape
      <4>3. QED
        BY <3>1, <3>3, <4>1, <4>2
    <3>4. CASE ~(Len(rules) > before)
      <4>1. Len(rules) \in Settled /\ rules[Len(rules)] # Null
        BY <1>6, <1>8, <3>1, <3>2, <3>4, <2>1
      <4>2. QED
        BY <3>1, <3>4, <4>1 DEF SlotsArmed
    <3>5. QED
      BY <3>3, <3>4
  <2>2. ASSUME NEW j \in 1 .. Len(entries'), entries'[j].sub # Null
        PROVE  \/ entries'[j].anchor = Null /\ \E f \in armed' : f.rule = entries'[j].sub
               \/ /\ entries'[j].anchor = entries'[j].sub
                  /\ \E i \in 1 .. (j - 1) : entries'[i].rule = entries'[j].sub
    <3>1. CASE j \in 1 .. Len(entries)
      <4>1. \A i \in 1 .. (j - 1) : entries'[i] = entries[i]
        BY <1>5, <1>6, <3>1
      <4>2. QED
        BY <1>2, <1>5, <2>2, <3>1, <4>1 DEF Anchored
    <3>2. CASE j = Len(entries) + 1
      BY <1>2, <1>5, <1>6, <2>1, <2>2, <3>2
    <3>3. QED
      BY <1>5, <1>6, <3>1, <3>2
  <2>3. QED
    BY <1>2, <2>2 DEF Anchored
<1>12. QED
  BY <1>7, <1>9, <1>10, <1>11

\* BuildDone: with no entry every slot is settled; otherwise the submit loop
\* starts with every slot of this install pending.
LEMMA BuildDoneStep ==
  ASSUME TypeOK, HandleInv, BuildDone, UNCHANGED hasCloseRule
  PROVE  HandleInv'
<1> USE DEF HandleInv
<1>1. /\ phase = "build" /\ k' = 1
      /\ UNCHANGED <<rules, entries, before, rejected, wr, open, armed, stray>>
      /\ entries = <<>> => phase' \in {"ready", "end"}
      /\ entries # <<>> => phase' = "submit"
  BY DEF BuildDone, loopVars, Returned
<1>2. /\ Len(rules) \in Nat /\ Len(entries) \in Nat /\ before \in Nat
      /\ Len(rules) = before + Len(entries) /\ rejected = {}
      /\ \A j \in 1 .. Len(entries) : rules[before + j] = entries[j].rule
  BY <1>1 DEF TypeOK, LoopShape
<1>3. Live' = Live /\ Settled' = Settled
  BY <1>1, <1>2 DEF Live, Settled
<1>4. LoopShape'
  BY <1>1, <1>2 DEF LoopShape
<1>5. SlotsOwned'
  BY <1>1, <1>3 DEF SlotsOwned
<1>6. SlotsArmed'
  BY <1>1, <1>3 DEF SlotsArmed
<1>7. Anchored'
  BY <1>1 DEF Anchored
<1>8. QED
  BY <1>4, <1>5, <1>6, <1>7

\* The facts both outcomes of a submit start from.
LEMMA SubmitFacts ==
  ASSUME TypeOK, HandleInv, Submitting
  PROVE  /\ phase = "submit" /\ k \in 1 .. Len(entries)
         /\ Len(entries) \in Nat /\ before \in Nat
         /\ Len(rules) = before + Len(entries)
         /\ entries[k] \in Entry /\ entries[k].rule \in Handles
         /\ rules[before + k] = entries[k].rule
         /\ Live = 1 .. Len(rules) /\ before + k \in Live
         /\ Settled = 1 .. (before + k - 1)
<1>1. phase = "submit" /\ k \in 1 .. Len(entries)
  BY DEF TypeOK, Submitting
<1>2. /\ Len(entries) \in Nat /\ before \in Nat
      /\ Len(rules) = before + Len(entries)
      /\ rules[before + k] = entries[k].rule
  BY <1>1 DEF TypeOK, HandleInv, LoopShape
<1>3. entries[k] \in Entry
  BY <1>1 DEF TypeOK
<1>4. entries[k].rule \in Handles
  BY <1>3 DEF Entry
<1>5. QED
  BY <1>1, <1>2, <1>3, <1>4 DEF Live, Settled

\* SubmitAccepted: the anchor check rules out a predecessor of this install
\* that was refused, so the captured predecessor is armed.
LEMMA AcceptStep ==
  ASSUME TypeOK, HandleInv, SubmitAccepted, UNCHANGED hasCloseRule
  PROVE  HandleInv'
<1> USE DEF HandleInv
<1>1. /\ Submitting /\ ~AnchorRejected
      /\ armed' = armed \cup {entries[k]} /\ k' = k + 1
      /\ UNCHANGED <<phase, rules, entries, before, rejected, wr, open, stray>>
  BY DEF SubmitAccepted
<1>2. /\ phase = "submit" /\ k \in 1 .. Len(entries)
      /\ Len(entries) \in Nat /\ before \in Nat
      /\ Len(rules) = before + Len(entries)
      /\ entries[k] \in Entry /\ entries[k].rule \in Handles
      /\ rules[before + k] = entries[k].rule
      /\ Live = 1 .. Len(rules) /\ before + k \in Live
      /\ Settled = 1 .. (before + k - 1)
  BY <1>1, SubmitFacts
<1>3. Live' = Live /\ Settled' = Settled \cup {before + k}
  BY <1>1, <1>2 DEF Live, Settled
<1>4. LoopShape'
  BY <1>1, <1>2 DEF LoopShape
<1>5. SlotsOwned'
  BY <1>1, <1>2, <1>3 DEF SlotsOwned
<1>6. SlotsArmed'
  <2>1. \A e \in armed' : \E i \in Settled' : rules'[i] = e.rule
    BY <1>1, <1>2, <1>3 DEF SlotsArmed
  <2>2. \A i \in Settled' : rules'[i] # Null => \E e \in armed' : e.rule = rules'[i]
    BY <1>1, <1>2, <1>3 DEF SlotsArmed
  <2>3. QED
    BY <2>1, <2>2 DEF SlotsArmed
<1>7. Anchored'
  <2>1. ASSUME entries[k].sub # Null PROVE \E f \in armed : f.rule = entries[k].sub
    <3>1. CASE entries[k].anchor = Null /\ \E f \in armed : f.rule = entries[k].sub
      BY <3>1
    <3>2. CASE /\ entries[k].anchor = entries[k].sub
               /\ \E i \in 1 .. (k - 1) : entries[i].rule = entries[k].sub
      <4>1. PICK i \in 1 .. (k - 1) : entries[i].rule = entries[k].sub
        BY <3>2
      <4>2. entries[i].rule \notin rejected
        BY <1>1, <2>1, <3>2, <4>1 DEF AnchorRejected
      <4>3. entries[i] \in armed
        BY <1>2, <4>1, <4>2 DEF LoopShape
      <4>4. QED
        BY <4>1, <4>3
    <3>3. QED
      BY <1>2, <2>1, <3>1, <3>2 DEF Anchored
  <2>2. \A e \in armed' : e.sub # Null => \E f \in armed' : f.rule = e.sub
    BY <1>1, <2>1 DEF Anchored
  <2>3. QED
    BY <1>1, <1>2, <2>2 DEF Anchored
<1>8. QED
  BY <1>4, <1>5, <1>6, <1>7

\* SubmitRefused: the slot's handle is open and in no other slot, so closing it
\* takes no other rule's handle away; no armed rule used it.
LEMMA RefuseStep ==
  ASSUME TypeOK, HandleInv, SubmitRefused, UNCHANGED hasCloseRule
  PROVE  HandleInv'
<1> USE DEF HandleInv
<1>1. /\ Submitting
      /\ rejected' = rejected \cup {entries[k].rule}
      /\ open' = AfterClose({rules[before + k]})
      /\ rules' = [rules EXCEPT ![before + k] = Null]
      /\ k' = k + 1
      /\ UNCHANGED <<phase, entries, before, wr, armed, stray>>
  BY DEF SubmitRefused
<1>2. /\ phase = "submit" /\ k \in 1 .. Len(entries)
      /\ Len(entries) \in Nat /\ before \in Nat
      /\ Len(rules) = before + Len(entries)
      /\ entries[k] \in Entry /\ entries[k].rule \in Handles
      /\ rules[before + k] = entries[k].rule
      /\ Live = 1 .. Len(rules) /\ before + k \in Live
      /\ Settled = 1 .. (before + k - 1)
  BY <1>1, SubmitFacts
<1>3. /\ Len(rules') = Len(rules)
      /\ rules'[before + k] = Null
      /\ \A i \in Live : i # before + k => rules'[i] = rules[i]
  BY <1>1, <1>2, ExceptSeq, Null \in Handles \cup {Null} DEF TypeOK
<1>4. Live' = Live /\ Settled' = Settled \cup {before + k}
  BY <1>1, <1>2, <1>3 DEF Live, Settled
<1>5. \A i \in Live : i # before + k => rules[i] # entries[k].rule
  BY <1>2, NullAssumption DEF SlotsOwned
<1>6. LoopShape'
  <2>1. \A j \in k' .. Len(entries) :
          rules'[before + j] = entries[j].rule /\ entries[j].rule \notin rejected'
    <3> SUFFICES ASSUME NEW j \in k' .. Len(entries)
                 PROVE  rules'[before + j] = entries[j].rule /\ entries[j].rule \notin rejected'
      OBVIOUS
    <3>1. /\ j \in k .. Len(entries) /\ before + j \in Live /\ before + j # before + k
      BY <1>1, <1>2
    <3>2. rules[before + j] = entries[j].rule /\ entries[j].rule \notin rejected
      BY <1>2, <3>1 DEF LoopShape
    <3>3. QED
      BY <1>1, <1>3, <1>5, <3>1, <3>2
  <2>2. \A j \in 1 .. (k' - 1) :
          entries[j].rule \notin rejected' => entries[j] \in armed
    BY <1>1, <1>2 DEF LoopShape
  <2>3. QED
    BY <1>1, <1>2, <1>3, <2>1, <2>2 DEF LoopShape
<1>7. SlotsOwned'
  <2>1. \A i \in Live' : rules'[i] # Null => rules'[i] \in open'
    BY <1>1, <1>2, <1>3, <1>4, <1>5 DEF SlotsOwned, AfterClose
  <2>2. \A i, j \in Live' : rules'[i] = rules'[j] /\ rules'[i] # Null => i = j
    BY <1>3, <1>4 DEF SlotsOwned
  <2>3. hasCloseRule => \A h \in open' : h \in stray' \/ \E i \in Live' : rules'[i] = h
    BY <1>1, <1>2, <1>3, <1>4 DEF SlotsOwned, AfterClose
  <2>4. \A i \in Live' : rules'[i] = Null =>
          phase' = "submit" /\ i > before' /\ i < before' + k' /\ rejected' # {}
    <3>1. rejected' # {}
      BY <1>1
    <3>2. \A i \in Live : rules[i] = Null => i > before /\ i < before + k
      BY <1>2 DEF SlotsOwned
    <3>3. before' = before /\ k' = k + 1 /\ phase' = "submit" /\ Live' = Live
      BY <1>1, <1>2, <1>4
    <3>4. \A i \in Live : rules'[i] = Null => i > before /\ i < before + (k + 1)
      <4>1. before + k > before /\ before + k < before + (k + 1)
        BY <1>2
      <4>2. \A i \in Live : i < before + k => i < before + (k + 1)
        BY <1>2
      <4>3. QED
        BY <1>3, <3>2, <4>1, <4>2
    <3>5. QED
      BY <3>1, <3>3, <3>4
  <2>5. stray' \subseteq open' /\ \A i \in Live' : rules'[i] \notin stray'
    <3>1. stray \subseteq open /\ \A i \in Live : rules[i] \notin stray
      BY DEF SlotsOwned
    <3>2. Null \notin stray
      BY NullAssumption DEF TypeOK
    <3>3. QED
      BY <1>1, <1>2, <1>3, <1>4, <3>1, <3>2 DEF AfterClose
  <2>6. QED
    BY <2>1, <2>2, <2>3, <2>4, <2>5 DEF SlotsOwned
<1>8. SlotsArmed'
  <2>1. Settled \subseteq Live /\ before + k \notin Settled
    BY <1>2
  <2>2. \A i \in Settled : rules'[i] = rules[i]
    BY <1>3, <2>1
  <2>3. QED
    BY <1>1, <1>3, <1>4, <2>2 DEF SlotsArmed
<1>9. Anchored'
  BY <1>1 DEF Anchored
<1>10. QED
  BY <1>6, <1>7, <1>8, <1>9

\* SubmitDone: every slot is settled; compaction starts with no stale slot.
LEMMA SubmitDoneStep ==
  ASSUME TypeOK, HandleInv, SubmitDone, UNCHANGED hasCloseRule
  PROVE  HandleInv'
<1> USE DEF HandleInv
<1>1. /\ phase = "submit" /\ k > Len(entries)
      /\ UNCHANGED <<rules, entries, before, rejected, open, armed, stray>>
      /\ rejected = {} => phase' \in {"ready", "end"}
      /\ rejected # {} => phase' = "compact" /\ k' = before + 1 /\ wr' = before
  BY DEF SubmitDone, Returned
<1>2. /\ Len(entries) \in Nat /\ before \in Nat /\ k = Len(entries) + 1
      /\ Len(rules) = before + Len(entries)
  <2>1. Len(entries) \in Nat /\ before \in Nat /\ k \in Nat
    BY DEF TypeOK
  <2>2. k <= Len(entries) + 1 /\ Len(rules) = before + Len(entries)
    BY <1>1 DEF LoopShape
  <2>3. QED
    BY <1>1, <2>1, <2>2
<1>3. Live' = Live /\ Settled' = Settled /\ Live = 1 .. Len(rules)
  <2>1. Live = 1 .. Len(rules) /\ Settled = 1 .. Len(rules)
    BY <1>1, <1>2 DEF Live, Settled
  <2>2. CASE rejected = {}
    BY <1>1, <2>1, <2>2 DEF Live, Settled
  <2>3. CASE rejected # {}
    <3>1. (1 .. before) \cup ((before + 1) .. Len(rules)) = 1 .. Len(rules)
      BY <1>2
    <3>2. QED
      BY <1>1, <2>1, <2>3, <3>1 DEF Live, Settled
  <2>4. QED
    BY <2>2, <2>3
<1>4. LoopShape'
  BY <1>1, <1>2 DEF LoopShape
<1>5. SlotsOwned'
  <2>1. rejected = {} => \A i \in Live : rules[i] # Null
    BY <1>1 DEF SlotsOwned
  <2>2. rejected # {} => \A i \in Live : rules[i] = Null => i >= k'
    <3>1. \A i \in Live : rules[i] = Null => i > before
      BY <1>1 DEF SlotsOwned
    <3>2. QED
      BY <1>1, <1>2, <1>3, <3>1
  <2>3. QED
    BY <1>1, <1>3, <2>1, <2>2 DEF SlotsOwned
<1>6. SlotsArmed'
  BY <1>1, <1>3 DEF SlotsArmed
<1>7. Anchored'
  BY <1>1 DEF Anchored
<1>8. QED
  BY <1>4, <1>5, <1>6, <1>7

\* CompactSlot: copying a live slot down keeps every live handle exactly once.
LEMMA CompactSlotStep ==
  ASSUME TypeOK, HandleInv, CompactSlot, UNCHANGED hasCloseRule
  PROVE  HandleInv'
<1> USE DEF HandleInv
<1>1. /\ phase = "compact" /\ k <= Len(rules) /\ k' = k + 1
      /\ UNCHANGED <<phase, entries, before, rejected, open, armed, stray>>
      /\ rules[k] # Null => rules' = [rules EXCEPT ![wr + 1] = rules[k]] /\ wr' = wr + 1
      /\ rules[k] = Null => rules' = rules /\ wr' = wr
  BY DEF CompactSlot
<1>2. /\ k \in Nat /\ wr \in Nat /\ before \in Nat /\ Len(rules) \in Nat
      /\ before <= wr /\ wr < k /\ k \in 1 .. Len(rules) /\ wr + 1 \in 1 .. Len(rules)
      /\ rules[k] \in Handles \cup {Null}
  BY <1>1 DEF TypeOK, LoopShape
<1>3. /\ Live = (1 .. wr) \cup (k .. Len(rules)) /\ k \in Live
      /\ Settled = Live
  BY <1>1, <1>2 DEF Live, Settled
<1>4. CASE rules[k] = Null
  <2>1. Live' = Live \ {k} /\ Settled' = Live'
    BY <1>1, <1>2, <1>3, <1>4 DEF Live, Settled
  <2>2. LoopShape'
    BY <1>1, <1>2, <1>4 DEF LoopShape
  <2>3. SlotsOwned'
    <3>1. \A i \in Live' : rules'[i] = Null => i >= k'
      BY <1>1, <1>2, <1>3, <1>4, <2>1 DEF SlotsOwned
    <3>2. hasCloseRule => \A h \in open : h \in stray \/ \E i \in Live : rules[i] = h /\ i # k
      BY <1>4, NullAssumption DEF SlotsOwned, TypeOK
    <3>3. QED
      BY <1>1, <1>4, <2>1, <3>1, <3>2 DEF SlotsOwned
  <2>4. SlotsArmed'
    <3>1. \A e \in armed : e.rule # Null
      BY NullAssumption DEF TypeOK, Entry
    <3>2. QED
      BY <1>1, <1>3, <1>4, <2>1, <3>1 DEF SlotsArmed
  <2>5. Anchored'
    BY <1>1 DEF Anchored
  <2>6. QED
    BY <2>2, <2>3, <2>4, <2>5
<1>5. CASE rules[k] # Null
  <2>1. /\ Len(rules') = Len(rules)
        /\ \A j \in 1 .. Len(rules) : rules'[j] = IF j = wr + 1 THEN rules[k] ELSE rules[j]
    BY <1>1, <1>2, <1>5, ExceptSeq DEF TypeOK
  <2>2. /\ Live' = (1 .. (wr + 1)) \cup ((k + 1) .. Len(rules)) /\ Settled' = Live'
    BY <1>1, <1>5, <2>1 DEF Live, Settled
  <2>3. LoopShape'
    BY <1>1, <1>2, <1>5, <2>1 DEF LoopShape
  <2>4. \A i \in Live' : i # wr + 1 => i \in Live /\ i # k /\ rules'[i] = rules[i]
    BY <1>2, <1>3, <2>1, <2>2
  <2>5. wr + 1 \in Live' /\ rules'[wr + 1] = rules[k]
    BY <1>2, <2>1, <2>2
  <2>6. \A i \in Live : i # k => i \in Live' /\ i # wr + 1
    BY <1>2, <1>3, <2>2
  <2>7. SlotsOwned'
    <3>1. \A i \in Live' : rules'[i] # Null => rules'[i] \in open'
      BY <1>1, <1>3, <2>4, <2>5 DEF SlotsOwned
    <3>2. \A i, j \in Live' : rules'[i] = rules'[j] /\ rules'[i] # Null => i = j
      BY <1>3, <2>4, <2>5 DEF SlotsOwned
    <3>3. hasCloseRule => \A h \in open' : h \in stray' \/ \E i \in Live' : rules'[i] = h
      BY <1>1, <2>4, <2>5, <2>6 DEF SlotsOwned
    <3>4. \A i \in Live' : rules'[i] = Null => phase' = "compact" /\ i >= k'
      <4>1. \A i \in Live : rules[i] = Null => i >= k
        BY <1>1 DEF SlotsOwned
      <4>2. \A i \in Live' : rules'[i] = Null => i \in Live /\ i # k /\ i >= k
        BY <1>5, <2>4, <2>5, <4>1
      <4>3. QED
        BY <1>1, <1>2, <1>3, <4>2
    <3>5. stray' \subseteq open' /\ \A i \in Live' : rules'[i] \notin stray'
      BY <1>1, <1>3, <2>4, <2>5 DEF SlotsOwned
    <3>6. QED
      BY <3>1, <3>2, <3>3, <3>4, <3>5 DEF SlotsOwned
  <2>8. SlotsArmed'
    <3>1. \A e \in armed' : \E i \in Settled' : rules'[i] = e.rule
      BY <1>1, <1>3, <2>2, <2>4, <2>5, <2>6 DEF SlotsArmed
    <3>2. \A i \in Settled' : rules'[i] # Null => \E e \in armed' : e.rule = rules'[i]
      BY <1>1, <1>3, <2>2, <2>4, <2>5 DEF SlotsArmed
    <3>3. QED
      BY <3>1, <3>2 DEF SlotsArmed
  <2>9. Anchored'
    BY <1>1 DEF Anchored
  <2>10. QED
    BY <2>3, <2>7, <2>8, <2>9
<1>6. QED
  BY <1>4, <1>5

\* CompactDone: the slots that are kept are the live ones, and none is null.
LEMMA CompactDoneStep ==
  ASSUME TypeOK, HandleInv, CompactDone, UNCHANGED hasCloseRule
  PROVE  HandleInv'
<1> USE DEF HandleInv
<1>1. /\ phase = "compact" /\ k > Len(rules)
      /\ rules' = SubSeq(rules, 1, wr) /\ phase' \in {"ready", "end"}
      /\ UNCHANGED <<entries, before, rejected, open, armed, stray>>
  BY DEF CompactDone, Returned
<1>2. /\ k \in Nat /\ wr \in Nat /\ Len(rules) \in Nat
      /\ k = Len(rules) + 1 /\ wr <= Len(rules)
  BY <1>1 DEF TypeOK, LoopShape
<1>3. /\ Len(rules') = wr
      /\ \A i \in 1 .. wr : rules'[i] = rules[i]
  BY <1>1, <1>2 DEF TypeOK
<1>4. /\ Live = 1 .. wr /\ Live' = 1 .. wr /\ Settled = Live /\ Settled' = Live'
  <2>1. k .. Len(rules) = {}
    BY <1>2
  <2>2. QED
    BY <1>1, <1>3, <2>1 DEF Live, Settled
<1>5. LoopShape'
  BY <1>1 DEF LoopShape
<1>6. \A i \in Live : rules[i] # Null
  <2>1. \A i \in Live : rules[i] = Null => i >= k
    BY <1>1 DEF SlotsOwned
  <2>2. \A i \in Live : i < k
    BY <1>2, <1>4
  <2>3. QED
    BY <1>2, <1>4, <2>1, <2>2
<1>7. /\ Live' = Live /\ Settled = Live /\ Settled' = Live
      /\ \A i \in Live : rules'[i] = rules[i]
      /\ UNCHANGED <<open, armed, stray>>
  BY <1>1, <1>3, <1>4
<1>8. SlotsOwned'
  BY <1>6, <1>7 DEF SlotsOwned
<1>9. SlotsArmed'
  BY <1>7 DEF SlotsArmed
<1>10. Anchored'
  BY <1>1 DEF Anchored
<1>11. QED
  BY <1>5, <1>8, <1>9, <1>10

\* Disconnect closes the handle in every slot and forgets the rules.
LEMMA DisconnectStep ==
  ASSUME TypeOK, HandleInv, Disconnect, UNCHANGED hasCloseRule
  PROVE  HandleInv'
<1> USE DEF HandleInv
<1>1. /\ phase \in {"ready", "end", "closed"} /\ phase' \in {"closed", "gone"}
      /\ open' = AfterClose({rules[i] : i \in DOMAIN rules} \ {Null})
      /\ rules' = <<>> /\ armed' = {} /\ stray' = stray
  BY DEF Disconnect
<1>2. Live = 1 .. Len(rules) /\ Live' = {} /\ Settled' = {}
  BY <1>1 DEF Live, Settled
<1>3. stray' = stray /\ stray \subseteq open' /\ (hasCloseRule => open' = stray)
  <2>1. hasCloseRule => \A h \in open : h \in stray \/ \E i \in DOMAIN rules : rules[i] = h
    BY <1>2 DEF SlotsOwned, TypeOK
  <2>0. stray \subseteq open /\ \A i \in DOMAIN rules : rules[i] \notin stray
    BY <1>2 DEF SlotsOwned, TypeOK
  <2>2. Null \notin open
    BY NullAssumption DEF TypeOK
  <2>3. QED
    BY <1>1, <2>0, <2>1, <2>2 DEF AfterClose
<1>4. LoopShape'
  BY <1>1 DEF LoopShape
<1>5. SlotsOwned'
  BY <1>2, <1>3 DEF SlotsOwned
<1>6. SlotsArmed'
  BY <1>1, <1>2 DEF SlotsArmed
<1>7. Anchored'
  BY <1>1 DEF Anchored
<1>8. QED
  BY <1>4, <1>5, <1>6, <1>7

\* RemoveAllRules runs before the first install, when nothing is armed.
LEMMA RemoveStep ==
  ASSUME TypeOK, HandleInv, RemoveAllRules, UNCHANGED hasCloseRule
  PROVE  HandleInv'
<1> USE DEF HandleInv
<1>1. /\ phase = "remove" /\ phase' \in {"ready", "end"} /\ armed' \in {armed, {}}
      /\ UNCHANGED <<rules, open, stray>> /\ rules = <<>>
  BY DEF RemoveAllRules, LoopShape
<1>2. Settled = {}
  BY <1>1 DEF Settled, Live
<1>3. armed = {}
  BY <1>2 DEF SlotsArmed
<1>4. QED
  BY <1>1, <1>3, BetweenInstalls

\* Exercise: the handle it drops was not open, so it is in no slot of rules_.
LEMMA ExerciseStep ==
  ASSUME TypeOK, HandleInv, Exercise, UNCHANGED hasCloseRule
  PROVE  HandleInv'
<1> USE DEF HandleInv
<1>1. /\ phase = "ready" /\ phase' = "ready"
      /\ UNCHANGED <<rules, k, entries, before, rejected, wr, armed>>
  BY DEF Exercise, loopVars
<1>2. PICK new \in SUBSET (Handles \ open) :
        open' = open \cup new /\ stray' = stray \cup new
  <2>1. CASE UNCHANGED <<open, stray>>
    <3>1. {} \in SUBSET (Handles \ open) /\ open' = open \cup {} /\ stray' = stray \cup {}
      BY <2>1
    <3>2. QED
      BY <3>1
  <2>2. CASE \E h \in Handles \ open : open' = open \cup {h} /\ stray' = stray \cup {h}
    <3>1. PICK h \in Handles \ open : open' = open \cup {h} /\ stray' = stray \cup {h}
      BY <2>2
    <3>2. {h} \in SUBSET (Handles \ open)
      OBVIOUS
    <3>3. QED
      BY <3>1, <3>2
  <2>3. QED
    BY <2>1, <2>2 DEF Exercise
<1>3. Live' = Live /\ Settled' = Settled
  BY <1>1 DEF Live, Settled
<1>4. LoopShape'
  BY <1>1 DEF LoopShape
<1>5. SlotsOwned'
  <2>1. \A i \in Live : rules[i] \notin new
    <3>1. \A i \in Live : rules[i] # Null => rules[i] \in open
      BY DEF SlotsOwned
    <3>2. Null \notin new
      BY NullAssumption
    <3>3. QED
      BY <3>1, <3>2
  <2>2. QED
    BY <1>1, <1>2, <1>3, <2>1 DEF SlotsOwned
<1>6. SlotsArmed'
  BY <1>1, <1>3 DEF SlotsArmed
<1>7. Anchored'
  BY <1>1 DEF Anchored
<1>8. QED
  BY <1>4, <1>5, <1>6, <1>7

\* Every step of the session preserves the part of the invariant about handles.
LEMMA HandleStep == TypeOK /\ HandleInv /\ [Next]_vars => HandleInv'
<1> SUFFICES ASSUME TypeOK, HandleInv, [Next]_vars PROVE HandleInv'
  OBVIOUS
<1>0. UNCHANGED hasCloseRule
  BY DEF Next, Install, Terminated, Connect, CreateQueue, RemoveAllRules, InstallRejected,
         InstallBegin, SkipRule, PatchFails, CreateRuleFails, CreateRule, BuildDone,
         SubmitAccepted, SubmitRefused, SubmitDone, CompactSlot, CompactDone, Disconnect,
         Exercise, sessionVars, vars
<1>1. CASE Connect
  <2>1. CASE phase = "connect"
    BY <1>0, <1>1, <2>1, BetweenInstalls DEF Connect, loopVars
  <2>2. CASE phase # "connect"
    BY <1>0, <1>1, <2>2, QuietStep DEF Connect, loopVars
  <2>3. QED
    BY <2>1, <2>2
<1>2. CASE CreateQueue
  BY <1>0, <1>2, BetweenInstalls DEF CreateQueue
<1>3. CASE RemoveAllRules
  BY <1>0, <1>3, RemoveStep
<1>4. CASE InstallRejected
  BY <1>0, <1>4, BetweenInstalls DEF InstallRejected, MayInstall, Returned
<1>5. CASE InstallBegin
  BY <1>0, <1>5, BeginStep
<1>6. CASE SkipRule
  BY <1>0, <1>6, QuietStep DEF SkipRule, Building
<1>7. CASE PatchFails
  BY <1>0, <1>7, QuietStep DEF PatchFails, Building
<1>8. CASE CreateRuleFails
  BY <1>0, <1>8, QuietStep DEF CreateRuleFails, Building
<1>9. CASE CreateRule
  BY <1>0, <1>9, CreateStep
<1>10. CASE BuildDone
  BY <1>0, <1>10, BuildDoneStep
<1>11. CASE SubmitAccepted
  BY <1>0, <1>11, AcceptStep
<1>12. CASE SubmitRefused
  BY <1>0, <1>12, RefuseStep
<1>13. CASE SubmitDone
  BY <1>0, <1>13, SubmitDoneStep
<1>14. CASE CompactSlot
  BY <1>0, <1>14, CompactSlotStep
<1>15. CASE CompactDone
  BY <1>0, <1>15, CompactDoneStep
<1>16. CASE Disconnect
  BY <1>0, <1>16, DisconnectStep
<1>17. CASE Exercise
  BY <1>0, <1>17, ExerciseStep
<1>18. CASE UNCHANGED vars
  BY <1>0, <1>18, QuietStep DEF vars
<1>19. QED
  BY <1>1, <1>2, <1>3, <1>4, <1>5, <1>6, <1>7, <1>8, <1>9, <1>10, <1>11,
     <1>12, <1>13, <1>14, <1>15, <1>16, <1>17, <1>18 DEF Next, Install, Terminated

\* A session starts with no handle and no rule.
LEMMA InitInv == Init => IndInv
<1> SUFFICES ASSUME Init PROVE IndInv
  OBVIOUS
<1>1. doc \in Seq(RuleSpec)
  BY CallerDocumentsType DEF Init
<1>2. /\ compat \in BOOLEAN /\ hasCloseRule \in BOOLEAN
      /\ queue \in BOOLEAN /\ allOk \in BOOLEAN
  <2>1. compat \in BOOLEAN /\ hasCloseRule \in BOOLEAN
    BY DEF Init
  <2>2. queue \in BOOLEAN /\ allOk \in BOOLEAN
    BY Zenon DEF Init
  <2>3. QED
    BY <2>1, <2>2
<1>3. TypeOK
  <2>1. /\ role \in Roles /\ phase \in {"connect", "ready"}
        /\ client = "pending" /\ patch = "untried" /\ status = "none"
        /\ rules = <<>> /\ entries = <<>> /\ rejected = {}
        /\ k = 1 /\ before = 0 /\ wr = 0 /\ committed = 0 /\ installs = 0
        /\ open = {} /\ armed = {} /\ withdrawn = {} /\ stray = {}
    BY DEF Init
  <2>2. QED
    BY <1>1, <1>2, <2>1 DEF TypeOK
<1>4. Live = {} /\ Settled = {}
  BY DEF Init, Live, Settled
<1>5. LoopShape /\ SlotsOwned /\ SlotsArmed /\ Anchored
  BY <1>4 DEF Init, LoopShape, SlotsOwned, SlotsArmed, Anchored
<1>6. QED
  BY <1>3, <1>5 DEF IndInv, HandleInv

\* Every state of a session satisfies the inductive invariant, whatever the
\* handles, the documents, the callers and the library's answers.
THEOREM InstallInvariant == Spec => []IndInv
<1>1. IndInv /\ [Next]_vars => IndInv'
  BY TypeStep, HandleStep DEF IndInv, HandleInv
<1>2. QED
  BY InitInv, <1>1, PTL DEF Spec

\* Types: no variable of the session ever leaves its range.
THEOREM InstallTypeCorrect == Spec => []TypeOK
<1>1. IndInv => TypeOK
  BY DEF IndInv
<1>2. QED
  BY InstallInvariant, <1>1, PTL

\* rules_ is dense and holds exactly the handles of the accepted rules between
\* installs, Exercise requests of the service included, and after Disconnect
\* only handles such a request dropped are open.
THEOREM HandlesAlwaysBalanced == Spec => []HandlesBalanced
<1>1. IndInv => HandlesBalanced
  <2> SUFFICES ASSUME IndInv PROVE HandlesBalanced
    OBVIOUS
  <2> DEFINE held == {rules[i] : i \in DOMAIN rules}
  <2>1. ASSUME phase \in {"ready", "end"}
        PROVE  /\ \A i, j \in DOMAIN rules : rules[i] = rules[j] => i = j
               /\ held = ArmedHandles
               /\ held \subseteq open
               /\ hasCloseRule => open = held \cup stray
    <3>1. Live = DOMAIN rules /\ Settled = DOMAIN rules
      BY <2>1 DEF Live, Settled, IndInv, TypeOK
    <3>2. \A i \in DOMAIN rules : rules[i] # Null
      BY <2>1, <3>1 DEF IndInv, HandleInv, SlotsOwned
    <3>3. \A i, j \in DOMAIN rules : rules[i] = rules[j] => i = j
      BY <3>1, <3>2 DEF IndInv, HandleInv, SlotsOwned
    <3>4. held = ArmedHandles
      BY <3>1, <3>2 DEF IndInv, HandleInv, SlotsArmed, ArmedHandles
    <3>5. /\ held \subseteq open /\ stray \subseteq open
          /\ hasCloseRule => open \subseteq held \cup stray
      BY <3>1, <3>2 DEF IndInv, HandleInv, SlotsOwned
    <3>6. QED
      BY <3>3, <3>4, <3>5
  <2>2. ASSUME phase \in {"closed", "gone"}
        PROVE  rules = <<>> /\ (hasCloseRule => open = stray)
    <3>1. rules = <<>> /\ Live = {}
      BY <2>2 DEF IndInv, HandleInv, LoopShape, Live
    <3>2. QED
      BY <3>1 DEF IndInv, HandleInv, SlotsOwned
  <2>3. QED
    BY <2>1, <2>2 DEF HandlesBalanced
<1>2. QED
  BY InstallInvariant, <1>1, PTL

--------------------------------------------------------------------------------
(***************************************************************************)
(* What the gates of the build loop guarantee about every entry.           *)
(***************************************************************************)
Gated(e) ==
  /\ e.selector = Selector(e.spec)
  /\ ~SelectorConflicts(e.spec)
  /\ e.selector = kActionRewrite =>
       \/ IsEnforceCompatEventType(e.spec.eventType) /\ compat /\ patch = "ok"
       \/ ~IsEnforceCompatEventType(e.spec.eventType) /\ e.spec.eventType = kEventFoCreate
  /\ e.selector = kActionQueueBacked => queue

Built == {entries[j] : j \in 1 .. Len(entries)}

GateInv ==
  /\ \A e \in armed : Gated(e)
  /\ phase \in {"build", "submit"} => \A e \in Built : Gated(e)
  /\ phase = "build" => (DocumentNeedsQueue(doc) => queue)
  /\ role = "service" => ~compat

\* Nothing is armed before the first install.
LEMMA NothingArmedYet ==
  ASSUME IndInv, phase \in {"connect", "queue", "remove"} PROVE armed = {}
<1>1. Settled = {}
  BY DEF IndInv, HandleInv, LoopShape, Settled, Live
<1>2. QED
  BY <1>1 DEF IndInv, HandleInv, SlotsArmed

\* The options do not change under an entry, and neither the queue nor a patch
\* in effect goes away.
LEMMA GatedStays ==
  ASSUME NEW e, Gated(e), UNCHANGED compat, queue => queue', patch = "ok" => patch' = "ok"
  PROVE  Gated(e)'
BY DEF Gated

\* A rule that passes the gates and for which EspCreateRule returns a handle
\* makes a gated entry.
LEMMA NewEntryGated ==
  ASSUME IndInv, GateInv, Building, GatesPass(doc[k]), NEW h, NEW e, e = NewEntry(h),
         patch' = PatchAfter(doc[k]), UNCHANGED <<compat, queue>>
  PROVE  Gated(e)'
<1>1. e.spec = doc[k] /\ e.selector = Selector(doc[k])
  BY DEF NewEntry
<1>2. ~SelectorConflicts(e.spec)
  BY <1>1 DEF GatesPass
<1>3. ASSUME e.selector = kActionRewrite
      PROVE  \/ IsEnforceCompatEventType(e.spec.eventType) /\ compat /\ patch' = "ok"
             \/ /\ ~IsEnforceCompatEventType(e.spec.eventType)
                /\ e.spec.eventType = kEventFoCreate
  BY <1>1, <1>3 DEF GatesPass, RewriteRefused, PatchAfter, NeedsCompatPatch,
                    SupportsEnforcePayload
<1>4. ASSUME e.selector = kActionQueueBacked PROVE queue
  <2>1. k \in DOMAIN doc
    BY DEF IndInv, TypeOK, Building
  <2>2. DocumentNeedsQueue(doc)
    BY <1>1, <1>4, <2>1 DEF DocumentNeedsQueue, ResolvedActionNeedsQueue
  <2>3. QED
    BY <2>2 DEF GateInv, Building
<1>5. e.selector = Selector(e.spec)
  BY <1>1
<1>6. QED
  BY <1>2, <1>3, <1>4, <1>5 DEF Gated

\* Steps that add no entry, arm no rule and do not enter the build loop.
LEMMA GateQuiet ==
  ASSUME GateInv, armed' \subseteq armed, UNCHANGED <<role, doc, compat>>, queue => queue',
         patch = "ok" => patch' = "ok",
         phase' = "build" => phase = "build",
         phase' \in {"build", "submit"} => phase \in {"build", "submit"} /\ entries' = entries
  PROVE  GateInv'
<1>1. \A e \in armed' : Gated(e)'
  BY GatedStays DEF GateInv
<1>2. ASSUME phase' \in {"build", "submit"} PROVE \A e \in Built' : Gated(e)'
  <2>1. Built' = Built
    BY <1>2 DEF Built
  <2>2. QED
    BY <1>2, <2>1, GatedStays DEF GateInv
<1>3. QED
  BY <1>1, <1>2 DEF GateInv, DocumentNeedsQueue

\* Every step keeps every armed or built entry gated.
LEMMA GateStep == IndInv /\ GateInv /\ [Next]_vars => GateInv'
<1> SUFFICES ASSUME IndInv, GateInv, [Next]_vars PROVE GateInv'
  OBVIOUS
<1>1. CASE Connect
  BY <1>1, GateQuiet DEF Connect, callerVars, loopVars
<1>2. CASE CreateQueue
  <2>1. armed' = {} /\ phase' \in {"end", "remove"} /\ UNCHANGED <<role, compat>>
    BY <1>2, NothingArmedYet DEF CreateQueue, callerVars
  <2>2. QED
    BY <2>1 DEF GateInv
<1>3. CASE RemoveAllRules
  BY <1>3, GateQuiet DEF RemoveAllRules, callerVars, sessionVars, loopVars
<1>4. CASE InstallRejected
  <2>1. /\ phase' \in {"ready", "end"}
        /\ UNCHANGED <<role, queue, compat, patch, armed>>
    BY <1>4 DEF InstallRejected, Returned, sessionVars
  <2>2. \A e \in armed' : Gated(e)'
    BY <2>1, GatedStays DEF GateInv
  <2>3. QED
    BY <2>1, <2>2 DEF GateInv
<1>5. CASE InstallBegin
  <2>1. /\ phase' = "build" /\ entries' = <<>>
        /\ DocumentNeedsQueue(doc') => queue
        /\ UNCHANGED <<role, queue, compat, patch, armed>>
    BY <1>5 DEF InstallBegin, sessionVars
  <2>2. \A e \in armed' : Gated(e)'
    BY <2>1, GatedStays DEF GateInv
  <2>3. Built' = {}
    BY <2>1 DEF Built
  <2>4. DocumentNeedsQueue(doc)' => queue'
    BY <2>1 DEF DocumentNeedsQueue
  <2>5. QED
    BY <2>1, <2>2, <2>3, <2>4 DEF GateInv
<1>6. CASE SkipRule
  BY <1>6, GateQuiet DEF SkipRule, Building, callerVars, sessionVars
<1>7. CASE PatchFails
  BY <1>7, GateQuiet DEF PatchFails, Building, callerVars
<1>8. CASE CreateRuleFails
  BY <1>8, GateQuiet DEF CreateRuleFails, Building, callerVars, PatchAfter
<1>9. CASE CreateRule
  <2>1. /\ Building /\ GatesPass(doc[k]) /\ patch' = PatchAfter(doc[k])
        /\ phase' = phase /\ UNCHANGED <<role, doc, queue, compat, armed>>
        /\ patch = "ok" => patch' = "ok"
    BY <1>9 DEF CreateRule, callerVars, PatchAfter
  <2>2. PICK h \in Handles : entries' = Append(entries, NewEntry(h))
    BY <1>9 DEF CreateRule
  <2>3. PICK e \in Entry : e = NewEntry(h)
    BY <2>1, NewEntryType DEF IndInv, HandleInv
  <2>4. Gated(e)'
    BY <2>1, <2>3, NewEntryGated
  <2>5. Built' \subseteq Built \cup {e}
    BY <2>2, <2>3 DEF Built, IndInv, TypeOK
  <2>6. \A d \in Built : Gated(d)'
    BY <2>1, GatedStays DEF GateInv, Building
  <2>7. \A d \in armed' : Gated(d)'
    BY <2>1, GatedStays DEF GateInv
  <2>8. QED
    BY <2>1, <2>4, <2>5, <2>6, <2>7 DEF GateInv, DocumentNeedsQueue
<1>10. CASE BuildDone
  BY <1>10, GateQuiet DEF BuildDone, sessionVars, loopVars, Returned
<1>11. CASE SubmitAccepted
  <2>1. /\ phase = "submit" /\ phase' = phase /\ k \in 1 .. Len(entries)
        /\ armed' = armed \cup {entries[k]}
        /\ UNCHANGED <<role, doc, queue, compat, patch, entries>>
    BY <1>11 DEF SubmitAccepted, Submitting, callerVars, sessionVars, IndInv, TypeOK
  <2>2. armed' \subseteq armed \cup Built /\ Built' = Built
    BY <2>1 DEF Built
  <2>3. \A e \in armed \cup Built : Gated(e)'
    BY <2>1, GatedStays DEF GateInv
  <2>4. QED
    BY <2>1, <2>2, <2>3 DEF GateInv
<1>12. CASE SubmitRefused
  BY <1>12, GateQuiet DEF SubmitRefused, Submitting, callerVars, sessionVars
<1>13. CASE SubmitDone
  BY <1>13, GateQuiet DEF SubmitDone, sessionVars, Returned
<1>14. CASE CompactSlot
  BY <1>14, GateQuiet DEF CompactSlot, callerVars, sessionVars
<1>15. CASE CompactDone
  BY <1>15, GateQuiet DEF CompactDone, sessionVars, Returned
<1>16. CASE Disconnect
  <2>1. armed' = {} /\ phase' \in {"closed", "gone"} /\ UNCHANGED <<role, compat>>
    BY <1>16 DEF Disconnect
  <2>2. QED
    BY <2>1 DEF GateInv
<1>17. CASE Exercise
  BY <1>17, GateQuiet DEF Exercise, callerVars
<1>18. CASE UNCHANGED vars
  BY <1>18, GateQuiet DEF vars
<1>19. QED
  BY <1>1, <1>2, <1>3, <1>4, <1>5, <1>6, <1>7, <1>8, <1>9, <1>10, <1>11,
     <1>12, <1>13, <1>14, <1>15, <1>16, <1>17, <1>18 DEF Next, Install, Terminated

\* Every entry is gated in every state.
LEMMA AlwaysGated == Spec => []GateInv
<1>1. Init => GateInv
  BY DEF Init, GateInv, Built
<1>2. QED
  BY <1>1, GateStep, InstallInvariant, PTL DEF Spec

\* An armed "deny" rule enforces: it carries selector 5 for an event type the
\* driver can deny, and a rule of a compat type was built with the patch on.
THEOREM DenyAlwaysEnforces == Spec => []DenyEnforces
<1>1. IsDriverEnforceCapable(kEventFoCreate)
  BY DEF IsDriverEnforceCapable, DriverEventCapabilityMask, kEventFoCreate
<1>2. GateInv => DenyEnforces
  <2> SUFFICES ASSUME GateInv, NEW e \in armed
               PROVE  /\ e.spec.actionName = "deny" =>
                           /\ e.selector = kActionDeny
                           /\ IsDriverEnforceCapable(e.spec.eventType)
                      /\ e.selector = kActionRewrite
                           /\ IsEnforceCompatEventType(e.spec.eventType)
                           => compat /\ patch = "ok" /\ role # "service"
    BY DEF DenyEnforces
  <2>1. Gated(e)
    BY DEF GateInv
  <2>2. ASSUME e.spec.actionName = "deny" PROVE e.selector = kActionDeny
    <3>1. NamedSelector(e.spec) = kActionDeny
      BY <2>2 DEF NamedSelector, ActionSelectorForName
    <3>2. QED
      BY <2>1, <2>2, <3>1 DEF Gated, SelectorConflicts, Selector, value_or
  <2>3. ASSUME e.selector = kActionRewrite
        PROVE  IsDriverEnforceCapable(e.spec.eventType)
    BY <1>1, <2>1, <2>3 DEF Gated, IsEnforceCompatEventType
  <2>4. ASSUME e.selector = kActionRewrite, IsEnforceCompatEventType(e.spec.eventType)
        PROVE  compat /\ patch = "ok" /\ role # "service"
    BY <2>1, <2>4 DEF Gated, GateInv
  <2>5. QED
    BY <2>2, <2>3, <2>4 DEF kActionDeny
<1>3. QED
  BY AlwaysGated, <1>2, PTL

\* A queue-backed rule is armed only in a session that has a queue.
THEOREM QueueBackedAlwaysHasQueue == Spec => []QueueBackedHasQueue
<1>1. GateInv => QueueBackedHasQueue
  BY DEF GateInv, Gated, QueueBackedHasQueue
<1>2. QED
  BY AlwaysGated, <1>1, PTL

--------------------------------------------------------------------------------
(***************************************************************************)
(* What a step may never do to an accepted rule.                           *)
(***************************************************************************)
\* An armed rule's handle is in a settled slot, hence open; the slot the submit
\* loop works on holds another handle.
LEMMA ArmedElsewhere ==
  ASSUME IndInv, NEW e \in armed
  PROVE  /\ e.rule \in open
         /\ Submitting => e.rule # rules[before + k]
<1>1. PICK i \in Settled : rules[i] = e.rule
  BY DEF IndInv, HandleInv, SlotsArmed
<1>2. e.rule \in Handles
  BY DEF IndInv, TypeOK, Entry
<1>3. Settled \subseteq Live
  <2>1. CASE phase = "build"
    BY <2>1 DEF IndInv, HandleInv, LoopShape, TypeOK, Settled, Live
  <2>2. CASE phase = "submit"
    BY <2>2 DEF IndInv, HandleInv, LoopShape, TypeOK, Settled, Live
  <2>3. QED
    BY <2>1, <2>2 DEF Settled
<1>4. e.rule \in open
  BY <1>1, <1>2, <1>3, NullAssumption DEF IndInv, HandleInv, SlotsOwned
<1>5. ASSUME Submitting PROVE e.rule # rules[before + k]
  <2>1. /\ before + k \in Live /\ Settled = 1 .. (before + k - 1)
        /\ before \in Nat /\ k \in Nat
    BY <1>5, SubmitFacts DEF IndInv, TypeOK
  <2>2. i # before + k
    BY <2>1
  <2>3. QED
    BY <1>1, <1>2, <1>3, <2>1, <2>2, NullAssumption DEF IndInv, HandleInv, SlotsOwned
<1>6. QED
  BY <1>4, <1>5

--------------------------------------------------------------------------------
(***************************************************************************)
(* What an Exercise request withdraws: everything the driver holds between *)
(* two installs, and nothing of an install in progress.  So a rule and its *)
(* anchor, which belong to one install, go together.                       *)
(***************************************************************************)
WithdrawInv ==
  /\ withdrawn \subseteq armed
  /\ \A e \in LiveRules : e.anchor # Null => \E a \in LiveRules : a.rule = e.anchor
  /\ phase \in {"build", "submit"} =>
       \A j \in 1 .. Len(entries) :
         /\ entries[j] \notin withdrawn
         /\ entries[j].anchor # Null =>
              \E i \in 1 .. (j - 1) : entries[i].rule = entries[j].anchor

\* Steps that build no entry, accept no rule and do not enter the build loop.
LEMMA WithdrawQuiet ==
  ASSUME WithdrawInv, UNCHANGED <<armed, withdrawn>>,
         phase' \in {"build", "submit"} => phase \in {"build", "submit"} /\ entries' = entries
  PROVE  WithdrawInv'
BY DEF WithdrawInv, LiveRules

\* Every step keeps the withdrawn rules apart from the install in progress.
LEMMA WithdrawStep == IndInv /\ WithdrawInv /\ [Next]_vars => WithdrawInv'
<1> SUFFICES ASSUME IndInv, WithdrawInv, [Next]_vars PROVE WithdrawInv'
  OBVIOUS
<1>1. CASE RemoveAllRules
  <2>1. /\ phase' \in {"ready", "end"}
        /\ \/ armed' = {} /\ withdrawn' = {}
           \/ UNCHANGED <<armed, withdrawn>>
    BY <1>1 DEF RemoveAllRules
  <2>2. QED
    BY <2>1 DEF WithdrawInv, LiveRules
<1>2. CASE InstallBegin
  <2>1. phase' = "build" /\ entries' = <<>> /\ UNCHANGED <<armed, withdrawn>>
    BY <1>2 DEF InstallBegin
  <2>2. QED
    BY <2>1 DEF WithdrawInv, LiveRules
<1>3. CASE CreateRule
  <2>1. PICK h \in Handles \ open : entries' = Append(entries, NewEntry(h))
    BY <1>3 DEF CreateRule
  <2>2. phase = "build" /\ phase' = "build" /\ UNCHANGED <<armed, withdrawn>>
    BY <1>3 DEF CreateRule, Building
  <2>3. NewEntry(h) \in Entry /\ NewEntry(h).rule = h
    BY <1>3, NewEntryType DEF CreateRule, IndInv, HandleInv, NewEntry
  <2>4. /\ Len(entries) \in Nat /\ Len(entries') = Len(entries) + 1
        /\ \A j \in 1 .. Len(entries) : entries'[j] = entries[j]
        /\ entries'[Len(entries) + 1] = NewEntry(h)
    BY <2>1, <2>3, AppendProperties DEF IndInv, TypeOK
  <2>5. NewEntry(h) \notin withdrawn
    BY <2>3, ArmedElsewhere DEF WithdrawInv
  <2>6. ASSUME NewEntry(h).anchor # Null
        PROVE  \E i \in 1 .. Len(entries) : entries[i].rule = NewEntry(h).anchor
    <3>1. Len(rules) > before /\ NewEntry(h).anchor = entries[Len(entries)].rule
      BY <2>6 DEF NewEntry
    <3>2. Len(rules) = before + Len(entries) /\ before \in Nat /\ Len(rules) \in Nat
      BY <2>2 DEF IndInv, HandleInv, LoopShape, TypeOK
    <3>3. Len(entries) \in 1 .. Len(entries)
      BY <2>4, <3>1, <3>2
    <3>4. QED
      BY <3>1, <3>3
  <2>7. ASSUME NEW j \in 1 .. Len(entries')
        PROVE  /\ entries'[j] \notin withdrawn
               /\ entries'[j].anchor # Null =>
                    \E i \in 1 .. (j - 1) : entries'[i].rule = entries'[j].anchor
    <3>1. CASE j \in 1 .. Len(entries)
      <4>1. \A i \in 1 .. (j - 1) : entries'[i] = entries[i]
        BY <2>4, <3>1
      <4>2. QED
        BY <2>2, <2>4, <3>1, <4>1 DEF WithdrawInv
    <3>2. CASE j = Len(entries) + 1
      <4>1. 1 .. (j - 1) = 1 .. Len(entries)
        BY <2>4, <3>2
      <4>2. QED
        BY <2>4, <2>5, <2>6, <3>2, <4>1
    <3>3. QED
      BY <2>4, <3>1, <3>2
  <2>8. QED
    BY <2>2, <2>7 DEF WithdrawInv, LiveRules
<1>4. CASE SubmitAccepted
  <2>1. /\ Submitting /\ ~AnchorRejected /\ phase = "submit" /\ phase' = phase
        /\ armed' = armed \cup {entries[k]} /\ UNCHANGED <<entries, withdrawn>>
    BY <1>4 DEF SubmitAccepted, Submitting
  <2>2. k \in 1 .. Len(entries)
    BY <2>1, SubmitFacts DEF IndInv
  <2>3. entries[k] \notin withdrawn
    BY <2>1, <2>2 DEF WithdrawInv
  <2>4. LiveRules' = LiveRules \cup {entries[k]}
    BY <2>1, <2>3 DEF LiveRules
  <2>5. ASSUME entries[k].anchor # Null
        PROVE  \E a \in LiveRules : a.rule = entries[k].anchor
    <3>1. PICK i \in 1 .. (k - 1) : entries[i].rule = entries[k].anchor
      BY <2>1, <2>2, <2>5 DEF WithdrawInv
    <3>2. entries[i].rule \notin rejected /\ i \in 1 .. Len(entries)
      BY <2>1, <2>2, <2>5, <3>1 DEF AnchorRejected
    <3>3. entries[i] \in armed /\ entries[i] \notin withdrawn
      BY <2>1, <3>1, <3>2 DEF IndInv, HandleInv, LoopShape, WithdrawInv
    <3>4. QED
      BY <3>1, <3>3 DEF LiveRules
  <2>6. QED
    BY <2>1, <2>4, <2>5 DEF WithdrawInv
<1>5. CASE Exercise
  <2>1. /\ phase' = "ready" /\ UNCHANGED armed
        /\ withdrawn' \in {withdrawn, armed}
    BY <1>5 DEF Exercise
  <2>2. LiveRules' \in {LiveRules, {}}
    BY <2>1 DEF LiveRules
  <2>3. QED
    BY <2>1, <2>2 DEF WithdrawInv
<1>6. CASE Disconnect
  <2>1. armed' = {} /\ withdrawn' = {} /\ phase' \in {"closed", "gone"}
    BY <1>6 DEF Disconnect
  <2>2. QED
    BY <2>1 DEF WithdrawInv, LiveRules
<1>7. CASE InstallRejected
  BY <1>7, WithdrawQuiet DEF InstallRejected, Returned
<1>8. CASE Connect \/ CreateQueue
  BY <1>8, WithdrawQuiet DEF Connect, CreateQueue, loopVars
<1>9. CASE SkipRule \/ PatchFails \/ CreateRuleFails
  BY <1>9, WithdrawQuiet DEF SkipRule, PatchFails, CreateRuleFails, Building
<1>10. CASE BuildDone \/ SubmitRefused \/ SubmitDone
  BY <1>10, WithdrawQuiet DEF BuildDone, SubmitRefused, SubmitDone, Submitting, Returned, loopVars
<1>11. CASE CompactSlot \/ CompactDone
  BY <1>11, WithdrawQuiet DEF CompactSlot, CompactDone, Returned
<1>12. CASE UNCHANGED vars
  BY <1>12, WithdrawQuiet DEF vars
<1>13. QED
  BY <1>1, <1>2, <1>3, <1>4, <1>5, <1>6, <1>7, <1>8, <1>9, <1>10, <1>11, <1>12
     DEF Next, Install, Terminated

\* The invariant about withdrawn rules holds in every state of a session.
LEMMA AlwaysWithdrawn == Spec => []WithdrawInv
<1>1. Init => WithdrawInv
  BY DEF Init, WithdrawInv, LiveRules
<1>2. QED
  BY <1>1, WithdrawStep, InstallInvariant, PTL DEF Spec

\* The driver never accepts a MatchSubrules rule over a predecessor that was
\* rejected and closed (submit loop of EspSession::InstallRules), and never
\* holds one without the predecessor that was created in the same install.
THEOREM SubrulesAlwaysAnchored == Spec => []SubrulesAnchored
<1>1. IndInv /\ WithdrawInv => SubrulesAnchored
  <2> SUFFICES ASSUME IndInv, WithdrawInv, NEW e \in armed, e.sub # Null
               PROVE  e.sub \in ArmedHandles /\ e.sub \in open
    BY DEF SubrulesAnchored, WithdrawInv
  <2>1. PICK f \in armed : f.rule = e.sub
    BY DEF IndInv, HandleInv, Anchored
  <2>2. PICK i \in Settled : rules[i] = f.rule
    BY DEF IndInv, HandleInv, SlotsArmed
  <2>3. f.rule # Null
    BY <2>1
  <2>4. Settled \subseteq Live
    <3>1. CASE phase = "build"
      BY <3>1 DEF IndInv, HandleInv, LoopShape, TypeOK, Settled, Live
    <3>2. CASE phase = "submit"
      BY <3>2 DEF IndInv, HandleInv, LoopShape, TypeOK, Settled, Live
    <3>3. QED
      BY <3>1, <3>2 DEF Settled
  <2>5. e.sub \in open
    BY <2>1, <2>2, <2>3, <2>4 DEF IndInv, HandleInv, SlotsOwned
  <2>6. QED
    BY <2>1, <2>5 DEF ArmedHandles
<1>2. QED
  BY InstallInvariant, AlwaysWithdrawn, <1>1, PTL

--------------------------------------------------------------------------------
\* Until the session disconnects, no step of an install withdraws a rule the
\* driver accepted or closes its handle: neither a later refusal nor compaction
\* nor the next document of the service.  An Exercise request withdraws all the
\* rules or none, between installs, and closes no handle.
THEOREM ArmedRulesAlwaysStay == Spec => ArmedRulesStay
<1> DEFINE Kept == phase' \notin {"closed", "gone"} =>
                     /\ \/ LiveRules \subseteq LiveRules'
                        \/ role = "service" /\ phase = "ready" /\ LiveRules' = {}
                     /\ \A e \in armed : e.rule \in open => e.rule \in open'
<1>1. IndInv /\ WithdrawInv /\ [Next]_vars => [Kept]_vars
  <2> SUFFICES ASSUME IndInv, WithdrawInv, Next PROVE Kept
    OBVIOUS
  <2>1. CASE RemoveAllRules
    <3>1. armed = {} /\ UNCHANGED open
      BY <2>1, NothingArmedYet DEF RemoveAllRules
    <3>2. QED
      BY <3>1 DEF LiveRules
  <2>2. CASE SubmitRefused
    <3>1. /\ Submitting /\ open' = AfterClose({rules[before + k]})
          /\ UNCHANGED <<armed, withdrawn>>
      BY <2>2 DEF SubmitRefused
    <3>2. QED
      BY <3>1, ArmedElsewhere DEF AfterClose, LiveRules
  <2>3. CASE SubmitAccepted
    BY <2>3 DEF SubmitAccepted, LiveRules
  <2>4. CASE CreateRule
    BY <2>4 DEF CreateRule, LiveRules
  <2>5. CASE Exercise
    <3>1. /\ role = "service" /\ phase = "ready" /\ open \subseteq open'
          /\ armed' = armed /\ withdrawn' \in {withdrawn, armed}
      BY <2>5 DEF Exercise
    <3>2. QED
      BY <3>1 DEF LiveRules
  <2>6. CASE Disconnect
    BY <2>6 DEF Disconnect
  <2>7. CASE UNCHANGED <<open, armed, withdrawn>>
    BY <2>7 DEF LiveRules
  <2>8. QED
    BY <2>1, <2>2, <2>3, <2>4, <2>5, <2>6, <2>7
       DEF Next, Install, Terminated, vars, Connect, CreateQueue, InstallRejected, InstallBegin,
           SkipRule, PatchFails, CreateRuleFails, BuildDone, SubmitDone, CompactSlot, CompactDone
<1>2. QED
  BY InstallInvariant, AlwaysWithdrawn, <1>1, PTL DEF Spec, ArmedRulesStay

--------------------------------------------------------------------------------
(***************************************************************************)
(* RuleInstall implements InstallContract: the loops over handles, entries *)
(* and slots of EspSession::InstallRules decide every rule of the document *)
(* exactly once, and the InstallStatus it returns, computed from a counter *)
(* and two flags, is the summary of those decisions.                       *)
(***************************************************************************)

(***************************************************************************)
(* The invariant that ties the locals of InstallRules to the decisions.    *)
(***************************************************************************)
Installing == phase \in {"build", "submit", "compact"}

StatusFits ==
  /\ Installing => status = "running"
  /\ ~Installing => status # "running"
  /\ phase \in {"connect", "queue", "remove", "closed", "gone"} => status = "none"

\* Every entry was built for a rule of the document, no two for the same rule.
OneEntryPerRule ==
  Installing =>
    /\ \A j \in 1 .. Len(entries) : entries[j].index \in 1 .. Len(doc)
    /\ \A i, j \in 1 .. Len(entries) : entries[i].index = entries[j].index => i = j
    /\ phase = "build" =>
         /\ doc # <<>> /\ k <= Len(doc) + 1
         /\ \A j \in 1 .. Len(entries) : entries[j].index < k
    /\ phase # "build" => entries # <<>>

\* allOk is TRUE exactly when no rule met so far was left without an entry.
HasEntry(i) == \E j \in 1 .. Len(entries) : entries[j].index = i

AllOkFits ==
  /\ phase = "build" => (allOk <=> \A i \in 1 .. (k - 1) : HasEntry(i))
  /\ phase \in {"submit", "compact"} => (allOk <=> \A i \in 1 .. Len(doc) : HasEntry(i))

\* committed counts an armed entry, and rejected holds a handle of an entry
\* that is not armed, as soon as there is one among those submitted.
Submitted == IF phase = "submit" THEN 1 .. (k - 1)
             ELSE IF phase = "compact" THEN 1 .. Len(entries) ELSE {}

CountsFit ==
  /\ Installing => (committed = 0 <=> \A j \in Submitted : entries[j] \notin armed)
  /\ phase = "submit" => (rejected = {} <=> \A j \in Submitted : entries[j] \in armed)
  /\ phase = "compact" => rejected # {} /\ \E j \in Submitted : entries[j] \notin armed

RefInv == StatusFits /\ OneEntryPerRule /\ AllOkFits /\ CountsFit
--------------------------------------------------------------------------------
(***************************************************************************)
(* The invariant is preserved, one lemma per group of steps.               *)
(***************************************************************************)
\* Steps outside an install that stay outside.
LEMMA OutsideStep ==
  ASSUME ~Installing, ~Installing', StatusFits'
  PROVE  RefInv'
BY DEF RefInv, Installing, OneEntryPerRule, AllOkFits, CountsFit

\* The connect thread of the service host finishes, during an install too, or
\* an Exercise request runs between two: neither touches what an install decides.
LEMMA ConnectInside ==
  ASSUME IndInv, RefInv,
         UNCHANGED <<phase, doc, status, k, entries, allOk, committed, rejected, armed>>
  PROVE  RefInv'
<1>1. Submitted' = Submitted /\ (Installing' <=> Installing)
  BY DEF Submitted, Installing
<1>2. StatusFits' /\ OneEntryPerRule'
  BY <1>1 DEF RefInv, StatusFits, OneEntryPerRule
<1>3. AllOkFits'
  BY DEF RefInv, AllOkFits, HasEntry
<1>4. CountsFit'
  BY <1>1 DEF RefInv, CountsFit
<1>5. QED
  BY <1>2, <1>3, <1>4 DEF RefInv

\* InstallBegin: no rule met, no entry built, nothing submitted.
LEMMA BeginFits ==
  ASSUME IndInv, RefInv, InstallBegin
  PROVE  RefInv'
<1>1. /\ phase' = "build" /\ status' = "running" /\ k' = 1 /\ entries' = <<>>
      /\ allOk' = TRUE /\ committed' = 0 /\ doc' # <<>> /\ doc' \in Seq(RuleSpec)
  BY DocumentsAssumption DEF InstallBegin, Requests, IndInv, TypeOK
<1>2. StatusFits'
  BY <1>1 DEF StatusFits, Installing
<1>3. OneEntryPerRule'
  BY <1>1 DEF OneEntryPerRule, Installing
<1>4. AllOkFits'
  BY <1>1 DEF AllOkFits
<1>5. CountsFit'
  BY <1>1 DEF CountsFit, Submitted
<1>6. QED
  BY <1>2, <1>3, <1>4, <1>5 DEF RefInv

\* A step of the build loop that creates no rule.
Refuses ==
  /\ Building
  /\ allOk' = FALSE /\ k' = k + 1
  /\ UNCHANGED <<phase, doc, status, entries, committed, rejected, armed>>

\* Rule k is left without an entry, and allOk says so.
LEMMA RefusesFits ==
  ASSUME IndInv, RefInv, Refuses
  PROVE  RefInv'
<1>1. phase = "build" /\ k \in 1 .. Len(doc) /\ Len(doc) \in Nat
  BY DEF Refuses, Building, IndInv, TypeOK
<1>2. StatusFits'
  BY DEF RefInv, StatusFits, Installing, Refuses
<1>3. \A j \in 1 .. Len(entries) : entries[j].index \in 1 .. Len(doc) /\ entries[j].index < k
  BY <1>1 DEF RefInv, OneEntryPerRule, Installing
<1>4. OneEntryPerRule'
  <2>1. \A j \in 1 .. Len(entries) : entries[j].index < k + 1
    BY <1>1, <1>3
  <2>2. k + 1 <= Len(doc) + 1
    BY <1>1
  <2>3. QED
    BY <1>1, <2>1, <2>2 DEF RefInv, OneEntryPerRule, Installing, Refuses
<1>5. \A i \in {k} : i \in 1 .. (k' - 1) /\ ~HasEntry(i)'
  BY <1>1, <1>3 DEF HasEntry, Refuses
<1>6. AllOkFits'
  <2>1. phase' = "build" /\ ~allOk'
    BY <1>1 DEF Refuses
  <2>2. QED
    BY <1>5, <2>1 DEF AllOkFits
<1>7. CountsFit'
  <2>1. Submitted = {} /\ Submitted' = {}
    BY <1>1 DEF Submitted, Refuses
  <2>2. QED
    BY <1>1, <2>1 DEF RefInv, CountsFit, Refuses, Installing
<1>8. QED
  BY <1>2, <1>4, <1>6, <1>7 DEF RefInv

\* CreateRule: the new entry is the first one with the index k.
LEMMA CreateFacts ==
  ASSUME IndInv, CreateRule
  PROVE  \E e \in Entry :
           /\ e.index = k /\ e.rule \notin open
           /\ entries' = Append(entries, e)
           /\ Len(entries') = Len(entries) + 1
           /\ \A j \in 1 .. Len(entries) : entries'[j] = entries[j]
           /\ entries'[Len(entries) + 1] = e
<1>1. PICK h \in Handles \ open : entries' = Append(entries, NewEntry(h))
  BY DEF CreateRule
<1>2. NewEntry(h) \in Entry
  BY NewEntryType DEF CreateRule, IndInv, HandleInv
<1>3. NewEntry(h).index = k /\ NewEntry(h).rule = h
  BY DEF NewEntry
<1>4. /\ Len(entries') = Len(entries) + 1
      /\ \A j \in 1 .. Len(entries) : entries'[j] = entries[j]
      /\ entries'[Len(entries) + 1] = NewEntry(h)
  BY <1>1, <1>2, AppendProperties DEF IndInv, TypeOK
<1>5. QED
  BY <1>1, <1>2, <1>3, <1>4

\* The entry for rule k is the first with that index, so allOk still fits.
LEMMA CreateFits ==
  ASSUME IndInv, RefInv, CreateRule
  PROVE  RefInv'
<1>1. /\ phase = "build" /\ k \in 1 .. Len(doc) /\ Len(doc) \in Nat
      /\ Len(entries) \in Nat
  BY DEF CreateRule, Building, IndInv, TypeOK
<1>2. /\ k' = k + 1
      /\ UNCHANGED <<phase, doc, status, allOk, committed, rejected, armed>>
  BY DEF CreateRule, callerVars
<1>3. PICK e \in Entry :
        /\ e.index = k
        /\ Len(entries') = Len(entries) + 1
        /\ \A j \in 1 .. Len(entries) : entries'[j] = entries[j]
        /\ entries'[Len(entries) + 1] = e
  BY CreateFacts
<1>4. StatusFits'
  BY <1>2 DEF RefInv, StatusFits, Installing
<1>5. \A j \in 1 .. Len(entries) : entries[j].index \in 1 .. Len(doc) /\ entries[j].index < k
  BY <1>1 DEF RefInv, OneEntryPerRule, Installing
<1>6. \A j \in 1 .. Len(entries') :
        \/ j \in 1 .. Len(entries) /\ entries'[j] = entries[j]
        \/ j = Len(entries) + 1 /\ entries'[j].index = k
  BY <1>1, <1>3
<1>7. OneEntryPerRule'
  <2>1. \A j \in 1 .. Len(entries') :
          entries'[j].index \in 1 .. Len(doc) /\ entries'[j].index < k + 1
    BY <1>1, <1>5, <1>6
  <2>2. \A i, j \in 1 .. Len(entries) : entries[i].index = entries[j].index => i = j
    BY <1>1 DEF RefInv, OneEntryPerRule, Installing
  <2>3. \A i, j \in 1 .. Len(entries') : entries'[i].index = entries'[j].index => i = j
    BY <1>1, <1>5, <1>6, <2>2
  <2>4. k + 1 <= Len(doc) + 1 /\ doc # <<>>
    BY <1>1
  <2>5. QED
    BY <1>1, <1>2, <2>1, <2>3, <2>4 DEF OneEntryPerRule
<1>8. AllOkFits'
  <2>1. allOk <=> \A i \in 1 .. (k - 1) : HasEntry(i)
    BY <1>1 DEF RefInv, AllOkFits
  <2>2. \A i \in 1 .. (k - 1) : HasEntry(i)' <=> HasEntry(i)
    BY <1>1, <1>3, <1>6 DEF HasEntry
  <2>3. \A i \in {k} : HasEntry(i)'
    BY <1>1, <1>3 DEF HasEntry
  <2>4. 1 .. (k' - 1) = (1 .. (k - 1)) \cup {k}
    BY <1>1, <1>2
  <2>5. QED
    BY <1>1, <1>2, <2>1, <2>2, <2>3, <2>4 DEF AllOkFits
<1>9. CountsFit'
  <2>1. Submitted = {} /\ Submitted' = {}
    BY <1>1, <1>2 DEF Submitted
  <2>2. QED
    BY <1>1, <1>2, <2>1 DEF RefInv, CountsFit, Installing
<1>10. QED
  BY <1>4, <1>7, <1>8, <1>9 DEF RefInv

\* BuildDone into the submit loop: every rule of the document has been met.
LEMMA BuildDoneFits ==
  ASSUME IndInv, RefInv, BuildDone, entries # <<>>
  PROVE  RefInv'
<1>1. /\ phase = "build" /\ k > Len(doc) /\ k \in Nat /\ Len(doc) \in Nat
      /\ phase' = "submit" /\ k' = 1
      /\ UNCHANGED <<doc, status, entries, allOk, committed, rejected, armed>>
  BY DEF BuildDone, loopVars, IndInv, TypeOK
<1>2. k - 1 = Len(doc)
  <2>1. k <= Len(doc) + 1
    BY <1>1 DEF RefInv, OneEntryPerRule, Installing
  <2>2. QED
    BY <1>1, <2>1
<1>3. StatusFits' /\ OneEntryPerRule'
  BY <1>1 DEF RefInv, StatusFits, OneEntryPerRule, Installing
<1>4. AllOkFits'
  BY <1>1, <1>2 DEF RefInv, AllOkFits, HasEntry
<1>5. CountsFit'
  <2>1. Submitted = {} /\ Submitted' = {}
    BY <1>1 DEF Submitted
  <2>2. committed = 0 /\ rejected = {}
    BY <1>1, <2>1 DEF RefInv, CountsFit, Installing, IndInv, HandleInv, LoopShape
  <2>3. QED
    BY <1>1, <2>1, <2>2 DEF CountsFit
<1>6. QED
  BY <1>3, <1>4, <1>5 DEF RefInv

\* The entry the submit loop works on is not armed yet, and no other entry
\* equals it.
LEMMA CurrentEntry ==
  ASSUME IndInv, RefInv, Submitting
  PROVE  /\ phase = "submit" /\ k \in 1 .. Len(entries) /\ Len(entries) \in Nat
         /\ entries[k] \notin armed
         /\ entries[k].index \in 1 .. Len(doc)
         /\ \A j \in 1 .. Len(entries) : j # k => entries[j].index # entries[k].index
<1>1. /\ phase = "submit" /\ k \in 1 .. Len(entries) /\ Len(entries) \in Nat
      /\ rules[before + k] = entries[k].rule
  BY SubmitFacts DEF IndInv
<1>2. entries[k] \notin armed
  BY <1>1, ArmedElsewhere
<1>3. QED
  BY <1>1, <1>2 DEF RefInv, OneEntryPerRule, Installing

\* An accepted entry is counted as committed and joins the armed ones.
LEMMA AcceptFits ==
  ASSUME IndInv, RefInv, SubmitAccepted
  PROVE  RefInv'
<1>1. /\ Submitting /\ phase' = phase /\ k' = k + 1
      /\ armed' = armed \cup {entries[k]} /\ committed' = committed + 1
      /\ UNCHANGED <<doc, status, entries, allOk, rejected>>
  BY DEF SubmitAccepted, callerVars
<1>2. /\ phase = "submit" /\ k \in 1 .. Len(entries) /\ Len(entries) \in Nat
      /\ entries[k] \notin armed
      /\ \A j \in 1 .. Len(entries) : j # k => entries[j].index # entries[k].index
  BY <1>1, CurrentEntry
<1>3. StatusFits' /\ OneEntryPerRule'
  BY <1>1, <1>2 DEF RefInv, StatusFits, OneEntryPerRule, Installing
<1>4. AllOkFits'
  BY <1>1, <1>2 DEF RefInv, AllOkFits, HasEntry
<1>5. Submitted = 1 .. (k - 1) /\ Submitted' = Submitted \cup {k} /\ k \notin Submitted
  BY <1>1, <1>2 DEF Submitted
<1>6. \A j \in Submitted : entries'[j] \in armed' <=> entries[j] \in armed
  <2>1. \A j \in Submitted : j \in 1 .. Len(entries) /\ j # k
    BY <1>2, <1>5
  <2>2. \A j \in Submitted : entries[j] # entries[k]
    BY <1>2, <2>1
  <2>3. QED
    BY <1>1, <2>2
<1>7. committed' # 0
  BY <1>1 DEF IndInv, TypeOK
<1>8. CountsFit'
  <2>1. \A j \in {k} : entries'[j] \in armed'
    BY <1>1
  <2>2. rejected = {} <=> \A j \in Submitted : entries[j] \in armed
    BY <1>2 DEF RefInv, CountsFit
  <2>3. QED
    BY <1>1, <1>2, <1>5, <1>6, <1>7, <2>1, <2>2 DEF CountsFit
<1>9. QED
  BY <1>3, <1>4, <1>8 DEF RefInv

\* A refused entry stays unarmed, and its handle is in rejected.
LEMMA RefuseFits ==
  ASSUME IndInv, RefInv, SubmitRefused
  PROVE  RefInv'
<1>1. /\ Submitting /\ phase' = phase /\ k' = k + 1
      /\ rejected' = rejected \cup {entries[k].rule}
      /\ UNCHANGED <<doc, status, entries, allOk, committed, armed>>
  BY DEF SubmitRefused, callerVars
<1>2. /\ phase = "submit" /\ k \in 1 .. Len(entries) /\ Len(entries) \in Nat
      /\ entries[k] \notin armed
  BY <1>1, CurrentEntry
<1>3. StatusFits' /\ OneEntryPerRule'
  BY <1>1, <1>2 DEF RefInv, StatusFits, OneEntryPerRule, Installing
<1>4. AllOkFits'
  BY <1>1, <1>2 DEF RefInv, AllOkFits, HasEntry
<1>5. Submitted' = Submitted \cup {k}
  BY <1>1, <1>2 DEF Submitted
<1>6. CountsFit'
  BY <1>1, <1>2, <1>5 DEF RefInv, CountsFit, Installing
<1>7. QED
  BY <1>3, <1>4, <1>6 DEF RefInv

\* SubmitDone into compaction: something was refused.
LEMMA SubmitDoneFits ==
  ASSUME IndInv, RefInv, SubmitDone, rejected # {}
  PROVE  RefInv'
<1>1. /\ phase = "submit" /\ k > Len(entries) /\ k \in Nat /\ Len(entries) \in Nat
      /\ phase' = "compact"
      /\ UNCHANGED <<doc, status, entries, allOk, committed, rejected, armed>>
  BY DEF SubmitDone, IndInv, TypeOK
<1>2. k - 1 = Len(entries)
  <2>1. k <= Len(entries) + 1
    BY <1>1 DEF IndInv, HandleInv, LoopShape
  <2>2. QED
    BY <1>1, <2>1
<1>3. StatusFits' /\ OneEntryPerRule'
  BY <1>1 DEF RefInv, StatusFits, OneEntryPerRule, Installing
<1>4. AllOkFits'
  BY <1>1 DEF RefInv, AllOkFits, HasEntry
<1>5. Submitted' = Submitted
  BY <1>1, <1>2 DEF Submitted
<1>6. CountsFit'
  BY <1>1, <1>5 DEF RefInv, CountsFit, Installing
<1>7. QED
  BY <1>3, <1>4, <1>6 DEF RefInv

\* Compaction moves handles only: no decision depends on the slots.
LEMMA CompactFits ==
  ASSUME IndInv, RefInv, CompactSlot
  PROVE  RefInv'
<1>1. /\ phase = "compact"
      /\ UNCHANGED <<phase, doc, status, entries, allOk, committed, rejected, armed>>
  BY DEF CompactSlot, callerVars
<1>2. StatusFits' /\ OneEntryPerRule'
  BY <1>1 DEF RefInv, StatusFits, OneEntryPerRule, Installing
<1>3. AllOkFits'
  BY <1>1 DEF RefInv, AllOkFits, HasEntry
<1>4. Submitted' = Submitted
  BY <1>1 DEF Submitted
<1>5. CountsFit'
  BY <1>1, <1>4 DEF RefInv, CountsFit, Installing
<1>6. QED
  BY <1>2, <1>3, <1>5 DEF RefInv

\* Every step keeps the locals in line with the decisions.
LEMMA RefStep == IndInv /\ RefInv /\ [Next]_vars => RefInv'
<1> SUFFICES ASSUME IndInv, RefInv, [Next]_vars PROVE RefInv'
  OBVIOUS
<1>1. CASE Connect
  <2>1. CASE phase = "connect"
    BY <1>1, <2>1, OutsideStep DEF Connect, callerVars, Installing, RefInv, StatusFits
  <2>2. CASE phase # "connect"
    BY <1>1, <2>2, ConnectInside DEF Connect, callerVars, loopVars
  <2>3. QED
    BY <2>1, <2>2
<1>2. CASE CreateQueue
  BY <1>2, OutsideStep DEF CreateQueue, callerVars, Installing, RefInv, StatusFits
<1>3. CASE RemoveAllRules
  BY <1>3, OutsideStep DEF RemoveAllRules, callerVars, Installing, RefInv, StatusFits
<1>4. CASE InstallRejected
  BY <1>4, OutsideStep DEF InstallRejected, MayInstall, Returned, Installing, StatusFits
<1>5. CASE InstallBegin
  BY <1>5, BeginFits
<1>6. CASE SkipRule \/ PatchFails \/ CreateRuleFails
  <2>1. Refuses
    BY <1>6 DEF SkipRule, PatchFails, CreateRuleFails, Refuses, callerVars
  <2>2. QED
    BY <2>1, RefusesFits
<1>7. CASE CreateRule
  BY <1>7, CreateFits
<1>8. CASE BuildDone
  <2>1. CASE entries = <<>>
    <3>1. phase' \in {"ready", "end"} /\ status' = "Failed"
      BY <1>8, <2>1 DEF BuildDone, Returned
    <3>2. QED
      BY <3>1 DEF RefInv, StatusFits, Installing, OneEntryPerRule, AllOkFits, CountsFit
  <2>2. CASE entries # <<>>
    BY <1>8, <2>2, BuildDoneFits
  <2>3. QED
    BY <2>1, <2>2
<1>9. CASE SubmitAccepted
  BY <1>9, AcceptFits
<1>10. CASE SubmitRefused
  BY <1>10, RefuseFits
<1>11. InstallStatus \in {"Complete", "Partial", "Failed"}
  BY DEF InstallStatus
<1>12. ASSUME phase' = Returned, status' = InstallStatus PROVE RefInv'
  <2>1. phase' \in {"ready", "end"} /\ status' \in {"Complete", "Partial", "Failed"}
    BY <1>11, <1>12 DEF Returned
  <2>2. QED
    BY <2>1 DEF RefInv, StatusFits, Installing, OneEntryPerRule, AllOkFits, CountsFit
<1>13. CASE SubmitDone
  <2>1. CASE rejected = {}
    BY <1>12, <1>13, <2>1 DEF SubmitDone
  <2>2. CASE rejected # {}
    BY <1>13, <2>2, SubmitDoneFits
  <2>3. QED
    BY <2>1, <2>2
<1>14. CASE CompactSlot
  BY <1>14, CompactFits
<1>15. CASE CompactDone
  BY <1>12, <1>15 DEF CompactDone
<1>16. CASE Disconnect
  <2>1. phase' \in {"closed", "gone"} /\ status' = "none"
    BY <1>16 DEF Disconnect
  <2>2. QED
    BY <2>1 DEF RefInv, StatusFits, Installing, OneEntryPerRule, AllOkFits, CountsFit
<1>17. CASE Exercise
  BY <1>17, ConnectInside DEF Exercise, callerVars, loopVars
<1>18. CASE UNCHANGED vars
  BY <1>18, ConnectInside DEF vars
<1>19. QED
  BY <1>1, <1>2, <1>3, <1>4, <1>5, <1>6, <1>7, <1>8, <1>9, <1>10,
     <1>13, <1>14, <1>15, <1>16, <1>17, <1>18 DEF Next, Install, Terminated

\* The locals agree with the decisions in every state.
LEMMA AlwaysFits == Spec => []RefInv
<1>1. Init => RefInv
  BY DEF Init, RefInv, StatusFits, Installing, OneEntryPerRule, AllOkFits, CountsFit
<1>2. QED
  BY <1>1, RefStep, InstallInvariant, PTL DEF Spec
--------------------------------------------------------------------------------
(***************************************************************************)
(* The refinement mapping, step by step.                                   *)
(***************************************************************************)
\* The two questions OutcomeOf asks about a rule.
ArmedRule(i) ==
  \E j \in 1 .. Len(entries) : entries[j].index = i /\ entries[j] \in armed

PendingRule(i) ==
  \/ phase = "build" /\ (i >= k \/ HasEntry(i))
  \/ phase = "submit" /\ \E j \in 1 .. Len(entries) : entries[j].index = i /\ j >= k

Decision(i) == IF ArmedRule(i) THEN "armed" ELSE IF PendingRule(i) THEN "pending" ELSE "refused"

\* Outcome in terms of Decision, in this state and (OutcomeIsNext) in the next.
LEMMA OutcomeIs ==
  ASSUME TypeOK
  PROVE  /\ Outcome = IF status = "none" THEN <<>> ELSE [i \in 1 .. Len(doc) |-> Decision(i)]
         /\ \A i : OutcomeOf(i) = Decision(i)
<1>1. DOMAIN entries = 1 .. Len(entries) /\ DOMAIN doc = 1 .. Len(doc)
  BY DEF TypeOK
<1>2. \A i : OutcomeOf(i) = Decision(i)
  BY <1>1, Zenon DEF OutcomeOf, Decision, ArmedRule, PendingRule, HasEntry
<1>3. QED
  BY <1>1, <1>2, Zenon DEF Outcome

\* The same for the next state.
LEMMA OutcomeIsNext ==
  ASSUME TypeOK'
  PROVE  Outcome' = IF status' = "none" THEN <<>> ELSE [i \in 1 .. Len(doc') |-> Decision(i)']
<1>1. DOMAIN entries' = 1 .. Len(entries') /\ DOMAIN doc' = 1 .. Len(doc')
  BY DEF TypeOK
<1>2. \A i : OutcomeOf(i)' = Decision(i)'
  BY <1>1, Zenon DEF OutcomeOf, Decision, ArmedRule, PendingRule, HasEntry
<1>3. QED
  BY <1>1, <1>2, Zenon DEF Outcome

\* A step that leaves every decision as it was is a stuttering step.
LEMMA SameOutcome ==
  ASSUME TypeOK, TypeOK', UNCHANGED <<doc, status>>,
         \A i \in 1 .. Len(doc) : Decision(i)' = Decision(i)
  PROVE  Outcome' = Outcome
BY OutcomeIs, OutcomeIsNext

\* One pending decision turned and the others kept: a Decide step.
LEMMA OneDecided ==
  ASSUME TypeOK, TypeOK', UNCHANGED <<doc, status>>, status = "running",
         NEW n \in 1 .. Len(doc), NEW d \in {"armed", "refused"},
         Decision(n) = "pending", Decision(n)' = d,
         \A i \in 1 .. Len(doc) : i # n => Decision(i)' = Decision(i)
  PROVE  Contract!Decide
<1>1. Outcome = [i \in 1 .. Len(doc) |-> Decision(i)]
  BY OutcomeIs
<1>2. Outcome' = [i \in 1 .. Len(doc) |-> Decision(i)']
  BY OutcomeIsNext
<1>3. n \in DOMAIN Outcome /\ Outcome[n] = "pending"
  BY <1>1
<1>4. Outcome' = [Outcome EXCEPT ![n] = d]
  BY <1>1, <1>2
<1>5. QED
  BY <1>3, <1>4 DEF Contract!Decide

\* A rule the build loop gives up is decided: it was pending and is refused.
LEMMA RefusesDecides ==
  ASSUME IndInv, IndInv', RefInv, Refuses
  PROVE  Contract!Decide
<1>1. /\ phase = "build" /\ phase' = "build" /\ k \in 1 .. Len(doc) /\ Len(doc) \in Nat
      /\ k' = k + 1 /\ UNCHANGED <<doc, status, entries, armed>>
  BY DEF Refuses, Building, IndInv, TypeOK
<1>2. status = "running"
  BY <1>1 DEF RefInv, StatusFits, Installing
<1>3. \A j \in 1 .. Len(entries) : entries[j].index < k /\ entries[j].index # k
  BY <1>1 DEF RefInv, OneEntryPerRule, Installing
<1>4. ~HasEntry(k) /\ ~ArmedRule(k)
  BY <1>3 DEF HasEntry, ArmedRule
<1>5. \A i \in 1 .. Len(doc) : /\ HasEntry(i)' <=> HasEntry(i)
                               /\ ArmedRule(i)' <=> ArmedRule(i)
  BY <1>1 DEF HasEntry, ArmedRule
<1>6. \A i \in 1 .. Len(doc) : i # k => (PendingRule(i)' <=> PendingRule(i))
  <2>1. \A i \in 1 .. Len(doc) : i # k => (i >= k' <=> i >= k)
    BY <1>1
  <2>2. QED
    BY <1>1, <1>5, <2>1 DEF PendingRule
<1>7. PICK n \in 1 .. Len(doc) : n = k
  BY <1>1
<1>8. Decision(n) = "pending"
  BY <1>1, <1>4, <1>7 DEF Decision, PendingRule
<1>9. Decision(n)' = "refused"
  <2>1. ~(n >= k')
    BY <1>1, <1>7
  <2>2. ~HasEntry(n)' /\ ~ArmedRule(n)'
    BY <1>4, <1>5, <1>7
  <2>3. QED
    BY <1>1, <2>1, <2>2 DEF Decision, PendingRule
<1>10. \A i \in 1 .. Len(doc) : i # n => Decision(i)' = Decision(i)
  BY <1>5, <1>6, <1>7 DEF Decision
<1>11. QED
  BY <1>1, <1>2, <1>8, <1>9, <1>10, OneDecided DEF IndInv

\* EspCreateRule decides nothing: the rule is still pending, and its new entry
\* cannot be one the driver accepted earlier, because its handle was not open.
LEMMA CreateStutters ==
  ASSUME IndInv, IndInv', RefInv, CreateRule
  PROVE  Outcome' = Outcome
<1>1. /\ phase = "build" /\ phase' = "build" /\ k \in 1 .. Len(doc) /\ Len(doc) \in Nat
      /\ Len(entries) \in Nat
      /\ k' = k + 1 /\ UNCHANGED <<doc, status, armed>>
  BY DEF CreateRule, Building, callerVars, IndInv, TypeOK
<1>2. PICK e \in Entry :
        /\ e.index = k /\ e.rule \notin open
        /\ Len(entries') = Len(entries) + 1
        /\ \A j \in 1 .. Len(entries) : entries'[j] = entries[j]
        /\ entries'[Len(entries) + 1] = e
  BY CreateFacts
<1>3. e \notin armed
  BY <1>2, ArmedElsewhere
<1>4. \A j : j \in 1 .. Len(entries') <=> (j \in 1 .. Len(entries) \/ j = Len(entries) + 1)
  BY <1>1, <1>2
<1>5. \A i \in 1 .. Len(doc) : ArmedRule(i)' <=> ArmedRule(i)
  BY <1>1, <1>2, <1>3, <1>4 DEF ArmedRule
<1>6. \A i \in 1 .. Len(doc) : HasEntry(i)' <=> (HasEntry(i) \/ i = k)
  BY <1>1, <1>2, <1>4 DEF HasEntry
<1>7. \A i \in 1 .. Len(doc) : i >= k <=> (i >= k' \/ i = k)
  BY <1>1
<1>8. \A i \in 1 .. Len(doc) : PendingRule(i)' <=> PendingRule(i)
  BY <1>1, <1>6, <1>7 DEF PendingRule
<1>9. QED
  BY <1>1, <1>5, <1>8, SameOutcome DEF Decision, IndInv

\* Entering the submit loop decides nothing: the rules with an entry are those
\* still to be submitted.
LEMMA BuildDoneStutters ==
  ASSUME IndInv, IndInv', RefInv, BuildDone, entries # <<>>
  PROVE  Outcome' = Outcome
<1>1. /\ phase = "build" /\ phase' = "submit" /\ k > Len(doc) /\ k \in Nat /\ Len(doc) \in Nat
      /\ k' = 1 /\ UNCHANGED <<doc, status, entries, armed>>
  BY DEF BuildDone, loopVars, IndInv, TypeOK
<1>2. \A i \in 1 .. Len(doc) : ArmedRule(i)' <=> ArmedRule(i)
  BY <1>1 DEF ArmedRule
<1>3. \A i \in 1 .. Len(doc) : ~(i >= k)
  BY <1>1
<1>4. \A j \in 1 .. Len(entries) : j >= k'
  BY <1>1 DEF IndInv, TypeOK
<1>5. \A i \in 1 .. Len(doc) : PendingRule(i)' <=> PendingRule(i)
  BY <1>1, <1>3, <1>4 DEF PendingRule, HasEntry
<1>6. QED
  BY <1>1, <1>2, <1>5, SameOutcome DEF Decision, IndInv

\* Each round of the submit loop decides the rule its entry was built for, and
\* no other: the entries' indices are distinct.
LEMMA SubmitDecides ==
  ASSUME IndInv, IndInv', RefInv, SubmitAccepted \/ SubmitRefused
  PROVE  Contract!Decide
<1>1. /\ Submitting /\ phase' = phase /\ k' = k + 1
      /\ armed' \in {armed, armed \cup {entries[k]}}
      /\ UNCHANGED <<doc, status, entries>>
  BY DEF SubmitAccepted, SubmitRefused, callerVars
<1>2. /\ phase = "submit" /\ k \in 1 .. Len(entries) /\ Len(entries) \in Nat
      /\ entries[k] \notin armed
      /\ entries[k].index \in 1 .. Len(doc)
      /\ \A j \in 1 .. Len(entries) : j # k => entries[j].index # entries[k].index
  BY <1>1, CurrentEntry
<1>3. status = "running"
  BY <1>2 DEF RefInv, StatusFits, Installing
<1>4. PICK n \in 1 .. Len(doc) : n = entries[k].index
  BY <1>2
<1>5. \A j \in 1 .. Len(entries) : entries[j].index = n <=> j = k
  BY <1>2, <1>4
<1>6. Decision(n) = "pending"
  <2>1. ~ArmedRule(n)
    BY <1>2, <1>5 DEF ArmedRule
  <2>2. PendingRule(n)
    BY <1>2, <1>5 DEF PendingRule
  <2>3. QED
    BY <2>1, <2>2 DEF Decision
<1>7. ~PendingRule(n)'
  <2>1. \A j \in 1 .. Len(entries) : entries[j].index = n => ~(j >= k')
    BY <1>1, <1>2, <1>5
  <2>2. QED
    BY <1>1, <1>2, <2>1 DEF PendingRule
<1>8. \A i \in 1 .. Len(doc) : i # n => Decision(i)' = Decision(i)
  <2>1. \A i \in 1 .. Len(doc) : i # n => (ArmedRule(i)' <=> ArmedRule(i))
    BY <1>1, <1>4 DEF ArmedRule
  <2>2. \A j \in 1 .. Len(entries) : j # k => (j >= k' <=> j >= k)
    BY <1>1, <1>2
  <2>3. \A i \in 1 .. Len(doc) : i # n => (PendingRule(i)' <=> PendingRule(i))
    BY <1>1, <1>2, <1>4, <2>2 DEF PendingRule
  <2>4. QED
    BY <2>1, <2>3 DEF Decision
<1>9. \E d \in {"armed", "refused"} : Decision(n)' = d
  BY <1>7 DEF Decision
<1>10. QED
  BY <1>1, <1>3, <1>6, <1>8, <1>9, OneDecided DEF IndInv

\* The verdict in the contract's words.
LEMMA VerdictIs ==
  ASSUME NEW o, NEW someArmed \in BOOLEAN, NEW someRefused \in BOOLEAN,
         someArmed <=> \E i \in DOMAIN o : o[i] = "armed",
         someRefused <=> \E i \in DOMAIN o : o[i] = "refused",
         someArmed \/ someRefused
  PROVE  Contract!Verdict(o) = IF ~someArmed THEN "Failed"
                               ELSE IF ~someRefused THEN "Complete" ELSE "Partial"
<1>1. CASE ~someArmed
  <2>1. (\E i \in DOMAIN o : o[i] = "refused") /\ ~(\E i \in DOMAIN o : o[i] = "armed")
    BY <1>1
  <2>2. QED
    BY <1>1, <2>1, Zenon DEF Contract!Verdict
<1>2. CASE someArmed
  BY <1>2, Zenon DEF Contract!Verdict
<1>3. QED
  BY <1>1, <1>2

\* A return from InstallRules: nothing is pending, no decision changes, and the
\* status is computed from the decisions.
LEMMA Finishes ==
  ASSUME TypeOK, TypeOK', status = "running", status' # "none", UNCHANGED doc,
         \A i \in 1 .. Len(doc) : /\ ~PendingRule(i) /\ ~PendingRule(i)'
                                  /\ ArmedRule(i)' <=> ArmedRule(i),
         doc # <<>>,
         status' = IF \A i \in 1 .. Len(doc) : ~ArmedRule(i) THEN "Failed"
                   ELSE IF \A i \in 1 .. Len(doc) : ArmedRule(i) THEN "Complete"
                   ELSE "Partial"
  PROVE  Contract!Finish
<1>1. Outcome = [i \in 1 .. Len(doc) |-> Decision(i)]
  BY OutcomeIs
<1>2. Outcome' = [i \in 1 .. Len(doc) |-> Decision(i)']
  BY OutcomeIsNext
<1>3. \A i \in 1 .. Len(doc) : /\ Decision(i)' = Decision(i)
                               /\ Decision(i) = IF ArmedRule(i) THEN "armed" ELSE "refused"
  BY DEF Decision
<1>4. Outcome' = Outcome
  BY <1>1, <1>2, <1>3
<1>5. DOMAIN Outcome = 1 .. Len(doc) /\ \A i \in 1 .. Len(doc) : Outcome[i] = Decision(i)
  BY <1>1
<1>6. \A i \in DOMAIN Outcome : Outcome[i] # "pending"
  BY <1>3, <1>5
<1>7. /\ (\E i \in DOMAIN Outcome : Outcome[i] = "armed") <=>
           ~(\A i \in 1 .. Len(doc) : ~ArmedRule(i))
      /\ (\E i \in DOMAIN Outcome : Outcome[i] = "refused") <=>
           ~(\A i \in 1 .. Len(doc) : ArmedRule(i))
  BY <1>3, <1>5
<1>8. 1 \in 1 .. Len(doc)
  BY DEF TypeOK
<1>9. Contract!Verdict(Outcome) = status'
  <2>1. PICK a \in BOOLEAN : a <=> \E i \in DOMAIN Outcome : Outcome[i] = "armed"
    OBVIOUS
  <2>2. PICK r \in BOOLEAN : r <=> \E i \in DOMAIN Outcome : Outcome[i] = "refused"
    OBVIOUS
  <2>3. a \/ r
    BY <1>7, <1>8, <2>1, <2>2
  <2>4. Contract!Verdict(Outcome) = IF ~a THEN "Failed" ELSE IF ~r THEN "Complete" ELSE "Partial"
    BY <2>1, <2>2, <2>3, VerdictIs
  <2>5. QED
    BY <1>7, <2>1, <2>2, <2>4
<1>10. QED
  BY <1>4, <1>6, <1>9 DEF Contract!Finish

\* No rule was created: the whole document is refused.
LEMMA EmptyFinishes ==
  ASSUME IndInv, IndInv', RefInv, BuildDone, entries = <<>>
  PROVE  Contract!Finish
<1>1. /\ phase = "build" /\ phase' \in {"ready", "end"} /\ k > Len(doc) /\ k \in Nat
      /\ Len(doc) \in Nat /\ status' = "Failed"
      /\ UNCHANGED <<doc, entries, armed>>
  BY DEF BuildDone, Returned, loopVars, IndInv, TypeOK
<1>2. status = "running" /\ doc # <<>>
  BY <1>1 DEF RefInv, StatusFits, OneEntryPerRule, Installing
<1>3. \A i \in 1 .. Len(doc) : /\ ~ArmedRule(i) /\ ~ArmedRule(i)'
                               /\ ~HasEntry(i) /\ ~(i >= k)
  BY <1>1 DEF ArmedRule, HasEntry
<1>4. \A i \in 1 .. Len(doc) : ~PendingRule(i) /\ ~PendingRule(i)'
  BY <1>1, <1>3 DEF PendingRule
<1>5. QED
  BY <1>1, <1>2, <1>3, <1>4, Finishes DEF IndInv

\* The submit loop or compaction is through: committed, rejected and allOk say
\* together what the decisions are.
LEMMA ReturnFacts ==
  ASSUME IndInv, RefInv, (SubmitDone /\ rejected = {}) \/ CompactDone
  PROVE  /\ status = "running" /\ doc # <<>> /\ UNCHANGED <<doc, entries, armed>>
         /\ \A i \in 1 .. Len(doc) : /\ ~PendingRule(i) /\ ~PendingRule(i)'
                                     /\ ArmedRule(i)' <=> ArmedRule(i)
         /\ status' = IF \A i \in 1 .. Len(doc) : ~ArmedRule(i) THEN "Failed"
                      ELSE IF \A i \in 1 .. Len(doc) : ArmedRule(i) THEN "Complete"
                      ELSE "Partial"
<1>1. /\ phase \in {"submit", "compact"} /\ phase' \in {"ready", "end"}
      /\ status' = InstallStatus /\ UNCHANGED <<doc, entries, armed>>
      /\ phase = "submit" => rejected = {} /\ k > Len(entries)
  BY DEF SubmitDone, CompactDone, Returned
<1>2. k \in Nat /\ Len(entries) \in Nat
  BY DEF IndInv, TypeOK
<1>3. Submitted = 1 .. Len(entries)
  <2>1. phase = "submit" => k <= Len(entries) + 1
    BY DEF IndInv, HandleInv, LoopShape
  <2>2. QED
    BY <1>1, <1>2, <2>1 DEF Submitted
<1>4. /\ status = "running" /\ entries # <<>>
      /\ \A j \in 1 .. Len(entries) : entries[j].index \in 1 .. Len(doc)
      /\ \A i, j \in 1 .. Len(entries) : entries[i].index = entries[j].index => i = j
  BY <1>1 DEF RefInv, StatusFits, OneEntryPerRule, Installing
<1>5. 1 \in 1 .. Len(entries)
  BY <1>2, <1>4 DEF IndInv, TypeOK
<1>6. doc # <<>>
  <2>1. entries[1].index \in 1 .. Len(doc)
    BY <1>4, <1>5
  <2>2. 1 .. Len(doc) # {}
    BY <2>1
  <2>3. QED
    BY <2>2
<1>7. \A j \in 1 .. Len(entries) : ArmedRule(entries[j].index) <=> entries[j] \in armed
  BY <1>4 DEF ArmedRule
<1>8. committed = 0 <=> \A i \in 1 .. Len(doc) : ~ArmedRule(i)
  <2>1. committed = 0 <=> \A j \in 1 .. Len(entries) : entries[j] \notin armed
    BY <1>1, <1>3 DEF RefInv, CountsFit, Installing
  <2>2. QED
    BY <1>4, <1>7, <2>1 DEF ArmedRule
<1>9. allOk /\ rejected = {} <=> \A i \in 1 .. Len(doc) : ArmedRule(i)
  <2>1. allOk <=> \A i \in 1 .. Len(doc) : HasEntry(i)
    BY <1>1 DEF RefInv, AllOkFits
  <2>2. rejected = {} <=> \A j \in 1 .. Len(entries) : entries[j] \in armed
    BY <1>1, <1>3 DEF RefInv, CountsFit
  <2>3. ASSUME \A i \in 1 .. Len(doc) : ArmedRule(i) PROVE allOk /\ rejected = {}
    <3>1. allOk
      BY <2>1, <2>3 DEF ArmedRule, HasEntry
    <3>2. rejected = {}
      BY <1>4, <1>7, <2>2, <2>3
    <3>3. QED
      BY <3>1, <3>2
  <2>4. ASSUME allOk, rejected = {} PROVE \A i \in 1 .. Len(doc) : ArmedRule(i)
    BY <2>1, <2>2, <2>4 DEF ArmedRule, HasEntry
  <2>5. QED
    BY <2>3, <2>4
<1>10. ~(committed = 0 /\ allOk /\ rejected = {})
  <2>1. entries[1].index \in 1 .. Len(doc)
    BY <1>4, <1>5
  <2>2. QED
    BY <1>8, <1>9, <2>1
<1>11. InstallStatus = IF committed = 0 THEN "Failed"
                       ELSE IF allOk /\ rejected = {} THEN "Complete" ELSE "Partial"
  BY <1>10, Zenon DEF InstallStatus
<1>12. \A i \in 1 .. Len(doc) : /\ ~PendingRule(i) /\ ~PendingRule(i)'
                                /\ ArmedRule(i)' <=> ArmedRule(i)
  <2>1. phase = "submit" => \A j \in 1 .. Len(entries) : ~(j >= k)
    BY <1>1, <1>2
  <2>2. QED
    BY <1>1, <2>1 DEF PendingRule, ArmedRule
<1>13. status' = IF \A i \in 1 .. Len(doc) : ~ArmedRule(i) THEN "Failed"
                 ELSE IF \A i \in 1 .. Len(doc) : ArmedRule(i) THEN "Complete"
                 ELSE "Partial"
  BY <1>1, <1>8, <1>9, <1>11
<1>14. QED
  BY <1>1, <1>4, <1>6, <1>12, <1>13

\* Hence the return is the Finish step of the contract.
LEMMA ReturnFinishes ==
  ASSUME IndInv, IndInv', RefInv, (SubmitDone /\ rejected = {}) \/ CompactDone
  PROVE  Contract!Finish
BY ReturnFacts, Finishes DEF IndInv

\* Every step is a step of the contract or leaves what it sees unchanged.
LEMMA ContractStep ==
  ASSUME IndInv, IndInv', RefInv, RefInv', [Next]_vars
  PROVE  [Contract!CNext]_Contract!cvars
<1> USE DEF Contract!cvars
<1>1. ASSUME UNCHANGED <<phase, doc, status, k, entries, armed>> PROVE Outcome' = Outcome
  BY <1>1 DEF Outcome, OutcomeOf
<1>2. ASSUME status = "none", status' = "none" PROVE Outcome' = Outcome
  BY <1>2 DEF Outcome
<1>3. CASE Connect
  <2>1. CASE phase = "connect"
    BY <1>2, <1>3, <2>1 DEF Connect, callerVars, RefInv, StatusFits
  <2>2. CASE phase # "connect"
    BY <1>1, <1>3, <2>2 DEF Connect, callerVars, loopVars
  <2>3. QED
    BY <2>1, <2>2
<1>4. CASE CreateQueue \/ RemoveAllRules
  BY <1>2, <1>4 DEF CreateQueue, RemoveAllRules, callerVars, RefInv, StatusFits
<1>5. CASE InstallRejected
  <2>1. /\ status' = "Failed" /\ entries' = <<>> /\ phase' \in {"ready", "end"}
        /\ phase = "ready"
    BY <1>5 DEF InstallRejected, MayInstall, Returned
  <2>2. status # "running"
    BY <2>1 DEF RefInv, StatusFits, Installing
  <2>3. \A i \in 1 .. Len(doc') : Decision(i)' = "refused"
    BY <2>1 DEF Decision, ArmedRule, PendingRule
  <2>4. Outcome' \in [1 .. Len(doc') -> {"refused"}] /\ Len(doc') \in Nat
    BY <2>1, <2>3, OutcomeIsNext DEF IndInv, TypeOK
  <2>5. Outcome' \in Seq({"refused"})
    BY <2>4
  <2>6. QED
    BY <2>1, <2>2, <2>5 DEF Contract!CNext, Contract!Reject
<1>6. CASE InstallBegin
  <2>1. /\ status' = "running" /\ entries' = <<>> /\ phase' = "build" /\ phase = "ready"
        /\ k' = 1 /\ doc' # <<>>
    BY <1>6 DEF InstallBegin, MayInstall
  <2>2. status # "running"
    BY <2>1 DEF RefInv, StatusFits, Installing
  <2>3. \A i \in 1 .. Len(doc') : i >= k'
    BY <2>1
  <2>4. \A i \in 1 .. Len(doc') : Decision(i)' = "pending"
    BY <2>1, <2>3 DEF Decision, ArmedRule, PendingRule
  <2>5. Outcome' \in [1 .. Len(doc') -> {"pending"}] /\ Len(doc') \in Nat /\ Len(doc') # 0
    BY <2>1, <2>4, OutcomeIsNext DEF IndInv, TypeOK
  <2>6. Outcome' \in Seq({"pending"}) /\ Outcome' # <<>>
    BY <2>5
  <2>7. QED
    BY <2>1, <2>2, <2>6 DEF Contract!CNext, Contract!Begin
<1>7. CASE SkipRule \/ PatchFails \/ CreateRuleFails
  <2>1. Refuses
    BY <1>7 DEF SkipRule, PatchFails, CreateRuleFails, Refuses, callerVars
  <2>2. QED
    BY <2>1, RefusesDecides DEF Contract!CNext
<1>8. CASE CreateRule
  BY <1>8, CreateStutters DEF CreateRule, callerVars
<1>9. CASE BuildDone
  <2>1. CASE entries = <<>>
    BY <1>9, <2>1, EmptyFinishes DEF Contract!CNext
  <2>2. CASE entries # <<>>
    BY <1>9, <2>2, BuildDoneStutters DEF BuildDone
  <2>3. QED
    BY <2>1, <2>2
<1>10. CASE SubmitAccepted \/ SubmitRefused
  BY <1>10, SubmitDecides DEF Contract!CNext
<1>11. CASE SubmitDone
  <2>1. CASE rejected = {}
    BY <1>11, <2>1, ReturnFinishes DEF Contract!CNext
  <2>2. CASE rejected # {}
    <3>1. /\ phase = "submit" /\ phase' = "compact" /\ k > Len(entries)
          /\ UNCHANGED <<doc, status, entries, armed>>
      BY <1>11, <2>2 DEF SubmitDone
    <3>2. \A j \in 1 .. Len(entries) : ~(j >= k)
      BY <3>1 DEF IndInv, TypeOK
    <3>3. \A i \in 1 .. Len(doc) : /\ ~PendingRule(i) /\ ~PendingRule(i)'
                                   /\ ArmedRule(i)' <=> ArmedRule(i)
      BY <3>1, <3>2 DEF PendingRule, ArmedRule
    <3>4. QED
      BY <3>1, <3>3, SameOutcome DEF Decision, IndInv
  <2>3. QED
    BY <2>1, <2>2
<1>12. CASE CompactSlot
  <2>1. /\ phase = "compact" /\ UNCHANGED <<phase, doc, status, entries, armed>>
    BY <1>12 DEF CompactSlot, callerVars
  <2>2. \A i \in 1 .. Len(doc) : /\ ~PendingRule(i) /\ ~PendingRule(i)'
                                 /\ ArmedRule(i)' <=> ArmedRule(i)
    BY <2>1 DEF PendingRule, ArmedRule
  <2>3. QED
    BY <2>1, <2>2, SameOutcome DEF Decision, IndInv
<1>13. CASE CompactDone
  BY <1>13, ReturnFinishes DEF Contract!CNext
<1>14. CASE Disconnect
  <2>1. status' = "none" /\ phase \in {"ready", "end", "closed"}
    BY <1>14 DEF Disconnect
  <2>2. status # "running"
    BY <2>1 DEF RefInv, StatusFits, Installing
  <2>3. Outcome' = <<>>
    BY <2>1 DEF Outcome
  <2>4. QED
    BY <2>1, <2>2, <2>3 DEF Contract!CNext, Contract!Close
<1>15. CASE Exercise
  BY <1>1, <1>15 DEF Exercise, callerVars, loopVars
<1>16. CASE UNCHANGED vars
  BY <1>1, <1>16 DEF vars
<1>17. QED
  BY <1>3, <1>4, <1>5, <1>6, <1>7, <1>8, <1>9, <1>10, <1>11, <1>12, <1>13, <1>14,
     <1>15, <1>16 DEF Next, Install, Terminated

\* InstallRules keeps its contract for every document, caller and answer of the
\* library and the driver: each rule is decided once, no decision is taken back
\* before Disconnect, and the status returned is the summary of the decisions.
THEOREM InstallKeepsContract == Spec => RefinesContract
<1>1. Init => Contract!CInit
  BY DEF Init, Contract!CInit, Outcome
<1>2. IndInv /\ IndInv' /\ RefInv /\ RefInv' /\ [Next]_vars => [Contract!CNext]_Contract!cvars
  BY ContractStep
<1>3. QED
  BY <1>1, <1>2, InstallInvariant, AlwaysFits, PTL DEF Spec, RefinesContract, Contract!CSpec

--------------------------------------------------------------------------------
(***************************************************************************)
(* The status the caller reads after the return.                           *)
(***************************************************************************)
Summary ==
  status \notin {"none", "running"} =>
    status = IF \A i \in 1 .. Len(doc) : ~ArmedRule(i) THEN "Failed"
             ELSE IF \A i \in 1 .. Len(doc) : ArmedRule(i) THEN "Complete"
             ELSE "Partial"

\* Every step keeps a returned status the summary of what is armed.
LEMMA SummaryStep == IndInv /\ RefInv /\ Summary /\ [Next]_vars => Summary'
<1> SUFFICES ASSUME IndInv, RefInv, Summary, [Next]_vars, status' \notin {"none", "running"}
             PROVE  Summary'
  BY DEF Summary
<1>1. ASSUME UNCHANGED <<doc, status, entries, armed>> PROVE Summary'
  BY <1>1 DEF Summary, ArmedRule
<1>2. ASSUME entries' = <<>>, status' = "Failed" PROVE Summary'
  BY <1>2 DEF Summary, ArmedRule
<1>3. CASE (SubmitDone /\ rejected = {}) \/ CompactDone
  <2>1. /\ UNCHANGED <<doc, entries, armed>>
        /\ \A i \in 1 .. Len(doc) : ArmedRule(i)' <=> ArmedRule(i)
        /\ status' = IF \A i \in 1 .. Len(doc) : ~ArmedRule(i) THEN "Failed"
                     ELSE IF \A i \in 1 .. Len(doc) : ArmedRule(i) THEN "Complete"
                     ELSE "Partial"
    BY <1>3, ReturnFacts
  <2>2. QED
    BY <2>1 DEF Summary
<1>4. CASE SubmitDone /\ rejected # {}
  BY <1>1, <1>4 DEF SubmitDone
<1>5. CASE BuildDone
  <2>1. CASE entries = <<>>
    BY <1>2, <1>5, <2>1 DEF BuildDone, loopVars
  <2>2. CASE entries # <<>>
    BY <1>1, <1>5, <2>2 DEF BuildDone, loopVars
  <2>3. QED
    BY <2>1, <2>2
<1>6. CASE InstallRejected
  BY <1>2, <1>6 DEF InstallRejected
<1>7. CASE InstallBegin \/ Disconnect
  BY <1>7 DEF InstallBegin, Disconnect
<1>8. CASE Connect \/ CreateQueue \/ Exercise
  BY <1>1, <1>8 DEF Connect, CreateQueue, Exercise, callerVars, loopVars
<1>9. CASE RemoveAllRules
  BY <1>9 DEF RemoveAllRules, callerVars, RefInv, StatusFits
<1>10. CASE UNCHANGED vars
  BY <1>1, <1>10 DEF vars
<1>11. CASE \/ SkipRule \/ PatchFails \/ CreateRuleFails \/ CreateRule
            \/ SubmitAccepted \/ SubmitRefused \/ CompactSlot
  <2>1. phase \in {"build", "submit", "compact"} /\ status' = status
    BY <1>11 DEF SkipRule, PatchFails, CreateRuleFails, CreateRule, SubmitAccepted, SubmitRefused,
                 CompactSlot, Building, Submitting, callerVars
  <2>2. QED
    BY <2>1 DEF RefInv, StatusFits, Installing
<1>12. QED
  BY <1>3, <1>4, <1>5, <1>6, <1>7, <1>8, <1>9, <1>10, <1>11 DEF Next, Install, Terminated

\* The InstallStatus a command or the service reads says what the driver took:
\* Complete only if it took every rule of the document, Failed only if none.
THEOREM StatusAlwaysHonest == Spec => []StatusHonest
<1>1. Init => Summary
  BY DEF Init, Summary
<1>2. Spec => []Summary
  BY <1>1, SummaryStep, InstallInvariant, AlwaysFits, PTL DEF Spec
<1>3. IndInv /\ Summary => StatusHonest
  <2> SUFFICES ASSUME IndInv, Summary PROVE StatusHonest
    OBVIOUS
  <2> DEFINE Armed(i) == \E e \in armed : e.index = i /\ \E j \in DOMAIN entries : entries[j] = e
  <2>1. DOMAIN entries = 1 .. Len(entries) /\ DOMAIN doc = 1 .. Len(doc)
    BY DEF IndInv, TypeOK
  <2>2. \A i \in DOMAIN doc : Armed(i) <=> ArmedRule(i)
    BY <2>1 DEF ArmedRule
  <2>3. /\ status = "Complete" => \A i \in DOMAIN doc : ArmedRule(i)
        /\ status = "Partial"  => /\ \E i \in DOMAIN doc : ArmedRule(i)
                                  /\ \E i \in DOMAIN doc : ~ArmedRule(i)
        /\ status = "Failed"   => \A i \in DOMAIN doc : ~ArmedRule(i)
    BY <2>1 DEF Summary
  <2>4. QED
    BY <2>2, <2>3, Zenon DEF StatusHonest
<1>4. QED
  BY <1>2, <1>3, InstallInvariant, PTL
================================================================================
