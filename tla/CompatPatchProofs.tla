--------------------------- MODULE CompatPatchProofs ---------------------------
(***************************************************************************)
(* Safety of CompatPatch for every image, every set of known addresses and *)
(* any number of sessions: the inductive invariant and its proof.          *)
(***************************************************************************)
EXTENDS CompatPatch, FiniteSetTheorems, TLAPS

(***************************************************************************)
(* The inductive invariant.  Patching a site does not change what the      *)
(* search finds, since the patched bytes match too: every later call finds *)
(* the site an earlier one patched, and no other.                          *)
(***************************************************************************)
\* What differs from the loaded image is the one match, patched.
OnlyTheMatchChanged ==
  \A s \in Sites : bytes[s] # loaded[s] =>
    /\ loaded[s] = "original" /\ bytes[s] = "patched"
    /\ FindFromFfiPatchSite /\ s \in Matches

\* A session told yes has a patched check.
YesIsPatched == session.ok => \E s \in Sites : bytes[s] = "patched" /\ marks[s] = Marks

IndInv == TypeOK /\ OnlyTheMatchChanged /\ RefusalLeavesNoPatch /\ YesIsPatched

--------------------------------------------------------------------------------
(***************************************************************************)
(* The search.                                                             *)
(***************************************************************************)
\* What FindFromFfiPatchSite returns lies in the image, is one of the two byte
\* strings the code knows, and has all its marks.
LEMMA MatchIsMarked ==
  ASSUME NEW s \in Matches
  PROVE  s \in Sites /\ marks[s] = Marks /\ bytes[s] \in {"original", "patched"}
BY DEF Matches, ReadMappedImageSections, ValidateCandidateSite

\* The search succeeds on one site only.
LEMMA MatchIsUnique ==
  ASSUME FindFromFfiPatchSite
  PROVE  \E s \in Sites : Matches = {s}
<1>1. Matches \subseteq Sites
  BY MatchIsMarked
<1>2. IsFiniteSet(Matches)
  BY <1>1, CompatPatchAssumption, FS_Subset
<1>3. \E s : Matches = {s}
  BY <1>2, FS_Singleton DEF FindFromFfiPatchSite
<1> QED BY <1>1, <1>3

\* Writing the patched bytes over original ones changes no result of the search.
LEMMA PatchKeepsMatches ==
  ASSUME TypeOK, NEW s \in Sites, bytes[s] = "original",
         bytes' = [bytes EXCEPT ![s] = "patched"], UNCHANGED imageVars
  PROVE  /\ Matches' = Matches
         /\ FindFromFfiPatchSite' = FindFromFfiPatchSite
<1>1. \A t \in Sites : ValidateCandidateSite(t)' = ValidateCandidateSite(t)
  BY DEF ValidateCandidateSite, TypeOK, imageVars
<1>2. ReadMappedImageSections' = ReadMappedImageSections
  BY DEF ReadMappedImageSections, imageVars
<1>3. ReadMappedImageSections \subseteq Sites
  BY DEF ReadMappedImageSections
<1>4. {t \in ReadMappedImageSections' \cap hinted' : ValidateCandidateSite(t)'}
      = {t \in ReadMappedImageSections \cap hinted : ValidateCandidateSite(t)}
  BY <1>1, <1>2, <1>3 DEF imageVars
<1>5. {t \in ReadMappedImageSections' : ValidateCandidateSite(t)'}
      = {t \in ReadMappedImageSections : ValidateCandidateSite(t)}
  BY <1>1, <1>2, <1>3
<1>6. Matches' = Matches
  BY <1>4, <1>5 DEF Matches
<1> QED BY <1>6 DEF FindFromFfiPatchSite, imageVars

--------------------------------------------------------------------------------
\* The module is unpatched at the start.
LEMMA InitIndInv == Init => IndInv
<1> SUFFICES ASSUME Init PROVE IndInv
  OBVIOUS
<1> USE DEF Init, Fresh
<1>1. TypeOK
  BY DEF TypeOK, Bytes
<1>2. OnlyTheMatchChanged
  BY DEF OnlyTheMatchChanged
<1>3. RefusalLeavesNoPatch
  BY DEF RefusalLeavesNoPatch
<1>4. YesIsPatched
  BY DEF YesIsPatched
<1> QED BY <1>1, <1>2, <1>3, <1>4 DEF IndInv

\* A refused call: whatever an earlier call patched, this one would have found.
LEMMA NothingPatchedWhenRefused ==
  ASSUME IndInv, \/ ~FindFromFfiPatchSite
                 \/ FindFromFfiPatchSite /\ \E s \in Matches : bytes[s] = "original"
  PROVE  \A s \in Sites : bytes[s] = loaded[s]
<1> SUFFICES ASSUME NEW s \in Sites, bytes[s] # loaded[s] PROVE FALSE
  OBVIOUS
<1>1. FindFromFfiPatchSite /\ s \in Matches /\ bytes[s] = "patched"
  BY DEF IndInv, OnlyTheMatchChanged
<1>2. PICK t \in Matches : bytes[t] = "original"
  BY <1>1
<1>3. s = t
  BY <1>1, <1>2, MatchIsUnique
<1> QED BY <1>1, <1>2, <1>3

\* The first attempt of a session keeps the invariant.
LEMMA AttemptIndInv ==
  ASSUME IndInv, EnsureEnforceCompatPatch
  PROVE  IndInv'
<1> USE DEF IndInv
<1>0. UNCHANGED imageVars /\ session' = [attempted |-> TRUE, ok |-> answer' = "true"]
      /\ sessions' = sessions
  BY DEF EnsureEnforceCompatPatch
<1>1. CASE NotLocated \/ ProtectFails
  <2>1. UNCHANGED <<bytes, prot, stuck>> /\ answer' = "false"
    BY <1>1 DEF NotLocated, ProtectFails, Refuse
  <2>2. \A s \in Sites : bytes[s] = loaded[s]
    BY <1>1, NothingPatchedWhenRefused DEF NotLocated, ProtectFails
  <2>3. TypeOK'
    BY <1>0, <2>1 DEF TypeOK, imageVars
  <2>4. OnlyTheMatchChanged'
    BY <1>0, <2>1, <2>2 DEF OnlyTheMatchChanged, imageVars
  <2>5. RefusalLeavesNoPatch'
    BY <1>0, <2>1, <2>2 DEF RefusalLeavesNoPatch, Patched, imageVars
  <2>6. YesIsPatched'
    BY <1>0, <2>1 DEF YesIsPatched
  <2> QED BY <2>3, <2>4, <2>5, <2>6
<1>2. CASE RestoreFails
  <2>1. PICK s \in Matches : /\ bytes[s] = "original"
                             /\ prot' = [prot EXCEPT ![s] = "execute_readwrite"]
                             /\ stuck' = stuck \cup {s}
    BY <1>2 DEF RestoreFails
  <2>2. bytes' = bytes /\ answer' = "false"
    BY <1>2 DEF RestoreFails
  <2>3. \A t \in Sites : bytes[t] = loaded[t]
    BY <1>2, NothingPatchedWhenRefused DEF RestoreFails
  <2>4. s \in Sites
    BY <2>1, MatchIsMarked
  <2>5. TypeOK'
    BY <1>0, <2>1, <2>2, <2>4 DEF TypeOK, imageVars
  <2>6. OnlyTheMatchChanged'
    BY <1>0, <2>2, <2>3 DEF OnlyTheMatchChanged, imageVars
  <2>7. RefusalLeavesNoPatch'
    BY <1>0, <2>1, <2>2, <2>3, <2>4 DEF RefusalLeavesNoPatch, Patched, TypeOK, imageVars
  <2>8. YesIsPatched'
    BY <1>0, <2>2 DEF YesIsPatched
  <2> QED BY <2>5, <2>6, <2>7, <2>8
<1>3. CASE AlreadyPatched
  <2>1. PICK s \in Matches : bytes[s] = "patched"
    BY <1>3 DEF AlreadyPatched
  <2>2. UNCHANGED <<bytes, prot, stuck>> /\ answer' = "true"
    BY <1>3 DEF AlreadyPatched
  <2>3. TypeOK'
    BY <1>0, <2>2 DEF TypeOK, imageVars
  <2>4. OnlyTheMatchChanged'
    BY <1>0, <2>2 DEF OnlyTheMatchChanged, FindFromFfiPatchSite, Matches,
       ReadMappedImageSections, ValidateCandidateSite, imageVars
  <2>5. RefusalLeavesNoPatch'
    BY <2>2 DEF RefusalLeavesNoPatch
  <2>6. YesIsPatched'
    BY <1>0, <2>1, <2>2, MatchIsMarked DEF YesIsPatched, imageVars
  <2> QED BY <2>3, <2>4, <2>5, <2>6
<1>4. CASE PatchAndRestore
  <2>1. PICK s \in Matches : /\ bytes[s] = "original"
                             /\ bytes' = [bytes EXCEPT ![s] = "patched"]
    BY <1>4 DEF PatchAndRestore
  <2>2. UNCHANGED <<prot, stuck>> /\ answer' = "true" /\ FindFromFfiPatchSite
    BY <1>4 DEF PatchAndRestore
  <2>3. s \in Sites /\ marks[s] = Marks
    BY <2>1, MatchIsMarked
  <2>4. Matches' = Matches /\ FindFromFfiPatchSite'
    BY <1>0, <2>1, <2>2, <2>3, PatchKeepsMatches
  <2>5. TypeOK'
    BY <1>0, <2>1, <2>2, <2>3 DEF TypeOK, Bytes, imageVars
  <2>6. OnlyTheMatchChanged'
    BY <1>0, <2>1, <2>3, <2>4 DEF OnlyTheMatchChanged, TypeOK, imageVars
  <2>7. RefusalLeavesNoPatch'
    BY <2>2 DEF RefusalLeavesNoPatch
  <2>8. YesIsPatched'
    BY <1>0, <2>1, <2>3 DEF YesIsPatched, TypeOK, imageVars
  <2> QED BY <2>5, <2>6, <2>7, <2>8
<1> QED BY <1>1, <1>2, <1>3, <1>4 DEF EnsureEnforceCompatPatch, ApplyFromFfiCompatPatch

\* Matches and the answer of the search depend on the image alone.
LEMMA OtherStepsIndInv ==
  ASSUME IndInv, UNCHANGED <<imageVars, bytes, prot, answer, stuck>>,
         \/ session' = session /\ sessions' = sessions
         \/ session' = Fresh /\ sessions' = sessions + 1
  PROVE  IndInv'
<1> USE DEF IndInv, Fresh
<1>1. TypeOK'
  <2>1. Fresh \in [attempted : BOOLEAN, ok : BOOLEAN]
    OBVIOUS
  <2>2. session' \in [attempted : BOOLEAN, ok : BOOLEAN]
    <3> HIDE DEF Fresh
    <3> QED BY <2>1 DEF TypeOK
  <2>3. sessions' \in Nat
    <3> HIDE DEF Fresh
    <3> QED BY DEF TypeOK
  <2> QED BY <2>2, <2>3 DEF TypeOK, imageVars
<1>2. OnlyTheMatchChanged'
  BY DEF OnlyTheMatchChanged, FindFromFfiPatchSite, Matches, ReadMappedImageSections,
     ValidateCandidateSite, imageVars
<1>3. RefusalLeavesNoPatch'
  BY DEF RefusalLeavesNoPatch, Patched, imageVars
<1>4. YesIsPatched'
  BY DEF YesIsPatched, imageVars
<1> QED BY <1>1, <1>2, <1>3, <1>4

\* Every behaviour of the sessions of a process keeps the inductive invariant.
THEOREM PatchInvariant == Spec => []IndInv
<1>1. IndInv /\ [Next]_vars => IndInv'
  BY AttemptIndInv, OtherStepsIndInv DEF Next, NewSession, vars
<1> QED BY InitIndInv, <1>1, PTL DEF Spec

\* The image, the page protections and the session's two flags keep their types
\* (EspEnforceCompat.cpp, EnsureEnforceCompatPatch).
THEOREM PatchTypeCorrect == Spec => []TypeOK
BY PatchInvariant, PTL DEF IndInv

\* For every image and any number of sessions: after ApplyFromFfiCompatPatch
\* answered false the image holds no patch of this program, and a page is left
\* writable only where the second VirtualProtect failed.
THEOREM RefusalAlwaysLeavesNoPatch == Spec => []RefusalLeavesNoPatch
BY PatchInvariant, PTL DEF IndInv

\* For every image and any number of sessions the program patches at most one
\* site, an original event-type check with all its marks, and a session whose
\* enforce_compat_patch_ok_ is true has a patched check in the image.
THEOREM AlwaysOneSitePatched == Spec => []OneSitePatched
<1>1. IndInv => OneSitePatched
  <2> SUFFICES ASSUME IndInv PROVE OneSitePatched
    OBVIOUS
  <2>1. \A s \in Patched : /\ loaded[s] = "original" /\ marks[s] = Marks
                          /\ FindFromFfiPatchSite /\ s \in Matches
    BY MatchIsMarked DEF IndInv, OnlyTheMatchChanged, Patched
  <2>2. Cardinality(Patched) <= 1
    <3>1. CASE Patched = {}
      BY <3>1, FS_EmptySet
    <3>2. CASE Patched # {}
      <4>1. PICK m \in Sites : Matches = {m}
        BY <2>1, <3>2, MatchIsUnique
      <4>2. Patched = {m}
        BY <2>1, <3>2, <4>1
      <4> QED BY <4>2, FS_Singleton
    <3> QED BY <3>1, <3>2
  <2> QED BY <2>1, <2>2 DEF IndInv, YesIsPatched, OneSitePatched
<1> QED BY <1>1, PatchInvariant, PTL
================================================================================
