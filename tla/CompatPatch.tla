---------------------------- MODULE CompatPatch ----------------------------
(***************************************************************************)
(* The in-memory compatibility patch of the client library                 *)
(* (EspEnforceCompat.cpp) and its use by EspSession.  A call locates the    *)
(* one place in the mapped image that looks like the event-type check,      *)
(* makes its page writable, writes the patched bytes and restores the       *)
(* protection; every step may fail.  A session makes one attempt and keeps  *)
(* the answer, but the image outlives the session: a later session of the   *)
(* process, or a second caller, meets whatever an earlier call left.        *)
(*                                                                         *)
(* A site stands for an address.  What ValidateCandidateSite compares there *)
(* is abstracted to the kind of the six bytes and to the set of structural  *)
(* marks around them; the PE headers to what ReadMappedImageSections makes  *)
(* of them.  Bytes that are neither the original nor the patched ones are   *)
(* refused twice in the code; the second test cannot fail once the search   *)
(* succeeded.                                                               *)
(***************************************************************************)
EXTENDS Naturals, FiniteSets

CONSTANTS
  Sites,        \* addresses of the image
  Contexts,     \* the sets of marks a site may have, each a subset of Marks
  MaxSessions   \* bound on the sessions of the process

Marks == {"je", "preceding", "following"}

ASSUME CompatPatchAssumption ==
  IsFiniteSet(Sites) /\ Contexts \subseteq SUBSET Marks /\ MaxSessions \in Nat

VARIABLES
  module,    \* the image: absent, not a PE image, no executable section, or ok
  place,     \* per site: in an executable section, in another one, or outside
  hinted,    \* the sites that are in kKnownCandidateRvas
  marks,     \* per site: the marks around it
  loaded,    \* per site: the bytes as the loader mapped them
  bytes,     \* per site: the bytes now
  prot,      \* per site: the protection of its page
  session,   \* enforce_compat_patch_attempted_ and enforce_compat_patch_ok_
  sessions,  \* sessions created so far
  answer,    \* what the last call of ApplyFromFfiCompatPatch returned
  stuck      \* sites whose protection could not be restored

imageVars == <<module, place, hinted, marks, loaded>>

vars == <<imageVars, bytes, prot, session, sessions, answer, stuck>>

Fresh == [attempted |-> FALSE, ok |-> FALSE]

Init ==
  /\ module \in {"absent", "not_pe", "no_exec", "ok"}
  /\ place \in [Sites -> {"exec", "data", "outside"}]
  /\ hinted \in SUBSET Sites
  /\ marks \in [Sites -> Contexts]
  /\ loaded \in [Sites -> {"original", "patched", "other"}]
  /\ bytes = loaded
  /\ prot = [s \in Sites |-> "execute_read"]
  /\ session = Fresh /\ sessions = 1
  /\ answer = "none" /\ stuck = {}

-----------------------------------------------------------------------------
(* Locating the site                                                        *)

\* The spans the search covers: the executable sections, or the whole image
\* when the headers name none.
ReadMappedImageSections ==
  {s \in Sites : \/ place[s] = "exec"
                 \/ place[s] = "data" /\ module = "no_exec"}

\* The bytes are the original or the patched ones, a je follows, and both
\* anchors are in their windows.
ValidateCandidateSite(s) ==
  bytes[s] \in {"original", "patched"} /\ marks[s] = Marks

\* The known addresses first; the whole search only when none of them matched.
Matches ==
  LET hints == {s \in ReadMappedImageSections \cap hinted : ValidateCandidateSite(s)}
  IN  IF hints # {} THEN hints
      ELSE {s \in ReadMappedImageSections : ValidateCandidateSite(s)}

FindFromFfiPatchSite ==
  module \in {"no_exec", "ok"} /\ Cardinality(Matches) = 1

-----------------------------------------------------------------------------
(* ApplyFromFfiCompatPatchWithHooks                                         *)

Refuse == /\ answer' = "false"
          /\ UNCHANGED <<bytes, prot, stuck>>

\* No module, no readable headers, no site or several.
NotLocated == ~FindFromFfiPatchSite /\ Refuse

AlreadyPatched ==
  /\ FindFromFfiPatchSite
  /\ \E s \in Matches : bytes[s] = "patched"
  /\ answer' = "true"
  /\ UNCHANGED <<bytes, prot, stuck>>

\* The first VirtualProtect fails.
ProtectFails ==
  /\ FindFromFfiPatchSite
  /\ \E s \in Matches : bytes[s] = "original"
  /\ Refuse

\* Protect, write, restore the protection the first call reported.
PatchAndRestore ==
  /\ FindFromFfiPatchSite
  /\ \E s \in Matches : bytes[s] = "original" /\ bytes' = [bytes EXCEPT ![s] = "patched"]
  /\ answer' = "true"
  /\ UNCHANGED <<prot, stuck>>

\* Fault: the failed restore is reported and the patch stays.
RestoreFails_NotReverted ==
  /\ FindFromFfiPatchSite
  /\ \E s \in Matches :
       /\ bytes[s] = "original" /\ bytes' = [bytes EXCEPT ![s] = "patched"]
       /\ prot' = [prot EXCEPT ![s] = "execute_readwrite"]
       /\ stuck' = stuck \cup {s}
  /\ answer' = "false"

\* The second VirtualProtect fails: the bytes are put back, on a page that
\* stays writable, and the call fails.
RestoreFails ==
  /\ FindFromFfiPatchSite
  /\ \E s \in Matches :
       /\ bytes[s] = "original"
       /\ prot' = [prot EXCEPT ![s] = "execute_readwrite"]
       /\ stuck' = stuck \cup {s}
  /\ answer' = "false"
  /\ UNCHANGED bytes

ApplyFromFfiCompatPatch ==
  NotLocated \/ AlreadyPatched \/ ProtectFails \/ PatchAndRestore \/ RestoreFails

-----------------------------------------------------------------------------
(* EspSession                                                               *)

\* Fault: the attempt itself is kept as the answer.
EnsureEnforceCompatPatch_AttemptIsOk ==
  /\ ~session.attempted
  /\ ApplyFromFfiCompatPatch
  /\ session' = [attempted |-> TRUE, ok |-> TRUE]
  /\ UNCHANGED <<imageVars, sessions>>

\* The first compat rule of a session makes the attempt; the later ones read
\* the answer kept from it and change nothing.
EnsureEnforceCompatPatch ==
  /\ ~session.attempted
  /\ ApplyFromFfiCompatPatch
  /\ session' = [attempted |-> TRUE, ok |-> answer' = "true"]
  /\ UNCHANGED <<imageVars, sessions>>

\* The next session of the process starts with no attempt.
NewSession ==
  /\ session.attempted /\ sessions < MaxSessions
  /\ session' = Fresh /\ sessions' = sessions + 1
  /\ UNCHANGED <<imageVars, bytes, prot, answer, stuck>>

Next == EnsureEnforceCompatPatch \/ NewSession

Spec == Init /\ [][Next]_vars

-----------------------------------------------------------------------------
(* Properties                                                               *)

Bytes == {"original", "patched", "other"}

TypeOK ==
  /\ module \in {"absent", "not_pe", "no_exec", "ok"}
  /\ place \in [Sites -> {"exec", "data", "outside"}] /\ hinted \subseteq Sites
  /\ marks \in [Sites -> Contexts]
  /\ loaded \in [Sites -> Bytes] /\ bytes \in [Sites -> Bytes]
  /\ prot \in [Sites -> {"execute_read", "execute_readwrite"}] /\ stuck \subseteq Sites
  /\ session \in [attempted : BOOLEAN, ok : BOOLEAN] /\ sessions \in Nat
  /\ answer \in {"none", "true", "false"}

\* The sites this program patched.
Patched == {s \in Sites : bytes[s] = "patched" /\ loaded[s] # "patched"}

\* A refusal leaves no patch of this program in the image, whichever call
\* wrote it: a call that fails half-way takes its bytes back, and once a call
\* has patched the image no later one is refused.  A page of the library is
\* writable between calls only if a restore of it failed.
RefusalLeavesNoPatch ==
  /\ answer = "false" => Patched = {}
  /\ \A s \in Sites : prot[s] = "execute_readwrite" => s \in stuck

\* However many sessions ask, the program patches one site at most, an
\* original check with all its marks, and a session that was told yes has a
\* patched check in the image for as long as it keeps the answer.
OneSitePatched ==
  /\ Cardinality(Patched) <= 1
  /\ \A s \in Patched : loaded[s] = "original" /\ marks[s] = Marks
  /\ session.ok => \E s \in Sites : bytes[s] = "patched" /\ marks[s] = Marks

--------------------------------------------------------------------------------
(***************************************************************************)
(* Statements of the repository's documents that the code does not meet:   *)
(* README.md, "Statements the code does not meet".                         *)
(***************************************************************************)
\* What the header says of the search: it fails when more than one place of
\* the image matches.
LocatedUniquely ==
  answer = "true" => Cardinality({s \in ReadMappedImageSections : ValidateCandidateSite(s)}) = 1
=============================================================================
