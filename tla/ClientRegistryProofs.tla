------------------------- MODULE ClientRegistryProofs --------------------------
(***************************************************************************)
(* Proofs about ClientRegistry, for any number of processes, GUIDs and     *)
(* altitude attempts.                                                      *)
(***************************************************************************)
EXTENDS ClientRegistry, TLAPS

\* A process that is past its install has its exit code.
Coded ==
  \A p \in Procs : pc[p] \in {"disconnect", "unregister", "done"} => code[p] # -1

\* The id a process is about to release was counted without persistent rules.
ReleaseSafe ==
  NobodyReleases => \A p \in Procs : pc[p] = "release" => cur[p] \notin seeded

\* What a session registered cannot have been there before: a collision fails.
OwnedSafe ==
  NobodyReleases => \A p \in Procs : owned[p] => id[p] \notin seeded

\* A session belongs to the process that is using it, on a registered client.
SessionHeld ==
  \A p \in Procs :
    /\ pc[p] \in {"install", "disconnect"} =>
         id[p] \in registered /\ owner[id[p]] = p
    /\ pc[p] = "count" => owner[cur[p]] = p

IndInv == TypeOK /\ SessionHeld /\ Coded /\ PersistClientsPreserved /\ ReleaseSafe /\ OwnedSafe

\* Nobody has a session, an owned registration or an exit code yet.
LEMMA InitIndInv == Init => IndInv
<1> SUFFICES ASSUME Init PROVE IndInv
  OBVIOUS
<1> USE NoneAssumption, TriesAssumption DEF Init
<1>1. TypeOK
  <2>1. attempt \in [Procs -> 0 .. Tries - 1]
    OBVIOUS
  <2>2. owned \in [Procs -> BOOLEAN] /\ keep \in [Procs -> BOOLEAN]
    OBVIOUS
  <2>3. owner \in [Ids -> Procs \cup {None}]
    OBVIOUS
  <2>4. \A p \in Procs : pc[p] = "done" => code[p] # -1
    OBVIOUS
  <2> QED BY <2>1, <2>2, <2>3, <2>4 DEF TypeOK
<1>2. Coded
  BY DEF Coded
<1>3. PersistClientsPreserved
  BY DEF PersistClientsPreserved
<1>4. ReleaseSafe
  BY DEF ReleaseSafe
<1>5. OwnedSafe
  BY DEF OwnedSafe
<1>6. SessionHeld
  BY DEF SessionHeld
<1> QED BY <1>1, <1>2, <1>3, <1>4, <1>5, <1>6 DEF IndInv

\* One call of one process keeps the invariant.
LEMMA StepIndInv ==
  ASSUME IndInv, NEW p \in Procs, Step(p)
  PROVE  IndInv'
<1> USE TriesAssumption DEF IndInv, Goto
<1>1. CASE Enumerate(p)
  <2> USE <1>1 DEF Enumerate, driver
  <2>1. TypeOK'       BY DEF TypeOK
  <2>2. Coded'        BY DEF Coded, TypeOK
  <2>3. PersistClientsPreserved' BY DEF PersistClientsPreserved, NobodyReleases
  <2>4. ReleaseSafe'  BY DEF ReleaseSafe, NobodyReleases, TypeOK
  <2>5. OwnedSafe'    BY DEF OwnedSafe, NobodyReleases
  <2>6. SessionHeld'  BY NoneAssumption DEF SessionHeld, TypeOK
  <2> QED BY <2>1, <2>2, <2>3, <2>4, <2>5, <2>6
<1>2. CASE NextId(p)
  <2> USE <1>2 DEF NextId, driver, session
  <2>1. TypeOK'       BY DEF TypeOK
  <2>2. Coded'        BY DEF Coded, TypeOK
  <2>3. PersistClientsPreserved' BY DEF PersistClientsPreserved, NobodyReleases
  <2>4. ReleaseSafe'  BY DEF ReleaseSafe, NobodyReleases, TypeOK
  <2>5. OwnedSafe'    BY DEF OwnedSafe, NobodyReleases
  <2>6. SessionHeld'  BY NoneAssumption DEF SessionHeld, TypeOK
  <2> QED BY <2>1, <2>2, <2>3, <2>4, <2>5, <2>6
<1>3. CASE ProbeConnect(p)
  <2> USE <1>3 DEF ProbeConnect, session
  <2>1. TypeOK'       BY DEF TypeOK
  <2>2. Coded'        BY DEF Coded, TypeOK
  <2>3. PersistClientsPreserved' BY DEF PersistClientsPreserved, NobodyReleases
  <2>4. ReleaseSafe'  BY DEF ReleaseSafe, NobodyReleases, TypeOK
  <2>5. OwnedSafe'    BY DEF OwnedSafe, NobodyReleases
  <2>6. SessionHeld'  BY NoneAssumption DEF SessionHeld, TypeOK, Connectable
  <2> QED BY <2>1, <2>2, <2>3, <2>4, <2>5, <2>6
<1>4. CASE ProbeCount(p)
  <2> USE <1>4 DEF ProbeCount, session
  <2>1. TypeOK'       BY DEF TypeOK
  <2>2. Coded'        BY DEF Coded, TypeOK
  <2>3. PersistClientsPreserved' BY DEF PersistClientsPreserved, NobodyReleases
  <2>4. ReleaseSafe'
    BY DEF ReleaseSafe, PersistClientsPreserved, NobodyReleases, TypeOK
  <2>5. OwnedSafe'    BY DEF OwnedSafe, NobodyReleases
  <2>6. SessionHeld'  BY NoneAssumption DEF SessionHeld, TypeOK
  <2> QED BY <2>1, <2>2, <2>3, <2>4, <2>5, <2>6
<1>5. CASE Release(p)
  <2> USE <1>5 DEF Release, driver, RemoveClient
  <2>1. TypeOK'       BY DEF TypeOK
  <2>2. Coded'        BY DEF Coded, TypeOK
  <2>3. PersistClientsPreserved'
    BY DEF PersistClientsPreserved, ReleaseSafe, NobodyReleases
  <2>4. ReleaseSafe'  BY DEF ReleaseSafe, NobodyReleases, TypeOK
  <2>5. OwnedSafe'    BY DEF OwnedSafe, NobodyReleases
  <2>6. SessionHeld'  BY NoneAssumption DEF SessionHeld, TypeOK, Unregisterable
  <2> QED BY <2>1, <2>2, <2>3, <2>4, <2>5, <2>6
<1>6. CASE ScanDone(p)
  <2> USE <1>6 DEF ScanDone, driver
  <2>1. TypeOK'       BY DEF TypeOK
  <2>2. Coded'        BY DEF Coded, TypeOK
  <2>3. PersistClientsPreserved' BY DEF PersistClientsPreserved, NobodyReleases
  <2>4. ReleaseSafe'  BY DEF ReleaseSafe, NobodyReleases, TypeOK
  <2>5. OwnedSafe'    BY DEF OwnedSafe, NobodyReleases
  <2>6. SessionHeld'  BY NoneAssumption DEF SessionHeld, TypeOK
  <2> QED BY <2>1, <2>2, <2>3, <2>4, <2>5, <2>6
<1>7. CASE RegisterClient(p)
  <2> USE <1>7 DEF RegisterClient, Registers, Retries, GivesUp
  <2>1. TypeOK'
    <3>1. attempt' \in [Procs -> 0 .. Tries - 1]
      BY DEF TypeOK
    <3>2. altitude' \in [Ids -> 0 .. Tries]
      BY DEF TypeOK
    <3>3. registered' \subseteq Ids /\ persistent' \subseteq registered'
      BY DEF TypeOK
    <3>4. code' \in [Procs -> {-1, 0, 1}]
      BY DEF TypeOK
    <3>5. owned' \in [Procs -> BOOLEAN]
      BY DEF TypeOK
    <3> QED BY <3>1, <3>2, <3>3, <3>4, <3>5 DEF TypeOK
  <2>2. Coded'        BY DEF Coded, TypeOK
  <2>3. PersistClientsPreserved' BY DEF PersistClientsPreserved, NobodyReleases
  <2>4. ReleaseSafe'  BY DEF ReleaseSafe, NobodyReleases, TypeOK
  <2>5. OwnedSafe'
    BY DEF OwnedSafe, PersistClientsPreserved, NobodyReleases, TypeOK, Collides
  <2>6. SessionHeld'  BY NoneAssumption DEF SessionHeld, TypeOK
  <2> QED BY <2>1, <2>2, <2>3, <2>4, <2>5, <2>6
<1>8. CASE ConnectClient(p)
  <2> USE <1>8 DEF ConnectClient
  <2>1. TypeOK'       BY DEF TypeOK
  <2>2. Coded'        BY DEF Coded, TypeOK
  <2>3. PersistClientsPreserved' BY DEF PersistClientsPreserved, NobodyReleases
  <2>4. ReleaseSafe'  BY DEF ReleaseSafe, NobodyReleases, TypeOK
  <2>5. OwnedSafe'    BY DEF OwnedSafe, NobodyReleases
  <2>6. SessionHeld'  BY NoneAssumption DEF SessionHeld, TypeOK, Connectable
  <2> QED BY <2>1, <2>2, <2>3, <2>4, <2>5, <2>6
<1>9. CASE DisconnectClient(p)
  <2> USE <1>9 DEF DisconnectClient, session
  <2>1. TypeOK'       BY DEF TypeOK
  <2>2. Coded'        BY DEF Coded, TypeOK
  <2>3. PersistClientsPreserved' BY DEF PersistClientsPreserved, NobodyReleases
  <2>4. ReleaseSafe'  BY DEF ReleaseSafe, NobodyReleases, TypeOK
  <2>5. OwnedSafe'    BY DEF OwnedSafe, NobodyReleases
  <2>6. SessionHeld'  BY NoneAssumption DEF SessionHeld, TypeOK
  <2> QED BY <2>1, <2>2, <2>3, <2>4, <2>5, <2>6
<1>10. CASE InstallDocument(p)
  <2> USE <1>10 DEF InstallDocument
  <2>1. TypeOK'       BY DEF TypeOK, SessionHeld
  <2>2. Coded'        BY DEF Coded, TypeOK
  <2>3. PersistClientsPreserved' BY DEF PersistClientsPreserved, NobodyReleases
  <2>4. ReleaseSafe'  BY DEF ReleaseSafe, NobodyReleases, TypeOK
  <2>5. OwnedSafe'    BY DEF OwnedSafe, NobodyReleases
  <2>6. SessionHeld'  BY NoneAssumption DEF SessionHeld, TypeOK
  <2> QED BY <2>1, <2>2, <2>3, <2>4, <2>5, <2>6
<1>11. CASE UnregisterIfOwned(p)
  <2> USE <1>11 DEF UnregisterIfOwned, driver, RemoveClient
  <2>1. TypeOK'       BY DEF TypeOK, Coded
  <2>2. Coded'        BY DEF Coded, TypeOK
  <2>3. PersistClientsPreserved'
    BY DEF PersistClientsPreserved, OwnedSafe, NobodyReleases
  <2>4. ReleaseSafe'  BY DEF ReleaseSafe, NobodyReleases, TypeOK
  <2>5. OwnedSafe'    BY DEF OwnedSafe, NobodyReleases, TypeOK
  <2>6. SessionHeld'  BY NoneAssumption DEF SessionHeld, TypeOK, Unregisterable
  <2> QED BY <2>1, <2>2, <2>3, <2>4, <2>5, <2>6
<1> QED BY <1>1, <1>2, <1>3, <1>4, <1>5, <1>6, <1>7, <1>8, <1>9, <1>10, <1>11
        DEF Step

\* The death of a process keeps the invariant.
LEMMA CrashIndInv ==
  ASSUME IndInv, NEW p \in Procs, Crash(p)
  PROVE  IndInv'
<1> USE DEF IndInv, Crash, Goto, session
<1>1. TypeOK'       BY DEF TypeOK
<1>2. Coded'        BY DEF Coded, TypeOK
<1>3. PersistClientsPreserved' BY DEF PersistClientsPreserved, NobodyReleases
<1>4. ReleaseSafe'  BY DEF ReleaseSafe, NobodyReleases, TypeOK
<1>5. OwnedSafe'    BY DEF OwnedSafe, NobodyReleases
<1>6. SessionHeld'  BY NoneAssumption DEF SessionHeld, TypeOK
<1> QED BY <1>1, <1>2, <1>3, <1>4, <1>5, <1>6

\* Every behaviour of the commands keeps the inductive invariant.
THEOREM RegistryInvariant == Spec => []IndInv
<1>1. IndInv /\ UNCHANGED vars => IndInv'
  BY DEF IndInv, TypeOK, SessionHeld, Coded, PersistClientsPreserved, ReleaseSafe, OwnedSafe,
         NobodyReleases, vars
<1>2. IndInv /\ [Next]_vars => IndInv'
  BY <1>1, StepIndInv, CrashIndInv DEF Next
<1> QED BY InitIndInv, <1>2, PTL DEF Spec

\* The state of the registry and of the commands keeps its types, and a command
\* that ran to its end has an exit code (EspSession::Connect, RunRules,
\* RunPersistRules, RunUnregister).
THEOREM RegistryTypeCorrect == Spec => []TypeOK
BY RegistryInvariant, PTL DEF IndInv

\* No sweep without --fresh releases a client that an earlier persist-rules
\* kept, with any number of processes that fail, die or share its GUID
\* (CleanOrphanClients, EspSession::Connect, UnregisterIfOwned).
THEOREM PersistClientsAlwaysPreserved == Spec => []PersistClientsPreserved
BY RegistryInvariant, PTL DEF IndInv

--------------------------------------------------------------------------------
(***************************************************************************)
(* Orphans: somebody is always going to deal with a client that nobody     *)
(* wants to keep.                                                          *)
(***************************************************************************)
Exempt == seeded \cup {id[p] : p \in {q \in Procs : cmd[q] = "persist"}}

Sweeping == {"scan", "probe", "count", "release"}

InSession == {"connect", "install", "disconnect", "unregister"}

\* p has yet to enumerate, has i on its list or in its hands, or registered it.
TakesCare(p, i) ==
  \/ pc[p] = "start"
  \/ pc[p] \in Sweeping /\ i \in todo[p]
  \/ pc[p] \in {"probe", "count", "release"} /\ cur[p] = i
  \/ pc[p] \in InSession /\ id[p] = i

\* A session is there only because its process is counting rules or has a
\* session of its own.
SessionUsed ==
  \A i \in Ids : owner[i] # None =>
    \/ pc[owner[i]] = "count" /\ cur[owner[i]] = i
    \/ pc[owner[i]] \in {"install", "disconnect"} /\ id[owner[i]] = i

WillUnregister ==
  \A p \in Procs : /\ pc[p] \in InSession => owned[p]
                   /\ cmd[p] # "persist" => ~keep[p]

CaredFor == ~Crashes => \A i \in registered \ Exempt : \E p \in Procs : TakesCare(p, i)

OrphanInv == SessionUsed /\ WillUnregister /\ persistent \subseteq Exempt /\ CaredFor

\* Initially every command has yet to enumerate, and nobody has a session.
LEMMA InitOrphanInv ==
  ASSUME Procs # {}, Init
  PROVE  OrphanInv
<1>1. SessionUsed
  BY DEF SessionUsed, Init
<1>2. WillUnregister
  BY DEF WillUnregister, Init, InSession
<1>3. persistent \subseteq Exempt
  BY DEF Exempt, Init
<1>4. CaredFor
  BY DEF CaredFor, TakesCare, Init
<1> QED BY <1>1, <1>2, <1>3, <1>4 DEF OrphanInv

\* A process that has a session open on i takes care of i, and is doing
\* something else than releasing or unregistering.
LEMMA HolderCares ==
  ASSUME IndInv, SessionUsed, NEW i \in Ids, owner[i] # None
  PROVE  \E q \in Procs : pc[q] \in {"count", "install", "disconnect"} /\ TakesCare(q, i)
<1>1. owner[i] \in Procs
  BY DEF IndInv, TypeOK
<1> QED BY <1>1 DEF SessionUsed, TakesCare, InSession

\* One call of one process: the client it stops caring for is gone or is in the
\* hands of another process, which had a session on it.
LEMMA StepOrphanInv ==
  ASSUME ~Faults, ~MayPersist, IndInv, OrphanInv, NEW p \in Procs, Step(p)
  PROVE  OrphanInv'
<1> USE DEF OrphanInv, Goto
<1>a. /\ UNCHANGED <<cmd, id, seeded>>
      /\ \A q \in Procs : q # p => /\ pc'[q] = pc[q] /\ todo'[q] = todo[q] /\ cur'[q] = cur[q]
                                   /\ owned'[q] = owned[q] /\ keep'[q] = keep[q]
  BY DEF IndInv, TypeOK, Step, Enumerate, driver, NextId, session, ProbeConnect, ProbeCount, Release, RemoveClient, ScanDone, RegisterClient, Registers, Retries, GivesUp, ConnectClient, InstallDocument, DisconnectClient, UnregisterIfOwned
<1>b. Exempt' = Exempt
  BY <1>a DEF Exempt
<1>c. \A q \in Procs : \A i : q # p => (TakesCare(q, i)' <=> TakesCare(q, i))
  BY <1>a DEF TakesCare
<1>d. ASSUME NEW i \in registered \ Exempt, ~Crashes
      PROVE  TakesCare(p, i) \/ \E q \in Procs : TakesCare(q, i)'
  BY <1>c, <1>d DEF CaredFor
<1>e. ASSUME NEW i \in Ids, owner[i] # None, pc[p] \notin {"count", "install", "disconnect"}
      PROVE  \E q \in Procs : TakesCare(q, i)'
  BY <1>c, <1>e, HolderCares
<1>f. registered \subseteq Ids /\ registered' \subseteq Ids
  BY StepIndInv DEF IndInv, TypeOK
<1>1. CASE Enumerate(p)
  <2> USE <1>1 DEF Enumerate, driver
  <2>1. SessionUsed'
    BY NoneAssumption DEF SessionUsed, IndInv, TypeOK
  <2>2. WillUnregister'
    BY <1>a DEF WillUnregister, InSession, IndInv, TypeOK
  <2>3. persistent' \subseteq Exempt'
    BY <1>b
  <2>4. CaredFor'
    <3> SUFFICES ASSUME ~Crashes, NEW i \in registered' \ Exempt
                 PROVE  \E q \in Procs : TakesCare(q, i)'
      BY <1>b DEF CaredFor
    <3>1. CASE i \in registered
      <4>1. TakesCare(p, i) => \/ TakesCare(p, i)'
                               \/ owner[i] # None /\ pc[p] \notin {"count", "install", "disconnect"}
        BY <3>1 DEF TakesCare, Sweeping, InSession, IndInv, TypeOK
      <4> QED BY <1>d, <1>e, <1>f, <3>1, <4>1
    <3> QED BY <3>1
  <2> QED BY <2>1, <2>2, <2>3, <2>4
<1>2. CASE NextId(p)
  <2> USE <1>2 DEF NextId, driver, session
  <2>1. SessionUsed'
    BY DEF SessionUsed
  <2>2. WillUnregister'
    BY DEF WillUnregister, InSession
  <2>3. persistent' \subseteq Exempt'
    BY <1>b
  <2>4. CaredFor'
    <3> SUFFICES ASSUME ~Crashes, NEW i \in registered' \ Exempt
                 PROVE  \E q \in Procs : TakesCare(q, i)'
      BY <1>b DEF CaredFor
    <3>1. CASE i \in registered
      <4>1. TakesCare(p, i) => \/ TakesCare(p, i)'
                               \/ owner[i] # None /\ pc[p] \notin {"count", "install", "disconnect"}
        BY <3>1 DEF TakesCare, Sweeping, InSession, IndInv, TypeOK
      <4> QED BY <1>d, <1>e, <1>f, <3>1, <4>1
    <3> QED BY <3>1
  <2> QED BY <2>1, <2>2, <2>3, <2>4
<1>3. CASE ProbeConnect(p)
  <2> USE <1>3 DEF ProbeConnect, session
  <2>1. SessionUsed'
    BY NoneAssumption DEF SessionUsed, IndInv, TypeOK
  <2>2. WillUnregister'
    BY <1>a DEF WillUnregister, InSession, IndInv, TypeOK
  <2>3. persistent' \subseteq Exempt'
    BY <1>b
  <2>4. CaredFor'
    <3> SUFFICES ASSUME ~Crashes, NEW i \in registered' \ Exempt
                 PROVE  \E q \in Procs : TakesCare(q, i)'
      BY <1>b DEF CaredFor
    <3>1. CASE i \in registered
      <4>1. TakesCare(p, i) => \/ TakesCare(p, i)'
                               \/ owner[i] # None /\ pc[p] \notin {"count", "install", "disconnect"}
        BY <3>1 DEF TakesCare, Sweeping, InSession, IndInv, TypeOK, MayFail,
             Connectable, Unregisterable
      <4> QED BY <1>d, <1>e, <1>f, <3>1, <4>1
    <3> QED BY <3>1
  <2> QED BY <2>1, <2>2, <2>3, <2>4
<1>4. CASE ProbeCount(p)
  <2> USE <1>4 DEF ProbeCount, session
  <2>1. SessionUsed'
    BY NoneAssumption DEF SessionUsed, IndInv, TypeOK
  <2>2. WillUnregister'
    BY <1>a DEF WillUnregister, InSession, IndInv, TypeOK
  <2>3. persistent' \subseteq Exempt'
    BY <1>b
  <2>4. CaredFor'
    <3> SUFFICES ASSUME ~Crashes, NEW i \in registered' \ Exempt
                 PROVE  \E q \in Procs : TakesCare(q, i)'
      BY <1>b DEF CaredFor
    <3>1. CASE i \in registered
      <4>1. TakesCare(p, i) => TakesCare(p, i)'
        <5>1. /\ pc[p] = "count" /\ UNCHANGED <<todo, cur, id>>
              /\ pc'[p] = IF cur[p] \in persistent THEN "scan" ELSE "release"
          BY DEF IndInv, TypeOK
        <5>2. i \notin persistent
          OBVIOUS
        <5> HIDE <1>4 DEF ProbeCount, session, OrphanInv, Goto
        <5> QED BY <5>1, <5>2 DEF TakesCare, Sweeping, InSession
      <4> QED BY <1>d, <1>e, <1>f, <3>1, <4>1
    <3> QED BY <3>1
  <2> QED BY <2>1, <2>2, <2>3, <2>4
<1>5. CASE Release(p)
  <2> USE <1>5 DEF Release, driver, RemoveClient
  <2>1. SessionUsed'
    BY DEF SessionUsed
  <2>2. WillUnregister'
    BY DEF WillUnregister, InSession
  <2>3. persistent' \subseteq Exempt'
    BY <1>b
  <2>4. CaredFor'
    <3> SUFFICES ASSUME ~Crashes, NEW i \in registered' \ Exempt
                 PROVE  \E q \in Procs : TakesCare(q, i)'
      BY <1>b DEF CaredFor
    <3>1. CASE i \in registered
      <4>1. TakesCare(p, i) => \/ TakesCare(p, i)'
                               \/ owner[i] # None /\ pc[p] \notin {"count", "install", "disconnect"}
        BY <3>1 DEF TakesCare, Sweeping, InSession, IndInv, TypeOK, MayFail,
             Connectable, Unregisterable
      <4> QED BY <1>d, <1>e, <1>f, <3>1, <4>1
    <3> QED BY <3>1
  <2> QED BY <2>1, <2>2, <2>3, <2>4
<1>6. CASE ScanDone(p)
  <2> USE <1>6 DEF ScanDone, driver
  <2>1. SessionUsed'
    BY NoneAssumption DEF SessionUsed, IndInv, TypeOK
  <2>2. WillUnregister'
    BY <1>a DEF WillUnregister, InSession, IndInv, TypeOK
  <2>3. persistent' \subseteq Exempt'
    BY <1>b
  <2>4. CaredFor'
    <3> SUFFICES ASSUME ~Crashes, NEW i \in registered' \ Exempt
                 PROVE  \E q \in Procs : TakesCare(q, i)'
      BY <1>b DEF CaredFor
    <3>1. CASE i \in registered
      <4>1. TakesCare(p, i) => \/ TakesCare(p, i)'
                               \/ owner[i] # None /\ pc[p] \notin {"count", "install", "disconnect"}
        BY <3>1 DEF TakesCare, Sweeping, InSession, IndInv, TypeOK
      <4> QED BY <1>d, <1>e, <1>f, <3>1, <4>1
    <3> QED BY <3>1
  <2> QED BY <2>1, <2>2, <2>3, <2>4
<1>7. CASE RegisterClient(p)
  <2> USE <1>7 DEF RegisterClient, Registers, Retries, GivesUp
  <2>1. SessionUsed'
    BY NoneAssumption DEF SessionUsed, IndInv, TypeOK
  <2>2. WillUnregister'
    BY <1>a DEF WillUnregister, InSession, IndInv, TypeOK
  <2>3. persistent' \subseteq Exempt'
    BY <1>b
  <2>4. CaredFor'
    <3> SUFFICES ASSUME ~Crashes, NEW i \in registered' \ Exempt
                 PROVE  \E q \in Procs : TakesCare(q, i)'
      BY <1>b DEF CaredFor
    <3>1. CASE i \in registered
      <4>1. TakesCare(p, i) => \/ TakesCare(p, i)'
                               \/ owner[i] # None /\ pc[p] \notin {"count", "install", "disconnect"}
        BY <3>1 DEF TakesCare, Sweeping, InSession, IndInv, TypeOK
      <4> QED BY <1>d, <1>e, <1>f, <3>1, <4>1
    <3>2. CASE i \notin registered
      BY <3>2 DEF TakesCare, InSession, IndInv, TypeOK
    <3> QED BY <3>1, <3>2
  <2> QED BY <2>1, <2>2, <2>3, <2>4
<1>8. CASE ConnectClient(p)
  <2> USE <1>8 DEF ConnectClient
  <2>1. SessionUsed'
    BY NoneAssumption DEF SessionUsed, IndInv, TypeOK
  <2>2. WillUnregister'
    BY <1>a DEF WillUnregister, InSession
  <2>3. persistent' \subseteq Exempt'
    BY <1>b
  <2>4. CaredFor'
    <3> SUFFICES ASSUME ~Crashes, NEW i \in registered' \ Exempt
                 PROVE  \E q \in Procs : TakesCare(q, i)'
      BY <1>b DEF CaredFor
    <3>1. CASE i \in registered
      <4>1. TakesCare(p, i) => \/ TakesCare(p, i)'
                               \/ owner[i] # None /\ pc[p] \notin {"count", "install", "disconnect"}
        BY <3>1 DEF TakesCare, Sweeping, InSession, IndInv, TypeOK
      <4> QED BY <1>d, <1>e, <1>f, <3>1, <4>1
    <3> QED BY <3>1
  <2> QED BY <2>1, <2>2, <2>3, <2>4
<1>9. CASE InstallDocument(p)
  <2> USE <1>9 DEF InstallDocument
  <2>1. SessionUsed'
    BY DEF SessionUsed
  <2>2. WillUnregister'
    BY DEF WillUnregister, InSession
  <2>3. persistent' \subseteq Exempt'
    BY <1>b DEF Exempt
  <2>4. CaredFor'
    <3> SUFFICES ASSUME ~Crashes, NEW i \in registered' \ Exempt
                 PROVE  \E q \in Procs : TakesCare(q, i)'
      BY <1>b DEF CaredFor
    <3>1. CASE i \in registered
      <4>1. TakesCare(p, i) => TakesCare(p, i)'
        <5>1. /\ pc[p] = "install" /\ UNCHANGED <<todo, cur, id>>
              /\ pc'[p] = "disconnect"
          BY DEF IndInv, TypeOK
        <5>2. i \notin persistent
          OBVIOUS
        <5> HIDE <1>9 DEF InstallDocument, OrphanInv, Goto
        <5> QED BY <5>1, <5>2 DEF TakesCare, Sweeping, InSession
      <4> QED BY <1>d, <1>e, <1>f, <3>1, <4>1
    <3> QED BY <3>1
  <2> QED BY <2>1, <2>2, <2>3, <2>4
<1>10. CASE DisconnectClient(p)
  <2> USE <1>10 DEF DisconnectClient, session
  <2>1. SessionUsed'
    BY NoneAssumption DEF SessionUsed, IndInv, TypeOK
  <2>2. WillUnregister'
    BY DEF WillUnregister, InSession
  <2>3. persistent' \subseteq Exempt'
    BY <1>b
  <2>4. CaredFor'
    <3> SUFFICES ASSUME ~Crashes, NEW i \in registered' \ Exempt
                 PROVE  \E q \in Procs : TakesCare(q, i)'
      BY <1>b DEF CaredFor
    <3>1. CASE i \in registered
      <4>1. TakesCare(p, i) => TakesCare(p, i)'
        <5>1. /\ pc[p] = "disconnect" /\ UNCHANGED <<todo, cur, id>>
              /\ pc'[p] = "unregister"
          BY DEF IndInv, TypeOK
        <5>2. i \notin persistent
          OBVIOUS
        <5> HIDE <1>10 DEF DisconnectClient, session, OrphanInv, Goto
        <5> QED BY <5>1, <5>2 DEF TakesCare, Sweeping, InSession
      <4> QED BY <1>d, <1>e, <1>f, <3>1, <4>1
    <3> QED BY <3>1
  <2> QED BY <2>1, <2>2, <2>3, <2>4
<1>11. CASE UnregisterIfOwned(p)
  <2> USE <1>11 DEF UnregisterIfOwned, driver, RemoveClient
  <2>1. SessionUsed'
    BY DEF SessionUsed
  <2>2. WillUnregister'
    BY <1>a DEF WillUnregister, InSession, IndInv, TypeOK
  <2>3. persistent' \subseteq Exempt'
    BY <1>b
  <2>4. CaredFor'
    <3> SUFFICES ASSUME ~Crashes, NEW i \in registered' \ Exempt
                 PROVE  \E q \in Procs : TakesCare(q, i)'
      BY <1>b DEF CaredFor
    <3>1. CASE i \in registered
      <4>1. TakesCare(p, i) => \/ TakesCare(p, i)'
                               \/ owner[i] # None /\ pc[p] \notin {"count", "install", "disconnect"}
        BY <3>1 DEF TakesCare, Sweeping, InSession, IndInv, TypeOK, MayFail,
             Connectable, Unregisterable, WillUnregister, Exempt
      <4> QED BY <1>d, <1>e, <1>f, <3>1, <4>1
    <3> QED BY <3>1
  <2> QED BY <2>1, <2>2, <2>3, <2>4
<1> QED BY <1>1, <1>2, <1>3, <1>4, <1>5, <1>6, <1>7, <1>8, <1>9, <1>10, <1>11 DEF Step

\* A death closes sessions and concerns no property of a run without crashes.
LEMMA CrashOrphanInv ==
  ASSUME IndInv, OrphanInv, NEW p \in Procs, Crash(p)
  PROVE  OrphanInv'
<1> USE DEF OrphanInv, Crash, Goto, session
<1>1. SessionUsed'
  BY NoneAssumption DEF SessionUsed, IndInv, TypeOK
<1>2. WillUnregister'
  BY DEF WillUnregister, InSession, IndInv, TypeOK
<1>3. persistent' \subseteq Exempt'
  BY DEF Exempt
<1>4. CaredFor'
  BY DEF CaredFor
<1> QED BY <1>1, <1>2, <1>3, <1>4

\* When at least one command runs, no call into the driver fails by itself and
\* no rules document holds persistent rules, no orphan outlives the commands,
\* however their sweeps, probes and unregisters interleave: a refused release or
\* unregister means that another process has a session on the client, and that
\* process releases it (CleanOrphanClients, UnregisterIfOwned).
THEOREM OrphansNeverLeft ==
  ASSUME Procs # {}, ~Faults, ~MayPersist
  PROVE  Spec => []NoOrphansLeft
<1>1. IndInv /\ OrphanInv /\ UNCHANGED vars => OrphanInv'
  BY DEF OrphanInv, SessionUsed, WillUnregister, CaredFor, Exempt, TakesCare, Sweeping, InSession,
         vars
<1>2. IndInv /\ OrphanInv /\ [Next]_vars => OrphanInv'
  BY <1>1, StepOrphanInv, CrashOrphanInv DEF Next
<1>3. OrphanInv => NoOrphansLeft
  BY DEF OrphanInv, CaredFor, NoOrphansLeft, Ended, Exempt, TakesCare, Sweeping, InSession
<1>4. Init => OrphanInv
  BY InitOrphanInv
<1> QED BY RegistryInvariant, <1>2, <1>3, <1>4, PTL DEF Spec
================================================================================
