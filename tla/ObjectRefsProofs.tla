---------------------------- MODULE ObjectRefsProofs ---------------------------
(***************************************************************************)
(* Safety of ObjectRefs for every set of addresses and command lines and   *)
(* any number of notifications: the inductive invariant and its proof.     *)
(***************************************************************************)
EXTENDS ObjectRefs, SequenceTheorems, TLAPS

(***************************************************************************)
(* The inductive invariant.  It follows the two references a command can   *)
(* hold and the view it uses through the steps that use them.              *)
(***************************************************************************)
RefOps == {"unwrap", "duplicate", "close copy", "query", "context ops", "close ref"}

Followed == {"natural view", "by id", "by id view", "recipes", "close by id", "close natural"}

Ending == {"disconnect", "clean", "done"}

\* Between its creation and its close the reference is open; the second one is
\* another reference; and the view belongs to one of the two.
InHand ==
  /\ pc \in RefOps \cup Followed => ref \in open
  /\ second # Null => /\ pc \in {"close copy", "by id view", "recipes", "close by id"}
                      /\ second \in open /\ second # ref
  /\ pc \in {"duplicate", "close copy", "query"} => view \in {Null, ref}
  /\ pc \in {"by id", "by id view"} => view = ref
  /\ pc = "recipes" => view \in open

\* refs and refs --from-notify go their own ways, and only context reaches the
\* step that does not free its buffer.
OnCourse ==
  /\ cmd.name = "refs" => pc \in {"connect", "create"} \cup RefOps \cup Ending
  /\ cmd.name = "notify" => pc \in {"sweep", "connect", "trigger", "pump", "natural"} \cup Followed \cup Ending
  /\ pc = "context" => cmd.name = "context"

\* What the exit code will be read from.
ExitSoFar ==
  /\ minted => stepOk
  /\ pc \in RefOps => minted
  /\ cmd.name = "refs" => (exit = 0 <=> minted)
  /\ cmd.name = "notify" /\ pc \in Ending /\ minted => exit = 0
  /\ pc \in {"sweep", "connect", "create"} => ~minted

\* What has been given back.
GivenBack ==
  /\ pc \in {"clean", "done"} => open = {} \/ "close" \in missing
  /\ buffers = 0 \/ "free" \in missing \/ cmd.name = "context"
  /\ pc = "done" => child # "running" /\ file # "there"

IndInv == TypeOK /\ RefsOwned /\ InHand /\ OnCourse /\ ExitSoFar /\ GivenBack
--------------------------------------------------------------------------------
\* The branch a command takes after Connect.
LEMMA BranchFits ==
  /\ Branch \in {"context", "smoke", "client", "viewless", "trigger", "pump", "create"}
  /\ Branch = "context" => cmd.name = "context"
  /\ cmd.name = "refs" => Branch = "create"
  /\ cmd.name = "notify" => Branch = "trigger"
<1>1. Branch \in {"context", "smoke", "client", "viewless", "trigger", "pump", "create"}
  BY Zenon DEF Branch
<1>2. Branch = "context" => cmd.name = "context"
  BY Zenon DEF Branch
<1>3. cmd.name = "refs" => Branch = "create"
  BY Zenon DEF Branch
<1>4. cmd.name = "notify" => Branch = "trigger"
  BY Zenon DEF Branch
<1> QED BY <1>1, <1>2, <1>3, <1>4

\* Adopting a reference: its address was free, so object_refs_ gets a new one.
LEMMA AdoptedOwned ==
  ASSUME RefsTyped, RefsOwned, NEW h \in Addresses \ open, UNCHANGED missing,
         stored' = Append(stored, h), open' = open \cup {h}, ~stale'
  PROVE  /\ RefsOwned'
         /\ stored' \in Seq(Addresses \cup {Null}) /\ open' \subseteq Addresses
<1>1. stored \in Seq(Addresses \cup {Null}) /\ h \in Addresses \cup {Null} /\ h # Null
  BY NullAssumption DEF RefsTyped
<1>2. /\ stored' \in Seq(Addresses \cup {Null}) /\ DOMAIN stored = 1 .. Len(stored)
      /\ DOMAIN stored' = 1 .. (Len(stored) + 1) /\ Len(stored) \in Nat
      /\ \A i \in 1 .. Len(stored) : stored'[i] = stored[i]
      /\ stored'[Len(stored) + 1] = h
  BY <1>1
<1>3. \A i : i \in DOMAIN stored' <=> (i \in DOMAIN stored \/ i = Len(stored) + 1)
  BY <1>2
<1>4. ASSUME "close" \notin missing
      PROVE  /\ ToSet(stored') \ {Null} = open'
             /\ \A i, j \in DOMAIN stored' : stored'[i] = stored'[j] /\ stored'[i] # Null => i = j
  <2>1. ToSet(stored) \ {Null} = open
    BY <1>4 DEF RefsOwned
  <2>2. ToSet(stored') = ToSet(stored) \cup {h}
    BY <1>2, <1>3 DEF ToSet
  <2>3. \A i \in DOMAIN stored : stored[i] # h
    BY <1>1, <2>1 DEF ToSet
  <2>4. \A i, j \in DOMAIN stored : stored[i] = stored[j] /\ stored[i] # Null => i = j
    BY <1>4 DEF RefsOwned
  <2>5. \A i, j \in DOMAIN stored' : stored'[i] = stored'[j] /\ stored'[i] # Null => i = j
    BY <1>2, <1>3, <2>3, <2>4
  <2> QED BY <1>1, <2>1, <2>2, <2>5
<1> QED BY <1>2, <1>4 DEF RefsOwned, RefsTyped

\* CloseReference of an open reference or of none: every other reference stays
\* open and stored.
LEMMA ClosedOwned ==
  ASSUME RefsTyped, RefsOwned, NEW h \in open \cup {Null}, CloseReference(h), UNCHANGED missing
  PROVE  /\ RefsOwned'
         /\ stored' \in Seq(Addresses \cup {Null}) /\ open' \subseteq open
         /\ \A g \in open : g # h => g \in open'
         /\ stale' \in BOOLEAN
<1>1. /\ open' = IF h # Null /\ "close" \notin missing THEN open \ {h} ELSE open
      /\ stored' = [i \in DOMAIN stored |-> IF stored[i] = h THEN Null ELSE stored[i]]
  BY DEF CloseReference
<1>2. ~stale'
  BY DEF CloseReference, RefsOwned
<1>3. stale' \in BOOLEAN
  BY Zenon DEF CloseReference
<1>4. /\ stored \in Seq(Addresses \cup {Null}) /\ DOMAIN stored = 1 .. Len(stored)
      /\ Len(stored) \in Nat /\ DOMAIN stored' = DOMAIN stored
      /\ \A i \in DOMAIN stored : stored'[i] = IF stored[i] = h THEN Null ELSE stored[i]
  BY <1>1 DEF RefsTyped
<1>5. stored' \in Seq(Addresses \cup {Null})
  <2>1. stored' \in [1 .. Len(stored) -> Addresses \cup {Null}]
    BY <1>1, <1>4
  <2> QED BY <1>4, <2>1
<1>6. ASSUME "close" \notin missing
      PROVE  /\ ToSet(stored') \ {Null} = open'
             /\ \A i, j \in DOMAIN stored' : stored'[i] = stored'[j] /\ stored'[i] # Null => i = j
  <2>1. /\ ToSet(stored) \ {Null} = open
        /\ \A i, j \in DOMAIN stored : stored[i] = stored[j] /\ stored[i] # Null => i = j
    BY <1>6 DEF RefsOwned
  <2>2. ToSet(stored') \ {Null} = (ToSet(stored) \ {Null}) \ {h}
    BY <1>4 DEF ToSet
  <2>3. open' = open \ {h}
    BY <1>1, <1>6, NullAssumption DEF RefsTyped
  <2> QED BY <1>4, <2>1, <2>2, <2>3
<1> QED BY <1>1, <1>2, <1>3, <1>5, <1>6 DEF RefsOwned

\* FreeEspBuffer leaves at most one more buffer, and none when the export exists.
LEMMA FreedTyped ==
  ASSUME buffers \in Nat, NEW r, FreeEspBuffer(r)
  PROVE  buffers' \in Nat /\ (buffers = 0 /\ "free" \notin missing => buffers' = 0)
BY DEF FreeEspBuffer

\* A command starts with no reference and no buffer.
LEMMA InitIndInv == Init => IndInv
<1> SUFFICES ASSUME Init PROVE IndInv
  OBVIOUS
<1>1. CommandTyped
  BY NotifiedAssumption DEF Init, CommandTyped
<1>2. RefsTyped
  <2>1. /\ stored = << >> /\ ref = Null /\ second = Null /\ view = Null
        /\ open = {} /\ buffers = 0
    BY DEF Init
  <2>2. stale \in BOOLEAN
    BY Zenon DEF Init
  <2> QED BY <2>1, <2>2 DEF RefsTyped
<1>3. ToSet(stored) = {} /\ DOMAIN stored = {}
  BY DEF Init, ToSet
<1>4. RefsOwned
  BY <1>3, Zenon DEF Init, RefsOwned
<1>5. InHand /\ OnCourse /\ ExitSoFar /\ GivenBack
  BY DEF Init, InHand, OnCourse, ExitSoFar, GivenBack, RefOps, Followed, Ending
<1> QED BY <1>1, <1>2, <1>4, <1>5 DEF IndInv, TypeOK

--------------------------------------------------------------------------------
\* The sweep leaves arrays behind and nothing else.
LEMMA SweepStep ==
  ASSUME IndInv, CleanOrphanClients
  PROVE  IndInv'
<1> USE DEF IndInv, TypeOK
<1>1. /\ pc = "sweep" /\ pc' = "connect"
      /\ UNCHANGED <<cmd, missing, exit, stored, ref, second, view, left, stepOk, file, child, open,
                     buffers, stale, minted>>
  BY DEF CleanOrphanClients, Goto, locals, library
<1>2. arrays' \in Nat
  <2>1. PICK clients \in 0..MaxClients :
          \E probed \in 0..(IF cmd.fresh THEN 0 ELSE clients) :
            arrays' = probed + (IF clients = 0 THEN 0 ELSE 1)
    BY DEF CleanOrphanClients
  <2>2. PICK probed \in 0..(IF cmd.fresh THEN 0 ELSE clients) :
          arrays' = probed + (IF clients = 0 THEN 0 ELSE 1)
    BY <2>1
  <2>3. probed \in Nat
    BY ClientsAssumption
  <2> QED BY <2>2, <2>3
<1>3. CommandTyped' /\ RefsTyped'
  BY <1>1, <1>2 DEF CommandTyped, RefsTyped
<1>4. RefsOwned'
  BY <1>1 DEF RefsOwned
<1>5. InHand' /\ OnCourse'
  BY <1>1 DEF InHand, OnCourse, RefOps, Followed, Ending
<1>6. ExitSoFar' /\ GivenBack'
  BY <1>1 DEF ExitSoFar, GivenBack, RefOps, Followed, Ending
<1> QED BY <1>3, <1>4, <1>5, <1>6

\* The steps that touch no reference.
LEMMA PlainStep ==
  ASSUME IndInv,
         \/ Connect \/ QueryClient \/ QueryViewless \/ QueryAllProperties
         \/ ExerciseContextKeys \/ Trigger \/ Notified \/ PumpEnds \/ Clean
  PROVE  IndInv'
<1> USE DEF IndInv, TypeOK, locals, library
<1>0. /\ Branch \in {"context", "smoke", "client", "viewless", "trigger", "pump", "create"}
      /\ Branch = "context" => cmd.name = "context"
      /\ cmd.name = "refs" => Branch = "create"
      /\ cmd.name = "notify" => Branch = "trigger"
  BY BranchFits
<1>1. CASE Connect
  <2> USE <1>1 DEF Connect
  <2>1. CommandTyped'
    BY <1>0 DEF CommandTyped
  <2>2. RefsTyped'
    BY <1>0 DEF RefsTyped
  <2>3. RefsOwned'
    BY <1>0 DEF RefsOwned
  <2>4. InHand'
    BY <1>0 DEF InHand, CommandTyped, RefsTyped, RefOps, Followed, Ending
  <2>5. OnCourse'
    BY <1>0 DEF OnCourse, CommandTyped, RefsTyped, InHand, RefOps, Followed, Ending
  <2>6. ExitSoFar'
    BY <1>0 DEF ExitSoFar, CommandTyped, RefsTyped, InHand, RefOps, Followed, Ending
  <2>7. GivenBack'
    BY <1>0 DEF GivenBack
  <2> QED BY <2>1, <2>2, <2>3, <2>4, <2>5, <2>6, <2>7 DEF TypeOK
<1>2. CASE QueryClient
  <2>a. buffers' \in Nat
    BY <1>2, FreedTyped DEF RefsTyped, QueryClient
  <2>b. UNCHANGED stale
    BY <1>2, Zenon DEF RefsTyped, QueryClient
  <2> USE <1>2 DEF Goto, QueryClient, FreeEspBuffer
  <2>1. CommandTyped'
    BY DEF CommandTyped
  <2>2. RefsTyped'
    BY <2>a, <2>b, Zenon DEF RefsTyped, CommandTyped
  <2>3. RefsOwned'
    BY DEF RefsOwned
  <2>4. InHand'
    BY DEF InHand, CommandTyped, RefsTyped, RefOps, Followed, Ending
  <2>5. OnCourse'
    BY DEF OnCourse, CommandTyped, RefsTyped, InHand, RefOps, Followed, Ending
  <2>6. ExitSoFar'
    BY DEF ExitSoFar, CommandTyped, RefsTyped, InHand, OnCourse, RefOps, Followed, Ending
  <2>7. GivenBack'
    BY DEF GivenBack
  <2> QED BY <2>1, <2>2, <2>3, <2>4, <2>5, <2>6, <2>7 DEF TypeOK
<1>3. CASE QueryViewless
  <2> USE <1>3 DEF Goto, QueryViewless
  <2>1. CommandTyped'
    BY DEF CommandTyped
  <2>2. RefsTyped'
    BY DEF RefsTyped
  <2>3. RefsOwned'
    BY DEF RefsOwned
  <2>4. InHand'
    BY DEF InHand, CommandTyped, RefsTyped, RefOps, Followed, Ending
  <2>5. OnCourse'
    BY DEF OnCourse, CommandTyped, RefsTyped, InHand, RefOps, Followed, Ending
  <2>6. ExitSoFar'
    BY DEF ExitSoFar, CommandTyped, RefsTyped, InHand, OnCourse, RefOps, Followed, Ending
  <2>7. GivenBack'
    BY DEF GivenBack
  <2> QED BY <2>1, <2>2, <2>3, <2>4, <2>5, <2>6, <2>7 DEF TypeOK
<1>4. CASE QueryAllProperties
  <2>a. buffers' \in Nat
    BY <1>4, FreedTyped DEF RefsTyped, QueryAllProperties
  <2>b. UNCHANGED stale
    BY <1>4, Zenon DEF RefsTyped, QueryAllProperties
  <2> USE <1>4 DEF Goto, QueryAllProperties, FreeEspBuffer
  <2>1. CommandTyped'
    BY DEF CommandTyped
  <2>2. RefsTyped'
    BY <2>a, <2>b DEF RefsTyped
  <2>3. RefsOwned'
    BY DEF RefsOwned
  <2>4. InHand'
    BY DEF InHand, CommandTyped, RefsTyped, RefOps, Followed, Ending
  <2>5. OnCourse'
    BY DEF OnCourse, CommandTyped, RefsTyped, InHand, RefOps, Followed, Ending
  <2>6. ExitSoFar'
    BY DEF ExitSoFar, CommandTyped, RefsTyped, InHand, OnCourse, RefOps, Followed, Ending
  <2>7. GivenBack'
    BY DEF GivenBack
  <2> QED BY <2>1, <2>2, <2>3, <2>4, <2>5, <2>6, <2>7 DEF TypeOK
<1>5. CASE ExerciseContextKeys
  <2> USE <1>5 DEF Goto, ExerciseContextKeys
  <2>1. CommandTyped'
    BY DEF CommandTyped
  <2>2. RefsTyped'
    BY DEF RefsTyped
  <2>3. RefsOwned'
    BY DEF RefsOwned
  <2>4. InHand'
    BY DEF InHand, CommandTyped, RefsTyped, RefOps, Followed, Ending
  <2>5. OnCourse'
    BY DEF OnCourse
  <2>6. ExitSoFar'
    BY DEF ExitSoFar, CommandTyped, RefsTyped, InHand, OnCourse, RefOps, Followed, Ending
  <2>7. GivenBack'
    BY DEF GivenBack, CommandTyped, RefsTyped, InHand, OnCourse, ExitSoFar, RefOps,
         Followed, Ending
  <2> QED BY <2>1, <2>2, <2>3, <2>4, <2>5, <2>6, <2>7 DEF TypeOK
<1>6. CASE Trigger
  <2> USE <1>6 DEF Goto, Trigger, SpawnFoCreateTrigger, SpawnProcessCreateTrigger
  <2>1. CommandTyped'
    BY DEF CommandTyped
  <2>2. RefsTyped'
    BY DEF RefsTyped
  <2>3. RefsOwned'
    BY DEF RefsOwned
  <2>4. InHand'
    BY DEF InHand, CommandTyped, RefsTyped, RefOps, Followed, Ending
  <2>5. OnCourse'
    BY DEF OnCourse, CommandTyped, RefsTyped, InHand, RefOps, Followed, Ending
  <2>6. ExitSoFar'
    BY DEF ExitSoFar, CommandTyped, RefsTyped, InHand, RefOps, Followed, Ending
  <2>7. GivenBack'
    BY DEF GivenBack
  <2> QED BY <2>1, <2>2, <2>3, <2>4, <2>5, <2>6, <2>7 DEF TypeOK
<1>7. CASE Notified
  <2> USE <1>7 DEF Goto, Notified
  <2>1. CommandTyped'
    BY DEF CommandTyped
  <2>2. RefsTyped'
    BY DEF RefsTyped
  <2>3. RefsOwned'
    BY DEF RefsOwned
  <2>4. InHand'
    BY DEF InHand, CommandTyped, RefsTyped, RefOps, Followed, Ending
  <2>5. OnCourse'
    BY DEF OnCourse, CommandTyped, RefsTyped, InHand, RefOps, Followed, Ending
  <2>6. ExitSoFar'
    BY DEF ExitSoFar, CommandTyped, RefsTyped, InHand, RefOps, Followed, Ending
  <2>7. GivenBack'
    BY DEF GivenBack
  <2> QED BY <2>1, <2>2, <2>3, <2>4, <2>5, <2>6, <2>7 DEF TypeOK
<1>8. CASE PumpEnds
  <2> USE <1>8 DEF Goto, PumpEnds
  <2>1. CommandTyped'
    BY DEF CommandTyped
  <2>2. RefsTyped'
    BY DEF RefsTyped
  <2>3. RefsOwned'
    BY DEF RefsOwned
  <2>4. InHand'
    BY DEF InHand, CommandTyped, RefsTyped, RefOps, Followed, Ending
  <2>5. OnCourse'
    BY DEF OnCourse, CommandTyped, RefsTyped, InHand, RefOps, Followed, Ending
  <2>6. ExitSoFar'
    BY DEF ExitSoFar, CommandTyped, RefsTyped, InHand, OnCourse, RefOps, Followed, Ending
  <2>7. GivenBack'
    BY DEF GivenBack
  <2> QED BY <2>1, <2>2, <2>3, <2>4, <2>5, <2>6, <2>7 DEF TypeOK
<1>9. CASE Clean
  <2> USE <1>9 DEF Goto, Clean, CleanTriggers
  <2>1. CommandTyped'
    BY DEF CommandTyped
  <2>2. RefsTyped'
    BY DEF RefsTyped
  <2>3. RefsOwned'
    BY DEF RefsOwned
  <2>4. InHand'
    BY DEF InHand, CommandTyped, RefsTyped, RefOps, Followed, Ending
  <2>5. OnCourse'
    BY DEF OnCourse, CommandTyped, RefsTyped, InHand, RefOps, Followed, Ending
  <2>6. ExitSoFar'
    BY DEF ExitSoFar, CommandTyped, RefsTyped, InHand, RefOps, Followed, Ending
  <2>7. GivenBack'
    BY DEF GivenBack
  <2> QED BY <2>1, <2>2, <2>3, <2>4, <2>5, <2>6, <2>7 DEF TypeOK
<1> QED BY <1>1, <1>2, <1>3, <1>4, <1>5, <1>6, <1>7, <1>8, <1>9

--------------------------------------------------------------------------------
\* The steps that pass a reference or a view to the library: it is open.
LEMMA UsingStep ==
  ASSUME IndInv, Unwrap \/ Query \/ ContextOps \/ NaturalView \/ ByIdView \/ Recipes
  PROVE  IndInv'
<1> USE DEF IndInv, TypeOK, locals
<1>1. CASE Unwrap
  <2> USE <1>1 DEF Goto, Unwrap, Uses
  <2>1. CommandTyped'
    BY DEF CommandTyped
  <2>2. RefsTyped'
    BY DEF RefsTyped
  <2>3. RefsOwned'
    BY DEF RefsOwned, CommandTyped, RefsTyped, InHand, RefOps, Followed, Ending
  <2>4. InHand'
    BY DEF InHand, CommandTyped, RefsTyped, RefOps, Followed, Ending
  <2>5. OnCourse'
    BY DEF OnCourse, CommandTyped, RefsTyped, InHand, RefOps, Followed, Ending
  <2>6. ExitSoFar'
    BY DEF ExitSoFar, CommandTyped, RefsTyped, InHand, RefOps, Followed, Ending
  <2>7. GivenBack'
    BY DEF GivenBack
  <2> QED BY <2>1, <2>2, <2>3, <2>4, <2>5, <2>6, <2>7 DEF TypeOK
<1>2. CASE Query
  <2>a. buffers' \in Nat
    BY <1>2, FreedTyped DEF RefsTyped, Query
  <2>b. stale' \in BOOLEAN
    BY <1>2, Zenon DEF RefsTyped, Query, Uses
  <2> USE <1>2 DEF Goto, Query, Uses, FreeEspBuffer
  <2>1. CommandTyped'
    BY DEF CommandTyped
  <2>2. RefsTyped'
    BY <2>a, <2>b, Zenon DEF RefsTyped, CommandTyped
  <2>3. RefsOwned'
    BY DEF RefsOwned, CommandTyped, RefsTyped, InHand, RefOps, Followed, Ending
  <2>4. InHand'
    BY DEF InHand, CommandTyped, RefsTyped, RefOps, Followed, Ending
  <2>5. OnCourse'
    BY DEF OnCourse, CommandTyped, RefsTyped, InHand, RefOps, Followed, Ending
  <2>6. ExitSoFar'
    BY DEF ExitSoFar, CommandTyped, RefsTyped, InHand, RefOps, Followed, Ending
  <2>7. GivenBack'
    BY DEF GivenBack
  <2> QED BY <2>1, <2>2, <2>3, <2>4, <2>5, <2>6, <2>7 DEF TypeOK
<1>3. CASE ContextOps
  <2>a. buffers' \in Nat
    BY <1>3, FreedTyped DEF RefsTyped, ContextOps
  <2>b. stale' \in BOOLEAN
    BY <1>3, Zenon DEF RefsTyped, ContextOps, Uses
  <2> USE <1>3 DEF Goto, ContextOps, Uses, FreeEspBuffer
  <2>1. CommandTyped'
    BY DEF CommandTyped
  <2>2. RefsTyped'
    BY <2>a, <2>b, Zenon DEF RefsTyped, CommandTyped
  <2>3. RefsOwned'
    BY DEF RefsOwned, CommandTyped, RefsTyped, InHand, RefOps, Followed, Ending
  <2>4. InHand'
    BY DEF InHand, CommandTyped, RefsTyped, RefOps, Followed, Ending
  <2>5. OnCourse'
    BY DEF OnCourse, CommandTyped, RefsTyped, InHand, RefOps, Followed, Ending
  <2>6. ExitSoFar'
    BY DEF ExitSoFar, CommandTyped, RefsTyped, InHand, RefOps, Followed, Ending
  <2>7. GivenBack'
    BY DEF GivenBack
  <2> QED BY <2>1, <2>2, <2>3, <2>4, <2>5, <2>6, <2>7 DEF TypeOK
<1>4. CASE NaturalView
  <2> USE <1>4 DEF NaturalView, Uses
  <2>1. CommandTyped'
    BY DEF CommandTyped
  <2>2. RefsTyped'
    BY DEF RefsTyped
  <2>3. RefsOwned'
    BY DEF RefsOwned, CommandTyped, RefsTyped, InHand, RefOps, Followed, Ending
  <2>4. InHand'
    BY DEF InHand, CommandTyped, RefsTyped, RefOps, Followed, Ending
  <2>5. OnCourse'
    BY DEF OnCourse, CommandTyped, RefsTyped, InHand, RefOps, Followed, Ending
  <2>6. ExitSoFar'
    BY DEF ExitSoFar, CommandTyped, RefsTyped, InHand, RefOps, Followed, Ending
  <2>7. GivenBack'
    BY DEF GivenBack
  <2> QED BY <2>1, <2>2, <2>3, <2>4, <2>5, <2>6, <2>7 DEF TypeOK
<1>5. CASE ByIdView
  <2> USE <1>5 DEF Goto, ByIdView, Uses
  <2>1. CommandTyped'
    BY DEF CommandTyped
  <2>2. RefsTyped'
    BY DEF RefsTyped
  <2>3. RefsOwned'
    BY DEF RefsOwned, CommandTyped, RefsTyped, InHand, RefOps, Followed, Ending
  <2>4. InHand'
    BY DEF InHand, CommandTyped, RefsTyped, RefOps, Followed, Ending
  <2>5. OnCourse'
    BY DEF OnCourse, CommandTyped, RefsTyped, InHand, RefOps, Followed, Ending
  <2>6. ExitSoFar'
    BY DEF ExitSoFar, CommandTyped, RefsTyped, InHand, RefOps, Followed, Ending
  <2>7. GivenBack'
    BY DEF GivenBack
  <2> QED BY <2>1, <2>2, <2>3, <2>4, <2>5, <2>6, <2>7 DEF TypeOK
<1>6. CASE Recipes
  <2>a. buffers' \in Nat
    BY <1>6, FreedTyped DEF RefsTyped, Recipes
  <2>b. stale' \in BOOLEAN
    BY <1>6, Zenon DEF RefsTyped, Recipes, Uses
  <2> USE <1>6 DEF Goto, Recipes, Uses, FreeEspBuffer
  <2>1. CommandTyped'
    BY DEF CommandTyped
  <2>2. RefsTyped'
    BY <2>a, <2>b, Zenon DEF RefsTyped, CommandTyped
  <2>3. RefsOwned'
    BY DEF RefsOwned, CommandTyped, RefsTyped, InHand, RefOps, Followed, Ending
  <2>4. InHand'
    BY DEF InHand, CommandTyped, RefsTyped, RefOps, Followed, Ending
  <2>5. OnCourse'
    BY DEF OnCourse, CommandTyped, RefsTyped, InHand, RefOps, Followed, Ending
  <2>6. ExitSoFar'
    BY DEF ExitSoFar, CommandTyped, RefsTyped, InHand, RefOps, Followed, Ending
  <2>7. GivenBack'
    BY DEF GivenBack
  <2> QED BY <2>1, <2>2, <2>3, <2>4, <2>5, <2>6, <2>7 DEF TypeOK
<1> QED BY <1>1, <1>2, <1>3, <1>4, <1>5, <1>6

--------------------------------------------------------------------------------
\* The steps that create or duplicate a reference.
LEMMA AdoptingStep ==
  ASSUME IndInv,
         \/ CreateStep \/ Duplicate \/ NaturalStep
         \/ \E id \in {0, 1}, outcome \in Outcomes, h \in Addresses \cup {Null} : ById(id, outcome, h)
  PROVE  IndInv'
<1> USE DEF IndInv, TypeOK
<1>1. CASE CreateStep
  <2>1. \/ \E h \in Addresses \ open :
             /\ open' = open \cup {h}
             /\ stored' = Append(stored, h)
             /\ ref' = h
             /\ minted'
             /\ stepOk'
             /\ pc = "create"
             /\ pc' = "unwrap"
             /\ exit' = 0
             /\ UNCHANGED <<cmd, missing, arrays, second, view, left, file, child, buffers, stale>>
        \/ /\ open' = open
           /\ stored' = stored
           /\ ref' \in {ref, Null}
           /\ minted' <=> minted
           /\ stepOk => stepOk'
           /\ pc = "create"
           /\ pc' = "disconnect"
           /\ exit' \in {exit, 1}
           /\ UNCHANGED <<cmd, missing, arrays, second, view, left, file, child, buffers, stale>>
    BY <1>1 DEF CreateStep, CreateRef, CreateRefused, Created, Adopt, Outcomes, RefsOwned
  <2>2. minted' \in BOOLEAN /\ stepOk' \in BOOLEAN
    BY <1>1, Zenon DEF CreateStep, CreateRef, CreateRefused, Created, Adopt, Outcomes,
         CommandTyped, RefsTyped
  <2>3. ASSUME NEW h \in Addresses \ open,
               open' = open \cup {h},
               stored' = Append(stored, h),
               ref' = h,
               minted',
               stepOk',
               pc = "create",
               pc' = "unwrap",
               exit' = 0,
               UNCHANGED <<cmd, missing, arrays, second, view, left, file, child, buffers, stale>>
        PROVE  IndInv'
    <3>0. RefsOwned' /\ stored' \in Seq(Addresses \cup {Null}) /\ open' \subseteq Addresses
      BY <2>3, AdoptedOwned DEF RefsOwned
    <3>1. CommandTyped'
      BY <2>2, <2>3, <3>0 DEF CommandTyped
    <3>2. RefsTyped'
      BY <2>2, <2>3, <3>0 DEF RefsTyped
    <3>3. InHand'
      BY <2>2, <2>3, <3>0 DEF InHand
    <3>4. OnCourse'
      BY <2>2, <2>3, <3>0 DEF OnCourse, CommandTyped, RefsTyped, InHand, RefOps,
           Followed, Ending
    <3>5. ExitSoFar'
      BY <2>2, <2>3, <3>0 DEF ExitSoFar
    <3>6. GivenBack'
      BY <2>2, <2>3, <3>0 DEF GivenBack
    <3> QED BY <3>0, <3>1, <3>2, <3>3, <3>4, <3>5, <3>6 DEF TypeOK
  <2>4. ASSUME open' = open,
               stored' = stored,
               ref' \in {ref, Null},
               minted' <=> minted,
               stepOk => stepOk',
               pc = "create",
               pc' = "disconnect",
               exit' \in {exit, 1},
               UNCHANGED <<cmd, missing, arrays, second, view, left, file, child, buffers, stale>>
        PROVE  IndInv'
    <3>1. CommandTyped'
      BY <2>2, <2>4 DEF CommandTyped
    <3>2. RefsTyped'
      BY <2>2, <2>4 DEF RefsTyped
    <3>3. RefsOwned'
      BY <2>2, <2>4 DEF RefsOwned
    <3>4. InHand'
      BY <2>2, <2>4 DEF InHand, CommandTyped, RefsTyped, RefOps, Followed, Ending
    <3>5. OnCourse'
      BY <2>2, <2>4 DEF OnCourse, CommandTyped, RefsTyped, InHand, RefOps, Followed, Ending
    <3>6. ExitSoFar'
      BY <2>2, <2>4 DEF ExitSoFar, CommandTyped, RefsTyped, InHand, RefOps, Followed, Ending
    <3>7. GivenBack'
      BY <2>2, <2>4 DEF GivenBack
    <3> QED BY <3>1, <3>2, <3>3, <3>4, <3>5, <3>6, <3>7 DEF TypeOK
  <2> QED BY <2>1, <2>3, <2>4
<1>2. CASE Duplicate
  <2>1. \/ \E h \in Addresses \ open :
             /\ open' = open \cup {h}
             /\ stored' = Append(stored, h)
             /\ second' = h
             /\ minted'
             /\ ~stale'
             /\ pc = "duplicate"
             /\ pc' = "close copy"
             /\ UNCHANGED <<cmd, missing, arrays, exit, stepOk, ref, view, left, file, child, buffers>>
        \/ /\ open' = open
           /\ stored' = stored
           /\ second' \in {second, Null}
           /\ minted' <=> minted
           /\ ~stale'
           /\ pc = "duplicate"
           /\ pc' = "close copy"
           /\ UNCHANGED <<cmd, missing, arrays, exit, stepOk, ref, view, left, file, child, buffers>>
    BY <1>2, NullAssumption DEF Goto, Duplicate, DuplicateReference, Adopt, Uses,
         Outcomes, RefsOwned, CommandTyped, RefsTyped, InHand, RefOps, Followed
  <2>2. minted' \in BOOLEAN /\ stepOk' \in BOOLEAN /\ stale' \in BOOLEAN
    BY <1>2, Zenon DEF Goto, Duplicate, DuplicateReference, Adopt, Uses, Outcomes,
         CommandTyped, RefsTyped
  <2>3. ASSUME NEW h \in Addresses \ open,
               open' = open \cup {h},
               stored' = Append(stored, h),
               second' = h,
               minted',
               ~stale',
               pc = "duplicate",
               pc' = "close copy",
               UNCHANGED <<cmd, missing, arrays, exit, stepOk, ref, view, left, file, child, buffers>>
        PROVE  IndInv'
    <3>0. RefsOwned' /\ stored' \in Seq(Addresses \cup {Null}) /\ open' \subseteq Addresses
      BY <2>3, AdoptedOwned DEF RefsOwned
    <3>1. CommandTyped'
      BY <2>2, <2>3, <3>0 DEF CommandTyped
    <3>2. RefsTyped'
      BY <2>2, <2>3, <3>0 DEF RefsTyped
    <3>3. InHand'
      BY <2>2, <2>3, <3>0 DEF InHand, CommandTyped, RefsTyped, RefOps, Followed, Ending
    <3>4. OnCourse'
      BY <2>2, <2>3, <3>0 DEF OnCourse, CommandTyped, RefsTyped, InHand, RefOps,
           Followed, Ending
    <3>5. ExitSoFar'
      BY <2>2, <2>3, <3>0 DEF ExitSoFar, CommandTyped, RefsTyped, InHand, RefOps,
           Followed, Ending
    <3>6. GivenBack'
      BY <2>2, <2>3, <3>0 DEF GivenBack
    <3> QED BY <3>0, <3>1, <3>2, <3>3, <3>4, <3>5, <3>6 DEF TypeOK
  <2>4. ASSUME open' = open,
               stored' = stored,
               second' \in {second, Null},
               minted' <=> minted,
               ~stale',
               pc = "duplicate",
               pc' = "close copy",
               UNCHANGED <<cmd, missing, arrays, exit, stepOk, ref, view, left, file, child, buffers>>
        PROVE  IndInv'
    <3>1. CommandTyped'
      BY <2>2, <2>4 DEF CommandTyped
    <3>2. RefsTyped'
      BY <2>2, <2>4 DEF RefsTyped
    <3>3. RefsOwned'
      BY <2>2, <2>4 DEF RefsOwned
    <3>4. InHand'
      BY <2>2, <2>4 DEF InHand, CommandTyped, RefsTyped, RefOps, Followed, Ending
    <3>5. OnCourse'
      BY <2>2, <2>4 DEF OnCourse, CommandTyped, RefsTyped, InHand, RefOps, Followed, Ending
    <3>6. ExitSoFar'
      BY <2>2, <2>4 DEF ExitSoFar, CommandTyped, RefsTyped, InHand, RefOps, Followed, Ending
    <3>7. GivenBack'
      BY <2>2, <2>4 DEF GivenBack
    <3> QED BY <3>1, <3>2, <3>3, <3>4, <3>5, <3>6, <3>7 DEF TypeOK
  <2> QED BY <2>1, <2>3, <2>4
<1>3. CASE NaturalStep
  <2>1. \/ \E h \in Addresses \ open :
             /\ open' = open \cup {h}
             /\ stored' = Append(stored, h)
             /\ ref' = h
             /\ minted'
             /\ stepOk'
             /\ pc = "natural"
             /\ pc' = "natural view"
             /\ UNCHANGED <<cmd, missing, arrays, exit, second, view, left, file, child, buffers, stale>>
        \/ /\ open' = open
           /\ stored' = stored
           /\ ref' \in {ref, Null}
           /\ minted' <=> minted
           /\ stepOk => stepOk'
           /\ pc = "natural"
           /\ pc' = "pump"
           /\ UNCHANGED <<cmd, missing, arrays, exit, second, view, left, file, child, buffers, stale>>
    BY <1>3 DEF NaturalStep, Natural, Created, Adopt, Outcomes, RefsOwned
  <2>2. minted' \in BOOLEAN /\ stepOk' \in BOOLEAN
    BY <1>3, Zenon DEF NaturalStep, Natural, Created, Adopt, Outcomes, CommandTyped,
         RefsTyped
  <2>3. ASSUME NEW h \in Addresses \ open,
               open' = open \cup {h},
               stored' = Append(stored, h),
               ref' = h,
               minted',
               stepOk',
               pc = "natural",
               pc' = "natural view",
               UNCHANGED <<cmd, missing, arrays, exit, second, view, left, file, child, buffers, stale>>
        PROVE  IndInv'
    <3>0. RefsOwned' /\ stored' \in Seq(Addresses \cup {Null}) /\ open' \subseteq Addresses
      BY <2>3, AdoptedOwned DEF RefsOwned
    <3>1. CommandTyped'
      BY <2>2, <2>3, <3>0 DEF CommandTyped
    <3>2. RefsTyped'
      BY <2>2, <2>3, <3>0 DEF RefsTyped
    <3>3. InHand'
      BY <2>2, <2>3, <3>0 DEF InHand
    <3>4. OnCourse'
      BY <2>2, <2>3, <3>0 DEF OnCourse, CommandTyped, RefsTyped, InHand, RefOps,
           Followed, Ending
    <3>5. ExitSoFar'
      BY <2>2, <2>3, <3>0 DEF ExitSoFar, CommandTyped, RefsTyped, InHand, OnCourse,
           RefOps, Followed, Ending
    <3>6. GivenBack'
      BY <2>2, <2>3, <3>0 DEF GivenBack
    <3> QED BY <3>0, <3>1, <3>2, <3>3, <3>4, <3>5, <3>6 DEF TypeOK
  <2>4. ASSUME open' = open,
               stored' = stored,
               ref' \in {ref, Null},
               minted' <=> minted,
               stepOk => stepOk',
               pc = "natural",
               pc' = "pump",
               UNCHANGED <<cmd, missing, arrays, exit, second, view, left, file, child, buffers, stale>>
        PROVE  IndInv'
    <3>1. CommandTyped'
      BY <2>2, <2>4 DEF CommandTyped
    <3>2. RefsTyped'
      BY <2>2, <2>4 DEF RefsTyped
    <3>3. RefsOwned'
      BY <2>2, <2>4 DEF RefsOwned
    <3>4. InHand'
      BY <2>2, <2>4 DEF InHand, CommandTyped, RefsTyped, RefOps, Followed, Ending
    <3>5. OnCourse'
      BY <2>2, <2>4 DEF OnCourse, CommandTyped, RefsTyped, InHand, RefOps, Followed, Ending
    <3>6. ExitSoFar'
      BY <2>2, <2>4 DEF ExitSoFar, CommandTyped, RefsTyped, InHand, RefOps, Followed, Ending
    <3>7. GivenBack'
      BY <2>2, <2>4 DEF GivenBack
    <3> QED BY <3>1, <3>2, <3>3, <3>4, <3>5, <3>6, <3>7 DEF TypeOK
  <2> QED BY <2>1, <2>3, <2>4
<1>4. CASE \E id \in {0, 1}, outcome \in Outcomes, h \in Addresses \cup {Null} : ById(id, outcome, h)
  <2>1. \/ \E h \in Addresses \ open :
             /\ open' = open \cup {h}
             /\ stored' = Append(stored, h)
             /\ second' = h
             /\ minted'
             /\ stepOk'
             /\ ~stale'
             /\ pc = "by id"
             /\ pc' = "by id view"
             /\ UNCHANGED <<cmd, missing, arrays, exit, ref, view, left, file, child, buffers>>
        \/ /\ open' = open
           /\ stored' = stored
           /\ second' \in {second, Null}
           /\ minted' <=> minted
           /\ stepOk => stepOk'
           /\ ~stale'
           /\ pc = "by id"
           /\ pc' = "by id view"
           /\ UNCHANGED <<cmd, missing, arrays, exit, ref, view, left, file, child, buffers>>
    BY <1>4, NullAssumption DEF Goto, ById, Created, Adopt, Uses, Outcomes, RefsOwned,
         CommandTyped, RefsTyped, InHand, RefOps, Followed
  <2>2. minted' \in BOOLEAN /\ stepOk' \in BOOLEAN /\ stale' \in BOOLEAN
    BY <1>4, Zenon DEF Goto, ById, Created, Adopt, Uses, Outcomes, CommandTyped, RefsTyped
  <2>3. ASSUME NEW h \in Addresses \ open,
               open' = open \cup {h},
               stored' = Append(stored, h),
               second' = h,
               minted',
               stepOk',
               ~stale',
               pc = "by id",
               pc' = "by id view",
               UNCHANGED <<cmd, missing, arrays, exit, ref, view, left, file, child, buffers>>
        PROVE  IndInv'
    <3>0. RefsOwned' /\ stored' \in Seq(Addresses \cup {Null}) /\ open' \subseteq Addresses
      BY <2>3, AdoptedOwned DEF RefsOwned
    <3>1. CommandTyped'
      BY <2>2, <2>3, <3>0 DEF CommandTyped
    <3>2. RefsTyped'
      BY <2>2, <2>3, <3>0 DEF RefsTyped
    <3>3. InHand'
      BY <2>2, <2>3, <3>0 DEF InHand, CommandTyped, RefsTyped, RefOps, Followed, Ending
    <3>4. OnCourse'
      BY <2>2, <2>3, <3>0 DEF OnCourse, CommandTyped, RefsTyped, InHand, RefOps,
           Followed, Ending
    <3>5. ExitSoFar'
      BY <2>2, <2>3, <3>0 DEF ExitSoFar, CommandTyped, RefsTyped, InHand, OnCourse,
           RefOps, Followed, Ending
    <3>6. GivenBack'
      BY <2>2, <2>3, <3>0 DEF GivenBack
    <3> QED BY <3>0, <3>1, <3>2, <3>3, <3>4, <3>5, <3>6 DEF TypeOK
  <2>4. ASSUME open' = open,
               stored' = stored,
               second' \in {second, Null},
               minted' <=> minted,
               stepOk => stepOk',
               ~stale',
               pc = "by id",
               pc' = "by id view",
               UNCHANGED <<cmd, missing, arrays, exit, ref, view, left, file, child, buffers>>
        PROVE  IndInv'
    <3>1. CommandTyped'
      BY <2>2, <2>4 DEF CommandTyped
    <3>2. RefsTyped'
      BY <2>2, <2>4 DEF RefsTyped
    <3>3. RefsOwned'
      BY <2>2, <2>4 DEF RefsOwned
    <3>4. InHand'
      BY <2>2, <2>4 DEF InHand, CommandTyped, RefsTyped, RefOps, Followed, Ending
    <3>5. OnCourse'
      BY <2>2, <2>4 DEF OnCourse, CommandTyped, RefsTyped, InHand, RefOps, Followed, Ending
    <3>6. ExitSoFar'
      BY <2>2, <2>4 DEF ExitSoFar, CommandTyped, RefsTyped, InHand, RefOps, Followed, Ending
    <3>7. GivenBack'
      BY <2>2, <2>4 DEF GivenBack
    <3> QED BY <3>1, <3>2, <3>3, <3>4, <3>5, <3>6, <3>7 DEF TypeOK
  <2> QED BY <2>1, <2>3, <2>4
<1> QED BY <1>1, <1>2, <1>3, <1>4

--------------------------------------------------------------------------------
\* The steps that close a reference: it is open, or null, and no other one that
\* is still in hand is closed with it.
LEMMA ClosingStep ==
  ASSUME IndInv, CloseCopy \/ CloseRef \/ CloseById \/ CloseNatural
  PROVE  IndInv'
<1> USE DEF IndInv, TypeOK
<1>1. CASE CloseCopy
  <2>1. /\ pc = "close copy"
        /\ pc' = "query"
        /\ CloseReference(second)
        /\ second' = Null
        /\ UNCHANGED <<cmd, missing, arrays, exit, stepOk, left, file, child, buffers, minted, ref, view>>
    BY <1>1 DEF CloseCopy, Goto
  <2>2. second \in open \cup {Null}
    BY <2>1 DEF InHand, RefOps, Followed
  <2>3. /\ RefsOwned' /\ stored' \in Seq(Addresses \cup {Null}) /\ open' \subseteq open
        /\ (\A g \in open : g # second => g \in open') /\ stale' \in BOOLEAN
    BY <2>1, <2>2, ClosedOwned
  <2>4. CommandTyped'
    BY <2>1, <2>3 DEF CommandTyped
  <2>5. RefsTyped'
    BY <2>1, <2>3 DEF RefsTyped
  <2>6. InHand'
    <3>1. ref \in open /\ ref # second
      BY <2>1, NullAssumption DEF InHand, RefsTyped, RefOps, Followed
    <3>2. ref \in open'
      BY <2>3, <3>1
    <3> QED BY <2>1, <3>2 DEF InHand, RefOps, Followed
  <2>7. OnCourse'
    BY <2>1, <2>3 DEF OnCourse, CommandTyped, RefsTyped, InHand, RefOps, Followed, Ending
  <2>8. ExitSoFar'
    BY <2>1, <2>3 DEF ExitSoFar, CommandTyped, RefsTyped, InHand, RefOps, Followed, Ending
  <2>9. GivenBack'
    BY <2>1, <2>3 DEF GivenBack
  <2> QED BY <2>3, <2>4, <2>5, <2>6, <2>7, <2>8, <2>9 DEF TypeOK
<1>2. CASE CloseRef
  <2>1. /\ pc = "close ref"
        /\ pc' = "disconnect"
        /\ CloseReference(ref)
        /\ ref' = Null
        /\ UNCHANGED <<cmd, missing, arrays, exit, stepOk, left, file, child, buffers, minted, second, view>>
    BY <1>2 DEF CloseRef, Goto
  <2>2. ref \in open \cup {Null}
    BY <2>1 DEF InHand, RefOps, Followed
  <2>3. /\ RefsOwned' /\ stored' \in Seq(Addresses \cup {Null}) /\ open' \subseteq open
        /\ (\A g \in open : g # ref => g \in open') /\ stale' \in BOOLEAN
    BY <2>1, <2>2, ClosedOwned
  <2>4. CommandTyped'
    BY <2>1, <2>3 DEF CommandTyped
  <2>5. RefsTyped'
    BY <2>1, <2>3 DEF RefsTyped
  <2>6. InHand'
    BY <2>1, <2>3 DEF InHand, CommandTyped, RefsTyped, RefOps, Followed, Ending
  <2>7. OnCourse'
    BY <2>1, <2>3 DEF OnCourse, CommandTyped, RefsTyped, InHand, RefOps, Followed, Ending
  <2>8. ExitSoFar'
    BY <2>1, <2>3 DEF ExitSoFar, CommandTyped, RefsTyped, InHand, OnCourse, RefOps,
         Followed, Ending
  <2>9. GivenBack'
    BY <2>1, <2>3 DEF GivenBack
  <2> QED BY <2>3, <2>4, <2>5, <2>6, <2>7, <2>8, <2>9 DEF TypeOK
<1>3. CASE CloseById
  <2>1. /\ pc = "close by id"
        /\ pc' = "close natural"
        /\ CloseReference(second)
        /\ second' = Null
        /\ UNCHANGED <<cmd, missing, arrays, exit, stepOk, left, file, child, buffers, minted, ref, view>>
    BY <1>3 DEF CloseById, Goto
  <2>2. second \in open \cup {Null}
    BY <2>1 DEF InHand, RefOps, Followed
  <2>3. /\ RefsOwned' /\ stored' \in Seq(Addresses \cup {Null}) /\ open' \subseteq open
        /\ (\A g \in open : g # second => g \in open') /\ stale' \in BOOLEAN
    BY <2>1, <2>2, ClosedOwned
  <2>4. CommandTyped'
    BY <2>1, <2>3 DEF CommandTyped
  <2>5. RefsTyped'
    BY <2>1, <2>3 DEF RefsTyped
  <2>6. InHand'
    <3>1. ref \in open /\ ref # second
      BY <2>1, NullAssumption DEF InHand, RefsTyped, RefOps, Followed
    <3>2. ref \in open'
      BY <2>3, <3>1
    <3> QED BY <2>1, <3>2 DEF InHand, RefOps, Followed
  <2>7. OnCourse'
    BY <2>1, <2>3 DEF OnCourse, CommandTyped, RefsTyped, InHand, RefOps, Followed, Ending
  <2>8. ExitSoFar'
    BY <2>1, <2>3 DEF ExitSoFar, CommandTyped, RefsTyped, InHand, RefOps, Followed, Ending
  <2>9. GivenBack'
    BY <2>1, <2>3 DEF GivenBack
  <2> QED BY <2>3, <2>4, <2>5, <2>6, <2>7, <2>8, <2>9 DEF TypeOK
<1>4. CASE CloseNatural
  <2>1. /\ pc = "close natural"
        /\ pc' = "pump"
        /\ CloseReference(ref)
        /\ ref' = Null
        /\ view' = Null
        /\ UNCHANGED <<cmd, missing, arrays, exit, stepOk, left, file, child, buffers, minted, second>>
    BY <1>4 DEF CloseNatural, Goto
  <2>2. ref \in open \cup {Null}
    BY <2>1 DEF InHand, RefOps, Followed
  <2>3. /\ RefsOwned' /\ stored' \in Seq(Addresses \cup {Null}) /\ open' \subseteq open
        /\ (\A g \in open : g # ref => g \in open') /\ stale' \in BOOLEAN
    BY <2>1, <2>2, ClosedOwned
  <2>4. CommandTyped'
    BY <2>1, <2>3 DEF CommandTyped
  <2>5. RefsTyped'
    BY <2>1, <2>3 DEF RefsTyped
  <2>6. InHand'
    BY <2>1, <2>3 DEF InHand, CommandTyped, RefsTyped, RefOps, Followed, Ending
  <2>7. OnCourse'
    BY <2>1, <2>3 DEF OnCourse, CommandTyped, RefsTyped, InHand, RefOps, Followed, Ending
  <2>8. ExitSoFar'
    BY <2>1, <2>3 DEF ExitSoFar, CommandTyped, RefsTyped, InHand, RefOps, Followed, Ending
  <2>9. GivenBack'
    BY <2>1, <2>3 DEF GivenBack
  <2> QED BY <2>3, <2>4, <2>5, <2>6, <2>7, <2>8, <2>9 DEF TypeOK
<1> QED BY <1>1, <1>2, <1>3, <1>4


\* Disconnect closes exactly what is open.
LEMMA DisconnectStep ==
  ASSUME IndInv, Disconnect
  PROVE  IndInv'
<1> USE DEF IndInv, TypeOK
<1>1. /\ pc = "disconnect" /\ pc' = "clean" /\ stored' = << >>
      /\ open' = IF "close" \in missing THEN open ELSE open \ (ToSet(stored) \ {Null})
      /\ UNCHANGED <<cmd, missing, arrays, exit, ref, second, view, left, stepOk, file, child, buffers,
                     minted>>
  BY DEF Disconnect, Goto, locals
<1>2. "close" \notin missing => ToSet(stored) \ {Null} = open
  BY DEF RefsOwned
<1>3. ~stale'
  BY <1>2 DEF Disconnect, RefsOwned
<1>4. stale' \in BOOLEAN
  BY Zenon DEF Disconnect
<1>5. open' \subseteq open /\ ("close" \notin missing => open' = {})
  BY <1>1, <1>2
<1>6. CommandTyped'
  BY <1>1 DEF CommandTyped
<1>7. RefsTyped'
  BY <1>1, <1>4, <1>5 DEF RefsTyped
<1>8. RefsOwned'
  <2>1. ToSet(stored') = {} /\ DOMAIN stored' = {}
    BY <1>1 DEF ToSet
  <2> QED BY <1>1, <1>3, <1>5, <2>1 DEF RefsOwned
<1>9. InHand' /\ OnCourse'
  BY <1>1 DEF InHand, OnCourse, RefOps, Followed, Ending
<1>10. ExitSoFar' /\ GivenBack'
  BY <1>1, <1>5 DEF ExitSoFar, GivenBack, RefOps, Followed, Ending
<1> QED BY <1>6, <1>7, <1>8, <1>9, <1>10

--------------------------------------------------------------------------------
\* Every state of a command satisfies the inductive invariant.
THEOREM RefsInvariant == Spec => []IndInv
<1>1. IndInv /\ [Next]_vars => IndInv'
  <2> SUFFICES ASSUME IndInv, [Next]_vars PROVE IndInv'
    OBVIOUS
  <2>1. CASE UNCHANGED vars
    <3> USE <2>1 DEF IndInv, TypeOK, vars
    <3>1. CommandTyped' /\ RefsTyped'
      BY DEF CommandTyped, RefsTyped
    <3>2. RefsOwned' /\ InHand'
      BY DEF RefsOwned, InHand
    <3>3. OnCourse' /\ ExitSoFar' /\ GivenBack'
      BY DEF OnCourse, ExitSoFar, GivenBack
    <3> QED BY <3>1, <3>2, <3>3
  <2> QED BY <2>1, SweepStep, PlainStep, UsingStep, AdoptingStep, ClosingStep, DisconnectStep
       DEF Next, Done
<1> QED BY InitIndInv, <1>1, PTL DEF Spec

\* Types: no variable of a command ever leaves its range.
THEOREM RefsTypeCorrect == Spec => []TypeOK
<1>1. IndInv => TypeOK
  BY DEF IndInv
<1> QED BY RefsInvariant, <1>1, PTL

\* object_refs_ is exactly the set of open references, and neither a closed
\* reference nor a view of one ever reaches the library, however addresses are
\* reused and whichever call fails.
THEOREM RefsAlwaysOwned == Spec => []RefsOwned
<1>1. IndInv => RefsOwned
  BY DEF IndInv
<1> QED BY RefsInvariant, <1>1, PTL

\* An ended command keeps no reference and no query result unless an export is
\* missing, and has dealt with its child process and its file.
THEOREM NothingEverKept == Spec => []NothingKept
<1>1. IndInv => NothingKept
  BY DEF IndInv, GivenBack, NothingKept
<1> QED BY RefsInvariant, <1>1, PTL

\* The exit code of refs tells whether the library opened a reference.
THEOREM ExitAlwaysTells == Spec => []ExitTellsCreated
<1>1. IndInv => ExitTellsCreated
  BY DEF IndInv, ExitSoFar, ExitTellsCreated, Ending
<1> QED BY RefsInvariant, <1>1, PTL
================================================================================
