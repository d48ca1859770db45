----------------------- MODULE DurableStorage_proofs -----------------------
(***************************************************************************)
(* Proofs about DurableStorage, for every set of stores and values and any *)
(* number of overlapping calls: the file is old or new (a refinement of    *)
(* MetadataFile), and follows the stores when their calls do not overlap.  *)
(***************************************************************************)
EXTENDS DurableStorage, TLAPS

Stages == {"idle", "set", "entries", "saving"}
CallType == [stage : Stages, key : Keys, val : Vals, contents : Contents]

(***************************************************************************)
(* Types                                                                   *)
(***************************************************************************)

LEMMA CallIsTyped ==
  ASSUME NEW st \in Stages, NEW k \in Keys, NEW v \in Vals
  PROVE  Call(st, k, v) \in CallType
BY DEF Call, CallType, Contents

LEMMA IdleIsTyped == Idle \in CallType
BY CallIsTyped, StorageAssumption DEF Idle, Stages

LEMMA InitTypes == Init => TypeOK
<1> SUFFICES ASSUME Init PROVE TypeOK
  OBVIOUS
<1>1. calls \in [Writes -> CallType]
  BY IdleIsTyped DEF Init, NoCalls
<1> QED
  BY <1>1, StorageAssumption DEF Init, TypeOK, Defaults, Unread, NoAnswer, Contents,
     CallType, Stages

\* A new call leaves the calls typed.
LEMMA setItemTypes ==
  ASSUME TypeOK, NEW k \in Keys, NEW v \in Vals, setItem(k, v)
  PROVE  calls' \in [Writes -> CallType] /\ overlap' \in BOOLEAN
<1>1. PICK n \in IdleCalls : /\ calls' = [calls EXCEPT ![n] = Call("set", k, v)]
                             /\ overlap' = (overlap \/ ~Quiet)
  BY DEF setItem
<1>2. Call("set", k, v) \in CallType
  BY CallIsTyped DEF Stages
<1>3. calls' \in [Writes -> CallType]
  BY <1>1, <1>2 DEF TypeOK, CallType, Stages, IdleCalls
<1>4. overlap' \in BOOLEAN
  BY <1>1 DEF TypeOK
<1> QED BY <1>3, <1>4

LEMMA TypeStep == TypeOK /\ [Next]_vars => TypeOK'
<1> SUFFICES ASSUME TypeOK, [Next]_vars PROVE TypeOK'
  OBVIOUS
<1> USE StorageAssumption
<1>1. ASSUME NEW k \in Keys, NEW v \in Vals, Set(k, v)
      PROVE  TypeOK'
  <2>1. calls' \in [Writes -> CallType] /\ overlap' \in BOOLEAN
    BY <1>1, setItemTypes DEF Set
  <2> QED BY <1>1, <2>1 DEF Set, TypeOK, disk, CallType, Stages
<1>2. ASSUME NEW k \in Keys, getItem(k)
      PROVE  TypeOK'
  BY <1>2 DEF getItem, TypeOK, disk, history, Contents
<1>3. ASSUME NEW k \in Keys, Hydrate(k)
      PROVE  TypeOK'
  <2>1. Merged(k) \in Vals
    BY DEF Merged, TypeOK
  <2>2. calls' \in [Writes -> CallType] /\ overlap' \in BOOLEAN
    BY <1>3, <2>1, setItemTypes DEF Hydrate, TypeOK, CallType, Stages
  <2> QED BY <1>3, <2>1, <2>2 DEF Hydrate, TypeOK, disk, CallType, Stages
<1>4. ASSUME NEW n \in Writes, StoreSet(n)
      PROVE  TypeOK'
  <2>1. memory' \in Contents
    BY <1>4 DEF StoreSet, TypeOK, Contents
  <2>2. calls' \in [Writes -> CallType]
    BY ZenonT(40), <1>4 DEF StoreSet, TypeOK, CallType, Stages
  <2> QED BY <1>4, <2>1, <2>2 DEF StoreSet, TypeOK, stores, disk, CallType, Stages
<1>5. ASSUME NEW n \in Writes, Serialize(n)
      PROVE  TypeOK'
  <2>1. calls' \in [Writes -> CallType]
    BY ZenonT(40), <1>5 DEF Serialize, TypeOK, CallType, Stages
  <2> QED BY <1>5, <2>1 DEF Serialize, TypeOK, stores, disk, history, CallType, Stages
<1>6. ASSUME NEW n \in Writes, metadata_save_atomic(n) \/ SaveRefused(n)
      PROVE  TypeOK'
  <2>1. calls' \in [Writes -> CallType]
    BY <1>6, IdleIsTyped DEF metadata_save_atomic, SaveRefused, End, TypeOK, CallType,
                             Stages
  <2> QED BY <1>6, <2>1 DEF metadata_save_atomic, SaveRefused, TypeOK, stores, disk,
             CallType, Stages
<1>7. CASE Flush
  BY <1>7 DEF Flush, TypeOK, stores, history
<1>8. CASE Kill \/ PowerLoss
  <2>1. calls' \in [Writes -> CallType]
    BY <1>8, IdleIsTyped DEF Kill, PowerLoss, Restart, NoCalls
  <2>2. file' \in Contents /\ durable' \in Contents
    BY <1>8 DEF Kill, PowerLoss, disk, TypeOK
  <2>3. Restart
    BY <1>8 DEF Kill, PowerLoss
  <2>4. /\ app' \in [Keys -> Vals] /\ got' \in [Keys -> Vals \cup {None}]
        /\ hydration' \in [Keys -> {"reading", "read", "hydrated"}]
    BY <2>3 DEF Restart, Defaults, Unread, NoAnswer
  <2>5. memory' \in Contents /\ held' \subseteq Contents
    BY <2>2, <2>3 DEF Restart
  <2>6. overlap' \in BOOLEAN /\ early' \subseteq Keys /\ lastOk' \in BOOLEAN
    BY <2>3 DEF Restart
  <2> QED BY <2>1, <2>2, <2>4, <2>5, <2>6 DEF TypeOK, CallType, Stages
<1>9. CASE UNCHANGED vars
  BY <1>9 DEF vars, stores, disk, history, TypeOK
<1> QED BY <1>1, <1>2, <1>3, <1>4, <1>5, <1>6, <1>7, <1>8, <1>9 DEF Next

\* Every variable keeps its type; the file is never a torn one.
THEOREM TypeCorrect == Spec => []TypeOK
BY InitTypes, TypeStep, PTL DEF Spec

(***************************************************************************)
(* Old or new                                                              *)
(***************************************************************************)

\* The map, both files and whatever a call is about to save are among the maps
\* that were held, so saving and restarting never leave them.
HeldInv ==
  /\ memory \in held /\ file \in held /\ durable \in held
  /\ \A n \in Writes : calls[n].stage = "saving" => calls[n].contents \in held

LEMMA InitHeld == Init => HeldInv
BY DEF Init, HeldInv, NoCalls, Idle, Call

\* A new call saves nothing yet.
LEMMA setItemHeld ==
  ASSUME TypeOK, NEW k, NEW v, setItem(k, v), NEW n \in Writes, calls'[n].stage = "saving"
  PROVE  calls'[n] = calls[n]
<1>1. PICK m \in IdleCalls : calls' = [calls EXCEPT ![m] = Call("set", k, v)]
  BY DEF setItem
<1>2. m # n
  BY <1>1 DEF TypeOK, Call, IdleCalls
<1> QED BY <1>1, <1>2 DEF TypeOK

\* A call that ends saves nothing more.
LEMMA EndHeld ==
  ASSUME TypeOK, NEW m \in Writes, End(m), NEW n \in Writes, calls'[n].stage = "saving"
  PROVE  calls'[n] = calls[n]
<1>1. m # n
  BY DEF TypeOK, End, Idle, Call
<1> QED BY <1>1 DEF TypeOK, End

LEMMA HeldStep == TypeOK /\ HeldInv /\ [Next]_vars => HeldInv'
<1> SUFFICES ASSUME TypeOK, HeldInv, [Next]_vars PROVE HeldInv'
  OBVIOUS
<1>1. ASSUME NEW k \in Keys, NEW v \in Vals, Set(k, v)
      PROVE  HeldInv'
  BY <1>1, setItemHeld DEF Set, HeldInv, disk
<1>2. ASSUME NEW k \in Keys, getItem(k)
      PROVE  HeldInv'
  BY <1>2 DEF getItem, HeldInv, disk, history
<1>3. ASSUME NEW k \in Keys, Hydrate(k)
      PROVE  HeldInv'
  BY <1>3, setItemHeld DEF Hydrate, HeldInv, disk
<1>4. ASSUME NEW n \in Writes, StoreSet(n)
      PROVE  HeldInv'
  <2>1. \A m \in Writes : calls'[m].stage = "saving" => m # n /\ calls'[m] = calls[m]
    BY <1>4 DEF StoreSet, TypeOK
  <2>2. held \subseteq held' /\ memory' \in held' /\ UNCHANGED <<file, durable>>
    BY <1>4 DEF StoreSet, disk
  <2>3. \A m \in Writes : calls'[m].stage = "saving" => calls'[m].contents \in held'
    BY <2>1, <2>2 DEF HeldInv
  <2> QED BY <2>2, <2>3 DEF HeldInv
<1>5. ASSUME NEW n \in Writes, Serialize(n)
      PROVE  HeldInv'
  <2>1. \A m \in Writes \ {n} : calls'[m] = calls[m]
    BY <1>5 DEF Serialize, TypeOK
  <2>2. calls'[n].contents = memory
    BY <1>5 DEF Serialize, TypeOK
  <2>3. UNCHANGED <<memory, file, durable, held>>
    BY <1>5 DEF Serialize, disk, history
  <2>4. \A m \in Writes : calls'[m].stage = "saving" => calls'[m].contents \in held
    <3> TAKE m \in Writes
    <3>1. CASE m = n
      BY <2>2, <3>1 DEF HeldInv
    <3>2. CASE m # n
      BY <2>1, <3>2 DEF HeldInv
    <3> QED BY <3>1, <3>2
  <2> QED BY <2>3, <2>4 DEF HeldInv
<1>6. ASSUME NEW n \in Writes, metadata_save_atomic(n) \/ SaveRefused(n)
      PROVE  HeldInv'
  BY <1>6, EndHeld DEF metadata_save_atomic, SaveRefused, HeldInv, disk
<1>7. CASE Flush
  BY <1>7 DEF Flush, HeldInv, history
<1>8. CASE Kill \/ PowerLoss
  BY <1>8 DEF Kill, PowerLoss, Restart, HeldInv, NoCalls, Idle, Call
<1>9. CASE UNCHANGED vars
  BY <1>9 DEF vars, disk, history, HeldInv
<1> QED BY <1>1, <1>2, <1>3, <1>4, <1>5, <1>6, <1>7, <1>8, <1>9 DEF Next

\* Every step of the code is a step of the promised file, or none.
LEMMA StepSimulation ==
  TypeOK /\ TypeOK' /\ HeldInv /\ [Next]_vars => [Abstract!Next]_(Abstract!vars)
<1> SUFFICES ASSUME TypeOK, TypeOK', HeldInv, [Next]_vars
             PROVE  Abstract!Next \/ UNCHANGED Abstract!vars
  OBVIOUS
<1>1. ASSUME NEW n \in Writes, StoreSet(n)
      PROVE  Abstract!Change(memory') /\ memory' \in Contents
  BY <1>1 DEF StoreSet, disk, TypeOK, Abstract!Change
<1>2. ASSUME NEW n \in Writes, metadata_save_atomic(n)
      PROVE  Abstract!Save(file') /\ file' \in Contents
  BY <1>2 DEF metadata_save_atomic, HeldInv, TypeOK, Abstract!Save
<1>3. CASE Kill \/ PowerLoss
  <2>1. held' \in SUBSET held /\ file' \in held'
    BY <1>3 DEF Kill, PowerLoss, Restart, disk, HeldInv
  <2>2. Abstract!Restart(file', held')
    BY <1>3 DEF Kill, PowerLoss, Restart, Abstract!Restart
  <2> QED BY <2>1, <2>2 DEF Abstract!Next
<1>4. CASE \/ \E k \in Keys, v \in Vals : Set(k, v)
           \/ \E k \in Keys : getItem(k) \/ Hydrate(k)
           \/ \E n \in Writes : Serialize(n) \/ SaveRefused(n)
           \/ Flush \/ UNCHANGED vars
  BY <1>4 DEF Set, getItem, Hydrate, Serialize, SaveRefused, Flush, vars, disk, history,
              Abstract!vars
<1> QED BY <1>1, <1>2, <1>3, <1>4 DEF Next, Abstract!Next

\* The file is old or new, whatever calls overlap, fail or are cut off: the code
\* implements MetadataFile.
THEOREM StaysOldOrNew == Spec => OldOrNew
<1>1. Init => Abstract!Init
  BY DEF Init, Abstract!Init
<1> QED BY <1>1, InitHeld, HeldStep, StepSimulation, TypeCorrect, PTL
        DEF Spec, OldOrNew, Abstract!Spec

(***************************************************************************)
(* The file follows the stores                                             *)
(***************************************************************************)

\* What a store hydrated from an entry holds.
In(m, k) == IF m[k] = None THEN Default ELSE m[k]

\* While calls do not overlap there is at most one, its change is all that the map
\* lacks, and what it saves is the map; a getItem that was answered is still right.
Alone == \A m, n \in Writes : calls[m].stage # "idle" /\ calls[n].stage # "idle" => m = n
KeyKnown ==
  \A n \in Writes : calls[n].stage = "set" =>
    \/ hydration[calls[n].key] = "hydrated"
    \/ calls[n].key \in early
MapFollows(k) ==
  \/ app[k] = In(memory, k)
  \/ \E n \in Writes : calls[n].stage = "set" /\ calls[n].key = k
ChangeFollows ==
  \A n \in Writes : calls[n].stage = "set" /\ calls[n].key \notin early
                    => calls[n].val = app[calls[n].key]
StoreFollows(k) ==
  /\ hydration[k] = "reading" => app[k] = Default
  /\ hydration[k] = "read" => app[k] = Default /\ got[k] = memory[k]
  /\ hydration[k] = "hydrated" => MapFollows(k)
StoresFollow == \A k \in Keys \ early : StoreFollows(k)
SavesTheMap == \A n \in Writes : calls[n].stage = "saving" => calls[n].contents = memory

FollowInv ==
  ~overlap =>
    /\ Alone
    /\ KeyKnown
    /\ ChangeFollows
    /\ StoresFollow
    /\ SavesTheMap
    /\ Quiet /\ lastOk => file = memory

LEMMA InitFollows == Init => FollowInv
BY StorageAssumption DEF Init, FollowInv, Alone, KeyKnown, ChangeFollows, StoresFollow,
   StoreFollows, SavesTheMap, Defaults, Unread, NoCalls, Idle, Call, Quiet, IdleCalls

LEMMA FollowGives == TypeOK /\ FollowInv => FileFollowsStores
<1> SUFFICES ASSUME TypeOK, FollowInv, Quiet, lastOk, ~overlap, early = {},
                    NEW k \in Keys, hydration[k] = "hydrated"
             PROVE  app[k] = AsStored(k)
  BY DEF FileFollowsStores
<1>1. file = memory
  BY DEF FollowInv
<1>2. MapFollows(k)
  BY DEF FollowInv, StoresFollow, StoreFollows
<1>3. app[k] = In(memory, k)
  BY <1>2 DEF MapFollows, Quiet, IdleCalls
<1> QED BY <1>1, <1>3 DEF In, AsStored

\* A set that finds no other call under way starts the only one.
LEMMA setItemAlone ==
  ASSUME TypeOK, NEW k \in Keys, NEW v \in Vals, setItem(k, v), ~overlap'
  PROVE  /\ ~overlap /\ Quiet
         /\ \E n \in Writes :
              /\ calls'[n].stage = "set" /\ calls'[n].key = k /\ calls'[n].val = v
              /\ \A m \in Writes \ {n} : calls'[m].stage = "idle"
<1>1. PICK n \in IdleCalls : /\ calls' = [calls EXCEPT ![n] = Call("set", k, v)]
                             /\ overlap' = (overlap \/ ~Quiet)
  BY DEF setItem
<1>2. ~overlap /\ Quiet
  BY <1>1 DEF TypeOK
<1>3. n \in Writes
  BY DEF IdleCalls
<1>4. calls'[n] = Call("set", k, v) /\ \A m \in Writes \ {n} : calls'[m] = calls[m]
  BY <1>1, <1>3 DEF TypeOK
<1>5. \A m \in Writes : calls[m].stage = "idle"
  BY <1>2 DEF Quiet, IdleCalls
<1> QED BY <1>2, <1>3, <1>4, <1>5 DEF Call

\* A set, or the write-back of a hydration: k's change is the only one under way.
LEMMA OneSetFollows ==
  ASSUME TypeOK, FollowInv, NEW k \in Keys, NEW v \in Vals, setItem(k, v),
         app' = [app EXCEPT ![k] = v], UNCHANGED <<memory, disk>>,
         early \subseteq early', early' \subseteq early \cup {k},
         hydration'[k] = "hydrated" \/ k \in early',
         \A j \in Keys \ {k} : hydration'[j] = hydration[j] /\ got'[j] = got[j]
  PROVE  FollowInv'
<1> SUFFICES ASSUME ~overlap' PROVE FollowInv'
  BY DEF FollowInv
<1>1. ~overlap /\ Quiet
  BY setItemAlone
<1>2. PICK n \in Writes :
        /\ calls'[n].stage = "set" /\ calls'[n].key = k /\ calls'[n].val = v
        /\ \A m \in Writes \ {n} : calls'[m].stage = "idle"
  BY setItemAlone
<1>3. Alone'
  BY <1>2 DEF Alone
<1>4. KeyKnown'
  BY <1>2 DEF KeyKnown
<1>5. app'[k] = v /\ \A j \in Keys \ {k} : app'[j] = app[j]
  BY DEF TypeOK
<1>6. ChangeFollows'
  BY <1>2, <1>5 DEF ChangeFollows
<1>7. ASSUME NEW j \in Keys \ early' PROVE StoreFollows(j)'
  <2>1. CASE j = k
    BY <1>2, <2>1 DEF StoreFollows, MapFollows
  <2>2. CASE j # k
    <3>1. StoreFollows(j)
      BY <1>1, <1>7, <2>2 DEF FollowInv, StoresFollow
    <3>2. ~\E m \in Writes : calls[m].stage = "set"
      BY <1>1 DEF Quiet, IdleCalls
    <3>3. hydration[j] = "hydrated" => app[j] = In(memory, j)
      BY <3>1, <3>2 DEF StoreFollows, MapFollows
    <3> QED BY <1>5, <2>2, <3>1, <3>3 DEF StoreFollows, MapFollows, In
  <2> QED BY <2>1, <2>2
<1>8. SavesTheMap'
  BY <1>2 DEF SavesTheMap
<1>9. ~Quiet'
  BY <1>2 DEF Quiet, IdleCalls
<1> QED BY <1>3, <1>4, <1>6, <1>7, <1>8, <1>9 DEF FollowInv, StoresFollow

\* What leaves the calls as they are, or ends one that was not a set.
Stay ==
  /\ UNCHANGED <<app, hydration, got, memory, early>>
  /\ \A n \in Writes : \/ calls'[n] = calls[n]
                       \/ calls'[n].stage = "idle" /\ calls[n].stage # "set"

LEMMA FollowStay ==
  ASSUME TypeOK, FollowInv, ~overlap, Stay
  PROVE  /\ Alone' /\ KeyKnown' /\ ChangeFollows' /\ SavesTheMap'
         /\ StoresFollow'
<1> USE DEF Stay
<1>1. Alone /\ KeyKnown /\ ChangeFollows /\ SavesTheMap
      /\ \A k \in Keys \ early : StoreFollows(k)
  BY DEF FollowInv, StoresFollow
<1>2. Alone'
  BY <1>1 DEF Alone
<1>3. KeyKnown' /\ ChangeFollows' /\ SavesTheMap'
  BY <1>1 DEF KeyKnown, ChangeFollows, SavesTheMap
<1>4. ASSUME NEW k \in Keys \ early PROVE StoreFollows(k)'
  <2>1. MapFollows(k) => MapFollows(k)'
    BY DEF MapFollows, In
  <2> QED BY <1>1, <2>1 DEF StoreFollows
<1> QED BY <1>2, <1>3, <1>4 DEF StoresFollow

LEMMA FollowStep == TypeOK /\ FollowInv /\ [Next]_vars => FollowInv'
<1> SUFFICES ASSUME TypeOK, FollowInv, [Next]_vars PROVE FollowInv'
  OBVIOUS
<1>1. ASSUME NEW k \in Keys, NEW v \in Vals, Set(k, v)
      PROVE  FollowInv'
  <2>1. setItem(k, v) /\ app' = [app EXCEPT ![k] = v]
        /\ UNCHANGED <<memory, disk, hydration, got>>
    BY <1>1 DEF Set
  <2>2. /\ early \subseteq early' /\ early' \subseteq early \cup {k}
        /\ hydration'[k] = "hydrated" \/ k \in early'
    BY <1>1 DEF Set
  <2> QED BY <2>1, <2>2, OneSetFollows
<1>2. ASSUME NEW k \in Keys, getItem(k)
      PROVE  FollowInv'
  <2> SUFFICES ASSUME ~overlap' PROVE FollowInv'
    BY DEF FollowInv
  <2>1. UNCHANGED <<app, memory, calls, file, overlap, early, lastOk>>
    BY <1>2 DEF getItem, disk, history
  <2>2. /\ hydration[k] = "reading" /\ hydration'[k] = "read" /\ got'[k] = memory[k]
        /\ \A j \in Keys \ {k} : hydration'[j] = hydration[j] /\ got'[j] = got[j]
    BY <1>2 DEF getItem, TypeOK
  <2>3. Alone' /\ ChangeFollows' /\ SavesTheMap' /\ (Quiet' /\ lastOk' => file' = memory')
    BY <2>1 DEF FollowInv, Alone, ChangeFollows, SavesTheMap, Quiet, IdleCalls
  <2>4. KeyKnown'
    BY <2>1, <2>2 DEF FollowInv, KeyKnown, TypeOK
  <2>5. ASSUME NEW j \in Keys \ early' PROVE StoreFollows(j)'
    <3>1. StoreFollows(j) /\ (MapFollows(j) => MapFollows(j)')
      BY <2>1 DEF FollowInv, StoresFollow, MapFollows, In
    <3> QED BY <2>1, <2>2, <3>1 DEF StoreFollows
  <2> QED BY <2>3, <2>4, <2>5 DEF FollowInv, StoresFollow
<1>3. ASSUME NEW k \in Keys, Hydrate(k)
      PROVE  FollowInv'
  <2>1. /\ hydration[k] = "read" /\ hydration'[k] = "hydrated"
        /\ app' = [app EXCEPT ![k] = Merged(k)] /\ Merged(k) \in Vals
        /\ UNCHANGED <<memory, disk, early, lastOk>>
        /\ \A j \in Keys \ {k} : hydration'[j] = hydration[j] /\ got'[j] = got[j]
    BY <1>3 DEF Hydrate, TypeOK, Merged
  <2>2. CASE k = Registry
    <3>1. setItem(k, Merged(k))
      BY <1>3, <2>2 DEF Hydrate
    <3> QED BY <2>1, <3>1, OneSetFollows
  <2>3. CASE k # Registry
    <3> SUFFICES ASSUME ~overlap' PROVE FollowInv'
      BY DEF FollowInv
    <3>1. UNCHANGED <<calls, overlap>> /\ file' = file
      BY <1>3, <2>3 DEF Hydrate, disk
    <3>2. app'[k] = Merged(k) /\ \A j \in Keys \ {k} : app'[j] = app[j]
      BY <2>1 DEF TypeOK
    <3>3. Alone' /\ SavesTheMap' /\ (Quiet' /\ lastOk' => file' = memory')
      BY <2>1, <3>1 DEF FollowInv, Alone, SavesTheMap, Quiet, IdleCalls
    <3>4. KeyKnown'
      BY <2>1, <3>1 DEF FollowInv, KeyKnown, TypeOK
    <3>5. ChangeFollows'
      BY <2>1, <3>1, <3>2 DEF FollowInv, KeyKnown, ChangeFollows, TypeOK
    <3>6. ASSUME NEW j \in Keys \ early' PROVE StoreFollows(j)'
      <4>1. StoreFollows(j)
        BY <2>1, <3>1 DEF FollowInv, StoresFollow
      <4>2. CASE j = k
        BY <2>1, <3>2, <4>1, <4>2 DEF StoreFollows, MapFollows, Merged, In
      <4>3. CASE j # k
        BY <2>1, <3>1, <3>2, <4>1, <4>3 DEF StoreFollows, MapFollows, In
      <4> QED BY <4>2, <4>3
    <3> QED BY <3>3, <3>4, <3>5, <3>6 DEF FollowInv, StoresFollow
  <2> QED BY <2>2, <2>3
<1>4. ASSUME NEW n \in Writes, StoreSet(n)
      PROVE  FollowInv'
  <2> SUFFICES ASSUME ~overlap' PROVE FollowInv'
    BY DEF FollowInv
  <2>1. UNCHANGED <<app, hydration, got, file, overlap, early, lastOk>>
    BY <1>4 DEF StoreSet, stores, disk
  <2>2. /\ calls[n].stage = "set" /\ calls'[n].stage = "entries"
        /\ calls[n].key \in Keys /\ calls[n].val \in Vals
        /\ \A m \in Writes \ {n} : calls'[m] = calls[m]
    BY <1>4 DEF StoreSet, TypeOK
  <2>3. \A m \in Writes \ {n} : calls'[m].stage = "idle"
    BY <2>1, <2>2 DEF FollowInv, Alone
  <2>4. /\ memory'[calls[n].key] = calls[n].val
        /\ \A j \in Keys \ {calls[n].key} : memory'[j] = memory[j]
    BY <1>4, <2>2 DEF StoreSet, TypeOK, Contents
  <2>5. Alone' /\ KeyKnown' /\ ChangeFollows' /\ SavesTheMap' /\ ~Quiet'
    BY <2>2, <2>3 DEF Alone, KeyKnown, ChangeFollows, SavesTheMap, Quiet, IdleCalls
  <2>6. ASSUME NEW j \in Keys \ early' PROVE StoreFollows(j)'
    <3>1. StoreFollows(j)
      BY <2>1 DEF FollowInv, StoresFollow
    <3>2. CASE j = calls[n].key
      <4>1. hydration[j] = "hydrated" /\ app[j] = calls[n].val
        BY <2>1, <2>2, <3>2 DEF FollowInv, KeyKnown, ChangeFollows
      <4>2. app'[j] = In(memory', j)
        BY <2>1, <2>2, <2>4, <3>2, <4>1, StorageAssumption DEF In
      <4> QED BY <2>1, <4>1, <4>2 DEF StoreFollows, MapFollows
    <3>3. CASE j # calls[n].key
      <4>1. hydration[j] = "hydrated" => app[j] = In(memory, j)
        BY <2>1, <2>2, <3>1, <3>3 DEF FollowInv, Alone, StoreFollows, MapFollows
      <4>2. memory'[j] = memory[j]
        BY <2>4, <3>3
      <4> QED BY <2>1, <3>1, <4>1, <4>2 DEF StoreFollows, MapFollows, In
    <3> QED BY <3>2, <3>3
  <2> QED BY <2>5, <2>6 DEF FollowInv, StoresFollow
<1>5. ASSUME NEW n \in Writes, Serialize(n)
      PROVE  FollowInv'
  <2> SUFFICES ASSUME ~overlap' PROVE FollowInv'
    BY DEF FollowInv
  <2>1. UNCHANGED <<app, hydration, got, memory, file, overlap, early, lastOk>>
    BY <1>5 DEF Serialize, stores, disk, history
  <2>2. /\ calls[n].stage = "entries" /\ calls'[n].stage = "saving"
        /\ calls'[n].contents = memory
        /\ \A m \in Writes \ {n} : calls'[m] = calls[m]
    BY <1>5 DEF Serialize, TypeOK
  <2>3. Alone' /\ KeyKnown' /\ ChangeFollows' /\ SavesTheMap' /\ ~Quiet'
    BY <2>1, <2>2 DEF FollowInv, Alone, KeyKnown, ChangeFollows, SavesTheMap, Quiet,
                      IdleCalls
  <2>4. ASSUME NEW j \in Keys \ early' PROVE StoreFollows(j)'
    <3>1. StoreFollows(j)
      BY <2>1 DEF FollowInv, StoresFollow
    <3>2. MapFollows(j) => MapFollows(j)'
      BY <2>1, <2>2 DEF MapFollows, In
    <3> QED BY <2>1, <3>1, <3>2 DEF StoreFollows
  <2> QED BY <2>3, <2>4 DEF FollowInv, StoresFollow
<1>6. ASSUME NEW n \in Writes, metadata_save_atomic(n) \/ SaveRefused(n)
      PROVE  FollowInv'
  <2> SUFFICES ASSUME ~overlap' PROVE FollowInv'
    BY DEF FollowInv
  <2>1. UNCHANGED <<app, hydration, got, memory, overlap, early>>
    BY <1>6 DEF metadata_save_atomic, SaveRefused, stores
  <2>2. /\ calls[n].stage = "saving" /\ calls'[n].stage = "idle"
        /\ \A m \in Writes \ {n} : calls'[m] = calls[m]
    BY <1>6 DEF metadata_save_atomic, SaveRefused, End, Idle, Call, TypeOK
  <2>3. /\ Alone' /\ KeyKnown' /\ ChangeFollows' /\ SavesTheMap'
        /\ StoresFollow'
    <3>1. ~overlap /\ Stay
      BY <2>1, <2>2 DEF Stay
    <3> QED BY <3>1, FollowStay
  <2>4. lastOk' => file' = memory'
    BY <1>6, <2>1, <2>2 DEF metadata_save_atomic, SaveRefused, FollowInv, SavesTheMap
  <2> QED BY <2>1, <2>3, <2>4 DEF FollowInv
<1>7. CASE Flush \/ UNCHANGED vars
  <2>1. UNCHANGED <<app, hydration, got, memory, calls, file, overlap, early, lastOk>>
    BY <1>7 DEF Flush, vars, stores, disk, history
  <2> SUFFICES ASSUME ~overlap PROVE FollowInv'
    BY <2>1 DEF FollowInv
  <2>2. Quiet' => Quiet
    BY <2>1 DEF Quiet, IdleCalls
  <2>3. /\ Alone' /\ KeyKnown' /\ ChangeFollows' /\ SavesTheMap'
        /\ StoresFollow'
    <3>1. Stay
      BY <2>1 DEF Stay
    <3> QED BY <3>1, FollowStay
  <2> QED BY <2>1, <2>2, <2>3 DEF FollowInv
<1>8. CASE Kill \/ PowerLoss
  BY <1>8, StorageAssumption DEF Kill, PowerLoss, Restart, FollowInv, Alone, KeyKnown,
     ChangeFollows, StoresFollow, StoreFollows, SavesTheMap, Defaults, Unread, NoCalls,
     Idle, Call
<1> QED BY <1>1, <1>2, <1>3, <1>4, <1>5, <1>6, <1>7, <1>8 DEF Next

\* The file says of every store what the store holds once calls that did not overlap
\* have ended and the last of them saved, a refused one before it included.
THEOREM FileFollows == Spec => []FileFollowsStores
<1>1. TypeOK /\ FollowInv => FileFollowsStores
  BY FollowGives
<1> QED BY <1>1, InitFollows, FollowStep, TypeCorrect, PTL DEF Spec
=============================================================================
