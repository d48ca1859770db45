--------------------------- MODULE DurableStorage ---------------------------
(***************************************************************************)
(* The desktop's persisted stores, from a store's set to the file on disk: *)
(* the persist middleware of zustand, the StoragePort of storage.ts, the   *)
(* key-value map of the store plugin in the Rust process, and the command  *)
(* metadata_save_atomic of storage.rs.                                     *)
(*                                                                         *)
(* A store's persisted state is one value. The middleware does not await   *)
(* setItem, so its writes overlap; the commands they call are asynchronous *)
(* and may be answered in any order.                                       *)
(***************************************************************************)
EXTENDS Naturals, FiniteSets

CONSTANTS
  Keys,        \* one per persisted store
  Registry,    \* prl_wallet_registry, the one HydrationGate waits for
  Vals,        \* what a store may hold
  Default,     \* what it holds before it is hydrated
  None,        \* no entry
  Writes,      \* bound on the setItem calls that run at once
  MaxMaps      \* bound on the maps a process holds one after the other

ASSUME StorageAssumption ==
  /\ Registry \in Keys
  /\ Default \in Vals
  /\ None \notin Vals
  /\ MaxMaps \in Nat

Contents == [Keys -> Vals \cup {None}]

VARIABLES
  app,       \* zustand: what each store holds
  hydration, \* "reading", "read", "hydrated"
  got,       \* what getItem answered
  memory,    \* the plugin's map, loaded from the file once per process
  calls,     \* the setItem calls that run
  file,      \* wallet-state.json as the system shows it
  durable,   \* wallet-state.json as it survives a loss of power
  held,      \* history: what was on the file when the process started, and its maps
  overlap,   \* history: two setItem calls of this process overlapped
  early,     \* history: the stores that were set before they were hydrated
  lastOk     \* history: the last setItem call that ended saved the file

stores == <<app, hydration, got>>
disk == <<file, durable>>
history == <<held, overlap, early, lastOk>>
vars == <<stores, memory, calls, disk, history>>

Call(stage, k, v) ==
  [stage |-> stage, key |-> k, val |-> v, contents |-> [j \in Keys |-> None]]
Idle == Call("idle", Registry, Default)
IdleCalls == { n \in Writes : calls[n].stage = "idle" }
Quiet == IdleCalls = Writes

\* A new process: no store is hydrated.
Unread == [k \in Keys |-> "reading"]
NoAnswer == [k \in Keys |-> None]
Defaults == [k \in Keys |-> Default]
NoCalls == [n \in Writes |-> Idle]

Init ==
  /\ file \in Contents
  /\ durable = file
  /\ memory = file
  /\ app = Defaults /\ hydration = Unread /\ got = NoAnswer
  /\ calls = NoCalls
  /\ held = {file} /\ overlap = FALSE /\ early = {} /\ lastOk = TRUE

-----------------------------------------------------------------------------
(* A store *)

\* The middleware's set: the store changes at once, setItem runs behind it.
setItem(k, v) ==
  \E n \in IdleCalls :
    /\ calls' = [calls EXCEPT ![n] = Call("set", k, v)]
    /\ overlap' = (overlap \/ ~Quiet)

\* The registry's screens are behind HydrationGate; the lock and the network
\* gate can be set at any time (native menu, close handler, status bar).
Set(k, v) ==
  /\ k = Registry => hydration[k] = "hydrated"
  /\ app' = [app EXCEPT ![k] = v]
  /\ early' = IF hydration[k] = "hydrated" THEN early ELSE early \cup {k}
  /\ setItem(k, v)
  /\ UNCHANGED <<hydration, got, memory, disk, held, lastOk>>

getItem(k) ==
  /\ hydration[k] = "reading"
  /\ hydration' = [hydration EXCEPT ![k] = "read"]
  /\ got' = [got EXCEPT ![k] = memory[k]]
  /\ UNCHANGED <<app, memory, calls, disk, history>>

\* What was read replaces what the store holds by now.
Merged(k) == IF got[k] = None THEN app[k] ELSE got[k]

\* The registry's setHasHydrated is a set like any other: it is written back.
Hydrate(k) ==
  /\ hydration[k] = "read"
  /\ hydration' = [hydration EXCEPT ![k] = "hydrated"]
  /\ app' = [app EXCEPT ![k] = Merged(k)]
  /\ IF k = Registry
     THEN setItem(k, Merged(k))
     ELSE UNCHANGED <<calls, overlap>>
  /\ got' = [got EXCEPT ![k] = None]
  /\ UNCHANGED <<memory, disk, held, early, lastOk>>

-----------------------------------------------------------------------------
(* setItem, one awaited command after the other *)

End(n) == calls' = [calls EXCEPT ![n] = Idle]

StoreSet(n) ==
  /\ calls[n].stage = "set"
  /\ memory' = [memory EXCEPT ![calls[n].key] = calls[n].val]
  /\ held' = held \cup {memory'}
  /\ held' # held => Cardinality(held) < MaxMaps
  /\ calls' = [calls EXCEPT ![n].stage = "entries", ![n].val = Default]
  /\ UNCHANGED <<stores, disk, overlap, early, lastOk>>

\* Seeded fault: only the entry that changed is written.
SerializeOneKey(n) ==
  /\ calls[n].stage = "entries"
  /\ calls' = [calls EXCEPT ![n].stage = "saving",
       ![n].contents = [k \in Keys |-> IF k = calls[n].key THEN memory[k] ELSE None]]
  /\ UNCHANGED <<stores, memory, disk, history>>

\* serializeStoreState: every entry of the map, as it is by now.
Serialize(n) ==
  /\ calls[n].stage = "entries"
  /\ calls' = [calls EXCEPT ![n].stage = "saving", ![n].contents = memory]
  /\ UNCHANGED <<stores, memory, disk, history>>

\* A synced temporary file takes the file's place by one rename.
metadata_save_atomic(n) ==
  /\ calls[n].stage = "saving"
  /\ file' = calls[n].contents
  /\ lastOk' = TRUE
  /\ End(n)
  /\ UNCHANGED <<stores, memory, durable, held, overlap, early>>

\* Seeded fault: a refused save takes the change back from the map.
SaveRefusedForgets(n) ==
  /\ calls[n].stage = "saving"
  /\ lastOk' = FALSE
  /\ memory' = file
  /\ End(n)
  /\ UNCHANGED <<stores, disk, held, overlap, early>>

\* Any step before the rename fails: setItem rejects, and nobody hears of it.
SaveRefused(n) ==
  /\ calls[n].stage = "saving"
  /\ lastOk' = FALSE
  /\ End(n)
  /\ UNCHANGED <<stores, memory, disk, held, overlap, early>>

-----------------------------------------------------------------------------
(* The system *)

\* The rename reaches the disk by itself; nothing in the code waits for it.
Flush ==
  /\ durable # file
  /\ durable' = file
  /\ UNCHANGED <<stores, memory, calls, file, history>>

\* The plugin loads what is left; every call that was under way is lost.
Restart ==
  /\ memory' = file'
  /\ app' = Defaults /\ hydration' = Unread /\ got' = NoAnswer
  /\ calls' = NoCalls
  /\ held' = {file', durable'}
  /\ overlap' = FALSE /\ early' = {} /\ lastOk' = TRUE

Kill == UNCHANGED disk /\ Restart

PowerLoss == file' = durable /\ UNCHANGED durable /\ Restart

Next ==
  \/ \E k \in Keys, v \in Vals : Set(k, v)
  \/ \E k \in Keys : getItem(k) \/ Hydrate(k)
  \/ \E n \in Writes : \/ StoreSet(n)
                       \/ Serialize(n)
                       \/ metadata_save_atomic(n)
                       \/ SaveRefused(n)
  \/ Flush
  \/ Kill
  \/ PowerLoss

Spec == Init /\ [][Next]_vars

-----------------------------------------------------------------------------
TypeOK ==
  /\ app \in [Keys -> Vals]
  /\ hydration \in [Keys -> {"reading", "read", "hydrated"}]
  /\ got \in [Keys -> Vals \cup {None}]
  /\ memory \in Contents /\ file \in Contents /\ durable \in Contents
  /\ calls \in [Writes -> [stage : {"idle", "set", "entries", "saving"},
                           key : Keys, val : Vals, contents : Contents]]
  /\ held \subseteq Contents
  /\ overlap \in BOOLEAN /\ early \subseteq Keys /\ lastOk \in BOOLEAN

(***************************************************************************)
(* "Old-or-new on power loss" (storage.ts:9, storage.rs:6): whatever calls *)
(* overlap, fail or are cut off, the file is one whole state that the      *)
(* plugin's map had, and a restart begins from such a state.               *)
(***************************************************************************)
Abstract == INSTANCE MetadataFile WITH Contents <- Contents, memory <- memory,
                                       held <- held, file <- file
OldOrNew == Abstract!Spec

(***************************************************************************)
(* Once the calls of a process have ended one by one and the last of them  *)
(* saved, the file says of every store what the store holds, also of those *)
(* whose own save was refused before (setItem, storage.ts:92-96: every     *)
(* save writes the whole map).                                             *)
(***************************************************************************)
AsStored(k) == IF file[k] = None THEN Default ELSE file[k]
FileFollowsStores ==
  /\ Quiet /\ lastOk /\ ~overlap
  /\ \A k \in Keys : hydration[k] = "hydrated"
  /\ early = {}
  => \A k \in Keys : app[k] = AsStored(k)
=============================================================================
