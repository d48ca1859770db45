-------------------------- MODULE Wallets_proofs --------------------------
(***************************************************************************)
(* Proofs about the wallets: how they come and go (WalletLifecycle), and   *)
(* what is shown of a listed one (WalletViews).                            *)
(*                                                                         *)
(* WalletLifecycle, for any number of wallets and names: no listed wallet  *)
(* lost its key, no failed attempt is listed, and no two listed wallets    *)
(* share a name.                                                           *)
(*                                                                         *)
(* WalletViews, for any wallets, gap limit, payments and loads in flight:  *)
(* its types, that a stored address is found again, that an address the    *)
(* receive screen is left with is unused, and that on mobile a screen      *)
(* shows its own wallet.                                                   *)
(***************************************************************************)
EXTENDS WalletLifecycle, WalletViews, FiniteSetTheorems, TLAPS

-----------------------------------------------------------------------------
(* WalletLifecycle *)

(***************************************************************************)
(* Types                                                                   *)
(***************************************************************************)

LEMMA AttemptTypes ==
  ASSUME TypeOK, NEW w \in Ids, Attempt(w) \/ Start(w)
  PROVE  TypeOK'
<1> USE DEF TypeOK, keychain, walletList, flow, wizard, deletion, Attempts, Entries
<1>1. CASE Start(w)
  BY <1>1 DEF Start
<1>2. CASE StoreKey(w)
  BY <1>2 DEF StoreKey
<1>3. ASSUME GoToWalletName(w), UNCHANGED <<walletList, disk, deletion, failed, refused>>,
             secrets' \in [Ids -> SUBSET Entries]
      PROVE  TypeOK'
  BY <1>3, LifecycleAssumption DEF GoToWalletName
<1>4. CASE StoreType(w)
  <2>1. secrets' \in [Ids -> SUBSET Entries]
    BY <1>4 DEF StoreType
  <2>2. CASE kind[w] = "create"
    BY <1>3, <1>4, <2>1, <2>2 DEF StoreType
  <2>3. CASE kind[w] # "create"
    BY <1>4, <2>1, <2>3 DEF StoreType
  <2> QED BY <2>2, <2>3
<1>5. CASE Discover(w)
  BY <1>3, <1>5 DEF Discover
<1>6. CASE Throw(w)
  BY <1>6 DEF Throw
<1>7. CASE Rollback(w)
  <2>1. secrets' \in [Ids -> SUBSET Entries] /\ refused' \subseteq Ids
    BY <1>7 DEF Rollback, DeleteWalletSecrets
  <2>2. attempt' \in [Ids -> Attempts] /\ failed' \subseteq Ids
        /\ busy' \in Ids \cup {NoId}
        /\ UNCHANGED <<walletList, disk, kind, wizard, deletion>>
    BY <1>7 DEF Rollback
  <2> QED BY <2>1, <2>2
<1> QED BY <1>1, <1>2, <1>4, <1>5, <1>6, <1>7 DEF Attempt

LEMMA TypeStep == TypeOK /\ [Next]_vars => TypeOK'
<1> SUFFICES ASSUME TypeOK, [Next]_vars PROVE TypeOK'
  OBVIOUS
<1> USE DEF TypeOK, keychain, walletList, flow, wizard, deletion, Attempts, Entries
<1>1. ASSUME NEW w \in Ids, HandleDelete(w)
      PROVE  TypeOK'
  BY <1>1 DEF HandleDelete
<1>2. ASSUME NEW w \in Ids, FinishDelete(w)
      PROVE  TypeOK'
  <2>1. secrets' \in [Ids -> SUBSET Entries] /\ refused' \subseteq Ids
    BY <1>2 DEF FinishDelete, DeleteWalletSecrets
  <2>2. registry' \subseteq Ids /\ writes' \subseteq SUBSET Ids
    BY <1>2 DEF FinishDelete, SetRegistry
  <2> QED BY <1>2, <2>1, <2>2 DEF FinishDelete
<1>3. ASSUME NEW n \in Names, ContinueToSetupSuccess(n)
      PROVE  TypeOK'
  BY <1>3 DEF ContinueToSetupSuccess
<1>4. CASE CreateWallet
  <2>1. current \in Ids
    BY <1>4 DEF CreateWallet
  <2>2. registry' \subseteq Ids /\ writes' \subseteq SUBSET Ids
    BY <1>4, <2>1 DEF CreateWallet, SetRegistry
  <2> QED BY <1>4, <2>1, <2>2 DEF CreateWallet
<1>5. CASE BackToWallets
  BY <1>5 DEF BackToWallets
<1>6. CASE NewWallet \/ Lock \/ Unlock
  BY <1>6 DEF NewWallet, Lock, Unlock
<1>7. ASSUME NEW r \in SUBSET Ids, Persist(r)
      PROVE  TypeOK'
  BY <1>7 DEF Persist
<1>8. CASE Restart
  BY <1>8 DEF Restart
<1>9. CASE UNCHANGED vars
  BY <1>9 DEF vars
<1> QED
  BY <1>1, <1>2, <1>3, <1>4, <1>5, <1>6, <1>7, <1>8, <1>9, AttemptTypes DEF Next

\* The keychain, the registry in memory and on disk, the flows and the wizard keep
\* their types.
THEOREM TypeCorrect == Spec => []TypeOK
<1>1. Init => TypeOK
  BY LifecycleAssumption DEF Init, TypeOK, Attempts, Entries
<1> QED BY <1>1, TypeStep, PTL DEF Spec

(***************************************************************************)
(* What a wallet has in the keychain, by how far its flow has come. Known  *)
(* wallets are those the list holds, or may hold after a restart.          *)
(***************************************************************************)

Known == registry \cup disk \cup UNION writes

\* A flow writes the key, then the type, and only then hands the id on.
EntriesOf(w) ==
  /\ attempt[w] = "none" => secrets[w] = {}
  /\ attempt[w] = "storingType" => "key" \in secrets[w]
  /\ attempt[w] = "discovering" => secrets[w] = Entries
  /\ w = current => secrets[w] = Entries
  /\ w \in Known => secrets[w] = Entries \/ w \in deleted
  /\ w \in failed => secrets[w] = {} \/ w \in refused

\* Nobody but its own flow knows the id of an attempt that runs; the id the
\* wizard shows is not listed yet, and did not fail; nor did a listed one.
PlaceOf(w) ==
  /\ attempt[w] # "done" => w # current /\ w \notin Known \cup failed \cup deleted
  /\ w = current => w \notin Known \cup failed \cup deleted
  /\ w \in failed => w \notin Known

KeysInv == \A w \in Ids : EntriesOf(w) /\ PlaceOf(w)

\* Deleting entries, whatever the keychain refuses, leaves a refusal or nothing.
LEMMA DeletionEffect ==
  ASSUME TypeOK, NEW x \in Ids, DeleteWalletSecrets(x)
  PROVE  /\ secrets'[x] = {} \/ x \in refused'
         /\ refused \subseteq refused'
         /\ \A w \in Ids \ {x} : secrets'[w] = secrets[w]
BY DEF DeleteWalletSecrets, TypeOK

\* A flow that hands its id on has all its entries.
LEMMA KeysHandedOn ==
  ASSUME TypeOK, KeysInv, NEW x \in Ids, attempt[x] \notin {"none", "done"},
         GoToWalletName(x), secrets'[x] = Entries,
         \A w \in Ids \ {x} : secrets'[w] = secrets[w],
         UNCHANGED <<refused, walletList, disk, deletion, failed>>
  PROVE  KeysInv'
<1> SUFFICES ASSUME NEW w \in Ids PROVE (EntriesOf(w) /\ PlaceOf(w))'
  BY DEF KeysInv
<1> USE DEF walletList, deletion
<1>0. Known' = Known
  BY DEF Known
<1>1. /\ attempt'[x] = "done" /\ current' \in {x, current}
      /\ \A v \in Ids \ {x} : attempt'[v] = attempt[v]
  BY DEF GoToWalletName, TypeOK
<1>2. x \notin Known \cup failed \cup deleted
  BY DEF KeysInv, PlaceOf
<1>3. EntriesOf(w) /\ PlaceOf(w)
  BY DEF KeysInv
<1>4. CASE w = x
  BY <1>0, <1>1, <1>2, <1>4 DEF EntriesOf, PlaceOf
<1>5. CASE w # x
  BY <1>0, <1>1, <1>3, <1>5 DEF EntriesOf, PlaceOf
<1> QED BY <1>4, <1>5

\* A flow that goes on without handing its id to anyone.
LEMMA KeysGoOn ==
  ASSUME TypeOK, KeysInv, NEW x \in Ids, NEW stage \in Attempts \ {"none", "done"},
         attempt[x] # "done",
         attempt' = [attempt EXCEPT ![x] = stage],
         stage = "storingType" => "key" \in secrets'[x],
         stage = "discovering" => secrets'[x] = Entries,
         \A w \in Ids \ {x} : secrets'[w] = secrets[w],
         UNCHANGED <<refused, walletList, disk, wizard, deletion, failed>>
  PROVE  KeysInv'
<1> SUFFICES ASSUME NEW w \in Ids PROVE (EntriesOf(w) /\ PlaceOf(w))'
  BY DEF KeysInv
<1> USE DEF walletList, deletion, wizard
<1>0. Known' = Known
  BY DEF Known
<1>1. attempt'[x] = stage /\ \A v \in Ids \ {x} : attempt'[v] = attempt[v]
  BY DEF TypeOK
<1>2. EntriesOf(w) /\ PlaceOf(w)
  BY DEF KeysInv
<1>4. CASE w = x
  BY <1>0, <1>1, <1>2, <1>4 DEF EntriesOf, PlaceOf
<1>5. CASE w # x
  BY <1>0, <1>1, <1>2, <1>5 DEF EntriesOf, PlaceOf
<1> QED BY <1>4, <1>5

\* The list and the disk know no more wallets than before, the keychain and the
\* flows stay, and the wizard is where it was or holds no id.
LEMMA KeysStay ==
  ASSUME TypeOK, KeysInv, Known' \subseteq Known,
         current' \in {current, NoId}, deleted' \subseteq deleted \cup registry,
         deleted \subseteq deleted', UNCHANGED <<keychain, failed>>,
         \A w \in Ids : attempt'[w] = attempt[w]
                         \/ (attempt[w] # "none" /\ attempt'[w] = "done")
  PROVE  KeysInv'
<1> SUFFICES ASSUME NEW w \in Ids PROVE (EntriesOf(w) /\ PlaceOf(w))'
  BY DEF KeysInv
<1>1. EntriesOf(w) /\ PlaceOf(w)
  BY DEF KeysInv
<1>2. w \in deleted' => w \in deleted \/ w \in Known
  BY DEF Known
<1>3. w # NoId
  BY LifecycleAssumption
<1> QED BY <1>1, <1>2, <1>3 DEF EntriesOf, PlaceOf, keychain

LEMMA KeysAttempt ==
  ASSUME TypeOK, KeysInv, NEW x \in Ids, Start(x) \/ Attempt(x)
  PROVE  KeysInv'
<1>1. CASE Start(x)
  BY <1>1, KeysGoOn DEF Start, keychain, Attempts
<1>2. CASE StoreKey(x)
  <2>1. "key" \in secrets'[x] /\ \A w \in Ids \ {x} : secrets'[w] = secrets[w]
    BY <1>2 DEF StoreKey, TypeOK
  <2> QED BY <1>2, <2>1, KeysGoOn DEF StoreKey, Attempts
<1>3. CASE StoreType(x)
  <2>1. secrets'[x] = Entries /\ \A w \in Ids \ {x} : secrets'[w] = secrets[w]
    <3>1. "key" \in secrets[x] /\ secrets[x] \subseteq Entries
      BY <1>3 DEF StoreType, KeysInv, EntriesOf, TypeOK
    <3>2. secrets' = [secrets EXCEPT ![x] = @ \cup {"type"}]
      BY <1>3 DEF StoreType
    <3> QED BY <3>1, <3>2 DEF Entries, TypeOK
  <2>2. CASE kind[x] = "create"
    BY <1>3, <2>1, <2>2, KeysHandedOn DEF StoreType
  <2>3. CASE kind[x] # "create"
    BY <1>3, <2>1, <2>3, KeysGoOn DEF StoreType, Attempts
  <2> QED BY <2>2, <2>3
<1>4. CASE Discover(x)
  <2>1. secrets'[x] = Entries /\ UNCHANGED <<secrets, refused>>
    BY <1>4 DEF Discover, keychain, KeysInv, EntriesOf
  <2> QED BY <1>4, <2>1, KeysHandedOn DEF Discover
<1>5. CASE Throw(x)
  BY <1>5, KeysGoOn DEF Throw, keychain, Attempts
<1>6. CASE Rollback(x)
  <2>1. /\ attempt[x] = "rollback" /\ attempt'[x] = "done"
        /\ \A w \in Ids \ {x} : attempt'[w] = attempt[w]
        /\ failed' = failed \cup {x} /\ UNCHANGED <<walletList, disk, wizard, deletion>>
    BY <1>6 DEF Rollback, TypeOK
  <2>2. DeleteWalletSecrets(x)
    BY <1>6 DEF Rollback
  <2>3. /\ (secrets'[x] = {} \/ x \in refused') /\ refused \subseteq refused'
        /\ \A w \in Ids \ {x} : secrets'[w] = secrets[w]
    BY <2>2, DeletionEffect
  <2>4. Known' = Known /\ current' = current /\ deleted' = deleted
    BY <2>1 DEF Known, walletList, wizard, deletion
  <2>5. SUFFICES ASSUME NEW w \in Ids PROVE (EntriesOf(w) /\ PlaceOf(w))'
    BY DEF KeysInv
  <2>6. EntriesOf(w) /\ PlaceOf(w)
    BY DEF KeysInv
  <2>7. CASE w = x
    BY <2>1, <2>3, <2>4, <2>6, <2>7 DEF EntriesOf, PlaceOf
  <2>8. CASE w # x
    BY <2>1, <2>3, <2>4, <2>6, <2>8 DEF EntriesOf, PlaceOf
  <2> QED BY <2>7, <2>8
<1> QED BY <1>1, <1>2, <1>3, <1>4, <1>5, <1>6 DEF Attempt

\* Writes and restarts never bring back a wallet that neither the list nor the disk
\* nor a write on its way knows.
LEMMA KnownShrinks ==
  /\ \A r \in SUBSET Ids : Persist(r) => Known' \subseteq Known
  /\ Restart => Known' \subseteq Known
  /\ \A w \in Ids : FinishDelete(w) => Known' \subseteq Known
<1>1. ASSUME NEW r \in SUBSET Ids, Persist(r) PROVE Known' \subseteq Known
  BY <1>1 DEF Persist, Known
<1>2. Restart => Known' \subseteq Known
  BY DEF Restart, Known
<1>3. ASSUME NEW w \in Ids, FinishDelete(w) PROVE Known' \subseteq Known
  <2>1. /\ registry' \subseteq registry /\ writes' = writes \cup {registry'}
        /\ disk' = disk
    BY <1>3 DEF FinishDelete, SetRegistry
  <2> QED BY <2>1 DEF Known
<1> QED BY <1>1, <1>2, <1>3

LEMMA KeysStep ==
  ASSUME TypeOK, KeysInv, [Next]_vars
  PROVE  KeysInv'
<1>1. ASSUME NEW x \in Ids, HandleDelete(x)
      PROVE  KeysInv'
  <2>1. Known' = Known
    BY <1>1 DEF HandleDelete, walletList, Known
  <2>2. /\ current' \in {current, NoId} /\ deleted' \subseteq deleted \cup registry
        /\ deleted \subseteq deleted' /\ UNCHANGED <<keychain, failed>>
        /\ \A w \in Ids : attempt'[w] = attempt[w]
                          \/ (attempt[w] # "none" /\ attempt'[w] = "done")
    BY <1>1 DEF HandleDelete, flow, wizard
  <2> QED BY <2>1, <2>2, KeysStay
<1>2. ASSUME NEW x \in Ids, FinishDelete(x)
      PROVE  KeysInv'
  <2>1. /\ (secrets'[x] = {} \/ x \in refused') /\ refused \subseteq refused'
        /\ \A w \in Ids \ {x} : secrets'[w] = secrets[w]
    <3>1. DeleteWalletSecrets(x)
      BY <1>2 DEF FinishDelete
    <3> QED BY <3>1, DeletionEffect
  <2>2. /\ x \in deleted /\ current' = NoId /\ attempt' = attempt
        /\ deleted' = deleted /\ failed' = failed
    BY <1>2 DEF FinishDelete, TypeOK
  <2>3. Known' \subseteq Known
    BY <1>2, KnownShrinks
  <2>4. SUFFICES ASSUME NEW w \in Ids PROVE (EntriesOf(w) /\ PlaceOf(w))'
    BY DEF KeysInv
  <2>5. EntriesOf(w) /\ PlaceOf(w) /\ w # NoId
    BY LifecycleAssumption DEF KeysInv
  <2>6. CASE w = x
    BY <2>1, <2>2, <2>3, <2>5, <2>6 DEF EntriesOf, PlaceOf
  <2>7. CASE w # x
    BY <2>1, <2>2, <2>3, <2>5, <2>7 DEF EntriesOf, PlaceOf
  <2> QED BY <2>6, <2>7
<1>3. CASE CreateWallet
  <2>1. current \in Ids
    BY <1>3 DEF CreateWallet, TypeOK
  <2>2. Known' = Known \cup {current}
    <3>1. /\ registry' = registry \cup {current} /\ disk' = disk
          /\ writes' = writes \cup {registry'}
      BY <1>3 DEF CreateWallet, SetRegistry
    <3> QED BY <3>1 DEF Known
  <2>3. /\ current' = NoId /\ UNCHANGED <<keychain, attempt, deleted, failed>>
    BY <1>3 DEF CreateWallet, flow, deletion
  <2>4. SUFFICES ASSUME NEW w \in Ids PROVE (EntriesOf(w) /\ PlaceOf(w))'
    BY DEF KeysInv
  <2>5. EntriesOf(w) /\ PlaceOf(w) /\ w # NoId
    BY LifecycleAssumption DEF KeysInv
  <2> QED BY <2>2, <2>3, <2>5 DEF EntriesOf, PlaceOf, keychain
<1>4. ASSUME NEW n \in Names, ContinueToSetupSuccess(n)
      PROVE  KeysInv'
  <2>1. Known' = Known
    BY <1>4 DEF ContinueToSetupSuccess, walletList, Known
  <2>2. /\ current' \in {current, NoId} /\ deleted' \subseteq deleted \cup registry
        /\ deleted \subseteq deleted' /\ UNCHANGED <<keychain, failed>>
        /\ \A w \in Ids : attempt'[w] = attempt[w]
                          \/ (attempt[w] # "none" /\ attempt'[w] = "done")
    BY <1>4 DEF ContinueToSetupSuccess, flow, deletion
  <2> QED BY <2>1, <2>2, KeysStay
<1>5. CASE BackToWallets \/ NewWallet \/ Lock \/ Unlock
  <2>1. Known' = Known
    BY <1>5 DEF BackToWallets, NewWallet, Lock, Unlock, walletList, Known
  <2>2. /\ current' \in {current, NoId} /\ deleted' \subseteq deleted \cup registry
        /\ deleted \subseteq deleted' /\ UNCHANGED <<keychain, failed>>
        /\ \A w \in Ids : attempt'[w] = attempt[w]
                          \/ (attempt[w] # "none" /\ attempt'[w] = "done")
    BY <1>5 DEF BackToWallets, NewWallet, Lock, Unlock, flow, deletion
  <2> QED BY <2>1, <2>2, KeysStay
<1>6. ASSUME NEW r \in SUBSET Ids, Persist(r)
      PROVE  KeysInv'
  <2>1. Known' \subseteq Known
    BY <1>6, KnownShrinks
  <2>2. /\ current' \in {current, NoId} /\ deleted' \subseteq deleted \cup registry
        /\ deleted \subseteq deleted' /\ UNCHANGED <<keychain, failed>>
        /\ \A w \in Ids : attempt'[w] = attempt[w]
                          \/ (attempt[w] # "none" /\ attempt'[w] = "done")
    BY <1>6 DEF Persist, flow, wizard, deletion
  <2> QED BY <2>1, <2>2, KeysStay
<1>7. CASE Restart
  <2>1. Known' \subseteq Known
    BY <1>7, KnownShrinks
  <2>2. /\ current' \in {current, NoId} /\ deleted' \subseteq deleted \cup registry
        /\ deleted \subseteq deleted' /\ UNCHANGED <<keychain, failed>>
        /\ \A w \in Ids : attempt'[w] = attempt[w]
                          \/ (attempt[w] # "none" /\ attempt'[w] = "done")
    BY <1>7 DEF Restart
  <2> QED BY <2>1, <2>2, KeysStay
<1>8. CASE UNCHANGED vars
  <2>1. Known' = Known
    BY <1>8 DEF vars, walletList, Known
  <2>2. /\ current' \in {current, NoId} /\ deleted' \subseteq deleted \cup registry
        /\ deleted \subseteq deleted' /\ UNCHANGED <<keychain, failed>>
        /\ \A w \in Ids : attempt'[w] = attempt[w]
                          \/ (attempt[w] # "none" /\ attempt'[w] = "done")
    BY <1>8 DEF vars, flow, wizard, deletion
  <2> QED BY <2>1, <2>2, KeysStay
<1> QED
  BY <1>1, <1>2, <1>3, <1>4, <1>5, <1>6, <1>7, <1>8, KeysAttempt DEF Next

THEOREM KeysAlways == Spec => []KeysInv
<1>1. Init => KeysInv
  BY LifecycleAssumption DEF Init, KeysInv, EntriesOf, PlaceOf, Known
<1>2. TypeOK /\ KeysInv /\ [Next]_vars => KeysInv'
  BY KeysStep
<1> QED BY <1>1, <1>2, TypeCorrect, PTL DEF Spec

\* Whatever is abandoned, fails late or ends with the process, and in whatever order
\* the registry's writes reach the disk, no listed wallet has lost its key.
THEOREM ListedAreKeyed == Spec => []ListedHaveKeys
<1>1. TypeOK /\ KeysInv => ListedHaveKeys
  BY DEF TypeOK, KeysInv, EntriesOf, Known, ListedHaveKeys
<1> QED BY <1>1, KeysAlways, TypeCorrect, PTL

\* An attempt that reported an error is never listed, and leaves nothing in the
\* keychain that the keychain did not refuse to delete.
THEOREM FailedAreClean == Spec => []FailedLeaveNothing
<1>1. TypeOK /\ KeysInv => FailedLeaveNothing
  BY DEF TypeOK, KeysInv, EntriesOf, PlaceOf, Known, FailedLeaveNothing
<1> QED BY <1>1, KeysAlways, TypeCorrect, PTL

(***************************************************************************)
(* Names. Uniqueness alone is not inductive: a restart lists what the disk *)
(* holds, the disk what a write carried, and the name the last screen      *)
(* uses was checked on the screen before it.                               *)
(***************************************************************************)

Unique(S) == \A v, w \in S : named[v] = named[w] => v = w

NamesInv ==
  /\ Unique(registry) /\ Unique(disk)
  /\ \A r \in writes : Unique(r)
  /\ step = "done" => \A w \in registry : named[w] # chosen

\* The names stay, and nothing is listed or on its way that was not before.
LEMMA NamesStay ==
  ASSUME NamesInv, named' = named,
         \E r \in {registry, disk} : registry' \subseteq r,
         disk' \in {disk} \cup writes,
         \A r \in writes' : r \in writes \/ r = registry',
         step' = "done" => step = "done" /\ chosen' = chosen /\ registry' = registry
  PROVE  NamesInv'
BY DEF NamesInv, Unique

LEMMA NamesStep ==
  ASSUME TypeOK, KeysInv, NamesInv, [Next]_vars
  PROVE  NamesInv'
<1> USE DEF walletList, wizard
<1>1. ASSUME NEW w \in Ids, Start(w) \/ Attempt(w)
      PROVE  NamesInv'
  <2>1. UNCHANGED <<walletList, disk>>
    BY <1>1 DEF Start, Attempt, StoreKey, StoreType, Discover, Throw, Rollback
  <2>2. UNCHANGED wizard \/ step' = "name"
    BY <1>1 DEF Start, Attempt, StoreKey, StoreType, Discover, Throw, Rollback,
                GoToWalletName
  <2> QED BY <2>1, <2>2, NamesStay
<1>2. ASSUME NEW w \in Ids, HandleDelete(w)
      PROVE  NamesInv'
  BY <1>2, NamesStay DEF HandleDelete
<1>3. ASSUME NEW w \in Ids, FinishDelete(w)
      PROVE  NamesInv'
  BY <1>3, NamesStay DEF FinishDelete, SetRegistry
<1>4. ASSUME NEW n \in Names, ContinueToSetupSuccess(n)
      PROVE  NamesInv'
  BY <1>4 DEF ContinueToSetupSuccess, NamesInv, Unique
<1>5. CASE CreateWallet
  <2>1. /\ step = "done" /\ step' = "home" /\ disk' = disk
        /\ registry' = registry \cup {current} /\ writes' = writes \cup {registry'}
        /\ named' = [named EXCEPT ![current] = chosen]
    BY <1>5 DEF CreateWallet, SetRegistry
  <2>2. current \in Ids /\ current \notin Known
    BY <2>1, LifecycleAssumption DEF TypeOK, KeysInv, PlaceOf
  <2>3. named'[current] = chosen /\ \A w \in Ids \ {current} : named'[w] = named[w]
    BY <2>1, <2>2 DEF TypeOK
  <2>4. registry \subseteq Ids \ {current} /\ disk \subseteq Ids \ {current}
        /\ \A r \in writes : r \subseteq Ids \ {current}
    BY <2>2 DEF TypeOK, Known
  <2>5. Unique(disk)' /\ \A r \in writes : \A v, w \in r : named'[v] = named'[w] => v = w
    BY <2>1, <2>3, <2>4 DEF NamesInv, Unique
  <2>6. Unique(registry)'
    <3>1. \A w \in registry : named[w] # chosen
      BY <2>1 DEF NamesInv
    <3> QED BY <2>1, <2>3, <2>4, <3>1 DEF NamesInv, Unique
  <2>7. \A r \in writes' : \A v, w \in r : named'[v] = named'[w] => v = w
    BY <2>1, <2>5, <2>6 DEF Unique
  <2> QED BY <2>1, <2>5, <2>6, <2>7 DEF NamesInv, Unique
<1>6. CASE BackToWallets \/ NewWallet \/ Lock \/ Unlock
  BY <1>6, NamesStay DEF BackToWallets, NewWallet, Lock, Unlock
<1>7. ASSUME NEW r \in SUBSET Ids, Persist(r)
      PROVE  NamesInv'
  BY <1>7, NamesStay DEF Persist
<1>8. CASE Restart
  BY <1>8, NamesStay DEF Restart
<1>9. CASE UNCHANGED vars
  BY <1>9, NamesStay DEF vars
<1> QED BY <1>1, <1>2, <1>3, <1>4, <1>5, <1>6, <1>7, <1>8, <1>9 DEF Next

\* No two listed wallets share a name, although the name is compared on one screen
\* and given on the next, and a restart may list an older registry.
THEOREM NamesStayUnique == Spec => []NamesAreUnique
<1>1. Init => NamesInv
  BY DEF Init, NamesInv, Unique
<1>2. TypeOK /\ KeysInv /\ NamesInv /\ [Next]_vars => NamesInv'
  BY NamesStep
<1>3. NamesInv => NamesAreUnique
  BY DEF NamesInv, Unique, NamesAreUnique
<1> QED BY <1>1, <1>2, <1>3, TypeCorrect, KeysAlways, PTL DEF Spec

-----------------------------------------------------------------------------
(* WalletViews *)

(***************************************************************************)
(* The operators of the discovery                                          *)
(***************************************************************************)

\* Every set of numbers that is not empty has a least one.
LEMMA LeastOne ==
  ASSUME NEW S, S \subseteq Nat, S # {}
  PROVE  \E m \in S : \A n \in S : m <= n
<1> DEFINE R == OpToRel(<, Nat)
<1>1. IsWellFoundedOn(R, Nat)
  BY NatLessThanWellFounded
<1>2. PICK m \in S : \A n \in S : ~ (<<n, m>> \in R)
  <2> HIDE DEF R
  <2> QED BY <1>1, WFMin
<1>3. ASSUME NEW n \in S PROVE m <= n
  <2>1. n \in Nat /\ m \in Nat
    OBVIOUS
  <2>2. CASE n < m
    <3>1. <<n, m>> \in { s \in Nat \X Nat : s[1] < s[2] }
      BY <2>1, <2>2
    <3>2. R = { s \in Nat \X Nat : s[1] < s[2] }
      BY DEF OpToRel
    <3> HIDE DEF R
    <3> QED BY <3>1, <3>2, <1>2
  <2> QED BY <2>1, <2>2
<1> QED BY <1>3

\* The sets of addresses a discovery may be told of.
Seen == { s \in SUBSET Nat : IsFiniteSet(s) }

LEMMA GapType == GAP_LIMIT \in Nat /\ GAP_LIMIT >= 1
BY ViewsAssumption

\* The gap before n: GAP_LIMIT addresses in a row.
Gap(n) == (n - GAP_LIMIT) .. (n - 1)

LEMMA NatTimesNat == \A a, b \in Nat : a * b \in Nat
OBVIOUS

LEMMA NextMultiple == \A a, b \in Nat : (a + 1) * b = a * b + b
OBVIOUS

LEMMA Monotone == \A a, b, c \in Nat : a <= b => a * c <= b * c
<1> SUFFICES ASSUME NEW a \in Nat, NEW b \in Nat, NEW c \in Nat, a <= b
             PROVE  a * c <= b * c
  OBVIOUS
<1>1. b - a \in Nat /\ b = a + (b - a)
  OBVIOUS
<1>2. b * c = a * c + (b - a) * c
  BY <1>1
<1> QED BY <1>1, <1>2, NatTimesNat

\* Among one more gap than there are addresses seen, one holds none of them.
LEMMA SomeGapIsFree ==
  ASSUME NEW seen \in Seen
  PROVE  \E n \in GAP_LIMIT .. GAP_LIMIT * (Cardinality(seen) + 1) : seen \cap Gap(n) = {}
<1> DEFINE size == Cardinality(seen)
           end(k) == (k + 1) * GAP_LIMIT
<1>1. size \in Nat /\ IsFiniteSet(seen) /\ seen \subseteq Nat
  BY FS_CardinalityType DEF Seen
<1>2. ASSUME NEW k \in 0..size
      PROVE  /\ end(k) \in GAP_LIMIT .. GAP_LIMIT * (size + 1)
             /\ end(k) = k * GAP_LIMIT + GAP_LIMIT /\ k * GAP_LIMIT \in Nat
  <2>1. /\ end(k) = k * GAP_LIMIT + GAP_LIMIT /\ k * GAP_LIMIT \in Nat
    BY <1>1, GapType, NatTimesNat, NextMultiple
  <2>2. k + 1 \in Nat /\ size + 1 \in Nat /\ k + 1 <= size + 1
    BY <1>1
  <2>3. (k + 1) * GAP_LIMIT <= (size + 1) * GAP_LIMIT
    BY <2>2, GapType, Monotone
  <2>4. (size + 1) * GAP_LIMIT = GAP_LIMIT * (size + 1) /\ GAP_LIMIT * (size + 1) \in Nat
    BY <2>2, GapType
  <2> QED BY <2>1, <2>3, <2>4, GapType
<1>3. SUFFICES ASSUME \A k \in 0..size : seen \cap Gap(end(k)) # {}
               PROVE  FALSE
  BY <1>2
<1> DEFINE f == [k \in 0..size |-> CHOOSE x \in seen : x \in Gap(end(k))]
<1>4. \A k \in 0..size : f[k] \in seen /\ f[k] \in Gap(end(k))
  BY <1>3
<1>5. f \in [0..size -> seen]
  BY <1>4
<1>6. IsFiniteSet(0..size) /\ Cardinality(seen) < Cardinality(0..size)
  BY <1>1, FS_Interval
<1>7. PICK j \in 0..size, k \in 0..size : j # k /\ f[j] = f[k]
  <2> HIDE DEF f
  <2> QED BY <1>1, <1>5, <1>6, FS_PigeonHole
<1>8. ASSUME NEW a \in 0..size, NEW b \in 0..size, a < b PROVE f[a] # f[b]
  <2>1. f[a] <= end(a) - 1 /\ f[b] >= end(b) - GAP_LIMIT /\ f[a] \in Nat /\ f[b] \in Nat
    <3>1. /\ f[a] \in Gap(end(a)) /\ f[b] \in Gap(end(b))
          /\ f[a] \in Nat /\ f[b] \in Nat
      BY <1>1, <1>4
    <3>2. end(a) \in Nat /\ end(b) \in Nat
      BY <1>2, GapType
    <3> HIDE DEF f, end
    <3> QED BY <3>1, <3>2, GapType DEF Gap
  <2>2. end(a) \in Nat /\ end(b) \in Nat /\ end(b) - GAP_LIMIT = b * GAP_LIMIT
        /\ b * GAP_LIMIT \in Nat
    BY <1>2, GapType
  <2>3. (a + 1) * GAP_LIMIT <= b * GAP_LIMIT
    <3>1. a + 1 \in Nat /\ b \in Nat /\ a + 1 <= b
      BY <1>1, <1>8
    <3> QED BY <3>1, GapType, Monotone
  <2> HIDE DEF f
  <2> QED BY <2>1, <2>2, <2>3
<1> HIDE DEF f
<1> QED BY <1>1, <1>7, <1>8

\* Scanned is the first end of a free gap.
THEOREM ScannedIsFirst ==
  ASSUME NEW seen \in Seen
  PROVE  /\ Scanned(seen) \in GAP_LIMIT .. GAP_LIMIT * (Cardinality(seen) + 1)
         /\ seen \cap Gap(Scanned(seen)) = {}
         /\ \A n \in Nat : n >= GAP_LIMIT /\ seen \cap Gap(n) = {} => Scanned(seen) <= n
<1> DEFINE S == { n \in Nat : n >= GAP_LIMIT /\ seen \cap Gap(n) = {} }
           top == GAP_LIMIT * (Cardinality(seen) + 1)
           IsFirst(n) == /\ seen \cap (n - GAP_LIMIT) .. (n - 1) = {}
                         /\ \A m \in GAP_LIMIT .. (n - 1) :
                              seen \cap (m - GAP_LIMIT) .. (m - 1) # {}
<1>0. top \in Nat
  <2>1. Cardinality(seen) + 1 \in Nat
    BY FS_CardinalityType DEF Seen
  <2> QED BY <2>1, GapType, NatTimesNat
<1>1. PICK n0 \in GAP_LIMIT .. top : seen \cap Gap(n0) = {}
  BY SomeGapIsFree
<1>2. n0 \in S /\ n0 <= top
  BY <1>0, <1>1, GapType
<1>3. PICK m \in S : \A n \in S : m <= n
  BY <1>2, LeastOne
<1>4. m \in GAP_LIMIT .. top
  BY <1>0, <1>2, <1>3, GapType
<1>5. IsFirst(m)
  <2>1. \A n \in GAP_LIMIT .. (m - 1) : n \notin S /\ n \in Nat /\ n >= GAP_LIMIT
    BY <1>3, <1>4, GapType
  <2> QED BY <1>3, <2>1 DEF Gap
<1>6. Scanned(seen) = CHOOSE n \in GAP_LIMIT .. top : IsFirst(n)
  BY DEF Scanned
<1> HIDE DEF IsFirst
<1>7. Scanned(seen) \in GAP_LIMIT .. top /\ IsFirst(Scanned(seen))
  BY <1>4, <1>5, <1>6
<1>8. \A n \in Nat : n >= GAP_LIMIT /\ seen \cap Gap(n) = {} => Scanned(seen) <= n
  <2> SUFFICES ASSUME NEW n \in Nat, n >= GAP_LIMIT, seen \cap Gap(n) = {},
                      ~(Scanned(seen) <= n)
               PROVE  FALSE
    OBVIOUS
  <2>1. n \in GAP_LIMIT .. (Scanned(seen) - 1)
    BY <1>0, <1>7, GapType
  <2> QED BY <1>7, <2>1 DEF IsFirst, Gap
<1> QED BY <1>7, <1>8 DEF IsFirst, Gap

LEMMA ScannedIsNat ==
  ASSUME NEW seen \in Seen
  PROVE  /\ Scanned(seen) \in Nat /\ Scanned(seen) >= 1
         /\ Scanned(seen) - 1 \in Nat /\ Scanned(seen) - 1 \notin seen
<1>1. Scanned(seen) \in Nat /\ Scanned(seen) >= GAP_LIMIT
  <2>1. GAP_LIMIT * (Cardinality(seen) + 1) \in Int
    BY FS_CardinalityType, GapType DEF Seen
  <2> QED BY <2>1, ScannedIsFirst, GapType
<1>2. Scanned(seen) - 1 \in Gap(Scanned(seen))
  BY <1>1, GapType DEF Gap
<1> QED BY <1>1, <1>2, ScannedIsFirst, GapType

\* The more addresses have been used, the further a discovery goes.
THEOREM ScannedGrows ==
  ASSUME NEW seen \in Seen, NEW more \in Seen, seen \subseteq more
  PROVE  Scanned(seen) <= Scanned(more)
<1>1. seen \cap Gap(Scanned(more)) = {}
  BY ScannedIsFirst
<1>2. Scanned(more) \in Nat /\ Scanned(more) >= GAP_LIMIT
  <2>1. GAP_LIMIT * (Cardinality(more) + 1) \in Int
    BY FS_CardinalityType, GapType DEF Seen
  <2> QED BY <2>1, ScannedIsFirst, GapType
<1> QED BY <1>1, <1>2, ScannedIsFirst

\* The receive address is the first unused one, and a discovery reaches it.
LEMMA ReceiveIsReached ==
  ASSUME NEW seen \in Seen
  PROVE  /\ receiveAddress(seen) \in Nat /\ receiveAddress(seen) \notin seen
         /\ receiveAddress(seen) < Scanned(seen)
<1> DEFINE S == Nat \ seen
           IsUnused(i) == i \notin seen /\ \A j \in 0 .. (i - 1) : j \in seen
<1>1. Scanned(seen) - 1 \in S /\ Scanned(seen) \in Nat
  BY ScannedIsNat
<1>2. PICK m \in S : \A n \in S : m <= n
  BY <1>1, LeastOne
<1>3. m \in Nat /\ IsUnused(m)
  BY <1>2
<1>4. m <= Cardinality(seen)
  <2>1. IsFiniteSet(seen) /\ Cardinality(seen) \in Nat
    BY FS_CardinalityType DEF Seen
  <2>2. 0 .. (m - 1) \in SUBSET seen
    BY <1>3
  <2>3. Cardinality(0 .. (m - 1)) = m
    BY <1>3, FS_Interval
  <2> QED BY <2>1, <2>2, <2>3, FS_Subset
<1>5. Cardinality(seen) \in Nat
  BY FS_CardinalityType DEF Seen
<1>6. receiveAddress(seen) = CHOOSE i \in 0 .. Cardinality(seen) : IsUnused(i)
  BY DEF receiveAddress
<1> HIDE DEF IsUnused
<1>7. receiveAddress(seen) \in 0 .. Cardinality(seen) /\ IsUnused(receiveAddress(seen))
  BY <1>3, <1>4, <1>5, <1>6
<1>8. receiveAddress(seen) \in Nat /\ receiveAddress(seen) \notin seen
  BY <1>7 DEF IsUnused
<1>9. ~(Scanned(seen) - 1 \in 0 .. (receiveAddress(seen) - 1))
  BY <1>1, <1>7 DEF IsUnused
<1> QED BY <1>1, <1>8, <1>9

\* Whatever was stored, the address that is maintained is unused and reached.
LEMMA MaintainedIsReached ==
  ASSUME NEW seen \in Seen, NEW stored, stored # None => stored \in Nat
  PROVE  LET i == resolveMaintainedReceiveAddress(seen, stored)
         IN  i \in Nat /\ i \notin seen /\ i < Scanned(seen)
BY ReceiveIsReached DEF resolveMaintainedReceiveAddress

\* Another address is reached; it is the one shown only when that is unused.
LEMMA AnotherIsReached ==
  ASSUME NEW seen \in Seen, NEW shown, shown # None => shown \in Nat
  PROVE  LET i == anotherAddress(seen, shown)
         IN  /\ i \in Nat /\ i < Scanned(seen)
             /\ shown # None /\ shown < Scanned(seen) /\ i = shown => i \notin seen
<1> DEFINE from == IF shown # None /\ shown < Scanned(seen) THEN shown
                   ELSE receiveAddress(seen)
           i == anotherAddress(seen, shown)
<1>1. /\ Scanned(seen) \in Nat /\ Scanned(seen) >= 1
      /\ Scanned(seen) - 1 \in Nat /\ Scanned(seen) - 1 \notin seen
  BY ScannedIsNat
<1>2. from \in Nat /\ from < Scanned(seen)
  BY ReceiveIsReached
<1>3. i = IF from + 1 < Scanned(seen) THEN from + 1 ELSE Scanned(seen) - 1
  BY DEF anotherAddress
<1>4. shown # None /\ shown < Scanned(seen) => from = shown
  OBVIOUS
<1> HIDE DEF from, i
<1>5. i \in Nat /\ i < Scanned(seen)
  BY <1>1, <1>2, <1>3
<1>6. ASSUME shown # None, shown < Scanned(seen), i = shown PROVE i \notin seen
  BY <1>1, <1>2, <1>3, <1>4, <1>6
<1> QED BY <1>5, <1>6 DEF i

\* A bound on the payments bounds the addresses of a wallet, and what is reached.
LEMMA UsedIsSeen ==
  ASSUME NEW w, NEW U, {w} \X U \subseteq Payable
  PROVE  U \in Seen /\ Cardinality(U) <= Cardinality(Payable) /\ Cardinality(Payable) \in Nat
<1> DEFINE f == [x \in U |-> <<w, x>>]
<1>1. f \in Injection(U, Payable)
  <2>1. f \in [U -> Payable]
    OBVIOUS
  <2>2. IsInjective(f)
    BY DEF IsInjective
  <2> QED BY <2>1, <2>2 DEF Injection
<1>2. IsFiniteSet(Payable)
  BY ViewsAssumption
<1> HIDE DEF f
<1>3. IsFiniteSet(U) /\ Cardinality(U) <= Cardinality(Payable)
  BY <1>1, <1>2, FS_Injection
<1>4. \A x \in U : <<w, x>> \in Payable /\ x \in Nat
  BY ViewsAssumption
<1> QED BY <1>2, <1>3, <1>4, FS_CardinalityType DEF Seen

LEMMA ReachedIsIndex ==
  ASSUME NEW w, NEW U, {w} \X U \subseteq Payable, NEW seen \in SUBSET U
  PROVE  /\ seen \in Seen /\ Scanned(seen) <= Scanned(U)
         /\ \A i \in Nat : i < Scanned(seen) => i \in Indices /\ i < Scanned(U)
<1>1. /\ U \in Seen /\ Cardinality(U) <= Cardinality(Payable)
      /\ Cardinality(Payable) \in Nat /\ Cardinality(U) \in Nat
  BY UsedIsSeen, FS_CardinalityType DEF Seen
<1>2. seen \in Seen
  BY <1>1, FS_Subset DEF Seen
<1>3. Scanned(seen) <= Scanned(U)
  BY <1>1, <1>2, ScannedGrows
<1>4. Scanned(seen) \in Nat /\ Scanned(U) \in Nat
  BY <1>1, <1>2, ScannedIsNat
<1>5. Scanned(U) <= GAP_LIMIT * (Cardinality(Payable) + 1)
  <2>1. Cardinality(U) + 1 \in Nat /\ Cardinality(Payable) + 1 \in Nat
    BY <1>1
  <2>2. (Cardinality(U) + 1) * GAP_LIMIT <= (Cardinality(Payable) + 1) * GAP_LIMIT
    BY <1>1, <2>1, GapType, Monotone
  <2>3. /\ GAP_LIMIT * (Cardinality(U) + 1) = (Cardinality(U) + 1) * GAP_LIMIT
        /\ GAP_LIMIT * (Cardinality(Payable) + 1) = (Cardinality(Payable) + 1) * GAP_LIMIT
        /\ GAP_LIMIT * (Cardinality(U) + 1) \in Nat
        /\ GAP_LIMIT * (Cardinality(Payable) + 1) \in Nat
    BY <2>1, GapType, NatTimesNat
  <2>4. Scanned(U) <= GAP_LIMIT * (Cardinality(U) + 1)
    BY <1>1, <1>4, <2>3, ScannedIsFirst
  <2> QED BY <1>4, <2>2, <2>3, <2>4
<1>6. GAP_LIMIT * (Cardinality(Payable) + 1) \in Nat
  <2>1. Cardinality(Payable) + 1 \in Nat
    BY <1>1
  <2> QED BY <2>1, GapType, NatTimesNat
<1> QED BY <1>2, <1>3, <1>4, <1>5, <1>6 DEF Indices

(***************************************************************************)
(* Types                                                                   *)
(***************************************************************************)

Stored == Indices \cup {None}
LoadRecords == [by : Screens, wallet : Wallets, captured : Stored,
                live : BOOLEAN, current : BOOLEAN]
Details == [wallet : Wallets \cup {None}, page : {"wallet", "page"},
            derived : Wallets \cup {None}, discovering : BOOLEAN]
Receives == [wallet : Wallets \cup {None}, shown : Stored,
             loading : BOOLEAN, generating : BOOLEAN, sound : BOOLEAN]
AddressLists == [open : BOOLEAN, derived : Wallets \cup {None}, refreshing : BOOLEAN]

ViewFields ==
  /\ platform \in {"mobile", "desktop"}
  /\ used \in [Wallets -> SUBSET Nat]
  /\ \A w \in Wallets : {w} \X used[w] \subseteq Payable
  /\ next \in [Wallets -> Stored]
  /\ balance \in [Wallets -> Wallets \cup {None}]
  /\ active \in Wallets \cup {None}
  /\ list \in [mounted : BOOLEAN, refreshing : SUBSET Wallets]
  /\ detail \in Details /\ receive \in Receives /\ addressList \in AddressLists
  /\ loads \subseteq LoadRecords

\* The wallet's screen is the active wallet's; only an open one is loaded, and on
\* mobile alone the address list is over it.
ScreensInv ==
  /\ detail.wallet # None => active = detail.wallet
  /\ detail.derived # None => detail.wallet # None
  /\ \A l \in loads : l.by = "detail" /\ l.live => detail.wallet # None
  /\ addressList.open => platform = "mobile" /\ detail.wallet # None

LEMMA LoadFields ==
  ASSUME NEW by, NEW w, NEW i
  PROVE  /\ Load(by, w, i).by = by /\ Load(by, w, i).wallet = w
         /\ Load(by, w, i).captured = i /\ Load(by, w, i).live /\ Load(by, w, i).current
         /\ by \in Screens /\ w \in Wallets /\ i \in Stored => Load(by, w, i) \in LoadRecords
BY DEF Load, LoadRecords

LEMMA NoScreens ==
  /\ NoDetail \in Details /\ NoReceive \in Receives /\ NoAddressList \in AddressLists
  /\ NoDetail.wallet = None /\ NoDetail.derived = None
  /\ NoReceive.wallet = None /\ ~NoReceive.sound
  /\ ~NoAddressList.open /\ NoAddressList.derived = None
BY DEF NoDetail, NoReceive, NoAddressList, Details, Receives, AddressLists, Stored

\* Cancelling leaves the loads of other screens as they are, and of its own only
\* those that still store an address, no longer live.
LEMMA CancelledLoads ==
  ASSUME NEW ls \in SUBSET LoadRecords, NEW whose
  PROVE  /\ Cancelled(ls, whose) \subseteq LoadRecords
         /\ \A k \in Cancelled(ls, whose) :
              \/ k \in ls /\ k.by \notin whose
              \/ ~k.live /\ k.by \in whose /\ k.by \notin {"list", "receive", "addresses"}
         /\ \A l \in ls : l.by \notin whose => l \in Cancelled(ls, whose)
<1> DEFINE Out(l) == IF l.by \in whose THEN [l EXCEPT !.live = FALSE] ELSE l
           Kept == { k \in ls : ~(k.by \in whose /\ k.by \in {"list", "receive", "addresses"}) }
<1>1. Cancelled(ls, whose) = { Out(l) : l \in Kept }
  BY DEF Cancelled
<1>2. ASSUME NEW l \in Kept
      PROVE  /\ Out(l) \in LoadRecords
             /\ \/ Out(l) \in ls /\ Out(l).by \notin whose
                \/ /\ ~Out(l).live /\ Out(l).by \in whose
                   /\ Out(l).by \notin {"list", "receive", "addresses"}
  <2>1. l \in ls /\ l \in LoadRecords
    OBVIOUS
  <2>2. CASE l.by \in whose
    <3>1. /\ [l EXCEPT !.live = FALSE] \in LoadRecords
          /\ [l EXCEPT !.live = FALSE].by = l.by /\ ~[l EXCEPT !.live = FALSE].live
      BY <2>1 DEF LoadRecords
    <3> QED BY <2>1, <2>2, <3>1
  <2>3. CASE l.by \notin whose
    BY <2>1, <2>3
  <2> QED BY <2>2, <2>3
<1>3. \A l \in ls : l.by \notin whose => l \in Kept /\ Out(l) = l
  OBVIOUS
<1> HIDE DEF Out, Kept
<1> QED BY <1>1, <1>2, <1>3

\* What Commit makes of the screens, of the entry and of the loads.
LEMMA Committed ==
  ASSUME NEW w \in Wallets, NEW i \in Stored, NEW d \in Details, NEW r \in Receives,
         NEW ls \in SUBSET LoadRecords, next \in [Wallets -> Stored],
         Commit(w, i, d, r, ls)
  PROVE  /\ next' = [next EXCEPT ![w] = i] /\ next' \in [Wallets -> Stored]
         /\ detail' \in Details
         /\ detail'.wallet = d.wallet /\ detail'.derived = d.derived
         /\ receive' \in Receives /\ receive'.wallet = r.wallet
         /\ receive'.generating = r.generating /\ receive'.sound = r.sound
         /\ receive'.shown = IF next[w] # i /\ r.wallet = w THEN i ELSE r.shown
         /\ loads' \subseteq LoadRecords
         /\ \A l \in loads' :
              \/ l \in ls
              \/ l = Load("detail", w, i) /\ d.wallet = w
              \/ l = Load("receive", w, i) /\ r.wallet = w
         /\ next[w] # i /\ r.wallet = w => Load("receive", w, i) \in loads'
         /\ ~(next[w] # i /\ r.wallet = w) => ls \subseteq loads'
         /\ \A l \in ls : l.by # "receive" => l \in loads'
<1> DEFINE changed == next[w] # i
           again == changed /\ d.wallet = w
           anew == changed /\ r.wallet = w
           rest == IF anew THEN Cancelled(ls, {"receive"}) ELSE ls
<1>1. /\ next' = [next EXCEPT ![w] = i]
      /\ detail' = [d EXCEPT !.discovering = @ \/ again]
      /\ receive' = [r EXCEPT !.shown = IF changed /\ r.wallet = w THEN i ELSE @,
                              !.loading = @ \/ anew]
      /\ loads' = rest \cup (IF again THEN {Load("detail", w, i)} ELSE {})
                       \cup (IF anew THEN {Load("receive", w, i)} ELSE {})
  BY DEF Commit, RunsFor
<1>2. next' \in [Wallets -> Stored]
  BY <1>1
<1>3. /\ detail' \in Details
      /\ detail'.wallet = d.wallet /\ detail'.derived = d.derived
  BY <1>1 DEF Details
<1>4. /\ receive' \in Receives /\ receive'.wallet = r.wallet
      /\ receive'.generating = r.generating /\ receive'.sound = r.sound
      /\ receive'.shown = IF changed /\ r.wallet = w THEN i ELSE r.shown
  BY <1>1 DEF Receives
<1>5. /\ rest \subseteq LoadRecords
      /\ \A l \in rest : l \in ls
      /\ \A l \in ls : l.by # "receive" => l \in rest
  BY CancelledLoads
<1>6. Load("detail", w, i) \in LoadRecords /\ Load("receive", w, i) \in LoadRecords
  BY LoadFields DEF Screens, ReceiveLoads
<1>7. loads' \subseteq LoadRecords
  BY <1>1, <1>5, <1>6
<1> HIDE DEF rest
<1>8. /\ \A l \in loads' :
           \/ l \in ls
           \/ l = Load("detail", w, i) /\ d.wallet = w
           \/ l = Load("receive", w, i) /\ r.wallet = w
      /\ next[w] # i /\ r.wallet = w => Load("receive", w, i) \in loads'
      /\ \A l \in ls : l.by # "receive" => l \in loads'
  BY <1>1, <1>5
<1>9. ~(next[w] # i /\ r.wallet = w) => ls \subseteq loads'
  BY <1>1 DEF rest
<1> QED BY <1>1, <1>2, <1>3, <1>4, <1>7, <1>8, <1>9

-----------------------------------------------------------------------------
(* How a discovery ends *)

\* i is the address w has already, or one that a discovery of w reaches.
Reached(w, i) == i = next[w] \/ (i \in Nat /\ i < Scanned(used[w]))

LEMMA SeenOfUsed ==
  ASSUME ViewFields, NEW l \in loads, NEW seen \in SUBSET used[l.wallet]
  PROVE  /\ l \in LoadRecords /\ l.wallet \in Wallets /\ l.captured \in Stored
         /\ l.captured # None => l.captured \in Nat
         /\ next[l.wallet] \in Stored
         /\ seen \in Seen
         /\ \A i \in Nat : i < Scanned(seen) => i \in Stored /\ Reached(l.wallet, i)
<1>1. /\ l \in LoadRecords /\ l.wallet \in Wallets /\ l.captured \in Stored
      /\ next[l.wallet] \in Stored
  BY DEF ViewFields, LoadRecords
<1>2. {l.wallet} \X used[l.wallet] \subseteq Payable
  BY <1>1 DEF ViewFields
<1>3. /\ seen \in Seen
      /\ \A i \in Nat : i < Scanned(seen) => i \in Indices /\ i < Scanned(used[l.wallet])
  <2>1. ASSUME NEW w, NEW U, {w} \X U \subseteq Payable, seen \in SUBSET U
        PROVE  /\ seen \in Seen
               /\ \A i \in Nat : i < Scanned(seen) => i \in Indices /\ i < Scanned(U)
    BY <2>1, ReachedIsIndex
  <2> QED BY <1>2, <2>1
<1>4. \A i \in Indices : i \in Nat
  BY DEF Indices
<1> QED BY <1>1, <1>3, <1>4 DEF Stored, Reached

\* A load of a screen on useWalletDetailFlow: what it sets is its own wallet or nothing.
LEMMA DetailCommits ==
  ASSUME ViewFields, NEW l \in loads, NEW seen \in SUBSET used[l.wallet],
         DetailLoaded(l, seen) \/ DetailFailed(l)
  PROVE  /\ l.by = "detail" /\ UNCHANGED <<balance, list, addressList>>
         /\ \E i \in Stored, d \in Details :
              /\ Commit(l.wallet, i, d, receive, loads \ {l})
              /\ Reached(l.wallet, i)
              /\ d.wallet = detail.wallet /\ d.page = detail.page
              /\ d.derived = detail.derived \/ (l.live /\ d.derived \in {l.wallet, None})
<1>1. PICK i, derived :
        /\ DetailEnds(l, derived, i) /\ l.by = "detail"
        /\ i \in Stored /\ Reached(l.wallet, i) /\ derived \in {l.wallet, None}
  <2>1. next[l.wallet] \in Stored /\ Reached(l.wallet, next[l.wallet])
    <3>1. Reached(l.wallet, next[l.wallet])
      BY DEF Reached
    <3> QED BY <3>1, SeenOfUsed
  <2>2. CASE DetailFailed(l)
    BY <2>1, <2>2 DEF DetailFailed
  <2>3. CASE DetailLoaded(l, seen)
    <3> DEFINE a == resolveMaintainedReceiveAddress(seen, l.captured)
    <3>1. a \in Stored /\ Reached(l.wallet, a)
      BY SeenOfUsed, MaintainedIsReached
    <3>2. /\ DetailEnds(l, l.wallet, IF a = l.captured THEN next[l.wallet] ELSE a)
          /\ l.by = "detail"
      BY <2>3 DEF DetailLoaded
    <3> HIDE DEF a
    <3> QED BY <2>1, <3>1, <3>2
  <2> QED BY <2>2, <2>3
<1> DEFINE d == IF l.live
                THEN [detail EXCEPT !.derived = derived, !.discovering = FALSE]
                ELSE detail
<1>2. /\ Commit(l.wallet, i, d, receive, loads \ {l})
      /\ UNCHANGED <<balance, list, addressList>>
  BY <1>1 DEF DetailEnds
<1>3. /\ d \in Details /\ d.wallet = detail.wallet /\ d.page = detail.page
      /\ d.derived = detail.derived \/ (l.live /\ d.derived \in {l.wallet, None})
  <2>1. detail \in Details /\ derived \in Wallets \cup {None}
    BY <1>1, SeenOfUsed DEF ViewFields
  <2>2. CASE l.live
    BY <1>1, <2>1, <2>2 DEF Details
  <2>3. CASE ~l.live
    <3>1. d = detail
      BY <2>3
    <3> HIDE DEF d
    <3> QED BY <2>1, <3>1
  <2> QED BY <2>2, <2>3
<1> HIDE DEF d
<1> QED BY <1>1, <1>2, <1>3

\* A load of the receive screen: the current one sets an address that was not seen used.
LEMMA ReceiveCommits ==
  ASSUME ViewFields, NEW l \in loads, NEW seen \in SUBSET used[l.wallet],
         ReceiveLoaded(l, seen)
  PROVE  /\ l.by = "receive" /\ UNCHANGED <<balance, list, addressList>>
         /\ \E i \in Stored, r \in Receives :
              /\ Commit(l.wallet, i, detail, r, loads \ {l})
              /\ Reached(l.wallet, i)
              /\ r.wallet = receive.wallet /\ r.generating = receive.generating
              /\ r.sound => seen = used[l.wallet]
              /\ \/ i \notin seen /\ r.shown = i
                 \/ /\ ~l.current /\ i = next[l.wallet] /\ r.shown = receive.shown
                    /\ r.sound => receive.sound
<1> DEFINE a == resolveMaintainedReceiveAddress(seen, l.captured)
           s == seen = used[l.wallet] /\ (receive.sound \/ l.current)
           r == [receive EXCEPT !.loading = FALSE, !.sound = s]
           rr == [r EXCEPT !.shown = a]
<1>1. a \in Stored /\ Reached(l.wallet, a) /\ a \notin seen
  BY SeenOfUsed, MaintainedIsReached
<1>2. next[l.wallet] \in Stored /\ Reached(l.wallet, next[l.wallet])
  <2>1. Reached(l.wallet, next[l.wallet])
    BY DEF Reached
  <2> QED BY <2>1, SeenOfUsed
<1>3. /\ l.by = "receive" /\ UNCHANGED <<balance, list, addressList>>
      /\ l.current => Commit(l.wallet, a, detail, rr, loads \ {l})
      /\ ~l.current => Commit(l.wallet, next[l.wallet], detail, r, loads \ {l})
  BY DEF ReceiveLoaded
<1> HIDE DEF a
<1>4. receive \in Receives /\ s \in BOOLEAN
  BY DEF ViewFields
<1> HIDE DEF s
<1>5. /\ r \in Receives /\ r.wallet = receive.wallet /\ r.generating = receive.generating
      /\ r.sound = s /\ r.shown = receive.shown
  BY <1>4 DEF Receives
<1>6. /\ rr \in Receives /\ rr.wallet = receive.wallet
      /\ rr.generating = receive.generating /\ rr.sound = s /\ rr.shown = a
  <2> HIDE DEF r
  <2> QED BY <1>1, <1>5 DEF Receives
<1> HIDE DEF r, rr
<1>7. CASE l.current
  BY <1>1, <1>3, <1>6, <1>7 DEF s
<1>8. CASE ~l.current
  BY <1>2, <1>3, <1>5, <1>8 DEF s
<1> QED BY <1>7, <1>8

\* A load for another address stores it; the screen shows it when it is still there.
LEMMA AnotherCommits ==
  ASSUME ViewFields, NEW l \in loads, NEW seen \in SUBSET used[l.wallet],
         AnotherLoaded(l, seen)
  PROVE  /\ l.by = "another" /\ UNCHANGED <<balance, list, addressList>>
         /\ \E i \in Stored, r \in Receives :
              /\ Commit(l.wallet, i, detail, r, loads \ {l})
              /\ i \in Nat /\ Reached(l.wallet, i) /\ i < Scanned(seen)
              /\ r.wallet = receive.wallet
              /\ i = l.captured => i \notin seen
              /\ \/ ~l.live /\ r = receive
                 \/ /\ l.live /\ r.shown = i /\ ~r.generating
                    /\ r.sound => receive.sound /\ seen = used[l.wallet]
<1> DEFINE i == anotherAddress(seen, l.captured)
           s == receive.sound /\ seen = used[l.wallet]
           r == [receive EXCEPT !.generating = FALSE, !.shown = i, !.sound = s]
<1>1. /\ i \in Nat /\ i < Scanned(seen) /\ i \in Stored /\ Reached(l.wallet, i)
      /\ i = l.captured => i \notin seen
  <2>1. /\ i \in Nat /\ i < Scanned(seen)
        /\ l.captured # None /\ l.captured < Scanned(seen) /\ i = l.captured => i \notin seen
    BY SeenOfUsed, AnotherIsReached
  <2>2. \A n \in Nat : n # None
    BY ViewsAssumption
  <2> HIDE DEF i
  <2> QED BY <2>1, <2>2, SeenOfUsed
<1>2. /\ l.by = "another" /\ UNCHANGED <<balance, list, addressList>>
      /\ l.live => Commit(l.wallet, i, detail, r, loads \ {l})
      /\ ~l.live => Commit(l.wallet, i, detail, receive, loads \ {l})
  BY DEF AnotherLoaded
<1> HIDE DEF i
<1>3. receive \in Receives /\ s \in BOOLEAN
  BY DEF ViewFields
<1> HIDE DEF s
<1>4. /\ r \in Receives /\ r.wallet = receive.wallet /\ ~r.generating
      /\ r.sound = s /\ r.shown = i
  BY <1>1, <1>3 DEF Receives
<1> HIDE DEF r
<1>5. CASE l.live
  BY <1>1, <1>2, <1>4, <1>5 DEF s
<1>6. CASE ~l.live
  BY <1>1, <1>2, <1>3, <1>6
<1> QED BY <1>5, <1>6

\* A failed load of the receive screen leaves no sound screen.
LEMMA ScreenLoadFails ==
  ASSUME ViewFields, NEW l \in loads, ReceiveFailed(l) \/ AnotherFailed(l)
  PROVE  /\ UNCHANGED <<next, balance, list, detail, addressList>> /\ loads' = loads \ {l}
         /\ receive' \in Receives /\ receive'.wallet = receive.wallet
         /\ \/ l.by = "receive" /\ ~receive'.sound /\ receive'.generating = receive.generating
            \/ l.by = "another" /\ l.live /\ ~receive'.sound
            \/ l.by = "another" /\ ~l.live /\ receive' = receive
<1>1. receive \in Receives
  BY DEF ViewFields
<1>2. CASE ReceiveFailed(l)
  BY <1>1, <1>2 DEF ReceiveFailed, Receives, Stored
<1>3. CASE AnotherFailed(l) /\ l.live
  BY <1>1, <1>3 DEF AnotherFailed, Receives
<1>4. CASE AnotherFailed(l) /\ ~l.live
  BY <1>1, <1>4 DEF AnotherFailed
<1> QED BY <1>2, <1>3, <1>4

\* What the end of any load leaves: types, and whose answer went where.
LEMMA LoadEnded ==
  ASSUME ViewFields, NEW l \in loads, Ends(l)
  PROVE  /\ ViewFields' /\ UNCHANGED <<platform, used, active>>
         /\ \E i : Reached(l.wallet, i) /\ next' = [next EXCEPT ![l.wallet] = i]
         /\ balance' = balance \/ balance' = [balance EXCEPT ![l.wallet] = l.wallet]
         /\ detail'.wallet = detail.wallet
         /\ \/ detail'.derived = detail.derived
            \/ l.by = "detail" /\ l.live /\ detail'.derived \in {l.wallet, None}
         /\ addressList'.open = addressList.open
         /\ \/ addressList'.derived = addressList.derived
            \/ l.by = "addresses" /\ addressList'.derived = l.wallet
         /\ \A k \in loads' :
              k \in loads \/ (k.by = "detail" /\ k.wallet = detail.wallet) \/ k.by = "receive"
<1> DEFINE Entry == \E i : Reached(l.wallet, i) /\ next' = [next EXCEPT ![l.wallet] = i]
           Goal == /\ ViewFields' /\ Entry
                   /\ balance' = balance \/ balance' = [balance EXCEPT ![l.wallet] = l.wallet]
                   /\ detail'.wallet = detail.wallet
                   /\ \/ detail'.derived = detail.derived
                      \/ l.by = "detail" /\ l.live /\ detail'.derived \in {l.wallet, None}
                   /\ addressList'.open = addressList.open
                   /\ \/ addressList'.derived = addressList.derived
                      \/ l.by = "addresses" /\ addressList'.derived = l.wallet
                   /\ \A k \in loads' : \/ k \in loads
                                        \/ k.by = "detail" /\ k.wallet = detail.wallet
                                        \/ k.by = "receive"
<1>1. /\ l \in LoadRecords /\ l.wallet \in Wallets /\ l.captured \in Stored
      /\ next \in [Wallets -> Stored] /\ loads \subseteq LoadRecords
      /\ detail \in Details /\ receive \in Receives /\ addressList \in AddressLists
      /\ list \in [mounted : BOOLEAN, refreshing : SUBSET Wallets]
      /\ balance \in [Wallets -> Wallets \cup {None}]
  BY DEF ViewFields, LoadRecords
<1>2. UNCHANGED <<platform, used, active>>
  BY DEF Ends
<1> SUFFICES Goal
  BY <1>2
<1>3. ASSUME UNCHANGED next PROVE Entry
  <2>1. Reached(l.wallet, next[l.wallet])
    BY DEF Reached
  <2>2. next' = [next EXCEPT ![l.wallet] = next[l.wallet]]
    BY <1>1, <1>3
  <2> QED BY <2>1, <2>2
\* A step that commits.
<1>4. ASSUME NEW i \in Stored, NEW d \in Details, NEW r \in Receives,
             Commit(l.wallet, i, d, r, loads \ {l}), Reached(l.wallet, i),
             d.wallet = detail.wallet,
             d.derived = detail.derived \/ (l.by = "detail" /\ l.live /\ d.derived \in {l.wallet, None}),
             UNCHANGED <<balance, list, addressList>>
      PROVE  Goal
  <2>1. loads \ {l} \in SUBSET LoadRecords
    BY <1>1
  <2>2. /\ next' = [next EXCEPT ![l.wallet] = i] /\ next' \in [Wallets -> Stored]
        /\ detail' \in Details
        /\ detail'.wallet = d.wallet /\ detail'.derived = d.derived
        /\ receive' \in Receives
        /\ loads' \subseteq LoadRecords
        /\ \A k \in loads' :
              \/ k \in loads \ {l}
              \/ k = Load("detail", l.wallet, i) /\ d.wallet = l.wallet
              \/ k = Load("receive", l.wallet, i) /\ r.wallet = l.wallet
    BY <1>1, <1>4, <2>1, Committed
  <2>3. \A k \in loads' : \/ k \in loads
                          \/ k.by = "detail" /\ k.wallet = detail.wallet
                          \/ k.by = "receive"
    <3>1. ASSUME NEW k \in loads' PROVE \/ k \in loads
                                        \/ k.by = "detail" /\ k.wallet = detail.wallet
                                        \/ k.by = "receive"
      BY <1>4, <2>2, LoadFields
    <3> QED BY <3>1
  <2>4. Entry
    BY <1>4, <2>2
  <2>5. ViewFields'
    BY <1>2, <1>4, <2>2 DEF ViewFields
  <2> QED BY <1>4, <2>2, <2>3, <2>4, <2>5
<1>5. ASSUME NEW seen \in SUBSET used[l.wallet], DetailLoaded(l, seen) PROVE Goal
  <2>1. UNCHANGED <<balance, list, addressList>>
    BY <1>5, DetailCommits
  <2>2. PICK i \in Stored, d \in Details :
          /\ Commit(l.wallet, i, d, receive, loads \ {l}) /\ Reached(l.wallet, i)
          /\ d.wallet = detail.wallet
          /\ \/ d.derived = detail.derived
             \/ l.by = "detail" /\ l.live /\ d.derived \in {l.wallet, None}
    BY <1>5, DetailCommits
  <2> HIDE DEF Goal
  <2> QED BY <1>1, <1>4, <2>1, <2>2
<1>6. CASE DetailFailed(l)
  <2>1. {} \in SUBSET used[l.wallet]
    OBVIOUS
  <2>2. UNCHANGED <<balance, list, addressList>>
    BY <1>6, <2>1, DetailCommits
  <2>3. PICK i \in Stored, d \in Details :
          /\ Commit(l.wallet, i, d, receive, loads \ {l}) /\ Reached(l.wallet, i)
          /\ d.wallet = detail.wallet
          /\ \/ d.derived = detail.derived
             \/ l.by = "detail" /\ l.live /\ d.derived \in {l.wallet, None}
    BY <1>6, <2>1, DetailCommits
  <2> HIDE DEF Goal
  <2> QED BY <1>1, <1>4, <2>2, <2>3
<1>7. ASSUME NEW seen \in SUBSET used[l.wallet], ReceiveLoaded(l, seen) PROVE Goal
  <2>1. UNCHANGED <<balance, list, addressList>>
    BY <1>7, ReceiveCommits
  <2>2. PICK i \in Stored, r \in Receives :
          Commit(l.wallet, i, detail, r, loads \ {l}) /\ Reached(l.wallet, i)
    BY <1>7, ReceiveCommits
  <2> HIDE DEF Goal
  <2> QED BY <1>1, <1>4, <2>1, <2>2
<1>8. ASSUME NEW seen \in SUBSET used[l.wallet], AnotherLoaded(l, seen) PROVE Goal
  <2>1. UNCHANGED <<balance, list, addressList>>
    BY <1>8, AnotherCommits
  <2>2. PICK i \in Stored, r \in Receives :
          Commit(l.wallet, i, detail, r, loads \ {l}) /\ Reached(l.wallet, i)
    BY <1>8, AnotherCommits
  <2> HIDE DEF Goal
  <2> QED BY <1>1, <1>4, <2>1, <2>2
<1>9. CASE ReceiveFailed(l) \/ AnotherFailed(l)
  <2>1. /\ UNCHANGED <<next, balance, list, detail, addressList>> /\ loads' = loads \ {l}
        /\ receive' \in Receives
    BY <1>9, ScreenLoadFails
  <2>2. ViewFields'
    BY <1>1, <1>2, <2>1 DEF ViewFields
  <2>3. Entry
    BY <1>3, <2>1
  <2>4. /\ balance' = balance /\ detail' = detail /\ addressList' = addressList
        /\ \A k \in loads' : k \in loads
    BY <2>1
  <2> HIDE DEF Entry
  <2> QED BY <2>2, <2>3, <2>4
<1>10. CASE ListEnds(l)
  <2>1. /\ UNCHANGED <<next, detail, receive, addressList>> /\ loads' = loads \ {l}
        /\ balance' \in {balance, [balance EXCEPT ![l.wallet] = l.wallet]}
        /\ list' = [list EXCEPT !.refreshing = @ \ {l.wallet}]
    BY <1>10 DEF ListEnds
  <2>2. /\ balance' \in [Wallets -> Wallets \cup {None}]
        /\ list' \in [mounted : BOOLEAN, refreshing : SUBSET Wallets]
    BY <1>1, <2>1
  <2>3. ViewFields'
    BY <1>1, <1>2, <2>1, <2>2 DEF ViewFields
  <2>4. Entry
    BY <1>3, <2>1
  <2>5. /\ balance' = balance \/ balance' = [balance EXCEPT ![l.wallet] = l.wallet]
        /\ detail' = detail /\ addressList' = addressList
        /\ \A k \in loads' : k \in loads
    BY <2>1
  <2> HIDE DEF Entry
  <2> QED BY <2>3, <2>4, <2>5
<1>11. CASE AddressesEnd(l)
  <2>1. /\ UNCHANGED <<next, balance, list, detail, receive>> /\ loads' = loads \ {l}
        /\ l.by = "addresses"
    BY <1>11 DEF AddressesEnd
  <2>2. PICK derived \in {addressList.derived, l.wallet} :
          addressList' = [addressList EXCEPT !.derived = derived, !.refreshing = FALSE]
    BY <1>11 DEF AddressesEnd
  <2>3. /\ addressList' \in AddressLists /\ addressList'.derived = derived
        /\ addressList'.open = addressList.open
    BY <1>1, <2>2 DEF AddressLists
  <2>4. ViewFields'
    BY <1>1, <1>2, <2>1, <2>3 DEF ViewFields
  <2>5. Entry
    BY <1>3, <2>1
  <2>6. balance' = balance /\ detail' = detail /\ \A k \in loads' : k \in loads
    BY <2>1
  <2>7. \/ addressList'.derived = addressList.derived
        \/ l.by = "addresses" /\ addressList'.derived = l.wallet
    BY <2>1, <2>2, <2>3
  <2> HIDE DEF Entry
  <2> QED BY <2>3, <2>4, <2>5, <2>6, <2>7
<1>12. \/ \E seen \in SUBSET used[l.wallet] :
             DetailLoaded(l, seen) \/ ReceiveLoaded(l, seen) \/ AnotherLoaded(l, seen)
       \/ DetailFailed(l) \/ ReceiveFailed(l) \/ AnotherFailed(l)
       \/ ListEnds(l)
       \/ AddressesEnd(l)
  BY DEF Ends, Loaded, Failed
<1> HIDE DEF Goal, Entry
<1> QED BY <1>5, <1>6, <1>7, <1>8, <1>9, <1>10, <1>11, <1>12

-----------------------------------------------------------------------------
(* Types, and which screens are up *)

ViewsInv == ViewFields /\ ScreensInv

LEMMA ViewsInitTypes == ViewsInit => ViewsInv
<1> SUFFICES ASSUME ViewsInit PROVE ViewsInv
  OBVIOUS
<1>1. /\ used = History /\ active = None /\ platform \in {"mobile", "desktop"}
      /\ next = [w \in Wallets |-> None] /\ balance = [w \in Wallets |-> None]
      /\ list = [mounted |-> FALSE, refreshing |-> {}]
      /\ detail = NoDetail /\ receive = NoReceive /\ addressList = NoAddressList
      /\ loads = {}
  BY DEF ViewsInit
<1>2. /\ used \in [Wallets -> SUBSET Nat]
      /\ \A w \in Wallets : {w} \X used[w] \subseteq Payable
  BY <1>1, ViewsAssumption
<1>3. /\ next \in [Wallets -> Stored] /\ balance \in [Wallets -> Wallets \cup {None}]
      /\ list \in [mounted : BOOLEAN, refreshing : SUBSET Wallets]
  BY <1>1 DEF Stored
<1>4. ViewFields
  BY <1>1, <1>2, <1>3, NoScreens DEF ViewFields
<1>5. ScreensInv
  BY <1>1, NoScreens DEF ScreensInv
<1> QED BY <1>4, <1>5 DEF ViewsInv

LEMMA PayStep ==
  ASSUME ViewFields, Pay
  PROVE  /\ ViewFields' /\ UNCHANGED <<platform, entries, list, detail, addressList, loads>>
         /\ \A w \in Wallets : used[w] \subseteq used'[w]
         /\ receive'.wallet = receive.wallet /\ receive'.shown = receive.shown
         /\ receive'.generating = receive.generating
         /\ receive'.sound => receive.sound /\ used'[receive.wallet] = used[receive.wallet]
<1>1. PICK p \in Payable :
        /\ used' = [used EXCEPT ![p[1]] = @ \cup {p[2]}]
        /\ receive' = [receive EXCEPT !.sound = @ /\ receive.wallet # p[1]]
  BY DEF Pay
<1>2. UNCHANGED <<platform, entries, list, detail, addressList, loads>>
  BY DEF Pay
<1>3. p[1] \in Wallets /\ p[2] \in Nat /\ p = <<p[1], p[2]>>
  BY ViewsAssumption
<1>4. used' \in [Wallets -> SUBSET Nat] /\ used \in [Wallets -> SUBSET Nat]
  BY <1>1, <1>3 DEF ViewFields
<1>5. \A w \in Wallets : w # p[1] => used'[w] = used[w]
  BY <1>1, <1>4
<1>6. used'[p[1]] = used[p[1]] \cup {p[2]}
  BY <1>1, <1>3, <1>4
<1>7. \A w \in Wallets : used[w] \subseteq used'[w] /\ {w} \X used'[w] \subseteq Payable
  <2>1. ASSUME NEW w \in Wallets
        PROVE  used[w] \subseteq used'[w] /\ {w} \X used'[w] \subseteq Payable
    <3>1. {w} \X used[w] \subseteq Payable
      BY DEF ViewFields
    <3>2. CASE w = p[1]
      <4>1. \A q \in {w} \X used'[w] : q = p \/ q \in {w} \X used[w]
        BY <1>3, <1>6, <3>2
      <4> QED BY <1>1, <1>6, <3>1, <3>2, <4>1
    <3>3. CASE w # p[1]
      BY <1>5, <3>1, <3>3
    <3> QED BY <3>2, <3>3
  <2> QED BY <2>1
<1>8. receive \in Receives
  BY DEF ViewFields
<1>9. /\ receive' \in Receives
      /\ receive'.wallet = receive.wallet /\ receive'.shown = receive.shown
      /\ receive'.generating = receive.generating
      /\ receive'.sound => receive.sound /\ receive.wallet # p[1]
  BY <1>1, <1>8 DEF Receives
<1>10. receive'.sound => used'[receive.wallet] = used[receive.wallet]
  BY <1>1, <1>4, <1>9
<1>11. ViewFields'
  BY <1>2, <1>4, <1>7, <1>9 DEF ViewFields, entries
<1> QED BY <1>2, <1>7, <1>9, <1>10, <1>11

\* The screen of w: an instance that is kept keeps what it derived.
LEMMA OpenWalletStep ==
  ASSUME ViewFields, NEW w \in Wallets, OpenWallet(w)
  PROVE  /\ ViewFields' /\ UNCHANGED <<platform, used, next, balance, list, addressList>>
         /\ active' = w /\ detail'.wallet = w /\ receive' = NoReceive
         /\ platform = "mobile" => list.mounted /\ detail.wallet = None /\ detail'.derived = None
         /\ \A k \in loads' : \/ k \in loads /\ k.by \notin ReceiveLoads
                              \/ ~k.live /\ k.by \notin {"list", "receive", "addresses"}
                              \/ k.by = "detail" /\ k.wallet = w
         /\ platform = "mobile" =>
              \A k \in loads' : k.by = "detail" /\ k.live => k.wallet = w
<1> DEFINE kept == detail.wallet # None /\ detail.page = "wallet"
           whose == IF kept THEN ReceiveLoads ELSE ReceiveLoads \cup {"detail"}
<1>1. /\ platform = "mobile" => list.mounted /\ detail.wallet = None
      /\ active' = w /\ receive' = NoReceive
      /\ detail' = IF kept THEN [detail EXCEPT !.wallet = w, !.discovering = TRUE]
                   ELSE Mounted(w, "wallet")
      /\ loads' = Cancelled(loads, whose) \cup {Load("detail", w, next[w])}
      /\ UNCHANGED <<platform, used, next, balance, list, addressList>>
  BY DEF OpenWallet, Opened
<1>2. detail \in Details /\ loads \in SUBSET LoadRecords /\ next[w] \in Stored
  BY DEF ViewFields
<1>3. /\ Mounted(w, "wallet") \in Details /\ Mounted(w, "wallet").wallet = w
      /\ Mounted(w, "wallet").derived = None
  BY DEF Mounted, NoDetail, Details
<1>4. /\ detail' \in Details /\ detail'.wallet = w
      /\ platform = "mobile" => detail'.derived = None
  <2>1. CASE kept
    BY <1>1, <1>2, <2>1 DEF Details
  <2>2. CASE ~kept
    BY <1>1, <1>3, <2>2
  <2> QED BY <2>1, <2>2
<1>5. /\ Cancelled(loads, whose) \subseteq LoadRecords
      /\ \A k \in Cancelled(loads, whose) :
           \/ k \in loads /\ k.by \notin whose
           \/ ~k.live /\ k.by \in whose /\ k.by \notin {"list", "receive", "addresses"}
  <2> HIDE DEF whose
  <2> QED BY <1>2, CancelledLoads
<1>6. LET k == Load("detail", w, next[w])
      IN  k \in LoadRecords /\ k.by = "detail" /\ k.wallet = w
  BY <1>2, LoadFields DEF Screens
<1>7. ReceiveLoads \subseteq whose
  OBVIOUS
<1>8. platform = "mobile" => "detail" \in whose
  BY <1>1
<1>9. loads' \subseteq LoadRecords
  BY <1>1, <1>5, <1>6
<1> HIDE DEF whose, kept
<1>10. \A k \in loads' : \/ k \in loads /\ k.by \notin ReceiveLoads
                         \/ ~k.live /\ k.by \notin {"list", "receive", "addresses"}
                         \/ k.by = "detail" /\ k.wallet = w
  BY <1>1, <1>5, <1>6, <1>7
<1>11. platform = "mobile" => \A k \in loads' : k.by = "detail" /\ k.live => k.wallet = w
  BY <1>1, <1>5, <1>6, <1>8
<1>12. ViewFields'
  BY <1>1, <1>4, <1>9, NoScreens DEF ViewFields
<1> QED BY <1>1, <1>4, <1>10, <1>11, <1>12

LEMMA OpenPageStep ==
  ASSUME ViewFields, OpenPage
  PROVE  /\ ViewFields' /\ UNCHANGED <<platform, used, entries, list, receive, addressList>>
         /\ platform = "desktop" /\ detail.wallet # None
         /\ detail'.wallet = detail.wallet /\ detail'.derived = None
         /\ \A k \in loads' : k \in loads \/ k.by = "detail"
         /\ \A k \in loads : k.by # "detail" => k \in loads'
<1>1. /\ platform = "desktop" /\ detail.wallet # None
      /\ detail' = Mounted(detail.wallet, "page")
      /\ loads' = Cancelled(loads, {"detail"})
                  \cup {Load("detail", detail.wallet, next[detail.wallet])}
      /\ UNCHANGED <<platform, used, entries, list, receive, addressList>>
  BY DEF OpenPage
<1>2. /\ detail.wallet \in Wallets /\ loads \in SUBSET LoadRecords
      /\ next[detail.wallet] \in Stored
  BY <1>1 DEF ViewFields, Details
<1>3. /\ detail' \in Details /\ detail'.wallet = detail.wallet /\ detail'.derived = None
  BY <1>1, <1>2 DEF Mounted, NoDetail, Details
<1>4. /\ Cancelled(loads, {"detail"}) \subseteq LoadRecords
      /\ \A k \in Cancelled(loads, {"detail"}) : k \in loads \/ k.by = "detail"
      /\ \A k \in loads : k.by # "detail" => k \in Cancelled(loads, {"detail"})
  BY <1>2, CancelledLoads
<1>5. LET k == Load("detail", detail.wallet, next[detail.wallet])
      IN  k \in LoadRecords /\ k.by = "detail"
  BY <1>2, LoadFields DEF Screens
<1>6. loads' \subseteq LoadRecords
  BY <1>1, <1>4, <1>5
<1>7. ViewFields'
  BY <1>1, <1>3, <1>6 DEF ViewFields, entries
<1> QED BY <1>1, <1>3, <1>4, <1>5, <1>7

LEMMA OpenReceiveStep ==
  ASSUME ViewFields, OpenReceive
  PROVE  /\ ViewFields' /\ UNCHANGED <<platform, used, entries, list, addressList>>
         /\ receive.wallet = None /\ ~addressList.open
         /\ \/ detail' = detail
            \/ platform # "mobile" /\ detail' = NoDetail
         /\ receive'.wallet = detail.wallet /\ receive'.wallet \in Wallets
         /\ receive'.shown = next[receive'.wallet]
         /\ Load("receive", receive'.wallet, receive'.shown) \in loads'
         /\ \A k \in loads' : \/ k \in loads /\ (k.by # "detail" \/ detail' = detail)
                              \/ ~k.live /\ k.by = "detail"
                              \/ k = Load("receive", receive'.wallet, receive'.shown)
<1> DEFINE w == detail.wallet
           rest == IF platform = "mobile" THEN loads ELSE Cancelled(loads, {"detail"})
<1>1. /\ w # None /\ receive.wallet = None /\ ~addressList.open
      /\ receive' = [NoReceive EXCEPT !.wallet = w, !.shown = next[w],
                                      !.loading = TRUE, !.sound = TRUE]
      /\ detail' = IF platform = "mobile" THEN detail ELSE NoDetail
      /\ loads' = rest \cup {Load("receive", w, next[w])}
      /\ UNCHANGED <<platform, used, entries, list, addressList>>
  BY DEF OpenReceive
<1>2. /\ w \in Wallets /\ loads \in SUBSET LoadRecords /\ next[w] \in Stored
      /\ detail \in Details
  BY <1>1 DEF ViewFields, Details
<1>3. receive' \in Receives /\ receive'.wallet = w /\ receive'.shown = next[w]
  BY <1>1, <1>2 DEF NoReceive, Receives, Stored
<1>4. /\ rest \subseteq LoadRecords
      /\ \A k \in rest : \/ k \in loads /\ (k.by # "detail" \/ platform = "mobile")
                         \/ ~k.live /\ k.by = "detail"
  BY <1>2, CancelledLoads
<1>5. Load("receive", w, next[w]) \in LoadRecords
  BY <1>2, LoadFields DEF Screens, ReceiveLoads
<1> HIDE DEF rest
<1>6. loads' \subseteq LoadRecords
  BY <1>1, <1>4, <1>5
<1>7. detail' \in Details
  BY <1>1, <1>2, NoScreens
<1>8. ViewFields'
  BY <1>1, <1>3, <1>6, <1>7 DEF ViewFields, entries
<1>9. \A k \in loads' : \/ k \in loads /\ (k.by # "detail" \/ detail' = detail)
                        \/ ~k.live /\ k.by = "detail"
                        \/ k = Load("receive", receive'.wallet, receive'.shown)
  BY <1>1, <1>3, <1>4
<1> QED BY <1>1, <1>2, <1>3, <1>8, <1>9

\* The screens close: GoBack, ToWallets and LockApp.
LEMMA CloseStep ==
  ASSUME ViewFields, GoBack \/ ToWallets \/ LockApp
  PROVE  /\ ViewFields' /\ UNCHANGED <<platform, used, entries>> /\ receive' = NoReceive
         /\ \A k \in loads' : \/ k \in loads /\ k.by \notin ReceiveLoads
                              \/ ~k.live /\ k.by \notin {"list", "receive", "addresses"}
         /\ \A k \in loads' : k.by = "addresses" => k \in loads /\ UNCHANGED addressList
         /\ \/ UNCHANGED detail
            \/ detail' = NoDetail /\ \A k \in loads' : k.by = "detail" => ~k.live
         /\ \/ addressList' = NoAddressList
            \/ UNCHANGED addressList /\ (platform = "mobile" => ~addressList.open)
<1>0. loads \in SUBSET LoadRecords /\ detail \in Details /\ addressList \in AddressLists
  BY DEF ViewFields
<1>1. CASE GoBack
  <2> DEFINE whose == ReceiveLoads \cup {"addresses"}
  <2>1. /\ receive' = NoReceive /\ addressList' = NoAddressList
        /\ loads' = Cancelled(loads, whose)
        /\ UNCHANGED <<platform, used, entries, list, detail>>
    BY <1>1 DEF GoBack
  <2>2. /\ loads' \subseteq LoadRecords
        /\ \A k \in loads' :
              \/ k \in loads /\ k.by \notin whose
              \/ ~k.live /\ k.by \in whose /\ k.by \notin {"list", "receive", "addresses"}
    <3> HIDE DEF whose
    <3> QED BY <1>0, <2>1, CancelledLoads
  <2>3. ViewFields'
    BY <2>1, <2>2, NoScreens DEF ViewFields, entries
  <2> QED BY <2>1, <2>2, <2>3
<1>2. CASE ToWallets
  <2> DEFINE whose == {"detail"} \cup ReceiveLoads
  <2>1. /\ receive' = NoReceive /\ detail' = NoDetail
        /\ platform = "mobile" => ~addressList.open
        /\ loads' = Cancelled(loads, whose)
        /\ UNCHANGED <<platform, used, entries, list, addressList>>
    BY <1>2 DEF ToWallets
  <2>2. /\ loads' \subseteq LoadRecords
        /\ \A k \in loads' :
              \/ k \in loads /\ k.by \notin whose
              \/ ~k.live /\ k.by \in whose /\ k.by \notin {"list", "receive", "addresses"}
    <3> HIDE DEF whose
    <3> QED BY <1>0, <2>1, CancelledLoads
  <2>3. ViewFields'
    BY <2>1, <2>2, NoScreens DEF ViewFields, entries
  <2> QED BY <2>1, <2>2, <2>3
<1>3. CASE LockApp
  <2>1. /\ receive' = NoReceive /\ detail' = NoDetail /\ addressList' = NoAddressList
        /\ list' = [list EXCEPT !.mounted = FALSE]
        /\ loads' = Cancelled(loads, Screens)
        /\ UNCHANGED <<platform, used, entries>>
    BY <1>3 DEF LockApp
  <2>2. /\ loads' \subseteq LoadRecords
        /\ \A k \in loads' :
              \/ k \in loads /\ k.by \notin Screens
              \/ ~k.live /\ k.by \in Screens /\ k.by \notin {"list", "receive", "addresses"}
    <3> HIDE DEF Screens
    <3> QED BY <1>0, <2>1, CancelledLoads
  <2>3. list' \in [mounted : BOOLEAN, refreshing : SUBSET Wallets]
    BY <2>1 DEF ViewFields
  <2>4. ViewFields'
    BY <2>1, <2>2, <2>3, NoScreens DEF ViewFields, entries
  <2> QED BY <2>1, <2>2, <2>4 DEF Screens
<1> QED BY <1>1, <1>2, <1>3

\* The list refreshes every wallet.
LEMMA OpenListStep ==
  ASSUME ViewFields, OpenList
  PROVE  /\ ViewFields' /\ UNCHANGED <<platform, used, entries, detail, receive, addressList>>
         /\ loads \subseteq loads' /\ \A k \in loads' : k \in loads \/ k.by = "list"
<1>1. /\ list' = [mounted |-> TRUE, refreshing |-> Wallets]
      /\ loads' = loads \cup { Load("list", w, None) : w \in Wallets }
      /\ UNCHANGED <<platform, used, entries, detail, receive, addressList>>
  BY DEF OpenList
<1>2. ASSUME NEW w \in Wallets
      PROVE  Load("list", w, None) \in LoadRecords /\ Load("list", w, None).by = "list"
  BY LoadFields DEF Screens, Stored
<1>3. /\ loads' \subseteq LoadRecords
      /\ \A k \in loads' : k \in loads \/ k.by = "list"
  BY <1>1, <1>2 DEF ViewFields
<1>4. list' \in [mounted : BOOLEAN, refreshing : SUBSET Wallets]
  BY <1>1
<1>5. ViewFields'
  BY <1>1, <1>3, <1>4 DEF ViewFields, entries
<1> QED BY <1>1, <1>3, <1>5

LEMMA refreshStep ==
  ASSUME ViewFields, refresh
  PROVE  /\ ViewFields' /\ UNCHANGED <<platform, used, entries, list, receive, addressList>>
         /\ detail.wallet # None
         /\ detail'.wallet = detail.wallet /\ detail'.derived = detail.derived
         /\ loads \subseteq loads'
         /\ \A k \in loads' : k \in loads \/ (k.by = "detail" /\ k.wallet = detail.wallet)
<1>1. /\ detail.wallet # None
      /\ detail' = [detail EXCEPT !.discovering = TRUE]
      /\ loads' = loads \cup {Load("detail", detail.wallet, next[detail.wallet])}
      /\ UNCHANGED <<platform, used, entries, list, receive, addressList>>
  BY DEF refresh
<1>2. detail.wallet \in Wallets /\ next[detail.wallet] \in Stored /\ detail \in Details
  BY <1>1 DEF ViewFields, Details
<1>3. LET k == Load("detail", detail.wallet, next[detail.wallet])
      IN  k \in LoadRecords /\ k.by = "detail" /\ k.wallet = detail.wallet
  BY <1>2, LoadFields DEF Screens
<1>4. /\ detail' \in Details
      /\ detail'.wallet = detail.wallet /\ detail'.derived = detail.derived
  BY <1>1, <1>2 DEF Details
<1>5. loads' \subseteq LoadRecords
  BY <1>1, <1>3 DEF ViewFields
<1>6. ViewFields'
  BY <1>1, <1>4, <1>5 DEF ViewFields, entries
<1> QED BY <1>1, <1>3, <1>4, <1>6

LEMMA openAddressListStep ==
  ASSUME ViewFields, openAddressList
  PROVE  /\ ViewFields' /\ UNCHANGED <<platform, used, entries, list, detail, receive, loads>>
         /\ platform = "mobile" /\ ~addressList.open /\ addressList'.open
         /\ detail.derived # None /\ addressList'.derived = detail.derived
<1>1. /\ platform = "mobile" /\ ~addressList.open /\ detail.derived # None
      /\ addressList' = [NoAddressList EXCEPT !.open = TRUE, !.derived = detail.derived]
      /\ UNCHANGED <<platform, used, entries, list, detail, receive, loads>>
  BY DEF openAddressList
<1>2. detail.derived \in Wallets \cup {None}
  BY DEF ViewFields, Details
<1>3. /\ addressList' \in AddressLists
      /\ addressList'.open /\ addressList'.derived = detail.derived
  BY <1>1, <1>2 DEF NoAddressList, AddressLists
<1>4. ViewFields'
  BY <1>1, <1>3 DEF ViewFields, entries
<1> QED BY <1>1, <1>3, <1>4

LEMMA handleRefreshStep ==
  ASSUME ViewFields, ScreensInv, handleRefresh
  PROVE  /\ ViewFields' /\ UNCHANGED <<platform, used, entries, list, detail, receive>>
         /\ addressList.open /\ addressList'.open
         /\ addressList'.derived = addressList.derived
         /\ loads \subseteq loads'
         /\ \A k \in loads' :
              k \in loads \/ (k.by = "addresses" /\ k.wallet = detail.wallet)
<1>1. /\ addressList.open
      /\ addressList' = [addressList EXCEPT !.refreshing = TRUE]
      /\ loads' = loads \cup {Load("addresses", active, None)}
      /\ UNCHANGED <<platform, used, entries, list, detail, receive>>
  BY DEF handleRefresh
<1>2. active = detail.wallet /\ active \in Wallets
  BY <1>1 DEF ScreensInv, ViewFields
<1>3. LET k == Load("addresses", active, None)
      IN  k \in LoadRecords /\ k.by = "addresses" /\ k.wallet = detail.wallet
  BY <1>2, LoadFields DEF Screens, Stored
<1>4. /\ addressList' \in AddressLists /\ addressList'.open
      /\ addressList'.derived = addressList.derived
  BY <1>1 DEF ViewFields, AddressLists
<1>5. loads' \subseteq LoadRecords
  BY <1>1, <1>3 DEF ViewFields
<1>6. ViewFields'
  BY <1>1, <1>4, <1>5 DEF ViewFields, entries
<1> QED BY <1>1, <1>3, <1>4, <1>6

\* The loads of the receive screen are out of date, and one for another address is added.
LEMMA generateAnotherAddressStep ==
  ASSUME ViewFields, generateAnotherAddress
  PROVE  LET new == Load("another", receive.wallet, receive.shown)
         IN  /\ ViewFields' /\ UNCHANGED <<platform, used, entries, list, detail, addressList>>
             /\ receive.wallet \in Wallets /\ ~receive.generating /\ receive'.generating
             /\ receive'.wallet = receive.wallet /\ receive'.shown = receive.shown
             /\ receive'.sound = receive.sound
             /\ new \in loads'
             /\ \A k \in loads' :
                  \/ k = new
                  \/ k \in loads /\ k.by # "receive"
                  \/ /\ k.by = "receive"
                     /\ \E l \in loads :
                          l.by = "receive" /\ l.wallet = k.wallet /\ l.live = k.live
<1> DEFINE new == Load("another", receive.wallet, receive.shown)
           Out(l) == IF l.by = "receive" THEN [l EXCEPT !.current = FALSE] ELSE l
<1>1. /\ receive.wallet # None /\ ~receive.generating
      /\ receive' = [receive EXCEPT !.generating = TRUE]
      /\ loads' = { Out(l) : l \in loads } \cup {new}
      /\ UNCHANGED <<platform, used, entries, list, detail, addressList>>
  BY DEF generateAnotherAddress
<1>2. receive \in Receives /\ receive.wallet \in Wallets /\ receive.shown \in Stored
  BY <1>1 DEF ViewFields, Receives
<1>3. new \in LoadRecords
  BY <1>2, LoadFields DEF Screens, ReceiveLoads
<1>4. ASSUME NEW l \in loads
      PROVE  /\ Out(l) \in LoadRecords
             /\ \/ Out(l) \in loads /\ Out(l).by # "receive"
                \/ /\ Out(l).by = "receive" /\ l.by = "receive"
                   /\ l.wallet = Out(l).wallet /\ l.live = Out(l).live
  <2>1. l \in LoadRecords
    BY DEF ViewFields
  <2>2. CASE l.by = "receive"
    BY <2>1, <2>2 DEF LoadRecords
  <2>3. CASE l.by # "receive"
    BY <2>1, <2>3
  <2> QED BY <2>2, <2>3
<1>5. /\ receive' \in Receives /\ receive'.generating
      /\ receive'.wallet = receive.wallet /\ receive'.shown = receive.shown
      /\ receive'.sound = receive.sound
  BY <1>1, <1>2 DEF Receives
<1> HIDE DEF new, Out
<1>6. loads' \subseteq LoadRecords
  BY <1>1, <1>3, <1>4
<1>7. ViewFields'
  BY <1>1, <1>5, <1>6 DEF ViewFields, entries
<1>8. \A k \in loads' :
        \/ k = new
        \/ k \in loads /\ k.by # "receive"
        \/ /\ k.by = "receive"
           /\ \E l \in loads : l.by = "receive" /\ l.wallet = k.wallet /\ l.live = k.live
  BY <1>1, <1>4
<1>9. new \in loads'
  BY <1>1
<1> QED BY <1>1, <1>2, <1>5, <1>7, <1>8, <1>9 DEF new

LEMMA persistBalanceStep ==
  ASSUME ViewFields, ScreensInv, persistBalance
  PROVE  /\ ViewFields'
         /\ UNCHANGED <<platform, used, next, active, list, detail, receive, addressList, loads>>
         /\ balance' = [balance EXCEPT ![detail.wallet] = detail.derived]
<1>1. /\ detail.derived # None
      /\ balance' = [balance EXCEPT ![detail.wallet] = detail.derived]
      /\ UNCHANGED <<platform, used, next, active, list, detail, receive, addressList, loads>>
  BY DEF persistBalance
<1>2. detail.derived \in Wallets
  BY <1>1 DEF ViewFields, Details
<1>3. balance' \in [Wallets -> Wallets \cup {None}]
  BY <1>1, <1>2 DEF ViewFields
<1>4. ViewFields'
  BY <1>1, <1>3 DEF ViewFields
<1> QED BY <1>1, <1>4

LEMMA ViewsStepTypes == ViewsInv /\ [ViewsNext]_viewVars => ViewsInv'
<1> SUFFICES ASSUME ViewFields, ScreensInv, [ViewsNext]_viewVars
             PROVE  ViewFields' /\ ScreensInv'
  BY DEF ViewsInv
<1>1. CASE Pay
  BY <1>1, PayStep DEF ScreensInv, entries
<1>2. CASE OpenList
  BY <1>2, OpenListStep DEF ScreensInv, entries
<1>3. CASE GoBack \/ ToWallets \/ LockApp
  BY <1>3, CloseStep, NoScreens DEF ScreensInv, entries
<1>4. ASSUME NEW w \in Wallets, OpenWallet(w) PROVE ViewFields' /\ ScreensInv'
  <2>1. w # None
    BY ViewsAssumption
  <2>2. /\ ViewFields' /\ UNCHANGED <<platform, addressList>>
        /\ active' = w /\ detail'.wallet = w
    BY <1>4, OpenWalletStep
  <2> QED BY <2>1, <2>2 DEF ScreensInv
<1>5. CASE OpenPage
  BY <1>5, OpenPageStep DEF ScreensInv, entries
<1>6. CASE OpenReceive
  <2>1. LET new == Load("receive", receive'.wallet, receive'.shown)
        IN  new.by # "detail"
    BY LoadFields
  <2>2. /\ ViewFields' /\ UNCHANGED <<platform, used, entries, list, addressList>>
        /\ ~addressList.open
        /\ \/ detail' = detail
           \/ platform # "mobile" /\ detail' = NoDetail
        /\ \A k \in loads' : \/ k \in loads /\ (k.by # "detail" \/ detail' = detail)
                             \/ ~k.live /\ k.by = "detail"
                             \/ k = Load("receive", receive'.wallet, receive'.shown)
    BY <1>6, OpenReceiveStep
  <2>3. CASE detail' = detail
    BY <2>1, <2>2, <2>3 DEF ScreensInv, entries
  <2>4. CASE detail' # detail
    <3>1. \A k \in loads' : k.by = "detail" => ~k.live
      BY <2>1, <2>2, <2>4
    <3>2. detail' = NoDetail
      BY <2>2, <2>4
    <3> QED BY <2>2, <3>1, <3>2, NoScreens DEF ScreensInv
  <2> QED BY <2>3, <2>4
<1>7. CASE refresh
  BY <1>7, refreshStep DEF ScreensInv, entries
<1>8. CASE openAddressList
  BY <1>8, openAddressListStep DEF ScreensInv, entries
<1>9. CASE handleRefresh
  BY <1>9, handleRefreshStep DEF ScreensInv, entries
<1>10. CASE generateAnotherAddress
  <2>1. Load("another", receive.wallet, receive.shown).by = "another"
    BY LoadFields
  <2>2. /\ ViewFields' /\ UNCHANGED <<platform, used, entries, list, detail, addressList>>
        /\ \A k \in loads' : k.by # "detail" \/ k \in loads
    BY <1>10, <2>1, generateAnotherAddressStep
  <2> QED BY <2>2 DEF ScreensInv, entries
<1>11. CASE persistBalance
  BY <1>11, persistBalanceStep DEF ScreensInv
<1>12. ASSUME NEW l \in loads, Ends(l) PROVE ViewFields' /\ ScreensInv'
  <2>1. /\ ViewFields' /\ UNCHANGED <<platform, active>>
        /\ detail'.wallet = detail.wallet
        /\ \/ detail'.derived = detail.derived
           \/ l.by = "detail" /\ l.live
        /\ addressList'.open = addressList.open
        /\ \A k \in loads' :
             k \in loads \/ (k.by = "detail" /\ k.wallet = detail.wallet) \/ k.by = "receive"
    BY <1>12, LoadEnded
  <2>2. \A k \in loads' : k.wallet # None
    BY <2>1, ViewsAssumption DEF ViewFields, LoadRecords
  <2> QED BY <2>1, <2>2 DEF ScreensInv
<1>13. CASE UNCHANGED viewVars
  BY <1>13 DEF viewVars, entries, ViewFields, ScreensInv
<1> QED BY <1>1, <1>2, <1>3, <1>4, <1>5, <1>6, <1>7, <1>8, <1>9, <1>10, <1>11, <1>12, <1>13
        DEF ViewsNext

LEMMA ViewsInvariant == ViewsSpec => []ViewsInv
BY ViewsInitTypes, ViewsStepTypes, PTL DEF ViewsSpec

\* The store holds wallets and addresses of the wallets alone, whichever load ends last.
THEOREM ViewsTypeCorrect == ViewsSpec => []ViewsTypeOK
<1>1. ViewsInv => ViewsTypeOK
  BY DEF ViewsInv, ViewFields, ViewsTypeOK, LoadRecords, Details, Receives, AddressLists, Stored
<1> QED BY <1>1, ViewsInvariant, PTL

-----------------------------------------------------------------------------
(* What is stored *)

LEMMA StoredStep ==
  ViewsInv /\ StoredIsFound /\ [ViewsNext]_viewVars => StoredIsFound'
<1> SUFFICES ASSUME ViewFields, ScreensInv, StoredIsFound, [ViewsNext]_viewVars
             PROVE  StoredIsFound'
  BY DEF ViewsInv
<1>1. CASE Pay
  <2>1. /\ ViewFields' /\ next' = next
        /\ \A w \in Wallets : used[w] \subseteq used'[w]
    BY <1>1, PayStep DEF entries
  <2>2. ASSUME NEW w \in Wallets, next[w] # None PROVE next[w] < Scanned(used'[w])
    <3>1. used[w] \in Seen /\ used'[w] \in Seen
      <4>1. {w} \X used[w] \subseteq Payable /\ {w} \X used'[w] \subseteq Payable
        BY <2>1 DEF ViewFields
      <4>2. ASSUME NEW U, {w} \X U \subseteq Payable PROVE U \in Seen
        BY <4>2, UsedIsSeen
      <4> QED BY <4>1, <4>2
    <3>2. Scanned(used[w]) <= Scanned(used'[w])
      <4>1. ASSUME NEW s \in Seen, NEW t \in Seen, s \subseteq t
            PROVE  Scanned(s) <= Scanned(t)
        BY <4>1, ScannedGrows
      <4> QED BY <2>1, <3>1, <4>1
    <3>3. Scanned(used[w]) \in Nat /\ Scanned(used'[w]) \in Nat
      <4>1. \A s \in Seen : Scanned(s) \in Nat
        BY ScannedIsNat
      <4> QED BY <3>1, <4>1
    <3>4. next[w] < Scanned(used[w])
      BY <2>2 DEF StoredIsFound
    <3>5. next[w] \in Nat
      BY <2>2 DEF ViewFields, Stored, Indices
    <3> QED BY <3>2, <3>3, <3>4, <3>5
  <2> QED BY <2>1, <2>2 DEF StoredIsFound
<1>2. ASSUME NEW l \in loads, Ends(l) PROVE StoredIsFound'
  <2>1. used' = used
    BY <1>2, LoadEnded
  <2>2. PICK i : Reached(l.wallet, i) /\ next' = [next EXCEPT ![l.wallet] = i]
    BY <1>2, LoadEnded
  <2>3. l.wallet \in Wallets /\ next \in [Wallets -> Stored]
    BY DEF ViewFields, LoadRecords
  <2>4. ASSUME NEW w \in Wallets, next'[w] # None PROVE next'[w] < Scanned(used[w])
    <3>1. CASE w = l.wallet /\ i # next[w]
      BY <2>2, <2>3, <3>1 DEF Reached
    <3>2. CASE ~(w = l.wallet /\ i # next[w])
      <4>1. next'[w] = next[w]
        BY <2>2, <2>3, <3>2
      <4> QED BY <2>4, <4>1 DEF StoredIsFound
    <3> QED BY <3>1, <3>2
  <2> QED BY <2>1, <2>4 DEF StoredIsFound
<1>3. CASE UNCHANGED <<used, next>>
  BY <1>3 DEF StoredIsFound
<1>4. ASSUME NEW w \in Wallets, OpenWallet(w) PROVE UNCHANGED <<used, next>>
  BY <1>4, OpenWalletStep
<1>5. \/ OpenList \/ LockApp \/ OpenPage \/ OpenReceive \/ GoBack \/ ToWallets
      \/ refresh \/ openAddressList \/ handleRefresh \/ generateAnotherAddress
      \/ persistBalance \/ UNCHANGED viewVars
      => UNCHANGED <<used, next>>
  BY DEF OpenList, LockApp, OpenPage, OpenReceive, GoBack, ToWallets, refresh,
         openAddressList, handleRefresh, generateAnotherAddress, persistBalance,
         viewVars, entries
<1> QED BY <1>1, <1>2, <1>3, <1>4, <1>5 DEF ViewsNext

\* An address is stored only by a discovery that reached it, and what has once been
\* reached stays so as payments arrive.
THEOREM StoredStaysFound == ViewsSpec => []StoredIsFound
<1>1. ViewsInit => StoredIsFound
  BY DEF ViewsInit, StoredIsFound
<1> QED BY <1>1, StoredStep, ViewsInvariant, PTL DEF ViewsSpec

-----------------------------------------------------------------------------
(* Whose answer is shown *)

\* On mobile the loads that may still set something are those of the wallet that is
\* on the screen, and the address list is filled only while it is open.
OwnInv ==
  /\ ShownIsOwn
  /\ platform = "mobile" =>
       /\ ~addressList.open => addressList.derived = None
       /\ \A l \in loads : l.by = "detail" /\ l.live => l.wallet = detail.wallet
       /\ \A l \in loads : l.by = "addresses" => addressList.open /\ l.wallet = detail.wallet

LEMMA OwnStep == ViewsInv /\ OwnInv /\ [ViewsNext]_viewVars => OwnInv'
<1> SUFFICES ASSUME ViewFields, ScreensInv, OwnInv, [ViewsNext]_viewVars
             PROVE  OwnInv'
  BY DEF ViewsInv
<1>1. CASE Pay
  BY <1>1, PayStep DEF OwnInv, ShownIsOwn, entries
<1>2. CASE OpenList
  BY <1>2, OpenListStep DEF OwnInv, ShownIsOwn, entries
<1>3. CASE GoBack \/ ToWallets \/ LockApp
  <2>1. /\ UNCHANGED <<platform, balance>>
        /\ \A k \in loads' : \/ k \in loads
                             \/ ~k.live /\ k.by \notin {"list", "receive", "addresses"}
        /\ \A k \in loads' : k.by = "addresses" => k \in loads /\ UNCHANGED addressList
        /\ \/ UNCHANGED detail
           \/ detail' = NoDetail /\ \A k \in loads' : k.by = "detail" => ~k.live
        /\ \/ addressList' = NoAddressList
           \/ UNCHANGED addressList /\ (platform = "mobile" => ~addressList.open)
    BY <1>3, CloseStep DEF entries
  <2>2. SUFFICES ASSUME platform = "mobile"
                 PROVE  /\ ~addressList'.open /\ addressList'.derived = None
                        /\ detail'.derived \in {None, detail'.wallet}
                        /\ \A k \in loads' : k.by # "addresses"
                        /\ \A k \in loads' : k.by = "detail" /\ k.live => k.wallet = detail'.wallet
    BY <2>1 DEF OwnInv, ShownIsOwn
  <2>3. ~addressList'.open /\ addressList'.derived = None
    BY <2>1, <2>2, NoScreens DEF OwnInv
  <2>4. \A k \in loads' : k.by # "addresses"
    BY <2>1, <2>2, <2>3 DEF OwnInv
  <2>5. CASE UNCHANGED detail
    BY <2>1, <2>2, <2>3, <2>4, <2>5 DEF OwnInv, ShownIsOwn
  <2>6. CASE detail' = NoDetail /\ \A k \in loads' : k.by = "detail" => ~k.live
    BY <2>3, <2>4, <2>6, NoScreens
  <2> QED BY <2>1, <2>5, <2>6
<1>4. ASSUME NEW w \in Wallets, OpenWallet(w) PROVE OwnInv'
  <2>1. /\ UNCHANGED <<platform, balance, addressList>>
        /\ detail'.wallet = w
        /\ platform = "mobile" => detail.wallet = None /\ detail'.derived = None
        /\ \A k \in loads' : \/ k \in loads
                             \/ ~k.live /\ k.by \notin {"list", "receive", "addresses"}
                             \/ k.by = "detail" /\ k.wallet = w
        /\ platform = "mobile" =>
             \A k \in loads' : k.by = "detail" /\ k.live => k.wallet = w
    BY <1>4, OpenWalletStep
  <2>2. platform = "mobile" => ~addressList.open
    BY <2>1 DEF ScreensInv
  <2>3. platform = "mobile" => \A k \in loads' : k.by # "addresses"
    BY <2>1, <2>2 DEF OwnInv
  <2> QED BY <2>1, <2>2, <2>3 DEF OwnInv, ShownIsOwn
<1>5. CASE OpenPage
  BY <1>5, OpenPageStep DEF OwnInv, ShownIsOwn
<1>6. CASE OpenReceive
  <2>1. /\ UNCHANGED <<platform, balance, addressList>>
        /\ platform = "mobile" => detail' = detail
        /\ \A k \in loads' : \/ k \in loads
                             \/ ~k.live /\ k.by = "detail"
                             \/ k.by = "receive"
    BY <1>6, OpenReceiveStep, LoadFields DEF entries
  <2> QED BY <2>1 DEF OwnInv, ShownIsOwn
<1>7. CASE refresh
  BY <1>7, refreshStep DEF OwnInv, ShownIsOwn, entries
<1>8. CASE openAddressList
  <2>1. /\ UNCHANGED <<platform, balance, detail, loads>> /\ platform = "mobile"
        /\ addressList'.open /\ addressList'.derived = detail.derived
        /\ ~addressList.open
    BY <1>8, openAddressListStep DEF entries
  <2> QED BY <2>1 DEF OwnInv, ShownIsOwn
<1>9. CASE handleRefresh
  BY <1>9, handleRefreshStep DEF OwnInv, ShownIsOwn, entries
<1>10. CASE generateAnotherAddress
  <2>1. Load("another", receive.wallet, receive.shown).by = "another"
    BY LoadFields
  <2>2. /\ UNCHANGED <<platform, balance, detail, addressList>>
        /\ \A k \in loads' : k.by \in ReceiveLoads \/ k \in loads
    BY <1>10, <2>1, generateAnotherAddressStep DEF ReceiveLoads, entries
  <2> QED BY <2>2 DEF OwnInv, ShownIsOwn, ReceiveLoads
<1>11. CASE persistBalance
  <2>1. /\ UNCHANGED <<platform, detail, addressList, loads>>
        /\ balance' = [balance EXCEPT ![detail.wallet] = detail.derived]
    BY <1>11, persistBalanceStep
  <2>2. ASSUME platform = "mobile", NEW w \in Wallets PROVE balance'[w] \in {None, w}
    BY <2>1, <2>2 DEF OwnInv, ShownIsOwn, ViewFields
  <2> QED BY <2>1, <2>2 DEF OwnInv, ShownIsOwn
<1>12. ASSUME NEW l \in loads, Ends(l) PROVE OwnInv'
  <2>1. /\ UNCHANGED platform
        /\ balance' = balance \/ balance' = [balance EXCEPT ![l.wallet] = l.wallet]
        /\ detail'.wallet = detail.wallet
        /\ \/ detail'.derived = detail.derived
           \/ l.by = "detail" /\ l.live /\ detail'.derived \in {l.wallet, None}
        /\ addressList'.open = addressList.open
        /\ \/ addressList'.derived = addressList.derived
           \/ l.by = "addresses" /\ addressList'.derived = l.wallet
        /\ \A k \in loads' :
             k \in loads \/ (k.by = "detail" /\ k.wallet = detail.wallet) \/ k.by = "receive"
    BY <1>12, LoadEnded
  <2>2. SUFFICES ASSUME platform = "mobile" PROVE OwnInv'
    BY <2>1 DEF OwnInv, ShownIsOwn
  <2>3. \A w \in Wallets : balance'[w] \in {None, w}
    BY <2>1, <2>2 DEF OwnInv, ShownIsOwn, ViewFields
  <2>4. /\ detail'.derived \in {None, detail'.wallet}
        /\ addressList'.derived \in {None, detail'.wallet}
        /\ ~addressList'.open => addressList'.derived = None
    BY <2>1, <2>2 DEF OwnInv, ShownIsOwn
  <2>5. /\ \A k \in loads' : k.by = "detail" /\ k.live => k.wallet = detail'.wallet
        /\ \A k \in loads' : k.by = "addresses" => addressList'.open /\ k.wallet = detail'.wallet
    BY <2>1, <2>2 DEF OwnInv
  <2> QED BY <2>3, <2>4, <2>5 DEF OwnInv, ShownIsOwn
<1>13. CASE UNCHANGED viewVars
  BY <1>13 DEF viewVars, entries, OwnInv, ShownIsOwn
<1> QED BY <1>1, <1>2, <1>3, <1>4, <1>5, <1>6, <1>7, <1>8, <1>9, <1>10, <1>11, <1>12, <1>13
        DEF ViewsNext

\* On mobile no late answer reaches the screen, the list or the entry of another wallet.
THEOREM OwnIsShown == ViewsSpec => []ShownIsOwn
<1>1. ViewsInit => OwnInv
  BY NoScreens DEF ViewsInit, OwnInv, ShownIsOwn
<1>2. OwnInv => ShownIsOwn
  BY DEF OwnInv
<1> QED BY <1>1, <1>2, OwnStep, ViewsInvariant, PTL DEF ViewsSpec

-----------------------------------------------------------------------------
(* What the receive screen tells *)

\* The loads that may still change the receive screen are its own: those of its effect
\* are never out of their instance, and one other at most is waited for.
WaitingInv ==
  /\ \A l \in loads : l.by = "receive" => l.live
  /\ \A l \in loads : l.live /\ l.by \in ReceiveLoads => receive.wallet = l.wallet
  /\ \A l \in loads : l.live /\ l.by = "another" => receive.generating
  /\ \A l, k \in loads : /\ l.live /\ l.by = "another"
                         /\ k.live /\ k.by = "another"
                         => l = k

\* i is unused, as far as the loads ls leave it.
Settled(i, w, ls) ==
  \/ i = None
  \/ i \notin used[w]
  \/ \E l \in ls : l.by = "receive" /\ l.current
  \/ \E l \in ls : l.by = "another" /\ l.live /\ l.captured = i

\* A sound screen shows the stored address, unused or about to be replaced: by the current
\* load, or by the one that was asked to go past it.
SoundInv ==
  receive.sound =>
    /\ receive.wallet \in Wallets
    /\ receive.shown = next[receive.wallet]
    /\ Settled(receive.shown, receive.wallet, loads)

\* The loads of the screen are left as they are, or its effect runs once more.
LEMMA WaitingKept ==
  ASSUME WaitingInv, receive'.wallet = receive.wallet,
         receive.generating => receive'.generating,
         \A k \in loads' : \/ k \in loads
                           \/ k.by \notin ReceiveLoads
                           \/ k.by = "receive" /\ k.live /\ k.wallet = receive.wallet
  PROVE  WaitingInv'
BY DEF WaitingInv, ReceiveLoads

LEMMA NothingAwaited ==
  ASSUME \A k \in loads' : k.by # "receive" /\ (k.by = "another" => ~k.live)
  PROVE  WaitingInv'
BY DEF WaitingInv, ReceiveLoads

LEMMA SoundKept ==
  ASSUME SoundInv, receive'.wallet = receive.wallet, receive'.shown = receive.shown,
         receive'.sound => receive.sound /\ used'[receive.wallet] = used[receive.wallet],
         UNCHANGED next,
         \A k \in loads : k.by \in ReceiveLoads => k \in loads'
  PROVE  SoundInv'
<1> SUFFICES ASSUME receive'.sound
             PROVE  Settled(receive.shown, receive.wallet, loads)'
  BY DEF SoundInv
<1>1. /\ Settled(receive.shown, receive.wallet, loads)
      /\ used'[receive.wallet] = used[receive.wallet]
  BY DEF SoundInv
<1> QED BY <1>1 DEF Settled, ReceiveLoads

\* A discovery that ends and stores an address.
LEMMA CommitWaits ==
  ASSUME ViewFields, WaitingInv, NEW l \in loads,
         NEW i \in Stored, NEW d \in Details, NEW r \in Receives,
         Commit(l.wallet, i, d, r, loads \ {l}), r.wallet = receive.wallet,
         r.generating = receive.generating \/ (l.by = "another" /\ l.live)
  PROVE  WaitingInv'
<1>1. l.wallet \in Wallets /\ next \in [Wallets -> Stored] /\ loads \ {l} \in SUBSET LoadRecords
  BY DEF ViewFields, LoadRecords
<1>2. /\ receive'.wallet = r.wallet /\ receive'.generating = r.generating
      /\ \A k \in loads' :
           \/ k \in loads \ {l}
           \/ k = Load("detail", l.wallet, i) /\ d.wallet = l.wallet
           \/ k = Load("receive", l.wallet, i) /\ r.wallet = l.wallet
  BY <1>1, Committed
<1>3. \A k \in loads' : \/ k \in loads \ {l}
                        \/ k.by = "detail"
                        \/ k.by = "receive" /\ k.live /\ k.wallet = receive.wallet
  BY <1>2, LoadFields
<1>4. CASE r.generating = receive.generating
  BY <1>2, <1>3, <1>4, WaitingKept DEF ReceiveLoads
<1>5. CASE l.by = "another" /\ l.live
  <2>1. \A k \in loads' : ~(k.by = "another" /\ k.live)
    BY <1>3, <1>5 DEF WaitingInv
  <2> QED BY <1>2, <1>3, <2>1 DEF WaitingInv, ReceiveLoads
<1> QED BY <1>4, <1>5

\* Where the address is new to the screen's wallet the screen shows it and checks it.
LEMMA CommitSounds ==
  ASSUME ViewFields, UNCHANGED used, NEW l \in loads,
         NEW i \in Stored, NEW d \in Details, NEW r \in Receives,
         Commit(l.wallet, i, d, r, loads \ {l}),
         r.sound /\ (next[l.wallet] = i \/ r.wallet # l.wallet)
           => /\ r.wallet \in Wallets /\ r.shown = next[r.wallet]
              /\ Settled(r.shown, r.wallet, loads \ {l})
  PROVE  SoundInv'
<1>1. l.wallet \in Wallets /\ next \in [Wallets -> Stored] /\ loads \ {l} \in SUBSET LoadRecords
  BY DEF ViewFields, LoadRecords
<1>2. /\ next' = [next EXCEPT ![l.wallet] = i]
      /\ receive'.wallet = r.wallet /\ receive'.sound = r.sound
      /\ receive'.shown = IF next[l.wallet] # i /\ r.wallet = l.wallet THEN i ELSE r.shown
      /\ next[l.wallet] # i /\ r.wallet = l.wallet => Load("receive", l.wallet, i) \in loads'
      /\ ~(next[l.wallet] # i /\ r.wallet = l.wallet) => loads \ {l} \subseteq loads'
  BY <1>1, Committed
<1>3. CASE next[l.wallet] # i /\ r.wallet = l.wallet
  <2>1. receive'.wallet \in Wallets /\ receive'.shown = next'[receive'.wallet]
    BY <1>1, <1>2, <1>3
  <2>2. \E k \in loads' : k.by = "receive" /\ k.current
    BY <1>2, <1>3, LoadFields
  <2> QED BY <2>1, <2>2 DEF SoundInv, Settled
<1>4. CASE next[l.wallet] = i \/ r.wallet # l.wallet
  <2> SUFFICES ASSUME r.sound
               PROVE  /\ receive'.wallet \in Wallets /\ receive'.shown = next'[receive'.wallet]
                      /\ Settled(receive.shown, receive.wallet, loads)'
    BY <1>2 DEF SoundInv
  <2>1. /\ r.wallet \in Wallets /\ r.shown = next[r.wallet]
        /\ Settled(r.shown, r.wallet, loads \ {l})
    BY <1>4
  <2>2. receive'.shown = r.shown /\ receive'.wallet = r.wallet /\ loads \ {l} \subseteq loads'
    BY <1>2, <1>4
  <2>3. next'[r.wallet] = next[r.wallet]
    BY <1>1, <1>2, <1>4, <2>1
  <2>4. Settled(receive.shown, receive.wallet, loads)'
    BY <2>1, <2>2 DEF Settled
  <2> QED BY <2>1, <2>2, <2>3, <2>4
<1> QED BY <1>3, <1>4

LEMMA LoadEndSounds ==
  ASSUME ViewFields, WaitingInv, SoundInv, NEW l \in loads, Ends(l)
  PROVE  WaitingInv' /\ SoundInv'
<1>0. UNCHANGED used
  BY DEF Ends
\* A screen that the answer does not touch.
<1>1. ASSUME NEW i \in Stored, NEW d \in Details,
             Commit(l.wallet, i, d, receive, loads \ {l}), ~(l.by \in ReceiveLoads /\ l.live)
      PROVE  WaitingInv' /\ SoundInv'
  <2>1. receive \in Receives
    BY DEF ViewFields
  <2>2. WaitingInv'
    BY <1>1, <2>1, CommitWaits
  <2>3. receive.sound => /\ receive.wallet \in Wallets
                         /\ receive.shown = next[receive.wallet]
                         /\ Settled(receive.shown, receive.wallet, loads \ {l})
    BY <1>1 DEF SoundInv, Settled, WaitingInv, ReceiveLoads
  <2>4. SoundInv'
    BY <1>0, <1>1, <2>1, <2>3, CommitSounds
  <2> QED BY <2>2, <2>4
<1>2. ASSUME NEW seen \in SUBSET used[l.wallet], DetailLoaded(l, seen) \/ DetailFailed(l)
      PROVE  WaitingInv' /\ SoundInv'
  <2>1. l.by = "detail"
    BY <1>2, DetailCommits
  <2>2. PICK i \in Stored, d \in Details : Commit(l.wallet, i, d, receive, loads \ {l})
    BY <1>2, DetailCommits
  <2> QED BY <1>1, <2>1, <2>2 DEF ReceiveLoads
<1>3. ASSUME NEW seen \in SUBSET used[l.wallet], ReceiveLoaded(l, seen)
      PROVE  WaitingInv' /\ SoundInv'
  <2>1. l.by = "receive" /\ receive.wallet = l.wallet
    BY <1>3, ReceiveCommits DEF WaitingInv, ReceiveLoads
  <2>2. PICK i \in Stored, r \in Receives :
          /\ Commit(l.wallet, i, detail, r, loads \ {l})
          /\ r.wallet = receive.wallet /\ r.generating = receive.generating
          /\ r.sound => seen = used[l.wallet]
          /\ \/ i \notin seen /\ r.shown = i
             \/ /\ ~l.current /\ i = next[l.wallet] /\ r.shown = receive.shown
                /\ r.sound => receive.sound
    BY <1>3, ReceiveCommits
  <2>3. detail \in Details /\ l.wallet \in Wallets
    BY DEF ViewFields, LoadRecords
  <2>4. WaitingInv'
    BY <2>2, <2>3, CommitWaits
  <2>5. ASSUME r.sound, next[l.wallet] = i
        PROVE  /\ r.wallet \in Wallets /\ r.shown = next[r.wallet]
               /\ Settled(r.shown, r.wallet, loads \ {l})
    <3>1. CASE i \notin seen /\ r.shown = i
      BY <2>1, <2>2, <2>3, <2>5, <3>1 DEF Settled
    <3>2. CASE ~l.current /\ r.shown = receive.shown /\ receive.sound
      <4>1. /\ receive.shown = next[receive.wallet]
            /\ Settled(receive.shown, receive.wallet, loads)
        BY <3>2 DEF SoundInv
      <4>2. Settled(receive.shown, receive.wallet, loads \ {l})
        BY <2>1, <3>2, <4>1 DEF Settled
      <4> QED BY <2>1, <2>2, <2>3, <3>2, <4>1, <4>2
    <3> QED BY <2>2, <2>5, <3>1, <3>2
  <2>6. SoundInv'
    BY <1>0, <2>1, <2>2, <2>3, <2>5, CommitSounds
  <2> QED BY <2>4, <2>6
<1>4. ASSUME NEW seen \in SUBSET used[l.wallet], AnotherLoaded(l, seen)
      PROVE  WaitingInv' /\ SoundInv'
  <2>1. l.by = "another"
    BY <1>4, AnotherCommits
  <2>2. PICK i \in Stored, r \in Receives :
          /\ Commit(l.wallet, i, detail, r, loads \ {l})
          /\ i \in Nat
          /\ r.wallet = receive.wallet
          /\ i = l.captured => i \notin seen
          /\ \/ ~l.live /\ r = receive
             \/ /\ l.live /\ r.shown = i /\ ~r.generating
                /\ r.sound => receive.sound /\ seen = used[l.wallet]
    BY <1>4, AnotherCommits
  <2>3. detail \in Details /\ l.wallet \in Wallets
    BY DEF ViewFields, LoadRecords
  <2>4. CASE ~l.live
    BY <1>1, <2>2, <2>3, <2>4
  <2>5. CASE l.live
    <3>1. WaitingInv'
      BY <2>1, <2>2, <2>3, <2>5, CommitWaits
    <3>2. receive.wallet = l.wallet
      BY <2>1, <2>5 DEF WaitingInv, ReceiveLoads
    <3>3. ASSUME r.sound, next[l.wallet] = i
          PROVE  Settled(i, l.wallet, loads \ {l})
      <4>1. Settled(i, l.wallet, loads) /\ seen = used[l.wallet]
        BY <2>2, <2>5, <3>2, <3>3 DEF SoundInv
      <4>2. i # None
        BY <2>2, ViewsAssumption
      <4>3. CASE \E k \in loads : k.by = "receive" /\ k.current
        BY <2>1, <4>3 DEF Settled
      <4>4. CASE \E k \in loads : k.by = "another" /\ k.live /\ k.captured = i
        <5>1. l.captured = i
          BY <2>1, <2>5, <4>4 DEF WaitingInv
        <5> QED BY <2>2, <4>1, <5>1 DEF Settled
      <4> QED BY <4>1, <4>2, <4>3, <4>4 DEF Settled
    <3>4. SoundInv'
      BY <1>0, <2>2, <2>3, <2>5, <3>2, <3>3, CommitSounds
    <3> QED BY <3>1, <3>4
  <2> QED BY <2>4, <2>5
<1>5. CASE ReceiveFailed(l) \/ AnotherFailed(l)
  <2>1. /\ UNCHANGED next /\ loads' = loads \ {l} /\ receive'.wallet = receive.wallet
        /\ \/ l.by = "receive" /\ ~receive'.sound /\ receive'.generating = receive.generating
           \/ l.by = "another" /\ l.live /\ ~receive'.sound
           \/ l.by = "another" /\ ~l.live /\ receive' = receive
    BY <1>5, ScreenLoadFails
  <2>2. WaitingInv'
    BY <2>1 DEF WaitingInv
  <2>3. CASE ~receive'.sound
    BY <2>2, <2>3 DEF SoundInv
  <2>4. CASE l.by = "another" /\ ~l.live /\ receive' = receive
    <3>1. SoundInv'
      BY <1>0, <2>1, <2>4 DEF SoundInv, Settled
    <3> QED BY <2>2, <3>1
  <2> QED BY <2>1, <2>3, <2>4
<1>6. CASE ListEnds(l) \/ AddressesEnd(l)
  <2>1. /\ UNCHANGED <<next, receive>> /\ loads' = loads \ {l}
        /\ l.by \notin ReceiveLoads
    BY <1>6 DEF ListEnds, AddressesEnd, ReceiveLoads
  <2>2. WaitingInv'
    BY <2>1, WaitingKept
  <2>3. SoundInv'
    BY <1>0, <2>1, SoundKept
  <2> QED BY <2>2, <2>3
<1>7. \/ \E seen \in SUBSET used[l.wallet] :
           DetailLoaded(l, seen) \/ ReceiveLoaded(l, seen) \/ AnotherLoaded(l, seen)
      \/ DetailFailed(l) \/ ReceiveFailed(l) \/ AnotherFailed(l)
      \/ ListEnds(l)
      \/ AddressesEnd(l)
  BY DEF Ends, Loaded, Failed
<1>8. CASE DetailFailed(l)
  <2>1. {} \in SUBSET used[l.wallet]
    OBVIOUS
  <2> QED BY <1>2, <1>8, <2>1
<1> QED BY <1>2, <1>3, <1>4, <1>5, <1>6, <1>7, <1>8

LEMMA SoundStep ==
  ViewsInv /\ WaitingInv /\ SoundInv /\ [ViewsNext]_viewVars => WaitingInv' /\ SoundInv'
<1> SUFFICES ASSUME ViewFields, ScreensInv, WaitingInv, SoundInv, [ViewsNext]_viewVars
             PROVE  WaitingInv' /\ SoundInv'
  BY DEF ViewsInv
<1> DEFINE Goal == WaitingInv' /\ SoundInv'
<1>1. CASE Pay
  <2>1. /\ UNCHANGED <<entries, loads>>
        /\ receive'.wallet = receive.wallet /\ receive'.shown = receive.shown
        /\ receive'.generating = receive.generating
        /\ receive'.sound => receive.sound /\ used'[receive.wallet] = used[receive.wallet]
    BY <1>1, PayStep
  <2>2. UNCHANGED next
    BY <2>1 DEF entries
  <2>3. WaitingInv'
    BY <2>1, WaitingKept
  <2>4. SoundInv'
    BY <2>1, <2>2, SoundKept
  <2> QED BY <2>3, <2>4
\* Screens that are not the receive screen.
<1>2. ASSUME UNCHANGED <<used, next, receive>>,
             \A k \in loads' : k \in loads \/ k.by \notin ReceiveLoads,
             \A k \in loads : k.by \in ReceiveLoads => k \in loads'
      PROVE  Goal
  <2>1. WaitingInv'
    BY <1>2, WaitingKept
  <2>2. SoundInv'
    BY <1>2, SoundKept
  <2> QED BY <2>1, <2>2
<1>3. CASE OpenList
  BY <1>2, <1>3, OpenListStep DEF ReceiveLoads, entries
<1>4. CASE OpenPage
  BY <1>2, <1>4, OpenPageStep DEF ReceiveLoads, entries
<1>5. CASE refresh
  BY <1>2, <1>5, refreshStep DEF ReceiveLoads, entries
<1>6. CASE openAddressList
  BY <1>2, <1>6, openAddressListStep DEF entries
<1>7. CASE handleRefresh
  BY <1>2, <1>7, handleRefreshStep DEF ReceiveLoads, entries
<1>8. CASE persistBalance
  BY <1>2, <1>8, persistBalanceStep
<1>9. CASE UNCHANGED viewVars
  BY <1>2, <1>9 DEF viewVars, entries
\* The receive screen goes.
<1>10. ASSUME receive' = NoReceive,
              \A k \in loads' : \/ k.by \notin ReceiveLoads
                                \/ ~k.live /\ k.by # "receive"
       PROVE  Goal
  <2>1. WaitingInv'
    BY <1>10, NothingAwaited DEF ReceiveLoads
  <2>2. SoundInv'
    BY <1>10, NoScreens DEF SoundInv
  <2> QED BY <2>1, <2>2
<1>11. CASE GoBack \/ ToWallets \/ LockApp
  BY <1>10, <1>11, CloseStep
<1>12. ASSUME NEW w \in Wallets, OpenWallet(w) PROVE Goal
  <2>1. /\ receive' = NoReceive
        /\ \A k \in loads' : \/ k \in loads /\ k.by \notin ReceiveLoads
                             \/ ~k.live /\ k.by \notin {"list", "receive", "addresses"}
                             \/ k.by = "detail" /\ k.wallet = w
    BY <1>12, OpenWalletStep
  <2> QED BY <1>10, <2>1 DEF ReceiveLoads
\* It comes, and goes past what it shows.
<1>13. CASE OpenReceive
  <2> DEFINE new == Load("receive", receive'.wallet, receive'.shown)
  <2>1. /\ receive.wallet = None /\ UNCHANGED next
        /\ receive'.wallet \in Wallets /\ receive'.shown = next[receive'.wallet]
        /\ new \in loads'
        /\ \A k \in loads' : k \in loads \/ k.by = "detail" \/ k = new
    BY <1>13, OpenReceiveStep DEF entries
  <2>2. new.by = "receive" /\ new.wallet = receive'.wallet /\ new.live /\ new.current
    BY LoadFields
  <2> HIDE DEF new
  <2>3. \A k \in loads : ~(k.live /\ k.by \in ReceiveLoads)
    BY <2>1, ViewsAssumption DEF WaitingInv, ViewFields, LoadRecords
  <2>4. \A k \in loads' : k.by = "detail" \/ k = new \/ ~(k.live /\ k.by \in ReceiveLoads)
    BY <2>1, <2>3
  <2>5. \A k \in loads' : k.by = "receive" => k.live
    BY <2>1, <2>2 DEF WaitingInv
  <2>6. WaitingInv'
    BY <2>2, <2>4, <2>5 DEF WaitingInv, ReceiveLoads
  <2>7. SoundInv'
    BY <2>1, <2>2 DEF SoundInv, Settled
  <2> QED BY <2>6, <2>7
<1>14. CASE generateAnotherAddress
  <2> DEFINE new == Load("another", receive.wallet, receive.shown)
  <2>1. /\ UNCHANGED next
        /\ ~receive.generating /\ receive'.generating
        /\ receive'.wallet = receive.wallet /\ receive'.shown = receive.shown
        /\ receive'.sound = receive.sound
        /\ new \in loads'
        /\ \A k \in loads' :
             \/ k = new
             \/ k \in loads /\ k.by # "receive"
             \/ /\ k.by = "receive"
                /\ \E l \in loads :
                     l.by = "receive" /\ l.wallet = k.wallet /\ l.live = k.live
    BY <1>14, generateAnotherAddressStep DEF entries
  <2>2. /\ new.by = "another" /\ new.wallet = receive.wallet
        /\ new.live /\ new.captured = receive.shown
    BY LoadFields
  <2> HIDE DEF new
  <2>3. \A k \in loads : ~(k.live /\ k.by = "another")
    BY <2>1 DEF WaitingInv
  <2>4. \A k \in loads' : k.live /\ k.by = "another" => k = new
    BY <2>1, <2>3
  <2>5. \A k \in loads' : k.by = "receive" => k.live /\ k.wallet = receive.wallet
    BY <2>1, <2>2 DEF WaitingInv, ReceiveLoads
  <2>6. WaitingInv'
    BY <2>1, <2>2, <2>4, <2>5 DEF WaitingInv, ReceiveLoads
  <2>7. SoundInv'
    BY <2>1, <2>2 DEF SoundInv, Settled
  <2> QED BY <2>6, <2>7
<1>15. ASSUME NEW l \in loads, Ends(l) PROVE Goal
  BY <1>15, LoadEndSounds
<1> HIDE DEF Goal
<1>16. Goal
  BY <1>1, <1>3, <1>4, <1>5, <1>6, <1>7, <1>8, <1>9, <1>11, <1>12, <1>13, <1>14, <1>15
     DEF ViewsNext, Goal
<1> QED BY <1>16 DEF Goal

\* An address that the receive screen is left with, all it was told being true of the
\* chain, has not been used: the last answer is either of the effect's load, which takes
\* an unused one, or of the load for another, which the effect then checks.
THEOREM SettledStaysUnused == ViewsSpec => []SettledIsUnused
<1>1. ViewsInit => WaitingInv /\ SoundInv
  BY NoScreens DEF ViewsInit, WaitingInv, SoundInv
<1>2. WaitingInv /\ SoundInv => SettledIsUnused
  BY DEF WaitingInv, SoundInv, Settled, SettledIsUnused, ReceiveLoads
<1> QED BY <1>1, <1>2, SoundStep, ViewsInvariant, PTL DEF ViewsSpec
=============================================================================
