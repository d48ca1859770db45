-------------------------- MODULE WalletLifecycle --------------------------
(***************************************************************************)
(* How a wallet of the desktop comes and goes: the create and import       *)
(* flows (packages/app-flows), which write the keychain and then hand the  *)
(* new id to the wizard's last screens; the wallet registry and its        *)
(* asynchronous writes to disk; the deletion in the danger zone; the lock, *)
(* which unmounts the screens of all of them; a process that ends at any   *)
(* point of these.                                                         *)
(*                                                                         *)
(* A wallet's keychain entries are its "key" (mnemonic, seed or xpub) and  *)
(* its "type". The keychain may refuse any single call.                    *)
(***************************************************************************)
EXTENDS Naturals, FiniteSets

CONSTANTS
  Ids,      \* wallet ids the runtime may create
  Names,    \* names the user may give
  NoId      \* no wallet

ASSUME LifecycleAssumption == NoId \notin Ids /\ Names # {}

Entries == {"key", "type"}

VARIABLES
  secrets,    \* the keychain: the entries of each wallet
  registry,   \* the wallet list in memory
  named,      \* the name each listed wallet has
  writes,     \* registry snapshots on their way to the disk
  disk,       \* the registry a restart finds
  attempt,    \* how far the flow that made each id has come
  kind,       \* which flow that is: "create" or "import"
  busy,       \* the attempt the mounted screen shows as running, or NoId
  step,       \* "home", "pick" (verify or import screen), "name", "done", "locked"
  current,    \* the id the name and done screens were navigated to with
  chosen,     \* the name they carry
  deleting,   \* wallets whose deletion runs
  deleted,    \* history: wallets whose deletion was confirmed
  failed,     \* history: attempts that reported an error
  refused     \* history: wallets one of whose entries the keychain kept

keychain == <<secrets, refused>>
walletList == <<registry, named, writes>>
flow == <<attempt, kind, busy>>
wizard == <<step, current, chosen>>
deletion == <<deleting, deleted>>
vars == <<keychain, walletList, disk, flow, wizard, deletion, failed>>

Init ==
  /\ secrets = [w \in Ids |-> {}] /\ refused = {}
  /\ registry = {} /\ named = [w \in Ids |-> CHOOSE n \in Names : TRUE]
  /\ writes = {} /\ disk = {}
  /\ attempt = [w \in Ids |-> "none"] /\ kind = [w \in Ids |-> "create"]
  /\ busy = NoId
  /\ step = "home" /\ current = NoId /\ chosen = CHOOSE n \in Names : TRUE
  /\ deleting = {} /\ deleted = {} /\ failed = {}

-----------------------------------------------------------------------------
(* The create and import flows *)

\* handleVerify or importWallet, past its checks; isVerifying and isImporting
\* belong to the screen, so a screen mounted anew may start another.
Start(w) ==
  /\ step = "pick" /\ busy = NoId /\ attempt[w] = "none"
  /\ \E k \in {"create", "import"} : kind' = [kind EXCEPT ![w] = k]
  /\ attempt' = [attempt EXCEPT ![w] = "storingKey"]
  /\ busy' = w
  /\ UNCHANGED <<keychain, walletList, disk, wizard, deletion, failed>>

StoreKey(w) ==
  /\ attempt[w] = "storingKey"
  /\ secrets' = [secrets EXCEPT ![w] = @ \cup {"key"}]
  /\ attempt' = [attempt EXCEPT ![w] = "storingType"]
  /\ UNCHANGED <<refused, walletList, disk, kind, busy, wizard, deletion, failed>>

\* The screen's continuation navigates even after the screen was left; a locked
\* app drops every path onto the unlock screen.
GoToWalletName(w) ==
  /\ attempt' = [attempt EXCEPT ![w] = "done"]
  /\ IF step = "locked" THEN UNCHANGED <<step, current>>
                        ELSE step' = "name" /\ current' = w
  /\ busy' = NoId
  /\ UNCHANGED <<kind, chosen>>

\* Seeded fault: the name is asked for before the type has been stored.
NameBeforeType(w) ==
  /\ attempt[w] = "storingType"
  /\ GoToWalletName(w)
  /\ UNCHANGED <<keychain, walletList, disk, deletion, failed>>

StoreType(w) ==
  /\ attempt[w] = "storingType"
  /\ secrets' = [secrets EXCEPT ![w] = @ \cup {"type"}]
  /\ IF kind[w] = "create"
     THEN GoToWalletName(w)
     ELSE /\ attempt' = [attempt EXCEPT ![w] = "discovering"]
          /\ UNCHANGED <<kind, busy, wizard>>
  /\ UNCHANGED <<refused, walletList, disk, deletion, failed>>

Discover(w) ==
  /\ attempt[w] = "discovering"
  /\ GoToWalletName(w)
  /\ UNCHANGED <<keychain, walletList, disk, deletion, failed>>

\* Any await of the flow may throw.
Throw(w) ==
  /\ attempt[w] \in {"storingKey", "storingType", "discovering"}
  /\ attempt' = [attempt EXCEPT ![w] = "rollback"]
  /\ UNCHANGED <<keychain, walletList, disk, kind, busy, wizard, deletion, failed>>

\* deleteWalletSecrets: four deletions at once, each failure swallowed.
DeleteWalletSecrets(w) ==
  \E left \in SUBSET secrets[w] :
    /\ secrets' = [secrets EXCEPT ![w] = left]
    /\ refused' = IF left = {} THEN refused ELSE refused \cup {w}

\* Seeded fault: a rollback forgets the type.
RollbackKeyOnly(w) ==
  /\ attempt[w] = "rollback"
  /\ secrets' = [secrets EXCEPT ![w] = @ \ {"key"}]
  /\ attempt' = [attempt EXCEPT ![w] = "done"]
  /\ busy' = IF busy = w THEN NoId ELSE busy
  /\ failed' = failed \cup {w}
  /\ UNCHANGED <<refused, walletList, disk, kind, wizard, deletion>>

Rollback(w) ==
  /\ attempt[w] = "rollback"
  /\ DeleteWalletSecrets(w)
  /\ attempt' = [attempt EXCEPT ![w] = "done"]
  /\ busy' = IF busy = w THEN NoId ELSE busy
  /\ failed' = failed \cup {w}
  /\ UNCHANGED <<walletList, disk, kind, wizard, deletion>>

-----------------------------------------------------------------------------
(* The wizard's last screens *)

\* Every change of the store starts a write of its whole state.
SetRegistry(r) == registry' = r /\ writes' = writes \cup {r}

\* Seeded fault: only the wallets written to disk are compared with.
ContinueAgainstDisk(n) ==
  /\ step = "name"
  /\ ~\E w \in disk : named[w] = n
  /\ step' = "done" /\ chosen' = n
  /\ UNCHANGED <<keychain, walletList, disk, flow, current, deletion, failed>>

ContinueToSetupSuccess(n) ==
  /\ step = "name"
  /\ ~\E w \in registry : named[w] = n
  /\ step' = "done" /\ chosen' = n
  /\ UNCHANGED <<keychain, walletList, disk, flow, current, deletion, failed>>

\* "Open wallet".
CreateWallet ==
  /\ step = "done"
  /\ SetRegistry(registry \cup {current})
  /\ named' = [named EXCEPT ![current] = chosen]
  /\ step' = "home" /\ current' = NoId
  /\ UNCHANGED <<keychain, disk, flow, chosen, deletion, failed>>

\* Seeded fault: the list opens with the wizard's state still in its location.
BackWithState ==
  /\ step = "done"
  /\ step' = "home"
  /\ UNCHANGED <<keychain, walletList, disk, flow, current, chosen, deletion, failed>>

\* "Back to wallets list".
BackToWallets ==
  /\ step = "done"
  /\ step' = "home" /\ current' = NoId
  /\ UNCHANGED <<keychain, walletList, disk, flow, chosen, deletion, failed>>

\* The menu item reaches the wizard from everywhere, its own screens included.
NewWallet ==
  /\ step # "locked"
  /\ step' = "pick" /\ current' = NoId
  /\ busy' = NoId
  /\ UNCHANGED <<keychain, walletList, disk, attempt, kind, chosen, deletion, failed>>

-----------------------------------------------------------------------------
(* Deletion, the disk, the end of the process *)

HandleDelete(w) ==
  /\ step = "home" /\ w \in registry \ deleting
  /\ deleting' = deleting \cup {w}
  /\ deleted' = deleted \cup {w}
  /\ UNCHANGED <<keychain, walletList, disk, flow, wizard, failed>>

\* The registry forgets the wallet once the deletions have been answered.
FinishDelete(w) ==
  /\ w \in deleting
  /\ DeleteWalletSecrets(w)
  /\ SetRegistry(registry \ {w})
  /\ deleting' = deleting \ {w}
  /\ step' = IF step = "locked" /\ registry' # {} THEN "locked" ELSE "home"
  /\ current' = NoId
  /\ busy' = NoId
  /\ UNCHANGED <<named, disk, attempt, kind, chosen, deleted, failed>>

\* The idle timer, the menu or a closed window locks: every screen is swapped for
\* the unlock screen, what they started goes on. Without a wallet nothing is.
Lock ==
  /\ registry # {} /\ step # "locked"
  /\ step' = "locked" /\ current' = NoId
  /\ busy' = NoId
  /\ UNCHANGED <<keychain, walletList, disk, attempt, kind, chosen, deletion, failed>>

Unlock ==
  /\ step = "locked"
  /\ step' = "home"
  /\ UNCHANGED <<keychain, walletList, disk, flow, current, chosen, deletion, failed>>

\* Each write carries the state of its moment; they are not queued.
Persist(r) ==
  /\ r \in writes
  /\ writes' = writes \ {r}
  /\ disk' = r
  /\ UNCHANGED <<keychain, registry, named, flow, wizard, deletion, failed>>

Restart ==
  /\ registry' = disk
  /\ writes' = {}
  /\ attempt' = [w \in Ids |-> IF attempt[w] = "none" THEN "none" ELSE "done"]
  /\ busy' = NoId
  /\ step' = IF disk = {} THEN "home" ELSE "locked"
  /\ current' = NoId
  /\ deleting' = {}
  /\ UNCHANGED <<keychain, named, disk, kind, chosen, deleted, failed>>

Attempt(w) ==
  \/ StoreKey(w)
  \/ StoreType(w)
  \/ Discover(w)
  \/ Throw(w)
  \/ Rollback(w)

Next ==
  \/ \E w \in Ids : Start(w) \/ Attempt(w) \/ HandleDelete(w) \/ FinishDelete(w)
  \/ \E n \in Names : ContinueToSetupSuccess(n)
  \/ CreateWallet
  \/ BackToWallets
  \/ NewWallet
  \/ Lock
  \/ Unlock
  \/ \E r \in SUBSET Ids : Persist(r)
  \/ Restart

Spec == Init /\ [][Next]_vars

-----------------------------------------------------------------------------
Attempts == {"none", "storingKey", "storingType", "discovering", "rollback", "done"}

TypeOK ==
  /\ secrets \in [Ids -> SUBSET Entries] /\ refused \subseteq Ids
  /\ registry \subseteq Ids /\ named \in [Ids -> Names]
  /\ writes \subseteq SUBSET Ids /\ disk \subseteq Ids
  /\ attempt \in [Ids -> Attempts] /\ kind \in [Ids -> {"create", "import"}]
  /\ busy \in Ids \cup {NoId}
  /\ step \in {"home", "pick", "name", "done", "locked"}
  /\ current \in Ids \cup {NoId} /\ chosen \in Names
  /\ step \in {"name", "done"} <=> current # NoId
  /\ deleting \subseteq deleted /\ deleted \subseteq Ids
  /\ failed \subseteq Ids

\* A wallet that is listed, or that a restart may list, has all its keychain
\* entries, unless the user asked for its deletion: whatever is abandoned, fails
\* late or ends with the process, no listed wallet has lost its key.
ListedHaveKeys ==
  \A w \in registry \cup disk \cup UNION writes :
    secrets[w] = Entries \/ w \in deleted

\* An attempt that reported an error leaves nothing behind and is never listed,
\* unless the keychain refused the rollback itself (the flows: "so the user does
\* not accumulate orphaned Keychain entries").
FailedLeaveNothing ==
  \A w \in failed : w \notin registry /\ (secrets[w] = {} \/ w \in refused)

\* Two listed wallets never share a name: the name is checked on one screen and
\* used on the next, with other attempts and deletions ending in between.
NamesAreUnique == \A v, w \in registry : named[v] = named[w] => v = w
=============================================================================
