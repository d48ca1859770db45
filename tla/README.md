# Pearlkeeper client: a TLA+ model

Pearlkeeper is a self-custodial wallet: a React Native app (`apps/mobile`), a
Tauri app (`apps/desktop`, TypeScript in a webview and Rust behind it) and the
packages both share. This directory holds TLA+ modules for the parts of it where
asynchronous calls, crashes, lost answers or several screens make the code hard to
test, TLC configurations that check them on small instances, and TLAPS proofs for
every value of the constants. File names below are relative to the repository.

## The system

| part | its state | its operations | who it talks to |
|---|---|---|---|
| Coin selection (`packages/core/src/tx.ts`) | the loop's locals | `selectUtxos`, `estimateFee` | called by the preview and by signing (`packages/services/src/transaction`) |
| Send form (`app-flows/src/flows/send/useSend*.ts`, the address, amount and fee screens) | recipient, amount, tier and rate, the subtract switch, the prepared wallet | type, paste, scan, validate, prepare, sign | oracle and node (rates), discovery, Blockbook (coins) |
| Send flow (`flows/send/useSendBroadcast.ts`, review and success screens) | signed handle, txid, two mutations of the query library | prepare/sign, broadcast, confirm, retry, discard, send another | Blockbook, the network gate, the sensitive-operation gate |
| Network gate (`networkGateStore.ts`, `platform/networkGate.ts`, `network_gate.rs`) | open or closed, mirrored in the Rust process and in `onlineManager` | toggle | every request; pauses and resumes mutations |
| Lock and PIN, desktop (`lockStore.ts`, `pinStore.ts`, `PINUnlockScreen.tsx`, `factoryReset.ts`) | `isLocked`, `failedAttempts`, `lockUntil`, `hasPIN`, the hash in the OS keychain | submit a PIN, lock (idle, menu, close), wipe, set a PIN | registry and keychain (wipe), route tree |
| Sensitive-operation gate (`apps/desktop/src/security`) | step of the dialog, `confirmedRef`, wrong attempts | trigger, submit a PIN, dismiss, confirm the warning | lock store, network gate, the screen that waits for it |
| Desktop shell (`App.tsx`, `main.tsx`, `HydrationGate.tsx`, `nativeMenu`, `revealRegistry.ts`, wizard screens) | route, location state, the wizard's phrase, menu items, the revealed phrase | boot, navigate, redirect, reveal, hide on blur or lock | lock store, keychain, sensitive-operation gate |
| Wallets (`flows/create`, `flows/import`, `walletListStore.ts`, `platform/secrets.ts`, `DangerZone.tsx`) | keychain entries per wallet, registry in memory and on disk, the wizard's location state | create, import, roll back, name, open, delete | keychain, durable storage, router, lock |
| Storage, desktop (`platform/storage.ts`, `src-tauri/src/storage.rs`) | the plugin's map, `wallet-state.json` | `getItem`, `setItem`, the atomic save | the stores, which do not await it |
| Mobile session (`bootstrapSecurity.ts`, `firstBootWipe.ts`, `AppNavigator.tsx`, PIN screens, `AppStateListener`) | version mark, AsyncStorage, SecureStore, hydration, lock, PIN, focused screen | first-boot wipe, unlock, biometrics, set and change a PIN, wipe, create, background | AsyncStorage, SecureStore, AppState |
| Push (`NotificationsScreen.tsx`, `pushListenersSetup.tsx`, `services/notifications`) | switch, cached query, device token, the backend's row | enable, disable, sub-toggle, token rotation | the system's permission, the backend |
| Wallet views (`services/src/address`, `useReceiveFlow.ts`, `useWalletDetailFlow.ts`, wallet list, address list) | stored receive address, last balance, loads in flight | gap-limit scan, load, refresh, generate another address | Blockbook, wallet registry |
| Attestation, signed config, price feed, updater, clipboard, Rust keychain commands | caches and tokens | enrol, poll, clear | their backends |
| Cryptography (`derive.ts`, `keys.ts`, `mnemonic.ts`, `signing.ts`, ...) | none | pure functions | |

What interacts: the lock unmounts every screen while what they started goes on; the
unlock screen and the re-PIN dialog count failures in one store; closing the network
gate pauses mutations that outlive their screen; the keychain is written several
screens before the registry that makes a wallet visible; the registry reaches the
disk by writes that are not queued; a receive address stored by one screen restarts
the loads of the others; a wallet entry that changes restarts the preparation of the
send form; a wizard's continuation navigates wherever the user is by then.

What makes each part correct, in short:

* selection: the fee is fair, and an affordable payment is found when every coin is
  worth its input;
* send form: what is signed pays a valid recipient the amount that was validated, and
  with a connection the review screen comes to an end;
* send flow: what reaches the network was confirmed, and once, whatever answers are
  lost; the buttons come back when the network does;
* lock: a wipe needs ten refused PINs and leaves no key without its wallet (crashes
  included);
* gate: an operation runs only after a right PIN, and whoever waits is answered;
* shell: a phrase is shown after a PIN typed since it was last cleared, hidden when the
  window loses focus, and no wallet is created whose phrase was never shown;
* wallets: a listed wallet has its keys, a failed attempt leaves nothing, names are
  unique;
* storage: the file is always a whole state, old or new, and follows the stores;
* mobile session: the first-boot wipe may end anywhere and neither leaves a v1.0 key
  behind its mark nor loses a wallet; wallets are behind a PIN; the spinner ends;
* push: nobody is registered who did not ask, the switch tells what the backend has,
  the backend has the device's token;
* views: the address handed out is found again and, at rest, unused; one wallet's
  data stays off another's screen.

The code keeps these in most of its behaviours and not in all: what the properties
exclude, and where the code does otherwise, is under "Disagreements".

`PROJECT.json` lists every component with its sources and status, and every hazard at
its line.

## Modules

| module | models | composes |
|---|---|---|
| `CoinSelection` | `selectUtxos`, one action per way an iteration can end | |
| `SendForm` | both apps' address, amount and fee screens, the scanner, `useSendFlowInit`, the signing mutation | |
| `SendFlow` | `useSendBroadcast`, the review and success screens of both apps, the mutations, the backend | |
| `LockStore` | the lock store's setters, each a part of its caller's step | |
| `PinUnlock` | the desktop's unlock screen, its wipe, the lock's other callers, restarts | `LockStore` |
| `SensitiveOpGate` | the gate, `RePinDialog`, `SensitiveOpWarning` | `LockStore` |
| `WalletLifecycle` | create, import, naming, listing, deletion, the lock, disk writes, restarts | |
| `MetadataFile` | the abstract file: whole, old or new, whatever ends the process | |
| `DurableStorage` | persisted stores, hydration, `setItem`, the atomic save, kills and losses of power | `MetadataFile` (refinement) |
| `MobileSession` | boot, navigator, PIN screens, biometrics, wizard, wipe, background, restarts of the mobile app | |
| `DesktopShell` | boot, route trees, menu, wizards, lock, seed phrase screen of the desktop app | |
| `PushRegistration` | notifications screen, rotation listener, cached query, the backend's row | |
| `WalletViews` | discovery, wallet list, detail flow, receive screen, address list | |
| `MC*` | small instances for TLC | the module they name |
| `Sending_proofs` | theorems of `CoinSelection`, `SensitiveOpGate`, `SendForm` | those |
| `Wallets_proofs` | theorems of `WalletLifecycle`, `WalletViews` | those |
| other `*_proofs` | theorems and their proofs | the module they name |

One user session crosses several modules; each takes from the others the one thing
it needs. `SendForm` has the form and the signing mutation, and ends with the signed
transaction; `SendFlow` has both mutations, the broadcast and the network, and takes the
form as one value; `DesktopShell` takes a PIN as one answer, which `SensitiveOpGate` and
`PinUnlock` split, although it may come after a blur; `MobileSession` stores a wallet's
keys in one step, which `WalletLifecycle` splits into its writes.

The components of `Sending_proofs` share no state, nor do those of `Wallets_proofs`:
each theorem is about the specification of one of them. So that their names do not
clash there, the definitions every module has are `CoinInit`, `GateNext`, `ViewsSpec`
and so on in `CoinSelection`, `SensitiveOpGate` and `WalletViews`.

### CoinSelection

State: the loop's locals (`taken` is `selected.length`) and its inputs. The sort is
part of `Init`: every ascending list is the sort of some input. An iteration pushes
a coin and then is one of `TakeNotEnough`, `TakeExact`, `TakeFolded`,
`TakeWithChange`; `Exhausted` is the return after the loop. Virtual bytes are counted
in halves so that `Math.ceil(10.5 + 57.5 in + 43 out)` is an integer division.

### SendForm

`platform` is fixed by `Init`. The desktop screens keep what is typed to themselves:
`DesktopAddressNext(a)`, `DesktopAmountNext(sats)` and `DesktopFeeNext(f)` validate and
store at once. The mobile screens write every keystroke into the provider
(`setRecipientAddress`, `EnterAmount`, `EnterFee`) and validate on Next. A pasted URI
stores its amount, a scanned one drops it, and a camera permission granted late opens
the scanner over a later screen. `init` is `useSendFlowInit`: `TypeRead`, `Discovered`,
and `WalletUpdated` when a mobile screen below stores a balance and the effect runs
again. `coins` and `live` are the chain and the rates, which move under the form;
`balanceLoading` is mobile's balance query. The operators `activeFeeRate`,
`recipientAmountSats`, `canSend` are the memos of those names.

`signing` is the sign mutation: `paused` while the device is offline, then `running`,
with what its function read when it began to run (`SigningClosure`), then signed or
refused: it looks coins up in the network and may find the wallet empty. `mutateAsync`
does not fix the form: the query library gives a pending mutation the options of each
render, so one that was paused runs with the latest form. `drifted` records that the
form was changed under a paused signing.

### SendFlow

One visit to the send flow. The form is one value; a signed transaction is the form
it pays and the coin it spends (each coin is big enough, the smallest unspent is
taken). `platform` selects the handlers of one app. A mutation is an entry of `calls`:
`signPaused`/`broadcastPaused` is a mutation the query library holds back while
`onlineManager` is offline, `sent` one whose answer is awaited. A signing that is held
back runs with the closure of the latest render: `Edit` changes the form it will sign,
and `retyped` collects such forms (the payload of a held-back broadcast is an argument
and stays). `net`, `accepted` and
`indexed` are the backend: submissions on their way, the mempool, and what the indexer
already counts as spending. A submission can be lost, accepted without its answer
arriving, and indexed late. `scheduler` starts TRUE because `installNetworkGate` only
follows changes of the gate.

### LockStore and PinUnlock

A submission of six digits is asynchronous (`reading`, `verifying`, then the wipe's
`deleting` and `deletingHash`), the digits can be edited while it runs, and it closes
over the wallets of its render: so `calls` holds several. `lockUntil` keeps whether
the cooldown is running, not how long it lasts. The first-launch, locked and main
trees of `App.tsx` are the operators `FirstLaunch`, `Locked`, `Main`. `Restart` may
happen between any two steps; nothing of the lock store is persisted.

### SensitiveOpGate

`step` is the component's, plus `gone` once the lock has unmounted its screen; a
session is one call of `trigger`. `tier` is fixed by `Init`: the seed phrase
(`type-to-confirm`) or the broadcast button (`explain`). The answer of a PIN acts on
the gate as it then is, and the warning opens one animation frame later (`frames`).

### WalletLifecycle

Each id is one attempt of a flow: `storingKey`, `storingType`, `discovering` (imports)
and then the hand-over of the id to the name screen; any await may throw and then
`Rollback` runs. `step` is the mounted screen, with `current` and `chosen` the
location state of the last two. `writes` are registry snapshots on their way to disk,
in no order. `Lock` unmounts every screen, except in the first-launch tree, which
does not look at the lock; what runs goes on, and its navigation lands on the unlock
screen.

### DurableStorage and MetadataFile

`DurableStorage` follows a store's change to the disk: `Set` changes the store and
starts a call that nobody awaits; `StoreSet`, `Serialize` and `metadata_save_atomic`
are the commands the call awaits one after the other, between which other calls run;
`SaveRefused` is any error before the rename. `getItem` and `Hydrate` are a store's
start. `file` is what the system shows, `durable` what a loss of power leaves: the
temporary file is synced before the rename, the directory is not, so a rename reaches
the disk at some later time (`Flush`). `Kill` and `PowerLoss` may happen between any
two steps. `MetadataFile` says what the comments promise ("old-or-new on power loss"):
its file only ever takes states that the process held or that were on the file when
it started. `Abstract == INSTANCE MetadataFile WITH ...` maps `memory`, `file` and the
history variable `held` by their names; every other variable is hidden.

### MobileSession

`version`, `v1`, `registry`, `keys`, `pin` survive a process; the rest is memory.
AsyncStorage serves its calls in the order they were made, so `io` is a queue of the
hydration's read, the wipe's read, clear and mark, and the writes of the registry
store; any of them may be refused. SecureStore calls are single steps. `boot` is
`initializeSecurityState` (`ReadVersion`, `DeleteSecureKeys`, `ClearAllData`,
`SetDataVersion`, `LoadPin`), which runs beside `Hydrate`. `Tree` is the navigator's
choice of screens; `Show` keeps the focused screen when the new tree has it and falls
back to the tree's first screen otherwise. `calls` are PIN verifications in flight,
`saves` PIN records on their way to the keychain, each with the screen that started
it (`left` once a later instance is mounted). `prompt` belongs to the system: its
answer may come in the background. `Background` locks; `Foreground` resets the PIN
screens to Welcome; `Restart` may happen between any two steps.

### DesktopShell

`Tree` and `Fallback` are the three `<Routes>` of `App.tsx` and their catch-alls;
`Landed` adds the guards of the wizard screens, and every navigation of the module goes
through it, after the stores of the step have their next values. `jobs` are
continuations that will navigate wherever the user is by then: keys being stored, a
PIN being saved. The entry shown is always the last one of the in-memory history,
because every Back button moves forward. `menu` are the enabled items, which follow
the state late. `reveal` is the local state of `SeedPhraseScreen`; `focus` the window
and the two events of a lost focus (Tauri's, which React may draw before or after the
registry's microtask, and the browser's, which it draws at once). `reveal.typed` says
that a PIN was typed since the screen was opened or last cleared, `reveal.late` that a
PIN typed before a clearing is still being checked: its answer is not called back.
`Lock` acts on the *change* of the flag, as `installLockClear` does.

### PushRegistration

`row` is the backend's registration; a call of `calls` is `paused` while the query
library holds it back offline, `sent`, then `served` (it has taken effect), then
answered, or it fails once it was sent: a lost answer is a failure after the effect. The
ten seconds a request has begin when it is sent. The listener's calls do not go through
the library. `cache`, `fetch` and `stale` are the query `["push-prefs"]`; `Synced` is the
effect that copies its data into the switch, which does not run for data equal to the
old. An invalidation fetches anew, but while there is no data yet the library keeps the
first fetch (`FirstFetch`). `asking` is the permission: `PermissionAnswered`, or
`PermissionRejected`, which ends the handler with the switch greyed out. A rotation uses
the cached preferences, or asks the backend (`prefs`, then `opted-in` or `opted-out`).
Whether some wallet has an address to subscribe is a choice at each use. The history
variables say when the promise is due: `off` (the app knows the user to be opted out),
`clean` (this mount fetched and nothing failed or overlapped), `lagging` (a registration
failed, met another, or had no address).

### WalletViews

An address is its index. `Scanned` is how far the gap-limit scan reads, given the
addresses it sees used; an answer of a discovery is any subset of those that are used,
so that a failed lookup, counted by the code as unused, and one that came before a
payment, are the same case. A load carries what its closure captured, whether its
screen still lives, and whether the receive screen still waits for it (`current`).
`Commit` is the store's `setNextReceiveAddress` with the two effects that depend on it.
`Opened` keeps the desktop's component instance when the sidebar leads from one wallet
to another, and makes a new one on mobile.

## Runs

Each run checks every property of its module that the instance is made for; the
violation run checks one.

| run | instance | distinct states | checks |
|---|---|---|---|
| `MCCoinSelection` | up to 4 coins of 9 values, 2 targets, 1-2 outputs, 2 rates | 24,150 | `FeeIsFair`, `CompleteWhenEconomical` |
| `MCSendForm` | a good and a bad address, amounts 0 and 2, balances 0 and 3, rate 1 with fallback 2 | 675,472 | `TypeOK`, `SignedIsPayable`, `ReviewedWasChecked`, `ReviewNeverHangs` |
| `MCSendFlow` | 2 forms, 2 coins, 5 mutations (3 on mobile) | 584,730 | `TypeOK`, `OnePaymentPerVisit`, `OnlyConfirmedIsPaid`, `OneCallUnderWay`, `ButtonsComeBack` |
| `MCPinUnlock` | 2 wallets, 2 submissions at once, 12 failures | 118,673 | `TypeOK`, `WipeNeedsTenRefusals`, `ForgottenHasNoSecrets` |
| `MCSensitiveOpGate` | 2 submissions at once, 3 sessions, 5 PINs, both tiers | 309,635 | `EveryConfirmHasItsPin`, `NobodyIsLeftWaiting` |
| `MCWalletLifecycle` | 3 wallets (symmetric), 2 names | 3,316,189 | `TypeOK`, `ListedHaveKeys`, `FailedLeaveNothing`, `NamesAreUnique` |
| `MCDurableStorage` | 2 stores, 2 values, 2 calls at once (symmetric), 3 maps per process | 1,146,283 | `FileFollowsStores`, `OldOrNew` (refinement) |
| `MCMobileSession` | 1 wallet, 1 verification at once, 2 waiting storage calls, restarts unbounded | 372,368 | `TypeOK`, `MarkedMeansWiped`, `ListSurvives`, `WalletsHavePin`, `SpinnerEnds` |
| `MCDesktopShell` | 2 phrases (symmetric) and an import | 154,424 | `TypeOK`, `RevealNeedsFreshPin`, `BlurHides`, `EveryPhraseWasShown` |
| `MCPushRegistration` | 1 sub-toggle, 2 tokens, 2 calls at once | 522,012 | `TypeOK`, `OffStaysOff`, `SwitchTellsTruth`, `TokenIsCurrent`, `SwitchComesBack` |
| `MCWalletViews` | 2 wallets, a gap of 2, 2 addresses that get paid, 2 loads when one more is started | 609,475 | `ViewsTypeOK`, `StoredIsFound`, `SettledIsUnused`, `ShownIsOwn` |
| `MCSendFormShown` | as `MCSendForm` | | `ShownAmountIsSigned`, violated |

What they show:

* `MCSendForm`: pasted and scanned URIs, late permissions, moving balances and rates
  never get an invalid recipient signed, nor a wallet without a key, nor an amount that
  was not validated, but for one typed on mobile under a signing that is held back.
* `MCSendFlow`: lost answers, retries and a gate that closes at any time pay nothing
  unconfirmed, but for the same exception; on the desktop never twice in a visit; on
  mobile never with two calls at once.
* `MCPinUnlock`, `MCSensitiveOpGate`: overlapping PIN submissions and a dialog that is
  dismissed or locked away under them.
* `MCWalletLifecycle`, `MCDurableStorage`: crashes between any two writes, writes that
  arrive out of order.
* `MCMobileSession`: processes that end inside the first-boot wipe, storage calls that
  are refused, saves and prompts that end after their screen.
* `MCDesktopShell`: continuations of abandoned wizards, locks and blurs around a
  reveal: a consent does not outlive a clearing, and a wallet is never created from a
  phrase that was not shown.
* `MCPushRegistration`: rotations that meet a cached or a stale query, answers lost
  after they took effect, calls held back offline under a screen that leaves.
* `MCWalletViews`: loads that end late, over a chain that moves and lookups that fail;
  on mobile, with two wallets whose screens follow one another.

Bounds, and why they are enough:

* `MCCoinValues` sits on both sides of every threshold: a coin's own input fee at one
  and two satoshis per byte (58, 116), dust (294) as change, and a target missed or
  met by one. Four coins are enough for an uneconomical prefix before a large coin.
* `Amounts` {0, 2} and `Balances` {0, 3} with `Vbytes` 1, a live rate of 1 and the
  fallback 2: an amount that is nothing, one that the balance pays at the live rate and
  does not at the fallback, and an empty wallet, before and after the balance moves.
* `MaxCalls` 5 on the desktop's send flow: a signing, a failed broadcast, its
  repetition, and a second round after "Send another"; `MobileCalls` 3: a payment that
  was held back or failed, and two retries. Two coins let a second transaction differ from the first.
* `MaxFailures` 12 is two past the limit: two submissions judged after the tenth.
* Three sessions and five PINs: a session whose answer arrives two sessions later,
  and one that ends by three wrong PINs and is reopened.
* `MaxMaps` 3: the map on the file and two changes, enough for a save that ends after
  a newer one and for a file that is two renames ahead of the disk. Processes are not
  bounded.
* Three ids: a listed wallet, one in the wizard, and one that is deleted or abandoned
  meanwhile; two names, so that a third wallet must clash or reuse a freed one.
* `MobileSession`: one wallet is enough for every tree and every registry write to
  matter; `MaxIO` 2 lets a write wait behind one of the boot's calls. Two verifications
  act alike: `PinUnlock` has the overlaps that count. The proofs cover any number of each.
* Two phrases: the wizard's and the one of a continuation that overtakes it.
* `MaxToken` 2 is one rotation: a third token adds only what `lagging` excludes;
  `MaxCalls` 2 is a rotation that meets a switch.
* `GAP_LIMIT` 2 with a history at index 1: a scan that goes past one unused address,
  and one that a failed lookup ends early. `MaxAsked` 2 bounds what the user starts;
  loads started by effects come on top.

Every property has a mutant in `PROJECT.json` ("Seeded fault" operators in the
modules): a plausible bug in a modelled definition that makes the run report it.

### Disagreements

| run | what happens | where the repository says otherwise |
|---|---|---|
| `MCSendFormShown` | with the subtract-fee switch on, the review shows the amount less the fee and the full amount is signed, with the fee on top (`SendFlowProvider.tsx:264`); sending the whole balance fails | `SendAmountScreen.tsx:176` (desktop), `SendFeeScreen.tsx:95` (mobile) |

Others were met while modelling. Each is a path of a passing run (the property is
stated so as to be true of the code) or a fact of a single line; none has a run of its
own.

Send form and send flow:

* The desktop's signed handle does not depend on the rates: when the oracle answers on
  the review screen, the fee shown changes and the transaction does not.
* The desktop's `feeSchema` lets an empty custom rate pass; 1 sat/vB is used silently.
* Mobile: a failed preparation shows "Retry" on a button that is disabled
  (`SendReviewScreen.tsx`, `canSend`). A camera permission granted late opens the scanner
  over a later screen, where a scan replaces the validated recipient without a check;
  signing is what refuses a bad one.
* `isWatchOnly` is read by mobile's address screen only; the desktop's send screens reach
  the review with a watch-only wallet and fail there.
* `selectUtxos` never drops a coin it took, so coins worth less than their input fee
  can make an affordable payment fail (`tx.ts:152` against `tx.test.ts:83`).
  `CompleteWhenEconomical` states when it is complete.
* The desktop's signing panel says no network is needed (`SendReviewScreen.tsx:177`);
  signing discovers addresses and collects coins first (`preview.ts:63`), so that with
  the gate closed it never ends.
* A signing that waits for the connection does not keep the form it was asked for. On
  mobile, which says "Confirm details before broadcasting" (`SendReviewScreen.tsx:113`),
  "Confirm & Send" pressed offline is paused, Back is disabled only while broadcasting
  (`:89`), and what is typed meanwhile is what is signed and broadcast when the device
  is online again, although it was neither confirmed nor, half typed, validated: an
  amount of 0 included. `OnlyConfirmedIsPaid` and `SignedIsPayable` allow for exactly
  these forms. On the desktop the handle is compared with the form before it is shown,
  and the properties hold without exception.
* A broadcast that the closed gate paused belongs to the query library, not to the
  screen: it goes out when the gate opens, also after "Discard transaction?"
  (`SendLayout.tsx:110`) was confirmed.
* A mobile retry after a lost answer signs a second transaction and can pay twice
  (`SendReviewScreen.tsx:146` "Retry broadcast"). `OnePaymentPerVisit` is about the
  desktop, which repeats the signed transaction itself.
* After "Send another" the desktop's review can jump to "Transaction sent" for a payment
  nobody sent (`SendSuccessScreen.tsx:64`).

Lock, PIN and gate (desktop):

* The wipe can come without the "One attempt left" line (`PINUnlockScreen.tsx:31`), and
  a second wipe that ends late clears the PIN of a user who has a wallet again
  (`PINUnlockScreen.tsx:119` against the comment at `:127`).
* The re-PIN dialog takes PINs during the cooldown its failures started
  (`RePinDialog.tsx:4`), and its counter survives the third wrong PIN, so each later
  session ends at its first (`:69` against `:67`).
* `onPinMatch` can fire `onConfirm` after `onCancel` when the dialog is dismissed
  while a PIN is verified (`SensitiveOpGate.tsx:58` against `:47`).

Desktop shell:

* Every Back button calls `navigate(1)`, one entry forward, and moves nothing
  (`SeedPhraseScreen.tsx:230` and others, against the comment at `:222` and
  `seedPhraseScreen.test.tsx:160`).
* `isLocked` starts TRUE, and `installLockClear` acts on a change: in the first-launch
  tree the idle lock of a new user does not hide the phrase (`main.tsx:176`).
* The registry hides by flipping `disabled` and taking it back in a microtask
  (`SeedPhraseScreen.tsx:95`): React may draw both at once, and then only the browser's own
  blur event hides the phrase.
* "Clears consented (so the next reveal re-prompts the gate)" (`SeedPhraseScreen.tsx:29`):
  a PIN that was being checked when the window lost its focus, or the app was locked in
  the first-launch tree, gives its consent after the clearing and reveals the phrase,
  in an unfocused window. `RevealNeedsFreshPin` names this answer (`reveal.late`) as its only
  exception, and `BlurHides` (`focus.answered`) too.
* A keychain that refuses to read the PIN hash at boot is taken for one without a PIN:
  the user of a listed wallet sees Welcome and may set a new PIN. So does whoever
  deletes the last wallet.
* Menu items are enabled when the menu is installed and follow the state later: for a
  moment "New wallet" navigates in a tree without a PIN.
* `onlineManager` starts online while the gate is closed; a gate toggled before its
  store is hydrated is undone in memory but not in Rust; `set_gate_state` is not awaited.
* "Gates the route tree on full hydration" (`HydrationGate.tsx:3`): it waits for the
  registry and the PIN. The lock store and the network gate may be set before they are
  hydrated, and the stored value then replaces the new one in memory but not on the
  file. `FileFollowsStores` excludes such early sets.
* `createServicePorts` is called without `storage` (`main.tsx:118`).

Wallets:

* "is ready. You can find it in your wallets list" is shown of a wallet that is not
  listed yet, and the wallets list can be reached without listing it
  (`SetupSuccessScreen.tsx:57`).
* A refused keychain deletion is swallowed and the wallet reported as deleted
  (`DangerZone.tsx:88`). `ListedHaveKeys` and `FailedLeaveNothing` exclude these keys.

Mobile session:

* The wipe does not clear `hasPIN`: in the same process Welcome skips the PIN screens and
  the next wallet has no PIN (`PINUnlockScreen.tsx:75`). `WalletsHavePin` ends with a wipe.
* A first boot whose version could not be read, cleared or marked goes on; a later boot
  then runs the wipe over the PIN hash and the registry of the wallets made meanwhile.
  `ListSurvives` and `WalletsHavePin` end with such a step (`stepFailed`).
* A PIN or a fingerprint verified late unlocks an app that is in the background; a PIN
  record saved after the user went back shows "PIN updated".

Push:

* `requestPermissionsAsync` is awaited outside the `try` (`NotificationsScreen.tsx:173`): when
  it is rejected the switch stays greyed out ("enabling") until the screen is left, and
  so does a switch whose call is held back while the device is offline.
  `SwitchComesBack` is about a device that stays online in the end, and excludes the
  rejection.
* An operation that is answered before the first fetch of the preferences does not fetch
  anew (the query library keeps a fetch without data): the old answer then turns the
  switch off although the backend has the row. `SwitchTellsTruth` excludes it (`clean`).
* Every leave of the foreground locks and unmounts the notifications screen, so
  "permission-revoked-in-os-settings" never appears.
* After a switch is turned off, a rotation that finds the stale cache still holding the
  old registration registers the user again; `off` starts only when the app was told.
* A failed call puts the switch back without asking: after a lost answer it shows the
  opposite of the backend until data that differs arrives. Sub-toggles are computed
  from the cached preferences and overwrite one another. The deletion of a wallet never
  updates the row.

Wallet views:

* Desktop: the sidebar keeps the component instance (`MasterDetailLayout.tsx:65`), so the
  addresses of one wallet that arrive late are shown on another's screen, and its
  balance is persisted as the other's (`useWalletDetailFlow.ts:79`,
  `WalletDetailScreen.tsx:121`). `ShownIsOwn` is about mobile, where each wallet has an
  instance of its own.
* A lookup that fails counts as an unused address (`discovery.ts:105`); the warnings it
  leaves are read by nobody. "Generate another" may hand out a used address and fall
  back when the reload ends; a detail load that ends late reverts it; near the end of
  the scan it stops moving. Lookups that keep failing differently can keep the receive
  screen loading. `SettledIsUnused` states what remains.
* Mobile's address and transaction screens fall back to the first wallet when none is
  active; `TransactionDetailScreen` calls `useMemo` after a conditional return.

### Fairness

* `ButtonsComeBack` (`MCSendFlow`): weak fairness of every mutation. The query library
  resumes paused mutations once it is online, and each request ends because it carries
  a timeout. The property is conditional on a gate that stays open.
* `ReviewNeverHangs` (`MCSendForm`): weak fairness of `TypeRead` and `Discovered` (the
  keychain and the discovery answer or throw), of the balance query, of a paused signing
  while the device is online (`ResumeSigning`), of one that runs (its requests carry
  timeouts), and of `DesktopSign`, which an effect runs. It is conditional on a device
  that stays online and a wallet entry that stops changing: offline, or behind a closed
  gate, a signing does not end.
* `SpinnerEnds` (`MCMobileSession`): weak fairness of the boot's and the storage's steps:
  AsyncStorage and SecureStore answer or refuse. It is conditional on a process that is
  left to live.
* `SwitchComesBack` (`MCPushRegistration`): weak fairness of the calls (one that was sent
  is answered or given up after ten seconds, one that is held back is sent while the
  device is online) and of the permission, which is answered or rejected. It is
  conditional on a device that stays online and on a permission that was not rejected.

Nothing is assumed of the user, of the backend or of the network. The other modules
have no liveness property: what `WalletViews` and `DesktopShell` wait for is the user,
or a lookup without a deadline.

### Deadlock

`MCCoinSelection`, `MCSendFlow`, `MCSendForm` and `MCSendFormShown` switch the deadlock
check off: a selection ends, a visit to the send flow stops once its bounded calls are
used up, a visit to the form ends by leaving it. The other runs check it.

## Proofs

The proof modules prove, for every value of the constants allowed by the `ASSUME`s
(sets of any size; coins are natural numbers; the bounds are any natural numbers):

| theorem | establishes | argument |
|---|---|---|
| `Sending_proofs!CoinTypeCorrect`, `FairFee`, `EconomicIsComplete` | `CoinTypeOK`, `FeeIsFair`, `CompleteWhenEconomical` | types and fee are inductive together; `OneMoreOutput` bounds the fee of a change output, `FeeGrows` compares `FeeNoChange` with `FeeWithChange`. `ShortInv`: the coins taken so far, all the smaller ones, do not pay the target and the fee of taking them; since each coin is worth the fee it adds (`MoreInputs`), no subset of a list that was read to its end pays either |
| `SendFlow_proofs!TypeCorrect` | `TypeOK` | `SentAreSigned`: what is being broadcast has a transaction, otherwise `Submit` would put null on the network |
| `SendFlow_proofs!ConfirmedIsPaid` | `OnlyConfirmedIsPaid`, both platforms | `PaidInv`: a chained or broadcasting call pays a form that was `Meant`: confirmed, or on mobile typed under the held-back signing. On the desktop the handle must equal what the review shows when the gate confirms, which is `DesktopInv` |
| `SendFlow_proofs!OneAtATime` | `OneCallUnderWay` | `OneUnderWay`: on mobile every call but the current one has ended, and an error is shown only when that one ended too, so that a retry, which asks for nothing else, finds none |
| `SendFlow_proofs!OnePayment` | `OnePaymentPerVisit` | `VisitInv`: under review at most one signing runs, and all that is broadcasting, on the network or accepted is the handle. It rests on `DesktopInv` (nothing is chained, a visit that has its txid never returns to review) |
| `PinUnlock_proofs!TypeCorrect`, `TenRefusals`, `NothingForgotten` | `TypeOK`, `WipeNeedsTenRefusals`, `ForgottenHasNoSecrets` | the count never exceeds the refusals since the last unlock; `KeysInv`: a wipe's wallets have no key left, or one the keychain kept, before the registry forgets them |
| `Sending_proofs!GateTypeCorrect`, `WaitersAnswered`, `ConfirmedByPin` | `GateTypeOK`, `NobodyIsLeftWaiting`, `EveryConfirmHasItsPin` | `AnswerInv`: a confirmed session has answered; each frame and each open warning is covered by a right PIN |
| `Sending_proofs!FormTypeCorrect`, `SignedStaysPayable`, `ReviewedStaysChecked` | `TypeOK`, `SignedIsPayable`, `ReviewedWasChecked` | `SeedInv`: only a wallet with a seed gets as far as a discovery or a signer; `AmountInv`: past the amount screen the form holds the amount that passed it, which no scanned URI, late permission or keystroke can change |
| `DurableStorage_proofs!TypeCorrect`, `StaysOldOrNew`, `FileFollows` | `TypeOK`, `OldOrNew` (refinement), `FileFollowsStores` | `HeldInv`: the map, both files and what a call is about to save are held states, so each step is a step of `MetadataFile` or none (`StepSimulation`); `FollowInv`: without overlap one call runs, and its change is all that the map lacks |
| `Wallets_proofs!TypeCorrect`, `ListedAreKeyed`, `FailedAreClean`, `NamesStayUnique` | `TypeOK`, `ListedHaveKeys`, `FailedLeaveNothing`, `NamesAreUnique` | `KeysInv`: what each stage of a flow has written, and that only its flow knows a running id; `NamesInv`: uniqueness on disk and in every write on its way, and that the name carried by the last screen is still free |
| `Wallets_proofs!ScannedIsFirst`, `ScannedGrows` | what `Scanned` returns, for every gap and every finite set of used addresses | among as many gaps as there are used addresses and one more, one has none of them (`SomeGapIsFree`, by cardinality); the least such gap exists (`LeastOne`), and seeing more used addresses never brings it forward |
| `Wallets_proofs!ViewsTypeCorrect`, `StoredStaysFound`, `OwnIsShown`, `SettledStaysUnused` | `ViewsTypeOK`, `StoredIsFound`, `ShownIsOwn`, `SettledIsUnused` | `ViewsInv`: what loads, screens and stores hold is within what the payments let a discovery reach, and which screen a live load belongs to; `OwnInv`: a live load belongs to the wallet on the screen; `WaitingInv`: only loads of its own may change the receive screen, one "generate another" at most; `SoundInv`: a sound screen shows the stored address, which is unused or about to be replaced |
| `MobileSession_proofs!TypeCorrect`, `MarkedIsWiped`, `ListSurvivesBoots`, `WalletsStayBehindPin` | `TypeOK`, `MarkedMeansWiped`, `ListSurvives`, `WalletsHavePin` | `QueueInv`: only writes wait more than once, and each call that waits belongs to a stage of the boot; `OrderInv`: a listed wallet of the disk is in every write on its way, and one of a write in those behind it; `WizardInv`: a wallet of the wizard is nowhere yet; `YoungInv`: until the mark nothing has been made, so that the wipe clears nothing; `PinInv`: without a stored PIN the screens are the onboarding's |
| `DesktopShell_proofs!TypeCorrect`, `PhrasesWereShown`, `BlurHidesPhrase`, `PinBeforeReveal` | `TypeOK`, `EveryPhraseWasShown`, `BlurHides`, `RevealNeedsFreshPin` | `View`: what each screen needs, whichever navigation led there (`LandedFacts` for the redirects); `ShownInv`: whatever may become a wallet (handed on, being stored, about to be verified) had its phrase shown; `ConsentInv`: a consent that stands was given by a PIN typed since the last clearing, or by a late one; `FocusInv`: the browser's event alone hides the phrase |
| `PushRegistration_proofs!PushTypeCorrect`, `OffIsKept`, `SwitchStaysTruthful`, `TokenStaysCurrent` | `TypeOK`, `OffStaysOff`, `SwitchTellsTruth`, `TokenIsCurrent` | `PushInv`: what each call, the cache and the screen may hold at each stage, one operation of the screen at a time; `OffInv`: once off, nothing that is cached, fetched, asked or sent says otherwise; `TokenInv`: unless the row lags, one call runs and is about the device's token; `CleanInv`: on a clean mount the switch, the cache and the row agree up to the one call that is on its way |

The type invariants of `CoinSelection`, `SensitiveOpGate` and `DurableStorage` are proved
and no run repeats them.

Why they are not inductive as they stand: a registry on disk, or in a write that is
still on its way, becomes the list after a restart, so uniqueness and keys must hold
of those too; a call in flight carries the form it will pay, so what it carries must
be constrained long before it is paid; a continuation carries the wallet it will hand
to a screen that is not mounted yet.

Two results rest on an induction over data, and no prover at hand instantiates a theorem
that takes an operator. Both are proved as facts about a *set* of numbers instead:
`EveryNumber` (a set that has 0 and, with each number, the next, has them all) and
`LeastOne` (a set of naturals that is not empty has a least element). The sums that
`CompleteWhenEconomical` compares are shown not to depend on the order in which the
coins are taken (`SumsAgree`, `SumTakesAny`).

Assumptions: the `ASSUME`s of the modules, which say that the constants have their types
and that the model values (`NoTx`, `None`, ...) are none of the values they stand apart
from.

Only model-checked: the liveness properties `ButtonsComeBack`, `ReviewNeverHangs`,
`SpinnerEnds` and `SwitchComesBack`, since liveness under fairness is out of the
prover's reach. Every invariant and action property of the passing runs is proved.

## What is not modelled

* Cryptography and encodings: keys, addresses, PSBTs, Argon2id, signatures. A PIN is
  right or wrong; a signature is a transaction.
* The Blockbook backend, the push backend, the query library, react-router, AsyncStorage:
  only as the code uses them (`external` in `PROJECT.json`).
* The mirror of the network gate in the Rust process: the order in which two un-awaited
  calls reach the command is the Tauri runtime's, which the repository does not fix.
* Attestation, the signed config, the updater and the price feed: what guards their
  caches is in packages that are not in the repository (`packages/api-client`,
  `packages/config`).
* The lists of transactions, the analytics consent, the notification task, the
  clipboard timer: one call or one flag each, with nothing that interleaves.
* Renders: guards of a screen read the current state, except where a handler is
  asynchronous and closes over an older one, which is what `calls` and `loads` keep.
* The length of cooldowns and timeouts; layout and wording.
* The components marked `not_modelled` in `PROJECT.json`, each with its reason.

## Plan

Done, in this order: send flow, lock and unlock, sensitive-operation gate, wallet
lifecycle, coin selection, durable storage, each with its proofs; then the mobile
session, push registration, the desktop's shell, the send form and the wallet views,
and the proofs of their safety properties.

Left:

1. Safety facts beyond the runs' properties, first checked by TLC: that the selection
   stops at the first prefix of the sorted coins that pays, that the failures the unlock
   screen and `RePinDialog` count in the one `LockStore` never outnumber the refusals.
2. Attestation and the signed config, once the packages they call are in the repository.
3. The lists of transactions, if they come to keep pages across wallets.
4. The Rust mirror of the network gate, if the calls that feed it are ever ordered.
