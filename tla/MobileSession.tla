--------------------------- MODULE MobileSession ---------------------------
(***************************************************************************)
(* A session of the mobile app: its boot (first-boot wipe, hydration of    *)
(* the registry, the PIN's presence), the tree of screens the navigator    *)
(* mounts, the PIN screens, the biometric prompt, the wizard, the wipe,    *)
(* the lock of the background, and a process that ends anywhere.           *)
(*                                                                         *)
(* AsyncStorage serves its calls one after the other in the order they     *)
(* were made (external); any call may be refused. SecureStore calls are    *)
(* single steps. Of a PIN only counts whether it is the stored one, of the *)
(* failed attempts whether the cooldown runs (LockStore counts them).      *)
(***************************************************************************)
EXTENDS Naturals, FiniteSets, Sequences

CONSTANTS
  Wallets,      \* wallet ids createId may hand out
  None,         \* no wallet
  InFlight,     \* PIN verifications that may run at once, and bound on the saves
  MaxIO         \* bound on the AsyncStorage calls that wait

ASSUME SessionAssumption ==
  /\ None \notin Wallets
  /\ IsFiniteSet(InFlight) /\ MaxIO \in Nat

VARIABLES
  isLocked,   \* the lock store's flag
  cooldown,   \* its lockUntil lies in the future
  version,    \* prl_data_version is "2"
  v1,         \* a v1.0 install's flat keys: "none", "present", "kept" (refused)
  registry,   \* prl_wallet_registry
  keys,       \* wallets with entries in the secure store
  pin,        \* prl_wallet_pin_hash is there
  io,         \* the AsyncStorage calls that wait
  boot,       \* initializeSecurityState
  hydration,  \* the registry store: "reading", "hydrated", "failed"
  wallets,    \* the registry store's list
  hasPIN,     \* the PIN store's flag
  active,     \* AppState is "active"
  route,      \* the focused screen
  prompt,     \* the biometric prompt of the mounted unlock screen
  calls,      \* PIN verifications in flight: the screen each is for
  saves,      \* PIN records on their way to the secure store
  step,       \* ChangePINScreen's step
  wizard,     \* the new wallet's id in the wizard's parameters, and the one being stored
  wipe,       \* handleWipeAndReset
  used,       \* history: wallet ids handed out
  created,    \* history: wallets that reached the disk's registry, wipes aside
  stepFailed, \* history: a step of the first-boot wipe threw
  wiped       \* history: a wipe was started

lockVars == <<isLocked, cooldown>>
disk == <<version, v1, registry, keys, pin>>
bootVars == <<boot, hydration, hasPIN>>
screens == <<route, prompt>>
pinVars == <<calls, saves, step>>
history == <<used, created, stepFailed, wiped>>
vars == <<lockVars, disk, io, bootVars, wallets, active, screens, pinVars,
          wizard, wipe, history>>

-----------------------------------------------------------------------------
(* The lock store *)

lock == isLocked' = TRUE /\ UNCHANGED cooldown
unlock == isLocked' = FALSE /\ cooldown' = FALSE
resetAttempts == cooldown' = FALSE /\ UNCHANGED isLocked

\* The fifth failure and those after it start a cooldown, the others end one.
recordFailedAttempt == cooldown' \in BOOLEAN /\ UNCHANGED isLocked

-----------------------------------------------------------------------------
(* The navigator *)

Onboarding == {"Welcome", "PINCreate", "PINConfirm"}
NewWalletFlow == {"WalletSetup", "SeedPhrase", "SeedVerify", "Import", "WalletName",
                  "SetupSuccess"}
MainScreens == {"WalletList", "ChangePIN"}

Tree(locked, list) ==
  CASE locked /\ list # {} -> {"PINUnlock"}
    [] list = {}           -> Onboarding \cup NewWalletFlow
    [] OTHER               -> MainScreens \cup NewWalletFlow

First(tree) ==
  CASE "PINUnlock" \in tree  -> "PINUnlock"
    [] "Welcome" \in tree    -> "Welcome"
    [] "WalletList" \in tree -> "WalletList"

Ready == hydration = "hydrated" /\ boot = "done"
At(r) == Ready /\ active /\ route = r

\* What is shown once the stores hold their next values and r was asked for: a
\* screen outside the mounted tree gives way to the tree's first. An unlock
\* screen that mounts may prompt once.
Show(r) ==
  LET tree == Tree(isLocked', wallets') IN
  /\ route' = IF r \in tree THEN r ELSE First(tree)
  /\ prompt' = IF prompt = "open" \/ "PINUnlock" \in tree \cap Tree(isLocked, wallets)
               THEN prompt ELSE "unasked"

Write(list) == [op |-> "write", list |-> list]
Call(op) == [op |-> op, list |-> {}]
Push(c) == Len(io) < MaxIO /\ io' = Append(io, c)
Answered(op) == io # <<>> /\ Head(io).op = op
Rest == Tail(io)

NoWizard == [id |-> None, storing |-> None]
NoWipe == [stage |-> "idle", list |-> {}]

\* What a new process starts from; zustand reads the registry before the first
\* render, the boot effect reads the version after it.
Launch ==
  /\ isLocked = TRUE /\ cooldown = FALSE
  /\ io = <<Call("readRegistry"), Call("readVersion")>>
  /\ boot = "version" /\ hydration = "reading" /\ hasPIN = FALSE
  /\ wallets = {} /\ active = TRUE
  /\ route = "Welcome" /\ prompt = "unasked"
  /\ calls = [n \in InFlight |-> "idle"] /\ saves = {} /\ step = "verify"
  /\ wizard = NoWizard /\ wipe = NoWipe

\* A fresh install, one of v1.0 that was upgraded, one of v1.1.
Init ==
  /\ \/ version = FALSE /\ v1 = "none" /\ pin = FALSE /\ registry = {}
     \/ version = FALSE /\ v1 = "present" /\ pin = TRUE /\ registry = {}
     \/ version = TRUE /\ v1 = "none" /\ pin = TRUE /\ registry \in SUBSET Wallets
  /\ keys = registry
  /\ Launch
  /\ used = registry /\ created = registry
  /\ stepFailed = FALSE /\ wiped = FALSE

-----------------------------------------------------------------------------
(* Boot: hydration of the registry beside initializeSecurityState *)

\* Seeded fault: setHasHydrated is called after a failed read, too, and persisted.
HydrateAnyway ==
  /\ Answered("readRegistry")
  /\ hydration' = "hydrated" /\ wallets' \in {registry, {}}
  /\ io' = Append(Rest, Write(wallets'))
  /\ UNCHANGED lockVars /\ Show(route)
  /\ UNCHANGED <<disk, boot, hasPIN, active, pinVars, wizard, wipe, history>>

\* onRehydrateStorage gets no state when the read threw: the flag stays unset.
Hydrate ==
  /\ Answered("readRegistry")
  /\ \/ /\ hydration' = "hydrated" /\ wallets' = registry
        /\ io' = Append(Rest, Write(registry))
     \/ hydration' = "failed" /\ io' = Rest /\ UNCHANGED wallets
  /\ UNCHANGED lockVars /\ Show(route)
  /\ UNCHANGED <<disk, boot, hasPIN, active, pinVars, wizard, wipe, history>>

\* Seeded fault: the mark is set before anything is deleted.
ReadVersionMarksFirst ==
  /\ Answered("readVersion")
  /\ IF version THEN boot' = "loadPin" /\ io' = Rest
                ELSE boot' = "mark" /\ io' = Append(Rest, Call("mark"))
  /\ UNCHANGED <<lockVars, disk, hydration, hasPIN, wallets, active, screens,
                 pinVars, wizard, wipe, history>>

\* A version that cannot be read leaves the wipe undone, like one that is "2".
ReadVersion ==
  /\ Answered("readVersion")
  /\ io' = Rest
  /\ \/ boot' = (IF version THEN "loadPin" ELSE "deleteKeys") /\ UNCHANGED stepFailed
     \/ boot' = "loadPin" /\ stepFailed' = TRUE
  /\ UNCHANGED <<lockVars, disk, hydration, hasPIN, wallets, active, screens,
                 pinVars, wizard, wipe, used, created, wiped>>

\* Every deletion may be refused, which is swallowed.
DeleteSecureKeys ==
  /\ boot = "deleteKeys"
  /\ v1' \in IF v1 = "none" THEN {"none"} ELSE {"none", "kept"}
  /\ pin' \in {FALSE, pin}
  /\ boot' = "clear"
  /\ Push(Call("clear"))
  /\ UNCHANGED <<lockVars, version, registry, keys, hydration, hasPIN, wallets,
                 active, screens, pinVars, wizard, wipe, used, created,
                 stepFailed, wiped>>

ClearAllData ==
  /\ Answered("clear")
  /\ \/ /\ version' = FALSE /\ registry' = {}
        /\ boot' = "mark" /\ io' = Append(Rest, Call("mark"))
        /\ UNCHANGED stepFailed
     \/ /\ boot' = "loadPin" /\ io' = Rest /\ stepFailed' = TRUE
        /\ UNCHANGED <<version, registry>>
  /\ UNCHANGED <<lockVars, v1, keys, pin, hydration, hasPIN, wallets, active,
                 screens, pinVars, wizard, wipe, used, created, wiped>>

\* Seeded fault: the boot does not go on after a mark that was refused.
SetDataVersionOrThrow ==
  /\ Answered("mark")
  /\ io' = Rest
  /\ \/ version' = TRUE /\ boot' = "loadPin" /\ UNCHANGED stepFailed
     \/ stepFailed' = TRUE /\ UNCHANGED <<version, boot>>
  /\ UNCHANGED <<lockVars, v1, registry, keys, pin, hydration, hasPIN, wallets,
                 active, screens, pinVars, wizard, wipe, used, created, wiped>>

SetDataVersion ==
  /\ Answered("mark")
  /\ io' = Rest
  /\ boot' = "loadPin"
  /\ \/ version' = TRUE /\ UNCHANGED stepFailed
     \/ stepFailed' = TRUE /\ UNCHANGED version
  /\ UNCHANGED <<lockVars, v1, registry, keys, pin, hydration, hasPIN, wallets,
                 active, screens, pinVars, wizard, wipe, used, created, wiped>>

\* A keychain that throws leaves hasPIN unset; hasPINLoaded is set regardless.
LoadPin ==
  /\ boot = "loadPin"
  /\ hasPIN' \in {pin, FALSE}
  /\ boot' = "done"
  /\ UNCHANGED <<lockVars, disk, io, hydration, wallets, active, screens, pinVars,
                 wizard, wipe, history>>

\* A store's write reaches the disk, or is refused, which nobody sees.
Persist ==
  /\ Answered("write")
  /\ io' = Rest
  /\ registry' \in {registry, Head(io).list}
  /\ created' = created \cup (registry' \cap wallets)
  /\ UNCHANGED <<lockVars, version, v1, keys, pin, bootVars, wallets, active,
                 screens, pinVars, wizard, wipe, used, stepFailed, wiped>>

-----------------------------------------------------------------------------
(* Onboarding *)

\* Moves between screens that change nothing else.
Go(from, to) ==
  /\ At(from)
  /\ route' = to
  /\ UNCHANGED <<lockVars, disk, io, bootVars, wallets, active, prompt, pinVars,
                 wizard, wipe, history>>

GetStarted == Go("Welcome", IF hasPIN THEN "WalletSetup" ELSE "PINCreate")
PinTyped == Go("PINCreate", "PINConfirm")

\* Seeded fault: hasPIN is set before the record is stored.
ConfirmPinEarly ==
  /\ At("PINConfirm") /\ Cardinality(saves) < Cardinality(InFlight)
  /\ saves' = saves \cup {"PINConfirm"}
  /\ hasPIN' = TRUE
  /\ UNCHANGED <<lockVars, disk, io, boot, hydration, wallets, active, screens, calls,
                 step, wizard, wipe, history>>

\* handleConfirm, past its comparison; the pad takes digits while it runs.
ConfirmPin ==
  /\ At("PINConfirm") /\ Cardinality(saves) < Cardinality(InFlight)
  /\ saves' = saves \cup {"PINConfirm"}
  /\ UNCHANGED <<lockVars, disk, io, bootVars, wallets, active, screens, calls,
                 step, wizard, wipe, history>>

\* The record is stored and the flow goes on, even from a screen that was reset
\* to Welcome meanwhile; the navigation may find nothing to go to.
PinSaved ==
  /\ "PINConfirm" \in saves
  /\ saves' = saves \ {"PINConfirm"}
  /\ pin' = TRUE /\ hasPIN' = TRUE
  /\ route' \in {route} \cup {r \in {"WalletSetup"} :
                                  /\ r \in Tree(isLocked, wallets)
                                  /\ route \notin NewWalletFlow}
  /\ UNCHANGED <<lockVars, version, v1, registry, keys, io, boot, hydration,
                 wallets, active, prompt, calls, step, wizard, wipe, history>>

SaveRefused(s) ==
  /\ s \in saves
  /\ saves' = saves \ {s}
  /\ step' = IF s = "ChangePIN" /\ route = "ChangePIN" THEN "enter-new" ELSE step
  /\ UNCHANGED <<lockVars, disk, io, bootVars, wallets, active, screens, calls,
                 wizard, wipe, history>>

-----------------------------------------------------------------------------
(* PINUnlockScreen and ChangePINScreen: the pad takes six digits unless the
   cooldown runs, clears itself and calls back; calls overlap. *)

Submit(n) ==
  /\ calls[n] = "idle"
  /\ ~cooldown
  /\ At("PINUnlock") \/ (At("ChangePIN") /\ step = "verify")
  /\ calls' = [calls EXCEPT ![n] = route]
  /\ UNCHANGED <<lockVars, disk, io, bootVars, wallets, active, screens, saves,
                 step, wizard, wipe, history>>

\* What both screens do with a right PIN; the change screen may have been left.
Pass(n) ==
  /\ calls' = [calls EXCEPT ![n] = "idle"]
  /\ IF calls[n] = "PINUnlock"
     THEN unlock /\ UNCHANGED step
     ELSE /\ resetAttempts
          /\ step' = IF calls[n] = "ChangePIN" /\ route = "ChangePIN"
                     THEN "enter-new" ELSE step

\* The stored hash is the typed PIN's, or there is none: then anything passes.
Matched(n) ==
  /\ calls[n] # "idle"
  /\ Pass(n)
  /\ UNCHANGED wallets /\ Show(route)
  /\ UNCHANGED <<disk, io, bootVars, active, saves, wizard, wipe, history>>

\* A wrong PIN, or a keychain that throws.
Mismatched(n) ==
  /\ calls[n] # "idle"
  /\ recordFailedAttempt
  /\ calls' = [calls EXCEPT ![n] = "idle"]
  /\ UNCHANGED <<disk, io, bootVars, wallets, active, screens, saves, step, wizard,
                 wipe, history>>

CooldownEnds ==
  /\ cooldown /\ cooldown' = FALSE
  /\ UNCHANGED <<isLocked, disk, io, bootVars, wallets, active, screens, pinVars, wizard,
                 wipe, history>>

\* Once per mount of the unlock screen, where the device has the hardware.
Prompt ==
  /\ At("PINUnlock") /\ prompt = "unasked"
  /\ prompt' \in {"open", "over"}
  /\ UNCHANGED <<lockVars, disk, io, bootVars, wallets, active, route, pinVars,
                 wizard, wipe, history>>

PromptRefused ==
  /\ prompt = "open"
  /\ prompt' = IF route = "PINUnlock" THEN "over" ELSE "unasked"
  /\ UNCHANGED <<lockVars, disk, io, bootVars, wallets, active, route, pinVars,
                 wizard, wipe, history>>

\* The prompt is the system's: its answer may come late.
PromptPassed ==
  /\ prompt = "open"
  /\ unlock
  /\ route' = IF route = "PINUnlock" THEN "WalletList" ELSE route
  /\ prompt' = "unasked"
  /\ UNCHANGED <<disk, io, bootVars, wallets, active, pinVars, wizard, wipe, history>>

\* A screen mounted anew does not hear of what an earlier one started.
OpenChangePin ==
  /\ At("WalletList")
  /\ route' = "ChangePIN" /\ step' = "verify"
  /\ calls' = [n \in InFlight |-> IF calls[n] = "ChangePIN" THEN "left" ELSE calls[n]]
  /\ saves' = { IF s = "ChangePIN" THEN "left" ELSE s : s \in saves }
  /\ UNCHANGED <<lockVars, disk, io, bootVars, wallets, active, prompt, wizard,
                 wipe, history>>

LeaveChangePin ==
  /\ At("ChangePIN")
  /\ route' = "WalletList" /\ step' = "verify"
  /\ UNCHANGED <<lockVars, disk, io, bootVars, wallets, active, prompt, calls,
                 saves, wizard, wipe, history>>

EnterNew ==
  /\ At("ChangePIN") /\ step = "enter-new"
  /\ step' = "confirm-new"
  /\ UNCHANGED <<lockVars, disk, io, bootVars, wallets, active, screens, calls,
                 saves, wizard, wipe, history>>

\* The step stays while the record is computed and stored: digits typed
\* meanwhile are compared again.
ConfirmNew ==
  /\ At("ChangePIN") /\ step = "confirm-new"
  /\ \/ /\ Cardinality(saves) < Cardinality(InFlight)
        /\ saves' = saves \cup {"ChangePIN"}
        /\ UNCHANGED step
     \/ step' = "enter-new" /\ UNCHANGED saves
  /\ UNCHANGED <<lockVars, disk, io, bootVars, wallets, active, screens, calls,
                 wizard, wipe, history>>

NewPinSaved(s) ==
  /\ s \in saves \ {"PINConfirm"}
  /\ saves' = saves \ {s}
  /\ pin' = TRUE
  /\ step' = IF s = "ChangePIN" /\ route = "ChangePIN" THEN "success" ELSE step
  /\ UNCHANGED <<lockVars, version, v1, registry, keys, io, bootVars, wallets,
                 active, screens, calls, wizard, wipe, history>>

-----------------------------------------------------------------------------
(* The wizard *)

\* "New wallet" of the list and "Back to wallets list"; the seed is shown before
\* it is verified; goBack of each screen.
OpenWizard == Go("WalletList", "WalletSetup")
BackToWallets == wallets # {} /\ Go("WalletSetup", "WalletList")
ChooseCreate == Go("WalletSetup", "SeedPhrase")
ChooseImport == Go("WalletSetup", "Import")
ContinueToVerify == Go("SeedPhrase", "SeedVerify")
BackFromPhrase == Go("SeedPhrase", "WalletSetup")
BackFromVerify == Go("SeedVerify", "SeedPhrase")
BackFromImport == Go("Import", "WalletSetup")
ContinueToSetupSuccess == Go("WalletName", "SetupSuccess")

\* handleVerify and importWallet past their checks. (One runs at a time here.)
StartStore(w) ==
  /\ At("SeedVerify") \/ At("Import")
  /\ wizard.storing = None /\ w \notin used
  /\ wizard' = [wizard EXCEPT !.storing = w]
  /\ used' = used \cup {w}
  /\ UNCHANGED <<lockVars, disk, io, bootVars, wallets, active, screens, pinVars,
                 wipe, created, stepFailed, wiped>>

\* A wizard that was unmounted meanwhile has nowhere to navigate.
Stored ==
  LET w == wizard.storing IN
  /\ w # None
  /\ keys' = keys \cup {w}
  /\ \/ wizard' = [wizard EXCEPT !.storing = None] /\ UNCHANGED route
     \/ /\ route \in NewWalletFlow
        /\ route' = "WalletName"
        /\ wizard' = [id |-> w, storing |-> None]
  /\ UNCHANGED <<lockVars, version, v1, registry, pin, io, bootVars, wallets,
                 active, prompt, pinVars, wipe, history>>

\* The roll-back deletes what was stored; a refused deletion is swallowed.
StoreFailed ==
  LET w == wizard.storing IN
  /\ w # None
  /\ wizard' = [wizard EXCEPT !.storing = None]
  /\ keys' \in {keys, keys \cup {w}}
  /\ UNCHANGED <<lockVars, version, v1, registry, pin, io, bootVars, wallets,
                 active, screens, pinVars, wipe, used, created, stepFailed, wiped>>

CreateWallet ==
  /\ At("SetupSuccess")
  /\ wallets' = wallets \cup {wizard.id}
  /\ Push(Write(wallets'))
  /\ unlock
  /\ Show("WalletList")
  /\ wizard' = [wizard EXCEPT !.id = None]
  /\ UNCHANGED <<disk, bootVars, active, pinVars, wipe, history>>

-----------------------------------------------------------------------------
(* handleWipeAndReset: the button is on the pad while it counts down *)

StartWipe ==
  /\ At("PINUnlock") /\ cooldown
  /\ wipe.stage = "idle"
  /\ wipe' = [stage |-> "keys", list |-> wallets]
  /\ wiped' = TRUE
  /\ UNCHANGED <<lockVars, disk, io, bootVars, wallets, active, screens, pinVars,
                 wizard, used, created, stepFailed>>

DeleteWalletSecrets ==
  /\ wipe.stage = "keys"
  /\ \E stuck \in SUBSET (keys \cap wipe.list) :
       keys' = keys \ (wipe.list \ stuck)
  /\ wipe' = [wipe EXCEPT !.stage = "hash"]
  /\ UNCHANGED <<lockVars, version, v1, registry, pin, io, bootVars, wallets,
                 active, screens, pinVars, wizard, used, created, stepFailed,
                 wiped>>

\* deletePinHash, and the stores behind its answer; hasPIN is none of them.
FinishWipe ==
  /\ wipe.stage = "hash"
  /\ pin' \in {FALSE, pin}
  /\ wallets' = wallets \ wipe.list
  /\ Push(Write(wallets'))
  /\ UNCHANGED isLocked /\ Show(route)
  /\ created' = created \ wipe.list
  /\ wipe' = NoWipe
  /\ UNCHANGED <<cooldown, version, v1, registry, keys, bootVars,
                 active, pinVars, wizard, used, stepFailed, wiped>>

-----------------------------------------------------------------------------
(* AppStateListener, and the end of the process *)

\* Seeded fault: the background clears the parameters of a wizard that stays.
BackgroundForgets ==
  /\ active /\ active' = FALSE
  /\ lock /\ UNCHANGED wallets
  /\ Show(route)
  /\ wizard' = [wizard EXCEPT !.id = None]
  /\ step' = IF route' = "ChangePIN" THEN step ELSE "verify"
  /\ UNCHANGED <<disk, io, bootVars, calls, saves, wipe, history>>

Background ==
  /\ active /\ active' = FALSE
  /\ lock /\ UNCHANGED wallets
  /\ Show(route)
  /\ wizard' = IF route' \in NewWalletFlow THEN wizard ELSE [wizard EXCEPT !.id = None]
  /\ step' = IF route' = "ChangePIN" THEN step ELSE "verify"
  /\ UNCHANGED <<disk, io, bootVars, calls, saves, wipe, history>>

Foreground ==
  /\ ~active /\ active' = TRUE
  /\ route' = IF Ready /\ route \in {"PINCreate", "PINConfirm"} THEN "Welcome" ELSE route
  /\ UNCHANGED <<lockVars, disk, io, bootVars, wallets, prompt, pinVars, wizard,
                 wipe, history>>

Restart ==
  /\ isLocked' = TRUE /\ cooldown' = FALSE
  /\ io' = <<Call("readRegistry"), Call("readVersion")>>
  /\ boot' = "version" /\ hydration' = "reading" /\ hasPIN' = FALSE
  /\ wallets' = {} /\ active' = TRUE
  /\ route' = "Welcome" /\ prompt' = "unasked"
  /\ calls' = [n \in InFlight |-> "idle"] /\ saves' = {} /\ step' = "verify"
  /\ wizard' = NoWizard /\ wipe' = NoWipe
  /\ UNCHANGED <<disk, used, created, stepFailed, wiped>>

-----------------------------------------------------------------------------
Boot ==
  \/ Hydrate \/ ReadVersion \/ DeleteSecureKeys \/ ClearAllData
  \/ SetDataVersion \/ LoadPin \/ Persist

PinScreens ==
  \/ GetStarted \/ PinTyped
  \/ ConfirmPin \/ PinSaved \/ EnterNew \/ ConfirmNew
  \/ \E s \in saves : NewPinSaved(s) \/ SaveRefused(s)
  \/ \E n \in InFlight :
       Submit(n) \/ Matched(n) \/ Mismatched(n)
  \/ CooldownEnds \/ Prompt \/ PromptRefused \/ PromptPassed
  \/ OpenChangePin \/ LeaveChangePin

Wizard ==
  \/ OpenWizard \/ BackToWallets \/ ChooseCreate \/ ChooseImport
  \/ ContinueToVerify \/ BackFromPhrase \/ BackFromVerify \/ BackFromImport
  \/ ContinueToSetupSuccess \/ CreateWallet
  \/ \E w \in Wallets : StartStore(w)
  \/ Stored \/ StoreFailed

Next ==
  \/ Boot \/ PinScreens \/ Wizard
  \/ StartWipe \/ DeleteWalletSecrets \/ FinishWipe
  \/ Background \/ Foreground \/ Restart

\* The storage answers, the keychain answers; the user owes nothing.
Spec == Init /\ [][Next]_vars /\ WF_vars(Boot)

-----------------------------------------------------------------------------
TypeOK ==
  /\ isLocked \in BOOLEAN /\ cooldown \in BOOLEAN
  /\ version \in BOOLEAN /\ v1 \in {"none", "present", "kept"}
  /\ registry \subseteq Wallets /\ keys \subseteq Wallets /\ pin \in BOOLEAN
  /\ io \in Seq([op : {"readRegistry", "readVersion", "clear", "mark", "write"},
                 list : SUBSET Wallets])
  /\ boot \in {"version", "deleteKeys", "clear", "mark", "loadPin", "done"}
  /\ hydration \in {"reading", "hydrated", "failed"}
  /\ wallets \subseteq Wallets /\ hasPIN \in BOOLEAN /\ active \in BOOLEAN
  /\ route \in {"PINUnlock"} \cup Onboarding \cup NewWalletFlow \cup MainScreens
  /\ prompt \in {"unasked", "open", "over"}
  /\ calls \in [InFlight -> {"idle", "PINUnlock", "ChangePIN", "left"}]
  /\ saves \subseteq {"PINConfirm", "ChangePIN", "left"}
  /\ step \in {"verify", "enter-new", "confirm-new", "success"}
  /\ wizard \in [id : Wallets \cup {None}, storing : Wallets \cup {None}]
  /\ wipe \in [stage : {"idle", "keys", "hash"}, list : SUBSET Wallets]
  /\ used \subseteq Wallets /\ created \subseteq Wallets
  /\ stepFailed \in BOOLEAN /\ wiped \in BOOLEAN

\* A process may end between any two steps of the first-boot wipe: once the mark
\* is there, nothing of a v1.0 install is left but what the keychain refused.
MarkedMeansWiped == version => v1 # "present"

\* As long as no step of the first-boot wipe threw, no boot, hydration or write
\* ever loses a wallet that had reached the disk, nor, wipes aside, its keys.
ListSurvives ==
  /\ ~stepFailed => created \subseteq registry
  /\ ~wiped => created \subseteq keys

\* A wallet on the disk is behind a PIN, until a wipe was started or a step of the
\* first-boot wipe threw: Welcome asks for one, and hasPIN is set only once it is
\* stored, whatever is reset or put in the background meanwhile.
WalletsHavePin == ~wiped /\ ~stepFailed /\ registry # {} => pin

\* The spinner ends in a process that is left to live, unless the registry cannot
\* be read: neither a failing wipe nor a failing keychain keeps it.
SpinnerEnds == <>[][~Restart]_vars => []<>(Ready \/ hydration = "failed")
=============================================================================
