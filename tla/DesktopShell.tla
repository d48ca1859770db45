---------------------------- MODULE DesktopShell ----------------------------
(***************************************************************************)
(* The shell of the desktop app: the boot behind the keychain's probe, the *)
(* three route trees and what each redirects, the wizards, the native menu *)
(* whose items follow late, the lock, and the seed phrase screen with its  *)
(* gate, its consent and the registry that hides it when the window loses  *)
(* focus.                                                                  *)
(*                                                                         *)
(* What happens inside the gate's dialog, the unlock screen and the        *)
(* keychain is in SensitiveOpGate, PinUnlock and WalletLifecycle.  Every   *)
(* Back button calls navigate(1): the entry shown is always the last one,  *)
(* so none of them moves.                                                  *)
(***************************************************************************)
EXTENDS Naturals, FiniteSets

CONSTANTS
  Seeds,      \* the phrases that can be generated, each once
  Imported,   \* an imported wallet (imports are not told apart)
  NewPin      \* the saving of a changed PIN, among the jobs

ASSUME ShellAssumption == Imported \notin Seeds /\ NewPin \notin Seeds \cup {Imported}

VARIABLES
  boot,       \* "probing", "unavailable", "loading", "app"
  pinStored,  \* the keychain holds a PIN hash
  wallets,    \* the listed wallets, each named by its phrase
  hasPIN, isLocked,
  screen,     \* the screen the route tree shows
  carried,    \* location.state: the wallet a wizard screen was handed
  words,      \* NewWalletProvider's mnemonic
  drawn,      \* phrases generated so far
  jobs,       \* continuations that will navigate: keys being stored, a PIN saved
  opening,    \* the first wallet, between its listing and resetToRoot
  reveal,     \* the local state of the seed phrase screen; two of its fields are
              \* history, of the time since the registry last cleared it: a PIN
              \* was typed; one was being checked when it cleared (late)
  focus,      \* the window's focus, and the events of its loss still to come
  installed, menu, \* the native menu; its enabled items
  written     \* history: the phrases that were on the screen in clear

auth == <<wallets, hasPIN, isLocked>>
view == <<screen, carried, reveal, focus>>
wizard == <<words, drawn, jobs, opening>>
bar == <<installed, menu>>
vars == <<boot, pinStored, auth, view, wizard, bar, written>>

-----------------------------------------------------------------------------
(* The route trees *)

Wizard == {"WalletSetup", "SeedPhrase", "SeedVerify", "ImportTypePicker", "Import",
           "WalletName", "SetupSuccess"}
MasterDetail == {"WalletList", "WalletDetail", "Settings", "ChangePIN"}

Tree(ws, pin, locked) ==
  CASE ws = {} \/ ~pin -> {"Welcome", "PINCreate", "PINConfirm"} \cup Wizard
    [] ws # {} /\ pin /\ locked -> {"PINUnlock"}
    [] OTHER -> MasterDetail \cup Wizard

Fallback(ws, pin, locked) ==
  CASE ws = {} \/ ~pin -> "Welcome"
    [] ws # {} /\ pin /\ locked -> "PINUnlock"
    [] OTHER -> "WalletList"

\* Seeded fault: a route the tree does not have is shown all the same.
LandedAnywhere(target, with) ==
  IF \/ target \in {"SeedPhrase", "SeedVerify"} /\ words' = {}
     \/ target \in {"WalletName", "SetupSuccess"} /\ with = {}
  THEN "WalletSetup" ELSE target

\* The catch-all of the tree, and the guards of the wizard's screens.
Landed(target, with) ==
  IF target \notin Tree(wallets', hasPIN', isLocked')
  THEN Fallback(wallets', hasPIN', isLocked')
  ELSE IF \/ target \in {"SeedPhrase", "SeedVerify"} /\ words' = {}
          \/ target \in {"WalletName", "SetupSuccess"} /\ with = {}
       THEN "WalletSetup" ELSE target

NoReveal == [shown |-> FALSE, seen |-> FALSE, consented |-> FALSE,
             pending |-> FALSE, checking |-> FALSE, typed |-> FALSE, late |-> FALSE]
InFocus == [on |-> TRUE, tauri |-> FALSE, dom |-> FALSE, answered |-> FALSE]

\* navigate: auth and words are decided before it. A screen that is mounted anew
\* starts anew.
navigate(target, with) ==
  /\ screen' = Landed(target, with)
  /\ carried' = IF screen' \in {"WalletName", "SetupSuccess"} THEN with ELSE {}
  /\ IF screen' = "SeedPhrase" /\ screen = "SeedPhrase"
     THEN UNCHANGED <<reveal, focus>>
     ELSE reveal' = NoReveal /\ focus' = InFocus

At(s) == boot = "app" /\ screen = s /\ focus.on

Init ==
  /\ boot = "probing"
  /\ \/ pinStored = FALSE /\ wallets = {}
     \/ pinStored = TRUE /\ wallets \in {{}, {Imported}}
  /\ hasPIN = FALSE /\ isLocked = TRUE
  /\ screen = "Welcome" /\ carried = {} /\ reveal = NoReveal /\ focus = InFocus
  /\ words = {} /\ drawn = {} /\ jobs = {} /\ opening = {}
  /\ installed = FALSE /\ menu = {}
  /\ written = {}

-----------------------------------------------------------------------------
(* Boot *)

Probe ==
  /\ boot = "probing"
  /\ boot' \in {"unavailable", "loading"}
  /\ UNCHANGED <<pinStored, auth, view, wizard, bar, written>>

Retry ==
  /\ boot = "unavailable"
  /\ boot' = "probing"
  /\ UNCHANGED <<pinStored, auth, view, wizard, bar, written>>

\* HydrationGate opens; a PIN hash that could not be read is taken for none.
Hydrated ==
  /\ boot = "loading"
  /\ boot' = "app"
  /\ hasPIN' \in {FALSE, pinStored}
  /\ UNCHANGED <<wallets, isLocked, words>>
  /\ navigate("Welcome", {})
  /\ UNCHANGED <<pinStored, drawn, jobs, opening, bar, written>>

\* The window is closed, the process ends: memory is lost.
Restart ==
  /\ boot = "app"
  /\ boot' = "probing"
  /\ hasPIN' = FALSE /\ isLocked' = TRUE
  /\ screen' = "Welcome" /\ carried' = {} /\ reveal' = NoReveal /\ focus' = InFocus
  /\ words' = {} /\ jobs' = {} /\ opening' = {}
  /\ installed' = FALSE /\ menu' = {}
  /\ UNCHANGED <<pinStored, wallets, drawn, written>>

-----------------------------------------------------------------------------
(* The native menu *)

Unlocked == wallets # {} /\ hasPIN /\ ~isLocked
Enabled ==
  {i \in {"settings", "lock", "newWallet"} :
     Unlocked /\ (i = "newWallet" => screen \notin Wizard)}

\* installNativeMenu ends: every item is made enabled.
MenuInstalled ==
  /\ boot \in {"loading", "app"} /\ ~installed
  /\ installed' = TRUE
  /\ menu' = {"settings", "lock", "newWallet"}
  /\ UNCHANGED <<boot, pinStored, auth, view, wizard, written>>

\* The setEnabled calls of MenuController arrive.
MenuFollows ==
  /\ boot = "app" /\ installed /\ menu # Enabled
  /\ menu' = Enabled
  /\ UNCHANGED <<boot, pinStored, auth, view, wizard, installed, written>>

MenuNavigates ==
  /\ boot = "app" /\ focus.on
  /\ UNCHANGED <<auth, words>>
  /\ \/ "settings" \in menu /\ navigate("Settings", {})
     \/ "newWallet" \in menu /\ navigate("WalletSetup", {})
  /\ UNCHANGED <<boot, pinStored, drawn, jobs, opening, bar, written>>

-----------------------------------------------------------------------------
(* Buttons that only navigate *)

Links ==
  {<<"Welcome", "PINCreate">>, <<"PINCreate", "PINConfirm">>,
   <<"PINConfirm", "PINCreate">>, <<"WalletSetup", "ImportTypePicker">>,
   <<"ImportTypePicker", "Import">>, <<"WalletList", "WalletSetup">>,
   <<"Settings", "ChangePIN">>, <<"SetupSuccess", "WalletList">>}
  \cup (MasterDetail \X {"WalletDetail", "Settings"})

Click ==
  /\ \E link \in Links :
       /\ At(link[1])
       /\ link[1] = "SetupSuccess" => opening = {}
       /\ link[1] = "ChangePIN" => NewPin \notin jobs \/ link[2] # "ChangePIN"
       /\ UNCHANGED <<auth, words>>
       /\ navigate(link[2], {})
  /\ UNCHANGED <<boot, pinStored, drawn, jobs, opening, bar, written>>

-----------------------------------------------------------------------------
(* PINs, the lock and the wipe *)

\* PINConfirmScreen stored a new hash.
PinCreated ==
  /\ At("PINConfirm")
  /\ pinStored' = TRUE /\ hasPIN' = TRUE
  /\ UNCHANGED <<wallets, isLocked, words>>
  /\ navigate("WalletSetup", {})
  /\ UNCHANGED <<boot, drawn, jobs, opening, bar, written>>

Unlock ==
  /\ At("PINUnlock") /\ pinStored
  /\ isLocked' = FALSE
  /\ UNCHANGED <<wallets, hasPIN, words>>
  /\ navigate("PINUnlock", {})
  /\ UNCHANGED <<boot, pinStored, drawn, jobs, opening, bar, written>>

\* After the tenth refusal; the keychain may refuse to forget the hash.
WipeAndReset ==
  /\ At("PINUnlock")
  /\ pinStored' \in {FALSE, pinStored}
  /\ wallets' = {} /\ hasPIN' = FALSE /\ isLocked' = FALSE
  /\ UNCHANGED words
  /\ navigate("Welcome", {})
  /\ UNCHANGED <<boot, drawn, jobs, opening, bar, written>>

\* What the registry's callback does to the seed phrase: the flip of disabled is
\* seen when React draws between it and the microtask that takes it back. A PIN
\* that is being checked is not called back.
Cleared(drawnBetween) ==
  [reveal EXCEPT !.consented = FALSE, !.typed = FALSE, !.late = reveal.checking,
                 !.shown = @ /\ ~drawnBetween]

\* Idle at any screen, the menu's item, the sidebar's button, a close request.
\* installLockClear acts on the change only: in the first-launch tree the store is
\* often locked all along, behind routes that do not ask.
Lock ==
  /\ boot = "app"
  /\ isLocked' = TRUE
  /\ UNCHANGED <<wallets, hasPIN, words>>
  /\ screen' = Landed(screen, carried)
  /\ carried' = IF screen' = screen THEN carried ELSE {}
  /\ IF screen' = screen
     THEN /\ \E drawnBetween \in BOOLEAN :
               reveal' = IF isLocked THEN reveal ELSE Cleared(drawnBetween)
          /\ UNCHANGED focus
     ELSE reveal' = NoReveal /\ focus' = InFocus
  /\ UNCHANGED <<boot, pinStored, drawn, jobs, opening, bar, written>>

\* ChangePINScreen, at its last step.
ChangePin ==
  /\ At("ChangePIN") /\ NewPin \notin jobs
  /\ jobs' = jobs \cup {NewPin}
  /\ UNCHANGED <<boot, pinStored, auth, view, words, drawn, opening, bar, written>>

PinChanged ==
  /\ NewPin \in jobs
  /\ jobs' = jobs \ {NewPin}
  /\ UNCHANGED <<auth, words>>
  /\ \/ pinStored' = TRUE /\ navigate("Settings", {})
     \/ UNCHANGED <<pinStored, view>>
  /\ UNCHANGED <<boot, drawn, opening, bar, written>>

-----------------------------------------------------------------------------
(* The wizards *)

\* "Create new" generates a phrase.
CreateNew ==
  /\ At("WalletSetup")
  /\ \E s \in Seeds \ drawn : words' = {s} /\ drawn' = drawn \cup {s}
  /\ UNCHANGED auth
  /\ navigate("SeedPhrase", {})
  /\ UNCHANGED <<boot, pinStored, jobs, opening, bar, written>>

\* Seeded fault: the button does not wait for the phrase to have been shown.
WrittenDownUnseen ==
  /\ At("SeedPhrase") /\ ~reveal.pending
  /\ UNCHANGED <<auth, words>>
  /\ navigate("SeedVerify", {})
  /\ UNCHANGED <<boot, pinStored, drawn, jobs, opening, bar, written>>

\* "I've written it down". (The gate's dialog is modal.)
WrittenDown ==
  /\ At("SeedPhrase") /\ reveal.seen /\ ~reveal.pending
  /\ UNCHANGED <<auth, words>>
  /\ navigate("SeedVerify", {})
  /\ UNCHANGED <<boot, pinStored, drawn, jobs, opening, bar, written>>

\* The right words, or a valid import: the keys are being stored.
StoreKeys ==
  /\ \/ At("SeedVerify") /\ words \cap jobs = {} /\ jobs' = jobs \cup words
     \/ At("Import") /\ Imported \notin jobs /\ jobs' = jobs \cup {Imported}
  /\ UNCHANGED <<boot, pinStored, auth, view, words, drawn, opening, bar, written>>

\* goToWalletName, wherever the user is by then; or the keychain refused.
KeysStored ==
  /\ \E w \in jobs \ {NewPin} :
       /\ jobs' = jobs \ {w}
       /\ UNCHANGED <<auth, words>>
       /\ navigate("WalletName", {w}) \/ UNCHANGED view
  /\ UNCHANGED <<boot, pinStored, drawn, opening, bar, written>>

Named ==
  /\ At("WalletName")
  /\ UNCHANGED <<auth, words>>
  /\ navigate("SetupSuccess", carried)
  /\ UNCHANGED <<boot, pinStored, drawn, jobs, opening, bar, written>>

\* createWallet: the wallet is listed and the app unlocked. The first wallet turns
\* the tree, perhaps to the locked one in between; the rest comes a timer later.
CreateFirst ==
  /\ At("SetupSuccess") /\ opening = {} /\ wallets = {}
  /\ wallets' = carried /\ isLocked' = FALSE
  /\ opening' = carried
  /\ UNCHANGED <<hasPIN, words>>
  /\ navigate("SetupSuccess", carried) \/ (hasPIN /\ navigate("PINUnlock", {}))
  /\ UNCHANGED <<boot, pinStored, drawn, jobs, bar, written>>

CreateAnother ==
  /\ At("SetupSuccess") /\ opening = {} /\ wallets # {}
  /\ wallets' = wallets \cup carried /\ isLocked' = FALSE
  /\ words' = {}
  /\ UNCHANGED hasPIN
  /\ navigate("WalletDetail", {})
  /\ UNCHANGED <<boot, pinStored, drawn, jobs, opening, bar, written>>

resetToRoot ==
  /\ opening # {}
  /\ opening' = {} /\ words' = {}
  /\ UNCHANGED auth
  /\ navigate("WalletDetail", {})
  /\ UNCHANGED <<boot, pinStored, drawn, jobs, bar, written>>

\* DangerZone, once the keychain has answered.
DeleteWallet ==
  /\ At("WalletDetail")
  /\ \E w \in wallets : wallets' = wallets \ {w}
  /\ UNCHANGED <<hasPIN, isLocked, words>>
  /\ navigate("WalletList", {})
  /\ UNCHANGED <<boot, pinStored, drawn, jobs, opening, bar, written>>

-----------------------------------------------------------------------------
(* The seed phrase *)

AtSeed == At("SeedPhrase")
rest == <<boot, pinStored, auth, screen, carried, wizard, bar>>

\* HoldToReveal's switch, turned on: the gate, unless this visit has consented.
Reveal ==
  /\ AtSeed /\ ~reveal.shown /\ ~reveal.pending
  /\ IF reveal.consented
     THEN /\ reveal' = [reveal EXCEPT !.shown = TRUE, !.seen = TRUE]
          /\ written' = written \cup words
     ELSE reveal' = [reveal EXCEPT !.pending = TRUE] /\ UNCHANGED written
  /\ UNCHANGED <<rest, focus>>

Hide ==
  /\ AtSeed /\ reveal.shown /\ ~reveal.pending
  /\ reveal' = [reveal EXCEPT !.shown = FALSE]
  /\ UNCHANGED <<rest, focus, written>>

handleCancel ==
  /\ AtSeed /\ reveal.pending
  /\ reveal' = [reveal EXCEPT !.pending = FALSE]
  /\ UNCHANGED <<rest, focus, written>>

SubmitPin ==
  /\ AtSeed /\ reveal.pending /\ ~reveal.checking
  /\ reveal' = [reveal EXCEPT !.checking = TRUE, !.typed = TRUE]
  /\ UNCHANGED <<rest, focus, written>>

\* The answer, which may come to a dialog that was closed, or to a window without
\* focus: consent, and the phrase for whoever waits at the gate.
handleConfirm ==
  /\ boot = "app" /\ reveal.checking /\ pinStored
  /\ reveal' = [reveal EXCEPT !.checking = FALSE, !.pending = FALSE,
                              !.consented = TRUE,
                              !.shown = @ \/ reveal.pending,
                              !.seen = @ \/ reveal.pending]
  /\ written' = IF reveal.pending THEN written \cup words ELSE written
  /\ focus' = [focus EXCEPT !.answered = ~focus.on]
  /\ UNCHANGED rest

PinRefused ==
  /\ boot = "app" /\ reveal.checking
  /\ reveal' = [reveal EXCEPT !.checking = FALSE, !.late = FALSE]
  /\ UNCHANGED <<rest, focus, written>>

\* The window loses the focus: Tauri and the browser both tell installBlurClear.
\* (No other screen registers a callback.)
Blur ==
  /\ AtSeed
  /\ focus' = [on |-> FALSE, tauri |-> TRUE, dom |-> TRUE, answered |-> FALSE]
  /\ UNCHANGED <<rest, reveal, written>>

\* Seeded fault: the visit's consent outlives the loss of focus.
TauriBlurConsented ==
  /\ focus.tauri
  /\ focus' = [focus EXCEPT !.tauri = FALSE]
  /\ reveal' = [reveal EXCEPT !.shown = FALSE, !.typed = FALSE, !.late = reveal.checking]
  /\ UNCHANGED <<rest, written>>

\* An event from Rust: React draws after the microtask, or before it.
TauriBlur ==
  /\ focus.tauri
  /\ focus' = [focus EXCEPT !.tauri = FALSE]
  /\ \E drawnBetween \in BOOLEAN : reveal' = Cleared(drawnBetween)
  /\ UNCHANGED <<rest, written>>

\* Seeded fault: the window's own event is not listened to.
DomBlurIgnored ==
  /\ focus.dom
  /\ focus' = [focus EXCEPT !.dom = FALSE]
  /\ UNCHANGED <<rest, reveal, written>>

\* A discrete event of the browser: React draws at once.
DomBlur ==
  /\ focus.dom
  /\ focus' = [focus EXCEPT !.dom = FALSE]
  /\ reveal' = Cleared(TRUE)
  /\ UNCHANGED <<rest, written>>

Focus ==
  /\ ~focus.on /\ ~focus.tauri /\ ~focus.dom
  /\ focus' = InFocus
  /\ UNCHANGED <<rest, reveal, written>>

-----------------------------------------------------------------------------
Next ==
  \/ Probe \/ Retry \/ Hydrated \/ Restart
  \/ MenuInstalled \/ MenuFollows \/ MenuNavigates \/ Click
  \/ PinCreated \/ Unlock \/ WipeAndReset \/ Lock \/ ChangePin \/ PinChanged
  \/ CreateNew \/ WrittenDown \/ StoreKeys \/ KeysStored \/ Named
  \/ CreateFirst \/ CreateAnother \/ resetToRoot \/ DeleteWallet
  \/ Reveal \/ Hide \/ handleCancel \/ SubmitPin \/ handleConfirm \/ PinRefused
  \/ Blur \/ TauriBlur \/ DomBlur \/ Focus

Spec == Init /\ [][Next]_vars

-----------------------------------------------------------------------------
\* The screen shown is one of the tree that the stores call for, and has what it
\* reads: a phrase, the wallet it was handed, its own local state.
TypeOK ==
  /\ boot \in {"probing", "unavailable", "loading", "app"}
  /\ {pinStored, hasPIN, isLocked, installed} \subseteq BOOLEAN
  /\ wallets \subseteq Seeds \cup {Imported}
  /\ jobs \subseteq Seeds \cup {Imported, NewPin}
  /\ words \subseteq drawn /\ drawn \subseteq Seeds /\ written \subseteq drawn
  /\ carried \subseteq Seeds \cup {Imported} /\ opening \subseteq Seeds \cup {Imported}
  /\ \A s \in {words, carried, opening} : Cardinality(s) <= 1
  /\ menu \subseteq {"settings", "lock", "newWallet"}
  /\ boot = "app" => screen \in Tree(wallets, hasPIN, isLocked)
  /\ screen \in {"SeedPhrase", "SeedVerify"} => words # {}
  /\ screen \in {"WalletName", "SetupSuccess"} => carried # {}
  /\ screen # "SeedPhrase" => reveal = NoReveal /\ focus = InFocus

\* SeedPhraseScreen.tsx: the registry's clearing makes the next reveal ask for the
\* PIN again. Whenever the phrase appears, a PIN was typed after the screen was
\* opened and after the last clearing (a blur, a lock), over any order of dismissed
\* dialogs, answers and hidings; or one was being checked when the clearing came,
\* and its answer was not called back.
RevealNeedsFreshPin ==
  [][reveal'.shown /\ ~reveal.shown => reveal'.typed \/ reveal.late]_vars

\* revealRegistry.ts: once both events of a lost focus were handled the phrase is
\* hidden, unless a PIN that was being checked was confirmed meanwhile.
BlurHides ==
  ~focus.on /\ ~focus.tauri /\ ~focus.dom /\ ~focus.answered => ~reveal.shown

\* A wallet that was created here has had its phrase on the screen: whatever wizard
\* was left, restarted, locked away or overtaken by the continuation of another.
EveryPhraseWasShown == wallets \cap Seeds \subseteq written
=============================================================================
