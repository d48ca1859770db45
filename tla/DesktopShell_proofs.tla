------------------------- MODULE DesktopShell_proofs -------------------------
(***************************************************************************)
(* Proofs about DesktopShell, for any number of phrases: no wallet without *)
(* its phrase having been shown, no phrase in clear without a PIN typed    *)
(* since it was last hidden, or answered late, and none in clear once a    *)
(* lost focus was handled.                                                 *)
(***************************************************************************)
EXTENDS DesktopShell, FiniteSetTheorems, TLAPS

(***************************************************************************)
(* The strengthening, in named parts                                       *)
(***************************************************************************)

Phrases == Seeds \cup {Imported}
AtMostOne(s) == s = {} \/ \E x : s = {x}
Reveals == [shown : BOOLEAN, seen : BOOLEAN, consented : BOOLEAN,
            pending : BOOLEAN, checking : BOOLEAN, typed : BOOLEAN, late : BOOLEAN]
Focuses == [on : BOOLEAN, tauri : BOOLEAN, dom : BOOLEAN, answered : BOOLEAN]

Base ==
  /\ boot \in {"probing", "unavailable", "loading", "app"}
  /\ pinStored \in BOOLEAN /\ hasPIN \in BOOLEAN /\ isLocked \in BOOLEAN
  /\ installed \in BOOLEAN
  /\ wallets \subseteq Phrases /\ jobs \subseteq Phrases \cup {NewPin}
  /\ words \subseteq drawn /\ drawn \subseteq Seeds /\ written \subseteq drawn
  /\ opening \subseteq Phrases /\ AtMostOne(words) /\ AtMostOne(opening)
  /\ menu \subseteq {"settings", "lock", "newWallet"}

\* What the screen shown needs, and its local state.
View ==
  /\ carried \subseteq Phrases /\ AtMostOne(carried)
  /\ boot = "app" => screen \in Tree(wallets, hasPIN, isLocked)
  /\ screen \in {"SeedPhrase", "SeedVerify"} => words # {}
  /\ screen \in {"WalletName", "SetupSuccess"} => carried # {}
  /\ screen # "SeedPhrase" => reveal = NoReveal /\ focus = InFocus
  /\ reveal \in Reveals /\ focus \in Focuses

\* Whatever may become a wallet had its phrase shown: what a wizard screen was
\* handed, what is being stored, and the phrase that is about to be verified.
ShownInv ==
  /\ (wallets \cup carried \cup jobs) \cap Seeds \subseteq written
  /\ screen = "SeedVerify" \/ reveal.seen => words \subseteq written

\* A visit's consent, and a check that may become one, have their PIN; the gate is
\* not asked again while the visit has consented.
ConsentInv ==
  /\ reveal.consented \/ reveal.checking => reveal.typed \/ reveal.late
  /\ reveal.consented => ~reveal.pending /\ ~reveal.checking

\* The browser's event hides the phrase, and only a PIN's late answer shows it again.
FocusInv == ~focus.on /\ ~focus.dom /\ ~focus.answered => ~reveal.shown

IInv == Base /\ View /\ ShownInv /\ ConsentInv /\ FocusInv

(***************************************************************************)
(* Navigation                                                              *)
(***************************************************************************)

LEMMA Fresh ==
  /\ NoReveal \in Reveals /\ InFocus \in Focuses
  /\ ~NoReveal.shown /\ ~NoReveal.seen /\ ~NoReveal.consented /\ ~NoReveal.checking
  /\ InFocus.on
BY DEF NoReveal, InFocus, Reveals, Focuses

LEMMA LandedFacts ==
  ASSUME NEW target, NEW with
  PROVE  /\ Landed(target, with) \in Tree(wallets', hasPIN', isLocked')
         /\ Landed(target, with) \in {target, "Welcome", "PINUnlock", "WalletList",
                                      "WalletSetup"}
         /\ Landed(target, with) \in {"SeedPhrase", "SeedVerify"} => words' # {}
         /\ Landed(target, with) \in {"WalletName", "SetupSuccess"} => with # {}
<1>1. CASE wallets' = {} \/ ~hasPIN'
  BY <1>1 DEF Landed, Tree, Fallback, Wizard
<1>2. CASE wallets' # {} /\ hasPIN' /\ isLocked'
  BY <1>2 DEF Landed, Tree, Fallback
<1>3. CASE wallets' # {} /\ hasPIN' /\ ~isLocked'
  BY <1>3 DEF Landed, Tree, Fallback, MasterDetail, Wizard
<1> QED BY <1>1, <1>2, <1>3

LEMMA Navigated ==
  ASSUME NEW target, NEW with, navigate(target, with)
  PROVE  /\ screen' \in Tree(wallets', hasPIN', isLocked')
         /\ screen' \in {target, "Welcome", "PINUnlock", "WalletList", "WalletSetup"}
         /\ screen' \in {"SeedPhrase", "SeedVerify"} => words' # {}
         /\ screen' \in {"WalletName", "SetupSuccess"} => carried' # {}
         /\ carried' \in {with, {}}
         /\ \/ reveal' = NoReveal /\ focus' = InFocus
            \/ /\ UNCHANGED <<reveal, focus>>
               /\ screen = "SeedPhrase" /\ screen' = "SeedPhrase"
BY LandedFacts DEF navigate

\* What a step that navigates keeps, when it hands on no unseen phrase.
LEMMA NavigateStep ==
  ASSUME IInv, Base', NEW target, NEW with, navigate(target, with),
         with \subseteq Phrases, AtMostOne(with), written' = written,
         (wallets' \cup with \cup jobs') \cap Seeds \subseteq written,
         target = "SeedVerify" => words' \subseteq written,
         target # "SeedPhrase" \/ screen # "SeedPhrase"
  PROVE  IInv'
<1>1. /\ screen' \in Tree(wallets', hasPIN', isLocked')
      /\ screen' \in {target, "Welcome", "PINUnlock", "WalletList", "WalletSetup"}
      /\ screen' \in {"SeedPhrase", "SeedVerify"} => words' # {}
      /\ screen' \in {"WalletName", "SetupSuccess"} => carried' # {}
      /\ carried' \in {with, {}}
      /\ \/ reveal' = NoReveal /\ focus' = InFocus
         \/ /\ UNCHANGED <<reveal, focus>>
            /\ screen = "SeedPhrase" /\ screen' = "SeedPhrase"
  BY Navigated
<1>2. reveal' = NoReveal /\ focus' = InFocus
  BY <1>1
<1>3. View'
  BY <1>1, <1>2, Fresh DEF View, AtMostOne
<1>4. ShownInv'
  BY <1>1, <1>2, Fresh DEF ShownInv
<1>5. ConsentInv' /\ FocusInv'
  BY <1>2, Fresh DEF ConsentInv, FocusInv
<1> QED BY <1>3, <1>4, <1>5 DEF IInv

(***************************************************************************)
(* The steps                                                               *)
(***************************************************************************)

\* Steps that leave the stores, the screen and the phrases.
Quiet == Probe \/ Retry \/ MenuInstalled \/ MenuFollows \/ ChangePin \/ StoreKeys

LEMMA QuietStep ==
  ASSUME IInv, Quiet
  PROVE  IInv'
<1>1. Base'
  <2>1. CASE Probe \/ Retry
    BY <2>1 DEF IInv, Base, Probe, Retry, auth, wizard, bar
  <2>2. CASE MenuInstalled
    BY <2>2 DEF IInv, Base, MenuInstalled, auth, wizard
  <2>3. CASE MenuFollows
    BY <2>3 DEF IInv, Base, MenuFollows, Enabled, auth, wizard
  <2>4. CASE ChangePin
    BY <2>4 DEF IInv, Base, ChangePin, auth, bar
  <2>5. CASE StoreKeys
    BY <2>5 DEF IInv, Base, StoreKeys, Phrases, auth, bar
  <2> QED BY <2>1, <2>2, <2>3, <2>4, <2>5 DEF Quiet
<1>2. UNCHANGED <<wallets, hasPIN, isLocked, screen, carried, reveal, focus, words, written>>
  BY DEF Quiet, Probe, Retry, MenuInstalled, MenuFollows, ChangePin, StoreKeys, auth, view,
         wizard
<1>3. boot' = "app" => boot = "app"
  BY DEF Quiet, Probe, Retry, MenuInstalled, MenuFollows, ChangePin, StoreKeys
<1>4. View'
  BY <1>2, <1>3 DEF IInv, View
<1>5. jobs' \cap Seeds \subseteq written
  <2>1. CASE Probe \/ Retry \/ MenuInstalled \/ MenuFollows
    BY <2>1 DEF IInv, ShownInv, Probe, Retry, MenuInstalled, MenuFollows, wizard
  <2>2. CASE ChangePin
    BY <2>2, ShellAssumption DEF IInv, ShownInv, ChangePin
  <2>3. CASE StoreKeys
    BY <2>3, ShellAssumption DEF IInv, ShownInv, StoreKeys, At
  <2> QED BY <2>1, <2>2, <2>3 DEF Quiet
<1>6. ShownInv' /\ ConsentInv' /\ FocusInv'
  BY <1>2, <1>5 DEF IInv, ShownInv, ConsentInv, FocusInv
<1> QED BY <1>1, <1>4, <1>6 DEF IInv

\* Steps of the boot, the menu, the links and the PINs that navigate.
LEMMA TurnStep ==
  ASSUME IInv,
         \/ Hydrated \/ MenuNavigates \/ Click \/ PinCreated \/ Unlock \/ WipeAndReset
         \/ PinChanged \/ DeleteWallet
  PROVE  IInv'
<1>0. {} \subseteq Phrases /\ AtMostOne({})
  BY DEF AtMostOne
<1>1. CASE Hydrated
  <2>1. Base'
    BY <1>1 DEF IInv, Base, Hydrated, bar
  <2>2. UNCHANGED <<wallets, jobs, words, written>> /\ navigate("Welcome", {})
    BY <1>1 DEF Hydrated
  <2> QED BY <1>0, <2>1, <2>2, NavigateStep DEF IInv, ShownInv
<1>2. CASE MenuNavigates
  <2>1. Base'
    BY <1>2 DEF IInv, Base, MenuNavigates, auth, bar
  <2>2. /\ UNCHANGED <<wallets, jobs, words, written>>
        /\ navigate("Settings", {}) \/ navigate("WalletSetup", {})
    BY <1>2 DEF MenuNavigates, auth
  <2> QED BY <1>0, <2>1, <2>2, NavigateStep DEF IInv, ShownInv
<1>3. CASE Click
  <2>1. Base'
    BY <1>3 DEF IInv, Base, Click, auth, bar
  <2>2. UNCHANGED <<wallets, jobs, words, written>>
    BY <1>3 DEF Click, auth
  <2>3. PICK link \in Links : navigate(link[2], {})
    BY <1>3 DEF Click
  <2>4. link[2] # "SeedVerify" /\ link[2] # "SeedPhrase"
    BY DEF Links, MasterDetail
  <2> QED BY <1>0, <2>1, <2>2, <2>3, <2>4, NavigateStep DEF IInv, ShownInv
<1>4. CASE PinCreated
  <2>1. Base'
    BY <1>4 DEF IInv, Base, PinCreated, bar
  <2>2. UNCHANGED <<wallets, jobs, words, written>> /\ navigate("WalletSetup", {})
    BY <1>4 DEF PinCreated
  <2> QED BY <1>0, <2>1, <2>2, NavigateStep DEF IInv, ShownInv
<1>5. CASE Unlock
  <2>1. Base'
    BY <1>5 DEF IInv, Base, Unlock, bar
  <2>2. UNCHANGED <<wallets, jobs, words, written>> /\ navigate("PINUnlock", {})
    BY <1>5 DEF Unlock
  <2> QED BY <1>0, <2>1, <2>2, NavigateStep DEF IInv, ShownInv
<1>6. CASE WipeAndReset
  <2>1. Base'
    BY <1>6 DEF IInv, Base, WipeAndReset, bar
  <2>2. UNCHANGED <<jobs, words, written>> /\ wallets' = {} /\ navigate("Welcome", {})
    BY <1>6 DEF WipeAndReset
  <2> QED BY <1>0, <2>1, <2>2, NavigateStep DEF IInv, ShownInv
<1>7. CASE PinChanged
  <2>1. Base'
    BY <1>7 DEF IInv, Base, PinChanged, auth, bar
  <2>2. UNCHANGED <<wallets, hasPIN, isLocked, words, written, boot>> /\ jobs' \subseteq jobs
    BY <1>7 DEF PinChanged, auth
  <2>3. CASE navigate("Settings", {})
    BY <1>0, <2>1, <2>2, <2>3, NavigateStep DEF IInv, ShownInv
  <2>4. CASE UNCHANGED view
    <3>1. View'
      BY <2>2, <2>4 DEF IInv, View, view
    <3>2. ShownInv' /\ ConsentInv' /\ FocusInv'
      BY <2>2, <2>4 DEF IInv, ShownInv, ConsentInv, FocusInv, view
    <3> QED BY <2>1, <3>1, <3>2 DEF IInv
  <2> QED BY <1>7, <2>3, <2>4 DEF PinChanged
<1>8. CASE DeleteWallet
  <2>1. Base'
    BY <1>8 DEF IInv, Base, DeleteWallet, bar
  <2>2. /\ UNCHANGED <<jobs, words, written>> /\ wallets' \subseteq wallets
        /\ navigate("WalletList", {})
    BY <1>8 DEF DeleteWallet
  <2> QED BY <1>0, <2>1, <2>2, NavigateStep DEF IInv, ShownInv
<1> QED BY <1>1, <1>2, <1>3, <1>4, <1>5, <1>6, <1>7, <1>8

\* Steps of the wizards that navigate.
LEMMA WizardStep ==
  ASSUME IInv,
         \/ CreateNew \/ WrittenDown \/ KeysStored \/ Named
         \/ CreateFirst \/ CreateAnother \/ resetToRoot
  PROVE  IInv'
<1>0. {} \subseteq Phrases /\ AtMostOne({})
  BY DEF AtMostOne
<1>1. CASE CreateNew
  <2>1. PICK s \in Seeds \ drawn : words' = {s} /\ drawn' = drawn \cup {s}
    BY <1>1 DEF CreateNew
  <2>2. /\ UNCHANGED <<wallets, hasPIN, isLocked, jobs, opening, installed, menu, boot,
                       pinStored, written>>
        /\ screen = "WalletSetup" /\ navigate("SeedPhrase", {})
    BY <1>1 DEF CreateNew, At, auth, bar
  <2>3. Base'
    BY <2>1, <2>2 DEF IInv, Base, AtMostOne
  <2> QED BY <1>0, <2>2, <2>3, NavigateStep DEF IInv, ShownInv
<1>2. CASE WrittenDown
  <2>1. Base'
    BY <1>2 DEF IInv, Base, WrittenDown, auth, bar
  <2>2. /\ UNCHANGED <<wallets, jobs, words, written>> /\ reveal.seen
        /\ navigate("SeedVerify", {})
    BY <1>2 DEF WrittenDown, auth
  <2> QED BY <1>0, <2>1, <2>2, NavigateStep DEF IInv, ShownInv
<1>3. CASE KeysStored
  <2>1. PICK w \in jobs \ {NewPin} :
          /\ jobs' = jobs \ {w}
          /\ navigate("WalletName", {w}) \/ UNCHANGED view
    BY <1>3 DEF KeysStored
  <2>2. UNCHANGED <<wallets, hasPIN, isLocked, words, boot, pinStored, drawn, opening,
                    installed, menu, written>>
    BY <1>3 DEF KeysStored, auth, bar
  <2>3. Base'
    BY <2>1, <2>2 DEF IInv, Base
  <2>4. {w} \subseteq Phrases /\ AtMostOne({w}) /\ {w} \cap Seeds \subseteq written
    BY DEF IInv, Base, ShownInv, AtMostOne
  <2>5. CASE navigate("WalletName", {w})
    BY <2>1, <2>2, <2>3, <2>4, <2>5, NavigateStep DEF IInv, ShownInv
  <2>6. CASE UNCHANGED view
    <3>1. View'
      BY <2>2, <2>6 DEF IInv, View, view
    <3>2. ShownInv' /\ ConsentInv' /\ FocusInv'
      BY <2>1, <2>2, <2>6 DEF IInv, ShownInv, ConsentInv, FocusInv, view
    <3> QED BY <2>3, <3>1, <3>2 DEF IInv
  <2> QED BY <2>1, <2>5, <2>6
<1>4. CASE Named
  <2>1. Base'
    BY <1>4 DEF IInv, Base, Named, auth, bar
  <2>2. UNCHANGED <<wallets, jobs, words, written>> /\ navigate("SetupSuccess", carried)
    BY <1>4 DEF Named, auth
  <2> QED BY <2>1, <2>2, NavigateStep DEF IInv, View, ShownInv
<1>5. CASE CreateFirst
  <2>1. /\ wallets' = carried /\ isLocked' = FALSE /\ opening' = carried
        /\ UNCHANGED <<hasPIN, words, boot, pinStored, drawn, jobs, installed, menu, written>>
        /\ navigate("SetupSuccess", carried) \/ navigate("PINUnlock", {})
    BY <1>5 DEF CreateFirst, bar
  <2>2. Base'
    BY <2>1 DEF IInv, Base, View
  <2> QED BY <1>0, <2>1, <2>2, NavigateStep DEF IInv, View, ShownInv
<1>6. CASE CreateAnother
  <2>1. /\ wallets' = wallets \cup carried /\ isLocked' = FALSE /\ words' = {}
        /\ UNCHANGED <<hasPIN, opening, boot, pinStored, drawn, jobs, installed, menu, written>>
        /\ navigate("WalletDetail", {})
    BY <1>6 DEF CreateAnother, bar
  <2>2. Base'
    BY <1>0, <2>1 DEF IInv, Base, View
  <2> QED BY <1>0, <2>1, <2>2, NavigateStep DEF IInv, View, ShownInv
<1>7. CASE resetToRoot
  <2>1. /\ opening' = {} /\ words' = {}
        /\ UNCHANGED <<wallets, hasPIN, isLocked, boot, pinStored, drawn, jobs, installed,
                       menu, written>>
        /\ navigate("WalletDetail", {})
    BY <1>7 DEF resetToRoot, auth, bar
  <2>2. Base'
    BY <1>0, <2>1 DEF IInv, Base
  <2> QED BY <1>0, <2>1, <2>2, NavigateStep DEF IInv, ShownInv
<1> QED BY <1>1, <1>2, <1>3, <1>4, <1>5, <1>6, <1>7

LEMMA ClearedFacts ==
  ASSUME reveal \in Reveals, NEW drawnBetween \in BOOLEAN
  PROVE  /\ Cleared(drawnBetween) \in Reveals
         /\ ~Cleared(drawnBetween).consented
         /\ Cleared(drawnBetween).shown => reveal.shown /\ ~drawnBetween
         /\ Cleared(drawnBetween).seen = reveal.seen
         /\ Cleared(drawnBetween).checking => Cleared(drawnBetween).late
         /\ reveal = NoReveal => Cleared(drawnBetween) = NoReveal
<1>1. /\ Cleared(drawnBetween) \in Reveals
      /\ ~Cleared(drawnBetween).consented /\ ~Cleared(drawnBetween).typed
      /\ Cleared(drawnBetween).late = reveal.checking
      /\ Cleared(drawnBetween).shown => reveal.shown /\ ~drawnBetween
      /\ Cleared(drawnBetween).seen = reveal.seen
      /\ Cleared(drawnBetween).pending = reveal.pending
      /\ Cleared(drawnBetween).checking = reveal.checking
  BY DEF Cleared, Reveals
<1>2. ASSUME NEW r \in Reveals, ~r.shown, ~r.seen, ~r.consented, ~r.pending, ~r.checking,
             ~r.typed, ~r.late
      PROVE  r = NoReveal
  BY <1>2 DEF Reveals, NoReveal
<1>3. ASSUME reveal = NoReveal
      PROVE  Cleared(drawnBetween) = NoReveal
  <2>1. ~reveal.shown /\ ~reveal.seen /\ ~reveal.pending /\ ~reveal.checking
    BY <1>3 DEF NoReveal
  <2>2. /\ ~Cleared(drawnBetween).shown /\ ~Cleared(drawnBetween).seen
        /\ ~Cleared(drawnBetween).pending /\ ~Cleared(drawnBetween).checking
    BY <1>1, <2>1
  <2> QED BY <1>1, <1>2, <2>2
<1> QED BY <1>1, <1>3

LEMMA LockStep ==
  ASSUME IInv, Lock
  PROVE  IInv' /\ (reveal'.shown => reveal.shown)
<1>1. /\ screen' = Landed(screen, carried) /\ isLocked' = TRUE
      /\ UNCHANGED <<wallets, hasPIN, words, boot, pinStored, drawn, jobs, opening, installed,
                     menu, written>>
  BY DEF Lock, bar
<1>2. Base'
  BY <1>1 DEF IInv, Base
<1>3. /\ screen' \in Tree(wallets', hasPIN', isLocked')
      /\ screen' \in {screen, "Welcome", "PINUnlock", "WalletList", "WalletSetup"}
      /\ screen' \in {"SeedPhrase", "SeedVerify"} => words' # {}
      /\ screen' \in {"WalletName", "SetupSuccess"} => carried # {}
  BY <1>1, LandedFacts
<1>4. CASE screen' = screen
  <2>1. carried' = carried /\ focus' = focus
    BY <1>4 DEF Lock
  <2>2. reveal' = reveal \/ \E drawnBetween \in BOOLEAN : reveal' = Cleared(drawnBetween)
    BY <1>4 DEF Lock
  <2>3. /\ reveal' \in Reveals /\ reveal'.seen = reveal.seen
        /\ reveal'.shown => reveal.shown
        /\ reveal' = reveal \/ (~reveal'.consented /\ (reveal'.checking => reveal'.late))
        /\ reveal = NoReveal => reveal' = NoReveal
    BY <2>2, ClearedFacts DEF IInv, View
  <2>4. View'
    BY <1>1, <1>3, <1>4, <2>1, <2>3 DEF IInv, View
  <2>5. ShownInv' /\ ConsentInv' /\ FocusInv'
    BY <1>1, <1>4, <2>1, <2>3 DEF IInv, ShownInv, ConsentInv, FocusInv
  <2> QED BY <1>2, <2>3, <2>4, <2>5 DEF IInv
<1>5. CASE screen' # screen
  <2>1. carried' = {} /\ reveal' = NoReveal /\ focus' = InFocus
    BY <1>5 DEF Lock
  <2>2. View'
    BY <1>3, <1>5, <2>1, Fresh DEF View, AtMostOne
  <2>3. ShownInv' /\ ConsentInv' /\ FocusInv'
    BY <1>1, <1>3, <1>5, <2>1, Fresh DEF IInv, ShownInv, ConsentInv, FocusInv
  <2> QED BY <1>2, <2>1, <2>2, <2>3, Fresh DEF IInv
<1> QED BY <1>4, <1>5

LEMMA RestartStep ==
  ASSUME IInv, Restart
  PROVE  IInv'
<1>1. /\ boot' = "probing" /\ hasPIN' = FALSE /\ isLocked' = TRUE /\ screen' = "Welcome"
      /\ carried' = {} /\ reveal' = NoReveal /\ focus' = InFocus /\ words' = {}
      /\ jobs' = {} /\ opening' = {} /\ installed' = FALSE /\ menu' = {}
      /\ UNCHANGED <<pinStored, wallets, drawn, written>>
  BY DEF Restart
<1>2. Base'
  BY <1>1 DEF IInv, Base, AtMostOne
<1>3. View'
  BY <1>1, Fresh DEF View, AtMostOne
<1>4. ShownInv' /\ ConsentInv' /\ FocusInv'
  BY <1>1, Fresh DEF IInv, ShownInv, ConsentInv, FocusInv
<1> QED BY <1>2, <1>3, <1>4 DEF IInv

SeedScreen ==
  \/ Reveal \/ Hide \/ handleCancel \/ SubmitPin \/ handleConfirm \/ PinRefused
  \/ Blur \/ TauriBlur \/ DomBlur \/ Focus

\* What a step of the seed phrase screen does to its state.
Shows ==
  /\ screen = "SeedPhrase"
  /\ reveal' \in Reveals /\ focus' \in Focuses
  /\ written \subseteq written' /\ written' \subseteq written \cup words
  /\ reveal'.seen => reveal.seen \/ words \subseteq written'
  /\ reveal'.shown /\ ~reveal.shown => reveal'.typed \/ reveal.late
  /\ ConsentInv' /\ FocusInv'

LEMMA ShowsStep ==
  ASSUME IInv, SeedScreen
  PROVE  Shows
<1>0. /\ reveal \in Reveals /\ focus \in Focuses
      /\ screen # "SeedPhrase" => reveal = NoReveal /\ focus = InFocus
      /\ ConsentInv
      /\ ~focus.on /\ ~focus.dom /\ ~focus.answered => ~reveal.shown
  BY DEF IInv, View, ConsentInv, FocusInv
<1> USE DEF Shows, ConsentInv, FocusInv, Reveals, Focuses, AtSeed, At
<1>1. CASE Reveal
  BY <1>0, <1>1 DEF Reveal
<1>2. CASE Hide
  BY <1>0, <1>2 DEF Hide
<1>3. CASE handleCancel
  BY <1>0, <1>3 DEF handleCancel
<1>4. CASE SubmitPin
  BY <1>0, <1>4 DEF SubmitPin
<1>5. CASE handleConfirm
  <2>1. screen = "SeedPhrase"
    BY <1>0, <1>5 DEF handleConfirm, NoReveal
  <2> QED BY ZenonT(40), <1>0, <1>5, <2>1 DEF handleConfirm
<1>6. CASE PinRefused
  <2>1. screen = "SeedPhrase"
    BY <1>0, <1>6 DEF PinRefused, NoReveal
  <2> QED BY <1>0, <1>6, <2>1 DEF PinRefused
<1>7. CASE Blur
  BY <1>0, <1>7 DEF Blur
<1>8. CASE TauriBlur
  <2>1. screen = "SeedPhrase"
    BY <1>0, <1>8 DEF TauriBlur, InFocus
  <2>2. PICK drawnBetween \in BOOLEAN : reveal' = Cleared(drawnBetween)
    BY <1>8 DEF TauriBlur
  <2>3. /\ focus' = [focus EXCEPT !.tauri = FALSE] /\ UNCHANGED written
    BY <1>8 DEF TauriBlur
  <2> QED BY <1>0, <2>1, <2>2, <2>3, ClearedFacts
<1>9. CASE DomBlur
  <2>1. screen = "SeedPhrase"
    BY <1>0, <1>9 DEF DomBlur, InFocus
  <2>2. reveal' = Cleared(TRUE)
    BY <1>9 DEF DomBlur
  <2>3. /\ focus' = [focus EXCEPT !.dom = FALSE] /\ UNCHANGED written
    BY <1>9 DEF DomBlur
  <2> QED BY <1>0, <2>1, <2>2, <2>3, ClearedFacts
<1>10. CASE Focus
  <2>1. screen = "SeedPhrase"
    BY <1>0, <1>10 DEF Focus, InFocus
  <2> QED BY <1>0, <1>10, <2>1, Fresh DEF Focus
<1> QED
  BY <1>1, <1>2, <1>3, <1>4, <1>5, <1>6, <1>7, <1>8, <1>9, <1>10 DEF SeedScreen

LEMMA SeedStep ==
  ASSUME IInv, SeedScreen
  PROVE  IInv'
<1>1. Shows
  BY ShowsStep
<1>2. UNCHANGED <<boot, pinStored, wallets, hasPIN, isLocked, screen, carried, words, drawn,
                  jobs, opening, installed, menu>>
  BY DEF SeedScreen, Reveal, Hide, handleCancel, SubmitPin, handleConfirm, PinRefused, Blur,
         TauriBlur, DomBlur, Focus, rest, auth, wizard, bar
<1>3. Base'
  BY <1>1, <1>2 DEF IInv, Base, Shows
<1>4. View'
  BY <1>1, <1>2 DEF IInv, View, Shows
<1>5. ShownInv'
  BY <1>1, <1>2 DEF IInv, ShownInv, Shows
<1> QED BY <1>1, <1>3, <1>4, <1>5 DEF IInv, Shows

LEMMA NextCases ==
  ASSUME [Next]_vars
  PROVE  \/ Quiet \/ SeedScreen \/ Lock \/ Restart \/ UNCHANGED vars
         \/ Hydrated \/ MenuNavigates \/ Click \/ PinCreated \/ Unlock \/ WipeAndReset
         \/ PinChanged \/ DeleteWallet
         \/ CreateNew \/ WrittenDown \/ KeysStored \/ Named
         \/ CreateFirst \/ CreateAnother \/ resetToRoot
BY DEF Next, Quiet, SeedScreen

LEMMA IInvStep ==
  ASSUME IInv, [Next]_vars
  PROVE  IInv'
<1>1. CASE UNCHANGED vars
  BY <1>1 DEF IInv, Base, View, ShownInv, ConsentInv, FocusInv, vars, auth, view, wizard, bar
<1> QED BY <1>1, NextCases, QuietStep, SeedStep, LockStep, RestartStep, TurnStep, WizardStep

LEMMA InitIInv ==
  ASSUME Init
  PROVE  IInv
<1>1. Base
  BY DEF Init, Base, Phrases, AtMostOne
<1>2. View
  BY Fresh DEF Init, View, AtMostOne
<1>3. ShownInv /\ ConsentInv /\ FocusInv
  BY Fresh, ShellAssumption DEF Init, ShownInv, ConsentInv, FocusInv
<1> QED BY <1>1, <1>2, <1>3 DEF IInv

LEMMA Inductive == Spec => []IInv
<1>1. Init => IInv
  BY InitIInv
<1>2. IInv /\ [Next]_vars => IInv'
  BY IInvStep
<1> QED BY <1>1, <1>2, PTL DEF Spec

\* A step that navigates shows no phrase.
LEMMA RevealStep ==
  ASSUME IInv, [Next]_vars, reveal'.shown, ~reveal.shown
  PROVE  reveal'.typed \/ reveal.late
<1>1. CASE SeedScreen
  BY <1>1, ShowsStep DEF Shows
<1>2. CASE Lock
  BY <1>2, LockStep
<1>3. CASE Quiet \/ UNCHANGED vars
  BY <1>3 DEF Quiet, Probe, Retry, MenuInstalled, MenuFollows, ChangePin, StoreKeys, vars, view
<1>4. CASE Restart
  BY <1>4, Fresh DEF Restart
<1>5. ASSUME NEW target, NEW with, navigate(target, with)
      PROVE  FALSE
  BY <1>5, Navigated, Fresh
<1>6. CASE PinChanged \/ KeysStored
  BY <1>5, <1>6 DEF PinChanged, KeysStored, view
<1>7. CASE \/ Hydrated \/ MenuNavigates \/ Click \/ PinCreated \/ Unlock \/ WipeAndReset
           \/ DeleteWallet
  BY <1>5, <1>7 DEF Hydrated, MenuNavigates, Click, PinCreated, Unlock, WipeAndReset,
                    DeleteWallet
<1>8. CASE CreateNew \/ WrittenDown \/ Named \/ CreateFirst \/ CreateAnother \/ resetToRoot
  BY <1>5, <1>8 DEF CreateNew, WrittenDown, Named, CreateFirst, CreateAnother, resetToRoot
<1> QED BY <1>1, <1>2, <1>3, <1>4, <1>6, <1>7, <1>8, NextCases

(***************************************************************************)
(* The theorems                                                            *)
(***************************************************************************)

LEMMA Single ==
  ASSUME NEW s, AtMostOne(s)
  PROVE  Cardinality(s) <= 1
<1>1. CASE s = {}
  BY <1>1, FS_EmptySet
<1>2. CASE \E x : s = {x}
  BY <1>2, FS_Singleton
<1> QED BY <1>1, <1>2 DEF AtMostOne

\* The screen shown by App.tsx is always one of the tree its stores call for, and a
\* wizard screen has the phrase or the wallet that it reads.
THEOREM TypeCorrect == Spec => []TypeOK
<1>1. ASSUME IInv
      PROVE  TypeOK
  <2>1. Cardinality(words) <= 1 /\ Cardinality(carried) <= 1 /\ Cardinality(opening) <= 1
    BY <1>1, Single DEF IInv, Base, View
  <2> QED BY <1>1, <2>1 DEF IInv, Base, View, Phrases, TypeOK
<1> QED BY <1>1, Inductive, PTL

\* Whatever wizard was left, locked away or overtaken by a late continuation, goToWalletName
\* hands on only wallets whose phrase SeedPhraseScreen showed, so only those are listed.
THEOREM PhrasesWereShown == Spec => []EveryPhraseWasShown
<1>1. IInv => EveryPhraseWasShown
  BY DEF IInv, ShownInv, EveryPhraseWasShown
<1> QED BY <1>1, Inductive, PTL

\* installBlurClear hears of a lost focus twice; once it has, the phrase is hidden, unless
\* the gate confirmed a PIN that was being checked meanwhile.
THEOREM BlurHidesPhrase == Spec => []BlurHides
<1>1. IInv => BlurHides
  BY DEF IInv, FocusInv, BlurHides
<1> QED BY <1>1, Inductive, PTL

\* No order of dismissed dialogs, late answers, blurs and locks lets HoldToReveal show the
\* phrase again without a PIN typed since the registry last cleared the screen, or one
\* that was being checked when it did.
THEOREM PinBeforeReveal == Spec => RevealNeedsFreshPin
<1>1. IInv /\ [Next]_vars =>
        [reveal'.shown /\ ~reveal.shown => reveal'.typed \/ reveal.late]_vars
  BY RevealStep
<1> QED BY <1>1, Inductive, PTL DEF Spec, RevealNeedsFreshPin
=============================================================================
