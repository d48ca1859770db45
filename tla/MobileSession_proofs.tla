------------------------ MODULE MobileSession_proofs ------------------------
(***************************************************************************)
(* Proofs about MobileSession, for any number of wallets, verifications    *)
(* and waiting storage calls: a marked install has no v1.0 key but the     *)
(* refused ones, a wallet that reached the disk stays there with its keys, *)
(* and behind a PIN.                                                       *)
(***************************************************************************)
EXTENDS MobileSession, SequenceTheorems, TLAPS

(***************************************************************************)
(* The strengthening, in named parts                                       *)
(***************************************************************************)

Ops == {"readRegistry", "readVersion", "clear", "mark", "write"}
Requests == [op : Ops, list : SUBSET Wallets]

\* Only writes wait more than once, and what waits belongs to a stage of the boot.
QueueInv ==
  /\ \A i, j \in 1..Len(io) :
       io[i].op = io[j].op /\ io[i].op # "write" => i = j
  /\ \A i \in 1..Len(io) :
       /\ io[i].op = "readRegistry" => hydration = "reading"
       /\ io[i].op = "readVersion" => boot = "version"
       /\ io[i].op = "clear" => boot = "clear"
       /\ io[i].op = "mark" => boot = "mark"
       /\ io[i].op = "write" => hydration = "hydrated"
  /\ hydration # "hydrated" => wallets = {} /\ wipe.stage = "idle"
  /\ boot \in {"deleteKeys", "clear", "mark"} => ~version

\* The mark is asked for only after the v1.0 keys were deleted.
MarkInv == version \/ boot \in {"clear", "mark"} => v1 # "present"

\* A listed wallet of the disk is in every write on its way, and one of a write in
\* those behind it.
OrderInv ==
  /\ \A i \in 1..Len(io) : io[i].op = "write" => registry \cap wallets \subseteq io[i].list
  /\ \A i, j \in 1..Len(io) :
       i < j /\ io[i].op = "write" /\ io[j].op = "write" =>
         io[i].list \cap wallets \subseteq io[j].list

\* A wallet of the wizard is nowhere yet.
Fresh(w) ==
  /\ w \in used /\ w \notin registry \cup wallets \cup created
  /\ \A i \in 1..Len(io) : io[i].op = "write" => w \notin io[i].list

WizardInv ==
  /\ registry \cup wallets \cup created \subseteq used
  /\ \A i \in 1..Len(io) : io[i].op = "write" => io[i].list \subseteq used
  /\ wizard.id # None => Fresh(wizard.id)
  /\ wizard.storing # None => Fresh(wizard.storing) /\ wizard.storing # wizard.id
  /\ route \in {"WalletName", "SetupSuccess"} => wizard.id # None

\* Until the mark is set, unless a step threw, nothing has been made.
Young ==
  /\ registry = {} /\ wallets = {} /\ created = {} /\ ~hasPIN /\ route = "Welcome"
  /\ saves = {} /\ wipe.stage = "idle" /\ wizard.storing = None
  /\ \A i \in 1..Len(io) : io[i].op = "write" => io[i].list = {}
  /\ boot \notin {"loadPin", "done"}

YoungInv == ~stepFailed /\ ~version => Young

ListInv ==
  ~stepFailed => /\ created \subseteq registry
                 /\ hydration = "hydrated" => created \subseteq wallets

KeysInv ==
  /\ wipe.stage # "idle" => wiped
  /\ ~wiped => /\ registry \cup wallets \cup created \subseteq keys
               /\ \A i \in 1..Len(io) : io[i].op = "write" => io[i].list \subseteq keys
               /\ wizard.id # None => wizard.id \in keys

PinInv ==
  ~wiped /\ ~stepFailed /\ ~pin =>
    /\ ~hasPIN /\ route \in Onboarding
    /\ registry = {} /\ wallets = {}
    /\ \A i \in 1..Len(io) : io[i].op = "write" => io[i].list = {}

(***************************************************************************)
(* The queue of storage calls                                              *)
(***************************************************************************)

LEMMA Popped ==
  ASSUME io \in Seq(Requests), io # <<>>
  PROVE  /\ Tail(io) \in Seq(Requests) /\ Len(Tail(io)) = Len(io) - 1
         /\ 1 \in 1..Len(io) /\ Head(io) = io[1] /\ Head(io) \in Requests
         /\ \A i \in 1..Len(Tail(io)) : i + 1 \in 1..Len(io) /\ Tail(io)[i] = io[i + 1]
<1>1. Len(io) \in Nat /\ Len(io) > 0
  BY EmptySeq, LenProperties
<1>2. /\ Head(io) \in Requests /\ Tail(io) \in Seq(Requests)
      /\ Len(Tail(io)) = Len(io) - 1
      /\ \A i \in 1..Len(Tail(io)) : Tail(io)[i] = io[i + 1]
  BY HeadTailProperties
<1> QED BY <1>1, <1>2

LEMMA Appended ==
  ASSUME NEW s \in Seq(Requests), NEW c \in Requests
  PROVE  /\ Append(s, c) \in Seq(Requests) /\ Len(Append(s, c)) = Len(s) + 1
         /\ \A i \in 1..Len(Append(s, c)) :
              \/ i \in 1..Len(s) /\ Append(s, c)[i] = s[i]
              \/ i = Len(s) + 1 /\ Append(s, c)[i] = c
OBVIOUS

LEMMA Replaced ==
  ASSUME io \in Seq(Requests), io # <<>>, NEW c \in Requests
  PROVE  /\ Append(Rest, c) \in Seq(Requests) /\ Len(Append(Rest, c)) = Len(io)
         /\ \A i \in 1..Len(Append(Rest, c)) :
              \/ i + 1 \in 1..Len(io) /\ Append(Rest, c)[i] = io[i + 1]
              \/ i = Len(io) /\ Append(Rest, c)[i] = c
<1>1. /\ Tail(io) \in Seq(Requests) /\ Len(Tail(io)) = Len(io) - 1
      /\ \A i \in 1..Len(Tail(io)) : i + 1 \in 1..Len(io) /\ Tail(io)[i] = io[i + 1]
  BY Popped
<1>2. Len(io) \in Nat
  BY LenProperties
<1>3. /\ Append(Tail(io), c) \in Seq(Requests)
      /\ Len(Append(Tail(io), c)) = Len(Tail(io)) + 1
      /\ \A i \in 1..Len(Append(Tail(io), c)) :
           \/ i \in 1..Len(Tail(io)) /\ Append(Tail(io), c)[i] = Tail(io)[i]
           \/ i = Len(Tail(io)) + 1 /\ Append(Tail(io), c)[i] = c
  BY <1>1, Appended
<1>4. ASSUME NEW i \in 1..Len(Append(Tail(io), c))
      PROVE  \/ i + 1 \in 1..Len(io) /\ Append(Tail(io), c)[i] = io[i + 1]
             \/ i = Len(io) /\ Append(Tail(io), c)[i] = c
  <2>1. CASE i \in 1..Len(Tail(io)) /\ Append(Tail(io), c)[i] = Tail(io)[i]
    BY <1>1, <2>1
  <2>2. CASE i = Len(Tail(io)) + 1 /\ Append(Tail(io), c)[i] = c
    BY <1>1, <1>2, <2>2
  <2> QED BY <1>3, <2>1, <2>2
<1>5. Len(Append(Tail(io), c)) = Len(io)
  <2>1. Len(Tail(io)) = Len(io) - 1
    BY <1>1
  <2>2. Len(Append(Tail(io), c)) = Len(Tail(io)) + 1
    BY <1>3
  <2> QED BY <1>2, <2>1, <2>2
<1> QED BY <1>3, <1>4, <1>5 DEF Rest

(***************************************************************************)
(* The navigator                                                           *)
(***************************************************************************)

Screens == {"PINUnlock"} \cup Onboarding \cup NewWalletFlow \cup MainScreens

LEMMA ShowRoute ==
  ASSUME NEW r, Show(r)
  PROVE  /\ route' \in {r, "PINUnlock", "Welcome", "WalletList"}
         /\ wallets' = {} => route' \in {r, "Welcome"}
         /\ wallets' = {} => route' \in Onboarding \cup NewWalletFlow
         /\ wallets' # {} => route' \notin Onboarding
         /\ wallets' # {} /\ isLocked' = FALSE /\ r = "WalletList" => route' = r
         /\ prompt' \in {prompt, "unasked"}
<1>1. CASE wallets' = {}
  BY <1>1 DEF Show, Tree, First, Onboarding, NewWalletFlow
<1>2. CASE wallets' # {} /\ isLocked'
  BY <1>2 DEF Show, Tree, First, Onboarding
<1>3. CASE wallets' # {} /\ ~isLocked'
  BY <1>3 DEF Show, Tree, First, MainScreens, NewWalletFlow, Onboarding
<1> QED BY <1>1, <1>2, <1>3

(***************************************************************************)
(* The steps in groups                                                     *)
(***************************************************************************)

Moves ==
  \/ GetStarted \/ PinTyped \/ OpenWizard \/ BackToWallets \/ ChooseCreate
  \/ ChooseImport \/ ContinueToVerify \/ BackFromPhrase \/ BackFromVerify
  \/ BackFromImport \/ ContinueToSetupSuccess

\* Steps that leave the disk but for the PIN, the queue, the list and the wizard.
Calm ==
  \/ Moves \/ ConfirmPin \/ PinSaved \/ EnterNew \/ ConfirmNew
  \/ \E s \in saves : NewPinSaved(s) \/ SaveRefused(s)
  \/ \E n \in InFlight : Submit(n) \/ Matched(n) \/ Mismatched(n)
  \/ CooldownEnds \/ Prompt \/ PromptRefused \/ PromptPassed
  \/ OpenChangePin \/ LeaveChangePin \/ Foreground

Storing == (\E w \in Wallets : StartStore(w)) \/ Stored \/ StoreFailed \/ CreateWallet

Wiping == StartWipe \/ DeleteWalletSecrets \/ FinishWipe

LEMMA NextCases ==
  ASSUME [Next]_vars
  PROVE  Calm \/ Boot \/ Storing \/ Wiping \/ Background \/ Restart \/ UNCHANGED vars
BY DEF Next, PinScreens, Wizard, Calm, Moves, Storing, Wiping

(***************************************************************************)
(* Types                                                                   *)
(***************************************************************************)

\* What a calm step may change, typed.
CalmType ==
  /\ isLocked \in BOOLEAN /\ cooldown \in BOOLEAN /\ pin \in BOOLEAN
  /\ hasPIN \in BOOLEAN /\ active \in BOOLEAN
  /\ route \in Screens /\ prompt \in {"unasked", "open", "over"}
  /\ calls \in [InFlight -> {"idle", "PINUnlock", "ChangePIN", "left"}]
  /\ saves \subseteq {"PINConfirm", "ChangePIN", "left"}
  /\ step \in {"verify", "enter-new", "confirm-new", "success"}

CalmFrame == UNCHANGED <<version, v1, registry, keys, io, boot, hydration, wallets,
                         wizard, wipe, used, created, stepFailed, wiped>>

LEMMA CalmStep ==
  ASSUME CalmType, Calm
  PROVE  CalmType' /\ CalmFrame
<1> USE DEF CalmType, CalmFrame, lockVars, disk, bootVars, screens, pinVars, history, Screens,
            Onboarding, NewWalletFlow, MainScreens
<1>1. ASSUME NEW from, NEW to \in Screens, Go(from, to)
      PROVE  CalmType' /\ CalmFrame
  BY <1>1 DEF Go
<1>2. CASE GetStarted \/ PinTyped
  BY <1>1, <1>2 DEF GetStarted, PinTyped
<1>3. CASE OpenWizard \/ BackToWallets \/ ChooseCreate \/ ChooseImport
  BY <1>1, <1>3 DEF OpenWizard, BackToWallets, ChooseCreate, ChooseImport
<1>4. CASE \/ ContinueToVerify \/ BackFromPhrase \/ BackFromVerify
           \/ BackFromImport \/ ContinueToSetupSuccess
  BY <1>1, <1>4 DEF ContinueToVerify, BackFromPhrase, BackFromVerify,
                    BackFromImport, ContinueToSetupSuccess
<1>5. CASE ConfirmPin
  BY <1>5 DEF ConfirmPin
<1>6. CASE PinSaved
  BY <1>6 DEF PinSaved
<1>7. CASE EnterNew
  BY <1>7 DEF EnterNew
<1>8. CASE ConfirmNew
  BY ZenonT(40), <1>8 DEF ConfirmNew
<1>9. ASSUME NEW s \in saves, NewPinSaved(s)
      PROVE  CalmType' /\ CalmFrame
  BY <1>9 DEF NewPinSaved
<1>10. ASSUME NEW s \in saves, SaveRefused(s)
       PROVE  CalmType' /\ CalmFrame
  BY <1>10 DEF SaveRefused
<1>11. ASSUME NEW n \in InFlight, Submit(n)
       PROVE  CalmType' /\ CalmFrame
  BY <1>11 DEF Submit, At
<1>12. ASSUME NEW n \in InFlight, Matched(n)
       PROVE  CalmType' /\ CalmFrame
  <2>1. route' \in Screens /\ prompt' \in {"unasked", "open", "over"}
    BY <1>12, ShowRoute DEF Matched
  <2>2. /\ isLocked' \in BOOLEAN /\ cooldown' \in BOOLEAN
        /\ calls' \in [InFlight -> {"idle", "PINUnlock", "ChangePIN", "left"}]
        /\ step' \in {"verify", "enter-new", "confirm-new", "success"}
    BY <1>12 DEF Matched, Pass, unlock, resetAttempts
  <2>3. CalmFrame /\ UNCHANGED <<pin, hasPIN, active, saves>>
    BY <1>12 DEF Matched
  <2> QED BY <2>1, <2>2, <2>3
<1>13. ASSUME NEW n \in InFlight, Mismatched(n)
       PROVE  CalmType' /\ CalmFrame
  BY <1>13 DEF Mismatched, recordFailedAttempt
<1>14. CASE CooldownEnds
  BY ZenonT(40), <1>14 DEF CooldownEnds
<1>15. CASE Prompt \/ PromptRefused
  <2>1. CASE Prompt
    BY <2>1 DEF Prompt
  <2>2. CASE PromptRefused
    BY <2>2 DEF PromptRefused
  <2> QED BY <1>15, <2>1, <2>2
<1>16. CASE PromptPassed
  BY <1>16 DEF PromptPassed, unlock
<1>17. CASE OpenChangePin
  BY <1>17 DEF OpenChangePin
<1>18. CASE LeaveChangePin
  BY <1>18 DEF LeaveChangePin
<1>19. CASE Foreground
  BY <1>19 DEF Foreground
<1> QED
  BY <1>1, <1>2, <1>3, <1>4, <1>5, <1>6, <1>7, <1>8, <1>9, <1>10, <1>11, <1>12,
     <1>13, <1>14, <1>15, <1>16, <1>17, <1>18, <1>19 DEF Calm, Moves

LEMMA BootTypes ==
  ASSUME TypeOK, Boot
  PROVE  TypeOK'
<1>0. io \in Seq(Requests)
  BY DEF TypeOK, Requests, Ops
<1>1. CASE Hydrate
  <2>1. io # <<>> /\ Write(registry) \in Requests
    BY <1>1 DEF Hydrate, Answered, Requests, Ops, Write, TypeOK
  <2>2. Append(Rest, Write(registry)) \in Seq(Requests) /\ Rest \in Seq(Requests)
    BY <1>0, <2>1, Popped, Replaced DEF Rest
  <2>3. io' \in Seq(Requests)
    BY <1>1, <2>2 DEF Hydrate
  <2>4. route' \in Screens /\ prompt' \in {"unasked", "open", "over"}
    BY <1>1, ShowRoute DEF Hydrate, TypeOK, Screens, Onboarding, NewWalletFlow, MainScreens
  <2>5. hydration' \in {"reading", "hydrated", "failed"} /\ wallets' \subseteq Wallets
    BY <1>1 DEF Hydrate, TypeOK
  <2>6. UNCHANGED <<isLocked, cooldown, version, v1, registry, keys, pin, boot,
                   hasPIN, active, calls, saves, step, wizard, wipe, used,
                   created, stepFailed, wiped>>
    BY <1>1 DEF Hydrate, bootVars, disk, history, lockVars, pinVars
  <2> QED BY <1>0, <2>1, <2>2, <2>3, <2>4, <2>5, <2>6 DEF TypeOK, Requests, Ops, Screens
<1>2. CASE ReadVersion
  <2>1. io' \in Seq(Requests)
    BY <1>0, <1>2, Popped DEF ReadVersion, Answered, Rest
  <2>2. boot' \in {"version", "deleteKeys", "clear", "mark", "loadPin", "done"}
        /\ stepFailed' \in BOOLEAN
    BY <1>2 DEF ReadVersion, TypeOK
  <2>3. UNCHANGED <<isLocked, cooldown, version, v1, registry, keys, pin,
                   hydration, hasPIN, wallets, active, route, prompt, calls,
                   saves, step, wizard, wipe, used, created, wiped>>
    BY <1>2 DEF ReadVersion, bootVars, disk, history, lockVars, pinVars, screens
  <2> QED BY <1>0, <2>1, <2>2, <2>3 DEF TypeOK, Requests, Ops, Screens
<1>3. CASE DeleteSecureKeys
  <2>1. Call("clear") \in Requests
    BY DEF Requests, Ops, Call
  <2>2. io' \in Seq(Requests)
    BY <1>0, <1>3, <2>1, Appended DEF DeleteSecureKeys, Push
  <2>3. /\ v1' \in {"none", "present", "kept"} /\ pin' \in BOOLEAN
        /\ boot' = "clear"
    BY <1>3 DEF DeleteSecureKeys, TypeOK
  <2>4. UNCHANGED <<isLocked, cooldown, version, registry, keys, hydration,
                   hasPIN, wallets, active, route, prompt, calls, saves, step,
                   wizard, wipe, used, created, stepFailed, wiped>>
    BY <1>3 DEF DeleteSecureKeys, bootVars, disk, history, lockVars, pinVars, screens
  <2> QED BY <1>0, <2>1, <2>2, <2>3, <2>4 DEF TypeOK, Requests, Ops, Screens
<1>4. CASE ClearAllData
  <2>1. io # <<>> /\ Call("mark") \in Requests
    BY <1>4 DEF ClearAllData, Answered, Requests, Ops, Call
  <2>2. Append(Rest, Call("mark")) \in Seq(Requests) /\ Rest \in Seq(Requests)
    BY <1>0, <2>1, Popped, Replaced DEF Rest
  <2>3. io' \in Seq(Requests)
    BY <1>4, <2>2 DEF ClearAllData
  <2>4. /\ version' \in BOOLEAN /\ registry' \subseteq Wallets
        /\ boot' \in {"mark", "loadPin"} /\ stepFailed' \in BOOLEAN
    BY <1>4 DEF ClearAllData, TypeOK
  <2>5. UNCHANGED <<isLocked, cooldown, v1, keys, pin, hydration, hasPIN,
                   wallets, active, route, prompt, calls, saves, step, wizard,
                   wipe, used, created, wiped>>
    BY <1>4 DEF ClearAllData, bootVars, disk, history, lockVars, pinVars, screens
  <2> QED BY <1>0, <2>1, <2>2, <2>3, <2>4, <2>5 DEF TypeOK, Requests, Ops, Screens
<1>5. CASE SetDataVersion
  <2>1. io' \in Seq(Requests)
    BY <1>0, <1>5, Popped DEF SetDataVersion, Answered, Rest
  <2>2. version' \in BOOLEAN /\ boot' = "loadPin" /\ stepFailed' \in BOOLEAN
    BY <1>5 DEF SetDataVersion, TypeOK
  <2>3. UNCHANGED <<isLocked, cooldown, v1, registry, keys, pin, hydration,
                   hasPIN, wallets, active, route, prompt, calls, saves, step,
                   wizard, wipe, used, created, wiped>>
    BY <1>5 DEF SetDataVersion, bootVars, disk, history, lockVars, pinVars, screens
  <2> QED BY <1>0, <2>1, <2>2, <2>3 DEF TypeOK, Requests, Ops, Screens
<1>6. CASE LoadPin
  <2>1. hasPIN' \in BOOLEAN /\ boot' = "done"
    BY <1>6 DEF LoadPin, TypeOK
  <2>2. UNCHANGED <<isLocked, cooldown, version, v1, registry, keys, pin, io,
                   hydration, wallets, active, route, prompt, calls, saves,
                   step, wizard, wipe, used, created, stepFailed, wiped>>
    BY <1>6 DEF LoadPin, bootVars, disk, history, lockVars, pinVars, screens
  <2> QED BY <1>0, <2>1, <2>2 DEF TypeOK, Requests, Ops, Screens
<1>7. CASE Persist
  <2>1. io' \in Seq(Requests) /\ Head(io).list \subseteq Wallets
    BY <1>0, <1>7, Popped DEF Persist, Answered, Rest, Requests
  <2>2. registry' \subseteq Wallets /\ created' \subseteq Wallets
    BY <1>7, <2>1 DEF Persist, TypeOK
  <2>3. UNCHANGED <<isLocked, cooldown, version, v1, keys, pin, boot,
                   hydration, hasPIN, wallets, active, route, prompt, calls,
                   saves, step, wizard, wipe, used, stepFailed, wiped>>
    BY <1>7 DEF Persist, bootVars, disk, history, lockVars, pinVars, screens
  <2> QED BY <1>0, <2>1, <2>2, <2>3 DEF TypeOK, Requests, Ops, Screens
<1> QED BY <1>1, <1>2, <1>3, <1>4, <1>5, <1>6, <1>7 DEF Boot

LEMMA WizardTypes ==
  ASSUME TypeOK, WizardInv, Storing \/ Wiping
  PROVE  TypeOK'
<1>0. io \in Seq(Requests)
  BY DEF TypeOK, Requests, Ops
<1>1. ASSUME NEW w \in Wallets, StartStore(w)
      PROVE  TypeOK'
  <2>1. wizard' \in [id : Wallets \cup {None}, storing : Wallets \cup {None}] /\ used' \subseteq Wallets
    BY <1>1 DEF StartStore, TypeOK
  <2>2. UNCHANGED <<isLocked, cooldown, version, v1, registry, keys, pin, io,
                   boot, hydration, hasPIN, wallets, active, route, prompt,
                   calls, saves, step, wipe, created, stepFailed, wiped>>
    BY <1>1 DEF StartStore, bootVars, disk, history, lockVars, pinVars, screens
  <2> QED BY <1>0, <2>1, <2>2 DEF TypeOK, Requests, Ops, Screens
<1>2. CASE Stored
  <2>1. wizard.storing \in Wallets
    BY <1>2 DEF Stored, TypeOK
  <2>2. wizard' \in [id : Wallets \cup {None}, storing : Wallets \cup {None}] /\ keys' \subseteq Wallets
    BY <1>2, <2>1 DEF Stored, TypeOK
  <2>3. route' \in Screens
    BY <1>2 DEF Stored, TypeOK, Screens, NewWalletFlow
  <2>4. UNCHANGED <<isLocked, cooldown, version, v1, registry, pin, io, boot,
                   hydration, hasPIN, wallets, active, prompt, calls, saves,
                   step, wipe, used, created, stepFailed, wiped>>
    BY <1>2 DEF Stored, bootVars, disk, history, lockVars, pinVars, screens
  <2> QED BY <1>0, <2>1, <2>2, <2>3, <2>4 DEF TypeOK, Requests, Ops, Screens
<1>3. CASE StoreFailed
  <2>1. wizard.storing \in Wallets
    BY <1>3 DEF StoreFailed, TypeOK
  <2>2. wizard' \in [id : Wallets \cup {None}, storing : Wallets \cup {None}] /\ keys' \subseteq Wallets
    BY <1>3, <2>1 DEF StoreFailed, TypeOK
  <2>3. UNCHANGED <<isLocked, cooldown, version, v1, registry, pin, io, boot,
                   hydration, hasPIN, wallets, active, route, prompt, calls,
                   saves, step, wipe, used, created, stepFailed, wiped>>
    BY <1>3 DEF StoreFailed, bootVars, disk, history, lockVars, pinVars, screens
  <2> QED BY <1>0, <2>1, <2>2, <2>3 DEF TypeOK, Requests, Ops, Screens
<1>4. CASE CreateWallet
  <2>1. wizard.id \in Wallets
    BY <1>4 DEF CreateWallet, At, WizardInv, TypeOK
  <2>2. wallets' \subseteq Wallets
    BY <1>4, <2>1 DEF CreateWallet, TypeOK
  <2>3. Write(wallets') \in Requests
    BY <2>2 DEF Requests, Ops, Write
  <2>4. io' \in Seq(Requests)
    BY <1>0, <1>4, <2>3, Appended DEF CreateWallet, Push
  <2>5. route' \in Screens /\ prompt' \in {"unasked", "open", "over"}
    BY <1>4, ShowRoute DEF CreateWallet, TypeOK, Screens, Onboarding, NewWalletFlow, MainScreens
  <2>6. wizard' \in [id : Wallets \cup {None}, storing : Wallets \cup {None}]
    BY <1>4 DEF CreateWallet, TypeOK
  <2>7. isLocked' \in BOOLEAN /\ cooldown' \in BOOLEAN
    BY <1>4 DEF CreateWallet, unlock
  <2>8. UNCHANGED <<version, v1, registry, keys, pin, boot, hydration, hasPIN,
                   active, calls, saves, step, wipe, used, created,
                   stepFailed, wiped>>
    BY <1>4 DEF CreateWallet, bootVars, disk, history, pinVars
  <2> QED BY <1>0, <2>1, <2>2, <2>3, <2>4, <2>5, <2>6, <2>7, <2>8 DEF TypeOK, Requests, Ops, Screens
<1>5. CASE StartWipe
  <2>1. wipe' \in [stage : {"idle", "keys", "hash"}, list : SUBSET Wallets] /\ wiped' \in BOOLEAN
    BY <1>5 DEF StartWipe, TypeOK
  <2>2. UNCHANGED <<isLocked, cooldown, version, v1, registry, keys, pin, io,
                   boot, hydration, hasPIN, wallets, active, route, prompt,
                   calls, saves, step, wizard, used, created, stepFailed>>
    BY <1>5 DEF StartWipe, bootVars, disk, history, lockVars, pinVars, screens
  <2> QED BY <1>0, <2>1, <2>2 DEF TypeOK, Requests, Ops, Screens
<1>6. CASE DeleteWalletSecrets
  <2>1. wipe' \in [stage : {"idle", "keys", "hash"}, list : SUBSET Wallets] /\ keys' \subseteq Wallets
    BY <1>6 DEF DeleteWalletSecrets, TypeOK
  <2>2. UNCHANGED <<isLocked, cooldown, version, v1, registry, pin, io, boot,
                   hydration, hasPIN, wallets, active, route, prompt, calls,
                   saves, step, wizard, used, created, stepFailed, wiped>>
    BY <1>6 DEF DeleteWalletSecrets, bootVars, disk, history, lockVars, pinVars, screens
  <2> QED BY <1>0, <2>1, <2>2 DEF TypeOK, Requests, Ops, Screens
<1>7. CASE FinishWipe
  <2>1. wallets' \subseteq Wallets /\ created' \subseteq Wallets
    BY <1>7 DEF FinishWipe, TypeOK
  <2>2. Write(wallets') \in Requests
    BY <2>1 DEF Requests, Ops, Write
  <2>3. io' \in Seq(Requests)
    BY <1>0, <1>7, <2>2, Appended DEF FinishWipe, Push
  <2>4. route' \in Screens /\ prompt' \in {"unasked", "open", "over"}
    BY <1>7, ShowRoute DEF FinishWipe, TypeOK, Screens, Onboarding, NewWalletFlow, MainScreens
  <2>5. /\ pin' \in BOOLEAN /\ isLocked' \in BOOLEAN
        /\ wipe' \in [stage : {"idle", "keys", "hash"}, list : SUBSET Wallets]
    BY <1>7 DEF FinishWipe, NoWipe, TypeOK
  <2>6. UNCHANGED <<cooldown, version, v1, registry, keys, boot, hydration,
                   hasPIN, active, calls, saves, step, wizard, used,
                   stepFailed, wiped>>
    BY <1>7 DEF FinishWipe, bootVars, disk, history, lockVars, pinVars
  <2> QED BY <1>0, <2>1, <2>2, <2>3, <2>4, <2>5, <2>6 DEF TypeOK, Requests, Ops, Screens
<1> QED BY <1>1, <1>2, <1>3, <1>4, <1>5, <1>6, <1>7 DEF Storing, Wiping

LEMMA TypeStep ==
  ASSUME TypeOK, WizardInv, [Next]_vars
  PROVE  TypeOK'
<1>0. io \in Seq(Requests)
  BY DEF TypeOK, Requests, Ops
<1>1. CASE Background
  <2>1. route' \in Screens /\ prompt' \in {"unasked", "open", "over"}
    BY <1>1, ShowRoute DEF Background, TypeOK, Screens, Onboarding, NewWalletFlow, MainScreens
  <2>2. wizard' \in [id : Wallets \cup {None}, storing : Wallets \cup {None}]
    BY <1>1 DEF Background, TypeOK
  <2>3. /\ active' \in BOOLEAN /\ isLocked' \in BOOLEAN
        /\ step' \in {"verify", "enter-new", "confirm-new", "success"}
    BY <1>1 DEF Background, lock, TypeOK
  <2>4. UNCHANGED <<cooldown, version, v1, registry, keys, pin, io, boot,
                   hydration, hasPIN, wallets, calls, saves, wipe, used,
                   created, stepFailed, wiped>>
    BY <1>1 DEF Background, lock, bootVars, disk, history, lockVars, pinVars
  <2> QED BY <1>0, <2>1, <2>2, <2>3, <2>4 DEF TypeOK, Requests, Ops, Screens
<1>2. CASE Restart
  <2>1. Call("readRegistry") \in Requests /\ Call("readVersion") \in Requests
    BY DEF Requests, Ops, Call
  <2>2. io' \in Seq(Requests)
    BY <1>2, <2>1 DEF Restart
  <2>3. UNCHANGED <<version, v1, registry, keys, pin, used, created, stepFailed, wiped>>
    BY <1>2 DEF Restart, disk
  <2>4. /\ isLocked' \in BOOLEAN /\ cooldown' \in BOOLEAN /\ hasPIN' \in BOOLEAN
        /\ active' \in BOOLEAN /\ wallets' = {} /\ saves' = {} /\ boot' = "version"
        /\ hydration' = "reading" /\ route' = "Welcome" /\ prompt' = "unasked"
        /\ step' = "verify"
    BY <1>2 DEF Restart
  <2>5. /\ calls' \in [InFlight -> {"idle", "PINUnlock", "ChangePIN", "left"}]
        /\ wizard' \in [id : Wallets \cup {None}, storing : Wallets \cup {None}]
        /\ wipe' \in [stage : {"idle", "keys", "hash"}, list : SUBSET Wallets]
    BY <1>2 DEF Restart, NoWizard, NoWipe
  <2> QED BY <2>2, <2>3, <2>4, <2>5 DEF TypeOK, Requests, Ops, Onboarding
<1>3. CASE UNCHANGED vars
  BY <1>3 DEF TypeOK, vars, lockVars, disk, bootVars, screens, pinVars, history
<1>4. CASE Calm
  <2>1. CalmType
    BY DEF TypeOK, CalmType, Screens
  <2>2. CalmType' /\ CalmFrame
    BY <1>4, <2>1, CalmStep
  <2> QED BY <2>2 DEF TypeOK, CalmType, CalmFrame, Screens
<1> QED BY <1>1, <1>2, <1>3, <1>4, NextCases, BootTypes, WizardTypes

(***************************************************************************)
(* What the queue becomes                                                  *)
(***************************************************************************)

LEMMA PopFacts ==
  ASSUME TypeOK, NEW op, Answered(op), io' = Rest
  PROVE  /\ 1 \in 1..Len(io) /\ io[1] = Head(io) /\ io[1].op = op
         /\ \A i \in 1..Len(io') : i + 1 \in 1..Len(io) /\ io'[i] = io[i + 1]
<1>1. io \in Seq(Requests) /\ io # <<>>
  BY DEF TypeOK, Answered, Requests, Ops
<1> QED BY <1>1, Popped DEF Answered, Rest

LEMMA ReplaceFacts ==
  ASSUME TypeOK, NEW op, Answered(op), NEW c \in Requests, io' = Append(Rest, c)
  PROVE  /\ 1 \in 1..Len(io) /\ io[1] = Head(io) /\ io[1].op = op
         /\ \A i \in 1..Len(io') : \/ i + 1 \in 1..Len(io) /\ io'[i] = io[i + 1]
                                   \/ i = Len(io) /\ io'[i] = c
<1>1. io \in Seq(Requests) /\ io # <<>>
  BY DEF TypeOK, Answered, Requests, Ops
<1> QED BY <1>1, Popped, Replaced DEF Answered

LEMMA HeadWaits ==
  ASSUME TypeOK, NEW op, Answered(op)
  PROVE  /\ 1 \in 1..Len(io) /\ io[1] = Head(io) /\ io[1].op = op
         /\ Head(io) \in Requests
<1>1. io \in Seq(Requests) /\ io # <<>>
  BY DEF TypeOK, Answered, Requests, Ops
<1> QED BY <1>1, Popped DEF Answered

LEMMA PushFacts ==
  ASSUME TypeOK, NEW c \in Requests, Push(c)
  PROVE  \A i \in 1..Len(io') : \/ i \in 1..Len(io) /\ io'[i] = io[i]
                                \/ i = Len(io) + 1 /\ io'[i] = c
<1>1. io \in Seq(Requests)
  BY DEF TypeOK, Requests, Ops
<1> QED BY <1>1, Appended DEF Push

LEMMA RequestTypes ==
  ASSUME NEW op \in Ops, NEW list \in SUBSET Wallets
  PROVE  /\ Call(op) \in Requests /\ Call(op).op = op
         /\ Write(list) \in Requests /\ Write(list).op = "write" /\ Write(list).list = list
BY DEF Call, Write, Requests, Ops

(***************************************************************************)
(* The queue and the boot                                                  *)
(***************************************************************************)

LEMMA PopOnce ==
  ASSUME TypeOK, QueueInv, NEW op, Answered(op), op # "write", io' = Rest
  PROVE  /\ \E k \in 1..Len(io) : io[k].op = op
         /\ \A i \in 1..Len(io') : io'[i].op # op /\ \E k \in 1..Len(io) : io'[i] = io[k]
         /\ \A i, j \in 1..Len(io') :
              io'[i].op = io'[j].op /\ io'[i].op # "write" => i = j
<1>1. /\ 1 \in 1..Len(io) /\ io[1].op = op
      /\ \A i \in 1..Len(io') : i + 1 \in 1..Len(io) /\ io'[i] = io[i + 1]
  BY PopFacts
<1>2. \A i, j \in 1..Len(io) : io[i].op = io[j].op /\ io[i].op # "write" => i = j
  BY DEF QueueInv
<1>3. ASSUME NEW i \in 1..Len(io')
      PROVE  io'[i].op # op
  <2>1. i + 1 \in 1..Len(io) /\ io'[i] = io[i + 1] /\ i + 1 # 1
    BY <1>1
  <2> QED BY <1>1, <1>2, <2>1
<1>4. ASSUME NEW i \in 1..Len(io'), NEW j \in 1..Len(io'),
             io'[i].op = io'[j].op, io'[i].op # "write"
      PROVE  i = j
  <2>1. i + 1 = j + 1
    BY <1>1, <1>2, <1>4
  <2> QED BY <2>1
<1> QED BY <1>1, <1>3, <1>4

LEMMA ReplaceOnce ==
  ASSUME TypeOK, QueueInv, NEW op, Answered(op), op # "write",
         NEW c \in Requests, io' = Append(Rest, c),
         c.op # "write" => \A k \in 1..Len(io) : io[k].op # c.op
  PROVE  /\ \E k \in 1..Len(io) : io[k].op = op
         /\ \A i \in 1..Len(io') :
              \/ io'[i] = c
              \/ io'[i].op # op /\ \E k \in 1..Len(io) : io'[i] = io[k]
         /\ \A i, j \in 1..Len(io') :
              io'[i].op = io'[j].op /\ io'[i].op # "write" => i = j
<1>1. /\ 1 \in 1..Len(io) /\ io[1].op = op
      /\ \A i \in 1..Len(io') : \/ i + 1 \in 1..Len(io) /\ io'[i] = io[i + 1]
                                \/ i = Len(io) /\ io'[i] = c
  BY ReplaceFacts
<1>2. \A i, j \in 1..Len(io) : io[i].op = io[j].op /\ io[i].op # "write" => i = j
  BY DEF QueueInv
<1>3. ASSUME NEW i \in 1..Len(io'), io'[i] # c
      PROVE  io'[i].op # op
  <2>1. i + 1 \in 1..Len(io) /\ io'[i] = io[i + 1] /\ i + 1 # 1
    BY <1>1, <1>3
  <2> QED BY <1>1, <1>2, <2>1
<1>4. ASSUME NEW i \in 1..Len(io'), NEW j \in 1..Len(io'),
             io'[i].op = io'[j].op, io'[i].op # "write"
      PROVE  i = j
  <2>1. CASE i + 1 \in 1..Len(io) /\ io'[i] = io[i + 1] /\
             j + 1 \in 1..Len(io) /\ io'[j] = io[j + 1]
    <3>1. i + 1 = j + 1
      BY <1>2, <1>4, <2>1
    <3> QED BY <3>1
  <2>2. CASE i = Len(io) /\ j = Len(io)
    BY <2>2
  <2>3. CASE \/ i + 1 \in 1..Len(io) /\ io'[i] = io[i + 1] /\ io'[j] = c
             \/ j + 1 \in 1..Len(io) /\ io'[j] = io[j + 1] /\ io'[i] = c
    BY <1>4, <2>3
  <2> QED BY <1>1, <2>1, <2>2, <2>3
<1> QED BY <1>1, <1>3, <1>4

LEMMA QueueStep ==
  ASSUME TypeOK, TypeOK', QueueInv, [Next]_vars
  PROVE  QueueInv'
<1> USE DEF QueueInv
<1>1. CASE Hydrate
  <2>1. PICK op \in {"readRegistry"} : Answered(op)
    BY <1>1 DEF Hydrate
  <2>2. CASE hydration' = "hydrated" /\ io' = Append(Rest, Write(registry))
    <3>1. Write(registry) \in Requests /\ Write(registry).op = "write"
      BY RequestTypes DEF TypeOK, Ops
    <3>2. /\ \E k \in 1..Len(io) : io[k].op = "readRegistry"
          /\ \A i \in 1..Len(io') :
               \/ io'[i].op = "write"
               \/ /\ io'[i].op # "readRegistry"
                  /\ \E k \in 1..Len(io) : io'[i] = io[k]
          /\ \A i, j \in 1..Len(io') :
               io'[i].op = io'[j].op /\ io'[i].op # "write" => i = j
      <4> HIDE DEF QueueInv
      <4>1. Answered("readRegistry") /\ io' = Append(Rest, Write(registry))
        BY <2>1, <2>2
      <4>2. /\ \E k \in 1..Len(io) : io[k].op = "readRegistry"
            /\ \A i \in 1..Len(io') :
                 \/ io'[i] = Write(registry)
                 \/ io'[i].op # "readRegistry" /\ \E k \in 1..Len(io) : io'[i] = io[k]
            /\ \A i, j \in 1..Len(io') :
                 io'[i].op = io'[j].op /\ io'[i].op # "write" => i = j
        BY <3>1, <4>1, ReplaceOnce
      <4> QED BY <3>1, <4>2
    <3>3. UNCHANGED <<boot, version, wipe>>
      BY <1>1 DEF Hydrate, bootVars, disk
    <3> QED BY <2>2, <3>1, <3>2, <3>3
  <2>3. CASE hydration' = "failed" /\ io' = Rest /\ UNCHANGED wallets
    <3>2. /\ \E k \in 1..Len(io) : io[k].op = "readRegistry"
          /\ \A i \in 1..Len(io') : /\ io'[i].op # "readRegistry"
                                    /\ \E k \in 1..Len(io) : io'[i] = io[k]
          /\ \A i, j \in 1..Len(io') :
               io'[i].op = io'[j].op /\ io'[i].op # "write" => i = j
      BY <2>1, <2>3, PopOnce
    <3>3. UNCHANGED <<boot, version, wipe>>
      BY <1>1 DEF Hydrate, bootVars, disk
    <3> QED BY <2>3, <3>2, <3>3
  <2> QED BY <1>1, <2>2, <2>3 DEF Hydrate
<1>2. CASE ReadVersion
  <2>1. /\ \A i \in 1..Len(io') : /\ io'[i].op # "readVersion"
                                  /\ \E k \in 1..Len(io) : io'[i] = io[k]
        /\ \E k \in 1..Len(io) : io[k].op = "readVersion"
        /\ \A i, j \in 1..Len(io') :
             io'[i].op = io'[j].op /\ io'[i].op # "write" => i = j
    BY <1>2, PopOnce DEF ReadVersion
  <2>2. UNCHANGED <<version, hydration, wallets, wipe>>
    BY <1>2 DEF ReadVersion, disk
  <2>3. boot' \in {"loadPin", "deleteKeys"} /\ (boot' = "deleteKeys" => ~version)
    BY <1>2 DEF ReadVersion
  <2>4. ASSUME NEW i \in 1..Len(io')
        PROVE  /\ io'[i].op \notin {"clear", "mark", "readVersion"}
               /\ io'[i].op = "readRegistry" => hydration = "reading"
               /\ io'[i].op = "write" => hydration = "hydrated"
    BY <2>1
  <2>5. \A i, j \in 1..Len(io') :
          io'[i].op = io'[j].op /\ io'[i].op # "write" => i = j
    BY <2>1
  <2> QED BY <2>2, <2>3, <2>4, <2>5
<1>3. CASE DeleteSecureKeys
  <2>1. Call("clear") \in Requests /\ Call("clear").op = "clear"
    BY RequestTypes DEF Ops
  <2>2. \A i \in 1..Len(io') : \/ i \in 1..Len(io) /\ io'[i] = io[i]
                               \/ i = Len(io) + 1 /\ io'[i] = Call("clear")
    BY <1>3, <2>1, PushFacts DEF DeleteSecureKeys
  <2>3. UNCHANGED <<version, hydration, wallets, wipe>> /\ boot = "deleteKeys" /\ boot' = "clear"
    BY <1>3 DEF DeleteSecureKeys
  <2> QED BY <2>1, <2>2, <2>3
<1>4. CASE ClearAllData
  <2>1. Call("mark") \in Requests /\ Call("mark").op = "mark"
    BY RequestTypes DEF Ops
  <2>2. Answered("clear") /\ UNCHANGED <<hydration, wallets, wipe>>
    BY <1>4 DEF ClearAllData
  <2>3. CASE boot' = "mark" /\ io' = Append(Rest, Call("mark")) /\ version' = FALSE
    <3>0. boot = "clear" /\ \A k \in 1..Len(io) : io[k].op # "mark"
      BY <2>2, HeadWaits
    <3>1. /\ \A i \in 1..Len(io') :
               \/ io'[i].op = "mark"
               \/ io'[i].op # "clear" /\ \E k \in 1..Len(io) : io'[i] = io[k]
          /\ \A i, j \in 1..Len(io') :
               io'[i].op = io'[j].op /\ io'[i].op # "write" => i = j
      <4> HIDE DEF QueueInv
      <4>1. /\ \A i \in 1..Len(io') :
                 \/ io'[i] = Call("mark")
                 \/ io'[i].op # "clear" /\ \E k \in 1..Len(io) : io'[i] = io[k]
            /\ \A i, j \in 1..Len(io') :
                 io'[i].op = io'[j].op /\ io'[i].op # "write" => i = j
        <5>1. Answered("clear") /\ io' = Append(Rest, Call("mark"))
          BY <2>2, <2>3
        <5>2. \A k \in 1..Len(io) : io[k].op # Call("mark").op
          BY <2>1, <3>0
        <5> QED BY SMTT(30), <2>1, <5>1, <5>2, ReplaceOnce
      <4> QED BY <2>1, <4>1
    <3> QED BY <2>1, <2>2, <2>3, <3>0, <3>1
  <2>4. CASE boot' = "loadPin" /\ io' = Rest /\ UNCHANGED version
    <3>1. /\ \E k \in 1..Len(io) : io[k].op = "clear"
          /\ \A i \in 1..Len(io') : io'[i].op # "clear" /\ \E k \in 1..Len(io) : io'[i] = io[k]
          /\ \A i, j \in 1..Len(io') :
               io'[i].op = io'[j].op /\ io'[i].op # "write" => i = j
      BY <2>2, <2>4, PopOnce
    <3>2. ASSUME NEW i \in 1..Len(io')
          PROVE  /\ io'[i].op \notin {"clear", "mark", "readVersion"}
                 /\ io'[i].op = "readRegistry" => hydration = "reading"
                 /\ io'[i].op = "write" => hydration = "hydrated"
      BY <3>1
    <3>3. \A i, j \in 1..Len(io') :
            io'[i].op = io'[j].op /\ io'[i].op # "write" => i = j
      BY <3>1
    <3> QED BY <2>2, <2>4, <3>2, <3>3
  <2> QED BY <1>4, <2>3, <2>4 DEF ClearAllData
<1>5. CASE SetDataVersion
  <2>1. /\ 1 \in 1..Len(io) /\ io[1].op = "mark"
        /\ \A i \in 1..Len(io') : i + 1 \in 1..Len(io) /\ io'[i] = io[i + 1]
    BY <1>5, PopFacts DEF SetDataVersion
  <2>2. UNCHANGED <<hydration, wallets, wipe>> /\ boot' = "loadPin"
    BY <1>5 DEF SetDataVersion
  <2> QED BY SMTT(30), <2>1, <2>2
<1>6. CASE LoadPin
  <2>1. /\ UNCHANGED <<io, version, hydration, wallets, wipe>>
        /\ boot = "loadPin" /\ boot' = "done"
    BY <1>6 DEF LoadPin, disk
  <2> QED BY <2>1
<1>7. CASE Persist
  <2>1. /\ 1 \in 1..Len(io) /\ io[1].op = "write"
        /\ \A i \in 1..Len(io') : i + 1 \in 1..Len(io) /\ io'[i] = io[i + 1]
    BY <1>7, PopFacts DEF Persist
  <2>2. UNCHANGED <<version, boot, hydration, wallets, wipe>>
    BY <1>7 DEF Persist, bootVars
  <2> QED BY SMTT(30), <2>1, <2>2
<1>8. CASE (\E w \in Wallets : StartStore(w)) \/ Stored \/ StoreFailed
  <2>1. UNCHANGED <<io, version, boot, hydration, wallets, wipe>>
    BY <1>8 DEF StartStore, Stored, StoreFailed, disk, bootVars
  <2> QED BY <2>1
<1>9. CASE CreateWallet \/ FinishWipe
  <2>1. Write(wallets') \in Requests /\ Write(wallets').op = "write"
    BY RequestTypes DEF TypeOK, Ops
  <2>2. \A i \in 1..Len(io') : \/ i \in 1..Len(io) /\ io'[i] = io[i]
                               \/ i = Len(io) + 1 /\ io'[i] = Write(wallets')
    BY <1>9, <2>1, PushFacts DEF CreateWallet, FinishWipe
  <2>3. UNCHANGED <<version, boot, hydration>> /\ hydration = "hydrated"
    BY <1>9 DEF CreateWallet, FinishWipe, disk, bootVars, At, Ready
  <2> QED BY <2>1, <2>2, <2>3
<1>10. CASE StartWipe \/ DeleteWalletSecrets
  <2>1. UNCHANGED <<io, version, boot, hydration, wallets>> /\ hydration = "hydrated"
    BY <1>10 DEF StartWipe, DeleteWalletSecrets, disk, bootVars, At, Ready
  <2> QED BY <2>1
<1>11. CASE Background
  <2>1. UNCHANGED <<io, version, boot, hydration, wallets, wipe>>
    BY <1>11 DEF Background, disk, bootVars
  <2> QED BY <2>1
<1>12. CASE Restart
  <2>1. /\ io' = <<Call("readRegistry"), Call("readVersion")>>
        /\ boot' = "version" /\ hydration' = "reading" /\ wallets' = {}
        /\ wipe'.stage = "idle"
    BY <1>12 DEF Restart, NoWipe
  <2>2. /\ Len(io') = 2 /\ io'[1].op = "readRegistry" /\ io'[2].op = "readVersion"
    BY <2>1, RequestTypes DEF Ops
  <2> QED BY <2>1, <2>2
<1>13. CASE Calm \/ UNCHANGED vars
  <2>1. UNCHANGED <<io, version, boot, hydration, wallets, wipe>>
    <3>1. CalmType
      BY DEF TypeOK, CalmType, Screens
    <3> QED BY <1>13, <3>1, CalmStep DEF CalmFrame, vars, disk, bootVars
  <2> QED BY <2>1
<1> QED
  BY <1>1, <1>2, <1>3, <1>4, <1>5, <1>6, <1>7, <1>8, <1>9, <1>10, <1>11, <1>12,
     <1>13, NextCases DEF Boot, Storing, Wiping

LEMMA MarkStep ==
  ASSUME TypeOK, QueueInv, MarkInv, [Next]_vars
  PROVE  MarkInv'
<1>1. CASE Hydrate \/ LoadPin \/ Persist
  <2>1. UNCHANGED <<version, v1>> /\ (boot' = boot \/ boot' = "done")
    BY <1>1 DEF Hydrate, LoadPin, Persist, disk, bootVars
  <2> QED BY <2>1 DEF MarkInv
<1>2. CASE ReadVersion
  <2>1. UNCHANGED <<version, v1>> /\ boot' \in {"loadPin", "deleteKeys"}
    BY <1>2 DEF ReadVersion, disk
  <2> QED BY <2>1 DEF MarkInv
<1>3. CASE DeleteSecureKeys
  <2>1. v1' \in {"none", "kept"}
    BY <1>3 DEF DeleteSecureKeys
  <2> QED BY <2>1 DEF MarkInv
<1>4. CASE ClearAllData \/ SetDataVersion
  <2>1. boot \in {"clear", "mark"}
    BY <1>4, HeadWaits DEF ClearAllData, SetDataVersion, QueueInv
  <2>2. UNCHANGED v1
    BY <1>4 DEF ClearAllData, SetDataVersion
  <2> QED BY <2>1, <2>2 DEF MarkInv
<1>5. CASE Storing \/ Wiping \/ Background
  <2>1. UNCHANGED <<version, v1, boot>>
    BY <1>5 DEF Storing, Wiping, StartStore, Stored, StoreFailed, CreateWallet,
                StartWipe, DeleteWalletSecrets, FinishWipe, Background, disk, bootVars
  <2> QED BY <2>1 DEF MarkInv
<1>6. CASE Restart
  <2>1. UNCHANGED <<version, v1>> /\ boot' = "version"
    BY <1>6 DEF Restart, disk
  <2> QED BY <2>1 DEF MarkInv
<1>7. CASE Calm \/ UNCHANGED vars
  <2>1. CalmType
    BY DEF TypeOK, CalmType, Screens
  <2>2. UNCHANGED <<version, v1, boot>>
    BY <1>7, <2>1, CalmStep DEF CalmFrame, vars, disk, bootVars
  <2> QED BY <2>2 DEF MarkInv
<1> QED BY <1>1, <1>2, <1>3, <1>4, <1>5, <1>6, <1>7, NextCases DEF Boot

(***************************************************************************)
(* The writes on their way, and the wallets                                *)
(***************************************************************************)

\* A write that waits did so before, or has just been asked for, behind the others.
WritesFrom ==
  /\ \A i \in 1..Len(io') : io'[i].op = "write" =>
       \/ io'[i].list = wallets'
       \/ \E k \in 1..Len(io) : io'[i] = io[k]
  /\ \A i, j \in 1..Len(io') : i < j /\ io'[i].op = "write" /\ io'[j].op = "write" =>
       \/ io'[j].list = wallets'
       \/ \E k, l \in 1..Len(io) : k < l /\ io'[i] = io[k] /\ io'[j] = io[l]

LEMMA WritesStay ==
  ASSUME TypeOK, UNCHANGED io
  PROVE  WritesFrom
BY DEF WritesFrom

LEMMA WritesPopped ==
  ASSUME TypeOK, NEW op, Answered(op), io' = Rest
  PROVE  WritesFrom
<1>1. \A i \in 1..Len(io') : i + 1 \in 1..Len(io) /\ io'[i] = io[i + 1]
  BY PopFacts
<1>2. ASSUME NEW i \in 1..Len(io'), NEW j \in 1..Len(io'), i < j
      PROVE  \E k, l \in 1..Len(io) : k < l /\ io'[i] = io[k] /\ io'[j] = io[l]
  <2>1. i + 1 < j + 1
    BY <1>2
  <2> QED BY <1>1, <2>1
<1> QED BY <1>1, <1>2 DEF WritesFrom

LEMMA WritesReplaced ==
  ASSUME TypeOK, NEW op, Answered(op), NEW c \in Requests, io' = Append(Rest, c),
         c.op = "write" => c.list = wallets'
  PROVE  WritesFrom
<1>1. /\ Len(io') = Len(io)
      /\ \A i \in 1..Len(io') : \/ i + 1 \in 1..Len(io) /\ io'[i] = io[i + 1]
                                \/ i = Len(io) /\ io'[i] = c
  BY Replaced, ReplaceFacts DEF TypeOK, Answered, Requests, Ops
<1>2. ASSUME NEW i \in 1..Len(io'), NEW j \in 1..Len(io'), i < j, io'[j].op = "write",
             io'[j].list # wallets'
      PROVE  \E k, l \in 1..Len(io) : k < l /\ io'[i] = io[k] /\ io'[j] = io[l]
  <2>1. j + 1 \in 1..Len(io) /\ io'[j] = io[j + 1]
    BY <1>1, <1>2
  <2>2. i # Len(io) /\ i + 1 < j + 1
    BY <1>1, <1>2, <2>1
  <2>3. i + 1 \in 1..Len(io) /\ io'[i] = io[i + 1]
    BY <1>1, <2>2
  <2> QED BY <2>1, <2>2, <2>3
<1> QED BY <1>1, <1>2 DEF WritesFrom

LEMMA WritesPushed ==
  ASSUME TypeOK, NEW c \in Requests, Push(c), c.op = "write" => c.list = wallets'
  PROVE  WritesFrom
<1>1. \A i \in 1..Len(io') : \/ i \in 1..Len(io) /\ io'[i] = io[i]
                             \/ i = Len(io) + 1 /\ io'[i] = c
  BY PushFacts
<1>2. ASSUME NEW i \in 1..Len(io'), NEW j \in 1..Len(io'), i < j, io'[j].op = "write",
             io'[j].list # wallets'
      PROVE  \E k, l \in 1..Len(io) : k < l /\ io'[i] = io[k] /\ io'[j] = io[l]
  <2>1. j \in 1..Len(io) /\ io'[j] = io[j]
    BY <1>1, <1>2
  <2>2. i # Len(io) + 1
    BY <1>2, <2>1
  <2>3. i \in 1..Len(io) /\ io'[i] = io[i]
    BY <1>1, <2>2
  <2> QED BY <1>2, <2>1, <2>3
<1> QED BY <1>1, <1>2 DEF WritesFrom

LEMMA WritesStep ==
  ASSUME TypeOK, TypeOK', [Next]_vars
  PROVE  WritesFrom
<1>1. CASE Hydrate
  <2>1. Write(registry) \in Requests /\ Write(registry).list = registry
    BY RequestTypes DEF TypeOK, Ops
  <2> QED BY <1>1, <2>1, WritesReplaced, WritesPopped DEF Hydrate
<1>2. CASE ReadVersion \/ SetDataVersion \/ Persist
  BY <1>2, WritesPopped DEF ReadVersion, SetDataVersion, Persist
<1>3. CASE DeleteSecureKeys
  <2>1. Call("clear") \in Requests /\ Call("clear").op = "clear"
    BY RequestTypes DEF Ops
  <2> QED BY <1>3, <2>1, WritesPushed DEF DeleteSecureKeys
<1>4. CASE ClearAllData
  <2>1. Call("mark") \in Requests /\ Call("mark").op = "mark"
    BY RequestTypes DEF Ops
  <2> QED BY <1>4, <2>1, WritesReplaced, WritesPopped DEF ClearAllData
<1>5. CASE CreateWallet \/ FinishWipe
  <2>1. Write(wallets') \in Requests /\ Write(wallets').list = wallets'
    BY RequestTypes DEF TypeOK, Ops
  <2> QED BY <1>5, <2>1, WritesPushed DEF CreateWallet, FinishWipe
<1>6. CASE Restart
  <2>1. io' = <<Call("readRegistry"), Call("readVersion")>>
    BY <1>6 DEF Restart
  <2>2. Len(io') = 2 /\ io'[1].op # "write" /\ io'[2].op # "write"
    BY <2>1, RequestTypes DEF Ops
  <2> QED BY <2>2 DEF WritesFrom
<1>7. CASE LoadPin \/ (\E w \in Wallets : StartStore(w)) \/ Stored \/ StoreFailed
           \/ StartWipe \/ DeleteWalletSecrets \/ Background
  BY <1>7, WritesStay DEF LoadPin, StartStore, Stored, StoreFailed, StartWipe,
                          DeleteWalletSecrets, Background
<1>8. CASE Calm \/ UNCHANGED vars
  <2>1. CalmType
    BY DEF TypeOK, CalmType, Screens
  <2> QED BY <1>8, <2>1, CalmStep, WritesStay DEF CalmFrame, vars
<1> QED BY <1>1, <1>2, <1>3, <1>4, <1>5, <1>6, <1>7, <1>8, NextCases DEF Boot, Storing, Wiping

\* Where a calm step can lead.
LEMMA CalmRoutes ==
  ASSUME CalmType, Calm
  PROVE  /\ route' \in {"WalletName", "SetupSuccess"} =>
              route \in {"WalletName", "SetupSuccess"}
         /\ pin => pin'
         /\ wallets = {} /\ route \in Onboarding /\ ~hasPIN /\ ~pin' =>
              route' \in Onboarding /\ ~hasPIN'
         /\ boot # "done" /\ wallets = {} /\ route = "Welcome" /\ saves = {} /\ ~hasPIN =>
              route' = "Welcome" /\ saves' = {} /\ ~hasPIN'
<1> DEFINE Goal ==
  /\ route' \in {"WalletName", "SetupSuccess"} => route \in {"WalletName", "SetupSuccess"}
  /\ pin => pin'
  /\ wallets = {} /\ route \in Onboarding /\ ~hasPIN /\ ~pin' =>
       route' \in Onboarding /\ ~hasPIN'
  /\ boot # "done" /\ wallets = {} /\ route = "Welcome" /\ saves = {} /\ ~hasPIN =>
       route' = "Welcome" /\ saves' = {} /\ ~hasPIN'
<1> USE DEF Onboarding
<1>1. ASSUME NEW from, NEW to, Go(from, to),
             to \notin {"WalletName", "SetupSuccess"} \/ from = "WalletName",
             from \notin Onboarding \/ to \in Onboarding \/ hasPIN
      PROVE  Goal
  BY <1>1 DEF Go, At, Ready, disk, bootVars, pinVars
<1>2. CASE GetStarted
  BY <1>1, <1>2 DEF GetStarted
<1>3. CASE PinTyped
  BY <1>1, <1>3 DEF PinTyped
<1>4. CASE OpenWizard \/ BackToWallets \/ ChooseCreate \/ ChooseImport
  BY <1>1, <1>4 DEF OpenWizard, BackToWallets, ChooseCreate, ChooseImport
<1>5. CASE \/ ContinueToVerify \/ BackFromPhrase \/ BackFromVerify
           \/ BackFromImport \/ ContinueToSetupSuccess
  BY <1>1, <1>5 DEF ContinueToVerify, BackFromPhrase, BackFromVerify,
                    BackFromImport, ContinueToSetupSuccess
<1>6. CASE PinSaved
  BY <1>6 DEF PinSaved
<1>7. ASSUME NEW s \in saves, NewPinSaved(s)
      PROVE  Goal
  BY <1>7 DEF NewPinSaved, bootVars, screens
<1>8. ASSUME NEW s \in saves, SaveRefused(s)
      PROVE  Goal
  BY <1>8 DEF SaveRefused, disk, bootVars, screens
<1>9. ASSUME NEW n \in InFlight, Matched(n)
      PROVE  Goal
  <2>1. /\ route' \in {route, "PINUnlock", "Welcome", "WalletList"}
        /\ wallets' = {} => route' \in {route, "Welcome"}
    BY <1>9, ShowRoute DEF Matched
  <2>2. UNCHANGED <<pin, hasPIN, saves, wallets>>
    BY <1>9 DEF Matched, disk, bootVars
  <2> QED BY <2>1, <2>2
<1>10. ASSUME NEW n \in InFlight, Submit(n) \/ Mismatched(n)
       PROVE  Goal
  BY <1>10 DEF Submit, Mismatched, disk, bootVars, screens
<1>11. CASE ConfirmPin \/ ConfirmNew
  BY <1>11 DEF ConfirmPin, ConfirmNew, At, Ready, disk, bootVars, screens
<1>12. CASE EnterNew
  BY <1>12 DEF EnterNew, disk, bootVars, screens
<1>13. CASE CooldownEnds
  BY <1>13 DEF CooldownEnds, disk, bootVars, screens, pinVars
<1>14. CASE Prompt
  BY <1>14 DEF Prompt, disk, bootVars, pinVars
<1>15. CASE PromptRefused
  BY <1>15 DEF PromptRefused, disk, bootVars, pinVars
<1>16. CASE PromptPassed
  BY <1>16 DEF PromptPassed, disk, bootVars, pinVars
<1>17. CASE OpenChangePin
  BY <1>17 DEF OpenChangePin, At, disk, bootVars
<1>18. CASE LeaveChangePin
  BY <1>18 DEF LeaveChangePin, At, disk, bootVars
<1>19. CASE Foreground
  BY <1>19 DEF Foreground, disk, bootVars, pinVars
<1> QED
  BY <1>2, <1>3, <1>4, <1>5, <1>6, <1>7, <1>8, <1>9, <1>10, <1>11, <1>12,
     <1>13, <1>14, <1>15, <1>16, <1>17, <1>18, <1>19 DEF Calm, Moves

LEMMA FreshStays ==
  ASSUME WritesFrom, NEW w, Fresh(w), w \in used', w \notin registry' \cup wallets' \cup created'
  PROVE  Fresh(w)'
BY DEF Fresh, WritesFrom

\* Steps that hand out no wallet and start none.
LEMMA WizardKept ==
  ASSUME WizardInv, WritesFrom, used' = used,
         wizard'.id \in {None, wizard.id}, wizard'.storing \in {None, wizard.storing},
         wallets' \subseteq wallets \cup registry,
         created' \subseteq created \cup registry',
         \/ registry' \subseteq registry
         \/ \E k \in 1..Len(io) : io[k].op = "write" /\ registry' = io[k].list,
         route' \in {"WalletName", "SetupSuccess"} =>
           route \in {"WalletName", "SetupSuccess"} /\ wizard'.id = wizard.id
  PROVE  WizardInv'
<1>1. registry' \cup wallets' \cup created' \subseteq used'
  BY DEF WizardInv
<1>2. \A i \in 1..Len(io') : io'[i].op = "write" => io'[i].list \subseteq used'
  BY <1>1 DEF WizardInv, WritesFrom
<1>3. ASSUME NEW w, Fresh(w)
      PROVE  Fresh(w)'
  <2>1. w \in used' /\ w \notin registry' \cup wallets' \cup created'
    BY <1>3 DEF Fresh
  <2> QED BY <1>3, <2>1, FreshStays
<1> QED BY <1>1, <1>2, <1>3 DEF WizardInv

LEMMA WizardStep ==
  ASSUME TypeOK, TypeOK', QueueInv, WizardInv, [Next]_vars
  PROVE  WizardInv'
<1>0. WritesFrom
  BY WritesStep
<1>1. CASE Hydrate
  <2>1. route' \in {route, "PINUnlock", "Welcome", "WalletList"}
    BY <1>1, ShowRoute DEF Hydrate
  <2>2. wallets' \subseteq wallets \cup registry /\ UNCHANGED <<registry, used, created, wizard>>
    BY <1>1 DEF Hydrate, disk, history
  <2> QED BY <1>0, <2>1, <2>2, WizardKept
<1>2. CASE \/ ReadVersion \/ DeleteSecureKeys \/ SetDataVersion \/ LoadPin
           \/ StartWipe \/ DeleteWalletSecrets
  <2>1. UNCHANGED <<registry, wallets, used, created, wizard, route>>
    BY <1>2 DEF ReadVersion, DeleteSecureKeys, SetDataVersion, LoadPin, StartWipe,
                DeleteWalletSecrets, disk, history, screens
  <2> QED BY <1>0, <2>1, WizardKept
<1>3. CASE ClearAllData
  <2>1. UNCHANGED <<wallets, used, created, wizard, route>> /\ registry' \subseteq registry
    BY <1>3 DEF ClearAllData, screens
  <2> QED BY <1>0, <2>1, WizardKept
<1>4. CASE Persist
  <2>1. 1 \in 1..Len(io) /\ io[1] = Head(io) /\ io[1].op = "write"
    BY <1>4, HeadWaits DEF Persist
  <2>2. /\ UNCHANGED <<wallets, used, wizard, route>>
        /\ created' \subseteq created \cup registry'
        /\ registry' = registry \/ registry' = io[1].list
    BY <1>4, <2>1 DEF Persist, screens
  <2> QED BY <1>0, <2>1, <2>2, WizardKept
<1>5. ASSUME NEW w \in Wallets, StartStore(w)
      PROVE  WizardInv'
  <2>1. /\ w \notin used /\ used' = used \cup {w}
        /\ UNCHANGED <<registry, wallets, created, route, io>>
        /\ wizard'.id = wizard.id /\ wizard'.storing = w
    BY <1>5 DEF StartStore, TypeOK, disk, screens
  <2>2. Fresh(w)'
    BY <2>1 DEF WizardInv, Fresh
  <2>3. wizard'.id # None => Fresh(wizard.id)' /\ wizard'.id # w
    BY <1>0, <2>1, FreshStays DEF WizardInv, Fresh
  <2> QED BY <1>0, <2>1, <2>2, <2>3 DEF WizardInv, Fresh
<1>6. CASE Stored
  <2>1. UNCHANGED <<registry, wallets, used, created, io>>
    BY <1>6 DEF Stored, history
  <2>2. CASE wizard' = [wizard EXCEPT !.storing = None] /\ UNCHANGED route
    <3>1. wizard'.id = wizard.id /\ wizard'.storing = None
      BY <2>2 DEF TypeOK
    <3> QED BY <1>0, <2>1, <2>2, <3>1, WizardKept
  <2>3. CASE wizard' = [id |-> wizard.storing, storing |-> None] /\ wizard.storing # None
    BY <2>1, <2>3 DEF WizardInv, Fresh
  <2> QED BY <1>6, <2>2, <2>3 DEF Stored
<1>7. CASE StoreFailed
  <2>1. UNCHANGED <<registry, wallets, used, created, route>>
    BY <1>7 DEF StoreFailed, screens
  <2>2. wizard'.id = wizard.id /\ wizard'.storing = None
    BY <1>7 DEF StoreFailed, TypeOK
  <2> QED BY <1>0, <2>1, <2>2, WizardKept
<1>8. CASE CreateWallet
  <2>1. /\ route = "SetupSuccess" /\ wallets' = wallets \cup {wizard.id}
        /\ wizard'.id = None /\ wizard'.storing = wizard.storing
        /\ UNCHANGED <<registry, used, created>>
    BY <1>8 DEF CreateWallet, At, TypeOK, disk, history
  <2>2. route' \in {"PINUnlock", "Welcome", "WalletList"}
    BY <1>8, ShowRoute DEF CreateWallet
  <2>3. registry' \cup wallets' \cup created' \subseteq used'
    BY <2>1 DEF WizardInv, Fresh
  <2>4. \A i \in 1..Len(io') : io'[i].op = "write" => io'[i].list \subseteq used'
    BY <1>0, <2>1, <2>3 DEF WizardInv, WritesFrom
  <2>5. wizard.storing # None => Fresh(wizard.storing)'
    BY <1>0, <2>1, FreshStays DEF WizardInv, Fresh
  <2> QED BY <2>1, <2>2, <2>3, <2>4, <2>5 DEF WizardInv, Fresh
<1>9. CASE FinishWipe
  <2>1. route' \in {route, "PINUnlock", "Welcome", "WalletList"}
    BY <1>9, ShowRoute DEF FinishWipe
  <2>2. /\ wallets' \subseteq wallets /\ created' \subseteq created
        /\ UNCHANGED <<registry, used, wizard>>
    BY <1>9 DEF FinishWipe
  <2> QED BY <1>0, <2>1, <2>2, WizardKept
<1>10. CASE Background
  <2>1. route' \in {route, "PINUnlock", "Welcome", "WalletList"}
    BY <1>10, ShowRoute DEF Background
  <2>2. /\ wizard'.id \in {None, wizard.id} /\ wizard'.storing = wizard.storing
        /\ route' \in NewWalletFlow => wizard'.id = wizard.id
        /\ UNCHANGED <<registry, wallets, used, created>>
    BY <1>10 DEF Background, TypeOK, disk, history
  <2> QED BY <1>0, <2>1, <2>2, WizardKept DEF NewWalletFlow
<1>11. CASE Restart
  <2>1. /\ wizard'.id = None /\ wizard'.storing = None /\ wallets' = {} /\ route' = "Welcome"
        /\ UNCHANGED <<registry, used, created>>
    BY <1>11 DEF Restart, NoWizard, disk
  <2> QED BY <1>0, <2>1, WizardKept
<1>12. CASE Calm \/ UNCHANGED vars
  <2>1. CalmType
    BY DEF TypeOK, CalmType, Screens
  <2>2. UNCHANGED <<registry, wallets, used, created, wizard>>
    BY <1>12, <2>1, CalmStep DEF CalmFrame, vars, disk, history
  <2>3. route' \in {"WalletName", "SetupSuccess"} => route \in {"WalletName", "SetupSuccess"}
    BY <1>12, <2>1, CalmRoutes DEF vars, screens
  <2> QED BY <1>0, <2>2, <2>3, WizardKept
<1> QED
  BY <1>1, <1>2, <1>3, <1>4, <1>5, <1>6, <1>7, <1>8, <1>9, <1>10, <1>11, <1>12,
     NextCases DEF Boot, Storing, Wiping

LEMMA OrderKept ==
  ASSUME OrderInv, WritesFrom, wallets' \subseteq wallets, registry' \subseteq registry
  PROVE  OrderInv'
<1>1. ASSUME NEW i \in 1..Len(io'), io'[i].op = "write"
      PROVE  registry' \cap wallets' \subseteq io'[i].list
  BY <1>1 DEF OrderInv, WritesFrom
<1>2. ASSUME NEW i \in 1..Len(io'), NEW j \in 1..Len(io'), i < j,
             io'[i].op = "write", io'[j].op = "write"
      PROVE  io'[i].list \cap wallets' \subseteq io'[j].list
  <2>1. CASE io'[j].list = wallets'
    BY <2>1
  <2>2. ASSUME NEW k \in 1..Len(io), NEW l \in 1..Len(io), k < l,
               io'[i] = io[k], io'[j] = io[l]
        PROVE  io'[i].list \cap wallets' \subseteq io'[j].list
    <3>1. io[k].list \cap wallets \subseteq io[l].list
      BY <1>2, <2>2 DEF OrderInv
    <3> QED BY <2>2, <3>1
  <2> QED BY <1>2, <2>1, <2>2 DEF WritesFrom
<1> QED BY <1>1, <1>2 DEF OrderInv

LEMMA OrderStep ==
  ASSUME TypeOK, TypeOK', QueueInv, WizardInv, OrderInv, [Next]_vars
  PROVE  OrderInv'
<1>0. WritesFrom
  BY WritesStep
<1>1. CASE Hydrate
  <2>1. CASE hydration' = "failed" /\ UNCHANGED wallets
    <3>1. UNCHANGED registry
      BY <1>1 DEF Hydrate, disk
    <3> QED BY <1>0, <2>1, <3>1, OrderKept
  <2>2. CASE wallets' = registry
    <3>1. \A k \in 1..Len(io) : io[k].op # "write"
      BY <1>1, HeadWaits DEF Hydrate, QueueInv
    <3>2. \A i \in 1..Len(io') : io'[i].op = "write" => io'[i].list = wallets'
      BY <1>0, <3>1 DEF WritesFrom
    <3> QED BY <3>2 DEF OrderInv
  <2> QED BY <1>1, <2>1, <2>2 DEF Hydrate
<1>2. CASE \/ ReadVersion \/ DeleteSecureKeys \/ SetDataVersion \/ LoadPin
           \/ StartWipe \/ DeleteWalletSecrets \/ Background
           \/ (\E w \in Wallets : StartStore(w)) \/ Stored \/ StoreFailed
  <2>1. UNCHANGED <<registry, wallets>>
    BY <1>2 DEF ReadVersion, DeleteSecureKeys, SetDataVersion, LoadPin, StartWipe,
                DeleteWalletSecrets, Background, StartStore, Stored, StoreFailed, disk
  <2> QED BY <1>0, <2>1, OrderKept
<1>3. CASE ClearAllData \/ FinishWipe \/ Restart
  <2>1. wallets' \subseteq wallets /\ registry' \subseteq registry
    BY <1>3 DEF ClearAllData, FinishWipe, Restart, disk
  <2> QED BY <1>0, <2>1, OrderKept
<1>4. CASE Persist
  <2>1. /\ 1 \in 1..Len(io) /\ io[1] = Head(io) /\ io[1].op = "write"
        /\ \A i \in 1..Len(io') : i + 1 \in 1..Len(io) /\ io'[i] = io[i + 1]
    BY <1>4, PopFacts DEF Persist
  <2>2. UNCHANGED wallets /\ (registry' = registry \/ registry' = io[1].list)
    BY <1>4, <2>1 DEF Persist
  <2>3. ASSUME NEW i \in 1..Len(io'), io'[i].op = "write"
        PROVE  registry' \cap wallets' \subseteq io'[i].list
    <3>1. i + 1 \in 1..Len(io) /\ io'[i] = io[i + 1] /\ 1 < i + 1
      BY <2>1
    <3>2. registry \cap wallets \subseteq io[i + 1].list
      BY <2>3, <3>1 DEF OrderInv
    <3>3. io[1].list \cap wallets \subseteq io[i + 1].list
      BY <2>1, <2>3, <3>1 DEF OrderInv
    <3> QED BY <2>2, <3>1, <3>2, <3>3
  <2>4. ASSUME NEW i \in 1..Len(io'), NEW j \in 1..Len(io'), i < j,
               io'[i].op = "write", io'[j].op = "write"
        PROVE  io'[i].list \cap wallets' \subseteq io'[j].list
    BY <1>0, <2>2, <2>4 DEF OrderInv, WritesFrom
  <2> QED BY <2>3, <2>4 DEF OrderInv
<1>5. CASE CreateWallet
  <2>1. /\ route = "SetupSuccess" /\ wallets' = wallets \cup {wizard.id} /\ UNCHANGED registry
    BY <1>5 DEF CreateWallet, At, disk
  <2>2. Fresh(wizard.id)
    BY <2>1 DEF WizardInv
  <2>3. ASSUME NEW i \in 1..Len(io'), io'[i].op = "write"
        PROVE  registry' \cap wallets' \subseteq io'[i].list
    <3>1. registry' \cap wallets' \subseteq registry \cap wallets
      BY <2>1, <2>2 DEF Fresh
    <3> QED BY <1>0, <2>3, <3>1 DEF OrderInv, WritesFrom
  <2>4. ASSUME NEW i \in 1..Len(io'), NEW j \in 1..Len(io'), i < j,
               io'[i].op = "write", io'[j].op = "write", io'[j].list # wallets'
        PROVE  io'[i].list \cap wallets' \subseteq io'[j].list
    <3>1. PICK k \in 1..Len(io), l \in 1..Len(io) :
            k < l /\ io'[i] = io[k] /\ io'[j] = io[l]
      BY <1>0, <2>4 DEF WritesFrom
    <3>2. io[k].list \cap wallets \subseteq io[l].list /\ wizard.id \notin io[k].list
      BY <2>2, <2>4, <3>1 DEF OrderInv, Fresh
    <3> QED BY <2>1, <3>1, <3>2
  <2>5. ASSUME NEW i \in 1..Len(io'), NEW j \in 1..Len(io'), i < j,
               io'[i].op = "write", io'[j].op = "write"
        PROVE  io'[i].list \cap wallets' \subseteq io'[j].list
    BY <2>4, <2>5
  <2> QED BY <2>3, <2>5 DEF OrderInv
<1>6. CASE Calm \/ UNCHANGED vars
  <2>1. CalmType
    BY DEF TypeOK, CalmType, Screens
  <2>2. UNCHANGED <<registry, wallets>>
    BY <1>6, <2>1, CalmStep DEF CalmFrame, vars, disk
  <2> QED BY <1>0, <2>2, OrderKept
<1> QED BY <1>1, <1>2, <1>3, <1>4, <1>5, <1>6, NextCases DEF Boot, Storing, Wiping

(***************************************************************************)
(* What is made survives the first-boot wipe                               *)
(***************************************************************************)

\* A refused step is remembered, and only the wipe takes the mark away.
LEMMA YoungBefore ==
  ASSUME TypeOK, QueueInv, YoungInv, [Next]_vars, ~stepFailed', ~version'
  PROVE  ~stepFailed /\ ~version /\ Young
<1>1. CASE ClearAllData
  <2>1. boot = "clear"
    BY <1>1, HeadWaits DEF ClearAllData, QueueInv
  <2>2. ~stepFailed
    BY <1>1 DEF ClearAllData, TypeOK
  <2> QED BY <2>1, <2>2 DEF QueueInv, YoungInv, Young
<1>2. CASE ReadVersion \/ SetDataVersion
  BY <1>2 DEF ReadVersion, SetDataVersion, disk, TypeOK, YoungInv, Young
<1>3. CASE Hydrate \/ DeleteSecureKeys \/ LoadPin \/ Persist
  <2>1. UNCHANGED <<version, stepFailed>>
    BY <1>3 DEF Hydrate, DeleteSecureKeys, LoadPin, Persist, disk, history
  <2> QED BY <2>1 DEF YoungInv, Young
<1>4. CASE Storing
  <2>1. UNCHANGED <<version, stepFailed>>
    BY <1>4 DEF Storing, StartStore, Stored, StoreFailed, CreateWallet, disk, history
  <2> QED BY <2>1 DEF YoungInv, Young
<1>5. CASE Wiping \/ Background \/ Restart
  <2>1. UNCHANGED <<version, stepFailed>>
    BY <1>5 DEF Wiping, StartWipe, DeleteWalletSecrets, FinishWipe, Background, Restart,
                disk, history
  <2> QED BY <2>1 DEF YoungInv, Young
<1>6. CASE Calm \/ UNCHANGED vars
  <2>1. CalmType
    BY DEF TypeOK, CalmType, Screens
  <2>2. UNCHANGED <<version, stepFailed>>
    BY <1>6, <2>1, CalmStep DEF CalmFrame, vars, disk, history
  <2> QED BY <2>2 DEF YoungInv, Young
<1> QED BY <1>1, <1>2, <1>3, <1>4, <1>5, <1>6, NextCases DEF Boot

LEMMA YoungStep ==
  ASSUME TypeOK, TypeOK', QueueInv, YoungInv, [Next]_vars
  PROVE  YoungInv'
<1> SUFFICES ASSUME ~stepFailed', ~version'
             PROVE  Young'
  BY DEF YoungInv, Young
<1>0. ~stepFailed /\ ~version /\ Young
  BY YoungBefore
<1>w. WritesFrom
  BY WritesStep
<1>1. wallets' = {} => \A i \in 1..Len(io') : io'[i].op = "write" => io'[i].list = {}
  BY <1>0, <1>w DEF Young, WritesFrom
<1>2. CASE Hydrate
  <2>1. wallets' = {} /\ route' = "Welcome"
    BY <1>0, <1>2, ShowRoute DEF Hydrate, Young
  <2>2. UNCHANGED <<registry, created, hasPIN, saves, wipe, wizard, boot>>
    BY <1>2 DEF Hydrate, disk, pinVars, history
  <2> QED BY <1>0, <1>1, <2>1, <2>2 DEF Young
<1>3. CASE ReadVersion
  <2>1. UNCHANGED <<registry, wallets, created, hasPIN, route, saves, wipe, wizard>>
    BY <1>3 DEF ReadVersion, disk, screens, pinVars
  <2>2. boot' = "deleteKeys"
    BY <1>0, <1>3 DEF ReadVersion
  <2> QED BY <1>0, <1>1, <2>1, <2>2 DEF Young
<1>4. CASE DeleteSecureKeys
  <2>1. /\ UNCHANGED <<registry, wallets, created, hasPIN, route, saves, wipe, wizard>>
        /\ boot' = "clear"
    BY <1>4 DEF DeleteSecureKeys, disk, screens, pinVars
  <2> QED BY <1>0, <1>1, <2>1 DEF Young
<1>5. CASE ClearAllData
  <2>1. /\ UNCHANGED <<wallets, created, hasPIN, route, saves, wipe, wizard>>
        /\ registry' = {} /\ boot' = "mark"
    BY <1>5 DEF ClearAllData, screens, pinVars
  <2> QED BY <1>0, <1>1, <2>1 DEF Young
<1>6. CASE SetDataVersion
  BY <1>6 DEF SetDataVersion
<1>7. CASE Persist
  <2>1. 1 \in 1..Len(io) /\ io[1] = Head(io) /\ io[1].op = "write"
    BY <1>7, HeadWaits DEF Persist
  <2>2. /\ UNCHANGED <<wallets, hasPIN, route, saves, wipe, wizard, boot>>
        /\ registry' \in {registry, io[1].list}
        /\ created' = created \cup (registry' \cap wallets)
    BY <1>7, <2>1 DEF Persist, bootVars, screens, pinVars
  <2>3. registry' = {} /\ created' = {}
    BY <1>0, <2>1, <2>2 DEF Young
  <2> QED BY <1>0, <1>1, <2>2, <2>3 DEF Young
<1>8. CASE LoadPin \/ Storing
  BY <1>0, <1>8 DEF Young, LoadPin, Storing, StartStore, Stored, StoreFailed, CreateWallet,
                    At, Ready
<1>9. CASE Wiping
  BY <1>0, <1>9 DEF Young, Wiping, StartWipe, DeleteWalletSecrets, FinishWipe, At, Ready
<1>10. CASE Background
  <2>1. wallets' = {} /\ route' = "Welcome"
    BY <1>0, <1>10, ShowRoute DEF Background, Young
  <2>2. UNCHANGED <<registry, created, hasPIN, saves, wipe, boot>> /\ wizard'.storing = None
    BY <1>0, <1>10 DEF Background, Young, TypeOK, disk, bootVars, history
  <2> QED BY <1>0, <1>1, <2>1, <2>2 DEF Young
<1>11. CASE Restart
  <2>1. /\ UNCHANGED <<registry, created>> /\ wallets' = {} /\ ~hasPIN' /\ route' = "Welcome"
        /\ saves' = {} /\ wipe'.stage = "idle" /\ wizard'.storing = None /\ boot' = "version"
    BY <1>11 DEF Restart, disk, NoWipe, NoWizard
  <2> QED BY <1>0, <1>1, <2>1 DEF Young
<1>12. CASE Calm \/ UNCHANGED vars
  <2>1. CalmType
    BY DEF TypeOK, CalmType, Screens
  <2>2. UNCHANGED <<registry, wallets, created, wipe, wizard, boot>>
    BY <1>12, <2>1, CalmStep DEF CalmFrame, vars, disk, bootVars, history
  <2>3. route' = "Welcome" /\ saves' = {} /\ ~hasPIN'
    BY <1>0, <1>12, <2>1, CalmRoutes DEF Young, vars, screens, pinVars, bootVars
  <2> QED BY <1>0, <1>1, <2>2, <2>3 DEF Young
<1> QED
  BY <1>2, <1>3, <1>4, <1>5, <1>6, <1>7, <1>8, <1>9, <1>10, <1>11, <1>12,
     NextCases DEF Boot

LEMMA ListStep ==
  ASSUME TypeOK, TypeOK', QueueInv, OrderInv, YoungInv, ListInv, [Next]_vars
  PROVE  ListInv'
<1>1. CASE Hydrate
  <2>1. UNCHANGED <<registry, created, stepFailed>>
    BY <1>1 DEF Hydrate, disk, history
  <2>2. hydration' = "hydrated" => wallets' = registry
    BY <1>1 DEF Hydrate
  <2> QED BY <2>1, <2>2 DEF ListInv
<1>2. CASE \/ ReadVersion \/ DeleteSecureKeys \/ SetDataVersion \/ LoadPin
           \/ StartWipe \/ DeleteWalletSecrets \/ Background
           \/ (\E w \in Wallets : StartStore(w)) \/ Stored \/ StoreFailed
  <2>1. CASE ReadVersion \/ SetDataVersion
    BY <2>1 DEF ReadVersion, SetDataVersion, disk, ListInv
  <2>2. CASE DeleteSecureKeys \/ LoadPin \/ StartWipe \/ DeleteWalletSecrets \/ Background
    <3>1. UNCHANGED <<registry, created, hydration, wallets, stepFailed>>
      BY <2>2 DEF DeleteSecureKeys, LoadPin, StartWipe, DeleteWalletSecrets, Background,
                  disk, bootVars, history
    <3> QED BY <3>1 DEF ListInv
  <2>3. CASE (\E w \in Wallets : StartStore(w)) \/ Stored \/ StoreFailed
    <3>1. UNCHANGED <<registry, created, hydration, wallets, stepFailed>>
      BY <2>3 DEF StartStore, Stored, StoreFailed, disk, bootVars, history
    <3> QED BY <3>1 DEF ListInv
  <2> QED BY <1>2, <2>1, <2>2, <2>3
<1>3. CASE ClearAllData
  <2>1. UNCHANGED <<created, hydration, wallets>> /\ (stepFailed => stepFailed')
    BY <1>3 DEF ClearAllData
  <2>2. boot = "clear"
    BY <1>3, HeadWaits DEF ClearAllData, QueueInv
  <2>3. ~stepFailed' => created = {}
    BY <2>1, <2>2 DEF QueueInv, YoungInv, Young
  <2> QED BY <2>1, <2>3 DEF ListInv
<1>4. CASE Persist
  <2>1. 1 \in 1..Len(io) /\ io[1] = Head(io) /\ io[1].op = "write"
    BY <1>4, HeadWaits DEF Persist
  <2>2. /\ UNCHANGED <<hydration, wallets, stepFailed>>
        /\ registry' \in {registry, io[1].list}
        /\ created' = created \cup (registry' \cap wallets)
    BY <1>4, <2>1 DEF Persist, bootVars
  <2>3. hydration = "hydrated" /\ registry \cap wallets \subseteq io[1].list
    BY <2>1 DEF QueueInv, OrderInv
  <2> QED BY <2>2, <2>3 DEF ListInv
<1>5. CASE CreateWallet
  <2>1. UNCHANGED <<registry, created, hydration, stepFailed>> /\ wallets \subseteq wallets'
    BY <1>5 DEF CreateWallet, disk, bootVars, history
  <2> QED BY <2>1 DEF ListInv
<1>6. CASE FinishWipe
  <2>1. /\ UNCHANGED <<registry, hydration, stepFailed>>
        /\ created' = created \ wipe.list /\ wallets' = wallets \ wipe.list
    BY <1>6 DEF FinishWipe, bootVars
  <2> QED BY <2>1 DEF ListInv
<1>7. CASE Restart
  <2>1. UNCHANGED <<registry, created, stepFailed>> /\ hydration' = "reading"
    BY <1>7 DEF Restart, disk
  <2> QED BY <2>1 DEF ListInv
<1>8. CASE Calm \/ UNCHANGED vars
  <2>1. CalmType
    BY DEF TypeOK, CalmType, Screens
  <2>2. UNCHANGED <<registry, created, hydration, wallets, stepFailed>>
    BY <1>8, <2>1, CalmStep DEF CalmFrame, vars, disk, bootVars, history
  <2> QED BY <2>2 DEF ListInv
<1> QED
  BY <1>1, <1>2, <1>3, <1>4, <1>5, <1>6, <1>7, <1>8, NextCases DEF Boot, Storing, Wiping

(***************************************************************************)
(* Keys and PIN                                                            *)
(***************************************************************************)

LEMMA KeysKept ==
  ASSUME KeysInv, WritesFrom, keys \subseteq keys', wiped => wiped',
         wallets' \subseteq wallets \cup registry,
         created' \subseteq created \cup registry',
         \/ registry' \subseteq registry
         \/ \E k \in 1..Len(io) : io[k].op = "write" /\ registry' = io[k].list,
         wizard'.id # None => wizard'.id = wizard.id \/ wizard'.id \in keys',
         wipe'.stage # "idle" => wipe.stage # "idle" \/ wiped'
  PROVE  KeysInv'
<1>1. wipe'.stage # "idle" => wiped'
  BY DEF KeysInv
<1>2. ASSUME ~wiped'
      PROVE  registry' \cup wallets' \cup created' \subseteq keys'
  BY <1>2 DEF KeysInv
<1>3. ASSUME ~wiped', NEW i \in 1..Len(io'), io'[i].op = "write"
      PROVE  io'[i].list \subseteq keys'
  BY <1>2, <1>3 DEF KeysInv, WritesFrom
<1>4. ~wiped' /\ wizard'.id # None => wizard'.id \in keys'
  BY DEF KeysInv
<1> QED BY <1>1, <1>2, <1>3, <1>4 DEF KeysInv

LEMMA KeysStep ==
  ASSUME TypeOK, TypeOK', WizardInv, KeysInv, [Next]_vars
  PROVE  KeysInv'
<1>0. WritesFrom
  BY WritesStep
<1>1. CASE Hydrate
  <2>1. /\ wallets' \subseteq wallets \cup registry
        /\ UNCHANGED <<registry, keys, created, wizard, wipe, wiped>>
    BY <1>1 DEF Hydrate, disk, history
  <2> QED BY <1>0, <2>1, KeysKept
<1>2. CASE ReadVersion \/ DeleteSecureKeys \/ SetDataVersion \/ LoadPin
  <2>1. UNCHANGED <<registry, keys, wallets, created, wizard, wipe, wiped>>
    BY <1>2 DEF ReadVersion, DeleteSecureKeys, SetDataVersion, LoadPin, disk, history
  <2> QED BY <1>0, <2>1, KeysKept
<1>3. CASE ClearAllData
  <2>1. /\ UNCHANGED <<keys, wallets, created, wizard, wipe, wiped>>
        /\ registry' \subseteq registry
    BY <1>3 DEF ClearAllData
  <2> QED BY <1>0, <2>1, KeysKept
<1>4. CASE Persist
  <2>1. 1 \in 1..Len(io) /\ io[1] = Head(io) /\ io[1].op = "write"
    BY <1>4, HeadWaits DEF Persist
  <2>2. /\ UNCHANGED <<keys, wallets, wizard, wipe, wiped>>
        /\ created' \subseteq created \cup registry'
        /\ registry' = registry \/ registry' = io[1].list
    BY <1>4, <2>1 DEF Persist
  <2> QED BY <1>0, <2>1, <2>2, KeysKept
<1>5. CASE (\E w \in Wallets : StartStore(w)) \/ Stored \/ StoreFailed
  <2>1. UNCHANGED <<registry, wallets, created, wipe, wiped>> /\ keys \subseteq keys'
    BY <1>5 DEF StartStore, Stored, StoreFailed, disk, history
  <2>2. wizard'.id = wizard.id \/ wizard'.id \in keys'
    BY <1>5 DEF StartStore, Stored, StoreFailed, TypeOK
  <2> QED BY <1>0, <2>1, <2>2, KeysKept
<1>6. CASE CreateWallet
  <2>1. /\ route = "SetupSuccess" /\ wallets' = wallets \cup {wizard.id} /\ wizard'.id = None
        /\ UNCHANGED <<registry, keys, created, wipe, wiped>>
    BY <1>6 DEF CreateWallet, At, TypeOK, disk, history
  <2>2. ~wiped => wallets' \subseteq keys
    BY <2>1 DEF KeysInv, WizardInv
  <2>3. ~wiped' => \A i \in 1..Len(io') : io'[i].op = "write" => io'[i].list \subseteq keys'
    BY <1>0, <2>1, <2>2 DEF KeysInv, WritesFrom
  <2> QED BY <2>1, <2>2, <2>3 DEF KeysInv
<1>7. CASE Wiping
  <2>1. wiped'
    BY <1>7 DEF Wiping, StartWipe, DeleteWalletSecrets, FinishWipe, KeysInv
  <2> QED BY <2>1 DEF KeysInv
<1>8. CASE Background
  <2>1. /\ UNCHANGED <<registry, keys, wallets, created, wipe, wiped>>
        /\ wizard'.id \in {None, wizard.id}
    BY <1>8 DEF Background, TypeOK, disk, history
  <2> QED BY <1>0, <2>1, KeysKept
<1>9. CASE Restart
  <2>1. /\ UNCHANGED <<registry, keys, created, wiped>> /\ wallets' = {}
        /\ wizard'.id = None /\ wipe'.stage = "idle"
    BY <1>9 DEF Restart, disk, NoWizard, NoWipe
  <2> QED BY <1>0, <2>1, KeysKept
<1>10. CASE Calm \/ UNCHANGED vars
  <2>1. CalmType
    BY DEF TypeOK, CalmType, Screens
  <2>2. UNCHANGED <<registry, keys, wallets, created, wizard, wipe, wiped>>
    BY <1>10, <2>1, CalmStep DEF CalmFrame, vars, disk, history
  <2> QED BY <1>0, <2>2, KeysKept
<1> QED
  BY <1>1, <1>2, <1>3, <1>4, <1>5, <1>6, <1>7, <1>8, <1>9, <1>10, NextCases
     DEF Boot, Storing

\* Steps that make nothing, and leave the onboarding screens only with a PIN.
LEMMA PinKept ==
  ASSUME WritesFrom, PinInv,
         ~wiped' /\ ~stepFailed' /\ ~pin' =>
           /\ ~wiped /\ ~stepFailed /\ ~pin
           /\ hasPIN' => hasPIN
           /\ route \in Onboarding /\ wallets' = {} => route' \in Onboarding
           /\ wallets' \subseteq wallets \cup registry
           /\ \/ registry' \subseteq registry
              \/ \E k \in 1..Len(io) : io[k].op = "write" /\ registry' = io[k].list
  PROVE  PinInv'
<1> SUFFICES ASSUME ~wiped', ~stepFailed', ~pin'
             PROVE  /\ ~hasPIN' /\ route' \in Onboarding /\ registry' = {} /\ wallets' = {}
                    /\ \A i \in 1..Len(io') : io'[i].op = "write" => io'[i].list = {}
  BY DEF PinInv, Onboarding
<1>1. /\ ~hasPIN /\ route \in Onboarding /\ registry = {} /\ wallets = {}
      /\ \A i \in 1..Len(io) : io[i].op = "write" => io[i].list = {}
  BY DEF PinInv
<1>2. wallets' = {} /\ registry' = {}
  BY <1>1
<1>3. ~hasPIN' /\ route' \in Onboarding
  BY <1>1, <1>2
<1>4. \A i \in 1..Len(io') : io'[i].op = "write" => io'[i].list = {}
  BY <1>1, <1>2 DEF WritesFrom
<1> QED BY <1>2, <1>3, <1>4

LEMMA PinStep ==
  ASSUME TypeOK, TypeOK', QueueInv, YoungInv, KeysInv, PinInv, [Next]_vars
  PROVE  PinInv'
<1>0. WritesFrom
  BY WritesStep
<1>1. CASE Hydrate
  <2>1. wallets' = {} => route' \in {route, "Welcome"}
    BY <1>1, ShowRoute DEF Hydrate
  <2>2. /\ UNCHANGED <<registry, pin, hasPIN, stepFailed, wiped>>
        /\ wallets' \subseteq wallets \cup registry
    BY <1>1 DEF Hydrate, disk, history
  <2> QED BY <1>0, <2>1, <2>2, PinKept DEF Onboarding
<1>2. CASE ReadVersion \/ SetDataVersion \/ ClearAllData
  <2>1. /\ UNCHANGED <<pin, hasPIN, route, wallets, wiped>>
        /\ registry' \subseteq registry /\ (stepFailed => stepFailed')
    BY <1>2 DEF ReadVersion, SetDataVersion, ClearAllData, disk, screens
  <2> QED BY <1>0, <2>1, PinKept
<1>3. CASE DeleteSecureKeys
  <2>1. /\ UNCHANGED <<registry, hasPIN, route, wallets, stepFailed, version>>
        /\ boot = "deleteKeys"
    BY <1>3 DEF DeleteSecureKeys, screens
  <2>2. ~stepFailed => Young
    BY <2>1 DEF QueueInv, YoungInv
  <2> QED BY <1>0, <2>1, <2>2 DEF Young, PinInv, WritesFrom, Onboarding
<1>4. CASE LoadPin
  <2>1. /\ UNCHANGED <<registry, pin, route, wallets, stepFailed, wiped>>
        /\ hasPIN' = pin \/ hasPIN' = FALSE
    BY <1>4 DEF LoadPin, disk, screens, history
  <2>2. hasPIN' => pin
    BY <2>1
  <2> QED BY <1>0, <2>1, <2>2, PinKept
<1>5. CASE Persist
  <2>1. 1 \in 1..Len(io) /\ io[1] = Head(io) /\ io[1].op = "write"
    BY <1>5, HeadWaits DEF Persist
  <2>2. /\ UNCHANGED <<pin, hasPIN, route, wallets, stepFailed, wiped>>
        /\ registry' = registry \/ registry' = io[1].list
    BY <1>5, <2>1 DEF Persist, bootVars, screens
  <2> QED BY <1>0, <2>1, <2>2, PinKept
<1>6. CASE (\E w \in Wallets : StartStore(w)) \/ StoreFailed
  <2>1. UNCHANGED <<registry, pin, hasPIN, route, wallets, stepFailed, wiped>>
    BY <1>6 DEF StartStore, StoreFailed, disk, bootVars, screens
  <2> QED BY <1>0, <2>1, PinKept
<1>7. CASE Stored
  <2>1. /\ UNCHANGED <<registry, pin, hasPIN, wallets, stepFailed, wiped>>
        /\ route' = route \/ route \in NewWalletFlow
    BY <1>7 DEF Stored, bootVars, history
  <2> QED BY <1>0, <2>1, PinKept DEF Onboarding, NewWalletFlow
<1>8. CASE CreateWallet
  <2>1. UNCHANGED <<pin, stepFailed, wiped>> /\ route = "SetupSuccess"
    BY <1>8 DEF CreateWallet, disk, history, At
  <2> QED BY <2>1 DEF PinInv, Onboarding
<1>9. CASE Wiping
  <2>1. wiped'
    BY <1>9 DEF Wiping, StartWipe, DeleteWalletSecrets, FinishWipe, KeysInv
  <2> QED BY <2>1 DEF PinInv
<1>10. CASE Background
  <2>1. wallets' = {} => route' \in {route, "Welcome"}
    BY <1>10, ShowRoute DEF Background
  <2>2. UNCHANGED <<registry, pin, hasPIN, wallets, stepFailed, wiped>>
    BY <1>10 DEF Background, disk, bootVars, history
  <2> QED BY <1>0, <2>1, <2>2, PinKept DEF Onboarding
<1>11. CASE Restart
  <2>1. /\ UNCHANGED <<registry, pin, stepFailed, wiped>>
        /\ hasPIN' = FALSE /\ route' = "Welcome" /\ wallets' = {}
    BY <1>11 DEF Restart, disk
  <2> QED BY <1>0, <2>1, PinKept DEF Onboarding
<1>12. CASE Calm \/ UNCHANGED vars
  <2>1. CalmType
    BY DEF TypeOK, CalmType, Screens
  <2>2. UNCHANGED <<registry, io, wallets, stepFailed, wiped>>
    BY <1>12, <2>1, CalmStep DEF CalmFrame, vars, disk, history
  <2>3. /\ pin => pin'
        /\ wallets = {} /\ route \in Onboarding /\ ~hasPIN /\ ~pin' =>
             route' \in Onboarding /\ ~hasPIN'
    BY <1>12, <2>1, CalmRoutes DEF vars, screens, disk, bootVars
  <2> QED BY <2>2, <2>3 DEF PinInv
<1> QED
  BY <1>1, <1>2, <1>3, <1>4, <1>5, <1>6, <1>7, <1>8, <1>9, <1>10, <1>11, <1>12,
     NextCases DEF Boot, Storing

(***************************************************************************)
(* The theorems                                                            *)
(***************************************************************************)

IInv ==
  /\ TypeOK /\ QueueInv /\ MarkInv /\ WizardInv /\ OrderInv
  /\ YoungInv /\ ListInv /\ KeysInv /\ PinInv

LEMMA InitIInv ==
  ASSUME Init
  PROVE  IInv
<1>1. /\ io = <<Call("readRegistry"), Call("readVersion")>>
      /\ boot = "version" /\ hydration = "reading" /\ hasPIN = FALSE
      /\ wallets = {} /\ route = "Welcome" /\ saves = {}
      /\ wizard = NoWizard /\ wipe = NoWipe
  BY DEF Init, Launch
<1>2. /\ Len(io) = 2 /\ io[1].op = "readRegistry" /\ io[2].op = "readVersion"
      /\ io \in Seq(Requests)
  BY <1>1, RequestTypes DEF Ops
<1>3. /\ registry \subseteq Wallets /\ keys = registry /\ used = registry
      /\ created = registry /\ stepFailed = FALSE /\ wiped = FALSE
      /\ version \in BOOLEAN /\ pin \in BOOLEAN
      /\ v1 \in {"none", "present"} /\ (version => v1 = "none" /\ pin)
      /\ (~version => registry = {})
  BY DEF Init
<1>4. TypeOK
  <2>1. /\ wizard \in [id : Wallets \cup {None}, storing : Wallets \cup {None}]
        /\ wipe \in [stage : {"idle", "keys", "hash"}, list : SUBSET Wallets]
    BY <1>1 DEF NoWizard, NoWipe
  <2>2. io \in Seq([op : {"readRegistry", "readVersion", "clear", "mark", "write"},
                   list : SUBSET Wallets])
    BY <1>2 DEF Requests, Ops
  <2>3. /\ isLocked = TRUE /\ cooldown = FALSE /\ active = TRUE
        /\ prompt = "unasked" /\ step = "verify"
        /\ calls = [n \in InFlight |-> "idle"]
    BY DEF Init, Launch
  <2> QED BY <1>1, <1>3, <2>1, <2>2, <2>3 DEF TypeOK, Onboarding
<1>5. QueueInv /\ OrderInv
  BY <1>1, <1>2 DEF QueueInv, OrderInv, NoWipe
<1>6. MarkInv /\ WizardInv
  BY <1>1, <1>2, <1>3 DEF MarkInv, WizardInv, NoWizard
<1>7. YoungInv /\ ListInv
  BY <1>1, <1>2, <1>3 DEF YoungInv, Young, ListInv, NoWizard, NoWipe
<1>8. KeysInv /\ PinInv
  BY <1>1, <1>2, <1>3 DEF KeysInv, PinInv, NoWizard, NoWipe, Onboarding
<1> QED BY <1>4, <1>5, <1>6, <1>7, <1>8 DEF IInv

LEMMA IInvStep ==
  ASSUME IInv, [Next]_vars
  PROVE  IInv'
<1>1. TypeOK'
  BY TypeStep DEF IInv
<1>2. QueueInv' /\ MarkInv'
  BY <1>1, QueueStep, MarkStep DEF IInv
<1>3. WizardInv' /\ OrderInv'
  BY <1>1, WizardStep, OrderStep DEF IInv
<1>4. YoungInv' /\ ListInv'
  BY <1>1, YoungStep, ListStep DEF IInv
<1>5. KeysInv' /\ PinInv'
  BY <1>1, KeysStep, PinStep DEF IInv
<1> QED BY <1>1, <1>2, <1>3, <1>4, <1>5 DEF IInv

LEMMA Inductive == Spec => []IInv
<1>1. Init => IInv
  BY InitIInv
<1>2. IInv /\ [Next]_vars => IInv'
  BY IInvStep
<1> QED BY <1>1, <1>2, PTL DEF Spec

\* Every variable of the session keeps its type, the queue of storage calls that of
\* the calls AsyncStorage knows.
THEOREM TypeCorrect == Spec => []TypeOK
<1>1. IInv => TypeOK
  BY DEF IInv
<1> QED BY <1>1, Inductive, PTL

\* runFirstBootWipe sets prl_data_version last, so wherever the process ends or a
\* storage call is refused, an install with the mark keeps no v1.0 key but a refused one.
THEOREM MarkedIsWiped == Spec => []MarkedMeansWiped
<1>1. IInv => MarkedMeansWiped
  BY DEF IInv, MarkInv, MarkedMeansWiped
<1> QED BY <1>1, Inductive, PTL

\* Hydration, the writes of the persisted registry and the first-boot wipe, in any
\* order and with restarts between them, never lose a wallet that reached the disk
\* while no step of the wipe threw, nor, wipes aside, its keys.
THEOREM ListSurvivesBoots == Spec => []ListSurvives
<1>1. IInv => ListSurvives
  BY DEF IInv, ListInv, KeysInv, ListSurvives
<1> QED BY <1>1, Inductive, PTL

\* The onboarding screens lead to the wizard only once the PIN is stored, so a wallet
\* on the disk has a PIN in front of it until a wipe is started or a boot step throws.
THEOREM WalletsStayBehindPin == Spec => []WalletsHavePin
<1>1. IInv => WalletsHavePin
  BY DEF IInv, PinInv, WalletsHavePin
<1> QED BY <1>1, Inductive, PTL
=============================================================================
