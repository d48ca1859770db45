------------------------------ MODULE SendForm ------------------------------
(***************************************************************************)
(* The form of the send flow in the two apps: the recipient (typed, pasted *)
(* as a URI or scanned), the amount, the fee, the preparation of the       *)
(* wallet that runs beside it and starts over when the wallet's entry      *)
(* changes, and the payment that is signed at its end.                     *)
(*                                                                         *)
(* The desktop screens keep what is typed to themselves and write it when  *)
(* it has been validated; the mobile screens write it at once and validate *)
(* on Next. Signing is a mutation of the query library: it is held back    *)
(* while the library is offline, discovers and collects coins when it      *)
(* runs, and ends with a transaction or an error. The broadcast is in      *)
(* SendFlow. Amounts are in units of the smallest fee.                     *)
(***************************************************************************)
EXTENDS Naturals

CONSTANTS
  Good, Bad,     \* addresses of the wallet's network; anything else
  Amounts,       \* what can be typed, or be in a URI
  Balances,      \* what the wallet's addresses may hold
  Rates,         \* the rates the oracle or the node may report, and custom ones
  FALLBACK_RATE, \* FALLBACK_RATES
  Vbytes,        \* the size of the estimate: one input, two outputs
  NoTx           \* null

ASSUME FormAssumption ==
  /\ Good # {} /\ Good \cap Bad = {}
  /\ Amounts \subseteq Nat /\ 0 \in Amounts
  /\ Balances \subseteq Nat /\ 0 \in Balances
  /\ Rates \subseteq Nat \ {0}
  /\ FALLBACK_RATE \in Nat \ {0} /\ Vbytes \in Nat \ {0}

Addresses == Good \cup Bad
Tx == [recipient : Addresses, amount : Amounts, rate : Rates \cup {1, FALLBACK_RATE}]

VARIABLES
  platform,   \* the app that runs: "mobile" or "desktop"
  kind,       \* the wallet type the keychain holds: "seed", "xpub", "missing"
  coins,      \* what the wallet's addresses really hold
  screen,     \* "address", "amount", "fee", "review", "left"
  recipient,  \* recipientAddress; the empty field is a Bad address
  amount,     \* amountSats
  fee,        \* selectedTier, customSatVbyte (0: not a rate), subtractFee...
  scanner,    \* mobile: a permission is being asked for; the scanner is visible
  live,       \* the oracle's or the node's rate, 0 for none
  known,      \* confirmed (mobile), lastKnownBalance (desktop)
  online,     \* onlineManager: FALSE holds back what starts
  balanceLoading, \* mobile: the first balances of the addresses are on their way
  init,       \* useSendFlowInit: its stage, initError, signingWallet # null
  signing,    \* signMutation: its status, and the payment its run closed over
  checked,    \* history: the amount that passed the amount screen, 0 for none
  drifted     \* history: the amount changed while this signing was held back

form == <<recipient, amount, fee, checked>>
mutation == <<signing, drifted>>
outside == <<coins, live, known, online, balanceLoading>>
vars == <<platform, kind, screen, form, scanner, outside, init, mutation>>

-----------------------------------------------------------------------------
(* What the hooks derive *)

validateRecipientAddress(a) == a \in Good

\* Seeded fault: a custom rate that is no number is used as it is.
ActiveFeeRateUnclamped ==
  IF fee.tier = "custom" THEN fee.custom
  ELSE IF live # 0 THEN live ELSE FALLBACK_RATE

activeFeeRate ==
  IF fee.tier = "custom" THEN IF fee.custom = 0 THEN 1 ELSE fee.custom
  ELSE IF live # 0 THEN live ELSE FALLBACK_RATE

computeEstimatedFee == Vbytes * activeFeeRate

recipientAmountSats ==
  IF ~fee.subtract THEN amount
  ELSE IF amount > computeEstimatedFee THEN amount - computeEstimatedFee ELSE 1

isSigning == signing.status \in {"paused", "running"}
signed == IF signing.status = "success" THEN signing.tx ELSE NoTx
signError == signing.status = "error"

\* Seeded fault: the button waits for live rates, which may never come.
CanSendWithRates ==
  /\ init.stage = "done" /\ ~init.error /\ init.signer
  /\ ~balanceLoading /\ ~isSigning /\ live # 0

canSend ==
  /\ init.stage = "done" /\ ~init.error /\ init.signer
  /\ ~balanceLoading /\ ~isSigning

Init ==
  /\ platform \in {"mobile", "desktop"}
  /\ kind \in {"seed", "xpub", "missing"}
  /\ coins \in Balances
  /\ screen = "address"
  /\ recipient \in Bad /\ amount = 0
  /\ fee = [tier |-> "preset", subtract |-> FALSE,
            custom |-> IF platform = "mobile" THEN 1 ELSE 0]
  /\ scanner = [asking |-> FALSE, visible |-> FALSE]
  /\ live = 0
  /\ known \in (IF platform = "mobile" THEN {0} ELSE Balances)
  /\ init = [stage |-> "type", error |-> FALSE, signer |-> FALSE]
  /\ online \in BOOLEAN /\ balanceLoading = FALSE
  /\ signing = [status |-> "idle", tx |-> NoTx]
  /\ checked = 0 /\ drifted = FALSE

-----------------------------------------------------------------------------
(* useSendFlowInit, and what arrives from outside *)

\* The run of the effect reads the wallet's type; xpub needs no more. Leaving
\* cancels the run.
TypeRead ==
  /\ init.stage = "type" /\ screen # "left"
  /\ \/ kind = "seed" /\ init' = [init EXCEPT !.stage = "discovery"]
     \/ kind = "xpub" /\ init' = [init EXCEPT !.stage = "done"]
     \/ init' = [init EXCEPT !.stage = "done", !.error = TRUE]
  /\ UNCHANGED <<platform, kind, screen, form, scanner, outside, mutation>>

\* discoverAddresses answers, or throws. On mobile the addresses are new to the
\* balance query, or it has their balances already.
Discovered ==
  /\ init.stage = "discovery" /\ screen # "left"
  /\ \/ /\ init' = [init EXCEPT !.stage = "done", !.signer = TRUE]
        /\ balanceLoading' \in {balanceLoading, platform = "mobile"}
     \/ /\ init' = [init EXCEPT !.stage = "done", !.error = TRUE]
        /\ UNCHANGED balanceLoading
  /\ UNCHANGED <<platform, kind, screen, form, scanner, coins, live, known,
                 online, mutation>>

\* A mobile screen below stores a balance: the wallet is a new object, the run
\* is cancelled and the effect runs again; what it has set stays.
WalletUpdated ==
  /\ platform = "mobile" /\ screen # "left"
  /\ init' = [init EXCEPT !.stage = "type", !.error = FALSE]
  /\ UNCHANGED <<platform, kind, screen, form, scanner, outside, mutation>>

\* The chain moves under the form.
Chain ==
  /\ screen # "left"
  /\ coins' \in Balances \ {coins}
  /\ UNCHANGED <<platform, kind, screen, form, scanner, live, known, online,
                 balanceLoading, init, mutation>>

\* Mobile polls the addresses that were discovered; a lookup may fail.
BalanceSettles ==
  /\ platform = "mobile" /\ screen # "left" /\ init.signer /\ online
  /\ balanceLoading \/ known # coins
  /\ known' \in {known, coins}
  /\ balanceLoading' = FALSE
  /\ UNCHANGED <<platform, kind, screen, form, scanner, coins, live, online, init,
                 mutation>>

\* The oracle or estimateFee answers, or has nothing.
RatesArrive ==
  /\ screen # "left"
  /\ live' \in (Rates \cup {0}) \ {live}
  /\ UNCHANGED <<platform, kind, screen, form, scanner, coins, known, online,
                 balanceLoading, init, mutation>>

\* The connection (mobile) or the network gate (desktop) changes.
Connection ==
  /\ online' = ~online
  /\ UNCHANGED <<platform, kind, screen, form, scanner, coins, live, known,
                 balanceLoading, init, mutation>>

-----------------------------------------------------------------------------
(* The address *)

Rest == UNCHANGED <<platform, kind, outside, init>>

\* A URI pasted into the field: its amount, when it has one, is stored at once.
PasteUri(a, sats) ==
  /\ screen = "address"
  /\ recipient' = IF platform = "mobile" THEN a ELSE recipient
  /\ amount' = sats
  /\ UNCHANGED <<screen, fee, checked, scanner, signing>>

\* Mobile: the field is the form's.
setRecipientAddress(a) ==
  /\ platform = "mobile" /\ screen = "address" /\ a # recipient
  /\ recipient' = a
  /\ UNCHANGED <<screen, amount, fee, checked, scanner, signing>>

\* Mobile: the camera's permission is awaited, the screen stays usable.
OpenScanner ==
  /\ platform = "mobile" /\ screen = "address" /\ ~scanner.visible
  /\ scanner' = [scanner EXCEPT !.asking = TRUE]
  /\ UNCHANGED <<screen, form, signing>>

\* Granted or not, the address screen is still in the stack.
PermissionAnswered ==
  /\ scanner.asking /\ screen # "left"
  /\ scanner' \in [asking : {FALSE}, visible : {TRUE, scanner.visible}]
  /\ UNCHANGED <<screen, form, signing>>

\* Seeded fault: a scanned URI brings its amount along.
QRScannedAmount(a) ==
  /\ scanner.visible /\ screen # "left"
  /\ scanner' = [scanner EXCEPT !.visible = FALSE]
  /\ recipient' = a
  /\ amount' \in Amounts
  /\ UNCHANGED <<screen, fee, checked, signing>>

\* The recipient is stored, valid or not; an amount in the URI is dropped.
handleQRScanned(a) ==
  /\ scanner.visible /\ screen # "left"
  /\ scanner' = [scanner EXCEPT !.visible = FALSE]
  /\ recipient' = a
  /\ UNCHANGED <<screen, amount, fee, checked, signing>>

closeScanner ==
  /\ scanner.visible /\ screen # "left"
  /\ scanner' = [scanner EXCEPT !.visible = FALSE]
  /\ UNCHANGED <<screen, form, signing>>

\* Mobile: what the provider holds is validated; a watch-only wallet is refused
\* once its type is known.
MobileAddressNext ==
  /\ platform = "mobile" /\ screen = "address" /\ ~scanner.visible
  /\ ~(kind = "xpub" /\ init.stage = "done" /\ ~init.error)
  /\ validateRecipientAddress(recipient)
  /\ screen' = "amount"
  /\ UNCHANGED <<form, scanner, signing>>

\* Desktop: what was typed is validated and stored.
DesktopAddressNext(a) ==
  /\ platform = "desktop" /\ screen = "address"
  /\ validateRecipientAddress(a)
  /\ recipient' = a
  /\ screen' = "amount"
  /\ UNCHANGED <<amount, fee, checked, scanner, signing>>

-----------------------------------------------------------------------------
(* The amount *)

\* Mobile: the text, or the slider up to the balance, is the form's amount.
EnterAmount(sats) ==
  /\ platform = "mobile" /\ screen = "amount" /\ ~scanner.visible
  /\ sats # amount
  /\ amount' = sats
  /\ UNCHANGED <<screen, recipient, fee, checked, scanner, signing>>

validateAmount(sats) == sats > 0 /\ sats <= known

MobileAmountNext ==
  /\ platform = "mobile" /\ screen = "amount" /\ ~scanner.visible
  /\ validateAmount(amount)
  /\ screen' = "fee"
  /\ checked' = amount
  /\ UNCHANGED <<recipient, amount, fee, scanner, signing>>

\* Seeded fault: an amount that came with a URI is not validated again.
DesktopAmountNextPasted(sats) ==
  /\ platform = "desktop" /\ screen = "amount"
  /\ validateAmount(sats) \/ sats = amount
  /\ amount' = sats /\ checked' = sats
  /\ screen' = "fee"
  /\ UNCHANGED <<recipient, fee, scanner, signing>>

DesktopAmountNext(sats) ==
  /\ platform = "desktop" /\ screen = "amount"
  /\ validateAmount(sats)
  /\ amount' = sats /\ checked' = sats
  /\ screen' = "fee"
  /\ UNCHANGED <<recipient, fee, scanner, signing>>

\* The switch is on the amount screen (desktop) or the fee screen (mobile).
setSubtractFeeFromAmount ==
  /\ screen = (IF platform = "mobile" THEN "fee" ELSE "amount")
  /\ ~scanner.visible
  /\ fee' = [fee EXCEPT !.subtract = ~@]
  /\ UNCHANGED <<screen, recipient, amount, checked, scanner, signing>>

-----------------------------------------------------------------------------
(* The fee *)

\* The rate the custom field holds, before anything is typed: 0 or 1.
Fees == [tier : {"preset", "custom"}, custom : Rates \cup {0, 1}, subtract : {fee.subtract}]

\* Mobile: each tap and each keystroke is stored.
EnterFee ==
  /\ platform = "mobile" /\ screen = "fee" /\ ~scanner.visible
  /\ fee' \in Fees \ {fee}
  /\ fee'.tier = fee.tier \/ fee'.custom = fee.custom
  /\ fee'.custom = fee.custom \/ fee.tier = "custom"
  /\ UNCHANGED <<screen, recipient, amount, checked, scanner, signing>>

validateFee == fee.tier = "custom" => fee.custom # 0

MobileFeeNext ==
  /\ platform = "mobile" /\ screen = "fee" /\ ~scanner.visible
  /\ validateFee
  /\ screen' = "review"
  /\ UNCHANGED <<form, scanner, signing>>

\* Desktop: the schema lets an empty custom rate pass.
DesktopFeeNext(f) ==
  /\ platform = "desktop" /\ screen = "fee"
  /\ fee' = f
  /\ screen' = "review"
  /\ UNCHANGED <<recipient, amount, checked, scanner, signing>>

-----------------------------------------------------------------------------
(* The review, and leaving *)

\* What the mutation function closes over: the full amount is paid, the fee
\* comes on top. Without a signing wallet, or an output script for the
\* recipient, it throws (null).
SigningClosure ==
  IF init.signer /\ validateRecipientAddress(recipient)
  THEN [recipient |-> recipient, amount |-> amount, rate |-> activeFeeRate]
  ELSE NoTx

Running == [status |-> "running", tx |-> SigningClosure]

\* mutateAsync of signMutation: it starts over; offline, its function waits.
prepareSigned ==
  signing' = IF online THEN Running ELSE [status |-> "paused", tx |-> NoTx]

\* The library runs what it held back, with the closure of the latest render.
ResumeSigning ==
  /\ signing.status = "paused" /\ online
  /\ signing' = Running
  /\ UNCHANGED <<platform, kind, screen, form, scanner, outside, init, drifted>>

\* signTransactionHex: coins are discovered, collected and selected.
Signed ==
  /\ signing.status = "running" /\ signing.tx # NoTx
  /\ signing.tx.amount + Vbytes * signing.tx.rate <= coins
  /\ signing' = [signing EXCEPT !.status = "success"]
  /\ UNCHANGED <<platform, kind, screen, form, scanner, outside, init, drifted>>

\* It throws, or a lookup failed and the wallet looks empty.
SigningFails ==
  /\ signing.status = "running"
  /\ signing' = [status |-> "error", tx |-> NoTx]
  /\ UNCHANGED <<platform, kind, screen, form, scanner, outside, init, drifted>>

\* Desktop signs once on arrival, whatever the preparation does.
DesktopSign ==
  /\ platform = "desktop" /\ screen = "review" /\ signing.status = "idle"
  /\ prepareSigned
  /\ UNCHANGED <<screen, form, scanner>>

\* "Try again" on the desktop, "Retry" on mobile: neither waits for canSend.
Retry ==
  /\ screen = "review" /\ ~scanner.visible /\ signError
  /\ prepareSigned
  /\ UNCHANGED <<screen, form, scanner>>

\* "Confirm & Send"; after an error Retry takes its place.
MobileConfirm ==
  /\ platform = "mobile" /\ screen = "review" /\ ~scanner.visible
  /\ canSend /\ ~signError
  /\ prepareSigned
  /\ UNCHANGED <<screen, form, scanner>>

\* Mobile pops its stack; the desktop Back button calls navigate(1).
Back ==
  /\ platform = "mobile" /\ ~scanner.visible
  /\ \/ screen = "review" /\ screen' = "fee"
     \/ screen = "fee" /\ screen' = "amount"
     \/ screen = "amount" /\ screen' = "address"
  /\ UNCHANGED <<form, scanner, signing>>

\* The visit ends: the provider and what it holds are gone.
Leave ==
  /\ screen # "left"
  /\ screen' = "left"
  /\ UNCHANGED <<form, scanner, signing>>

-----------------------------------------------------------------------------
UserStep ==
  \/ \E a \in Addresses : \/ \E sats \in Amounts : PasteUri(a, sats)
                          \/ setRecipientAddress(a)
                          \/ handleQRScanned(a)
                          \/ DesktopAddressNext(a)
  \/ OpenScanner \/ PermissionAnswered \/ closeScanner
  \/ MobileAddressNext
  \/ \E sats \in Amounts : EnterAmount(sats) \/ DesktopAmountNext(sats)
  \/ MobileAmountNext
  \/ setSubtractFeeFromAmount
  \/ EnterFee \/ MobileFeeNext
  \/ \E f \in Fees : DesktopFeeNext(f)
  \/ DesktopSign \/ MobileConfirm \/ Retry
  \/ Back \/ Leave

\* A signing that starts has not drifted; one that is held back may.
User ==
  /\ UserStep /\ Rest
  /\ drifted' = IF signing' # signing THEN FALSE
                ELSE drifted \/ (signing.status = "paused" /\ amount' # amount)

SigningEnds == Signed \/ SigningFails

Next ==
  \/ TypeRead \/ Discovered \/ WalletUpdated
  \/ Chain \/ BalanceSettles \/ RatesArrive \/ Connection
  \/ ResumeSigning \/ SigningEnds
  \/ User

\* The keychain and the discovery answer or throw, and so does a signing that
\* runs (its requests carry a timeout) and a balance that is asked for online.
\* The library runs what it held back once it is online. The desktop's review
\* screen signs in an effect. The user, the connection, the node and the oracle
\* promise nothing.
Spec ==
  /\ Init /\ [][Next]_vars
  /\ WF_vars(TypeRead) /\ WF_vars(Discovered) /\ WF_vars(BalanceSettles)
  /\ WF_vars(ResumeSigning) /\ WF_vars(SigningEnds)
  /\ WF_vars(DesktopSign /\ User)

-----------------------------------------------------------------------------
Stages == {"type", "discovery", "done"}
Statuses == {"idle", "paused", "running", "success", "error"}

TypeOK ==
  /\ platform \in {"mobile", "desktop"}
  /\ kind \in {"seed", "xpub", "missing"}
  /\ coins \in Balances /\ known \in Balances
  /\ screen \in {"address", "amount", "fee", "review", "left"}
  /\ recipient \in Addresses /\ amount \in Amounts /\ checked \in Amounts
  /\ fee \in Fees /\ fee.subtract \in BOOLEAN
  /\ scanner \in [asking : BOOLEAN, visible : BOOLEAN]
  /\ live \in Rates \cup {0}
  /\ init \in [stage : Stages, error : BOOLEAN, signer : BOOLEAN]
  /\ online \in BOOLEAN /\ balanceLoading \in BOOLEAN /\ drifted \in BOOLEAN
  /\ signing \in [status : Statuses, tx : Tx \cup {NoTx}]

\* Whatever the form went through (pasted URIs, late scanners, balances that
\* moved, signings that waited), what is signed pays a valid recipient a positive
\* amount, and never for a wallet that holds no key (useSendFlowInit stops before
\* signingWallet). Only an amount typed on mobile while the signing was held back
\* is signed as it stands, unchecked.
SignedIsPayable ==
  signed # NoTx => /\ signed.recipient \in Good
                   /\ signed.amount > 0 \/ (platform = "mobile" /\ drifted)
                   /\ kind = "seed"

\* The amount on the review screen is the one that passed the amount screen's
\* check: nothing stored later, or by a pasted or scanned URI, takes its place.
ReviewedWasChecked == screen = "review" => amount = checked

\* Once the network stays on and the wallet's entry stops changing, the review
\* screen comes to something: a button that works, a signed transaction or an
\* error, never a spinner for good.
ReviewNeverHangs ==
  <>[]online /\ <>[][~WalletUpdated]_vars =>
    (screen = "review") ~> \/ screen # "review"
                           \/ platform = "mobile" /\ (canSend \/ init.error \/ signError)
                           \/ platform = "desktop" /\ (signed # NoTx \/ signError)

\* apps/desktop/src/screens/Send/SendAmountScreen.tsx:176 says that with the
\* switch on "the network fee is taken out of the amount you send": the amount
\* the review screen shows is the one that is signed.
ShownAmountIsSigned ==
  signed # NoTx /\ screen = "review" => signed.amount = recipientAmountSats
=============================================================================
