------------------------------ MODULE SendFlow ------------------------------
(***************************************************************************)
(* One visit to the send flow: the hook useSendBroadcast                   *)
(* (packages/app-flows), the review and success screens of the two apps,   *)
(* the mutations of the query library they run on, and the backend that    *)
(* relays transactions and reports unspent coins.                          *)
(*                                                                         *)
(* The form (recipient, amount, fee tier) is one value. A signed           *)
(* transaction is the form it pays and the coin it spends: every coin is   *)
(* big enough for every form, and the selection is smallest first.         *)
(* Guards and effects of a screen are evaluated on the state of its last   *)
(* render, which is taken to be the current state.                         *)
(***************************************************************************)
EXTENDS Naturals, FiniteSets

CONSTANTS
  Forms,        \* what the user may fill in
  Coins,        \* the wallet's coins, ordered by value (a set of numbers)
  MaxCalls,     \* bound on the mutations started in one visit
  MobileCalls,  \* the same on mobile, where one mutation signs and broadcasts
  NoTx          \* null

ASSUME SendAssumption ==
  /\ Forms # {}
  /\ Coins \subseteq Nat
  /\ MaxCalls \in Nat /\ MobileCalls \in Nat
  /\ NoTx \notin [form : Forms, coin : Coins]

Tx == [form : Forms, coin : Coins]
Calls == 1..MaxCalls

SignStages == {"signPaused", "signing"}
BroadcastStages == {"broadcastPaused", "broadcasting", "sent"}
Stages == {"unused", "done"} \cup SignStages \cup BroadcastStages

VARIABLES
  platform,      \* the app that runs, fixed: "mobile" or "desktop"
  screen,        \* "edit", "review", "success", or "left" (provider unmounted)
  form,          \* what the form holds
  signedHandle,  \* useSendBroadcast: signedHandle
  txid,          \* useSendBroadcast: the transaction whose txid it holds
  calls,         \* every mutation started: its stage, form and transaction
  signCur,       \* the call signMutation observes, 0 when reset
  signErr,       \* signMutation.error
  bcCur,         \* the call broadcastMutation observes, 0 when reset
  bcErr,         \* broadcastMutation.error
  once,          \* the review screen's ref: hasSignedRef / hasNavigatedRef
  signError,     \* desktop review screen: signError
  confirming,    \* desktop review screen: the SensitiveOpGate is open
  gate,          \* the network gate (desktop), the connection (mobile)
  scheduler,     \* onlineManager: FALSE pauses the mutations that start
  net,           \* transactions submitted and still on their way
  accepted,      \* transactions in the backend's mempool or in the chain
  indexed,       \* accepted transactions the indexer counts as spending
  confirmed,     \* history: the forms the user confirmed on the review screen
  retyped        \* history: the forms filled in while a signing was held back

ui == <<screen, form, once, signError, confirming>>
hook == <<signedHandle, txid, calls, signCur, signErr, bcCur, bcErr>>
backend == <<net, accepted, indexed>>
history == <<confirmed, retyped>>
vars == <<platform, ui, hook, gate, scheduler, backend, history>>

-----------------------------------------------------------------------------
(* What the hook derives *)

Pending(cur, stages) == cur # 0 /\ calls[cur].stage \in stages
isSigning == Pending(signCur, SignStages)
isBroadcasting == Pending(bcCur, BroadcastStages)
canSend == ~isSigning /\ ~isBroadcasting   \* of a prepared wallet; SendForm has the rest
canRetry == signErr \/ bcErr
mounted == screen # "left"

FreeCalls ==
  { n \in Calls : /\ calls[n].stage = "unused"
                  /\ platform = "mobile" => n <= MobileCalls }
NextCall == CHOOSE n \in FreeCalls : TRUE   \* which one is immaterial

Ready(paused, running) == IF scheduler THEN running ELSE paused

(***************************************************************************)
(* mutateAsync of signMutation. The mutation starts paused when the library *)
(* is offline, and takes the form when its function runs: the form of the  *)
(* call is that of the closure it will run, or runs. A chained call goes   *)
(* on to broadcast what it signed (confirmSend, retrySend).                *)
(***************************************************************************)
prepareSigned(chained) ==
  /\ FreeCalls # {}
  /\ calls' = [calls EXCEPT ![NextCall] =
       [stage |-> Ready("signPaused", "signing"), form |-> form,
        tx |-> NoTx, chained |-> chained]]
  /\ signCur' = NextCall
  /\ signErr' = FALSE

\* Seeded fault: a broadcast that failed drops the handle and signs again.
BroadcastSignsAgain(tx) ==
  IF bcErr
  THEN /\ prepareSigned(TRUE)
       /\ bcErr' = FALSE
       /\ UNCHANGED bcCur
  ELSE /\ FreeCalls # {}
       /\ calls' = [calls EXCEPT ![NextCall] =
            [stage |-> Ready("broadcastPaused", "broadcasting"), form |-> tx.form,
             tx |-> tx, chained |-> FALSE]]
       /\ bcCur' = NextCall
       /\ bcErr' = FALSE
       /\ UNCHANGED <<signCur, signErr>>

\* mutateAsync of broadcastMutation with a handle (desktop).
broadcast(tx) ==
  /\ FreeCalls # {}
  /\ calls' = [calls EXCEPT ![NextCall] =
       [stage |-> Ready("broadcastPaused", "broadcasting"), form |-> tx.form,
        tx |-> tx, chained |-> FALSE]]
  /\ bcCur' = NextCall
  /\ bcErr' = FALSE
  /\ UNCHANGED <<signCur, signErr>>

-----------------------------------------------------------------------------
Init ==
  /\ platform \in {"mobile", "desktop"}
  /\ screen = "edit" /\ form \in Forms
  /\ signedHandle = NoTx /\ txid = NoTx
  /\ calls = [n \in Calls |->
       [stage |-> "unused", form |-> CHOOSE f \in Forms : TRUE, tx |-> NoTx,
        chained |-> FALSE]]
  /\ signCur = 0 /\ signErr = FALSE /\ bcCur = 0 /\ bcErr = FALSE
  /\ once = FALSE /\ signError = FALSE /\ confirming = FALSE
  /\ gate \in BOOLEAN
  /\ scheduler = TRUE       \* onlineManager only follows changes of the gate
  /\ net = {} /\ accepted = {} /\ indexed = {}
  /\ confirmed = {} /\ retyped = {}

-----------------------------------------------------------------------------
(* The user *)

(***************************************************************************)
(* A new value in the wizard; the desktop provider drops the signed        *)
(* handle. The render hands its closures to the mutation the hook observes *)
(* (useMutation, setOptions): a signing that is held back runs the latest. *)
(***************************************************************************)
HeldBack == Pending(signCur, {"signPaused"})

Edit(f) ==
  /\ screen = "edit" /\ f # form
  /\ form' = f
  /\ signedHandle' = IF platform = "desktop" THEN NoTx ELSE signedHandle
  /\ IF HeldBack
     THEN /\ calls' = [calls EXCEPT ![signCur].form = f]
          /\ retyped' = retyped \cup {f}
     ELSE UNCHANGED <<calls, retyped>>
  /\ UNCHANGED <<screen, once, signError, confirming, txid, signCur, signErr,
                 bcCur, bcErr, gate, scheduler, backend, confirmed>>

\* The review screen mounts: an old txid sends it straight on to success.
OpenReviewMobile ==
  /\ platform = "mobile" /\ screen = "edit"
  /\ screen' = IF txid # NoTx THEN "success" ELSE "review"
  /\ once' = (txid # NoTx)
  /\ UNCHANGED <<form, signError, confirming, hook, gate, scheduler, backend,
                 history>>

\* Sign-on-arrival runs before the effect that navigates on a txid.
OpenReviewDesktop ==
  /\ platform = "desktop" /\ screen = "edit"
  /\ screen' = IF txid # NoTx THEN "success" ELSE "review"
  /\ signError' = FALSE
  /\ IF signedHandle # NoTx \/ isSigning
     THEN once' = FALSE /\ UNCHANGED <<calls, signCur, signErr>>
     ELSE once' = TRUE /\ prepareSigned(FALSE)
  /\ UNCHANGED <<form, confirming, signedHandle, txid, bcCur, bcErr, gate,
                 scheduler, backend, history>>

\* The same effect fires again when the call it waited for ends without a handle.
SignOnArrival ==
  /\ platform = "desktop" /\ screen = "review"
  /\ ~once /\ signedHandle = NoTx /\ ~isSigning
  /\ once' = TRUE
  /\ signError' = FALSE
  /\ prepareSigned(FALSE)
  /\ UNCHANGED <<screen, form, confirming, signedHandle, txid, bcCur, bcErr,
                 gate, scheduler, backend, history>>

\* "Try again" after a failed signing.
RetrySign ==
  /\ platform = "desktop" /\ screen = "review" /\ signError
  /\ once' = FALSE
  /\ signError' = FALSE
  /\ prepareSigned(FALSE)
  /\ UNCHANGED <<screen, form, confirming, signedHandle, txid, bcCur, bcErr,
                 gate, scheduler, backend, history>>

Trigger ==
  /\ platform = "desktop" /\ screen = "review" /\ ~confirming
  /\ signedHandle # NoTx /\ gate /\ ~isBroadcasting /\ ~signError
  /\ confirming' = TRUE
  /\ UNCHANGED <<screen, form, once, signError, hook, gate, scheduler, backend,
                 history>>

CancelTrigger ==
  /\ confirming
  /\ confirming' = FALSE
  /\ UNCHANGED <<screen, form, once, signError, hook, gate, scheduler, backend,
                 history>>

\* The SensitiveOpGate confirms: onBroadcastClick with the handle it closes over.
OnBroadcastClick ==
  /\ confirming
  /\ confirming' = FALSE
  /\ signedHandle # NoTx
  /\ broadcast(signedHandle)
  /\ confirmed' = confirmed \cup {form}
  /\ UNCHANGED <<screen, form, once, signError, signedHandle, txid, gate,
                 scheduler, backend, retyped>>

\* "Confirm & Send" on mobile; the button is replaced by Retry after an error.
ConfirmSend ==
  /\ platform = "mobile" /\ screen = "review" /\ canSend /\ ~canRetry
  /\ prepareSigned(TRUE)
  /\ confirmed' = confirmed \cup {form}
  /\ UNCHANGED <<ui, signedHandle, txid, bcCur, bcErr, gate, scheduler, backend,
                 retyped>>

\* Seeded fault: the failed broadcast is left behind when the payment is retried.
RetryForgets ==
  /\ platform = "mobile" /\ screen = "review" /\ canRetry
  /\ prepareSigned(TRUE)
  /\ confirmed' = confirmed \cup {form}
  /\ UNCHANGED <<ui, signedHandle, txid, bcCur, bcErr, gate, scheduler, backend,
                 retyped>>

\* "Retry": both mutations are reset and the payment is signed anew.
RetrySend ==
  /\ platform = "mobile" /\ screen = "review" /\ canRetry
  /\ prepareSigned(TRUE)
  /\ bcCur' = 0 /\ bcErr' = FALSE
  /\ confirmed' = confirmed \cup {form}
  /\ UNCHANGED <<ui, signedHandle, txid, gate, scheduler, backend, retyped>>

\* Back on mobile: the stack pops; only the drawn button is ever disabled.
Back ==
  /\ platform = "mobile"
  /\ \/ screen = "review" /\ screen' = "edit"
     \/ screen = "success" /\ screen' = "review"
  /\ UNCHANGED <<form, once, signError, confirming, hook, gate, scheduler,
                 backend, history>>

\* "Send another" stays under the same provider: nothing in it is reset.
SendAnother ==
  /\ platform = "desktop" /\ screen = "success"
  /\ screen' = "edit"
  /\ UNCHANGED <<form, once, signError, confirming, hook, gate, scheduler,
                 backend, history>>

\* Close and discard, or Done: the provider unmounts, its calls go on.
Leave ==
  /\ mounted
  /\ screen' = "left"
  /\ confirming' = FALSE
  /\ UNCHANGED <<form, once, signError, hook, gate, scheduler, backend, history>>

\* Closing cancels queries only; opening resumes the paused mutations.
ToggleGate ==
  /\ gate' = ~gate
  /\ scheduler' = gate'
  /\ UNCHANGED <<ui, hook, backend, history>>

-----------------------------------------------------------------------------
(* The mutations *)

Move(n, stage) == calls' = [calls EXCEPT ![n].stage = stage]

\* The query library runs a paused mutation once it is online again, with the
\* closure of the latest render that observed it.
Resume(n) ==
  /\ scheduler
  /\ \/ calls[n].stage = "signPaused" /\ Move(n, "signing")
     \/ calls[n].stage = "broadcastPaused" /\ Move(n, "broadcasting")
  /\ UNCHANGED <<ui, signedHandle, txid, signCur, signErr, bcCur, bcErr, gate,
                 scheduler, backend, history>>

Unspent == Coins \ { t.coin : t \in indexed }
SmallestUnspent == CHOOSE c \in Unspent : \A d \in Unspent : c <= d

\* Seeded fault: the payment is read from the form when the coins have arrived.
SignedLate(n) == [form |-> form, coin |-> SmallestUnspent]

\* What signTransactionHex builds from the coins the indexer reports.
signTransactionHex(n) == [form |-> calls[n].form, coin |-> SmallestUnspent]

\* Seeded fault: a chained call broadcasts before the handle is its own.
SignOkTooEarly(n) ==
  /\ calls[n].stage = "signing"
  /\ gate /\ Unspent # {}
  /\ signedHandle' = IF mounted THEN signTransactionHex(n) ELSE signedHandle
  /\ Move(n, IF calls[n].chained THEN Ready("broadcastPaused", "broadcasting")
                                 ELSE "done")
  /\ IF calls[n].chained THEN bcCur' = n /\ bcErr' = FALSE
                         ELSE UNCHANGED <<bcCur, bcErr>>
  /\ UNCHANGED <<ui, txid, signCur, signErr, gate, scheduler, backend, history>>

\* Discovery and selection need the network; the handle then is set, and a
\* chained call broadcasts it at once.
SignOk(n) ==
  /\ calls[n].stage = "signing"
  /\ gate /\ Unspent # {}
  /\ LET tx == signTransactionHex(n) IN
     /\ signedHandle' = IF mounted THEN tx ELSE signedHandle
     /\ calls' = [calls EXCEPT
          ![n].tx = tx,
          ![n].stage = IF calls[n].chained
                       THEN Ready("broadcastPaused", "broadcasting") ELSE "done"]
  /\ IF calls[n].chained THEN bcCur' = n /\ bcErr' = FALSE
                         ELSE UNCHANGED <<bcCur, bcErr>>
  /\ UNCHANGED <<ui, txid, signCur, signErr, gate, scheduler, backend, history>>

\* A failed lookup reads as an unused address: the wallet then looks empty.
SignFail(n) ==
  /\ calls[n].stage = "signing"
  /\ Move(n, "done")
  /\ signErr' = (signErr \/ n = signCur)
  /\ signError' = (signError \/ (platform = "desktop" /\ screen = "review"))
  /\ UNCHANGED <<screen, form, once, confirming, signedHandle, txid, signCur,
                 bcCur, bcErr, gate, scheduler, backend, history>>

Submit(n) ==
  /\ calls[n].stage = "broadcasting" /\ gate
  /\ Move(n, "sent")
  /\ net' = net \cup {calls[n].tx}
  /\ UNCHANGED <<ui, signedHandle, txid, signCur, signErr, bcCur, bcErr, gate,
                 scheduler, accepted, indexed, history>>

\* The answer arrives; the mounted review screen moves on to success (on mobile
\* once per mount, on desktop whenever the txid changes).
BroadcastOk(n) ==
  /\ calls[n].stage = "sent"
  /\ calls[n].tx \in accepted
  /\ Move(n, "done")
  /\ txid' = IF mounted THEN calls[n].tx ELSE txid
  /\ IF screen = "review" /\ (platform = "mobile" => ~once)
     THEN /\ screen' = "success"
          /\ once' = (once \/ platform = "mobile")
     ELSE UNCHANGED <<screen, once>>
  /\ confirming' = (confirming /\ screen' = "review")
  /\ UNCHANGED <<form, signError, signedHandle, signCur, signErr, bcCur, bcErr,
                 gate, scheduler, backend, history>>

\* Seeded fault: a request has no timeout, a lost answer is awaited for ever.
BroadcastFailUnsent(n) ==
  /\ calls[n].stage = "broadcasting"
  /\ Move(n, "done")
  /\ bcErr' = (bcErr \/ n = bcCur)
  /\ UNCHANGED <<ui, signedHandle, txid, signCur, signErr, bcCur, gate,
                 scheduler, backend, history>>

\* No answer, a refusal, or a gate that closed: the hook learns only "failed".
BroadcastFail(n) ==
  /\ calls[n].stage \in {"broadcasting", "sent"}
  /\ Move(n, "done")
  /\ bcErr' = (bcErr \/ n = bcCur)
  /\ UNCHANGED <<ui, signedHandle, txid, signCur, signErr, bcCur, gate,
                 scheduler, backend, history>>

-----------------------------------------------------------------------------
(* The backend *)

\* A node takes a transaction unless its coin is already spent by another.
Accept(t) ==
  /\ t \in net
  /\ \A a \in accepted : a.coin = t.coin => a = t
  /\ net' = net \ {t}
  /\ accepted' = accepted \cup {t}
  /\ UNCHANGED <<ui, hook, gate, scheduler, indexed, history>>

\* A submission may be lost or refused.
Lose(t) ==
  /\ t \in net
  /\ net' = net \ {t}
  /\ UNCHANGED <<ui, hook, gate, scheduler, accepted, indexed, history>>

\* The indexer's answers lag behind the mempool.
Index(t) ==
  /\ t \in accepted \ indexed
  /\ indexed' = indexed \cup {t}
  /\ UNCHANGED <<ui, hook, gate, scheduler, net, accepted, history>>

-----------------------------------------------------------------------------
UserStep ==
  \/ \E f \in Forms : Edit(f)
  \/ OpenReviewMobile
  \/ OpenReviewDesktop
  \/ SignOnArrival
  \/ RetrySign
  \/ Trigger
  \/ CancelTrigger
  \/ OnBroadcastClick
  \/ ConfirmSend
  \/ RetrySend
  \/ Back
  \/ SendAnother
  \/ Leave
  \/ ToggleGate

User == UNCHANGED platform /\ UserStep

MutationStep(n) ==
  \/ Resume(n)
  \/ SignOk(n)
  \/ SignFail(n)
  \/ Submit(n)
  \/ BroadcastOk(n)
  \/ BroadcastFail(n)

Mutation(n) == UNCHANGED platform /\ MutationStep(n)

Backend == UNCHANGED platform /\ \E t \in Tx : Accept(t) \/ Lose(t) \/ Index(t)

Next == User \/ (\E n \in Calls : Mutation(n)) \/ Backend

Spec == Init /\ [][Next]_vars

\* The library runs its mutations, and requests end with an answer or an error
\* (they carry a timeout). The user and the gate promise nothing.
Fairness == \A n \in Calls : WF_vars(Mutation(n))
FairSpec == Spec /\ Fairness

-----------------------------------------------------------------------------
CallType == [stage : Stages, form : Forms, tx : Tx \cup {NoTx}, chained : BOOLEAN]

TypeOK ==
  /\ platform \in {"mobile", "desktop"}
  /\ screen \in {"edit", "review", "success", "left"}
  /\ form \in Forms
  /\ signedHandle \in Tx \cup {NoTx} /\ txid \in Tx \cup {NoTx}
  /\ calls \in [Calls -> CallType]
  /\ signCur \in Calls \cup {0} /\ bcCur \in Calls \cup {0}
  /\ signErr \in BOOLEAN /\ bcErr \in BOOLEAN
  /\ once \in BOOLEAN /\ signError \in BOOLEAN /\ confirming \in BOOLEAN
  /\ gate \in BOOLEAN /\ scheduler \in BOOLEAN
  /\ net \subseteq Tx /\ accepted \subseteq Tx /\ indexed \subseteq accepted
  /\ confirmed \subseteq Forms /\ retyped \subseteq Forms

\* Whatever reaches the network pays a form that was on the review screen when
\* the user confirmed, however the form changed while the call was on its way.
\* On mobile Back is open while a confirmed signing waits for the connection:
\* what is typed meanwhile is what it then signs and pays.
OnlyConfirmedIsPaid ==
  \A t \in net \cup accepted :
    t.form \in confirmed \/ (platform = "mobile" /\ t.form \in retyped)

\* On mobile neither button starts a payment while an earlier one is being
\* signed or broadcast: Retry is offered on an error alone, and is not
\* guarded by canSend.
UnderWay(n) == calls[n].stage \in SignStages \cup BroadcastStages
OneCallUnderWay ==
  platform = "mobile" => \A m, n \in Calls : UnderWay(m) /\ UnderWay(n) => m = n

\* Desktop: failed broadcasts are repeated with the signed transaction itself,
\* so answers that are lost never turn one visit into two payments.
OnePaymentPerVisit ==
  platform = "desktop" => \A t, u \in net \cup accepted : t = u

\* Once the network stays on, a call the buttons wait for ends: confirm, retry
\* and broadcast are never disabled for good.
ButtonsComeBack ==
  <>[](gate /\ scheduler) => ((isSigning \/ isBroadcasting) ~> canSend)
=============================================================================
