-------------------------- MODULE SendFlow_proofs --------------------------
(***************************************************************************)
(* Proofs about SendFlow, for every set of forms and coins and every       *)
(* number of calls: its types, that only confirmed forms are paid (on      *)
(* mobile, or what was typed over one that waited), that mobile has one    *)
(* payment under way at a time, and that a visit on the desktop never      *)
(* makes two payments.                                                     *)
(***************************************************************************)
EXTENDS SendFlow, NaturalsInduction, WellFoundedInduction, TLAPS

(***************************************************************************)
(* Helpers                                                                 *)
(***************************************************************************)

\* A call that is free is one of the calls, and has not been used.
LEMMA NextCallIsFree ==
  ASSUME FreeCalls # {}
  PROVE  NextCall \in Calls /\ calls[NextCall].stage = "unused"
BY DEF NextCall, FreeCalls

\* Every set of coins that is not empty has a smallest one, so the selection
\* has a coin to spend whenever one is unspent.
LEMMA SmallestIsUnspent ==
  ASSUME Unspent # {}
  PROVE  SmallestUnspent \in Unspent
<1> DEFINE R == OpToRel(<, Nat)
<1>1. IsWellFoundedOn(R, Nat)
  BY NatLessThanWellFounded
<1>2. Unspent \subseteq Nat
  BY SendAssumption DEF Unspent
<1>3. PICK c \in Unspent : \A d \in Unspent : ~ (<<d, c>> \in R)
  <2> HIDE DEF R
  <2> QED BY <1>1, <1>2, WFMin
<1>4. ASSUME NEW d \in Unspent
      PROVE  c <= d
  <2>1. d \in Nat /\ c \in Nat
    BY <1>2
  <2>2. CASE d < c
    <3>1. <<d, c>> \in { s \in Nat \X Nat : s[1] < s[2] }
      BY <2>1, <2>2
    <3>2. R = { s \in Nat \X Nat : s[1] < s[2] }
      BY DEF OpToRel
    <3> HIDE DEF R
    <3> QED BY <3>1, <3>2, <1>3
  <2> QED BY <2>1, <2>2
<1> QED BY <1>4 DEF SmallestUnspent

\* What a signing builds is a transaction.
LEMMA SignedIsTx ==
  ASSUME TypeOK, NEW n \in Calls, Unspent # {}
  PROVE  /\ signTransactionHex(n) \in Tx
         /\ signTransactionHex(n).form = calls[n].form
BY SmallestIsUnspent DEF signTransactionHex, Tx, TypeOK, CallType, Unspent


(***************************************************************************)
(* Types                                                                   *)
(***************************************************************************)

\* What is being broadcast has been signed: TypeOK needs it where a transaction
\* leaves its call for the network.
SentAreSigned ==
  \A n \in Calls : calls[n].stage \in BroadcastStages => calls[n].tx \in Tx

TypeInv == TypeOK /\ SentAreSigned

\* A mutation that starts keeps the calls typed, whatever its stage.
LEMMA PrepareSignedTypes ==
  ASSUME TypeInv, NEW c \in BOOLEAN, prepareSigned(c)
  PROVE  /\ calls' \in [Calls -> CallType]
         /\ signCur' \in Calls /\ signErr' \in BOOLEAN
         /\ SentAreSigned'
BY NextCallIsFree
   DEF prepareSigned, TypeInv, TypeOK, SentAreSigned, CallType, Stages, SignStages,
       BroadcastStages, Ready

LEMMA BroadcastTypes ==
  ASSUME TypeInv, NEW t \in Tx, broadcast(t)
  PROVE  /\ calls' \in [Calls -> CallType]
         /\ bcCur' \in Calls /\ bcErr' \in BOOLEAN
         /\ SentAreSigned'
         /\ UNCHANGED <<signCur, signErr>>
BY NextCallIsFree
   DEF broadcast, TypeInv, TypeOK, SentAreSigned, CallType, Stages, SignStages,
       BroadcastStages, Ready, Tx

\* An edit is drawn and reaches at most the signing that is held back: that call
\* takes the new form, and no call moves on.
LEMMA EditEffect ==
  ASSUME TypeInv, NEW f \in Forms, Edit(f)
  PROVE  /\ calls' \in [Calls -> CallType] /\ SentAreSigned'
         /\ \A n \in Calls :
              /\ calls'[n].stage = calls[n].stage
              /\ calls'[n].tx = calls[n].tx /\ calls'[n].chained = calls[n].chained
              /\ \/ calls'[n].form = calls[n].form
                 \/ calls'[n].form = f /\ f \in retyped'
         /\ retyped \subseteq retyped' /\ retyped' \subseteq Forms
<1>1. CASE HeldBack
  <2>1. signCur \in Calls
    BY <1>1 DEF HeldBack, Pending, TypeInv, TypeOK
  <2>2. /\ calls' = [calls EXCEPT ![signCur].form = f]
        /\ retyped' = retyped \cup {f}
    BY <1>1 DEF Edit
  <2> QED BY <2>1, <2>2 DEF TypeInv, TypeOK, SentAreSigned, CallType
<1>2. CASE ~HeldBack
  BY <1>2 DEF Edit, TypeInv, TypeOK, SentAreSigned
<1> QED BY <1>1, <1>2

\* The app that runs is the same all along.
LEMMA PlatformStays == [Next]_vars => platform' = platform
BY DEF Next, User, Mutation, Backend, vars

LEMMA InitTypes == Init => TypeInv
<1> SUFFICES ASSUME Init PROVE TypeInv
  OBVIOUS
<1>1. (CHOOSE f \in Forms : TRUE) \in Forms
  BY SendAssumption
<1>2. calls \in [Calls -> CallType]
  BY <1>1 DEF Init, CallType, Stages
<1>3. SentAreSigned
  BY DEF Init, SentAreSigned, BroadcastStages
<1> QED BY <1>2, <1>3 DEF Init, TypeInv, TypeOK

LEMMA UserTypes ==
  ASSUME TypeInv, User
  PROVE  TypeInv'
<1> USE DEF TypeInv, ui, hook, backend, history
<1>a. platform' = platform
  BY DEF User
<1> USE <1>a
<1>1. CASE \E f \in Forms : Edit(f)
  <2>1. PICK f \in Forms : Edit(f)
    BY <1>1
  <2>2. /\ calls' \in [Calls -> CallType] /\ SentAreSigned'
        /\ retyped' \subseteq Forms
    BY <2>1, EditEffect
  <2> QED BY <2>1, <2>2 DEF Edit, TypeOK
<1>2. CASE OpenReviewMobile
  BY <1>2 DEF OpenReviewMobile, TypeOK, SentAreSigned
<1>3. CASE OpenReviewDesktop
  <2>1. /\ calls' \in [Calls -> CallType] /\ SentAreSigned'
        /\ signCur' \in Calls \cup {0} /\ signErr' \in BOOLEAN
        /\ once' \in BOOLEAN
    <3>1. CASE signedHandle # NoTx \/ isSigning
      BY <1>3, <3>1 DEF OpenReviewDesktop, TypeOK, SentAreSigned
    <3>2. CASE ~(signedHandle # NoTx \/ isSigning)
      <4>1. prepareSigned(FALSE) /\ once' = TRUE
        BY <1>3, <3>2 DEF OpenReviewDesktop
      <4> QED BY <4>1, PrepareSignedTypes
    <3> QED BY <3>1, <3>2
  <2> QED BY <1>3, <2>1 DEF OpenReviewDesktop, TypeOK
<1>4. CASE SignOnArrival
  BY <1>4, PrepareSignedTypes DEF SignOnArrival, TypeOK
<1>5. CASE RetrySign
  BY <1>5, PrepareSignedTypes DEF RetrySign, TypeOK
<1>6. CASE Trigger
  BY <1>6 DEF Trigger, TypeOK, SentAreSigned
<1>7. CASE CancelTrigger
  <2>1. /\ confirming' \in BOOLEAN
        /\ UNCHANGED <<screen, form, once, signError, hook, gate, scheduler,
                       backend, history>>
    BY <1>7 DEF CancelTrigger
  <2>2. TypeOK'
    BY <2>1 DEF TypeOK
  <2>3. SentAreSigned'
    BY <2>1 DEF SentAreSigned
  <2> QED BY <2>2, <2>3
<1>8. CASE OnBroadcastClick
  <2>1. signedHandle \in Tx
    BY <1>8 DEF OnBroadcastClick, TypeOK
  <2>2. broadcast(signedHandle)
    BY <1>8 DEF OnBroadcastClick
  <2>3. /\ calls' \in [Calls -> CallType] /\ SentAreSigned'
        /\ bcCur' \in Calls /\ bcErr' \in BOOLEAN
        /\ UNCHANGED <<signCur, signErr>>
    BY <2>1, <2>2, BroadcastTypes
  <2>4. /\ confirming' \in BOOLEAN
        /\ confirmed' = confirmed \cup {form}
        /\ UNCHANGED <<screen, form, once, signError, signedHandle, txid, gate,
                       scheduler, backend, retyped>>
    BY <1>8 DEF OnBroadcastClick
  <2> QED BY <2>3, <2>4 DEF TypeOK
<1>9. CASE ConfirmSend
  <2>1. /\ calls' \in [Calls -> CallType] /\ SentAreSigned'
        /\ signCur' \in Calls /\ signErr' \in BOOLEAN
    BY <1>9, PrepareSignedTypes DEF ConfirmSend
  <2> QED BY <1>9, <2>1 DEF ConfirmSend, TypeOK
<1>10. CASE RetrySend
  BY <1>10, PrepareSignedTypes DEF RetrySend, TypeOK
<1>11. CASE Back
  BY <1>11 DEF Back, TypeOK, SentAreSigned
<1>12. CASE SendAnother
  BY <1>12 DEF SendAnother, TypeOK, SentAreSigned
<1>13. CASE Leave
  BY ZenonT(40), <1>13 DEF Leave, TypeOK, SentAreSigned
<1>14. CASE ToggleGate
  BY <1>14 DEF ToggleGate, TypeOK, SentAreSigned
<1> QED
  BY <1>1, <1>2, <1>3, <1>4, <1>5, <1>6, <1>7, <1>8, <1>9, <1>10, <1>11, <1>12,
     <1>13, <1>14 DEF User, UserStep

\* A call that moves on stays typed; it reaches a broadcast only with a
\* transaction.
LEMMA MoveTypes ==
  ASSUME TypeInv, NEW n \in Calls, NEW st \in Stages, Move(n, st),
         st \in BroadcastStages => calls[n].stage \in BroadcastStages
  PROVE  calls' \in [Calls -> CallType] /\ SentAreSigned'
BY DEF Move, TypeInv, TypeOK, SentAreSigned, CallType

LEMMA MutationTypes ==
  ASSUME TypeInv, NEW n \in Calls, Mutation(n)
  PROVE  TypeInv'
<1> USE DEF TypeInv, ui, hook, backend, history, SignStages, BroadcastStages
<1>a. platform' = platform
  BY DEF Mutation
<1> USE <1>a
<1>0. /\ "done" \in Stages /\ "sent" \in Stages /\ "signing" \in Stages
      /\ "broadcasting" \in Stages
      /\ Ready("broadcastPaused", "broadcasting") \in BroadcastStages \cap Stages
  BY DEF Stages, Ready
<1>1. CASE Resume(n)
  BY <1>0, <1>1, MoveTypes DEF Resume, TypeOK
<1>2. CASE SignOk(n)
  <2>1. signTransactionHex(n) \in Tx
    BY <1>2, SignedIsTx DEF SignOk
  <2>2. calls' \in [Calls -> CallType] /\ SentAreSigned'
    BY <1>0, <1>2, <2>1 DEF SignOk, TypeOK, SentAreSigned, CallType
  <2>3. signedHandle' \in Tx \cup {NoTx}
    BY <1>2, <2>1 DEF SignOk, TypeOK
  <2>4. bcCur' \in Calls \cup {0} /\ bcErr' \in BOOLEAN
    BY <1>2 DEF SignOk, TypeOK
  <2>5. UNCHANGED <<ui, txid, signCur, signErr, gate, scheduler, backend, history>>
    BY <1>2 DEF SignOk
  <2> QED BY <2>2, <2>3, <2>4, <2>5 DEF TypeOK
<1>3. CASE SignFail(n)
  BY <1>0, <1>3, MoveTypes DEF SignFail, TypeOK
<1>4. CASE Submit(n)
  <2>1. calls[n].tx \in Tx
    BY <1>4 DEF Submit, SentAreSigned
  <2>2. calls' \in [Calls -> CallType] /\ SentAreSigned'
    BY <1>0, <1>4, MoveTypes DEF Submit
  <2> QED BY <1>4, <2>1, <2>2 DEF Submit, TypeOK
<1>5. CASE BroadcastOk(n)
  <2>1. calls[n].tx \in Tx
    BY <1>5 DEF BroadcastOk, SentAreSigned
  <2>2. calls' \in [Calls -> CallType] /\ SentAreSigned'
    BY <1>0, <1>5, MoveTypes DEF BroadcastOk
  <2>3. /\ screen' \in {"edit", "review", "success", "left"}
        /\ once' \in BOOLEAN /\ confirming' \in BOOLEAN
    BY <1>5 DEF BroadcastOk, TypeOK
  <2> QED BY <1>5, <2>1, <2>2, <2>3 DEF BroadcastOk, TypeOK
<1>6. CASE BroadcastFail(n)
  BY <1>0, <1>6, MoveTypes DEF BroadcastFail, TypeOK
<1> QED BY <1>1, <1>2, <1>3, <1>4, <1>5, <1>6 DEF Mutation, MutationStep

LEMMA BackendTypes ==
  ASSUME TypeInv, Backend
  PROVE  TypeInv'
BY DEF Backend, Accept, Lose, Index, TypeInv, TypeOK, SentAreSigned, ui, hook,
       backend, history

LEMMA StutterTypes ==
  ASSUME TypeInv, UNCHANGED vars
  PROVE  TypeInv'
BY DEF vars, ui, hook, backend, history, TypeInv, TypeOK, SentAreSigned

LEMMA TypeStep == TypeInv /\ [Next]_vars => TypeInv'
BY UserTypes, MutationTypes, BackendTypes, StutterTypes DEF Next

\* The state of a send flow keeps its types (the screens, the mutations, the
\* transactions), however the user, the answers and the backend interleave.
THEOREM TypeCorrect == Spec => []TypeOK
<1>1. TypeInv => TypeOK
  BY DEF TypeInv
<1> QED BY InitTypes, TypeStep, <1>1, PTL DEF Spec

(***************************************************************************)
(* What the three ways of changing a call do, call by call                 *)
(***************************************************************************)

\* A signing starts: one unused call, with the form of the moment.
LEMMA PrepareSignedEffect ==
  ASSUME TypeInv, NEW c \in BOOLEAN, prepareSigned(c)
  PROVE  \E m \in Calls :
           /\ calls[m].stage = "unused"
           /\ calls'[m].stage \in SignStages
           /\ calls'[m].form = form /\ calls'[m].chained = c
           /\ signCur' = m
           /\ \A k \in Calls \ {m} : calls'[k] = calls[k]
<1>1. NextCall \in Calls /\ calls[NextCall].stage = "unused"
  BY NextCallIsFree DEF prepareSigned
<1> QED BY <1>1 DEF prepareSigned, TypeInv, TypeOK, Ready, SignStages

\* A broadcast starts: one unused call, with the transaction it was given.
LEMMA BroadcastEffect ==
  ASSUME TypeInv, NEW t \in Tx, broadcast(t)
  PROVE  \E m \in Calls :
           /\ calls[m].stage = "unused"
           /\ calls'[m].stage \in BroadcastStages
           /\ calls'[m].tx = t /\ calls'[m].chained = FALSE
           /\ \A k \in Calls \ {m} : calls'[k] = calls[k]
<1>1. NextCall \in Calls /\ calls[NextCall].stage = "unused"
  BY NextCallIsFree DEF broadcast
<1> QED BY <1>1 DEF broadcast, TypeInv, TypeOK, Ready, BroadcastStages

\* A call moves on: its stage changes and nothing else.
LEMMA MoveEffect ==
  ASSUME TypeInv, NEW n \in Calls, NEW st, Move(n, st)
  PROVE  /\ calls'[n].stage = st
         /\ calls'[n].form = calls[n].form /\ calls'[n].tx = calls[n].tx
         /\ calls'[n].chained = calls[n].chained
         /\ \A k \in Calls \ {n} : calls'[k] = calls[k]
BY DEF Move, TypeInv, TypeOK, CallType

\* A signing ends with a transaction for the form it started with.
LEMMA SignOkEffect ==
  ASSUME TypeInv, NEW n \in Calls, SignOk(n)
  PROVE  \E tx \in Tx :
           /\ tx.form = calls[n].form
           /\ signedHandle' = IF mounted THEN tx ELSE signedHandle
           /\ calls'[n].tx = tx /\ calls'[n].form = calls[n].form
           /\ calls'[n].chained = calls[n].chained
           /\ calls'[n].stage = IF calls[n].chained
                                THEN Ready("broadcastPaused", "broadcasting")
                                ELSE "done"
           /\ \A k \in Calls \ {n} : calls'[k] = calls[k]
<1>1. signTransactionHex(n) \in Tx /\ signTransactionHex(n).form = calls[n].form
  BY SignedIsTx DEF SignOk, TypeInv
<1> QED BY <1>1 DEF SignOk, TypeInv, TypeOK, CallType

(***************************************************************************)
(* Where a visit on the desktop can be                                     *)
(***************************************************************************)

\* No call of the desktop goes on from signing to broadcasting by itself.
NothingChained == \A n \in Calls : ~calls[n].chained

\* A visit shows success exactly from its first txid on; the broadcast is
\* confirmed on the review screen only.
ScreensFollowTxid ==
  /\ screen = "review" => txid = NoTx
  /\ screen = "success" => txid # NoTx
  /\ confirming => screen = "review"

\* While the form can still be edited and no txid is there, nothing has started.
NothingStarted ==
  screen = "edit" /\ txid = NoTx =>
    /\ signedHandle = NoTx
    /\ net = {} /\ accepted = {}
    /\ \A n \in Calls : calls[n].stage = "unused"

\* What is signed, or being signed, under review is what the review shows.
SignedIsShown ==
  screen = "review" =>
    /\ signedHandle # NoTx => signedHandle.form = form
    /\ \A n \in Calls : calls[n].stage \in SignStages => calls[n].form = form

DesktopInv == NothingChained /\ ScreensFollowTxid /\ NothingStarted /\ SignedIsShown

LEMMA DesktopInit == Init => DesktopInv
BY DEF Init, DesktopInv, NothingChained, ScreensFollowTxid, NothingStarted,
       SignedIsShown, SignStages

LEMMA DesktopUser ==
  ASSUME platform = "desktop", TypeInv, DesktopInv, User
  PROVE  DesktopInv'
<1> USE DEF DesktopInv, NothingChained, ScreensFollowTxid, NothingStarted,
            SignedIsShown, ui, hook, backend, history
<1>0. \A st \in SignStages : st # "unused"
  BY DEF SignStages
<1>1. CASE \E f \in Forms : Edit(f)
  <2>1. PICK f \in Forms : Edit(f)
    BY <1>1
  <2>2. /\ screen = "edit" /\ signedHandle' = NoTx
        /\ UNCHANGED <<screen, confirming, txid, net, accepted>>
    BY <2>1 DEF Edit
  <2> QED BY <2>1, <2>2, EditEffect
<1>2. CASE OpenReviewMobile
  BY <1>2 DEF OpenReviewMobile
<1>3. CASE OpenReviewDesktop
  <2>1. CASE signedHandle # NoTx \/ isSigning
    BY <1>0, <1>3, <2>1 DEF OpenReviewDesktop, isSigning, Pending, TypeInv, TypeOK
  <2>2. CASE ~(signedHandle # NoTx \/ isSigning)
    <3>1. prepareSigned(FALSE)
      BY <1>3, <2>2 DEF OpenReviewDesktop
    <3> QED BY <1>0, <1>3, <3>1, PrepareSignedEffect DEF OpenReviewDesktop
  <2> QED BY <2>1, <2>2
<1>4. CASE SignOnArrival
  <2>1. prepareSigned(FALSE)
    BY <1>4 DEF SignOnArrival
  <2> QED BY <1>0, <1>4, <2>1, PrepareSignedEffect DEF SignOnArrival
<1>5. CASE RetrySign
  <2>1. prepareSigned(FALSE)
    BY <1>5 DEF RetrySign
  <2> QED BY <1>0, <1>5, <2>1, PrepareSignedEffect DEF RetrySign
<1>6. CASE Trigger
  BY <1>6 DEF Trigger
<1>7. CASE CancelTrigger
  BY <1>7 DEF CancelTrigger
<1>8. CASE OnBroadcastClick
  <2>1. signedHandle \in Tx /\ broadcast(signedHandle) /\ screen = "review"
    BY <1>8 DEF OnBroadcastClick, TypeInv, TypeOK
  <2>2. \A st \in BroadcastStages : st \notin SignStages
    BY DEF BroadcastStages, SignStages
  <2> QED BY <1>0, <1>8, <2>1, <2>2, BroadcastEffect DEF OnBroadcastClick
<1>9. CASE ConfirmSend
  BY <1>9 DEF ConfirmSend
<1>10. CASE RetrySend
  BY <1>10 DEF RetrySend
<1>11. CASE Back
  BY <1>11 DEF Back
<1>12. CASE SendAnother
  BY <1>12 DEF SendAnother
<1>13. CASE Leave
  BY <1>13 DEF Leave
<1>14. CASE ToggleGate
  BY <1>14 DEF ToggleGate
<1> QED
  BY <1>1, <1>2, <1>3, <1>4, <1>5, <1>6, <1>7, <1>8, <1>9, <1>10, <1>11, <1>12,
     <1>13, <1>14 DEF User, UserStep

LEMMA DesktopMutation ==
  ASSUME platform = "desktop", TypeInv, DesktopInv, NEW n \in Calls, Mutation(n)
  PROVE  DesktopInv'
<1> USE DEF DesktopInv, NothingChained, ScreensFollowTxid, NothingStarted,
            SignedIsShown, ui, hook, backend, history
<1>0. /\ calls[n].stage # "unused"
      /\ \A st \in BroadcastStages \cup {"done"} : st \notin SignStages
      /\ {"signPaused", "signing"} \subseteq SignStages
      /\ {"broadcasting", "sent"} \subseteq BroadcastStages
  BY DEF Mutation, MutationStep, Resume, SignOk, SignFail, Submit, BroadcastOk, BroadcastFail,
         BroadcastStages, SignStages
<1>1. CASE Resume(n)
  <2>1. CASE calls[n].stage = "signPaused" /\ Move(n, "signing")
    BY <1>0, <1>1, <2>1, MoveEffect DEF Resume
  <2>2. CASE calls[n].stage = "broadcastPaused" /\ Move(n, "broadcasting")
    BY <1>0, <1>1, <2>2, MoveEffect DEF Resume
  <2> QED BY <1>1, <2>1, <2>2 DEF Resume
<1>2. CASE SignOk(n)
  <2>1. calls[n].stage \in SignStages
    BY <1>0, <1>2 DEF SignOk
  <2>2. PICK tx \in Tx :
           /\ tx.form = calls[n].form
           /\ signedHandle' = IF mounted THEN tx ELSE signedHandle
           /\ calls'[n].tx = tx /\ calls'[n].form = calls[n].form
           /\ calls'[n].chained = calls[n].chained
           /\ calls'[n].stage = IF calls[n].chained
                                THEN Ready("broadcastPaused", "broadcasting")
                                ELSE "done"
           /\ \A k \in Calls \ {n} : calls'[k] = calls[k]
    BY <1>2, SignOkEffect
  <2>3. UNCHANGED <<ui, txid, backend>>
    BY <1>2 DEF SignOk
  <2>4. calls'[n].stage = "done"
    BY <2>2
  <2> QED BY <1>0, <2>1, <2>2, <2>3, <2>4
<1>3. CASE SignFail(n)
  BY <1>0, <1>3, MoveEffect DEF SignFail
<1>4. CASE Submit(n)
  BY <1>0, <1>4, MoveEffect DEF Submit
<1>5. CASE BroadcastOk(n)
  <2>1. calls[n].tx # NoTx
    BY <1>0, <1>5, SendAssumption DEF BroadcastOk, TypeInv, SentAreSigned, Tx
  <2>2. Move(n, "done")
    BY <1>5 DEF BroadcastOk
  <2> QED BY <1>0, <1>5, <2>1, <2>2, MoveEffect DEF BroadcastOk, mounted
<1>6. CASE BroadcastFail(n)
  BY <1>0, <1>6, MoveEffect DEF BroadcastFail
<1> QED BY <1>1, <1>2, <1>3, <1>4, <1>5, <1>6 DEF Mutation, MutationStep

LEMMA DesktopStep ==
  ASSUME platform = "desktop", TypeInv, DesktopInv, [Next]_vars
  PROVE  DesktopInv'
<1>1. CASE Backend
  BY <1>1 DEF Backend, Accept, Lose, Index, DesktopInv, NothingChained,
     ScreensFollowTxid, NothingStarted, SignedIsShown, ui, hook, backend, history
<1>2. CASE UNCHANGED vars
  BY <1>2 DEF vars, DesktopInv, NothingChained, ScreensFollowTxid, NothingStarted,
     SignedIsShown, ui, hook, backend, history
<1> QED BY <1>1, <1>2, DesktopUser, DesktopMutation DEF Next

(***************************************************************************)
(* Only what was confirmed is paid                                         *)
(***************************************************************************)

\* A form the user confirmed or, on mobile, typed over one that was held back.
Meant(f) == f \in confirmed \/ (platform = "mobile" /\ f \in retyped)

\* A call that will broadcast by itself, or that broadcasts, pays such a form; so
\* does what has left it.
CallsAreConfirmed ==
  \A n \in Calls :
    /\ calls[n].stage \in SignStages /\ calls[n].chained => Meant(calls[n].form)
    /\ calls[n].stage \in BroadcastStages => Meant(calls[n].tx.form)

\* The gate in front of the broadcast button is the desktop's.
GateIsDesktop == confirming => platform = "desktop"

PaidInv == CallsAreConfirmed /\ OnlyConfirmedIsPaid /\ GateIsDesktop

LEMMA PaidInit == Init => PaidInv
BY DEF Init, PaidInv, CallsAreConfirmed, OnlyConfirmedIsPaid, GateIsDesktop,
       SignStages, BroadcastStages

LEMMA PaidUser ==
  ASSUME TypeInv, platform = "desktop" => DesktopInv, PaidInv, User
  PROVE  PaidInv'
<1> USE DEF PaidInv, CallsAreConfirmed, OnlyConfirmedIsPaid, GateIsDesktop, Meant, ui,
            hook, backend, history
<1>a. platform' = platform
  BY DEF User
<1> USE <1>a
<1>0. \A st \in BroadcastStages : st \notin SignStages
  BY DEF BroadcastStages, SignStages
<1>1. CASE \E f \in Forms : Edit(f)
  <2>1. PICK f \in Forms : Edit(f)
    BY <1>1
  <2>2. UNCHANGED <<confirming, net, accepted, confirmed>>
    BY <2>1 DEF Edit
  <2>3. platform = "desktop" => NothingChained
    BY DEF DesktopInv
  <2>4. platform \in {"mobile", "desktop"}
    BY DEF TypeInv, TypeOK
  <2> QED BY <2>1, <2>2, <2>3, <2>4, EditEffect DEF NothingChained
<1>2. CASE OpenReviewMobile
  BY <1>2 DEF OpenReviewMobile
<1>3. CASE OpenReviewDesktop
  <2>1. CASE signedHandle # NoTx \/ isSigning
    BY <1>3, <2>1 DEF OpenReviewDesktop
  <2>2. CASE ~(signedHandle # NoTx \/ isSigning)
    <3>1. prepareSigned(FALSE)
      BY <1>3, <2>2 DEF OpenReviewDesktop
    <3> QED BY <1>0, <1>3, <3>1, PrepareSignedEffect DEF OpenReviewDesktop
  <2> QED BY <2>1, <2>2
<1>4. CASE SignOnArrival
  <2>1. prepareSigned(FALSE)
    BY <1>4 DEF SignOnArrival
  <2> QED BY <1>0, <1>4, <2>1, PrepareSignedEffect DEF SignOnArrival
<1>5. CASE RetrySign
  <2>1. prepareSigned(FALSE)
    BY <1>5 DEF RetrySign
  <2> QED BY <1>0, <1>5, <2>1, PrepareSignedEffect DEF RetrySign
<1>6. CASE Trigger
  BY <1>6 DEF Trigger
<1>7. CASE CancelTrigger
  BY <1>7 DEF CancelTrigger
<1>8. CASE OnBroadcastClick
  <2>1. signedHandle \in Tx /\ broadcast(signedHandle)
    BY <1>8 DEF OnBroadcastClick, TypeInv, TypeOK
  <2>2. signedHandle.form = form
    BY <1>8 DEF OnBroadcastClick, DesktopInv, ScreensFollowTxid, SignedIsShown
  <2>3. PICK m \in Calls :
           /\ calls'[m].stage \in BroadcastStages
           /\ calls'[m].tx = signedHandle
           /\ \A k \in Calls \ {m} : calls'[k] = calls[k]
    BY <2>1, BroadcastEffect
  <2>4. /\ confirmed' = confirmed \cup {form}
        /\ UNCHANGED <<backend, retyped>>
        /\ ~confirming'
    BY <1>8 DEF OnBroadcastClick
  <2> QED BY <1>0, <2>2, <2>3, <2>4
<1>9. CASE ConfirmSend
  <2>1. prepareSigned(TRUE)
    BY <1>9 DEF ConfirmSend
  <2> QED BY <1>0, <1>9, <2>1, PrepareSignedEffect DEF ConfirmSend
<1>10. CASE RetrySend
  <2>1. prepareSigned(TRUE)
    BY <1>10 DEF RetrySend
  <2> QED BY <1>0, <1>10, <2>1, PrepareSignedEffect DEF RetrySend
<1>11. CASE Back
  BY <1>11 DEF Back
<1>12. CASE SendAnother
  BY <1>12 DEF SendAnother
<1>13. CASE Leave
  BY <1>13 DEF Leave
<1>14. CASE ToggleGate
  BY <1>14 DEF ToggleGate
<1> QED
  BY <1>1, <1>2, <1>3, <1>4, <1>5, <1>6, <1>7, <1>8, <1>9, <1>10, <1>11, <1>12,
     <1>13, <1>14 DEF User, UserStep

LEMMA PaidMutation ==
  ASSUME TypeInv, PaidInv, NEW n \in Calls, Mutation(n)
  PROVE  PaidInv'
<1> USE DEF PaidInv, CallsAreConfirmed, OnlyConfirmedIsPaid, GateIsDesktop, Meant, ui,
            hook, backend, history
<1>a. platform' = platform
  BY DEF Mutation
<1> USE <1>a
<1>0. /\ \A st \in BroadcastStages : st \notin SignStages
      /\ "done" \notin SignStages \cup BroadcastStages
      /\ {"signPaused", "signing"} \subseteq SignStages
      /\ {"broadcastPaused", "broadcasting", "sent"} \subseteq BroadcastStages
      /\ Ready("broadcastPaused", "broadcasting") \in BroadcastStages
  BY DEF BroadcastStages, SignStages, Ready
<1>1. CASE Resume(n)
  <2>1. CASE calls[n].stage = "signPaused" /\ Move(n, "signing")
    BY <1>0, <1>1, <2>1, MoveEffect DEF Resume
  <2>2. CASE calls[n].stage = "broadcastPaused" /\ Move(n, "broadcasting")
    BY <1>0, <1>1, <2>2, MoveEffect DEF Resume
  <2> QED BY <1>1, <2>1, <2>2 DEF Resume
<1>2. CASE SignOk(n)
  <2>1. PICK tx \in Tx :
           /\ tx.form = calls[n].form
           /\ signedHandle' = IF mounted THEN tx ELSE signedHandle
           /\ calls'[n].tx = tx /\ calls'[n].form = calls[n].form
           /\ calls'[n].chained = calls[n].chained
           /\ calls'[n].stage = IF calls[n].chained
                                THEN Ready("broadcastPaused", "broadcasting")
                                ELSE "done"
           /\ \A k \in Calls \ {n} : calls'[k] = calls[k]
    BY <1>2, SignOkEffect
  <2>2. calls[n].stage \in SignStages /\ UNCHANGED <<ui, backend, history>>
    BY <1>0, <1>2 DEF SignOk
  <2> QED BY <1>0, <2>1, <2>2
<1>3. CASE SignFail(n)
  BY <1>0, <1>3, MoveEffect DEF SignFail
<1>4. CASE Submit(n)
  BY <1>0, <1>4, MoveEffect DEF Submit
<1>5. CASE BroadcastOk(n)
  <2>1. /\ Move(n, "done")
        /\ UNCHANGED <<net, accepted, confirmed, retyped>>
        /\ confirming' => confirming
    BY <1>5 DEF BroadcastOk
  <2> QED BY <1>0, <2>1, MoveEffect
<1>6. CASE BroadcastFail(n)
  BY <1>0, <1>6, MoveEffect DEF BroadcastFail
<1> QED BY <1>1, <1>2, <1>3, <1>4, <1>5, <1>6 DEF Mutation, MutationStep

LEMMA PaidStep ==
  ASSUME TypeInv, platform = "desktop" => DesktopInv, PaidInv, [Next]_vars
  PROVE  PaidInv'
<1>1. CASE Backend
  BY <1>1 DEF Backend, Accept, Lose, Index, PaidInv, CallsAreConfirmed,
     OnlyConfirmedIsPaid, GateIsDesktop, Meant, ui, hook, backend, history
<1>2. CASE UNCHANGED vars
  BY <1>2 DEF vars, PaidInv, CallsAreConfirmed, OnlyConfirmedIsPaid, GateIsDesktop, Meant,
     ui, hook, backend, history
<1> QED BY <1>1, <1>2, PaidUser, PaidMutation DEF Next

\* What is on the network, or was accepted, pays a form the user confirmed on
\* the review screen: neither an edit under a running signing nor a late answer
\* slips another payment into a confirmed broadcast. The one exception is
\* mobile's: a form typed while the confirmed signing waited for the connection.
THEOREM ConfirmedIsPaid == Spec => []OnlyConfirmedIsPaid
<1> DEFINE Inv == TypeInv /\ (platform = "desktop" => DesktopInv) /\ PaidInv
<1>1. Init => Inv
  BY InitTypes, DesktopInit, PaidInit
<1>2. Inv /\ [Next]_vars => Inv'
  BY TypeStep, DesktopStep, PaidStep, PlatformStays
<1>3. Inv => OnlyConfirmedIsPaid
  BY DEF PaidInv
<1> HIDE DEF Inv
<1> QED BY <1>1, <1>2, <1>3, PTL DEF Spec

(***************************************************************************)
(* One call under way, on mobile                                           *)
(***************************************************************************)

\* A call under way is the one its mutation observes, it is the only one, and
\* there is none while an error offers Retry.
OneUnderWay ==
  /\ \A n \in Calls : calls[n].stage \in SignStages => n = signCur
  /\ \A m, n \in Calls : UnderWay(m) /\ UnderWay(n) => m = n
  /\ \A n \in Calls : calls[n].stage \in BroadcastStages => n = bcCur
  /\ canRetry => \A n \in Calls : ~UnderWay(n)

LEMMA UnderWayInit == Init => OneUnderWay
BY DEF Init, OneUnderWay, UnderWay, SignStages, BroadcastStages

\* A payment that starts when none is under way is the only one.
LEMMA PaymentStarts ==
  ASSUME TypeInv, prepareSigned(TRUE), ~bcErr', \A n \in Calls : ~UnderWay(n)
  PROVE  OneUnderWay'
<1>1. PICK m \in Calls :
           /\ calls'[m].stage \in SignStages
           /\ signCur' = m
           /\ \A k \in Calls \ {m} : calls'[k] = calls[k]
  BY PrepareSignedEffect
<1>2. ~signErr'
  BY DEF prepareSigned
<1>3. \A st \in SignStages : st \notin BroadcastStages
  BY DEF SignStages, BroadcastStages
<1> QED BY <1>1, <1>2, <1>3 DEF OneUnderWay, UnderWay, canRetry

\* A step after which the same calls, or fewer, are under way in the same way.
LEMMA UnderWayKept ==
  ASSUME OneUnderWay, UNCHANGED <<signCur, bcCur>>,
         \A n \in Calls : /\ calls'[n].stage \in SignStages =>
                                calls[n].stage \in SignStages
                          /\ calls'[n].stage \in BroadcastStages =>
                                calls[n].stage \in BroadcastStages,
         canRetry' => canRetry \/ \A n \in Calls : ~UnderWay(n)'
  PROVE  OneUnderWay'
<1>1. \A n \in Calls : UnderWay(n)' => UnderWay(n)
  BY DEF UnderWay
<1>2. canRetry' => \A n \in Calls : ~UnderWay(n)'
  BY <1>1 DEF OneUnderWay
<1>3. \A m, n \in Calls : UnderWay(m)' /\ UnderWay(n)' => m = n
  BY <1>1 DEF OneUnderWay
<1>4. /\ \A n \in Calls : calls'[n].stage \in SignStages => n = signCur'
      /\ \A n \in Calls : calls'[n].stage \in BroadcastStages => n = bcCur'
  BY DEF OneUnderWay
<1> QED BY <1>2, <1>3, <1>4 DEF OneUnderWay

LEMMA UnderWayUser ==
  ASSUME platform = "mobile", TypeInv, GateIsDesktop, OneUnderWay, User
  PROVE  OneUnderWay'
<1> USE DEF ui, hook, backend, history
<1>1. CASE \E f \in Forms : Edit(f)
  <2>1. PICK f \in Forms : Edit(f)
    BY <1>1
  <2>2. UNCHANGED <<signCur, bcCur, signErr, bcErr>>
    BY <2>1 DEF Edit
  <2>3. \A n \in Calls : calls'[n].stage = calls[n].stage
    BY <2>1, EditEffect
  <2> QED BY <2>2, <2>3, UnderWayKept DEF canRetry
<1>2. CASE ConfirmSend
  <2>1. /\ prepareSigned(TRUE) /\ ~isSigning /\ ~isBroadcasting
        /\ ~bcErr /\ UNCHANGED bcErr
    BY <1>2 DEF ConfirmSend, canSend, canRetry
  <2>2. \A n \in Calls : ~UnderWay(n)
    BY <2>1 DEF OneUnderWay, UnderWay, isSigning, isBroadcasting, Pending, Calls
  <2> QED BY <2>1, <2>2, PaymentStarts
<1>3. CASE RetrySend
  <2>1. prepareSigned(TRUE) /\ canRetry /\ ~bcErr'
    BY <1>3 DEF RetrySend
  <2>2. \A n \in Calls : ~UnderWay(n)
    BY <2>1 DEF OneUnderWay
  <2> QED BY <2>1, <2>2, PaymentStarts
<1>4. CASE OpenReviewMobile \/ Back \/ Leave \/ ToggleGate \/ CancelTrigger
  <2>1. UNCHANGED <<calls, signCur, bcCur, signErr, bcErr>>
    BY <1>4 DEF OpenReviewMobile, Back, Leave, ToggleGate, CancelTrigger
  <2> QED BY <2>1, UnderWayKept DEF canRetry
<1>5. ~(OpenReviewDesktop \/ SignOnArrival \/ RetrySign \/ Trigger \/ SendAnother)
  BY DEF OpenReviewDesktop, SignOnArrival, RetrySign, Trigger, SendAnother
<1>6. CASE OnBroadcastClick
  BY <1>6 DEF OnBroadcastClick, GateIsDesktop
<1> QED BY <1>1, <1>2, <1>3, <1>4, <1>5, <1>6 DEF User, UserStep

LEMMA UnderWayMutation ==
  ASSUME platform = "mobile", TypeInv, OneUnderWay, NEW n \in Calls, Mutation(n)
  PROVE  OneUnderWay'
<1>0. /\ \A st \in BroadcastStages \cup {"done"} : st \notin SignStages
      /\ "done" \notin BroadcastStages
      /\ {"signPaused", "signing"} \subseteq SignStages
      /\ {"broadcastPaused", "broadcasting", "sent"} \subseteq BroadcastStages
      /\ Ready("broadcastPaused", "broadcasting") \in BroadcastStages
  BY DEF BroadcastStages, SignStages, Ready
<1>1. CASE Resume(n)
  <2>1. \/ Move(n, "signing") /\ calls[n].stage \in SignStages
        \/ Move(n, "broadcasting") /\ calls[n].stage \in BroadcastStages
    <3>1. CASE calls[n].stage = "signPaused" /\ Move(n, "signing")
      BY <1>0, <3>1
    <3>2. CASE calls[n].stage = "broadcastPaused" /\ Move(n, "broadcasting")
      BY <1>0, <3>2
    <3> QED BY <1>1, <3>1, <3>2 DEF Resume
  <2>2. UNCHANGED <<signCur, bcCur, signErr, bcErr>>
    BY <1>1 DEF Resume
  <2>3. \A k \in Calls : /\ calls'[k].stage \in SignStages =>
                               calls[k].stage \in SignStages
                         /\ calls'[k].stage \in BroadcastStages =>
                               calls[k].stage \in BroadcastStages
    BY <1>0, <2>1, MoveEffect
  <2> QED BY <2>2, <2>3, UnderWayKept DEF canRetry
<1>2. CASE SignOk(n)
  <2>1. /\ calls'[n].stage = IF calls[n].chained
                             THEN Ready("broadcastPaused", "broadcasting")
                             ELSE "done"
        /\ \A k \in Calls \ {n} : calls'[k] = calls[k]
    BY <1>2, SignOkEffect
  <2>2. /\ calls[n].stage \in SignStages
        /\ UNCHANGED <<signCur, signErr>>
        /\ IF calls[n].chained THEN bcCur' = n /\ bcErr' = FALSE
                               ELSE UNCHANGED <<bcCur, bcErr>>
    BY <1>0, <1>2 DEF SignOk
  <2>3. ~signErr /\ ~bcErr /\ \A k \in Calls \ {n} : ~UnderWay(k)
    BY <2>2 DEF OneUnderWay, UnderWay, canRetry
  <2> QED BY <1>0, <2>1, <2>2, <2>3 DEF OneUnderWay, UnderWay, canRetry
<1>3. CASE SignFail(n) \/ BroadcastOk(n) \/ BroadcastFail(n)
  <2>1. /\ Move(n, "done") /\ UnderWay(n)
        /\ UNCHANGED <<signCur, bcCur>>
    BY <1>0, <1>3 DEF SignFail, BroadcastOk, BroadcastFail, UnderWay
  <2>2. \A k \in Calls : ~UnderWay(k)'
    BY <1>0, <2>1, MoveEffect DEF OneUnderWay, UnderWay
  <2> QED BY <2>1, <2>2 DEF OneUnderWay, UnderWay
<1>4. CASE Submit(n)
  <2>1. /\ Move(n, "sent") /\ calls[n].stage \in BroadcastStages
        /\ UNCHANGED <<signCur, bcCur, signErr, bcErr>>
    BY <1>0, <1>4 DEF Submit
  <2>2. \A k \in Calls : /\ calls'[k].stage \in SignStages =>
                               calls[k].stage \in SignStages
                         /\ calls'[k].stage \in BroadcastStages =>
                               calls[k].stage \in BroadcastStages
    BY <1>0, <2>1, MoveEffect
  <2> QED BY <2>1, <2>2, UnderWayKept DEF canRetry
<1> QED BY <1>1, <1>2, <1>3, <1>4 DEF Mutation, MutationStep

LEMMA UnderWayStep ==
  ASSUME platform = "mobile", TypeInv, GateIsDesktop, OneUnderWay, [Next]_vars
  PROVE  OneUnderWay'
<1>1. CASE Backend \/ UNCHANGED vars
  <2>1. UNCHANGED <<calls, signCur, bcCur, signErr, bcErr>>
    BY <1>1 DEF Backend, Accept, Lose, Index, vars, hook
  <2> QED BY <2>1, UnderWayKept DEF canRetry
<1> QED BY <1>1, UnderWayUser, UnderWayMutation DEF Next

\* On mobile a payment is signed and broadcast before the next one can start:
\* Confirm waits for both mutations, and the unguarded Retry is only offered
\* when the payment it repeats has ended.
THEOREM OneAtATime == Spec => []OneCallUnderWay
<1> DEFINE Inv == /\ TypeInv
                  /\ platform = "desktop" => DesktopInv
                  /\ PaidInv
                  /\ platform = "mobile" => OneUnderWay
<1>1. Init => Inv
  BY InitTypes, DesktopInit, PaidInit, UnderWayInit
<1>2. Inv /\ [Next]_vars => Inv'
  BY TypeStep, DesktopStep, PaidStep, UnderWayStep, PlatformStays DEF PaidInv
<1>3. Inv => OneCallUnderWay
  BY DEF OneUnderWay, OneCallUnderWay
<1> HIDE DEF Inv
<1> QED BY <1>1, <1>2, <1>3, PTL DEF Spec

(***************************************************************************)
(* One payment per visit, on the desktop                                   *)
(***************************************************************************)

\* Under review at most one signing runs, the one the hook observes, and only
\* while there is neither a handle nor an error.
SigningIsCurrent ==
  screen = "review" =>
    /\ \A n \in Calls : calls[n].stage \in SignStages =>
                          n = signCur /\ signedHandle = NoTx /\ ~signError
    /\ signError => signedHandle = NoTx

\* All that is being broadcast, is on the network or was accepted is x.
AllPaying(x) ==
  /\ \A n \in Calls : calls[n].stage \in BroadcastStages => calls[n].tx = x
  /\ \A t \in net \cup accepted : t = x

HandleIsPaying == screen = "review" => AllPaying(signedHandle)
OnePaying == \E x \in Tx \cup {NoTx} : AllPaying(x)

VisitInv == SigningIsCurrent /\ HandleIsPaying /\ OnePaying

LEMMA VisitInit == Init => VisitInv
BY DEF Init, VisitInv, SigningIsCurrent, HandleIsPaying, OnePaying, AllPaying,
       SignStages, BroadcastStages

\* Nothing is paying as long as all that is paying would be null.
LEMMA NothingPaying ==
  ASSUME TypeInv, AllPaying(NoTx), NEW x
  PROVE  AllPaying(x)
BY SendAssumption DEF AllPaying, TypeInv, TypeOK, SentAreSigned, Tx

\* A step that starts no broadcast and submits nothing leaves one transaction.
LEMMA PayingKept ==
  ASSUME OnePaying, UNCHANGED <<net, accepted>>,
         \A n \in Calls : calls'[n].stage \in BroadcastStages =>
              calls[n].stage \in BroadcastStages /\ calls'[n].tx = calls[n].tx
  PROVE  OnePaying' /\ \A x : AllPaying(x) => AllPaying(x)'
BY DEF OnePaying, AllPaying

LEMMA VisitSignStarts ==
  ASSUME TypeInv, OnePaying, prepareSigned(FALSE), UNCHANGED <<net, accepted>>
  PROVE  OnePaying' /\ \A x : AllPaying(x) => AllPaying(x)'
<1>1. PICK m \in Calls :
           /\ calls[m].stage = "unused"
           /\ calls'[m].stage \in SignStages
           /\ signCur' = m
           /\ \A k \in Calls \ {m} : calls'[k] = calls[k]
  BY PrepareSignedEffect
<1>2. \A st \in SignStages : st \notin BroadcastStages
  BY DEF SignStages, BroadcastStages
<1>3. \A n \in Calls : calls'[n].stage \in BroadcastStages =>
        calls[n].stage \in BroadcastStages /\ calls'[n].tx = calls[n].tx
  BY <1>1, <1>2
<1> QED BY <1>3, PayingKept

LEMMA VisitUser ==
  ASSUME platform = "desktop", TypeInv, DesktopInv, VisitInv, User
  PROVE  VisitInv'
<1> USE DEF VisitInv, SigningIsCurrent, HandleIsPaying, ui, hook, backend, history
<1>0. \A st \in BroadcastStages \cup {"unused"} : st \notin SignStages
  BY DEF BroadcastStages, SignStages
<1>1. CASE \E f \in Forms : Edit(f)
  <2>1. PICK f \in Forms : Edit(f)
    BY <1>1
  <2>2. screen' = "edit" /\ UNCHANGED <<net, accepted>>
    BY <2>1 DEF Edit
  <2>3. \A n \in Calls : calls'[n].stage = calls[n].stage /\ calls'[n].tx = calls[n].tx
    BY <2>1, EditEffect
  <2> QED BY <2>2, <2>3, PayingKept
<1>2. CASE OpenReviewMobile
  BY <1>2 DEF OpenReviewMobile
<1>3. CASE OpenReviewDesktop
  <2>1. CASE txid = NoTx
    <3>1. /\ signedHandle = NoTx /\ ~isSigning
          /\ \A n \in Calls : calls[n].stage = "unused"
          /\ AllPaying(NoTx)
      BY <1>0, <1>3, <2>1 DEF OpenReviewDesktop, DesktopInv, NothingStarted,
         isSigning, Pending, AllPaying, TypeInv, TypeOK, BroadcastStages
    <3>2. /\ prepareSigned(FALSE) /\ signError' = FALSE
          /\ UNCHANGED <<signedHandle, net, accepted>>
      BY <1>3, <3>1 DEF OpenReviewDesktop
    <3>3. PICK m \in Calls :
           /\ calls[m].stage = "unused"
           /\ calls'[m].stage \in SignStages
           /\ signCur' = m
           /\ \A k \in Calls \ {m} : calls'[k] = calls[k]
      BY <3>2, PrepareSignedEffect
    <3>4. SigningIsCurrent'
      BY <1>0, <3>1, <3>2, <3>3
    <3>5. AllPaying(signedHandle)'
      BY <3>1, <3>2, VisitSignStarts DEF AllPaying
    <3> QED BY <3>2, <3>4, <3>5, VisitSignStarts
  <2>2. CASE txid # NoTx
    <3>1. screen' = "success" /\ UNCHANGED <<net, accepted>>
      BY <1>3, <2>2 DEF OpenReviewDesktop
    <3>2. prepareSigned(FALSE) \/ UNCHANGED calls
      BY <1>3 DEF OpenReviewDesktop
    <3>3. OnePaying'
      BY <3>1, <3>2, VisitSignStarts, PayingKept
    <3> QED BY <3>1, <3>3
  <2> QED BY <2>1, <2>2
<1>4. CASE SignOnArrival
  <2>1. /\ prepareSigned(FALSE) /\ signError' = FALSE /\ signedHandle = NoTx
        /\ screen = "review" /\ ~isSigning
        /\ UNCHANGED <<signedHandle, net, accepted>>
    BY <1>4 DEF SignOnArrival
  <2>2. \A n \in Calls : calls[n].stage \notin SignStages
    BY <2>1 DEF isSigning, Pending, Calls
  <2>3. PICK m \in Calls :
           /\ calls[m].stage = "unused"
           /\ calls'[m].stage \in SignStages
           /\ signCur' = m
           /\ \A k \in Calls \ {m} : calls'[k] = calls[k]
    BY <2>1, PrepareSignedEffect
  <2>4. SigningIsCurrent'
    BY <2>1, <2>2, <2>3
  <2>5. AllPaying(signedHandle)'
    BY <2>1, VisitSignStarts DEF AllPaying
  <2> QED BY <2>1, <2>4, <2>5, VisitSignStarts
<1>5. CASE RetrySign
  <2>1. /\ prepareSigned(FALSE) /\ signError' = FALSE /\ signError
        /\ screen = "review"
        /\ UNCHANGED <<signedHandle, net, accepted>>
    BY <1>5 DEF RetrySign
  <2>2. signedHandle = NoTx /\ \A n \in Calls : calls[n].stage \notin SignStages
    BY <2>1
  <2>3. PICK m \in Calls :
           /\ calls[m].stage = "unused"
           /\ calls'[m].stage \in SignStages
           /\ signCur' = m
           /\ \A k \in Calls \ {m} : calls'[k] = calls[k]
    BY <2>1, PrepareSignedEffect
  <2>4. SigningIsCurrent'
    BY <2>1, <2>2, <2>3
  <2>5. AllPaying(signedHandle)'
    BY <2>1, VisitSignStarts DEF AllPaying
  <2> QED BY <2>1, <2>4, <2>5, VisitSignStarts
<1>6. CASE Trigger
  <2>1. UNCHANGED <<screen, signError, signedHandle, signCur, calls, net, accepted>>
    BY <1>6 DEF Trigger
  <2> QED BY <2>1, PayingKept DEF AllPaying
<1>7. CASE CancelTrigger
  <2>1. UNCHANGED <<screen, signError, signedHandle, signCur, calls, net, accepted>>
    BY <1>7 DEF CancelTrigger
  <2> QED BY <2>1, PayingKept DEF AllPaying
<1>8. CASE OnBroadcastClick
  <2>1. /\ signedHandle \in Tx /\ broadcast(signedHandle) /\ screen = "review"
        /\ UNCHANGED <<screen, signError, signedHandle, signCur, net, accepted>>
    BY <1>8 DEF OnBroadcastClick, broadcast, TypeInv, TypeOK, DesktopInv,
       ScreensFollowTxid
  <2>2. PICK m \in Calls :
           /\ calls'[m].stage \in BroadcastStages
           /\ calls'[m].tx = signedHandle
           /\ \A k \in Calls \ {m} : calls'[k] = calls[k]
    BY <2>1, BroadcastEffect
  <2>3. AllPaying(signedHandle)'
    BY <2>1, <2>2 DEF AllPaying
  <2>4. SigningIsCurrent'
    BY <1>0, <2>1, <2>2
  <2> QED BY <2>1, <2>3, <2>4 DEF OnePaying, AllPaying
<1>9. CASE ConfirmSend
  BY <1>9 DEF ConfirmSend
<1>10. CASE RetrySend
  BY <1>10 DEF RetrySend
<1>11. CASE Back
  BY <1>11 DEF Back
<1>12. CASE SendAnother
  <2>1. screen' = "edit" /\ UNCHANGED <<calls, net, accepted>>
    BY <1>12 DEF SendAnother
  <2> QED BY <2>1, PayingKept
<1>13. CASE Leave
  <2>1. screen' = "left" /\ UNCHANGED <<calls, net, accepted>>
    BY <1>13 DEF Leave
  <2> QED BY <2>1, PayingKept
<1>14. CASE ToggleGate
  <2>1. UNCHANGED <<screen, signError, signedHandle, signCur, calls, net, accepted>>
    BY <1>14 DEF ToggleGate
  <2> QED BY <2>1, PayingKept DEF AllPaying
<1> QED
  BY <1>1, <1>2, <1>3, <1>4, <1>5, <1>6, <1>7, <1>8, <1>9, <1>10, <1>11, <1>12,
     <1>13, <1>14 DEF User, UserStep

LEMMA VisitMutation ==
  ASSUME platform = "desktop", TypeInv, DesktopInv, VisitInv,
         NEW n \in Calls, Mutation(n)
  PROVE  VisitInv'
<1> USE DEF VisitInv, SigningIsCurrent, HandleIsPaying, ui, backend
<1>0. /\ \A st \in BroadcastStages \cup {"done"} : st \notin SignStages
      /\ "done" \notin BroadcastStages
      /\ {"signPaused", "signing"} \subseteq SignStages
      /\ {"broadcastPaused", "broadcasting", "sent"} \subseteq BroadcastStages
  BY DEF BroadcastStages, SignStages
<1>1. CASE Resume(n)
  <2>1. \/ Move(n, "signing") /\ calls[n].stage \in SignStages
        \/ Move(n, "broadcasting") /\ calls[n].stage \in BroadcastStages
    BY <1>0, <1>1 DEF Resume
  <2>2. UNCHANGED <<screen, signError, signedHandle, signCur, net, accepted>>
    BY <1>1 DEF Resume
  <2>3. /\ \A k \in Calls : calls'[k].stage \in BroadcastStages =>
                calls[k].stage \in BroadcastStages /\ calls'[k].tx = calls[k].tx
        /\ \A k \in Calls : calls'[k].stage \in SignStages =>
                calls[k].stage \in SignStages
    BY <1>0, <2>1, MoveEffect
  <2> QED BY <2>2, <2>3, PayingKept DEF AllPaying
<1>2. CASE SignOk(n)
  <2>1. PICK tx \in Tx :
           /\ signedHandle' = IF mounted THEN tx ELSE signedHandle
           /\ calls'[n].stage = IF calls[n].chained
                                THEN Ready("broadcastPaused", "broadcasting")
                                ELSE "done"
           /\ \A k \in Calls \ {n} : calls'[k] = calls[k]
    BY <1>2, SignOkEffect
  <2>2. /\ calls[n].stage \in SignStages
        /\ UNCHANGED <<screen, signError, signCur, net, accepted>>
    BY <1>0, <1>2 DEF SignOk
  <2>3. calls'[n].stage = "done"
    BY <2>1 DEF DesktopInv, NothingChained
  <2>4. \A k \in Calls : calls'[k].stage \in BroadcastStages =>
          calls[k].stage \in BroadcastStages /\ calls'[k].tx = calls[k].tx
    BY <1>0, <2>1, <2>3
  <2>5. OnePaying' /\ \A x : AllPaying(x) => AllPaying(x)'
    BY <2>2, <2>4, PayingKept
  <2>6. CASE screen = "review"
    <3>1. \A k \in Calls : calls'[k].stage \notin SignStages
      BY <1>0, <2>1, <2>2, <2>3, <2>6
    <3>2. AllPaying(NoTx) /\ ~signError
      BY <2>2, <2>6
    <3>3. AllPaying(signedHandle')
      BY <3>2, NothingPaying
    <3>4. AllPaying(signedHandle)'
      BY <2>2, <2>4, <3>3 DEF AllPaying
    <3> QED BY <2>2, <2>5, <3>1, <3>2, <3>4
  <2> QED BY <2>2, <2>5, <2>6
<1>3. CASE SignFail(n)
  <2>1. /\ calls[n].stage \in SignStages /\ Move(n, "done")
        /\ UNCHANGED <<screen, signedHandle, signCur, net, accepted>>
    BY <1>0, <1>3 DEF SignFail
  <2>2. /\ \A k \in Calls : calls'[k].stage \in BroadcastStages =>
                calls[k].stage \in BroadcastStages /\ calls'[k].tx = calls[k].tx
        /\ \A k \in Calls : calls'[k].stage \in SignStages =>
                k # n /\ calls[k].stage \in SignStages
    BY <1>0, <2>1, MoveEffect
  <2>3. screen = "review" => signedHandle = NoTx
                             /\ \A k \in Calls : calls'[k].stage \notin SignStages
    BY <2>1, <2>2
  <2> QED BY <2>1, <2>2, <2>3, PayingKept DEF AllPaying
<1>4. CASE Submit(n)
  <2>1. /\ calls[n].stage \in BroadcastStages /\ Move(n, "sent")
        /\ net' = net \cup {calls[n].tx}
        /\ UNCHANGED <<screen, signError, signedHandle, signCur, accepted>>
    BY <1>0, <1>4 DEF Submit
  <2>2. \A x : AllPaying(x) => AllPaying(x)'
    BY <2>1, MoveEffect DEF AllPaying
  <2>3. \A k \in Calls : calls'[k].stage \in SignStages => calls[k].stage \in SignStages
    BY <1>0, <2>1, MoveEffect
  <2>4. OnePaying'
    BY <2>2 DEF OnePaying
  <2>5. SigningIsCurrent'
    BY <2>1, <2>3
  <2>6. AllPaying(signedHandle) => AllPaying(signedHandle)'
    BY <2>1, <2>2 DEF AllPaying
  <2> QED BY <2>1, <2>4, <2>5, <2>6
<1>5. CASE BroadcastOk(n)
  <2>1. /\ Move(n, "done")
        /\ screen' \in {screen, "success"}
        /\ UNCHANGED <<signError, signedHandle, signCur, net, accepted>>
    BY <1>5 DEF BroadcastOk
  <2>2. /\ \A k \in Calls : calls'[k].stage \in BroadcastStages =>
                calls[k].stage \in BroadcastStages /\ calls'[k].tx = calls[k].tx
        /\ \A k \in Calls : calls'[k].stage \in SignStages =>
                calls[k].stage \in SignStages
    BY <1>0, <2>1, MoveEffect
  <2> QED BY <2>1, <2>2, PayingKept DEF AllPaying
<1>6. CASE BroadcastFail(n)
  <2>1. /\ Move(n, "done")
        /\ UNCHANGED <<screen, signError, signedHandle, signCur, net, accepted>>
    BY <1>6 DEF BroadcastFail
  <2>2. /\ \A k \in Calls : calls'[k].stage \in BroadcastStages =>
                calls[k].stage \in BroadcastStages /\ calls'[k].tx = calls[k].tx
        /\ \A k \in Calls : calls'[k].stage \in SignStages =>
                calls[k].stage \in SignStages
    BY <1>0, <2>1, MoveEffect
  <2> QED BY <2>1, <2>2, PayingKept DEF AllPaying
<1> QED BY <1>1, <1>2, <1>3, <1>4, <1>5, <1>6 DEF Mutation, MutationStep

LEMMA VisitStep ==
  ASSUME platform = "desktop", TypeInv, DesktopInv, VisitInv, [Next]_vars
  PROVE  VisitInv'
<1>1. CASE Backend
  <2>1. /\ UNCHANGED <<screen, signError, signedHandle, signCur, calls>>
        /\ net' \cup accepted' \subseteq net \cup accepted
    BY <1>1 DEF Backend, Accept, Lose, Index, ui, hook, backend
  <2> QED BY <2>1 DEF VisitInv, SigningIsCurrent, HandleIsPaying, OnePaying,
                      AllPaying
<1>2. CASE UNCHANGED vars
  <2>1. UNCHANGED <<screen, signError, signedHandle, signCur, calls, net, accepted>>
    BY <1>2 DEF vars, ui, hook, backend
  <2> QED BY <2>1 DEF VisitInv, SigningIsCurrent, HandleIsPaying, OnePaying,
                      AllPaying
<1> QED BY <1>1, <1>2, VisitUser, VisitMutation DEF Next

\* A visit to the desktop's send flow puts at most one transaction on the
\* network: failed broadcasts, lost answers, signings begun again and a form
\* edited after the success never make it two.
THEOREM OnePayment == Spec => []OnePaymentPerVisit
<1> DEFINE Inv == TypeInv /\ (platform = "desktop" => DesktopInv /\ VisitInv)
<1>1. Init => Inv
  BY InitTypes, DesktopInit, VisitInit
<1>2. Inv /\ [Next]_vars => Inv'
  BY TypeStep, DesktopStep, VisitStep, PlatformStays
<1>3. Inv => OnePaymentPerVisit
  BY DEF VisitInv, OnePaying, AllPaying, OnePaymentPerVisit
<1> HIDE DEF Inv
<1> QED BY <1>1, <1>2, <1>3, PTL DEF Spec
=============================================================================
