-------------------------- MODULE PinUnlock_proofs --------------------------
(***************************************************************************)
(* Proofs about PinUnlock, for every set of wallets and any number of PINs *)
(* in flight: that a wipe needs ten refused PINs, and that a wallet the    *)
(* registry lost left no key behind.                                       *)
(***************************************************************************)
EXTENDS PinUnlock, FiniteSetTheorems, TLAPS

CallType == [stage : Stages, right : BOOLEAN, wallets : SUBSET Wallets]

(***************************************************************************)
(* What the steps do to the calls                                          *)
(***************************************************************************)

LEMMA IdleType == Idle \in CallType
BY DEF Idle, CallType, Stages

\* A call goes to another stage and keeps the wallets it closed over.
LEMMA GotoEffect ==
  ASSUME calls \in [InFlight -> CallType], NEW n \in InFlight, NEW st \in Stages,
         Goto(n, st)
  PROVE  /\ calls' \in [InFlight -> CallType]
         /\ calls'[n].stage = st /\ calls'[n].wallets = calls[n].wallets
         /\ \A k \in InFlight \ {n} : calls'[k] = calls[k]
BY DEF Goto, CallType

\* A call ends.
LEMMA IdleEffect ==
  ASSUME calls \in [InFlight -> CallType], NEW n \in InFlight,
         calls' = [calls EXCEPT ![n] = Idle]
  PROVE  /\ calls' \in [InFlight -> CallType]
         /\ calls'[n].stage = "idle" /\ calls'[n].wallets = {}
         /\ \A k \in InFlight \ {n} : calls'[k] = calls[k]
BY IdleType DEF Idle

\* A PIN that does not match ends its call, or starts the wipe.
LEMMA FailedEffect ==
  ASSUME calls \in [InFlight -> CallType], NEW n \in InFlight, Failed(n)
  PROVE  /\ calls' \in [InFlight -> CallType]
         /\ failedAttempts' = failedAttempts + 1
         /\ calls'[n].stage \in {"idle", "deleting"}
         /\ calls'[n].stage = "deleting" => failedAttempts' >= MAX_ATTEMPTS
         /\ \A k \in InFlight \ {n} : calls'[k] = calls[k]
<1>1. failedAttempts' = failedAttempts + 1
  BY DEF Failed, recordFailedAttempt
<1>2. CASE failedAttempts' >= MAX_ATTEMPTS
  <2>1. Goto(n, "deleting") /\ "deleting" \in Stages
    BY <1>2 DEF Failed, Stages
  <2> QED BY <1>1, <1>2, <2>1, GotoEffect
<1>3. CASE ~(failedAttempts' >= MAX_ATTEMPTS)
  <2>1. calls' = [calls EXCEPT ![n] = Idle]
    BY <1>3 DEF Failed
  <2> QED BY <1>1, <2>1, IdleEffect
<1> QED BY <1>2, <1>3


\* Every handler changes one call, and leaves the calls typed.
LEMMA HandlerCalls ==
  ASSUME calls \in [InFlight -> CallType], NEW n \in InFlight, Handler(n)
  PROVE  calls' \in [InFlight -> CallType]
<1> USE DEF Stages
<1>1. CASE ReadRejected(n)
  BY <1>1, IdleEffect DEF ReadRejected
<1>2. CASE ReadHash(n)
  BY <1>2, GotoEffect DEF ReadHash
<1>3. CASE NoHash(n)
  BY <1>3, FailedEffect DEF NoHash
<1>4. CASE Matched(n)
  BY <1>4, IdleEffect DEF Matched
<1>5. CASE Mismatched(n)
  BY <1>5, FailedEffect DEF Mismatched
<1>6. CASE DeleteWalletSecrets(n)
  <2>1. Goto(n, "deletingHash")
    BY <1>6 DEF DeleteWalletSecrets
  <2> QED BY <2>1, GotoEffect
<1>7. CASE FinishWipe(n)
  <2>1. calls' = [calls EXCEPT ![n] = Idle]
    BY <1>7 DEF FinishWipe
  <2> QED BY <2>1, IdleEffect
<1> QED BY <1>1, <1>2, <1>3, <1>4, <1>5, <1>6, <1>7 DEF Handler

(***************************************************************************)
(* Types                                                                   *)
(***************************************************************************)

LEMMA InitTypes == Init => TypeOK
<1> SUFFICES ASSUME Init PROVE TypeOK
  OBVIOUS
<1>1. /\ isLocked \in BOOLEAN
      /\ pinHash \in BOOLEAN /\ hasPIN \in BOOLEAN
  BY DEF Init, LockInit
<1>2. calls \in [InFlight -> CallType]
  BY IdleType DEF Init
<1>3. wallets \subseteq Wallets /\ secrets \subseteq Wallets /\ everUsed \subseteq Wallets
  BY DEF Init
<1> QED
  BY <1>1, <1>2, <1>3, UnlockAssumption
     DEF Init, LockInit, TypeOK, LockTypeOK, CallType, MAX_ATTEMPTS

\* Counting a failure keeps the bound it is guarded by.
LEMMA FailedTypes ==
  ASSUME TypeOK, NEW n \in InFlight, Failed(n), failedAttempts < MaxFailures
  PROVE  /\ LockTypeOK' /\ failedAttempts' <= MaxFailures
         /\ message' \in {"none", "remaining", "oneLeft"}
<1>1. /\ isLocked' = isLocked /\ failedAttempts' = failedAttempts + 1
      /\ lockUntil' \in {"null", "future"}
  BY DEF Failed, recordFailedAttempt
<1>2. message' \in {"none", "remaining", "oneLeft"}
  BY DEF Failed, TypeOK
<1> QED BY <1>1, <1>2, UnlockAssumption DEF TypeOK, LockTypeOK

LEMMA HandlerTypes ==
  ASSUME TypeOK, NEW n \in InFlight, Handler(n)
  PROVE  TypeOK'
<1> USE DEF app, history, lockVars, TypeOK, LockTypeOK
<1>0. calls' \in [InFlight -> CallType]
  BY HandlerCalls DEF CallType
<1>1. CASE ReadRejected(n)
  BY <1>0, <1>1 DEF ReadRejected, CallType
<1>2. CASE ReadHash(n)
  BY <1>0, <1>2 DEF ReadHash, CallType
<1>3. CASE NoHash(n)
  <2>1. UNCHANGED <<app, everUsed, kept>> /\ refused' = refused + 1
    BY <1>3 DEF NoHash, Failed
  <2> QED BY <1>0, <1>3, <2>1, FailedTypes DEF NoHash, CallType
<1>4. CASE Matched(n)
  <2>1. isLocked' \in BOOLEAN /\ failedAttempts' = 0 /\ lockUntil' = "null"
    BY <1>4 DEF Matched, unlock
  <2>2. message' = "none" /\ refused' = 0 /\ UNCHANGED <<app, everUsed, kept>>
    BY <1>4 DEF Matched
  <2> QED BY <1>0, <2>1, <2>2, UnlockAssumption DEF CallType
<1>5. CASE Mismatched(n)
  <2>1. UNCHANGED <<app, everUsed, kept>> /\ refused' = refused + 1
    BY <1>5 DEF Mismatched, Failed
  <2> QED BY <1>0, <1>5, <2>1, FailedTypes DEF Mismatched, CallType
<1>6. CASE DeleteWalletSecrets(n)
  <2>1. /\ secrets' \subseteq Wallets /\ kept' \subseteq Wallets
        /\ UNCHANGED <<lockVars, wallets, pinHash, hasPIN, message, refused, everUsed>>
    BY <1>6 DEF DeleteWalletSecrets
  <2> QED BY <1>0, <2>1 DEF CallType
<1>7. CASE FinishWipe(n)
  <2>1. /\ pinHash' \in BOOLEAN /\ hasPIN' \in BOOLEAN /\ isLocked' \in BOOLEAN
       
    BY <1>7 DEF FinishWipe, unlock
  <2>2. /\ wallets' \subseteq Wallets /\ failedAttempts' = 0 /\ lockUntil' = "null"
        /\ message' = "none" /\ refused' = 0
        /\ UNCHANGED <<secrets, everUsed, kept>>
    BY <1>7 DEF FinishWipe, unlock
  <2> QED BY <1>0, <2>1, <2>2, UnlockAssumption DEF CallType
<1> QED BY <1>1, <1>2, <1>3, <1>4, <1>5, <1>6, <1>7 DEF Handler

LEMMA RestTypes ==
  ASSUME TypeOK,
         \/ \E n \in InFlight, right \in BOOLEAN : Submit(n, right)
         \/ LockNow \/ RePinFailure \/ CreatePin
         \/ \E w \in Wallets : CreateWallet(w)
         \/ Restart \/ Tick \/ UNCHANGED vars
  PROVE  TypeOK'
<1> USE DEF app, history, lockVars, TypeOK, LockTypeOK
<1>1. ASSUME NEW n \in InFlight, NEW right \in BOOLEAN, Submit(n, right)
      PROVE  TypeOK'
  BY <1>1 DEF Submit, Stages
<1>2. CASE LockNow
  <2>1. /\ isLocked' \in BOOLEAN /\ message' \in {"none", "remaining", "oneLeft"}
        /\ UNCHANGED <<failedAttempts, lockUntil, app, calls, history>>
    BY <1>2 DEF LockNow, lock
  <2> QED BY <2>1
<1>3. CASE RePinFailure
  <2>1. Cardinality(InFlight) \in Nat
    BY UnlockAssumption, FS_CardinalityType
  <2>2. /\ isLocked' = isLocked /\ failedAttempts' = failedAttempts + 1
        /\ lockUntil' \in {"null", "future"} /\ refused' = refused + 1
        /\ failedAttempts < MaxFailures - Cardinality(InFlight)
        /\ UNCHANGED <<app, calls, message, everUsed, kept>>
    BY <1>3 DEF RePinFailure, recordFailedAttempt
  <2> QED BY <2>1, <2>2, UnlockAssumption
<1>4. CASE CreatePin
  <2>1. /\ pinHash' \in BOOLEAN /\ hasPIN' \in BOOLEAN /\ message' = "none"
        /\ UNCHANGED <<lockVars, wallets, secrets, calls, history>>
    BY <1>4 DEF CreatePin
  <2> QED BY <2>1
<1>5. ASSUME NEW w \in Wallets, CreateWallet(w)
      PROVE  TypeOK'
  <2>1. /\ isLocked' \in BOOLEAN /\ failedAttempts' = 0 /\ lockUntil' = "null"
        /\ wallets' = wallets \cup {w} /\ secrets' = secrets \cup {w}
        /\ everUsed' = everUsed \cup {w} /\ refused' = 0 /\ message' = "none"
        /\ UNCHANGED <<pinHash, hasPIN, calls, kept>>
    BY <1>5 DEF CreateWallet, unlock
  <2> QED BY <2>1, UnlockAssumption
<1>6. CASE Restart
  <2>1. /\ isLocked' \in BOOLEAN /\ hasPIN' \in BOOLEAN
    BY <1>6 DEF Restart, Reload
  <2>2. /\ failedAttempts' = 0 /\ lockUntil' = "null"
        /\ calls' \in [InFlight -> CallType]
        /\ message' = "none" /\ refused' = 0
        /\ UNCHANGED <<wallets, secrets, pinHash, everUsed, kept>>
    BY <1>6, IdleType DEF Restart, Reload
  <2> QED BY <2>1, <2>2, UnlockAssumption DEF CallType
<1>7. CASE Tick
  BY <1>7 DEF Tick, CooldownEnds
<1>8. CASE UNCHANGED vars
  BY <1>8 DEF vars
<1> QED BY <1>1, <1>2, <1>3, <1>4, <1>5, <1>6, <1>7, <1>8

LEMMA TypeStep == TypeOK /\ [Next]_vars => TypeOK'
BY HandlerTypes, RestTypes DEF Next

\* The lock store, the wallets and the submissions keep their types.
THEOREM TypeCorrect == Spec => []TypeOK
BY InitTypes, TypeStep, PTL DEF Spec

(***************************************************************************)
(* A wipe needs ten refused PINs: the store counts exactly the PINs        *)
(* refused since the last unlock, whoever refused them.                    *)
(***************************************************************************)

CountIsRefused == failedAttempts = refused

LEMMA CountStep ==
  ASSUME TypeOK, CountIsRefused, [Next]_vars
  PROVE  CountIsRefused'
<1> USE DEF CountIsRefused, app, history, lockVars
<1>1. ASSUME NEW n \in InFlight, Handler(n)
      PROVE  CountIsRefused'
  <2>1. CASE NoHash(n) \/ Mismatched(n)
    BY <2>1 DEF NoHash, Mismatched, Failed, recordFailedAttempt
  <2>2. CASE Matched(n) \/ FinishWipe(n)
    BY <2>2 DEF Matched, FinishWipe, unlock
  <2>3. CASE ReadRejected(n) \/ ReadHash(n) \/ DeleteWalletSecrets(n)
    BY <2>3 DEF ReadRejected, ReadHash, DeleteWalletSecrets
  <2> QED BY <1>1, <2>1, <2>2, <2>3 DEF Handler
<1>2. ASSUME NEW n \in InFlight, NEW right \in BOOLEAN, Submit(n, right)
      PROVE  CountIsRefused'
  BY <1>2 DEF Submit
<1>3. CASE LockNow \/ CreatePin \/ Tick
  BY <1>3 DEF LockNow, lock, CreatePin, Tick, CooldownEnds
<1>4. CASE RePinFailure
  BY <1>4 DEF RePinFailure, recordFailedAttempt
<1>5. ASSUME NEW w \in Wallets, CreateWallet(w)
      PROVE  CountIsRefused'
  BY <1>5 DEF CreateWallet, unlock
<1>6. CASE Restart
  BY <1>6 DEF Restart, Reload
<1>7. CASE UNCHANGED vars
  BY <1>7 DEF vars
<1> QED BY <1>1, <1>2, <1>3, <1>4, <1>5, <1>6, <1>7 DEF Next

\* Only a PIN that did not match starts a wipe, and it is the tenth or a later one.
LEMMA WipeStartsAtTen ==
  ASSUME TypeOK, CountIsRefused, CountIsRefused', [Next]_vars, NEW n \in InFlight,
         calls[n].stage # "deleting", calls'[n].stage = "deleting"
  PROVE  refused' >= MAX_ATTEMPTS
<1>0. calls \in [InFlight -> CallType]
  BY DEF TypeOK, CallType
<1>1. ASSUME NEW k \in InFlight, Handler(k)
      PROVE  refused' >= MAX_ATTEMPTS
  <2>1. CASE NoHash(k) \/ Mismatched(k)
    <3>1. Failed(k)
      BY <2>1 DEF NoHash, Mismatched
    <3>2. /\ calls'[k].stage = "deleting" => failedAttempts' >= MAX_ATTEMPTS
          /\ \A j \in InFlight \ {k} : calls'[j] = calls[j]
      BY <1>0, <3>1, FailedEffect
    <3>3. n = k
      BY <3>2
    <3> QED BY <3>2, <3>3 DEF CountIsRefused
  <2>2. CASE ReadRejected(k) \/ Matched(k) \/ FinishWipe(k)
    <3>1. calls' = [calls EXCEPT ![k] = Idle]
      BY <2>2 DEF ReadRejected, Matched, FinishWipe
    <3>2. /\ calls'[k].stage = "idle"
          /\ \A j \in InFlight \ {k} : calls'[j] = calls[j]
      BY <1>0, <3>1, IdleEffect
    <3> QED BY <3>2
  <2>3. CASE ReadHash(k) \/ DeleteWalletSecrets(k)
    <3>1. \E st \in {"verifying", "deletingHash"} : Goto(k, st)
      BY <2>3 DEF ReadHash, DeleteWalletSecrets
    <3>2. PICK st \in {"verifying", "deletingHash"} : Goto(k, st)
      BY <3>1
    <3>3. /\ calls'[k].stage = st
          /\ \A j \in InFlight \ {k} : calls'[j] = calls[j]
      BY <1>0, <3>2, GotoEffect DEF Stages
    <3> QED BY <3>2, <3>3
  <2> QED BY <1>1, <2>1, <2>2, <2>3 DEF Handler
<1>2. ASSUME NEW k \in InFlight, NEW right \in BOOLEAN, Submit(k, right)
      PROVE  FALSE
  BY <1>0, <1>2 DEF Submit, CallType
<1>3. CASE calls' = calls
  BY <1>3
<1>4. CASE Restart
  BY <1>4 DEF Restart, Idle
<1>5. LockNow \/ RePinFailure \/ CreatePin \/ (\E w \in Wallets : CreateWallet(w))
        \/ Tick \/ UNCHANGED vars => calls' = calls
  BY DEF LockNow, RePinFailure, CreatePin, CreateWallet, Tick, vars
<1> QED BY <1>1, <1>2, <1>3, <1>4, <1>5 DEF Next

\* However the unlock screen's submissions, the re-PIN dialog's, locks, unlocks and
\* restarts interleave, a wipe starts only after ten PINs refused in a row.
THEOREM TenRefusals == Spec => WipeNeedsTenRefusals
<1>1. Init => CountIsRefused
  BY DEF Init, LockInit, CountIsRefused
<1>2. TypeOK /\ CountIsRefused /\ [Next]_vars => CountIsRefused'
  BY CountStep
<1>3. TypeOK /\ CountIsRefused /\ CountIsRefused' /\ [Next]_vars =>
        [\A n \in InFlight :
           calls[n].stage # "deleting" /\ calls'[n].stage = "deleting"
             => refused' >= MAX_ATTEMPTS]_vars
  BY WipeStartsAtTen
<1> QED BY <1>1, <1>2, <1>3, TypeCorrect, PTL DEF Spec, WipeNeedsTenRefusals

(***************************************************************************)
(* A forgotten wallet leaves no key. What makes it inductive: a submission *)
(* closes over wallets already handed out, so no later wallet is among     *)
(* those it will forget; and once it has deleted their keys, only refused  *)
(* deletions are left of them.                                             *)
(***************************************************************************)

HandedOut ==
  wallets \subseteq everUsed /\ \A n \in InFlight : calls[n].wallets \subseteq everUsed

DeletedFirst ==
  \A n \in InFlight :
    calls[n].stage = "deletingHash" => secrets \cap calls[n].wallets \subseteq kept

KeysInv == HandedOut /\ DeletedFirst /\ ForgottenHasNoSecrets

\* A call's step that neither starts nor ends at the deletion of the hash.
LEMMA QuietHandler ==
  ASSUME TypeOK, KeysInv, NEW n \in InFlight,
         UNCHANGED <<wallets, secrets, everUsed, kept>>,
         calls'[n].wallets \subseteq everUsed, calls'[n].stage # "deletingHash",
         \A k \in InFlight \ {n} : calls'[k] = calls[k]
  PROVE  KeysInv'
<1>1. HandedOut'
  <2> SUFFICES ASSUME NEW k \in InFlight PROVE calls'[k].wallets \subseteq everUsed
    BY DEF KeysInv, HandedOut
  <2> QED BY DEF KeysInv, HandedOut
<1>2. DeletedFirst'
  <2> SUFFICES ASSUME NEW k \in InFlight, calls'[k].stage = "deletingHash"
               PROVE  secrets \cap calls'[k].wallets \subseteq kept
    BY DEF DeletedFirst
  <2> QED BY DEF KeysInv, DeletedFirst
<1>3. ForgottenHasNoSecrets'
  BY DEF KeysInv, ForgottenHasNoSecrets
<1> QED BY <1>1, <1>2, <1>3 DEF KeysInv

LEMMA KeysHandler ==
  ASSUME TypeOK, KeysInv, NEW n \in InFlight, Handler(n)
  PROVE  KeysInv'
<1>0. calls \in [InFlight -> CallType] /\ calls[n].wallets \subseteq everUsed
  BY DEF TypeOK, CallType, KeysInv, HandedOut
<1> USE DEF app, history, lockVars
<1>1. CASE ReadRejected(n) \/ Matched(n)
  <2>1. calls' = [calls EXCEPT ![n] = Idle] /\ UNCHANGED <<wallets, secrets, everUsed, kept>>
    BY <1>1 DEF ReadRejected, Matched
  <2> QED BY <1>0, <2>1, IdleEffect, QuietHandler
<1>2. CASE ReadHash(n)
  <2>1. Goto(n, "verifying") /\ UNCHANGED <<wallets, secrets, everUsed, kept>>
    BY <1>2 DEF ReadHash
  <2> QED BY <1>0, <2>1, GotoEffect, QuietHandler DEF Stages
<1>3. CASE NoHash(n) \/ Mismatched(n)
  <2>1. Failed(n) /\ UNCHANGED <<wallets, secrets, everUsed, kept>>
    BY <1>3 DEF NoHash, Mismatched, Failed
  <2>2. CASE failedAttempts' >= MAX_ATTEMPTS
    <3>1. Goto(n, "deleting")
      BY <2>1, <2>2 DEF Failed
    <3> QED BY <1>0, <2>1, <3>1, GotoEffect, QuietHandler DEF Stages
  <2>3. CASE ~(failedAttempts' >= MAX_ATTEMPTS)
    <3>1. calls' = [calls EXCEPT ![n] = Idle]
      BY <2>1, <2>3 DEF Failed
    <3> QED BY <1>0, <2>1, <3>1, IdleEffect, QuietHandler
  <2> QED BY <2>2, <2>3
<1>4. CASE DeleteWalletSecrets(n)
  <2>1. PICK stuck \in SUBSET (secrets \cap calls[n].wallets) :
          /\ secrets' = secrets \ (calls[n].wallets \ stuck)
          /\ kept' = kept \cup stuck
    BY <1>4 DEF DeleteWalletSecrets
  <2>2. UNCHANGED <<wallets, everUsed>>
    BY <1>4 DEF DeleteWalletSecrets
  <2>3. /\ calls'[n].stage = "deletingHash" /\ calls'[n].wallets = calls[n].wallets
        /\ \A k \in InFlight \ {n} : calls'[k] = calls[k]
    <3>1. Goto(n, "deletingHash") /\ "deletingHash" \in Stages
      BY <1>4 DEF DeleteWalletSecrets, Stages
    <3> QED BY <1>0, <3>1, GotoEffect
  <2>4. HandedOut'
    <3> SUFFICES ASSUME NEW k \in InFlight PROVE calls'[k].wallets \subseteq everUsed
      BY <2>2 DEF KeysInv, HandedOut
    <3> QED BY <2>3 DEF KeysInv, HandedOut
  <2>5. DeletedFirst'
    <3> SUFFICES ASSUME NEW k \in InFlight, calls'[k].stage = "deletingHash"
                 PROVE  secrets' \cap calls'[k].wallets \subseteq kept'
      BY DEF DeletedFirst
    <3>1. CASE k = n
      BY <2>1, <2>3, <3>1
    <3>2. CASE k # n
      BY <2>1, <2>3, <3>2 DEF KeysInv, DeletedFirst
    <3> QED BY <3>1, <3>2
  <2>6. ForgottenHasNoSecrets'
    BY <2>1, <2>2 DEF KeysInv, ForgottenHasNoSecrets
  <2> QED BY <2>4, <2>5, <2>6 DEF KeysInv
<1>5. CASE FinishWipe(n)
  <2>1. /\ calls' = [calls EXCEPT ![n] = Idle] /\ wallets' = wallets \ calls[n].wallets
        /\ calls[n].stage = "deletingHash" /\ UNCHANGED <<secrets, everUsed, kept>>
    BY <1>5 DEF FinishWipe
  <2>2. /\ calls'[n].stage = "idle" /\ calls'[n].wallets = {}
        /\ \A k \in InFlight \ {n} : calls'[k] = calls[k]
    BY <1>0, <2>1, IdleEffect
  <2>3. HandedOut'
    <3> SUFFICES ASSUME NEW k \in InFlight PROVE calls'[k].wallets \subseteq everUsed
      BY <2>1 DEF KeysInv, HandedOut
    <3> QED BY <2>2 DEF KeysInv, HandedOut
  <2>4. DeletedFirst'
    <3> SUFFICES ASSUME NEW k \in InFlight, calls'[k].stage = "deletingHash"
                 PROVE  secrets \cap calls'[k].wallets \subseteq kept
      BY <2>1 DEF DeletedFirst
    <3> QED BY <2>2 DEF KeysInv, DeletedFirst
  <2>5. ForgottenHasNoSecrets'
    BY <2>1 DEF KeysInv, DeletedFirst, ForgottenHasNoSecrets
  <2> QED BY <2>3, <2>4, <2>5 DEF KeysInv
<1> QED BY <1>1, <1>2, <1>3, <1>4, <1>5 DEF Handler

LEMMA KeysStep ==
  ASSUME TypeOK, KeysInv, [Next]_vars
  PROVE  KeysInv'
<1>0. calls \in [InFlight -> CallType]
  BY DEF TypeOK, CallType
<1> USE DEF app, history, lockVars
<1>1. ASSUME NEW n \in InFlight, NEW right \in BOOLEAN, Submit(n, right)
      PROVE  KeysInv'
  <2>1. /\ calls'[n].wallets = wallets /\ calls'[n].stage = "reading"
        /\ \A k \in InFlight \ {n} : calls'[k] = calls[k]
    BY <1>0, <1>1 DEF Submit
  <2>2. UNCHANGED <<wallets, secrets, everUsed, kept>> /\ wallets \subseteq everUsed
    BY <1>1 DEF Submit, KeysInv, HandedOut
  <2> QED BY <2>1, <2>2, QuietHandler
<1>2. CASE UNCHANGED <<wallets, secrets, everUsed, kept, calls>>
  BY <1>2 DEF KeysInv, HandedOut, DeletedFirst, ForgottenHasNoSecrets
<1>3. LockNow \/ RePinFailure \/ CreatePin \/ Tick \/ UNCHANGED vars
        => UNCHANGED <<wallets, secrets, everUsed, kept, calls>>
  BY DEF LockNow, RePinFailure, CreatePin, Tick, vars
<1>4. ASSUME NEW w \in Wallets, CreateWallet(w)
      PROVE  KeysInv'
  <2>1. /\ wallets' = wallets \cup {w} /\ secrets' = secrets \cup {w}
        /\ everUsed' = everUsed \cup {w} /\ w \notin everUsed /\ UNCHANGED <<calls, kept>>
    BY <1>4 DEF CreateWallet
  <2>2. HandedOut'
    BY <2>1 DEF KeysInv, HandedOut
  <2>3. DeletedFirst'
    BY <2>1 DEF KeysInv, HandedOut, DeletedFirst
  <2>4. ForgottenHasNoSecrets'
    BY <2>1 DEF KeysInv, ForgottenHasNoSecrets
  <2> QED BY <2>2, <2>3, <2>4 DEF KeysInv
<1>5. CASE Restart
  <2>1. /\ \A n \in InFlight : calls'[n].stage = "idle" /\ calls'[n].wallets = {}
        /\ UNCHANGED <<wallets, secrets, everUsed, kept>>
    BY <1>5 DEF Restart, Idle
  <2> QED BY <2>1 DEF KeysInv, HandedOut, DeletedFirst, ForgottenHasNoSecrets
<1> QED BY <1>1, <1>2, <1>3, <1>4, <1>5, KeysHandler DEF Next

\* A wallet the registry lost has no key left behind that the keychain did not refuse
\* to delete, two wipes at once and a wipe cut off by a restart included.
THEOREM NothingForgotten == Spec => []ForgottenHasNoSecrets
<1>1. Init => KeysInv
  BY DEF Init, Idle, KeysInv, HandedOut, DeletedFirst, ForgottenHasNoSecrets
<1>2. TypeOK /\ KeysInv /\ [Next]_vars => KeysInv'
  BY KeysStep
<1>3. KeysInv => ForgottenHasNoSecrets
  BY DEF KeysInv
<1> QED BY <1>1, <1>2, <1>3, TypeCorrect, PTL DEF Spec
=============================================================================
