----------------------------- MODULE PinUnlock -----------------------------
(***************************************************************************)
(* The desktop unlock screen (screens/PIN/PINUnlockScreen.tsx), the wipe   *)
(* it starts on the tenth wrong PIN (services/src/wallet/factoryReset.ts), *)
(* and what else moves the lock: the idle timer, the menu, the close       *)
(* button, PIN set-up, the wizard's last step, a restart of the process.   *)
(*                                                                         *)
(* A submission of six digits is an asynchronous call: it reads the stored *)
(* hash, computes Argon2id, and then acts. The digits can be edited while  *)
(* it runs, so several are in flight at once. PINs are right or wrong.     *)
(***************************************************************************)
EXTENDS LockStore, FiniteSets

CONSTANTS
  Wallets,      \* wallet ids the wizard may hand out
  InFlight,     \* PIN submissions that may run at once
  MaxFailures   \* bound on failedAttempts

MAX_ATTEMPTS == 10

ASSUME UnlockAssumption ==
  IsFiniteSet(InFlight) /\ MaxFailures \in Nat /\ MaxFailures >= MAX_ATTEMPTS

VARIABLES
  wallets,      \* the wallet registry, in memory and on disk
  secrets,      \* wallets with keys in the OS keychain
  pinHash,      \* the keychain holds a PIN hash
  hasPIN,       \* the PIN store's flag
  calls,        \* the submissions: what each has done and closes over
  message,      \* the line under the grid: "none", "remaining", "oneLeft"
  refused,       \* history: PINs refused since the last unlock
  everUsed,     \* history: wallet ids already handed out
  kept          \* history: wallets whose deletion the keychain refused

app == <<wallets, secrets, pinHash, hasPIN>>
history == <<refused, everUsed, kept>>
vars == <<lockVars, app, calls, message, history>>

Idle == [stage |-> "idle", right |-> FALSE, wallets |-> {}]

\* App.tsx: which of the three trees is mounted.
FirstLaunch == wallets = {} \/ ~hasPIN
Locked == ~FirstLaunch /\ isLocked
Main == ~FirstLaunch /\ ~isLocked

Init ==
  /\ LockInit
  /\ \/ wallets = {} /\ secrets = {} /\ pinHash = FALSE
     \/ wallets \in SUBSET Wallets \ {{}} /\ secrets = wallets /\ pinHash = TRUE
  /\ hasPIN = pinHash
  /\ calls = [n \in InFlight |-> Idle]
  /\ message = "none"
  /\ refused = 0 /\ everUsed = wallets /\ kept = {}

Goto(n, stage) == calls' = [calls EXCEPT ![n].stage = stage]

-----------------------------------------------------------------------------
(* handleComplete *)

Submit(n, right) ==
  /\ Locked /\ lockUntil # "future"
  /\ calls[n].stage = "idle"
  /\ calls' = [calls EXCEPT ![n] =
                 [stage |-> "reading", right |-> right, wallets |-> wallets]]
  /\ UNCHANGED <<lockVars, app, message, history>>

\* The keychain refuses: the handler rejects and counts nothing.
ReadRejected(n) ==
  /\ calls[n].stage = "reading"
  /\ calls' = [calls EXCEPT ![n] = Idle]
  /\ UNCHANGED <<lockVars, app, message, history>>

ReadHash(n) ==
  /\ calls[n].stage = "reading" /\ pinHash
  /\ Goto(n, "verifying")
  /\ UNCHANGED <<lockVars, app, message, history>>

Matched(n) ==
  /\ calls[n].stage = "verifying" /\ calls[n].right
  /\ unlock
  /\ calls' = [calls EXCEPT ![n] = Idle]
  /\ message' = "none"
  /\ refused' = 0
  /\ UNCHANGED <<app, everUsed, kept>>

\* Seeded fault: the final attempt is one early.
FailedEarly(n) ==
  /\ recordFailedAttempt
  /\ IF failedAttempts' >= MAX_ATTEMPTS - 1
     THEN /\ Goto(n, "deleting")
          /\ UNCHANGED message
     ELSE /\ calls' = [calls EXCEPT ![n] = Idle]
          /\ message' = IF Locked THEN "remaining" ELSE "none"
  /\ UNCHANGED <<app, everUsed, kept>>

\* What follows a PIN that did not match, up to the call of handleWipeAndReset.
Failed(n) ==
  /\ recordFailedAttempt
  /\ IF failedAttempts' >= MAX_ATTEMPTS
     THEN /\ Goto(n, "deleting")
          /\ UNCHANGED message
     ELSE /\ calls' = [calls EXCEPT ![n] = Idle]
          /\ message' = CASE ~Locked -> "none"
                          [] Locked /\ failedAttempts' = MAX_ATTEMPTS - 1 -> "oneLeft"
                          [] OTHER -> "remaining"
  /\ UNCHANGED <<app, everUsed, kept>>

\* No stored hash counts as a mismatch, whatever was typed.
NoHash(n) ==
  /\ calls[n].stage = "reading" /\ ~pinHash
  /\ failedAttempts < MaxFailures
  /\ Failed(n)
  /\ refused' = refused + 1

Mismatched(n) ==
  /\ calls[n].stage = "verifying" /\ ~calls[n].right
  /\ failedAttempts < MaxFailures
  /\ Failed(n)
  /\ refused' = refused + 1

-----------------------------------------------------------------------------
(* handleWipeAndReset: deleteAllSecrets, then the stores in one go *)

\* Seeded fault: the secrets of the active wallet only are deleted.
DeleteFirstOnly(n) ==
  /\ calls[n].stage = "deleting"
  /\ \E w \in calls[n].wallets : secrets' = secrets \ {w}
  /\ Goto(n, "deletingHash")
  /\ UNCHANGED <<lockVars, wallets, pinHash, hasPIN, message, history>>

\* Every wallet the screen knew of; a refused deletion is swallowed.
DeleteWalletSecrets(n) ==
  /\ calls[n].stage = "deleting"
  /\ \E stuck \in SUBSET (secrets \cap calls[n].wallets) :
       /\ secrets' = secrets \ (calls[n].wallets \ stuck)
       /\ kept' = kept \cup stuck
  /\ Goto(n, "deletingHash")
  /\ UNCHANGED <<lockVars, wallets, pinHash, hasPIN, message, refused, everUsed>>

\* The hash goes, or the keychain refuses; resetAttempts and unlock follow.
FinishWipe(n) ==
  /\ calls[n].stage = "deletingHash"
  /\ pinHash' \in {FALSE, pinHash}
  /\ wallets' = wallets \ calls[n].wallets
  /\ hasPIN' = FALSE
  /\ unlock
  /\ calls' = [calls EXCEPT ![n] = Idle]
  /\ message' = "none"
  /\ refused' = 0
  /\ UNCHANGED <<secrets, everUsed, kept>>

-----------------------------------------------------------------------------
(* The rest of the application *)

\* Idle timer, menu item or close button. The screen is new each time it mounts.
LockNow ==
  /\ lock
  /\ message' = IF Locked THEN message ELSE "none"
  /\ UNCHANGED <<app, calls, history>>

\* RePinDialog counts its own wrong PINs in the same store.
RePinFailure ==
  /\ ~Locked /\ hasPIN
  /\ failedAttempts < MaxFailures - Cardinality(InFlight)
  /\ recordFailedAttempt
  /\ refused' = refused + 1
  /\ UNCHANGED <<app, calls, message, everUsed, kept>>

\* PINConfirmScreen stores the hash and sets the flag.
CreatePin ==
  /\ FirstLaunch
  /\ pinHash' = TRUE /\ hasPIN' = TRUE
  /\ message' = "none"
  /\ UNCHANGED <<lockVars, wallets, secrets, calls, history>>

\* The wizard's last step (useSetupSuccessFlow) unlocks too.
CreateWallet(w) ==
  /\ hasPIN /\ ~Locked /\ w \notin everUsed
  /\ wallets' = wallets \cup {w} /\ secrets' = secrets \cup {w}
  /\ unlock
  /\ everUsed' = everUsed \cup {w}
  /\ refused' = 0
  /\ message' = "none"
  /\ UNCHANGED <<pinHash, hasPIN, calls, kept>>

\* The process ends anywhere, a wipe included. A hash that cannot be read at
\* boot leaves hasPIN false (bootstrapSecurity.ts).
Restart ==
  /\ Reload
  /\ hasPIN' \in {pinHash, FALSE}
  /\ calls' = [n \in InFlight |-> Idle]
  /\ message' = "none"
  /\ refused' = 0
  /\ UNCHANGED <<wallets, secrets, pinHash, everUsed, kept>>

Tick == CooldownEnds /\ UNCHANGED <<app, calls, message, history>>

Handler(n) ==
  \/ ReadRejected(n)
  \/ ReadHash(n)
  \/ NoHash(n)
  \/ Matched(n)
  \/ Mismatched(n)
  \/ DeleteWalletSecrets(n)
  \/ FinishWipe(n)

Next ==
  \/ \E n \in InFlight : Handler(n) \/ \E right \in BOOLEAN : Submit(n, right)
  \/ LockNow
  \/ RePinFailure
  \/ CreatePin
  \/ \E w \in Wallets : CreateWallet(w)
  \/ Restart
  \/ Tick

Spec == Init /\ [][Next]_vars

-----------------------------------------------------------------------------
Stages == {"idle", "reading", "verifying", "deleting", "deletingHash"}
Wiping(n) == calls[n].stage \in {"deleting", "deletingHash"}

TypeOK ==
  /\ LockTypeOK
  /\ failedAttempts <= MaxFailures
  /\ wallets \subseteq Wallets /\ secrets \subseteq Wallets
  /\ pinHash \in BOOLEAN /\ hasPIN \in BOOLEAN
  /\ calls \in [InFlight -> [stage : Stages, right : BOOLEAN,
                             wallets : SUBSET Wallets]]
  /\ message \in {"none", "remaining", "oneLeft"}
  /\ refused \in Nat
  /\ everUsed \subseteq Wallets /\ kept \subseteq Wallets

\* However submissions, re-PIN dialogs, unlocks and other wipes interleave, a wipe
\* starts only after ten refused PINs with no unlock between them.
WipeNeedsTenRefusals ==
  [][\A n \in InFlight :
       calls[n].stage # "deleting" /\ calls'[n].stage = "deleting"
         => refused' >= MAX_ATTEMPTS]_vars

\* A wallet the registry lost has no key left behind, unless the keychain
\* itself refused the deletion (factoryReset.ts, two wipes at once included).
ForgottenHasNoSecrets == secrets \subseteq wallets \cup kept
=============================================================================
