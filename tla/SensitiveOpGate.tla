-------------------------- MODULE SensitiveOpGate --------------------------
(***************************************************************************)
(* The desktop's gate in front of a sensitive operation: SensitiveOpGate,  *)
(* the RePinDialog it opens first and the SensitiveOpWarning it may open   *)
(* next (apps/desktop/src/security). One screen uses it: the seed phrase   *)
(* (tier "type-to-confirm") or the broadcast button (tier "explain").      *)
(*                                                                         *)
(* The digits typed into the dialog are judged asynchronously (keychain    *)
(* read, then Argon2id), and the answer acts on the gate as it then is.    *)
(* A session is one call of trigger().                                     *)
(***************************************************************************)
EXTENDS LockStore, FiniteSets

CONSTANTS
  InFlight,      \* PIN submissions that may run at once
  MaxSessions,   \* bound on the calls of trigger
  MaxPins        \* bound on the PINs typed

ASSUME GateAssumption ==
  MaxSessions \in Nat /\ MaxPins \in Nat

VARIABLES
  tier,           \* what the operation asks for, fixed: "explain" or "type-to-confirm"
  step,           \* "idle", "rePin", "warning", or "gone" (unmounted by the lock)
  confirmed,      \* confirmedRef.current
  isOpen,         \* the network gate
  wrongAttempts,  \* RePinDialog's own counter
  calls,          \* the submissions in flight
  frames,         \* animation frames requested by onPinMatch and not yet run
  session,        \* which call of trigger this is
  waiting,        \* the caller awaits onConfirm or onCancel (SeedPhraseScreen)
  confirms,       \* history: onConfirm calls
  rights,         \* history: right PINs judged
  pins            \* PINs typed so far

gate == <<step, confirmed, wrongAttempts, frames, session, waiting>>
history == <<confirms, rights, pins>>
gateVars == <<tier, lockVars, gate, isOpen, calls, history>>

Idle == [stage |-> "idle", right |-> FALSE, isOpen |-> FALSE]

GateInit ==
  /\ tier \in {"explain", "type-to-confirm"}
  /\ isLocked = FALSE /\ failedAttempts = 0 /\ lockUntil = "null"
  /\ step = "idle" /\ confirmed = FALSE /\ isOpen \in BOOLEAN
  /\ wrongAttempts = 0 /\ frames = 0
  /\ calls = [n \in InFlight |-> Idle]
  /\ session = 0 /\ waiting = FALSE
  /\ confirms = 0 /\ rights = 0 /\ pins = 0

-----------------------------------------------------------------------------
(* What the gate's callbacks do *)

\* The consumer's onConfirm answers whoever waits.
Confirm ==
  /\ confirmed' = TRUE
  /\ step' = IF step = "gone" THEN "gone" ELSE "idle"
  /\ waiting' = FALSE
  /\ confirms' = confirms + 1

\* onOpenChange(false) of either dialog.
Close ==
  /\ step' = "idle"
  /\ IF confirmed
     THEN UNCHANGED waiting
     ELSE waiting' = FALSE
  /\ UNCHANGED <<confirmed, confirms>>

\* Seeded fault: the flag of the session before is still set.
TriggerKeepsConfirmed ==
  /\ step = "idle" /\ session < MaxSessions
  /\ step' = "rePin"
  /\ session' = session + 1
  /\ waiting' = TRUE
  /\ UNCHANGED <<lockVars, confirmed, isOpen, wrongAttempts, calls, frames,
                 confirms, rights, pins>>

trigger ==
  /\ step = "idle" /\ session < MaxSessions
  /\ confirmed' = FALSE
  /\ step' = "rePin"
  /\ session' = session + 1
  /\ waiting' = TRUE
  /\ UNCHANGED <<lockVars, isOpen, wrongAttempts, calls, frames, confirms, rights,
                 pins>>

-----------------------------------------------------------------------------
(* RePinDialog *)

\* handleComplete starts; onMatch is the one of this render, isOpen with it.
Submit(n, right) ==
  /\ step = "rePin" /\ pins < MaxPins
  /\ calls[n].stage = "idle"
  /\ calls' = [calls EXCEPT ![n] =
                 [stage |-> "reading", right |-> right, isOpen |-> isOpen]]
  /\ pins' = pins + 1
  /\ UNCHANGED <<lockVars, gate, isOpen, confirms, rights>>

\* The stored hash arrives, or the keychain refuses and the handler ends.
ReadHash(n) ==
  /\ calls[n].stage = "reading"
  /\ calls' \in { [calls EXCEPT ![n].stage = "verifying"], [calls EXCEPT ![n] = Idle] }
  /\ UNCHANGED <<lockVars, gate, isOpen, history>>

\* onPinMatch. Once the screen is gone its state no longer matters, but the
\* callback it passed in still runs.
Matched(n) ==
  /\ calls[n].stage = "verifying" /\ calls[n].right
  /\ calls' = [calls EXCEPT ![n] = Idle]
  /\ rights' = rights + 1
  /\ IF calls[n].isOpen /\ tier = "explain"
     THEN frames' = frames + 1
          /\ UNCHANGED <<step, confirmed, waiting, confirms>>
     ELSE Confirm /\ UNCHANGED frames
  /\ UNCHANGED <<lockVars, isOpen, wrongAttempts, session, pins>>

\* The shared counter and the dialog's own; the third wrong PIN closes it.
Mismatched(n) ==
  /\ calls[n].stage = "verifying" /\ ~calls[n].right
  /\ recordFailedAttempt
  /\ calls' = [calls EXCEPT ![n] = Idle]
  /\ wrongAttempts' = IF step = "gone" THEN wrongAttempts ELSE wrongAttempts + 1
  /\ IF step # "gone" /\ wrongAttempts' >= 3
     THEN Close
     ELSE UNCHANGED <<step, confirmed, waiting, confirms>>
  /\ UNCHANGED <<isOpen, frames, session, rights, pins>>

\* Escape in the dialog: handleOpenChange also resets its counter.
DismissRePin ==
  /\ step = "rePin"
  /\ Close
  /\ wrongAttempts' = 0
  /\ UNCHANGED <<lockVars, isOpen, calls, frames, session, rights, pins>>

-----------------------------------------------------------------------------
(* SensitiveOpWarning *)

\* The frame shows the warning, which dismisses itself when offline.
Frame ==
  /\ frames > 0
  /\ frames' = frames - 1
  /\ IF step # "gone" /\ ~isOpen
     THEN Close
     ELSE /\ step' = IF step = "gone" THEN "gone" ELSE "warning"
          /\ UNCHANGED <<confirmed, waiting, confirms>>
  /\ UNCHANGED <<lockVars, isOpen, wrongAttempts, calls, session, rights, pins>>

\* Seeded fault: the warning stays open after "Continue anyway".
WarningStaysOpen ==
  /\ step = "warning" /\ confirms <= rights
  /\ confirmed' = TRUE
  /\ waiting' = FALSE
  /\ confirms' = confirms + 1
  /\ UNCHANGED <<step, lockVars, isOpen, wrongAttempts, calls, frames, session,
                 rights, pins>>

onWarningConfirm ==
  /\ step = "warning"
  /\ Confirm
  /\ UNCHANGED <<lockVars, isOpen, wrongAttempts, calls, frames, session, rights, pins>>

DismissWarning ==
  /\ step = "warning"
  /\ Close
  /\ UNCHANGED <<lockVars, isOpen, wrongAttempts, calls, frames, session, rights, pins>>

-----------------------------------------------------------------------------
(* Around the gate *)

\* A gate that closes under the warning dismisses it.
ToggleNetwork ==
  /\ isOpen' = ~isOpen
  /\ IF isOpen /\ step = "warning"
     THEN Close
     ELSE UNCHANGED <<step, confirmed, waiting, confirms>>
  /\ UNCHANGED <<lockVars, wrongAttempts, calls, frames, session, rights, pins>>

\* The lock unmounts the screen and the gate with it; the wizard of a first
\* launch (the seed phrase may be shown there) stays mounted.
LockNow ==
  /\ lock
  /\ step' \in IF tier = "explain" THEN {"gone"} ELSE {step, "gone"}
  /\ UNCHANGED <<confirmed, wrongAttempts, frames, session, waiting, isOpen, calls,
                 history>>

Tick == CooldownEnds /\ UNCHANGED <<gate, isOpen, calls, history>>

Dialogs ==
  \/ trigger
  \/ \E n \in InFlight :
       \/ \E right \in BOOLEAN : Submit(n, right)
       \/ ReadHash(n)
       \/ Matched(n)
       \/ Mismatched(n)
  \/ DismissRePin
  \/ Frame
  \/ onWarningConfirm
  \/ DismissWarning

Around ==
  \/ ToggleNetwork
  \/ LockNow
  \/ Tick

GateNext == UNCHANGED tier /\ (Dialogs \/ Around)

GateSpec == GateInit /\ [][GateNext]_gateVars

-----------------------------------------------------------------------------
GateTypeOK ==
  /\ LockTypeOK
  /\ tier \in {"explain", "type-to-confirm"}
  /\ step \in {"idle", "rePin", "warning", "gone"}
  /\ confirmed \in BOOLEAN /\ isOpen \in BOOLEAN /\ waiting \in BOOLEAN
  /\ wrongAttempts \in Nat /\ frames \in Nat
  /\ calls \in [InFlight -> [stage : {"idle", "reading", "verifying"},
                             right : BOOLEAN, isOpen : BOOLEAN]]
  /\ session \in 0..MaxSessions /\ pins \in 0..MaxPins
  /\ confirms \in Nat /\ rights \in Nat

\* Whoever triggered the gate and waits (SeedPhraseScreen.tsx: "so the awaiting
\* HoldToReveal does not hang") is answered by the time the dialogs are closed,
\* late answers of earlier sessions included.
NobodyIsLeftWaiting == step = "idle" => ~waiting

\* The operation runs at most once for each right PIN that was typed, through
\* dialogs that reopen, frames that run late and warnings shown twice.
EveryConfirmHasItsPin == confirms <= rights
=============================================================================
