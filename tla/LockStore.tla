----------------------------- MODULE LockStore -----------------------------
(***************************************************************************)
(* The lock store (packages/app-state/src/lockStore.ts): its state and the *)
(* setters every screen calls. The store is one object and each setter     *)
(* runs to its end, so a setter is part of one step of its caller.         *)
(*                                                                         *)
(* lockUntil is "null", "future" or "past": how long a cooldown lasts      *)
(* (30 s, 5 min, 1 h) is left out, that it ends is not.                    *)
(***************************************************************************)
EXTENDS Naturals

VARIABLES isLocked, failedAttempts, lockUntil

lockVars == <<isLocked, failedAttempts, lockUntil>>

LockInit == isLocked = TRUE /\ failedAttempts = 0 /\ lockUntil = "null"

lock == isLocked' = TRUE /\ UNCHANGED <<failedAttempts, lockUntil>>

\* Seeded fault: a right PIN forgives one failure.
UnlockForgivesOne ==
  isLocked' = FALSE /\ failedAttempts' = failedAttempts - 1 /\ lockUntil' = "null"

unlock == isLocked' = FALSE /\ failedAttempts' = 0 /\ lockUntil' = "null"

\* The count is read from the store itself, not from a render.
recordFailedAttempt ==
  /\ failedAttempts' = failedAttempts + 1
  /\ lockUntil' = IF failedAttempts' >= 5 THEN "future" ELSE "null"
  /\ UNCHANGED isLocked

\* What a new process starts from: none of the three is persisted.
Reload == isLocked' = TRUE /\ failedAttempts' = 0 /\ lockUntil' = "null"

\* The clock passes lockUntil and the screen's ticker sees it.
CooldownEnds ==
  /\ lockUntil = "future"
  /\ lockUntil' = "past"
  /\ UNCHANGED <<isLocked, failedAttempts>>

LockTypeOK ==
  /\ isLocked \in BOOLEAN
  /\ failedAttempts \in Nat
  /\ lockUntil \in {"null", "future", "past"}
=============================================================================
