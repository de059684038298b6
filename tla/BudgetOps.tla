----------------------------- MODULE BudgetOps -----------------------------
(***************************************************************************)
(* The arithmetic of one core_buffer_budget_t (include/buffer_budget.h).   *)
(* A budget has a guaranteed minimum, the bytes allocated on it, and the   *)
(* bytes charged for it to the limit that all budgets of its direction     *)
(* share.  Every operation of buffer_budget.c computes a new budget and    *)
(* then asks whether the growth of its charge still fits under the limit.  *)
(***************************************************************************)
EXTENDS BoundedSums

CONSTANTS Directions,   \* CORE_BUFFER_UPLOAD, _DOWNLOAD, _RELAY
          Limit         \* CORE_BUFFER_TOTAL_LIMIT, per direction

ASSUME LimitAssumption == Limit \in Nat

Budget == [minimum : 0..Limit, allocated : 0..Limit, charged : 0..Limit,
           direction : Directions]

Larger(m, n) == IF m > n THEN m ELSE n

\* What a budget is charged: its use, and never less than its minimum.
Due(minimum, allocated) == Larger(minimum, allocated)

(* claim: the charge grows when the use outgrows it. *)
Claimed(bgt, size) ==
  [minimum |-> bgt.minimum,
   allocated |-> bgt.allocated + size,
   charged |-> Larger(bgt.charged, bgt.allocated + size),
   direction |-> bgt.direction]

(* release: the charge falls back to the larger of use and minimum. *)
Released(bgt, size) ==
  [minimum |-> bgt.minimum,
   allocated |-> bgt.allocated - size,
   charged |-> Larger(bgt.allocated - size, bgt.minimum),
   direction |-> bgt.direction]

(* core_buffer_budget_init: a new minimum, never below what is in use. *)
Reserved(bgt, d, minimum) ==
  [minimum |-> minimum,
   allocated |-> bgt.allocated,
   charged |-> Larger(minimum, bgt.allocated),
   direction |-> d]

(* The receiving side of core_buffer_transfer. *)
Received(bgt, size) ==
  [minimum |-> bgt.minimum,
   allocated |-> bgt.allocated + size,
   charged |-> Larger(bgt.allocated + size, bgt.minimum),
   direction |-> bgt.direction]

\* `increase > CORE_BUFFER_TOTAL_LIMIT-charged[direction]` is ENOBUFS.
Fits(growth, total) == growth <= Limit - total
=============================================================================
