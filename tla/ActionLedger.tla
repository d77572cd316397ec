---------------------------- MODULE ActionLedger ----------------------------
(***************************************************************************)
(* What the action gate promises, with no rows, sessions or crashes in it: *)
(* which actions a human approved, how often each one reached the world,   *)
(* and which ones hold a probe's evidence (contracts/action-gate.md).      *)
(* `ActionGate` is shown to implement it.                                  *)
(***************************************************************************)
EXTENDS Integers

CONSTANTS
    Keys,          \* idempotency keys, one action each
    ApprovalKeys,  \* the keys whose adapter has requires_approval
    Requires       \* key -> the keys that must have succeeded before it

VARIABLES
    approved,      \* the keys an operator has approved
    effects,       \* key -> how many times execute() reached the world
    proved         \* the keys whose row holds evidence

ledgerVars == <<approved, effects, proved>>

Init ==
    /\ approved = {}
    /\ effects = [k \in Keys |-> 0]
    /\ proved = {}

(* An operator's decision; a double click may record it twice. *)
Approve(k) ==
    /\ approved' = approved \cup {k}
    /\ UNCHANGED <<effects, proved>>

(* execute() reaches the world. A gated action needs its approval, one that
   is not gated happens once, and both need their prerequisites proved. *)
Happen(k) ==
    /\ IF k \in ApprovalKeys THEN k \in approved ELSE effects[k] = 0
    /\ Requires[k] \subseteq proved
    /\ effects' = [effects EXCEPT ![k] = @ + 1]
    /\ UNCHANGED <<approved, proved>>

(* verify() returns evidence, which only an effect can give it. *)
Prove(k) ==
    /\ effects[k] > 0
    /\ proved' = proved \cup {k}
    /\ UNCHANGED <<approved, effects>>

Next == \E k \in Keys : Approve(k) \/ Happen(k) \/ Prove(k)

Spec == Init /\ [][Next]_ledgerVars
=============================================================================
