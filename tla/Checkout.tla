------------------------------ MODULE Checkout ------------------------------
(***************************************************************************)
(* Selling over the gate: POST /checkout opens a session at Stripe for a   *)
(* buyer's click, and the action that opened it waits at `verifying` until *)
(* POST /webhooks/stripe brings the event that says the buyer completed    *)
(* it.  Stripe delivers an event at least once: until it is answered it    *)
(* comes again, also while an earlier delivery is still being handled.     *)
(*                                                                         *)
(* The gate's keys are the buyers' clicks, each a key of its own, and what *)
(* a run must have armed before it sells.                                  *)
(***************************************************************************)
EXTENDS ActionGate

CONSTANTS
    Clicks,       \* a buyer's click: the key of its checkout_session action
    Buyers,       \* sessions that serve POST /checkout
    Deliveries,   \* sessions that serve POST /webhooks/stripe
    Staff,        \* sessions of the workers and the operator, who arm the run
    MaxCrashes    \* a bound of the model

ASSUME CheckoutAssumption ==
    /\ Clicks # {} /\ Clicks \subseteq Keys \cap DeferredKeys \cap ResultKeys
    /\ Sessions = Buyers \cup Deliveries \cup Staff
    /\ Buyers \cap Deliveries = {} /\ Buyers \cap Staff = {} /\ Deliveries \cap Staff = {}
    /\ MaxCrashes \in Nat

VARIABLES
    checkouts,  \* click -> the session at Stripe: open, completed unpaid or paid
    orders,     \* click -> the `orders` row written for its event
    answered,   \* the clicks whose event was answered with a 200
    webhooks,   \* delivery -> how far stripe_webhook has come, and with which event
    crashes

gateVars == <<rows, sessions, effects, approved>>
shopVars == <<checkouts, orders, answered, webhooks, crashes>>
allVars == <<gateVars, shopVars>>

Arming == Keys \ Clicks
Completed == {"unpaid", "paid"}

AnyClick == CHOOSE k \in Clicks : TRUE
NoDelivery == [pc |-> "idle", click |-> AnyClick]

CheckoutTypeOK ==
    /\ TypeOK
    /\ checkouts \in [Clicks -> {"none", "open"} \cup Completed]
    /\ orders \in [Clicks -> {"none"} \cup Completed]
    /\ answered \subseteq Clicks
    /\ webhooks \in [Deliveries -> [pc : {"idle", "received", "recorded", "resuming"},
                                    click : Clicks]]
    /\ crashes \in 0 .. MaxCrashes

CheckoutInit ==
    /\ Init
    /\ checkouts = [k \in Clicks |-> "none"]
    /\ orders = [k \in Clicks |-> "none"]
    /\ answered = {}
    /\ webhooks = [d \in Deliveries |-> NoDelivery]
    /\ crashes = 0

-----------------------------------------------------------------------------
(* The gate's side. *)

(* A slip: the order is looked up by its run, not by its session. *)
PaidByRun(k) == \E j \in Clicks : orders[j] = "paid"

(* CheckoutSessionAdapter.verify: the order of this session, and paid. *)
Paid(k) == orders[k] = "paid"

(* A step of the gate in session s.  The checkout's probe reads a table of the
   same database, so it is never early, late or in doubt. *)
GateWorks(s) ==
    /\ ~At(s, "returned")
    /\ Step(s)
    /\ Key(s) \in Clicks /\ At(s, "verify") /\ AttemptsLeft(s)
         => IF Paid(Key(s)) THEN VerifySucceeds(s) ELSE VerifyFails(s)
    /\ UNCHANGED shopVars

(* Workers and operators do with the arming what anyone may ask of the gate. *)
StaffCalls(s) ==
    /\ Call(s) /\ sessions'[s].key \in Arming
    /\ UNCHANGED shopVars

StaffReturns(s) == Finish(s) /\ UNCHANGED shopVars

-----------------------------------------------------------------------------
(* POST /checkout *)

Armed == \A p \in Arming : rows[p].state = "succeeded"

(* A click is a key nobody has used (uuid4); an unarmed run refuses it, in the
   route and again in the gate, before anything is written. *)
Click(s, k) ==
    /\ Armed
    /\ rows[k].state = "absent"
    /\ \A t \in Sessions : ~At(t, "idle") => Key(t) # k
    /\ RequestCheck(s, k)
    /\ UNCHANGED shopVars

(* The buyer gets the address of the session from a request that came back
   with it, and from no other. *)
HandOver(s) ==
    /\ checkouts' = IF sessions[s].outcome = "verifying"
                      THEN [checkouts EXCEPT ![Key(s)] = "open"] ELSE checkouts
    /\ Finish(s)
    /\ UNCHANGED <<orders, answered, webhooks, crashes>>

(* The buyer completes the session, paying at once or by a method that settles
   later.  An abandoned session stays open. *)
Complete(k) ==
    /\ checkouts[k] = "open"
    /\ \E status \in Completed : checkouts' = [checkouts EXCEPT ![k] = status]
    /\ UNCHANGED <<gateVars, orders, answered, webhooks, crashes>>

-----------------------------------------------------------------------------
(* POST /webhooks/stripe, for checkout.session.completed.  Other events, and
   those of other runs, are answered without a write. *)

Waiting(d, pc) == webhooks[d].pc = pc
Event(d) == webhooks[d].click
Goes(d, pc) == webhooks' = [webhooks EXCEPT ![d].pc = pc]

Deliver(d, k) ==
    /\ Waiting(d, "idle")
    /\ checkouts[k] \in Completed
    /\ k \notin answered
    /\ webhooks' = [webhooks EXCEPT ![d] = [pc |-> "received", click |-> k]]
    /\ UNCHANGED <<gateVars, checkouts, orders, answered, crashes>>

(* A slip: an event seen before is answered at once. *)
RecordOnce(d) ==
    /\ Waiting(d, "received")
    /\ IF orders[Event(d)] = "none"
         THEN /\ orders' = [orders EXCEPT ![Event(d)] = checkouts[Event(d)]]
              /\ Goes(d, "recorded")
              /\ UNCHANGED answered
         ELSE /\ answered' = answered \cup {Event(d)}
              /\ webhooks' = [webhooks EXCEPT ![d] = NoDelivery]
              /\ UNCHANGED orders
    /\ UNCHANGED <<gateVars, checkouts, crashes>>

(* INSERT ... ON CONFLICT (stripe_event_id) DO NOTHING, committed: one order
   for an event, with the payment status the event carries. *)
Record(d) ==
    /\ Waiting(d, "received")
    /\ orders' = [orders EXCEPT ![Event(d)] = IF @ = "none" THEN checkouts[Event(d)] ELSE @]
    /\ Goes(d, "recorded")
    /\ UNCHANGED <<gateVars, checkouts, answered, crashes>>

(* The action is found by the session's client_reference_id and re-driven,
   whether or not this delivery is the one that wrote the order. *)
ResumeAction(d) ==
    /\ Waiting(d, "recorded")
    /\ Resume(d, Event(d), TRUE, FALSE)
    /\ Goes(d, "resuming")
    /\ UNCHANGED <<checkouts, orders, answered, crashes>>

(* A slip: the event is answered before its action is re-driven. *)
AnswerAtOnce(d) ==
    /\ Waiting(d, "recorded") \/ At(d, "returned")
    /\ answered' = answered \cup {Event(d)}
    /\ IF At(d, "returned") THEN Finish(d) /\ webhooks' = [webhooks EXCEPT ![d] = NoDelivery]
                            ELSE UNCHANGED <<gateVars, webhooks>>
    /\ UNCHANGED <<checkouts, orders, crashes>>

(* The event is answered once resume() has returned. *)
Answer(d) ==
    /\ Waiting(d, "resuming") /\ At(d, "returned")
    /\ Finish(d)
    /\ webhooks' = [webhooks EXCEPT ![d] = NoDelivery]
    /\ answered' = answered \cup {Event(d)}
    /\ UNCHANGED <<checkouts, orders, crashes>>

(* A process dies in the middle of a request or a delivery. *)
Dies(s) ==
    /\ crashes < MaxCrashes
    /\ ~At(s, "idle") \/ (s \in Deliveries /\ ~Waiting(s, "idle"))
    /\ sessions' = [sessions EXCEPT ![s] = IdleCall]
    /\ webhooks' = [d \in Deliveries |-> IF d = s THEN NoDelivery ELSE webhooks[d]]
    /\ crashes' = crashes + 1
    /\ UNCHANGED <<rows, effects, approved, checkouts, orders, answered>>

-----------------------------------------------------------------------------

Handle(d) == Record(d) \/ ResumeAction(d) \/ GateWorks(d) \/ Answer(d)

CheckoutNext ==
    \/ \E s \in Staff : StaffCalls(s) \/ GateWorks(s) \/ StaffReturns(s)
    \/ \E s \in Buyers : (\E k \in Clicks : Click(s, k)) \/ GateWorks(s) \/ HandOver(s)
    \/ \E d \in Deliveries : (\E k \in Clicks : Deliver(d, k)) \/ Handle(d)
    \/ \E k \in Clicks : Complete(k)
    \/ \E s \in Sessions : Dies(s)

CheckoutSpec == CheckoutInit /\ [][CheckoutNext]_allVars

(* A delivery that has arrived is handled, and an unanswered event comes again.
   Nobody has to arm, to buy, or to pay. *)
FairCheckoutSpec ==
    /\ CheckoutSpec
    /\ \A d \in Deliveries : WF_allVars(Handle(d))
    /\ \A k \in Clicks : WF_allVars(\E d \in Deliveries : Deliver(d, k))

-----------------------------------------------------------------------------
(* Properties. *)

(* A checkout reads `succeeded` over its own buyer's payment, not over another
   buyer's, nor over a session that was opened and never paid. *)
SoldIsPaid ==
    \A k \in Clicks : rows[k].state = "succeeded" => orders[k] = "paid" /\ checkouts[k] = "paid"

(* An event is answered only when it has nothing left to do: Stripe will not
   bring it again, and nothing else re-drives its action. *)
AnsweredIsSettled == \A k \in answered : rows[k].state \in TerminalStates

(* Every recorded payment ends as a proved sale, whatever dies between the
   order's commit and the action's. *)
PaymentIsProved ==
    \A k \in Clicks : orders[k] = "paid" ~> rows[k].state = "succeeded"
=============================================================================
