----------------------------- MODULE Catalogue ------------------------------
(***************************************************************************)
(* The money stage and what a buyer is charged.  Each row of the run's     *)
(* catalogue becomes a product and a price at the payment processor,       *)
(* through automatic actions under derived keys; one approval arms them    *)
(* all, proved by reading every price back; and a click resolves a slug to *)
(* a price.  Calls to the processor fail before or after their effect, a   *)
(* worker dies between two of them, the operator re-runs the stage, and    *)
(* somebody archives things in the processor's own console.                *)
(*                                                                         *)
(* A price is fixed once made; only whether it is active changes.          *)
(***************************************************************************)
EXTENDS Integers, Sequences, FiniteSets

CONSTANTS
    Catalogues,                 \* the catalogues considered
    MaxTrouble, MaxArchives     \* bounds of the model

(* Each row has a name and the slug of it, a charge, and how often it is made. *)
RowFields == {"name", "slug", "amount", "currency", "interval"}

ASSUME CatalogueAssumption ==
    /\ \A c \in Catalogues : /\ c \in Seq({c[r] : r \in DOMAIN c}) /\ Len(c) > 0
                            /\ \A r \in DOMAIN c : DOMAIN c[r] = RowFields
    /\ MaxTrouble \in Nat /\ MaxArchives \in Nat

VARIABLES
    catalogue,  \* runs.resolved_catalogue
    products,   \* the processor's products: the slugs that have one, and the active ones
    prices,     \* the processor's prices, by id
    actions,    \* idempotency key -> the row of a product's or a price's action
    money,      \* the money task, and what its handler holds
    arm,        \* the row of arm_charge_path
    sold,       \* which row a buyer clicked, and the price it was charged at
    trouble, archives   \* the re-runs and the deaths, and the archivings, so far

vars == <<catalogue, products, prices, actions, money, arm, sold, trouble, archives>>

Rows == DOMAIN catalogue
Kinds == {"product", "price"}
Billing(row) == IF row.interval = "once" THEN "one_time" ELSE "subscription"

(* stripe_product_key and stripe_price_key *)
Key(kind, row) == <<kind, row.name, row.amount, Billing(row)>>

(* price_lookup_key *)
LookupKey(row) == <<row.slug, row.amount, row.currency>>

NoAction == [state |-> "absent", row |-> 0, price |-> 0]
NoArm == [state |-> "absent", priced |-> <<>>, reading |-> 0]

Rest(state) == [state |-> state, pc |-> "idle", kind |-> "product", row |-> 1, priced |-> <<>>]

Init ==
    /\ catalogue \in Catalogues
    /\ products = [known |-> {}, active |-> {}]
    /\ prices = <<>>
    /\ actions = [k \in {Key(kind, catalogue[r]) : kind \in Kinds, r \in Rows} |-> NoAction]
    /\ money = Rest("pending")
    /\ arm = NoArm
    /\ sold = {}
    /\ trouble = 0 /\ archives = 0

processor == <<products, prices, archives>>

-----------------------------------------------------------------------------
(* The processor. *)

Holding(lookup) == {p \in DOMAIN prices : prices[p].lookup = lookup}
Active(p) == prices[p].active

(* A lookup key is unique among active prices: another with it is refused, and
   execute() takes the one that is there.  A product's id is its slug's. *)
Create(kind, row) ==
    IF kind = "product"
      THEN /\ products' = IF row.slug \in products.known THEN products
                          ELSE [known |-> products.known \cup {row.slug},
                                active |-> products.active \cup {row.slug}]
           /\ UNCHANGED <<prices, archives>>
      ELSE /\ prices' = IF \E p \in Holding(LookupKey(row)) : Active(p) THEN prices
                        ELSE Append(prices, [lookup |-> LookupKey(row), amount |-> row.amount,
                                             currency |-> row.currency,
                                             interval |-> row.interval, active |-> TRUE])
           /\ UNCHANGED <<products, archives>>

Archive ==
    /\ archives < MaxArchives /\ archives' = archives + 1
    /\ \/ /\ \E p \in DOMAIN prices : prices' = [prices EXCEPT ![p].active = FALSE]
          /\ UNCHANGED products
       \/ /\ \E s \in products.active : products' = [products EXCEPT !.active = @ \ {s}]
          /\ UNCHANGED prices
    /\ UNCHANGED <<catalogue, actions, money, arm, sold, trouble>>

(* find_price: an active one before any other *)
Found(lookup) ==
    LET active == {p \in Holding(lookup) : Active(p)}
    IN  IF active # {} THEN active ELSE Holding(lookup)

(* A slip: the currency is the processor's affair. *)
MatchesAmount(price, row) == price.active /\ price.amount = row.amount

(* assert_matches *)
Matches(price, row) ==
    /\ price.active
    /\ price.amount = row.amount
    /\ price.currency = row.currency

(* A slip: what execute() returned is believed. *)
BelievedEvidence(kind, row) ==
    IF kind = "product" THEN {0} ELSE {0} \cup Found(LookupKey(row))

(* verify(): what it may take for evidence; nothing when it must fail *)
Evidence(kind, row) ==
    IF kind = "product" THEN {0 : s \in {row.slug} \cap products.active}
      ELSE {p \in Found(LookupKey(row)) : Matches(prices[p], row)}

-----------------------------------------------------------------------------
(* wire_catalogue *)

InFlight == {k \in DOMAIN actions : actions[k].state \in {"executing", "verifying"}}
At(pc) == money.pc = pc
Row == catalogue[money.row]
CurrentKey == Key(money.kind, Row)

Begin ==
    /\ money.state = "pending"
    /\ InFlight = {}    \* the orphan pass goes before the sweep
    /\ money' = [Rest("running") EXCEPT !.pc = "describe"]
    /\ UNCHANGED <<catalogue, processor, actions, arm, sold, trouble>>

(* describe_catalogue: a model writes a line for every slug, or the stage fails. *)
Describe ==
    /\ At("describe")
    /\ money' \in {[money EXCEPT !.pc = "ask"], Rest("failed")}
    /\ UNCHANGED <<catalogue, processor, actions, arm, sold, trouble>>

(* From a row's product to its price, and from there to the next row. *)
Onward(evidence) ==
    IF money.kind = "product" THEN [money EXCEPT !.pc = "ask", !.kind = "price"]
    ELSE [money EXCEPT !.priced = Append(@, evidence), !.kind = "product",
                       !.pc = IF money.row = Len(catalogue) THEN "arm" ELSE "ask",
                       !.row = IF money.row = Len(catalogue) THEN 1 ELSE @ + 1]

(* gate.request: a new action is executed, a proved one answers with its
   evidence, and one that failed or is in flight raises. *)
Ask ==
    /\ At("ask")
    /\ LET action == actions[CurrentKey] IN
       \/ /\ action.state = "absent"
          /\ actions' = [actions EXCEPT ![CurrentKey] =
                           [NoAction EXCEPT !.state = "executing", !.row = money.row]]
          /\ money' = [money EXCEPT !.pc = "call"]
       \/ action.state = "succeeded" /\ money' = Onward(action.price) /\ UNCHANGED actions
       \/ action.state \notin {"absent", "succeeded"} /\ money' = Rest("failed")
                                                    /\ UNCHANGED actions
    /\ UNCHANGED <<catalogue, processor, arm, sold, trouble>>

Becomes(k, state) == actions' = [actions EXCEPT ![k].state = state]

Execute ==
    /\ At("call")
    /\ Create(money.kind, Row)
    /\ Becomes(CurrentKey, "verifying")
    /\ money' = [money EXCEPT !.pc = "prove"]
    /\ UNCHANGED <<catalogue, arm, sold, trouble>>

(* The call raises: it was refused, or its answer was lost. *)
ExecuteRaises ==
    /\ At("call")
    /\ Create(money.kind, Row) \/ UNCHANGED processor
    /\ Becomes(CurrentKey, "failed")
    /\ money' = Rest("failed")
    /\ UNCHANGED <<catalogue, arm, sold, trouble>>

Proved(k, evidence) ==
    actions' = [actions EXCEPT ![k].state = "succeeded", ![k].price = evidence]

Prove ==
    /\ At("prove")
    /\ \/ \E evidence \in Evidence(money.kind, Row) :
            Proved(CurrentKey, evidence) /\ money' = Onward(evidence)
       \/ Becomes(CurrentKey, "failed") /\ money' = Rest("failed")
    /\ UNCHANGED <<catalogue, processor, arm, sold, trouble>>

(* The worker dies, before a call, in it or after it; the task is re-queued. *)
Dies ==
    /\ trouble < MaxTrouble /\ trouble' = trouble + 1
    /\ money.state = "running"
    /\ \/ At("call") /\ Create(money.kind, Row)
       \/ UNCHANGED processor
    /\ money' = Rest("pending")
    /\ UNCHANGED <<catalogue, actions, arm, sold>>

(* The orphan pass: an action in flight that nobody drives is verified. *)
Recover(k) ==
    /\ At("idle") /\ k \in InFlight
    /\ \/ \E evidence \in Evidence(k[1], catalogue[actions[k].row]) : Proved(k, evidence)
       \/ Becomes(k, "failed")
    /\ UNCHANGED <<catalogue, processor, money, arm, sold, trouble>>

(* POST /tasks/{task_id}/retry *)
Rerun ==
    /\ trouble < MaxTrouble /\ trouble' = trouble + 1
    /\ money.state \in {"done", "failed"}
    /\ money' = Rest("pending")
    /\ UNCHANGED <<catalogue, processor, actions, arm, sold>>

-----------------------------------------------------------------------------
(* arm_charge_path *)

RequestArm ==
    /\ At("arm")
    /\ arm' = IF arm.state = "absent"
                THEN [NoArm EXCEPT !.state = "awaiting_approval", !.priced = money.priced]
                ELSE arm
    /\ money' = Rest(IF arm'.state = "awaiting_approval" THEN "awaiting_approval"
                     ELSE IF arm'.state = "succeeded" THEN "done" ELSE "failed")
    /\ UNCHANGED <<catalogue, processor, actions, sold, trouble>>

Decide ==
    /\ arm.state = "awaiting_approval"
    /\ \/ /\ arm' = [arm EXCEPT !.state = "verifying", !.reading = 1]
          /\ UNCHANGED money
       \/ /\ arm' = [arm EXCEPT !.state = "failed"]
          /\ money' = Rest("failed")
    /\ UNCHANGED <<catalogue, processor, actions, sold, trouble>>

(* verify() of the arming reads one price after the other; it may be tried
   again, and it may give up. *)
ReadPrice ==
    /\ arm.state = "verifying"
    /\ IF Matches(prices[arm.priced[arm.reading]], catalogue[arm.reading])
         THEN IF arm.reading = Len(catalogue)
                THEN arm' = [arm EXCEPT !.state = "succeeded"] /\ money' = Rest("done")
                ELSE arm' = [arm EXCEPT !.reading = @ + 1] /\ UNCHANGED money
         ELSE \/ arm' = [arm EXCEPT !.reading = 1] /\ UNCHANGED money
              \/ arm' = [arm EXCEPT !.state = "failed"] /\ money' = Rest("failed")
    /\ UNCHANGED <<catalogue, processor, actions, sold, trouble>>

-----------------------------------------------------------------------------
(* POST /checkout *)

FirstWith(slug) == CHOOSE r \in Rows :
    catalogue[r].slug = slug /\ \A q \in Rows : catalogue[q].slug = slug => r <= q

(* A slip: any price of the run. *)
PriceOfRun(slug) ==
    {actions[k].price : k \in {k \in DOMAIN actions :
        k[1] = "price" /\ actions[k].state = "succeeded"}}

(* price_for: one of the run's price actions that carry the slug *)
PriceFor(slug) ==
    {actions[k].price : k \in {k \in DOMAIN actions :
        /\ k[1] = "price" /\ actions[k].state = "succeeded"
        /\ catalogue[actions[k].row].slug = slug}}

(* The page's button carries a slug.  The processor sells at an active price,
   in the mode that price is for. *)
Click(r) ==
    LET slug == catalogue[r].slug IN
    /\ arm.state = "succeeded"
    /\ \E p \in PriceFor(slug) :
         /\ Active(p)
         /\ Billing(prices[p]) = Billing(catalogue[FirstWith(slug)])
         /\ sold' = sold \cup {[row |-> r, price |-> p]}
    /\ UNCHANGED <<catalogue, processor, actions, money, arm, trouble>>

Next ==
    \/ Begin \/ Describe \/ Ask \/ Execute \/ ExecuteRaises \/ Prove \/ Dies
    \/ (\E k \in DOMAIN actions : Recover(k)) \/ Rerun
    \/ RequestArm \/ Decide \/ ReadPrice \/ (\E r \in Rows : Click(r))
    \/ Archive

Spec == Init /\ [][Next]_vars

-----------------------------------------------------------------------------
(* Properties. *)

TypeOK ==
    /\ catalogue \in Catalogues
    /\ products.active \subseteq products.known
    /\ \A p \in DOMAIN prices : prices[p].lookup \in {LookupKey(catalogue[r]) : r \in Rows}
    /\ \A k \in DOMAIN actions :
         /\ actions[k].state \in {"absent", "executing", "verifying", "succeeded", "failed"}
         /\ actions[k].row \in Rows \cup {0} /\ actions[k].price \in DOMAIN prices \cup {0}
    /\ money.state \in {"pending", "running", "awaiting_approval", "done", "failed"}
    /\ money.pc \in {"idle", "describe", "ask", "call", "prove", "arm"}
    /\ money.row \in Rows /\ money.kind \in Kinds /\ Len(money.priced) <= Len(catalogue)
    /\ arm.state \in {"absent", "awaiting_approval", "verifying", "succeeded", "failed"}
    /\ sold \subseteq [row : Rows, price : DOMAIN prices]

(* An action that reads succeeded made, or found, what it says: after a lost
   answer or a death anywhere, no product and no price is taken to exist that
   does not, and evidence of a price is evidence of one for that row's charge. *)
ProvedExists ==
    \A k \in DOMAIN actions : actions[k].state = "succeeded" =>
        LET row == catalogue[actions[k].row] IN
        /\ k[1] = "product" => row.slug \in products.known
        /\ k[1] = "price" => actions[k].price \in Holding(LookupKey(row))

Inv == TypeOK /\ ProvedExists

(* An armed run was approved with a price for every row of its catalogue, each in
   that row's amount and currency, also when two rows came to share an action. *)
ArmedAsListed ==
    arm.state = "succeeded" =>
        /\ Len(arm.priced) = Len(catalogue)
        /\ \A r \in Rows : LET price == prices[arm.priced[r]] IN
             price.amount = catalogue[r].amount /\ price.currency = catalogue[r].currency

(* spec.md:409, FR-028: what the operator approves is "every product, amount,
   currency, and billing type as it will be charged": who clicks a row pays that
   row's amount, in its currency, as often as it says. *)
SoldAsListed ==
    \A s \in sold :
        LET price == prices[s.price]
            row == catalogue[s.row]
        IN  /\ price.amount = row.amount /\ price.currency = row.currency
            /\ price.interval = row.interval
=============================================================================
