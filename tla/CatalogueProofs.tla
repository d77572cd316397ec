-------------------------- MODULE CatalogueProofs ---------------------------
(***************************************************************************)
(* Proofs about Catalogue, for every set of catalogues: what reads proved  *)
(* exists, what is armed is as approved, and, where a slug names one       *)
(* offer, what a buyer is charged is what the row says.                    *)
(***************************************************************************)
EXTENDS Catalogue, TLAPS

Values(field) == UNION {{c[r][field] : r \in DOMAIN c} : c \in Catalogues}

PriceRecord ==
    [lookup : Values("slug") \X Values("amount") \X Values("currency"),
     amount : Values("amount"), currency : Values("currency"),
     interval : Values("interval"), active : BOOLEAN]

Keys == {Key(kind, catalogue[r]) : kind \in Kinds, r \in Rows}

Lookups == {LookupKey(catalogue[r]) : r \in Rows}

ActionStates == {"absent", "executing", "verifying", "succeeded", "failed"}
MoneyStates == {"pending", "running", "awaiting_approval", "done", "failed"}
Points == {"idle", "describe", "ask", "call", "prove", "arm"}
ArmStates == {"absent", "awaiting_approval", "verifying", "succeeded", "failed"}

(* The processor's books, and what a step never takes out of them. *)
Books ==
    /\ catalogue \in Catalogues
    /\ products \in [known : SUBSET Values("slug"), active : SUBSET Values("slug")]
    /\ products.active \subseteq products.known
    /\ prices \in Seq(PriceRecord)
    /\ \A p \in 1 .. Len(prices) : prices[p].lookup \in Lookups

Kept ==
    /\ catalogue' = catalogue
    /\ products.known \subseteq products'.known
    /\ Len(prices) <= Len(prices')
    /\ \A p \in 1 .. Len(prices) : /\ prices'[p].lookup = prices[p].lookup
                                   /\ prices'[p].amount = prices[p].amount
                                   /\ prices'[p].currency = prices[p].currency

(* The actions of the rows, and the handler that drives them. *)
Shape ==
    /\ actions \in [Keys -> [state : ActionStates, row : Rows \cup {0}, price : Nat]]
    /\ money \in [state : MoneyStates, pc : Points, kind : Kinds, row : Rows, priced : Seq(Nat)]
    /\ arm \in [state : ArmStates, priced : Seq(Nat), reading : Nat]

LEMMA Catalogued ==
    ASSUME catalogue \in Catalogues
    PROVE  /\ Len(catalogue) \in Nat \ {0} /\ Rows = 1 .. Len(catalogue)
           /\ \A r \in Rows : \A field \in RowFields : catalogue[r][field] \in Values(field)
  <1>1. Len(catalogue) \in Nat \ {0} /\ Rows = 1 .. Len(catalogue)
    <2> DEFINE S == {catalogue[r] : r \in DOMAIN catalogue}
    <2>1. catalogue \in Seq(S) /\ Len(catalogue) > 0
      BY CatalogueAssumption
    <2> HIDE DEF S
    <2> QED BY <2>1 DEF Rows
  <1>2. \A r \in Rows : \A field \in RowFields : catalogue[r][field] \in Values(field)
    BY DEF Rows, Values
  <1> QED BY <1>1, <1>2

-----------------------------------------------------------------------------
(* The processor's books. *)

LEMMA CreateKeeps ==
    ASSUME Books, NEW kind \in Kinds, NEW r \in Rows, Create(kind, catalogue[r]), catalogue' = catalogue
    PROVE  Books' /\ Kept
  <1> DEFINE row == catalogue[r]
             new == [lookup |-> LookupKey(row), amount |-> row.amount,
                     currency |-> row.currency, interval |-> row.interval, active |-> TRUE]
  <1>1. /\ row.slug \in Values("slug") /\ row.amount \in Values("amount")
        /\ row.currency \in Values("currency") /\ row.interval \in Values("interval")
    BY Catalogued DEF Books, RowFields
  <1>0. Lookups' = Lookups
    BY DEF Lookups, LookupKey, Rows
  <1>2. CASE kind = "product"
    <2>1. prices' = prices
      BY <1>2 DEF Create
    <2>2. CASE products' = products
      BY <2>1, <2>2, <1>0, <1>2 DEF Books, Kept
    <2>3. CASE products' = [known |-> products.known \cup {row.slug},
                            active |-> products.active \cup {row.slug}]
      BY <2>1, <2>3, <1>0, <1>1 DEF Books, Kept
    <2> QED BY <2>2, <2>3, <1>2 DEF Create
  <1>3. CASE kind # "product"
    <2>1. products' = products
      BY <1>3 DEF Create
    <2>2. CASE prices' = prices
      BY <2>1, <2>2, <1>0 DEF Books, Kept
    <2>3. CASE prices' = Append(prices, new)
      <3>1. new \in PriceRecord /\ new.lookup \in Lookups
        BY <1>1 DEF PriceRecord, LookupKey, Lookups
      <3> HIDE DEF new
      <3>2. prices' \in Seq(PriceRecord) /\ Len(prices') = Len(prices) + 1 /\ Len(prices) \in Nat
        BY <2>3, <3>1 DEF Books
      <3>3. /\ \A p \in 1 .. Len(prices) : prices'[p] = prices[p]
            /\ prices'[Len(prices) + 1] = new
        BY <2>3, <3>1 DEF Books
      <3>4. \A p \in 1 .. Len(prices') : prices'[p].lookup \in Lookups
        BY <3>1, <3>2, <3>3 DEF Books
      <3> QED BY <2>1, <1>0, <3>2, <3>3, <3>4 DEF Books, Kept
    <2> QED BY <2>2, <2>3, <1>3 DEF Create
  <1> QED BY <1>2, <1>3

LEMMA ArchiveKeeps ==
    ASSUME Books, Archive
    PROVE  Books' /\ Kept
  <1>0. catalogue' = catalogue /\ Lookups' = Lookups
    BY DEF Archive, Lookups, LookupKey, Rows
  <1>1. CASE prices' = prices /\ \E s \in products.active :
                                    products' = [products EXCEPT !.active = products.active \ {s}]
    BY <1>0, <1>1 DEF Books, Kept
  <1>2. CASE products' = products /\ \E p \in DOMAIN prices :
                                        prices' = [prices EXCEPT ![p].active = FALSE]
    <2>1. PICK p \in DOMAIN prices : prices' = [prices EXCEPT ![p].active = FALSE]
      BY <1>2
    <2>2. DOMAIN prices = 1 .. Len(prices) /\ Len(prices) \in Nat
      BY DEF Books
    <2>3. \A q \in 1 .. Len(prices) : prices[q] \in PriceRecord
      BY DEF Books
    <2>4. DOMAIN prices' = 1 .. Len(prices)
      BY <2>1, <2>2
    <2>5. \A q \in 1 .. Len(prices) :
            prices'[q] = IF q = p THEN [prices[q] EXCEPT !.active = FALSE] ELSE prices[q]
      BY <2>1, <2>2
    <2>6. \A q \in 1 .. Len(prices) :
            /\ prices'[q] \in PriceRecord
            /\ prices'[q].lookup = prices[q].lookup
            /\ prices'[q].amount = prices[q].amount
            /\ prices'[q].currency = prices[q].currency
      BY <2>3, <2>5 DEF PriceRecord
    <2>7. prices' = [q \in 1 .. Len(prices) |-> prices'[q]]
      BY <2>1, <2>2, <2>4
    <2>8. prices' \in Seq(PriceRecord) /\ Len(prices') = Len(prices)
      BY <2>2, <2>6, <2>7
    <2>9. products' = products
      BY <1>2
    <2>10. Books'
      BY <1>0, <2>6, <2>8, <2>9 DEF Books
    <2>11. Kept
      BY <1>0, <2>2, <2>6, <2>8, <2>9 DEF Books, Kept
    <2> QED BY <2>10, <2>11
  <1> QED BY <1>1, <1>2 DEF Archive

LEMMA BooksStep ==
    ASSUME Books, Shape, [Next]_vars
    PROVE  Books' /\ Kept
  <1>1. CASE UNCHANGED <<catalogue, products, prices>>
    BY <1>1 DEF Books, Kept, Lookups, LookupKey, Rows
  <1>2. CASE catalogue' = catalogue /\ Create(money.kind, Row)
    BY <1>2, CreateKeeps DEF Shape, Row
  <1>3. CASE Archive
    BY <1>3, ArchiveKeeps
  <1>4. \/ UNCHANGED <<catalogue, products, prices>>
        \/ catalogue' = catalogue /\ Create(money.kind, Row)
        \/ Archive
    BY DEF Next, vars, processor, Begin, Describe, Ask, Execute, ExecuteRaises, Prove, Dies,
           Recover, Rerun, RequestArm, Decide, ReadPrice, Click
  <1> QED BY <1>1, <1>2, <1>3, <1>4

-----------------------------------------------------------------------------
(* The handler's books. *)

LEMMA EvidenceTyped ==
    ASSUME Books, NEW kind \in Kinds, NEW row, NEW e \in Evidence(kind, row)
    PROVE  /\ e \in Nat
           /\ kind = "product" => e = 0 /\ row.slug \in products.known
           /\ kind = "price" => e \in 1 .. Len(prices) /\ e \in Holding(LookupKey(row))
  <1>1. DOMAIN prices = 1 .. Len(prices) /\ Len(prices) \in Nat
    BY DEF Books
  <1>2. CASE kind = "product"
    BY <1>2 DEF Evidence, Books
  <1>3. CASE kind # "product"
    <2>1. e \in Found(LookupKey(row))
      BY <1>3 DEF Evidence
    <2>2. e \in Holding(LookupKey(row))
      BY <2>1 DEF Found
    <2>3. e \in DOMAIN prices
      BY <2>2 DEF Holding
    <2> QED BY <1>1, <1>3, <2>2, <2>3
  <1> QED BY <1>2, <1>3

LEMMA CurrentKeyTyped ==
    ASSUME Shape
    PROVE  CurrentKey \in Keys /\ CurrentKey[1] = money.kind
  BY DEF Shape, CurrentKey, Row, Keys, Key

MoneyType == [state : MoneyStates, pc : Points, kind : Kinds, row : Rows, priced : Seq(Nat)]

LEMMA OnwardTyped ==
    ASSUME Books, Shape, NEW e \in Nat
    PROVE  Onward(e) \in MoneyType
  <1>1. Len(catalogue) \in Nat \ {0} /\ Rows = 1 .. Len(catalogue)
    BY Catalogued DEF Books
  <1>2. Append(money.priced, e) \in Seq(Nat)
    BY DEF Shape
  <1>3. CASE money.kind = "product"
    BY <1>3 DEF Onward, Shape, MoneyType, Points, Kinds
  <1>4. CASE money.kind # "product"
    <2> DEFINE pc == IF money.row = Len(catalogue) THEN "arm" ELSE "ask"
               row == IF money.row = Len(catalogue) THEN 1 ELSE money.row + 1
    <2>1. Onward(e) = [money EXCEPT !.priced = Append(money.priced, e), !.kind = "product",
                                    !.pc = pc, !.row = row]
      BY <1>4 DEF Onward
    <2>2. pc \in Points
      BY DEF Points
    <2>3. row \in Rows
      BY <1>1 DEF Shape
    <2> HIDE DEF pc, row
    <2> QED BY <1>2, <2>1, <2>2, <2>3 DEF Shape, MoneyType, Kinds
  <1> QED BY <1>3, <1>4

LEMMA RestTyped ==
    ASSUME Books, NEW state \in MoneyStates
    PROVE  Rest(state) \in MoneyType
  <1>1. 1 \in Rows
    BY Catalogued DEF Books
  <1> QED BY <1>1 DEF Rest, MoneyType, Points, Kinds

LEMMA ShapeStep ==
    ASSUME Books, Shape, [Next]_vars
    PROVE  Shape'
  <1> DEFINE ActionType == [state : ActionStates, row : Rows \cup {0}, price : Nat]
             ArmType == [state : ArmStates, priced : Seq(Nat), reading : Nat]
             Goal == /\ actions' \in [Keys -> ActionType]
                     /\ money' \in MoneyType
                     /\ arm' \in ArmType
  <1>1. /\ actions \in [Keys -> ActionType]
        /\ money \in MoneyType
        /\ arm \in ArmType
    BY DEF Shape, MoneyType
  <1>2. catalogue' = catalogue
    BY BooksStep DEF Kept
  <1>3. Rows' = Rows /\ Keys' = Keys
    BY <1>2 DEF Rows, Keys, Key, Billing
  <1>4. SUFFICES Goal
    BY <1>3 DEF Shape, MoneyType
  <1>5. Len(catalogue) \in Nat \ {0} /\ Rows = 1 .. Len(catalogue)
    BY Catalogued DEF Books
  <1>6. CurrentKey \in Keys
    BY CurrentKeyTyped
  <1>7. ASSUME NEW k \in Keys, NEW state \in ActionStates, Becomes(k, state)
        PROVE  actions' \in [Keys -> ActionType]
    <2>1. [actions[k] EXCEPT !.state = state] \in ActionType
      BY <1>1
    <2>2. actions' = [actions EXCEPT ![k] = [actions[k] EXCEPT !.state = state]]
      BY <1>7 DEF Becomes
    <2> QED BY <1>1, <2>1, <2>2
  <1>8. ASSUME NEW k \in Keys, NEW e \in Nat, Proved(k, e)
        PROVE  actions' \in [Keys -> ActionType]
    <2>1. [actions[k] EXCEPT !.state = "succeeded", !.price = e] \in ActionType
      BY <1>1 DEF ActionStates
    <2>2. actions' = [actions EXCEPT ![k] =
                         [actions[k] EXCEPT !.state = "succeeded", !.price = e]]
      BY <1>1, <1>8 DEF Proved
    <2> QED BY <1>1, <2>1, <2>2
  <1>9. /\ {"pending", "running", "failed", "done", "awaiting_approval"} \subseteq MoneyStates
        /\ {"executing", "verifying", "failed", "succeeded"} \subseteq ActionStates
    BY DEF MoneyStates, ActionStates
  <1> HIDE DEF ActionType, ArmType
  <1>10. CASE Begin
    <2>1. Rest("running") \in MoneyType
      BY RestTyped, <1>9
    <2>2. money' \in MoneyType
      BY <1>10, <2>1 DEF Begin, MoneyType, Points
    <2> QED BY <1>1, <1>10, <2>2 DEF Begin
  <1>11. CASE Describe
    <2>1. Rest("failed") \in MoneyType
      BY RestTyped, <1>9
    <2>2. [money EXCEPT !.pc = "ask"] \in MoneyType
      BY <1>1 DEF MoneyType, Points
    <2> QED BY <1>1, <1>11, <2>1, <2>2 DEF Describe
  <1>12. CASE Ask
    <2>1. CASE actions' = [actions EXCEPT ![CurrentKey] =
                             [NoAction EXCEPT !.state = "executing", !.row = money.row]]
               /\ money' = [money EXCEPT !.pc = "call"]
      <3>1. [NoAction EXCEPT !.state = "executing", !.row = money.row] \in ActionType
        BY DEF NoAction, ActionType, ActionStates, Shape
      <3>2. money' \in MoneyType
        BY <1>1, <2>1 DEF MoneyType, Points
      <3> QED BY <1>1, <1>6, <1>12, <2>1, <3>1, <3>2 DEF Ask
    <2>2. CASE money' = Onward(actions[CurrentKey].price) /\ UNCHANGED actions
      <3>1. actions[CurrentKey].price \in Nat
        BY <1>1, <1>6 DEF ActionType
      <3> QED BY <1>1, <1>12, <2>2, <3>1, OnwardTyped DEF Ask
    <2>3. CASE money' = Rest("failed") /\ UNCHANGED actions
      BY <1>1, <1>9, <1>12, <2>3, RestTyped DEF Ask
    <2> QED BY <1>12, <2>1, <2>2, <2>3 DEF Ask
  <1>13. CASE Execute
    <2>1. money' \in MoneyType
      BY <1>1, <1>13 DEF Execute, MoneyType, Points
    <2> QED BY <1>1, <1>6, <1>7, <1>9, <1>13, <2>1 DEF Execute
  <1>14. CASE ExecuteRaises
    BY <1>1, <1>6, <1>7, <1>9, <1>14, RestTyped DEF ExecuteRaises
  <1>15. CASE Prove
    <2>1. CASE \E e \in Evidence(money.kind, Row) : Proved(CurrentKey, e) /\ money' = Onward(e)
      <3>1. PICK e \in Evidence(money.kind, Row) : Proved(CurrentKey, e) /\ money' = Onward(e)
        BY <2>1
      <3>2. e \in Nat
        BY EvidenceTyped DEF Shape
      <3> QED BY <1>1, <1>6, <1>8, <1>15, <3>1, <3>2, OnwardTyped DEF Prove
    <2>2. CASE Becomes(CurrentKey, "failed") /\ money' = Rest("failed")
      BY <1>1, <1>6, <1>7, <1>9, <1>15, <2>2, RestTyped DEF Prove
    <2> QED BY <1>15, <2>1, <2>2 DEF Prove
  <1>16. CASE Dies
    BY <1>1, <1>9, <1>16, RestTyped DEF Dies
  <1>17. ASSUME NEW k \in DOMAIN actions, Recover(k)
         PROVE  Goal
    <2>0. k \in Keys
      BY <1>1
    <2>1. CASE \E e \in Evidence(k[1], catalogue[actions[k].row]) : Proved(k, e)
      <3>1. PICK e \in Evidence(k[1], catalogue[actions[k].row]) : Proved(k, e)
        BY <2>1
      <3>2. k[1] \in Kinds
        BY <2>0 DEF Keys, Key
      <3>3. e \in Nat
        BY EvidenceTyped, <3>2
      <3> QED BY <1>1, <1>8, <1>17, <2>0, <3>1, <3>3 DEF Recover
    <2>2. CASE Becomes(k, "failed")
      BY <1>1, <1>7, <1>9, <1>17, <2>0, <2>2 DEF Recover
    <2> QED BY <1>17, <2>1, <2>2 DEF Recover
  <1>18. CASE Rerun
    BY <1>1, <1>9, <1>18, RestTyped DEF Rerun
  <1>19. CASE RequestArm
    <2>1. arm' \in ArmType
      BY <1>1, <1>19 DEF RequestArm, NoArm, ArmType, ArmStates, MoneyType
    <2> QED BY <1>1, <1>9, <1>19, <2>1, RestTyped DEF RequestArm
  <1>20. CASE Decide
    <2>1. Rest("failed") \in MoneyType
      BY <1>9, RestTyped
    <2>2. 1 \in Nat
      OBVIOUS
    <2>3. \/ arm' = [arm EXCEPT !.state = "verifying", !.reading = 1]
          \/ arm' = [arm EXCEPT !.state = "failed"]
      BY <1>20 DEF Decide
    <2>4. arm' \in ArmType
      BY <1>1, <2>2, <2>3 DEF ArmType, ArmStates
    <2>5. money' \in MoneyType /\ actions' = actions
      BY <1>1, <1>20, <2>1 DEF Decide
    <2> QED BY <1>1, <2>4, <2>5
  <1>21. CASE ReadPrice
    <2>1. arm' \in ArmType
      BY <1>1, <1>21 DEF ReadPrice, ArmType, ArmStates
    <2> QED BY <1>1, <1>9, <1>21, <2>1, RestTyped DEF ReadPrice
  <1>22. ASSUME NEW r \in Rows, Click(r)
         PROVE  Goal
    BY <1>1, <1>22 DEF Click
  <1>23. CASE Archive
    BY <1>1, <1>23 DEF Archive
  <1>24. CASE UNCHANGED vars
    BY <1>1, <1>24 DEF vars
  <1> QED BY <1>10, <1>11, <1>12, <1>13, <1>14, <1>15, <1>16, <1>17, <1>18, <1>19, <1>20,
             <1>21, <1>22, <1>23, <1>24 DEF Next

-----------------------------------------------------------------------------
(* What an action says, and whom it speaks for.  An action that is asked for
   belongs to a row; the one the handler drives belongs to the row it is at; the
   evidence of a proved one is in the books; and the handler holds a price for
   every row it has passed. *)
Located ==
    \A k \in Keys :
        /\ actions[k].state \in {"executing", "verifying", "succeeded"} => actions[k].row \in Rows
        /\ actions[k].price \in (1 .. Len(prices)) \cup {0}

Driven == money.pc \in {"call", "prove"} => actions[CurrentKey].row = money.row

Priced ==
    /\ Len(money.priced) = IF money.pc = "arm" THEN Len(catalogue) ELSE money.row - 1
    /\ \A i \in 1 .. Len(money.priced) : money.priced[i] \in 1 .. Len(prices)

Tied == Located /\ Driven /\ Priced /\ ProvedExists

LEMMA KeysStay ==
    ASSUME catalogue' = catalogue
    PROVE  Keys' = Keys /\ Rows' = Rows
  BY DEF Keys, Key, Billing, Rows

LEMMA ActionStep ==
    ASSUME Books, Shape, Tied, Next
    PROVE  \/ UNCHANGED actions
           \/ \E k \in Keys, state \in {"verifying", "failed"} :
                Becomes(k, state) /\ actions[k].row \in Rows
           \/ \E k \in Keys : \E e \in Evidence(k[1], catalogue[actions[k].row]) :
                Proved(k, e) /\ actions[k].row \in Rows
           \/ actions' = [actions EXCEPT ![CurrentKey] =
                            [NoAction EXCEPT !.state = "executing", !.row = money.row]]
  <1> DEFINE Goal ==
         \/ UNCHANGED actions
         \/ \E k \in Keys, state \in {"verifying", "failed"} :
              Becomes(k, state) /\ actions[k].row \in Rows
         \/ \E k \in Keys : \E e \in Evidence(k[1], catalogue[actions[k].row]) :
              Proved(k, e) /\ actions[k].row \in Rows
         \/ actions' = [actions EXCEPT ![CurrentKey] =
                          [NoAction EXCEPT !.state = "executing", !.row = money.row]]
  <1>0. SUFFICES Goal
    OBVIOUS
  <1>1. CurrentKey \in Keys /\ CurrentKey[1] = money.kind
    BY CurrentKeyTyped
  <1>2. ASSUME money.pc \in {"call", "prove"}
        PROVE  actions[CurrentKey].row \in Rows /\ catalogue[actions[CurrentKey].row] = Row
    BY <1>2 DEF Tied, Driven, Shape, Row
  <1>3. CASE Execute
    BY <1>1, <1>2, <1>3 DEF Execute, At
  <1>4. CASE ExecuteRaises
    BY <1>1, <1>2, <1>4 DEF ExecuteRaises, At
  <1>5. CASE Prove
    <2>1. money.pc = "prove"
      BY <1>5 DEF Prove, At
    <2>2. CASE Becomes(CurrentKey, "failed")
      BY <1>1, <1>2, <2>1, <2>2
    <2>3. CASE \E e \in Evidence(money.kind, Row) : Proved(CurrentKey, e)
      BY <1>1, <1>2, <2>1, <2>3
    <2> QED BY <1>5, <2>2, <2>3 DEF Prove
  <1>6. ASSUME NEW k \in DOMAIN actions, Recover(k)
        PROVE  Goal
    <2>1. k \in Keys /\ actions[k].row \in Rows
      BY <1>6 DEF Recover, InFlight, Tied, Located, Shape
    <2>2. CASE Becomes(k, "failed")
      BY <2>1, <2>2
    <2>3. CASE \E e \in Evidence(k[1], catalogue[actions[k].row]) : Proved(k, e)
      BY <2>1, <2>3
    <2> QED BY <1>6, <2>2, <2>3 DEF Recover
  <1>7. CASE Ask
    BY <1>7 DEF Ask
  <1>8. CASE UNCHANGED actions
    BY <1>8
  <1>9. \/ Execute \/ ExecuteRaises \/ Prove \/ (\E k \in DOMAIN actions : Recover(k)) \/ Ask
        \/ UNCHANGED actions
    BY DEF Next, Begin, Describe, Dies, Rerun, RequestArm, Decide, ReadPrice, Click, Archive
  <1> QED BY <1>3, <1>4, <1>5, <1>6, <1>7, <1>8, <1>9

(* Evidence on the rows, carried over a step. *)
LEMMA ActionsTied ==
    ASSUME Books, Shape, Tied, Next
    PROVE  Located' /\ ProvedExists'
  <1> DEFINE Backed(k) ==
         LET row == catalogue[actions[k].row] IN
         /\ k[1] = "product" => row.slug \in products.known
         /\ k[1] = "price" => actions[k].price \in Holding(LookupKey(row))
  <1>1. Books' /\ Kept
    BY BooksStep
  <1>2. Keys' = Keys /\ Rows' = Rows
    BY <1>1, KeysStay DEF Kept
  <1>3. /\ DOMAIN actions = Keys
        /\ \A k \in Keys : actions[k] \in [state : ActionStates, row : Rows \cup {0}, price : Nat]
    BY DEF Shape
  <1>4. Shape' /\ DOMAIN actions' = Keys
    BY ShapeStep, <1>2 DEF Shape
  <1>5. DOMAIN prices = 1 .. Len(prices) /\ DOMAIN prices' = 1 .. Len(prices')
        /\ Len(prices) \in Nat /\ Len(prices') \in Nat
    BY <1>1 DEF Books
  <1>6. ASSUME NEW row, NEW p \in Holding(LookupKey(row))
        PROVE  p \in (Holding(LookupKey(row)))'
    BY <1>1, <1>5, <1>6 DEF Holding, Kept
  <1>7. ASSUME NEW k \in Keys, actions'[k] = actions[k], actions[k].state = "succeeded"
        PROVE  Backed(k)'
    <2> DEFINE row == catalogue[actions[k].row]
    <2>1. k[1] = "product" => row.slug \in products.known
      BY <1>3, <1>7 DEF Tied, ProvedExists
    <2>2. k[1] = "price" => actions[k].price \in Holding(LookupKey(row))
      BY <1>3, <1>7 DEF Tied, ProvedExists
    <2>3. row' = row /\ catalogue'[actions'[k].row] = row
      BY <1>1, <1>7 DEF Kept
    <2> HIDE DEF row
    <2>4. k[1] = "product" => row.slug \in products'.known
      BY <2>1, <1>1 DEF Kept
    <2>5. k[1] = "price" => actions'[k].price \in (Holding(LookupKey(row)))'
      BY <2>2, <2>3, <1>6, <1>7
    <2> QED BY <2>3, <2>4, <2>5
  <1>8. ASSUME NEW k \in Keys, actions'[k] = actions[k]
        PROVE  /\ actions'[k].state \in {"executing", "verifying", "succeeded"}
                     => actions'[k].row \in Rows
               /\ actions'[k].price \in (1 .. Len(prices')) \cup {0}
    BY <1>1, <1>5, <1>8 DEF Tied, Located, Kept
  <1> HIDE DEF Backed
  <1>9. ASSUME NEW k \in Keys, \A q \in Keys : q # k => actions'[q] = actions[q],
               actions'[k].state \in {"executing", "verifying", "succeeded"}
                   => actions'[k].row \in Rows,
               actions'[k].price \in (1 .. Len(prices')) \cup {0},
               actions'[k].state = "succeeded" => Backed(k)'
        PROVE  Located' /\ ProvedExists'
    <2>1. Located'
      BY <1>2, <1>8, <1>9 DEF Located
    <2>2. \A q \in Keys : actions'[q].state = "succeeded" => Backed(q)'
      BY <1>7, <1>9
    <2>3. ProvedExists'
      BY <1>4, <2>2 DEF ProvedExists, Backed
    <2> QED BY <2>1, <2>3
  <1>10. CASE UNCHANGED actions
    <2>1. Located'
      BY <1>2, <1>8, <1>10 DEF Located
    <2>2. \A q \in Keys : actions'[q].state = "succeeded" => Backed(q)'
      BY <1>7, <1>10
    <2>3. ProvedExists'
      BY <1>4, <2>2 DEF ProvedExists, Backed
    <2> QED BY <2>1, <2>3
  <1>11. ASSUME NEW k \in Keys, NEW state \in {"verifying", "failed"},
                Becomes(k, state), actions[k].row \in Rows
         PROVE  Located' /\ ProvedExists'
    <2>1. \A q \in Keys : q # k => actions'[q] = actions[q]
      BY <1>3, <1>11 DEF Becomes
    <2>2. actions'[k] = [actions[k] EXCEPT !.state = state]
      BY <1>3, <1>11 DEF Becomes
    <2>3. actions'[k].state = state /\ actions'[k].row = actions[k].row
          /\ actions'[k].price = actions[k].price
      BY <1>3, <2>2
    <2>4. actions[k].price \in (1 .. Len(prices')) \cup {0}
      BY <1>1, <1>5 DEF Tied, Located, Kept
    <2>5. state # "succeeded"
      OBVIOUS
    <2> QED BY <1>9, <1>11, <2>1, <2>3, <2>4, <2>5
  <1>12. ASSUME NEW k \in Keys, NEW e \in Evidence(k[1], catalogue[actions[k].row]),
                Proved(k, e), actions[k].row \in Rows
         PROVE  Located' /\ ProvedExists'
    <2>0. PICK row : row = catalogue[actions[k].row]
      OBVIOUS
    <2>1. \A q \in Keys : q # k => actions'[q] = actions[q]
      BY <1>3, <1>12 DEF Proved
    <2>2. actions'[k] = [actions[k] EXCEPT !.state = "succeeded", !.price = e]
      BY <1>3, <1>12 DEF Proved
    <2>3. actions'[k].state = "succeeded" /\ actions'[k].row = actions[k].row
          /\ actions'[k].price = e
      BY <1>3, <2>2
    <2>4. k[1] \in Kinds
      BY DEF Keys, Key
    <2>5. /\ k[1] = "product" => e = 0 /\ row.slug \in products.known
          /\ k[1] = "price" => e \in 1 .. Len(prices) /\ e \in Holding(LookupKey(row))
      BY <2>0, <2>4, EvidenceTyped
    <2>6. catalogue'[actions'[k].row] = row
      BY <1>1, <2>0, <2>3 DEF Kept
    <2>7. k[1] = "product" => row.slug \in products'.known
      BY <1>1, <2>5 DEF Kept
    <2>8. k[1] = "price" => e \in (Holding(LookupKey(row)))'
      BY <1>6, <2>5
    <2>9. Backed(k)'
      BY <2>3, <2>6, <2>7, <2>8 DEF Backed
    <2>10. e \in (1 .. Len(prices')) \cup {0}
      BY <1>1, <1>5, <2>4, <2>5 DEF Kinds, Kept
    <2> QED BY <1>9, <1>12, <2>1, <2>3, <2>9, <2>10
  <1>13. CASE actions' = [actions EXCEPT ![CurrentKey] =
                            [NoAction EXCEPT !.state = "executing", !.row = money.row]]
    <2>1. PICK k \in Keys : k = CurrentKey
      BY CurrentKeyTyped
    <2> DEFINE new == [NoAction EXCEPT !.state = "executing", !.row = money.row]
    <2>2. new.state = "executing" /\ new.row = money.row /\ new.price = 0
      BY DEF NoAction
    <2>3. actions' = [actions EXCEPT ![k] = new]
      BY <1>13, <2>1
    <2> HIDE DEF new
    <2>4. actions'[k] = new /\ \A q \in Keys : q # k => actions'[q] = actions[q]
      BY <1>3, <2>3
    <2>5. money.row \in Rows
      BY DEF Shape
    <2> QED BY <1>9, <2>2, <2>4, <2>5
  <1> QED BY ActionStep, <1>10, <1>11, <1>12, <1>13

(* How far the handler is, and what it holds, carried over a step. *)
LEMMA MoneyTied ==
    ASSUME Books, Shape, Tied, Next
    PROVE  Driven' /\ Priced'
  <1>1. Books' /\ Kept
    BY BooksStep
  <1>2. /\ money \in MoneyType /\ DOMAIN actions = Keys
        /\ \A k \in Keys : actions[k] \in [state : ActionStates, row : Rows \cup {0}, price : Nat]
    BY DEF Shape, MoneyType
  <1>3. Len(catalogue) \in Nat \ {0} /\ Rows = 1 .. Len(catalogue) /\ Len(prices) \in Nat
        /\ Len(prices') \in Nat
    BY <1>1, Catalogued DEF Books
  <1>4. CurrentKey \in Keys /\ CurrentKey[1] = money.kind
    BY CurrentKeyTyped
  <1>5. /\ Len(money.priced) = IF money.pc = "arm" THEN Len(catalogue) ELSE money.row - 1
        /\ \A i \in 1 .. Len(money.priced) : money.priced[i] \in 1 .. Len(prices')
    BY <1>1, <1>3 DEF Tied, Priced, Kept
  <1>6. ASSUME NEW state, money' = Rest(state)
        PROVE  Driven' /\ Priced'
    BY <1>6 DEF Rest, Driven, Priced
  <1>7. ASSUME NEW pc \in {"ask", "call", "prove"}, money' = [money EXCEPT !.pc = pc],
               money.pc # "arm"
        PROVE  Priced' /\ CurrentKey' = CurrentKey /\ money'.row = money.row /\ money'.pc = pc
    <2>1. money'.row = money.row /\ money'.kind = money.kind /\ money'.priced = money.priced
          /\ money'.pc = pc
      BY <1>2, <1>7 DEF MoneyType
    <2>2. Priced'
      BY <1>5, <1>7, <2>1 DEF Priced
    <2>3. CurrentKey' = CurrentKey
      BY <1>1, <2>1 DEF Kept, CurrentKey, Key, Row, Billing
    <2> QED BY <2>1, <2>2, <2>3
  <1>8. ASSUME NEW e, money.kind = "price" => e \in 1 .. Len(prices), money.kind \in Kinds,
               money.pc # "arm", money' = Onward(e)
        PROVE  Driven' /\ Priced'
    <2>1. CASE money.kind = "product"
      <3>1. money' = [money EXCEPT !.pc = "ask", !.kind = "price"]
        BY <1>8, <2>1 DEF Onward
      <3>2. money'.row = money.row /\ money'.priced = money.priced /\ money'.pc = "ask"
        BY <1>2, <3>1 DEF MoneyType
      <3> QED BY <1>5, <1>8, <3>2 DEF Driven, Priced
    <2>2. CASE money.kind = "price"
      <3> DEFINE pc == IF money.row = Len(catalogue) THEN "arm" ELSE "ask"
                 row == IF money.row = Len(catalogue) THEN 1 ELSE money.row + 1
                 priced == Append(money.priced, e)
      <3>1. money' = [money EXCEPT !.priced = priced, !.kind = "product",
                                   !.pc = pc, !.row = row]
        BY <1>8, <2>2 DEF Onward
      <3>2. money.row \in Rows /\ money.priced \in Seq(Nat) /\ e \in Nat
        BY <1>2, <1>3, <1>8, <2>2 DEF MoneyType
      <3>3. Len(priced) = money.row /\ Len(money.priced) = money.row - 1
        BY <1>3, <1>5, <1>8, <3>2
      <3>4. \A i \in 1 .. Len(priced) : priced[i] \in 1 .. Len(prices')
        <4>1. e \in 1 .. Len(prices')
          BY <1>1, <1>3, <1>8, <2>2 DEF Kept
        <4>2. \A i \in 1 .. Len(priced) :
                priced[i] = IF i = money.row THEN e ELSE money.priced[i]
          BY <1>3, <3>2, <3>3
        <4> QED BY <1>3, <1>5, <3>2, <3>3, <4>1, <4>2
      <3>5. Len(priced) = IF pc = "arm" THEN Len(catalogue) ELSE row - 1
        BY <1>3, <3>2, <3>3
      <3>6. pc \notin {"call", "prove"}
        OBVIOUS
      <3> HIDE DEF pc, row, priced
      <3>7. money'.priced = priced /\ money'.pc = pc /\ money'.row = row
        BY <1>2, <3>1 DEF MoneyType
      <3>8. catalogue' = catalogue
        BY <1>1 DEF Kept
      <3> QED BY <3>4, <3>5, <3>6, <3>7, <3>8 DEF Driven, Priced
    <2> QED BY <1>8, <2>1, <2>2 DEF Kinds
  <1>9. money.kind \in Kinds
    BY <1>2 DEF MoneyType
  <1>10. CASE UNCHANGED money /\ (UNCHANGED actions \/ money.pc = "idle")
    <2>1. CurrentKey' = CurrentKey
      BY <1>1, <1>10 DEF Kept, CurrentKey, Key, Row, Billing
    <2>2. Driven'
      BY <1>10, <2>1 DEF Tied, Driven
    <2>3. Priced'
      BY <1>1, <1>5, <1>10 DEF Priced, Kept
    <2> QED BY <2>2, <2>3
  <1>11. CASE Begin
    <2>1. money'.row = 1 /\ money'.priced = <<>> /\ money'.pc = "describe"
      BY <1>11 DEF Begin, Rest
    <2> QED BY <2>1 DEF Driven, Priced
  <1>12. CASE Describe
    <2>1. CASE money' = [money EXCEPT !.pc = "ask"]
      <3>1. money.pc = "describe"
        BY <1>12 DEF Describe, At
      <3>2. Priced' /\ money'.pc = "ask"
        BY <1>7, <2>1, <3>1
      <3> QED BY <3>2 DEF Driven
    <2>2. CASE money' = Rest("failed")
      BY <1>6, <2>2
    <2> QED BY <1>12, <2>1, <2>2 DEF Describe
  <1>13. CASE Ask
    <2>0. money.pc = "ask"
      BY <1>13 DEF Ask, At
    <2>1. CASE /\ actions' = [actions EXCEPT ![CurrentKey] =
                                 [NoAction EXCEPT !.state = "executing", !.row = money.row]]
               /\ money' = [money EXCEPT !.pc = "call"]
      <3> DEFINE new == [NoAction EXCEPT !.state = "executing", !.row = money.row]
      <3>1. new.row = money.row
        BY DEF NoAction
      <3> HIDE DEF new
      <3>2. actions'[CurrentKey] = new
        BY <1>2, <1>4, <2>1 DEF new
      <3>3. Priced' /\ CurrentKey' = CurrentKey /\ money'.row = money.row
        BY <1>7, <2>0, <2>1
      <3> QED BY <3>1, <3>2, <3>3 DEF Driven
    <2>2. CASE actions[CurrentKey].state = "succeeded"
               /\ money' = Onward(actions[CurrentKey].price)
      <3>1. money.kind = "price" => actions[CurrentKey].price \in DOMAIN prices
        BY <1>2, <1>4, <2>2 DEF Tied, ProvedExists, Holding
      <3>2. DOMAIN prices = 1 .. Len(prices)
        BY DEF Books
      <3> QED BY <1>8, <1>9, <2>0, <2>2, <3>1, <3>2
    <2>3. CASE money' = Rest("failed")
      BY <1>6, <2>3
    <2> QED BY <1>13, <2>1, <2>2, <2>3 DEF Ask
  <1>14. CASE Execute
    <2>0. money.pc = "call"
      BY <1>14 DEF Execute, At
    <2>1. /\ Becomes(CurrentKey, "verifying")
          /\ money' = [money EXCEPT !.pc = "prove"]
      BY <1>14 DEF Execute
    <2>2. actions'[CurrentKey] = [actions[CurrentKey] EXCEPT !.state = "verifying"]
      BY <1>2, <1>4, <2>1 DEF Becomes
    <2>3. actions'[CurrentKey].row = actions[CurrentKey].row
      BY <1>2, <1>4, <2>2
    <2>4. Priced' /\ CurrentKey' = CurrentKey /\ money'.row = money.row
      BY <1>7, <2>0, <2>1
    <2> QED BY <2>0, <2>3, <2>4 DEF Tied, Driven
  <1>15. CASE Prove
    <2>0. money.pc = "prove"
      BY <1>15 DEF Prove, At
    <2>1. CASE \E e \in Evidence(money.kind, Row) : money' = Onward(e)
      <3>1. PICK e \in Evidence(money.kind, Row) : money' = Onward(e)
        BY <2>1
      <3>2. money.kind = "price" => e \in 1 .. Len(prices)
        BY <1>9, EvidenceTyped
      <3> QED BY <1>8, <1>9, <2>0, <3>1, <3>2
    <2>2. CASE money' = Rest("failed")
      BY <1>6, <2>2
    <2> QED BY <1>15, <2>1, <2>2 DEF Prove
  <1>16. CASE \E state : money' = Rest(state)
    BY <1>6, <1>16
  <1>17. \/ Begin \/ Describe \/ Ask \/ Execute \/ Prove
         \/ \E state : money' = Rest(state)
         \/ UNCHANGED money /\ (UNCHANGED actions \/ money.pc = "idle")
    BY DEF Next, ExecuteRaises, Dies, Recover, Rerun, RequestArm, Decide, ReadPrice, Click,
           Archive, At
  <1> QED BY <1>10, <1>11, <1>12, <1>13, <1>14, <1>15, <1>16, <1>17

-----------------------------------------------------------------------------
(* The arming: a price for every row, each compared with its row before the one
   after it, so that all have been when the last has. *)
Listed(r) ==
    LET price == prices[arm.priced[r]] IN
    price.amount = catalogue[r].amount /\ price.currency = catalogue[r].currency

Armed ==
    /\ arm.state \in {"awaiting_approval", "verifying", "succeeded"} =>
         /\ Len(arm.priced) = Len(catalogue)
         /\ \A r \in Rows : arm.priced[r] \in 1 .. Len(prices)
    /\ arm.state = "verifying" =>
         arm.reading \in Rows /\ \A r \in 1 .. arm.reading - 1 : Listed(r)
    /\ arm.state = "succeeded" => \A r \in Rows : Listed(r)

LEMMA ArmedStep ==
    ASSUME Books, Shape, Tied, Armed, Next
    PROVE  Armed'
  <1>1. Books' /\ Kept
    BY BooksStep
  <1>2. Len(catalogue) \in Nat \ {0} /\ Rows = 1 .. Len(catalogue) /\ Len(prices) \in Nat
        /\ Len(prices') \in Nat /\ catalogue' = catalogue /\ Rows' = Rows
    BY <1>1, Catalogued, KeysStay DEF Books, Kept
  <1>3. arm \in [state : ArmStates, priced : Seq(Nat), reading : Nat]
    BY DEF Shape
  <1>4. ASSUME NEW r \in Rows, arm.state \in {"awaiting_approval", "verifying", "succeeded"},
               arm'.priced = arm.priced
        PROVE  arm'.priced[r] \in 1 .. Len(prices') /\ (Listed(r) => Listed(r)')
    <2>1. arm.priced[r] \in 1 .. Len(prices)
      BY <1>4 DEF Armed
    <2>2. arm'.priced[r] \in 1 .. Len(prices')
      BY <1>1, <1>2, <1>4, <2>1 DEF Kept
    <2>3. Listed(r) => Listed(r)'
      BY <1>1, <1>2, <1>4, <2>1 DEF Kept, Listed
    <2> QED BY <2>2, <2>3
  <1>5. CASE UNCHANGED arm
    <2>1. \A r \in Rows : arm.state \in {"awaiting_approval", "verifying", "succeeded"} =>
            arm'.priced[r] \in 1 .. Len(prices') /\ (Listed(r) => Listed(r)')
      BY <1>4, <1>5
    <2>2. arm.state = "verifying" =>
            /\ \A r \in 1 .. arm.reading - 1 : r \in Rows /\ Listed(r)
      BY <1>2 DEF Armed
    <2> QED BY <1>2, <1>5, <2>1, <2>2 DEF Armed
  <1>6. CASE arm'.state \in {"failed", "absent"}
    BY <1>6 DEF Armed
  <1>7. CASE money.pc = "arm" /\ arm'.state = "awaiting_approval" /\ arm'.priced = money.priced
    <2>1. Len(money.priced) = Len(catalogue)
          /\ \A i \in 1 .. Len(money.priced) : money.priced[i] \in 1 .. Len(prices)
      BY <1>7 DEF Tied, Priced
    <2> QED BY <1>1, <1>2, <1>7, <2>1 DEF Armed, Kept
  <1>8. CASE /\ arm.state \in {"awaiting_approval", "verifying"} /\ arm'.state = "verifying"
             /\ arm'.priced = arm.priced /\ arm'.reading = 1
    <2>1. \A r \in Rows : arm'.priced[r] \in 1 .. Len(prices')
      BY <1>4, <1>8
    <2>2. Len(arm.priced) = Len(catalogue)
      BY <1>8 DEF Armed
    <2> QED BY <1>2, <1>8, <2>1, <2>2 DEF Armed
  <1>9. CASE /\ arm.state = "verifying" /\ Listed(arm.reading)
             /\ arm'.priced = arm.priced
             /\ \/ arm.reading = Len(catalogue) /\ arm'.state = "succeeded"
                \/ /\ arm.reading # Len(catalogue) /\ arm'.state = "verifying"
                   /\ arm'.reading = arm.reading + 1
    <2>1. arm.reading \in Rows /\ \A r \in 1 .. arm.reading : r \in Rows /\ Listed(r)
      BY <1>2, <1>9 DEF Armed
    <2>2. \A r \in 1 .. arm.reading : Listed(r)'
      BY <1>4, <1>9, <2>1
    <2>3. \A r \in Rows : arm'.priced[r] \in 1 .. Len(prices')
      BY <1>4, <1>9
    <2>4. Len(arm.priced) = Len(catalogue)
      BY <1>9 DEF Armed
    <2>5. CASE arm.reading = Len(catalogue) /\ arm'.state = "succeeded"
      BY <1>2, <1>9, <2>2, <2>3, <2>4, <2>5 DEF Armed
    <2>6. CASE arm.reading # Len(catalogue) /\ arm'.state = "verifying"
               /\ arm'.reading = arm.reading + 1
      BY <1>2, <1>9, <2>1, <2>2, <2>3, <2>4, <2>6 DEF Armed
    <2> QED BY <1>9, <2>5, <2>6
  <1>10. CASE RequestArm
    <2>1. money.pc = "arm"
      BY <1>10 DEF RequestArm, At
    <2>2. CASE arm.state = "absent"
      <3>1. arm' = [NoArm EXCEPT !.state = "awaiting_approval", !.priced = money.priced]
        BY <1>10, <2>2 DEF RequestArm
      <3>2. arm'.state = "awaiting_approval" /\ arm'.priced = money.priced
        BY <3>1 DEF NoArm
      <3> QED BY <1>7, <2>1, <3>2
    <2>3. CASE arm.state # "absent"
      BY <1>5, <1>10, <2>3 DEF RequestArm
    <2> QED BY <2>2, <2>3
  <1>11. CASE Decide
    <2>1. CASE arm' = [arm EXCEPT !.state = "verifying", !.reading = 1]
      <3>1. arm'.state = "verifying" /\ arm'.reading = 1 /\ arm'.priced = arm.priced
        BY <1>3, <2>1
      <3> QED BY <1>8, <1>11, <3>1 DEF Decide
    <2>2. CASE arm' = [arm EXCEPT !.state = "failed"]
      BY <1>3, <1>6, <2>2
    <2> QED BY <1>11, <2>1, <2>2 DEF Decide
  <1>12. CASE ReadPrice
    <2>0. arm.state = "verifying"
      BY <1>12 DEF ReadPrice
    <2>1. CASE Matches(prices[arm.priced[arm.reading]], catalogue[arm.reading])
      <3>1. Listed(arm.reading)
        BY <2>1 DEF Matches, Listed
      <3>2. CASE arm.reading = Len(catalogue) /\ arm' = [arm EXCEPT !.state = "succeeded"]
        <4>1. arm'.state = "succeeded" /\ arm'.priced = arm.priced
          BY <1>3, <3>2
        <4> QED BY <1>9, <2>0, <3>1, <3>2, <4>1
      <3>3. CASE arm.reading # Len(catalogue) /\ arm' = [arm EXCEPT !.reading = arm.reading + 1]
        <4>1. arm'.state = "verifying" /\ arm'.reading = arm.reading + 1
              /\ arm'.priced = arm.priced
          BY <1>3, <2>0, <3>3
        <4> QED BY <1>9, <2>0, <3>1, <3>3, <4>1
      <3> QED BY <1>12, <2>1, <3>2, <3>3 DEF ReadPrice
    <2>2. CASE arm' = [arm EXCEPT !.reading = 1]
      <3>1. arm'.state = "verifying" /\ arm'.reading = 1 /\ arm'.priced = arm.priced
        BY <1>3, <2>0, <2>2
      <3> QED BY <1>8, <2>0, <3>1
    <2>3. CASE arm' = [arm EXCEPT !.state = "failed"]
      BY <1>3, <1>6, <2>3
    <2> QED BY <1>12, <2>1, <2>2, <2>3 DEF ReadPrice
  <1>13. RequestArm \/ Decide \/ ReadPrice \/ UNCHANGED arm
    BY DEF Next, Begin, Describe, Ask, Execute, ExecuteRaises, Prove, Dies, Recover, Rerun,
           Click, Archive
  <1> QED BY <1>5, <1>10, <1>11, <1>12, <1>13

-----------------------------------------------------------------------------
Sales == sold \subseteq [row : Rows, price : 1 .. Len(prices)]

LEMMA SalesStep ==
    ASSUME Books, Shape, Tied, Sales, Next
    PROVE  Sales'
  <1>1. Books' /\ Kept
    BY BooksStep
  <1>2. Rows' = Rows /\ \A p \in 1 .. Len(prices) : p \in 1 .. Len(prices')
    BY <1>1, KeysStay DEF Kept, Books
  <1>3. CASE UNCHANGED sold
    BY <1>2, <1>3 DEF Sales
  <1>4. ASSUME NEW r \in Rows, Click(r)
        PROVE  Sales'
    <2>1. PICK p \in PriceFor(catalogue[r].slug) : sold' = sold \cup {[row |-> r, price |-> p]}
      BY <1>4 DEF Click
    <2>2. p \in DOMAIN prices
      BY DEF PriceFor, Tied, ProvedExists, Holding
    <2>3. p \in 1 .. Len(prices)
      BY <2>2 DEF Books
    <2> QED BY <1>2, <2>1, <2>3 DEF Sales
  <1>5. UNCHANGED sold \/ \E r \in Rows : Click(r)
    BY DEF Next, Begin, Describe, Ask, Execute, ExecuteRaises, Prove, Dies, Recover, Rerun,
           RequestArm, Decide, ReadPrice, Archive
  <1> QED BY <1>3, <1>4, <1>5

-----------------------------------------------------------------------------
IInv == Books /\ Shape /\ Tied /\ Armed /\ Sales

LEMMA Initially ==
    ASSUME Init
    PROVE  IInv
  <1>1. catalogue \in Catalogues
    BY DEF Init
  <1>2. Len(catalogue) \in Nat \ {0} /\ Rows = 1 .. Len(catalogue)
    BY <1>1, Catalogued
  <1>3. prices = <<>> /\ prices \in Seq(PriceRecord) /\ Len(prices) = 0
    BY DEF Init
  <1>4. products = [known |-> {}, active |-> {}]
    BY DEF Init
  <1>5. Books
    BY <1>1, <1>3, <1>4 DEF Books
  <1>6. /\ money = [state |-> "pending", pc |-> "idle", kind |-> "product", row |-> 1,
                    priced |-> <<>>]
        /\ arm = [state |-> "absent", priced |-> <<>>, reading |-> 0]
        /\ actions = [k \in Keys |-> [state |-> "absent", row |-> 0, price |-> 0]]
    BY DEF Init, Rest, NoArm, NoAction, Keys
  <1>7. Shape
    <2>1. money \in [state : MoneyStates, pc : Points, kind : Kinds, row : Rows,
                     priced : Seq(Nat)]
      BY <1>2, <1>6 DEF MoneyStates, Points, Kinds
    <2>2. arm \in [state : ArmStates, priced : Seq(Nat), reading : Nat]
      BY <1>6 DEF ArmStates
    <2>3. actions \in [Keys -> [state : ActionStates, row : Rows \cup {0}, price : Nat]]
      BY <1>6 DEF ActionStates
    <2> QED BY <2>1, <2>2, <2>3 DEF Shape
  <1>8. Tied
    BY <1>3, <1>6 DEF Tied, Located, Driven, Priced, ProvedExists
  <1>9. Armed
    BY <1>6 DEF Armed
  <1>10. Sales
    BY DEF Init, Sales
  <1> QED BY <1>5, <1>7, <1>8, <1>9, <1>10 DEF IInv

LEMMA Inductive ==
    ASSUME IInv, [Next]_vars
    PROVE  IInv'
  <1>1. Books' /\ Shape'
    BY BooksStep, ShapeStep DEF IInv
  <1>2. CASE Next
    BY <1>1, <1>2, ActionsTied, MoneyTied, ArmedStep, SalesStep DEF IInv, Tied
  <1>3. CASE UNCHANGED vars
    <2>1. Tied'
      BY <1>3 DEF vars, IInv, Tied, Located, Driven, Priced, ProvedExists, Keys, Key, Rows,
                  Billing, CurrentKey, Row, Holding, LookupKey
    <2>2. Armed'
      BY <1>3 DEF vars, IInv, Armed, Listed, Rows
    <2>3. Sales'
      BY <1>3 DEF vars, IInv, Sales, Rows
    <2> QED BY <1>1, <2>1, <2>2, <2>3 DEF IInv
  <1> QED BY <1>2, <1>3

LEMMA Sufficient ==
    ASSUME IInv
    PROVE  Inv /\ ArmedAsListed
  <1>1. Books /\ Shape /\ Tied /\ Armed /\ Sales
    BY DEF IInv
  <1>2. DOMAIN prices = 1 .. Len(prices)
    BY <1>1 DEF Books
  <1>3. Len(catalogue) \in Nat \ {0} /\ Rows = 1 .. Len(catalogue)
    BY <1>1, Catalogued DEF Books
  <1>4. \A p \in DOMAIN prices : prices[p].lookup \in {LookupKey(catalogue[r]) : r \in Rows}
    BY <1>1, <1>2 DEF Books, Lookups
  <1>5. \A k \in DOMAIN actions :
          /\ actions[k].state \in ActionStates /\ actions[k].row \in Rows \cup {0}
          /\ actions[k].price \in DOMAIN prices \cup {0}
    BY <1>1, <1>2 DEF Shape, Tied, Located
  <1>6. /\ money.state \in MoneyStates /\ money.pc \in Points /\ arm.state \in ArmStates
        /\ money.row \in Rows /\ money.kind \in Kinds
    BY <1>1 DEF Shape
  <1>7. Len(money.priced) <= Len(catalogue)
    BY <1>1, <1>3, <1>6 DEF Tied, Priced
  <1>8. sold \subseteq [row : Rows, price : DOMAIN prices]
    BY <1>1, <1>2 DEF Sales
  <1>9. TypeOK
    BY <1>1, <1>4, <1>5, <1>6, <1>7, <1>8
       DEF TypeOK, Books, ActionStates, MoneyStates, Points, ArmStates
  <1>10. ArmedAsListed
    BY <1>1 DEF Armed, Listed, ArmedAsListed
  <1> QED BY <1>1, <1>9, <1>10 DEF Inv, Tied

(* For every set of catalogues, and however calls fail, workers die and people
   archive: what reads succeeded exists at the processor as its row says
   (StripeProductAdapter, StripePriceAdapter and the gate that runs them). *)
THEOREM EvidenceExists == Spec => []Inv
  <1> QED BY Initially, Inductive, Sufficient, PTL DEF Spec

(* No charge path reads armed over a price that differs from its row of the
   catalogue in amount or currency (ArmChargePathAdapter.verify). *)
THEOREM ArmedSafe == Spec => []ArmedAsListed
  <1> QED BY Initially, Inductive, Sufficient, PTL DEF Spec

-----------------------------------------------------------------------------
(* What is sold.  A slug names one offer of a catalogue: its rows share their
   name, their amount and how often it is made, and may differ in currency. *)
SlugsNameOffers ==
    \A c \in Catalogues : \A q, r \in DOMAIN c : c[q].slug = c[r].slug =>
        c[q].name = c[r].name /\ c[q].amount = c[r].amount /\ c[q].interval = c[r].interval

(* A price is one of a row. *)
PriceOf(price, row) ==
    /\ price.lookup = LookupKey(row) /\ price.amount = row.amount
    /\ price.currency = row.currency /\ price.interval = row.interval

Offered == \A p \in 1 .. Len(prices) : \E r \in Rows : PriceOf(prices[p], catalogue[r])

(* The handler is at the action it drives, in the state it left it in. *)
Driving ==
    /\ money.pc = "call" => actions[CurrentKey].state = "executing"
    /\ money.pc = "prove" => actions[CurrentKey].state = "verifying"

(* A list of prices holds the evidence of the rows' price actions. *)
IsEvidence(priced) ==
    \A i \in 1 .. Len(priced) : i \in Rows =>
        LET action == actions[Key("price", catalogue[i])] IN
        action.state = "succeeded" /\ action.price = priced[i]

Evident == IsEvidence(money.priced) /\ IsEvidence(arm.priced)

LEMMA OfferedStep ==
    ASSUME Books, Shape, Offered, Next
    PROVE  /\ Offered'
           /\ \A p \in 1 .. Len(prices) : prices'[p].interval = prices[p].interval
  <1>1. Books' /\ Kept
    BY BooksStep
  <1>2. /\ prices \in Seq(PriceRecord) /\ Len(prices) \in Nat
        /\ DOMAIN prices = 1 .. Len(prices)
        /\ catalogue' = catalogue /\ Rows' = Rows
    BY <1>1, KeysStay DEF Kept, Books
  <1>3. CASE prices' = prices
    BY <1>2, <1>3 DEF Offered, PriceOf, LookupKey
  <1>4. ASSUME NEW r \in Rows, Create(money.kind, catalogue[r]), prices' # prices
        PROVE  /\ Offered'
               /\ \A p \in 1 .. Len(prices) : prices'[p].interval = prices[p].interval
    <2> DEFINE row == catalogue[r]
               new == [lookup |-> LookupKey(row), amount |-> row.amount,
                       currency |-> row.currency, interval |-> row.interval, active |-> TRUE]
    <2>1. prices' = Append(prices, new)
      BY <1>4 DEF Create
    <2>2. PriceOf(new, row)
      BY DEF PriceOf
    <2> HIDE DEF new
    <2>3. /\ Len(prices') = Len(prices) + 1 /\ prices'[Len(prices) + 1] = new
          /\ \A p \in 1 .. Len(prices) : prices'[p] = prices[p]
      BY <1>2, <2>1
    <2>4. \A p \in 1 .. Len(prices') : p \in 1 .. Len(prices) \/ p = Len(prices) + 1
      BY <1>2, <2>3
    <2> QED BY <1>2, <2>2, <2>3, <2>4 DEF Offered, PriceOf, LookupKey
  <1>5. ASSUME NEW p \in DOMAIN prices, prices' = [prices EXCEPT ![p].active = FALSE]
        PROVE  /\ Offered'
               /\ \A q \in 1 .. Len(prices) : prices'[q].interval = prices[q].interval
    <2>1. \A q \in 1 .. Len(prices) :
            prices'[q] = IF q = p THEN [prices[q] EXCEPT !.active = FALSE] ELSE prices[q]
      BY <1>2, <1>5
    <2>2. \A q \in 1 .. Len(prices) : prices[q] \in PriceRecord
      BY <1>2
    <2>3. \A q \in 1 .. Len(prices) :
            /\ prices'[q].interval = prices[q].interval /\ prices'[q].lookup = prices[q].lookup
            /\ prices'[q].amount = prices[q].amount
            /\ prices'[q].currency = prices[q].currency
      BY <2>1, <2>2 DEF PriceRecord
    <2>4. Len(prices') = Len(prices)
      <3>1. DOMAIN prices' = 1 .. Len(prices)
        BY <1>2, <1>5
      <3>2. DOMAIN prices' = 1 .. Len(prices') /\ Len(prices') \in Nat
        BY <1>1 DEF Books
      <3> QED BY <1>2, <3>1, <3>2
    <2> QED BY <1>2, <2>3, <2>4 DEF Offered, PriceOf, LookupKey
  <1>6. \/ prices' = prices
        \/ \E r \in Rows : Create(money.kind, catalogue[r])
        \/ \E p \in DOMAIN prices : prices' = [prices EXCEPT ![p].active = FALSE]
    BY DEF Next, processor, Begin, Describe, Ask, Execute, ExecuteRaises, Prove, Dies, Recover,
           Rerun, RequestArm, Decide, ReadPrice, Click, Archive, Row, Shape
  <1> QED BY <1>3, <1>4, <1>5, <1>6

(* An action that reads succeeded keeps its evidence for ever. *)
LEMMA SucceededStays ==
    ASSUME Books, Shape, Driving, Next, NEW k \in Keys, actions[k].state = "succeeded"
    PROVE  actions'[k] = actions[k]
  <1>1. /\ CurrentKey \in Keys /\ DOMAIN actions = Keys
    BY CurrentKeyTyped DEF Shape
  <1>2. ASSUME NEW q \in Keys, actions[q].state # "succeeded",
               \A j \in Keys : j # q => actions'[j] = actions[j]
        PROVE  actions'[k] = actions[k]
    BY <1>2
  <1>3. CASE Ask
    BY <1>1, <1>3 DEF Ask
  <1>4. CASE Execute \/ ExecuteRaises
    BY <1>1, <1>2, <1>4 DEF Execute, ExecuteRaises, At, Driving, Becomes
  <1>5. CASE Prove
    <2>1. actions[CurrentKey].state # "succeeded"
      BY <1>5 DEF Prove, At, Driving
    <2>2. \A j \in Keys : j # CurrentKey => actions'[j] = actions[j]
      BY <1>1, <1>5 DEF Prove, Proved, Becomes
    <2> QED BY <1>1, <1>2, <2>1, <2>2
  <1>6. ASSUME NEW q \in DOMAIN actions, Recover(q)
        PROVE  actions'[k] = actions[k]
    <2>1. q \in Keys /\ actions[q].state # "succeeded"
      BY <1>1, <1>6 DEF Recover, InFlight
    <2>2. \A j \in Keys : j # q => actions'[j] = actions[j]
      BY <1>1, <1>6 DEF Recover, Proved, Becomes
    <2> QED BY <1>2, <2>1, <2>2
  <1>7. CASE UNCHANGED actions
    BY <1>7
  <1> QED BY <1>3, <1>4, <1>5, <1>6, <1>7 DEF Next, Begin, Describe, Dies, Rerun, RequestArm,
             Decide, ReadPrice, Click, Archive

LEMMA DrivingStep ==
    ASSUME Books, Shape, Driving, Next
    PROVE  Driving'
  <1>1. /\ CurrentKey \in Keys /\ DOMAIN actions = Keys /\ money \in MoneyType
        /\ \A k \in Keys : actions[k] \in [state : ActionStates, row : Rows \cup {0}, price : Nat]
    BY CurrentKeyTyped DEF Shape, MoneyType
  <1>2. catalogue' = catalogue
    BY BooksStep DEF Kept
  <1>3. CASE money'.pc \notin {"call", "prove"}
    BY <1>3 DEF Driving
  <1>4. ASSUME NEW pc, money' = [money EXCEPT !.pc = pc]
        PROVE  CurrentKey' = CurrentKey /\ money'.pc = pc
    <2>1. money'.pc = pc /\ money'.row = money.row /\ money'.kind = money.kind
      BY <1>1, <1>4 DEF MoneyType
    <2> QED BY <1>2, <2>1 DEF CurrentKey, Key, Row, Billing
  <1>5. CASE UNCHANGED money /\ (UNCHANGED actions \/ money.pc = "idle")
    BY <1>2, <1>5 DEF Driving, CurrentKey, Key, Row, Billing
  <1>6. CASE /\ actions' = [actions EXCEPT ![CurrentKey] =
                              [NoAction EXCEPT !.state = "executing", !.row = money.row]]
             /\ money' = [money EXCEPT !.pc = "call"]
    <2>1. actions'[CurrentKey] = [NoAction EXCEPT !.state = "executing", !.row = money.row]
      BY <1>1, <1>6
    <2>2. actions'[CurrentKey].state = "executing"
      BY <2>1 DEF NoAction
    <2> QED BY <1>4, <1>6, <2>2 DEF Driving
  <1>7. CASE Becomes(CurrentKey, "verifying") /\ money' = [money EXCEPT !.pc = "prove"]
    <2>1. actions'[CurrentKey] = [actions[CurrentKey] EXCEPT !.state = "verifying"]
      BY <1>1, <1>7 DEF Becomes
    <2>2. actions'[CurrentKey].state = "verifying"
      BY <1>1, <2>1
    <2> QED BY <1>4, <1>7, <2>2 DEF Driving
  <1>8. CASE money' = [money EXCEPT !.pc = "ask"]
    BY <1>3, <1>4, <1>8
  <1>9. ASSUME NEW e, money' = Onward(e)
        PROVE  money'.pc \notin {"call", "prove"}
    <2>1. CASE money.kind = "product"
      BY <1>1, <1>9, <2>1 DEF Onward, MoneyType
    <2>2. CASE money.kind # "product"
      <3> DEFINE pc == IF money.row = Len(catalogue) THEN "arm" ELSE "ask"
                 row == IF money.row = Len(catalogue) THEN 1 ELSE money.row + 1
                 priced == Append(money.priced, e)
      <3>1. money' = [money EXCEPT !.priced = priced, !.kind = "product",
                                   !.pc = pc, !.row = row]
        BY <1>9, <2>2 DEF Onward
      <3>2. pc \notin {"call", "prove"}
        OBVIOUS
      <3> HIDE DEF pc, row, priced
      <3> QED BY <1>1, <3>1, <3>2 DEF MoneyType
    <2> QED BY <2>1, <2>2
  <1>10. ASSUME NEW state, money' = Rest(state)
         PROVE  money'.pc \notin {"call", "prove"}
    BY <1>10 DEF Rest
  <1>11. CASE Begin
    BY <1>3, <1>11 DEF Begin, Rest
  <1>12. \/ Begin
         \/ UNCHANGED money /\ (UNCHANGED actions \/ money.pc = "idle")
         \/ /\ actions' = [actions EXCEPT ![CurrentKey] =
                              [NoAction EXCEPT !.state = "executing", !.row = money.row]]
            /\ money' = [money EXCEPT !.pc = "call"]
         \/ Becomes(CurrentKey, "verifying") /\ money' = [money EXCEPT !.pc = "prove"]
         \/ money' = [money EXCEPT !.pc = "ask"]
         \/ \E e : money' = Onward(e)
         \/ \E state : money' = Rest(state)
    BY DEF Next, Describe, Ask, Execute, ExecuteRaises, Prove, Dies, Recover, Rerun,
           RequestArm, Decide, ReadPrice, Click, Archive, At
  <1> QED BY <1>3, <1>5, <1>6, <1>7, <1>8, <1>9, <1>10, <1>11, <1>12

(* Evidence is carried to the row it is of, and to the arming in that order. *)
LEMMA EvidentStep ==
    ASSUME Books, Shape, Tied, Driving, Evident, Next
    PROVE  Evident'
  <1>1. /\ CurrentKey \in Keys /\ DOMAIN actions = Keys /\ money \in MoneyType
        /\ \A k \in Keys : actions[k] \in [state : ActionStates, row : Rows \cup {0}, price : Nat]
        /\ arm \in [state : ArmStates, priced : Seq(Nat), reading : Nat]
    BY CurrentKeyTyped DEF Shape, MoneyType
  <1>2. catalogue' = catalogue /\ Keys' = Keys /\ Rows' = Rows
    BY BooksStep, KeysStay DEF Kept
  <1>3. Len(catalogue) \in Nat \ {0} /\ Rows = 1 .. Len(catalogue)
    BY Catalogued DEF Books
  <1>4. ASSUME NEW priced, IsEvidence(priced)
        PROVE  \A i \in 1 .. Len(priced) : i \in Rows =>
                 LET action == actions'[Key("price", catalogue[i])] IN
                 action.state = "succeeded" /\ action.price = priced[i]
    <2> SUFFICES ASSUME NEW i \in 1 .. Len(priced), i \in Rows
                 PROVE  LET action == actions'[Key("price", catalogue[i])] IN
                        action.state = "succeeded" /\ action.price = priced[i]
      OBVIOUS
    <2>1. PICK k \in Keys : k = Key("price", catalogue[i])
      BY DEF Keys, Kinds
    <2>2. actions[k].state = "succeeded" /\ actions[k].price = priced[i]
      BY <1>4, <2>1 DEF IsEvidence
    <2>3. actions'[k] = actions[k]
      BY <2>2, SucceededStays
    <2> QED BY <2>1, <2>2, <2>3
  <1>5. ASSUME NEW priced, IsEvidence(priced), money'.priced = priced
        PROVE  IsEvidence(money.priced)'
    BY <1>2, <1>4, <1>5 DEF IsEvidence, Key, Billing
  <1>6. ASSUME NEW priced, IsEvidence(priced), arm'.priced = priced
        PROVE  IsEvidence(arm.priced)'
    BY <1>2, <1>4, <1>6 DEF IsEvidence, Key, Billing
  <1>7. IsEvidence(<<>>)
    BY DEF IsEvidence
  <1>8. IsEvidence(arm.priced)'
    <2>1. arm'.priced = arm.priced \/ arm'.priced = money.priced
      <3>1. CASE RequestArm
        BY <3>1 DEF RequestArm, NoArm
      <3>2. CASE Decide
        <4>1. \/ arm' = [arm EXCEPT !.state = "verifying", !.reading = 1]
              \/ arm' = [arm EXCEPT !.state = "failed"]
          BY <3>2 DEF Decide
        <4> QED BY <1>1, <4>1
      <3>3. CASE ReadPrice
        BY <1>1, <3>3 DEF ReadPrice
      <3> QED BY <3>1, <3>2, <3>3 DEF Next, Begin, Describe, Ask, Execute, ExecuteRaises,
                 Prove, Dies, Recover, Rerun, Click, Archive
    <2> QED BY <1>6, <2>1 DEF Evident
  <1>9. ASSUME NEW e, money' = Onward(e), money.pc # "arm",
               money.kind = "price" => /\ actions'[CurrentKey].state = "succeeded"
                                       /\ actions'[CurrentKey].price = e
        PROVE  IsEvidence(money.priced)'
    <2>1. CASE money.kind = "product"
      <3>1. money'.priced = money.priced
        BY <1>1, <1>9, <2>1 DEF Onward, MoneyType
      <3> QED BY <1>5, <3>1 DEF Evident
    <2>2. CASE money.kind = "price"
      <3> DEFINE pc == IF money.row = Len(catalogue) THEN "arm" ELSE "ask"
                 row == IF money.row = Len(catalogue) THEN 1 ELSE money.row + 1
                 priced == Append(money.priced, e)
      <3>1. money' = [money EXCEPT !.priced = priced, !.kind = "product",
                                   !.pc = pc, !.row = row]
        BY <1>9, <2>2 DEF Onward
      <3>2. money.row \in Rows /\ money.priced \in Seq(Nat)
        BY <1>1 DEF MoneyType
      <3>3. Len(money.priced) = money.row - 1
        BY <1>9 DEF Tied, Priced
      <3>4. e \in Nat
        <4>1. actions'[CurrentKey] \in [state : ActionStates, row : Rows \cup {0}, price : Nat]
          BY <1>1, <1>2, ShapeStep DEF Shape
        <4> QED BY <1>9, <2>2, <4>1
      <3>5. /\ Len(priced) = money.row
            /\ \A i \in 1 .. Len(priced) :
                   priced[i] = IF i = money.row THEN e ELSE money.priced[i]
        BY <1>3, <3>2, <3>3, <3>4
      <3> HIDE DEF pc, row, priced
      <3>6. money'.priced = priced
        BY <1>1, <3>1 DEF MoneyType
      <3>7. \A i \in 1 .. Len(priced) : i \in Rows =>
              LET action == actions'[Key("price", catalogue[i])] IN
              action.state = "succeeded" /\ action.price = priced[i]
        <4> SUFFICES ASSUME NEW i \in 1 .. Len(priced), i \in Rows
                     PROVE  LET action == actions'[Key("price", catalogue[i])] IN
                            action.state = "succeeded" /\ action.price = priced[i]
          OBVIOUS
        <4>1. CASE i = money.row
          <5>1. CurrentKey = Key("price", catalogue[i])
            BY <2>2, <4>1 DEF CurrentKey, Row
          <5> QED BY <1>9, <2>2, <3>5, <4>1, <5>1
        <4>2. CASE i # money.row
          <5>1. i \in 1 .. Len(money.priced) /\ priced[i] = money.priced[i]
            BY <1>3, <3>2, <3>3, <3>5, <4>2
          <5>2. IsEvidence(money.priced)
            BY DEF Evident
          <5> QED BY <1>4, <5>1, <5>2
        <4> QED BY <4>1, <4>2
      <3> QED BY <1>2, <3>6, <3>7 DEF IsEvidence, Key, Billing
    <2>3. money.kind \in Kinds
      BY <1>1 DEF MoneyType
    <2> QED BY <2>1, <2>2, <2>3 DEF Kinds
  <1>10. IsEvidence(money.priced)'
    <2>1. ASSUME NEW state, money' = Rest(state)
          PROVE  IsEvidence(money.priced)'
      BY <1>5, <1>7, <2>1 DEF Rest
    <2>2. ASSUME NEW pc, money' = [money EXCEPT !.pc = pc]
          PROVE  IsEvidence(money.priced)'
      <3>1. money'.priced = money.priced
        BY <1>1, <2>2 DEF MoneyType
      <3> QED BY <1>5, <3>1 DEF Evident
    <2>3. CASE UNCHANGED money
      BY <1>5, <2>3 DEF Evident
    <2>4. CASE Begin
      BY <1>5, <1>7, <2>4 DEF Begin, Rest
    <2>5. CASE Ask
      <3>1. CASE /\ actions[CurrentKey].state = "succeeded"
                 /\ money' = Onward(actions[CurrentKey].price) /\ UNCHANGED actions
        <4>1. money.pc = "ask"
          BY <2>5 DEF Ask, At
        <4> QED BY <1>9, <3>1, <4>1
      <3> QED BY <2>1, <2>2, <2>5, <3>1 DEF Ask
    <2>6. CASE Prove
      <3>1. ASSUME NEW e \in Evidence(money.kind, Row), Proved(CurrentKey, e),
                   money' = Onward(e)
            PROVE  IsEvidence(money.priced)'
        <4>1. money.pc = "prove"
          BY <2>6 DEF Prove, At
        <4>2. actions'[CurrentKey] =
                [actions[CurrentKey] EXCEPT !.state = "succeeded", !.price = e]
          BY <1>1, <3>1 DEF Proved
        <4>3. actions'[CurrentKey].state = "succeeded" /\ actions'[CurrentKey].price = e
          BY <1>1, <4>2
        <4> QED BY <1>9, <3>1, <4>1, <4>3
      <3> QED BY <2>1, <2>6, <3>1 DEF Prove
    <2>7. \/ Begin \/ Ask \/ Prove \/ UNCHANGED money
          \/ \E state : money' = Rest(state)
          \/ \E pc : money' = [money EXCEPT !.pc = pc]
      BY DEF Next, Describe, Execute, ExecuteRaises, Dies, Recover, Rerun, RequestArm, Decide,
             ReadPrice, Click, Archive
    <2> QED BY <2>1, <2>2, <2>3, <2>4, <2>5, <2>6, <2>7
  <1> QED BY <1>8, <1>10 DEF Evident

Sells == Offered /\ Driving /\ Evident /\ SoldAsListed

(* Rows of one offer share the action of their price, and a run is armed only
   when what that action found is the charge of each. *)
LEMMA ClickSells ==
    ASSUME SlugsNameOffers, IInv, Sells, NEW r \in Rows, Click(r)
    PROVE  SoldAsListed'
  <1>1. PICK p \in PriceFor(catalogue[r].slug) :
          sold' = sold \cup {[row |-> r, price |-> p]}
    BY DEF Click
  <1>2. /\ arm.state = "succeeded" /\ prices' = prices /\ catalogue' = catalogue
    BY DEF Click, processor
  <1>3. Len(catalogue) \in Nat \ {0} /\ Rows = 1 .. Len(catalogue)
        /\ DOMAIN catalogue = Rows /\ catalogue \in Catalogues
        /\ DOMAIN prices = 1 .. Len(prices)
    BY Catalogued DEF IInv, Books, Rows
  <1>4. PICK k \in Keys : /\ k[1] = "price" /\ actions[k].state = "succeeded"
                          /\ catalogue[actions[k].row].slug = catalogue[r].slug
                          /\ p = actions[k].price
    BY DEF PriceFor, IInv, Shape
  <1>5. PICK row : row = catalogue[actions[k].row]
    OBVIOUS
  <1>6. p \in Holding(LookupKey(row))
    BY <1>4, <1>5 DEF IInv, Tied, ProvedExists, Shape
  <1>7. p \in 1 .. Len(prices) /\ prices[p].lookup = LookupKey(row)
    BY <1>3, <1>6 DEF Holding
  <1>8. PICK q \in Rows : PriceOf(prices[p], catalogue[q])
    BY <1>7 DEF Sells, Offered
  <1>9. catalogue[q].slug = catalogue[r].slug
    BY <1>4, <1>5, <1>7, <1>8 DEF PriceOf, LookupKey
  <1>10. /\ catalogue[q].name = catalogue[r].name /\ catalogue[q].amount = catalogue[r].amount
         /\ catalogue[q].interval = catalogue[r].interval
    BY <1>3, <1>8, <1>9 DEF SlugsNameOffers
  <1>11. Key("price", catalogue[q]) = Key("price", catalogue[r])
    BY <1>10 DEF Key, Billing
  <1>12. Len(arm.priced) = Len(catalogue) /\ Listed(q) /\ Listed(r)
    BY <1>2 DEF IInv, Armed
  <1>13. arm.priced[q] = arm.priced[r]
    BY <1>3, <1>11, <1>12 DEF Sells, Evident, IsEvidence
  <1>14. catalogue[q].currency = catalogue[r].currency
    BY <1>12, <1>13 DEF Listed
  <1>15. LET s == [row |-> r, price |-> p]
             price == prices[s.price]
             listed == catalogue[s.row]
         IN  /\ price.amount = listed.amount /\ price.currency = listed.currency
             /\ price.interval = listed.interval
    BY <1>8, <1>10, <1>14 DEF PriceOf
  <1> QED BY <1>1, <1>2, <1>15 DEF Sells, SoldAsListed

LEMMA SoldStep ==
    ASSUME SlugsNameOffers, IInv, Sells, Next
    PROVE  SoldAsListed'
  <1>1. CASE \E r \in Rows : Click(r)
    BY <1>1, ClickSells
  <1>2. CASE UNCHANGED sold
    <2>1. Kept /\ \A p \in 1 .. Len(prices) : prices'[p].interval = prices[p].interval
      BY BooksStep, OfferedStep DEF IInv, Sells
    <2>2. \A s \in sold : s.price \in 1 .. Len(prices)
      BY DEF IInv, Sales
    <2> QED BY <1>2, <2>1, <2>2 DEF Sells, SoldAsListed, Kept
  <1> QED BY <1>1, <1>2 DEF Next, Begin, Describe, Ask, Execute, ExecuteRaises, Prove, Dies,
             Recover, Rerun, RequestArm, Decide, ReadPrice, Archive

(* For every set of catalogues in which a slug names one offer: who clicks a row
   pays that row's amount, in its currency, as often as it says, though rows in
   two currencies share their actions (wire_catalogue, price_for). *)
THEOREM BuyerPaysAsListed == ASSUME SlugsNameOffers PROVE Spec => []SoldAsListed
  <1>1. Init => IInv /\ Sells
    <2> SUFFICES ASSUME Init
                 PROVE  Sells
      BY Initially
    <2>1. Len(prices) = 0 /\ Len(money.priced) = 0 /\ Len(arm.priced) = 0 /\ sold = {}
          /\ money.pc = "idle"
      BY DEF Init, Rest, NoArm
    <2> QED BY <2>1 DEF Sells, Offered, Driving, Evident, IsEvidence, SoldAsListed
  <1>2. IInv /\ Sells /\ [Next]_vars => IInv' /\ Sells'
    <2> SUFFICES ASSUME IInv, Sells, [Next]_vars
                 PROVE  Sells'
      BY Inductive
    <2>1. CASE Next
      BY <2>1, OfferedStep, DrivingStep, EvidentStep, SoldStep DEF IInv, Sells
    <2>2. CASE UNCHANGED vars
      BY <2>2 DEF vars, Sells, Offered, PriceOf, LookupKey, Driving, Evident, IsEvidence,
                  SoldAsListed, Rows, CurrentKey, Key, Row, Billing
    <2> QED BY <2>1, <2>2
  <1> QED BY <1>1, <1>2, PTL DEF Spec, Sells
=============================================================================
