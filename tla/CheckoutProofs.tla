--------------------------- MODULE CheckoutProofs ---------------------------
(***************************************************************************)
(* Proofs about Checkout, for any buyers, deliveries, staff and clicks:    *)
(* the shop does nothing with the gate that the gate does not allow, so    *)
(* what is proved of the gate holds of the shop; a sale is paid for; and   *)
(* an event that was answered has nothing left to do.                      *)
(***************************************************************************)
EXTENDS Checkout, ActionGateProofs

-----------------------------------------------------------------------------
(* Whose session works on what. *)
ShopTyped ==
    /\ checkouts \in [Clicks -> {"none", "open"} \cup Completed]
    /\ orders \in [Clicks -> {"none"} \cup Completed]
    /\ answered \subseteq Clicks
    /\ webhooks \in [Deliveries -> [pc : {"idle", "received", "recorded", "resuming"},
                                    click : Clicks]]
    /\ crashes \in 0 .. MaxCrashes

BuyerPCs == {"checked", "inserted", "conflict", "run", "execute", "executed", "verify",
             "returned"}

(* Staff work on what the run must have armed. *)
StaffHolds(s) == ~At(s, "idle") => Key(s) \in Arming

(* A buyer's request alone works on its click, until it hands the address over. *)
BuyerHolds(s) ==
    ~At(s, "idle") =>
        /\ Key(s) \in Clicks /\ checkouts[Key(s)] = "none"
        /\ sessions[s].pc \in BuyerPCs
        /\ At(s, "returned") /\ sessions[s].outcome = "verifying"
             => rows[Key(s)].state = "verifying"
        /\ \A t \in Buyers : ~At(t, "idle") /\ Key(t) = Key(s) => t = s

(* A delivery re-drives the action of its event, which was executed, and when
   resume() is back the action is settled. *)
DeliveryHolds(d) ==
    /\ webhooks[d].pc # "idle" => checkouts[Event(d)] \in Completed
    /\ webhooks[d].pc \in {"recorded", "resuming"} => orders[Event(d)] # "none"
    /\ ~At(d, "idle") =>
         /\ webhooks[d].pc = "resuming" /\ Key(d) = Event(d)
         /\ sessions[d].pc \in {"run", "verify", "returned"}
         /\ At(d, "run") => Copy(d) = "verifying"
         /\ At(d, "returned") => rows[Key(d)].state \in TerminalStates

(* What a click has come to. *)
ClickIsHonest(k) ==
    /\ checkouts[k] # "none" => rows[k].state \in {"verifying", "succeeded", "failed"}
    /\ orders[k] # "none" => orders[k] = checkouts[k]
    /\ k \in answered => checkouts[k] \in Completed /\ rows[k].state \in TerminalStates
    /\ rows[k].state = "succeeded" => orders[k] = "paid"

Ours ==
    /\ ShopTyped
    /\ \A s \in Sessions : At(s, "idle") => sessions[s] = IdleCall
    /\ \A s \in Staff : StaffHolds(s)
    /\ \A s \in Buyers : BuyerHolds(s)
    /\ \A d \in Deliveries : DeliveryHolds(d)
    /\ \A k \in Clicks : ClickIsHonest(k)

(* The shop's steps are the gate's, or leave the gate alone. *)
LEMMA ShopIsGate ==
    ASSUME TypeOK, Ours, [CheckoutNext]_allVars
    PROVE  [Next]_vars
  <1> USE CheckoutAssumption
  <1>1. ASSUME NEW s \in Sessions, Step(s) \/ Call(s) \/ Crash(s)
        PROVE  Next
    BY <1>1 DEF Next
  <1>2. ASSUME NEW s \in Staff, StaffCalls(s) \/ GateWorks(s) \/ StaffReturns(s)
        PROVE  Next
    BY <1>1, <1>2 DEF StaffCalls, GateWorks, StaffReturns, Step
  <1>3. ASSUME NEW s \in Buyers, (\E k \in Clicks : Click(s, k)) \/ GateWorks(s) \/ HandOver(s)
        PROVE  Next
    BY <1>1, <1>3 DEF Click, Call, GateWorks, HandOver, Step
  <1>4. ASSUME NEW d \in Deliveries, ResumeAction(d)
        PROVE  Next
    <2>1. Event(d) \in Clicks /\ webhooks[d].pc = "recorded"
      BY <1>4 DEF Ours, ShopTyped, Event, ResumeAction, Waiting
    <2>2. rows[Event(d)].state \in {"verifying", "succeeded", "failed"}
      BY <2>1 DEF Ours, DeliveryHolds, ClickIsHonest, Completed
    <2>3. Resumable(rows[Event(d)])
      BY <2>2 DEF Resumable, InFlight, TerminalStates
    <2>4. Event(d) \in Keys \cap DeferredKeys /\ Resume(d, Event(d), TRUE, FALSE)
      BY <1>4, <2>1 DEF ResumeAction
    <2>5. FALSE \in DocFor(Event(d))
      BY DEF DocFor
    <2>6. TRUE \in {o \in BOOLEAN : o => Event(d) \in DeferredKeys}
      BY <2>4
    <2>7. Call(d)
      BY <2>3, <2>4, <2>5, <2>6 DEF Call
    <2> QED BY <1>1, <2>7
  <1>5. ASSUME NEW d \in Deliveries, GateWorks(d) \/ Answer(d)
        PROVE  Next
    BY <1>1, <1>5 DEF GateWorks, Answer, Step
  <1>6. ASSUME NEW s \in Sessions, Dies(s)
        PROVE  [Next]_vars
    <2>1. CASE ~At(s, "idle")
      BY <1>1, <1>6, <2>1 DEF Dies, Crash
    <2>2. CASE At(s, "idle")
      <3>1. sessions' = [sessions EXCEPT ![s] = IdleCall] /\ UNCHANGED <<rows, effects, approved>>
        BY <1>6 DEF Dies
      <3>2. sessions[s] = IdleCall
        BY <2>2 DEF Ours
      <3>3. sessions' = sessions
        BY <3>1, <3>2 DEF TypeOK
      <3> QED BY <3>1, <3>3 DEF vars
    <2> QED BY <2>1, <2>2
  <1>7. ASSUME NEW d \in Deliveries, (\E k \in Clicks : Deliver(d, k)) \/ Record(d)
        PROVE  UNCHANGED vars
    BY <1>7 DEF Deliver, Record, vars, gateVars
  <1>8. ASSUME NEW k \in Clicks, Complete(k)
        PROVE  UNCHANGED vars
    BY <1>8 DEF Complete, vars, gateVars
  <1>9. CASE UNCHANGED allVars
    BY <1>9 DEF allVars, gateVars, vars
  <1> QED BY <1>2, <1>3, <1>4, <1>5, <1>6, <1>7, <1>8, <1>9 DEF CheckoutNext, Handle

-----------------------------------------------------------------------------
(* A step of the gate in one session disturbs nothing of the others'. *)
LEMMA GateFrame ==
    ASSUME TypeOK, Ours, NEW s \in Sessions, Step(s), ~At(s, "returned"), UNCHANGED shopVars,
           s \in Buyers => /\ sessions'[s].pc \in BuyerPCs
                           /\ sessions'[s].pc = "returned" /\ sessions'[s].outcome = "verifying"
                                => rows'[Key(s)].state = "verifying",
           s \in Deliveries => /\ DeliveryHolds(s)'
                               /\ rows[Key(s)].state \in TerminalStates
                                    => rows'[Key(s)].state \in TerminalStates,
           \A k \in Clicks : k = Key(s) => ClickIsHonest(k)'
    PROVE  Ours'
  <1> USE CheckoutAssumption
  <1>1. /\ \A t \in Sessions : t # s => sessions'[t] = sessions[t]
        /\ sessions'[s].key = Key(s) /\ sessions'[s].pc # "idle"
        /\ ~At(s, "idle")
        /\ \A k \in Keys : k # Key(s) => rows'[k] = rows[k]
    BY StepFrame
  <1>2. /\ checkouts' = checkouts /\ orders' = orders /\ answered' = answered
        /\ webhooks' = webhooks /\ crashes' = crashes
    BY DEF shopVars
  <1>3. ShopTyped'
    BY <1>2 DEF Ours, ShopTyped
  <1>4. \A t \in Sessions : At(t, "idle")' => sessions'[t] = IdleCall
    BY <1>1 DEF Ours, At
  <1>5. \A t \in Staff : StaffHolds(t)'
    BY <1>1 DEF Ours, StaffHolds, At, Key, Arming
  <1>6. ASSUME NEW t \in Buyers
        PROVE  BuyerHolds(t)'
    <2>1. CASE t = s
      BY <1>1, <1>2, <2>1 DEF Ours, BuyerHolds, At, Key
    <2>2. CASE t # s /\ ~At(t, "idle")
      <3>1. Key(t) \in Clicks /\ checkouts[Key(t)] = "none"
        BY <2>2 DEF Ours, BuyerHolds
      <3>2. Key(t) # Key(s)
        BY <1>1, <2>2, <3>1 DEF Ours, BuyerHolds, DeliveryHolds, StaffHolds, Arming, Completed
      <3>3. rows'[Key(t)] = rows[Key(t)] /\ sessions'[t] = sessions[t]
        BY <1>1, <2>2, <3>1, <3>2
      <3> QED BY <1>1, <1>2, <2>2, <3>1, <3>2, <3>3 DEF Ours, BuyerHolds, At, Key
    <2>3. CASE t # s /\ At(t, "idle")
      BY <1>1, <2>3 DEF BuyerHolds, At
    <2> QED BY <2>1, <2>2, <2>3
  <1>7. ASSUME NEW d \in Deliveries
        PROVE  DeliveryHolds(d)'
    <2>1. CASE d # s /\ ~At(d, "idle")
      <3>1. sessions'[d] = sessions[d] /\ Key(d) \in Clicks /\ checkouts[Key(d)] \in Completed
        BY <1>1, <2>1 DEF Ours, DeliveryHolds, ShopTyped, Event
      <3>2. rows[Key(d)].state \in TerminalStates => rows'[Key(d)].state \in TerminalStates
        <4>1. CASE Key(d) = Key(s)
          <5>1. s \in Deliveries
            BY <1>1, <3>1, <4>1 DEF Ours, BuyerHolds, StaffHolds, Arming, Completed
          <5> QED BY <4>1, <5>1
        <4>2. CASE Key(d) # Key(s)
          BY <1>1, <3>1, <4>2
        <4> QED BY <4>1, <4>2
      <3> QED BY <1>2, <2>1, <3>1, <3>2 DEF Ours, DeliveryHolds, At, Key, Copy, Event
    <2>2. CASE d # s /\ At(d, "idle")
      BY <1>1, <1>2, <2>2 DEF Ours, DeliveryHolds, At, Event
    <2>3. CASE d = s
      BY <2>3
    <2> QED BY <2>1, <2>2, <2>3
  <1>8. ASSUME NEW k \in Clicks
        PROVE  ClickIsHonest(k)'
    <2>1. CASE k # Key(s)
      BY <1>1, <1>2, <2>1 DEF Ours, ClickIsHonest
    <2> QED BY <2>1
  <1> QED BY <1>3, <1>4, <1>5, <1>6, <1>7, <1>8 DEF Ours

LEMMA NotVerifyingOutcome ==
    ASSUME NEW state PROVE ConflictOutcome(state) # "verifying"
  BY ZenonT(30) DEF ConflictOutcome

(* A buyer's request opens its session, and proves nothing by itself. *)
LEMMA BuyerWorks ==
    ASSUME TypeOK, Ours, NEW s \in Buyers, GateWorks(s)
    PROVE  Ours'
  <1> USE CheckoutAssumption
  <1>0. Step(s) /\ ~At(s, "returned") /\ UNCHANGED shopVars
    BY DEF GateWorks
  <1>1. /\ rows \in [Keys -> Rows] /\ sessions \in [Sessions -> Calls] /\ Key(s) \in Keys
    BY DEF TypeOK, Calls, Key
  <1>2. /\ Key(s) \in Clicks /\ checkouts[Key(s)] = "none" /\ sessions[s].pc \in BuyerPCs
        /\ orders[Key(s)] = "none" /\ rows[Key(s)].state # "succeeded" /\ Key(s) \notin answered
    BY <1>0, StepFrame DEF Ours, BuyerHolds, ClickIsHonest, Completed
  <1>3. ASSUME At(s, "verify"), AttemptsLeft(s)
        PROVE  VerifyFails(s)
    BY <1>2, <1>3 DEF GateWorks, Paid
  <1> DEFINE Goal ==
         /\ sessions'[s].pc \in BuyerPCs
         /\ sessions'[s].pc = "returned" /\ sessions'[s].outcome = "verifying"
              => rows'[Key(s)].state = "verifying"
         /\ rows'[Key(s)].state # "succeeded"
  <1>4. ASSUME NEW outcome, Return(s, outcome)
        PROVE  sessions'[s].pc = "returned" /\ sessions'[s].outcome = outcome
    BY <1>1, <1>4 DEF Return, IdleCall
  <1>5. ASSUME NEW pc, NEW state, Goto(s, pc, state)
        PROVE  sessions'[s].pc = pc
    BY <1>1, <1>5 DEF Goto, Calls
  <1>6. ASSUME RequestInsert(s)
        PROVE  Goal
    <2>1. sessions'[s].pc \in {"inserted", "conflict"}
      BY <1>5, <1>6 DEF RequestInsert
    <2>2. rows'[Key(s)].state # "succeeded"
      BY <1>1, <1>2, <1>6 DEF RequestInsert, PendingRow, NoRow
    <2> QED BY <2>1, <2>2 DEF BuyerPCs
  <1>7. ASSUME RequestConflict(s)
        PROVE  Goal
    BY <1>2, <1>4, <1>7, NotVerifyingOutcome DEF RequestConflict, BuyerPCs
  <1>8. ASSUME RequestPark(s)
        PROVE  Goal
    <2>1. rows'[Key(s)].state = "awaiting_approval"
      BY <1>1, <1>8 DEF RequestPark, Rows
    <2> QED BY <2>1, <1>4, <1>8 DEF RequestPark, BuyerPCs
  <1>9. ASSUME RequestRun(s)
        PROVE  Goal
    BY <1>2, <1>5, <1>9 DEF RequestRun, BuyerPCs
  <1>10. ASSUME RunExecute(s)
        PROVE  Goal
    <2>1. rows'[Key(s)].state = "executing"
      BY <1>1, <1>10 DEF RunExecute, Rows
    <2> QED BY <2>1, <1>5, <1>10 DEF RunExecute, BuyerPCs
  <1>11. ASSUME Execute(s)
        PROVE  Goal
    BY <1>2, <1>5, <1>11 DEF Execute, BuyerPCs
  <1>12. ASSUME ExecuteRaises(s)
        PROVE  Goal
    <2>1. rows'[Key(s)].state = "failed"
      BY <1>1, <1>12 DEF ExecuteRaises, Rows
    <2> QED BY <2>1, <1>4, <1>12 DEF ExecuteRaises, BuyerPCs
  <1>13. ASSUME ExecuteReturns(s)
        PROVE  Goal
    <2>1. rows'[Key(s)].state = "verifying"
      BY <1>1, <1>13 DEF ExecuteReturns, Rows
    <2>2. Return(s, "verifying")
      BY <1>2, <1>13 DEF ExecuteReturns
    <2> QED BY <2>1, <2>2, <1>4 DEF BuyerPCs
  <1>14. ASSUME RunVerify(s)
        PROVE  Goal
    <2>1. rows'[Key(s)].state # "succeeded"
      BY <1>1, <1>2, <1>14 DEF RunVerify, Rows
    <2> QED BY <2>1, <1>5, <1>14 DEF RunVerify, BuyerPCs
  <1>15. ASSUME VerifyFails(s)
        PROVE  Goal
    <2>1. rows'[Key(s)].state = rows[Key(s)].state
      BY <1>1, <1>15 DEF VerifyFails, Rows
    <2>2. sessions'[s].pc = "verify"
      BY <1>1, <1>15 DEF VerifyFails, Calls, At
    <2> QED BY <2>1, <2>2, <1>2 DEF BuyerPCs
  <1>16. ASSUME VerifyGivesUp(s)
        PROVE  Goal
    <2>1. rows'[Key(s)].state = "failed"
      BY <1>1, <1>16 DEF VerifyGivesUp, Rows
    <2> QED BY <2>1, <1>4, <1>16 DEF VerifyGivesUp, BuyerPCs
  <1>17. ASSUME VerifySucceeds(s) \/ VerifyRaises(s)
        PROVE  Goal
    BY <1>3, <1>15, <1>17 DEF VerifySucceeds, VerifyRaises
  <1>18. Goal
    <2>1. ~(RecordApproval(s) \/ Approve(s) \/ Deny(s) \/ Reverify(s) \/ Finish(s))
      BY <1>0, <1>2 DEF RecordApproval, Approve, Deny, Reverify, Finish, At, BuyerPCs
    <2> QED BY <1>0, <1>6, <1>7, <1>8, <1>9, <1>10, <1>11, <1>12, <1>13, <1>14, <1>15, <1>16,
               <1>17, <2>1 DEF Step
  <1>19. \A k \in Clicks : k = Key(s) => ClickIsHonest(k)'
    <2>1. /\ checkouts' = checkouts /\ orders' = orders
          /\ answered' = answered
      BY <1>0 DEF shopVars
    <2>2. checkouts'[Key(s)] = "none" /\ orders'[Key(s)] = "none" /\ Key(s) \notin answered'
          /\ rows'[Key(s)].state # "succeeded"
      BY <1>2, <1>18, <2>1
    <2> QED BY <2>1, <2>2 DEF ClickIsHonest
  <1> QED BY <1>0, <1>18, <1>19, GateFrame

(* A delivery proves a sale that is paid for, or spends an attempt on one that is not. *)
LEMMA DeliveryWorks ==
    ASSUME TypeOK, Ours, NEW d \in Deliveries, GateWorks(d)
    PROVE  Ours'
  <1> USE CheckoutAssumption
  <1>0. Step(d) /\ ~At(d, "returned") /\ UNCHANGED shopVars
    BY DEF GateWorks
  <1>1. rows \in [Keys -> Rows] /\ sessions \in [Sessions -> Calls] /\ Key(d) \in Keys
    BY DEF TypeOK, Calls, Key
  <1>2. /\ Key(d) \in Clicks /\ checkouts[Key(d)] \in Completed /\ Key(d) = Event(d)
        /\ sessions[d].pc \in {"run", "verify"} /\ webhooks[d].pc = "resuming"
        /\ At(d, "run") => Copy(d) = "verifying"
        /\ orders[Key(d)] = checkouts[Key(d)]
        /\ rows[Key(d)].state \in {"verifying", "succeeded", "failed"}
        /\ rows[Key(d)].state = "succeeded" => orders[Key(d)] = "paid"
    <2>1. ~At(d, "idle")
      BY <1>0, StepFrame
    <2>2. /\ Key(d) = Event(d) /\ webhooks[d].pc = "resuming" /\ Event(d) \in Clicks
          /\ checkouts[Event(d)] \in Completed /\ orders[Event(d)] # "none"
          /\ sessions[d].pc \in {"run", "verify"}
          /\ At(d, "run") => Copy(d) = "verifying"
      BY <1>0, <2>1 DEF Ours, DeliveryHolds, ShopTyped, Event, At
    <2> QED BY <2>2 DEF Ours, ClickIsHonest, Completed
  <1>3. ASSUME NEW outcome, Return(d, outcome)
        PROVE  sessions'[d].pc = "returned"
    BY <1>1, <1>3 DEF Return, IdleCall
  <1> DEFINE Goal ==
         \/ sessions'[d].pc = "verify" /\ rows'[Key(d)].state = rows[Key(d)].state
         \/ sessions'[d].pc = "returned" /\ rows'[Key(d)].state = "failed"
         \/ /\ sessions'[d].pc = "returned" /\ rows'[Key(d)].state = "succeeded"
            /\ orders[Key(d)] = "paid"
  <1>4. ASSUME RunVerify(d)
        PROVE  Goal
    <2>1. rows'[Key(d)].state = rows[Key(d)].state
      BY <1>1, <1>2, <1>4 DEF RunVerify, Rows
    <2>2. sessions'[d].pc = "verify"
      BY <1>1, <1>4 DEF RunVerify, Goto, Calls
    <2> QED BY <2>1, <2>2
  <1>5. ASSUME VerifyFails(d)
        PROVE  Goal
    <2>1. rows'[Key(d)].state = rows[Key(d)].state
      BY <1>1, <1>5 DEF VerifyFails, Rows
    <2>2. sessions'[d].pc = "verify"
      BY <1>1, <1>5 DEF VerifyFails, Calls, At
    <2> QED BY <2>1, <2>2
  <1>6. ASSUME VerifySucceeds(d) /\ Paid(Key(d))
        PROVE  Goal
    <2>1. rows'[Key(d)].state = "succeeded"
      BY <1>1, <1>6 DEF VerifySucceeds, Rows
    <2> QED BY <1>3, <1>6, <2>1 DEF VerifySucceeds, Paid
  <1>7. ASSUME VerifyGivesUp(d)
        PROVE  Goal
    <2>1. rows'[Key(d)].state = "failed"
      BY <1>1, <1>7 DEF VerifyGivesUp, Rows
    <2> QED BY <1>3, <1>7, <2>1 DEF VerifyGivesUp
  <1>8. Goal
    <2>1. CASE At(d, "run")
      <3>1. RunExecute(d) \/ RunVerify(d)
        BY <1>0, <2>1 DEF Step, At, RequestInsert, RequestConflict, RequestPark, RequestRun,
             RecordApproval, Approve, Deny, Reverify, Execute, ExecuteRaises, ExecuteReturns,
             VerifyFails, VerifySucceeds, VerifyRaises, VerifyGivesUp, Finish
      <3>2. ~RunExecute(d)
        BY <1>2, <2>1 DEF RunExecute
      <3> QED BY <1>4, <3>1, <3>2
    <2>2. CASE At(d, "verify") /\ AttemptsLeft(d)
      BY <1>2, <1>5, <1>6, <2>2 DEF GateWorks
    <2>3. CASE At(d, "verify") /\ ~AttemptsLeft(d)
      <3>1. VerifyGivesUp(d)
        BY <1>0, <2>3 DEF Step, At, RequestInsert, RequestConflict, RequestPark, RequestRun,
             RecordApproval, Approve, Deny, Reverify, Execute, ExecuteRaises, ExecuteReturns,
             RunExecute, RunVerify, VerifyFails, VerifySucceeds, VerifyRaises, Finish
      <3> QED BY <1>7, <3>1
    <2> QED BY <1>2, <2>1, <2>2, <2>3 DEF At
  <1>9. /\ Key(d)' = Key(d) /\ checkouts' = checkouts /\ orders' = orders
        /\ answered' = answered /\ webhooks' = webhooks
    BY <1>0, StepFrame DEF Key, shopVars
  <1>10. rows[Key(d)].state \in TerminalStates => rows'[Key(d)].state \in TerminalStates
    BY <1>8 DEF TerminalStates
  <1>11. DeliveryHolds(d)'
    BY <1>2, <1>8, <1>9 DEF DeliveryHolds, At, Event, Completed, TerminalStates
  <1>12. \A k \in Clicks : k = Key(d) => ClickIsHonest(k)'
    <2>1. rows'[Key(d)].state \in {"verifying", "succeeded", "failed"}
      BY <1>2, <1>8
    <2>2. rows'[Key(d)].state = "succeeded" => orders[Key(d)] = "paid"
      BY <1>2, <1>8
    <2>3. Key(d) \in answered => rows'[Key(d)].state \in TerminalStates
      BY <1>2, <1>10 DEF Ours, ClickIsHonest
    <2> QED BY <1>2, <1>9, <2>1, <2>2, <2>3 DEF ClickIsHonest
  <1> QED BY <1>0, <1>10, <1>11, <1>12, GateFrame

LEMMA StaffWorks ==
    ASSUME TypeOK, Ours, NEW s \in Staff, GateWorks(s)
    PROVE  Ours'
  <1>1. Step(s) /\ ~At(s, "returned") /\ UNCHANGED shopVars
    BY DEF GateWorks
  <1>2. Key(s) \notin Clicks
    BY <1>1, StepFrame, CheckoutAssumption DEF Ours, StaffHolds, Arming
  <1> QED BY <1>1, <1>2, GateFrame, CheckoutAssumption

-----------------------------------------------------------------------------
(* What opens and what closes a session leaves the rows and the others alone. *)
LEMMA CallFrame ==
    ASSUME TypeOK, NEW s \in Sessions, Call(s)
    PROVE  /\ rows' = rows /\ At(s, "idle") /\ sessions'[s].pc # "idle"
           /\ \A t \in Sessions : t # s => sessions'[t] = sessions[t]
  <1> USE DEF TypeOK
  <1>1. ASSUME NEW pc, NEW k \in Keys, NEW result, NEW doc, pc # "idle", Begin(s, pc, k, result, doc)
        PROVE  /\ At(s, "idle") /\ sessions'[s].pc # "idle"
               /\ \A t \in Sessions : t # s => sessions'[t] = sessions[t]
    BY <1>1 DEF Begin
  <1> PICK k \in Keys :
        \/ RequestCheck(s, k)
        \/ \E call \in {"record_approval", "approve", "deny"} : Decide(s, k, call)
        \/ ReverifyRead(s, k)
        \/ /\ Resumable(rows[k])
           /\ \E observed \in {o \in BOOLEAN : o => k \in DeferredKeys}, doc \in DocFor(k) :
                 Resume(s, k, observed, doc)
    BY DEF Call
  <1>2. CASE RequestCheck(s, k)
    BY <1>1, <1>2 DEF RequestCheck
  <1>3. CASE \E call \in {"record_approval", "approve", "deny"} : Decide(s, k, call)
    BY <1>1, <1>3 DEF Decide
  <1>4. CASE ReverifyRead(s, k)
    BY <1>1, <1>4 DEF ReverifyRead
  <1>5. ASSUME NEW observed, NEW doc, Resume(s, k, observed, doc)
        PROVE  /\ rows' = rows /\ At(s, "idle") /\ sessions'[s].pc # "idle"
               /\ \A t \in Sessions : t # s => sessions'[t] = sessions[t]
    <2>1. CASE rows[k].state \in TerminalStates
      <3>1. At(s, "idle") /\ rows' = rows
        BY <1>5, <2>1 DEF Resume
      <3>2. sessions' = [sessions EXCEPT ![s] =
               [IdleCall EXCEPT !.pc = "returned", !.key = k, !.outcome = rows[k].state]]
        BY <1>5, <2>1 DEF Resume
      <3>3. sessions'[s].pc = "returned"
        BY <3>2 DEF IdleCall
      <3> QED BY <3>1, <3>2, <3>3
    <2>2. CASE rows[k].state \notin TerminalStates
      BY <1>1, <1>5, <2>2 DEF Resume
    <2> QED BY <2>1, <2>2
  <1> QED BY <1>2, <1>3, <1>4, <1>5

LEMMA StaffStep ==
    ASSUME TypeOK, Ours, NEW s \in Staff, StaffCalls(s) \/ StaffReturns(s)
    PROVE  Ours'
  <1> USE CheckoutAssumption
  <1>1. /\ rows' = rows /\ \A t \in Sessions : t # s => sessions'[t] = sessions[t]
        /\ \/ sessions'[s] = IdleCall
           \/ sessions'[s].pc # "idle" /\ sessions'[s].key \in Arming
    BY CallFrame DEF StaffCalls, StaffReturns, Finish, TypeOK
  <1>2. /\ checkouts' = checkouts /\ orders' = orders /\ answered' = answered
        /\ webhooks' = webhooks /\ crashes' = crashes
    BY DEF StaffCalls, StaffReturns, shopVars
  <1>3. ShopTyped' /\ \A k \in Clicks : ClickIsHonest(k)'
    BY <1>1, <1>2 DEF Ours, ShopTyped, ClickIsHonest
  <1>4. \A t \in Sessions : At(t, "idle")' => sessions'[t] = IdleCall
    BY <1>1 DEF Ours, At
  <1>5. IdleCall.pc = "idle"
    BY DEF IdleCall
  <1>6. \A t \in Staff : StaffHolds(t)'
    BY <1>1, <1>5 DEF Ours, StaffHolds, At, Key
  <1>7. \A t \in Buyers : BuyerHolds(t)'
    BY <1>1, <1>2 DEF Ours, BuyerHolds, At, Key
  <1>8. \A d \in Deliveries : DeliveryHolds(d)'
    BY <1>1, <1>2 DEF Ours, DeliveryHolds, At, Key, Copy, Event
  <1> QED BY <1>3, <1>4, <1>6, <1>7, <1>8 DEF Ours

(* A click is a key of its own. *)
LEMMA ClickStep ==
    ASSUME TypeOK, Ours, NEW s \in Buyers, NEW k \in Clicks, Click(s, k)
    PROVE  Ours'
  <1> USE CheckoutAssumption
  <1> PICK doc : Begin(s, "checked", k, FALSE, doc)
    BY DEF Click, RequestCheck
  <1>1. /\ rows' = rows /\ \A t \in Sessions : t # s => sessions'[t] = sessions[t]
        /\ sessions'[s].pc = "checked" /\ sessions'[s].key = k
    BY DEF Click, RequestCheck, Begin, TypeOK
  <1>2. /\ checkouts' = checkouts /\ orders' = orders /\ answered' = answered
        /\ webhooks' = webhooks /\ crashes' = crashes
    BY DEF Click, shopVars
  <1>3. ShopTyped' /\ \A j \in Clicks : ClickIsHonest(j)'
    BY <1>1, <1>2 DEF Ours, ShopTyped, ClickIsHonest
  <1>4. \A t \in Sessions : At(t, "idle")' => sessions'[t] = IdleCall
    BY <1>1 DEF Ours, At
  <1>5. \A t \in Staff : StaffHolds(t)'
    BY <1>1 DEF Ours, StaffHolds, At, Key
  <1>6. checkouts[k] = "none" /\ \A t \in Sessions : ~At(t, "idle") => Key(t) # k
    BY DEF Click, Ours, ClickIsHonest
  <1>7. ASSUME NEW t \in Buyers
        PROVE  BuyerHolds(t)'
    <2>1. CASE t = s
      BY <1>1, <1>2, <1>6, <2>1 DEF BuyerHolds, At, Key, BuyerPCs
    <2>2. CASE t # s
      BY <1>1, <1>2, <1>6, <2>2 DEF Ours, BuyerHolds, At, Key
    <2> QED BY <2>1, <2>2
  <1>8. \A d \in Deliveries : DeliveryHolds(d)'
    BY <1>1, <1>2 DEF Ours, DeliveryHolds, At, Key, Copy, Event
  <1> QED BY <1>3, <1>4, <1>5, <1>7, <1>8 DEF Ours

(* The address of a session is handed over by the request that opened it. *)
LEMMA HandOverStep ==
    ASSUME TypeOK, Ours, NEW s \in Buyers, HandOver(s)
    PROVE  Ours'
  <1> USE CheckoutAssumption
  <1>1. /\ rows' = rows /\ \A t \in Sessions : t # s => sessions'[t] = sessions[t]
        /\ sessions'[s] = IdleCall /\ At(s, "returned")
    BY DEF HandOver, Finish, TypeOK
  <1>2. /\ orders' = orders /\ answered' = answered /\ webhooks' = webhooks
        /\ crashes' = crashes
    BY DEF HandOver
  <1>3. Key(s) \in Clicks /\ checkouts[Key(s)] = "none"
    BY <1>1 DEF Ours, BuyerHolds, At
  <1>4. /\ \A k \in Clicks : k # Key(s) => checkouts'[k] = checkouts[k]
        /\ \/ checkouts'[Key(s)] = "none"
           \/ checkouts'[Key(s)] = "open" /\ rows[Key(s)].state = "verifying"
    BY <1>1, <1>3 DEF HandOver, Ours, BuyerHolds, ShopTyped, At
  <1>5. ShopTyped'
    BY <1>2, <1>3 DEF Ours, ShopTyped, HandOver
  <1>6. \A t \in Sessions : At(t, "idle")' => sessions'[t] = IdleCall
    BY <1>1 DEF Ours, At
  <1>7. IdleCall.pc = "idle"
    BY DEF IdleCall
  <1>8. \A t \in Staff : StaffHolds(t)'
    BY <1>1 DEF Ours, StaffHolds, At, Key
  <1>9. ASSUME NEW t \in Buyers
        PROVE  BuyerHolds(t)'
    <2>1. CASE t = s \/ At(t, "idle")
      BY <1>1, <1>7, <2>1 DEF BuyerHolds, At
    <2>2. CASE t # s /\ ~At(t, "idle")
      <3>1. Key(t) \in Clicks /\ Key(t) # Key(s)
        BY <1>1, <2>2 DEF Ours, BuyerHolds, At
      <3> QED BY <1>1, <1>4, <1>7, <2>2, <3>1 DEF Ours, BuyerHolds, At, Key
    <2> QED BY <2>1, <2>2
  <1>10. ASSUME NEW d \in Deliveries
         PROVE  DeliveryHolds(d)'
    <2>1. /\ webhooks'[d] = webhooks[d] /\ sessions'[d] = sessions[d]
          /\ webhooks[d].pc # "idle" => checkouts'[Event(d)] \in Completed
      BY <1>1, <1>2, <1>3, <1>4 DEF Ours, DeliveryHolds, Completed, ShopTyped, Event
    <2> QED BY <1>1, <1>2, <2>1 DEF Ours, DeliveryHolds, At, Key, Copy, Event
  <1>11. ASSUME NEW k \in Clicks
         PROVE  ClickIsHonest(k)'
    <2>1. CASE k = Key(s)
      BY <1>1, <1>2, <1>3, <1>4, <2>1 DEF Ours, ClickIsHonest, Completed, ShopTyped
    <2>2. CASE k # Key(s)
      BY <1>1, <1>2, <1>4, <2>2 DEF Ours, ClickIsHonest
    <2> QED BY <2>1, <2>2
  <1> QED BY <1>5, <1>6, <1>8, <1>9, <1>10, <1>11 DEF Ours

(* The buyer completes an open session: no request and no delivery is about it. *)
LEMMA CompleteStep ==
    ASSUME TypeOK, Ours, NEW k \in Clicks, Complete(k)
    PROVE  Ours'
  <1> USE CheckoutAssumption
  <1> PICK status \in Completed : checkouts' = [checkouts EXCEPT ![k] = status]
    BY DEF Complete
  <1>1. /\ checkouts[k] = "open" /\ checkouts'[k] = status
        /\ \A j \in Clicks : j # k => checkouts'[j] = checkouts[j]
    BY DEF Complete, Ours, ShopTyped
  <1>2. /\ rows' = rows /\ sessions' = sessions /\ orders' = orders /\ answered' = answered
        /\ webhooks' = webhooks /\ crashes' = crashes
    BY DEF Complete, gateVars
  <1>3. ShopTyped'
    BY <1>2 DEF Ours, ShopTyped
  <1>4. \A t \in Sessions : At(t, "idle")' => sessions'[t] = IdleCall
    BY <1>2 DEF Ours, At
  <1>5. \A t \in Staff : StaffHolds(t)'
    BY <1>2 DEF Ours, StaffHolds, At, Key
  <1>6. \A t \in Buyers : BuyerHolds(t)'
    BY <1>1, <1>2 DEF Ours, BuyerHolds, At, Key
  <1>7. ASSUME NEW d \in Deliveries
        PROVE  DeliveryHolds(d)'
    <2>1. webhooks[d].pc # "idle" => checkouts'[Event(d)] \in Completed
      BY <1>1 DEF Ours, DeliveryHolds, ShopTyped, Event
    <2> QED BY <1>2, <2>1 DEF Ours, DeliveryHolds, At, Key, Copy, Event
  <1>8. ASSUME NEW j \in Clicks
        PROVE  ClickIsHonest(j)'
    <2>1. CASE j = k
      <3>1. orders[k] = "none" /\ k \notin answered /\ rows[k].state # "succeeded"
        BY <1>1 DEF Ours, ClickIsHonest, Completed, ShopTyped
      <3> QED BY <1>1, <1>2, <2>1, <3>1 DEF Ours, ClickIsHonest
    <2>2. CASE j # k
      BY <1>1, <1>2, <2>2 DEF Ours, ClickIsHonest
    <2> QED BY <2>1, <2>2
  <1> QED BY <1>3, <1>4, <1>5, <1>6, <1>7, <1>8 DEF Ours

(* What a delivery does outside the gate: it arrives, and writes the order. *)
LEMMA RecordStep ==
    ASSUME TypeOK, Ours, NEW d \in Deliveries, (\E k \in Clicks : Deliver(d, k)) \/ Record(d)
    PROVE  Ours'
  <1> USE CheckoutAssumption
  <1>1. /\ rows' = rows /\ sessions' = sessions /\ checkouts' = checkouts
        /\ answered' = answered /\ crashes' = crashes
    BY DEF Deliver, Record, gateVars
  <1>2. /\ \A e \in Deliveries : e # d => webhooks'[e] = webhooks[e]
        /\ checkouts[Event(d)'] \in Completed
        /\ \/ webhooks'[d].pc = "received" /\ orders' = orders
           \/ /\ webhooks'[d].pc = "recorded" /\ Event(d)' = Event(d)
              /\ orders' = [orders EXCEPT ![Event(d)] =
                              IF @ = "none" THEN checkouts[Event(d)] ELSE @]
        /\ webhooks[d].pc # "resuming"
        /\ webhooks' \in [Deliveries -> [pc : {"idle", "received", "recorded", "resuming"},
                                         click : Clicks]]
    <2>1. ASSUME NEW k \in Clicks, Deliver(d, k)
          PROVE  <1>2!:
      BY <2>1 DEF Deliver, Ours, ShopTyped, Waiting, Event
    <2>2. CASE Record(d)
      BY <2>2 DEF Record, Goes, Ours, ShopTyped, Waiting, Event, DeliveryHolds
    <2> QED BY <2>1, <2>2
  <1>3. /\ \A k \in Clicks : \/ orders'[k] = orders[k]
                             \/ orders[k] = "none" /\ orders'[k] = checkouts[k]
        /\ webhooks'[d].pc = "recorded" => orders'[Event(d)'] # "none"
        /\ orders' \in [Clicks -> {"none"} \cup Completed]
    BY <1>2 DEF Ours, ShopTyped, Event, Completed
  <1>4. ShopTyped'
    BY <1>1, <1>2, <1>3 DEF Ours, ShopTyped
  <1>5. \A t \in Sessions : At(t, "idle")' => sessions'[t] = IdleCall
    BY <1>1 DEF Ours, At
  <1>6. \A t \in Staff : StaffHolds(t)'
    BY <1>1 DEF Ours, StaffHolds, At, Key
  <1>7. \A t \in Buyers : BuyerHolds(t)'
    BY <1>1 DEF Ours, BuyerHolds, At, Key
  <1>8. ASSUME NEW e \in Deliveries
        PROVE  DeliveryHolds(e)'
    <2>1. CASE e = d
      BY <1>1, <1>2, <1>3, <2>1 DEF Ours, DeliveryHolds, At, Event
    <2>2. CASE e # d
      <3>1. Event(e) \in Clicks /\ Event(e)' = Event(e)
        BY <1>2, <2>2 DEF Ours, ShopTyped, Event
      <3>2. orders[Event(e)] # "none" => orders'[Event(e)] # "none"
        BY <1>3, <3>1
      <3> QED BY <1>1, <1>2, <2>2, <3>1, <3>2 DEF Ours, DeliveryHolds, At, Key, Copy
    <2> QED BY <2>1, <2>2
  <1>9. ASSUME NEW k \in Clicks
        PROVE  ClickIsHonest(k)'
    BY <1>1, <1>3 DEF Ours, ClickIsHonest
  <1> QED BY <1>4, <1>5, <1>6, <1>7, <1>8, <1>9 DEF Ours

(* The delivery re-drives the action: it has its verdict, or waits for it. *)
LEMMA ResumeStep ==
    ASSUME TypeOK, Ours, NEW d \in Deliveries, ResumeAction(d)
    PROVE  Ours'
  <1> USE CheckoutAssumption
  <1>1. /\ Event(d) \in Clicks /\ webhooks[d].pc = "recorded" /\ Resume(d, Event(d), TRUE, FALSE)
        /\ webhooks' = [webhooks EXCEPT ![d].pc = "resuming"]
    BY DEF Ours, ShopTyped, Event, ResumeAction, Waiting, Goes
  <1>2. /\ rows' = rows /\ checkouts' = checkouts /\ orders' = orders /\ answered' = answered
        /\ crashes' = crashes
    BY <1>1 DEF ResumeAction, Resume
  <1>3. rows[Event(d)].state \in {"verifying", "succeeded", "failed"}
    BY <1>1 DEF Ours, DeliveryHolds, ClickIsHonest, Completed
  <1>4. /\ \A t \in Sessions : t # d => sessions'[t] = sessions[t]
        /\ sessions'[d].key = Event(d)
        /\ \/ sessions'[d].pc = "run" /\ sessions'[d].state = "verifying"
           \/ sessions'[d].pc = "returned" /\ rows[Event(d)].state \in TerminalStates
    <2>1. CASE rows[Event(d)].state \in TerminalStates
      <3> PICK k, outcome : k = Event(d) /\ outcome = rows[Event(d)].state
        OBVIOUS
      <3>1. sessions' = [sessions EXCEPT ![d] =
               [IdleCall EXCEPT !.pc = "returned", !.key = k, !.outcome = outcome]]
        BY <1>1, <2>1 DEF Resume
      <3>2. sessions'[d].pc = "returned" /\ sessions'[d].key = k
        BY <3>1 DEF IdleCall, TypeOK
      <3> QED BY <2>1, <3>1, <3>2 DEF TypeOK
    <2>2. CASE rows[Event(d)].state \notin TerminalStates
      <3>1. Begin(d, "run", Event(d), TRUE \/ rows[Event(d)].result, FALSE)
        BY <1>1, <2>2 DEF Resume
      <3>2. rows[Event(d)].state = "verifying"
        BY <1>3, <2>2 DEF TerminalStates
      <3> QED BY <3>1, <3>2 DEF Begin, TypeOK
    <2> QED BY <2>1, <2>2
  <1>5. /\ \A e \in Deliveries : webhooks'[e].click = webhooks[e].click
        /\ \A e \in Deliveries : e # d => webhooks'[e] = webhooks[e]
        /\ webhooks'[d].pc = "resuming"
    BY <1>1 DEF Ours, ShopTyped
  <1>6. ShopTyped'
    BY <1>1, <1>2 DEF Ours, ShopTyped
  <1>7. \A t \in Sessions : At(t, "idle")' => sessions'[t] = IdleCall
    BY <1>4 DEF Ours, At
  <1>8. \A t \in Staff : StaffHolds(t)'
    BY <1>4 DEF Ours, StaffHolds, At, Key
  <1>9. \A t \in Buyers : BuyerHolds(t)'
    BY <1>2, <1>4 DEF Ours, BuyerHolds, At, Key
  <1>10. ASSUME NEW e \in Deliveries
         PROVE  DeliveryHolds(e)'
    <2>1. CASE e = d
      BY <1>1, <1>2, <1>4, <1>5, <2>1 DEF Ours, DeliveryHolds, At, Key, Copy, Event
    <2>2. CASE e # d
      BY <1>2, <1>4, <1>5, <2>2 DEF Ours, DeliveryHolds, At, Key, Copy, Event
    <2> QED BY <2>1, <2>2
  <1>11. \A k \in Clicks : ClickIsHonest(k)'
    BY <1>2 DEF Ours, ClickIsHonest
  <1> QED BY <1>6, <1>7, <1>8, <1>9, <1>10, <1>11 DEF Ours

(* A delivery ends when its call is back, which is when the action has its
   verdict; a process that dies ends a session and settles nothing. *)
LEMMA AnswerStep ==
    ASSUME TypeOK, Ours, NEW s \in Sessions, Dies(s) \/ (s \in Deliveries /\ Answer(s))
    PROVE  Ours'
  <1> USE CheckoutAssumption
  <1>1. /\ rows' = rows /\ checkouts' = checkouts /\ orders' = orders
        /\ \A t \in Sessions : t # s => sessions'[t] = sessions[t]
        /\ sessions'[s] = IdleCall
    BY DEF Dies, Answer, Finish, TypeOK
  <1>2. IdleCall.pc = "idle" /\ NoDelivery.pc = "idle" /\ NoDelivery.click \in Clicks
    BY DEF IdleCall, NoDelivery, AnyClick
  <1>3. /\ \A d \in Deliveries : d # s => webhooks'[d] = webhooks[d]
        /\ s \in Deliveries => webhooks'[s] = NoDelivery
    BY DEF Dies, Answer, Ours, ShopTyped
  <1>4. webhooks' \in [Deliveries -> [pc : {"idle", "received", "recorded", "resuming"},
                                      click : Clicks]]
    BY <1>2 DEF Dies, Answer, Ours, ShopTyped, NoDelivery
  <1>5. \A k \in Clicks : k \in answered' =>
            k \in answered \/ (checkouts[k] \in Completed /\ rows[k].state \in TerminalStates)
    <2>1. CASE Dies(s)
      BY <2>1 DEF Dies
    <2>2. CASE s \in Deliveries /\ Answer(s)
      <3>1. /\ checkouts[Event(s)] \in Completed /\ Key(s) = Event(s)
            /\ rows[Key(s)].state \in TerminalStates
        BY <2>2 DEF Answer, Waiting, Ours, DeliveryHolds, At
      <3> QED BY <2>2, <3>1 DEF Answer
    <2> QED BY <2>1, <2>2
  <1>6. answered' \subseteq Clicks /\ crashes' \in 0 .. MaxCrashes
    <2>1. CASE Dies(s)
      BY <2>1 DEF Dies, Ours, ShopTyped
    <2>2. CASE s \in Deliveries /\ Answer(s)
      BY <2>2 DEF Answer, Ours, ShopTyped, Event
    <2> QED BY <2>1, <2>2
  <1>7. ShopTyped'
    BY <1>1, <1>4, <1>6 DEF Ours, ShopTyped
  <1>8. \A t \in Sessions : At(t, "idle")' => sessions'[t] = IdleCall
    BY <1>1 DEF Ours, At
  <1>9. \A t \in Staff : StaffHolds(t)'
    BY <1>1, <1>2 DEF Ours, StaffHolds, At, Key
  <1>10. \A t \in Buyers : BuyerHolds(t)'
    BY <1>1, <1>2 DEF Ours, BuyerHolds, At, Key
  <1>11. \A d \in Deliveries : DeliveryHolds(d)'
    BY <1>1, <1>2, <1>3 DEF Ours, DeliveryHolds, At, Key, Copy, Event
  <1>12. \A k \in Clicks : ClickIsHonest(k)'
    BY <1>1, <1>5 DEF Ours, ClickIsHonest
  <1> QED BY <1>7, <1>8, <1>9, <1>10, <1>11, <1>12 DEF Ours

LEMMA OursStep == TypeOK /\ Ours /\ [CheckoutNext]_allVars => Ours'
  <1> SUFFICES ASSUME TypeOK, Ours, [CheckoutNext]_allVars PROVE Ours'
    OBVIOUS
  <1> USE CheckoutAssumption
  <1>1. ASSUME NEW s \in Staff, StaffCalls(s) \/ GateWorks(s) \/ StaffReturns(s)
        PROVE  Ours'
    BY <1>1, StaffWorks, StaffStep
  <1>2. ASSUME NEW s \in Buyers, (\E k \in Clicks : Click(s, k)) \/ GateWorks(s) \/ HandOver(s)
        PROVE  Ours'
    BY <1>2, ClickStep, BuyerWorks, HandOverStep
  <1>3. ASSUME NEW d \in Deliveries, (\E k \in Clicks : Deliver(d, k)) \/ Handle(d)
        PROVE  Ours'
    BY <1>3, RecordStep, ResumeStep, DeliveryWorks, AnswerStep DEF Handle
  <1>4. ASSUME NEW k \in Clicks, Complete(k)
        PROVE  Ours'
    BY <1>4, CompleteStep
  <1>5. ASSUME NEW s \in Sessions, Dies(s)
        PROVE  Ours'
    BY <1>5, AnswerStep
  <1>6. CASE UNCHANGED allVars
    BY <1>6 DEF allVars, gateVars, shopVars, Ours, ShopTyped, StaffHolds, BuyerHolds,
                DeliveryHolds, ClickIsHonest, At, Key, Copy, Event
  <1> QED BY <1>1, <1>2, <1>3, <1>4, <1>5, <1>6 DEF CheckoutNext

-----------------------------------------------------------------------------

(* The shop's sessions and books stay what they are taken for. *)
THEOREM Shop == CheckoutSpec => [](TypeOK /\ Ours)
  <1>1. CheckoutInit => TypeOK /\ Ours
    <2> SUFFICES ASSUME CheckoutInit PROVE TypeOK /\ Ours
      OBVIOUS
    <2> USE CheckoutAssumption
    <2>1. NoRow \in Rows /\ IdleCall \in Calls /\ IdleCall.pc = "idle" /\ NoRow.state = "absent"
      BY AttemptsAssumption, IdleCallType, KeysAssumption DEF NoRow, Rows, RowStates, Decisions
    <2>2. TypeOK
      BY <2>1 DEF CheckoutInit, Init, TypeOK
    <2>3. NoDelivery.pc = "idle" /\ NoDelivery \in [pc : {"idle"}, click : Clicks]
      BY DEF NoDelivery, AnyClick
    <2>4. ShopTyped
      BY <2>3 DEF CheckoutInit, ShopTyped
    <2>5. \A s \in Sessions : sessions[s] = IdleCall
      BY DEF CheckoutInit, Init
    <2>6. \A k \in Clicks : ClickIsHonest(k)
      BY <2>1 DEF CheckoutInit, Init, ClickIsHonest
    <2>7. \A d \in Deliveries : DeliveryHolds(d)
      BY <2>1, <2>3, <2>5 DEF CheckoutInit, DeliveryHolds, At
    <2> QED BY <2>1, <2>2, <2>4, <2>5, <2>6, <2>7 DEF Ours, StaffHolds, BuyerHolds, At
  <1>2. TypeOK /\ Ours /\ [CheckoutNext]_allVars => (TypeOK /\ Ours)'
    BY ShopIsGate, TypeStep, OursStep
  <1> QED BY <1>1, <1>2, PTL DEF CheckoutSpec

(* The shop does nothing with the gate that the gate does not allow. *)
THEOREM ShopUsesGate == CheckoutSpec => Spec
  <1>1. CheckoutInit => Init
    BY DEF CheckoutInit
  <1>2. TypeOK /\ Ours /\ [CheckoutNext]_allVars => [Next]_vars
    BY ShopIsGate
  <1> QED BY <1>1, <1>2, Shop, PTL DEF CheckoutSpec, Spec

(* What is proved of the gate holds in the shop: nothing reaches the world
   unapproved, nor before what it requires is proved. *)
THEOREM ShopKeepsTheGate == CheckoutSpec => []Inv /\ []RequiredFirst /\ LedgerSpec
  BY ShopUsesGate, Invariance, RequiredSafe, Refinement, PTL

(* A checkout that reads `succeeded` was paid for by its own buyer. *)
THEOREM SalesPaid == CheckoutSpec => []SoldIsPaid
  <1>1. Ours => SoldIsPaid
    BY DEF Ours, ClickIsHonest, SoldIsPaid
  <1> QED BY <1>1, Shop, PTL

(* An answered event has nothing left to do. *)
THEOREM AnswersSettled == CheckoutSpec => []AnsweredIsSettled
  <1>1. Ours => AnsweredIsSettled
    BY DEF Ours, ShopTyped, ClickIsHonest, AnsweredIsSettled
  <1> QED BY <1>1, Shop, PTL

(* Every reachable state of the shop is well typed. *)
THEOREM ShopTypes == CheckoutSpec => []CheckoutTypeOK
  <1>1. TypeOK /\ Ours => CheckoutTypeOK
    BY DEF Ours, ShopTyped, CheckoutTypeOK
  <1> QED BY <1>1, Shop, PTL
=============================================================================
