-------------------------- MODULE ActionGateProofs --------------------------
(***************************************************************************)
(* Proofs, for every set of keys, sessions and prerequisites and every     *)
(* attempts cap, that the gate keeps its safety invariants and that it     *)
(* implements its ledger.                                                  *)
(***************************************************************************)
EXTENDS ActionGate, TLAPS

(* What a session is between two calls is a call record too. *)
LEMMA IdleCallType ==
    ASSUME NEW k \in Keys
    PROVE  /\ IdleCall \in Calls
           /\ IdleCall.pc = "idle"
           /\ IdleCall.state = "absent"
  <1>1. AnyKey \in Keys
    BY DEF AnyKey
  <1>2. QED
    BY <1>1, AttemptsAssumption
    DEF IdleCall, Calls, PCs, RowStates, Outcomes, InFlight, TerminalStates

(* The type of every variable is kept by every step. *)
LEMMA TypeStep == TypeOK /\ [Next]_vars => TypeOK'
  <1> SUFFICES ASSUME TypeOK, [Next]_vars PROVE TypeOK'
    OBVIOUS
  <1> USE DEF TypeOK
  <1>0. 0 \in 0 .. MaxVerifyAttempts
    BY AttemptsAssumption
  <1>1. CASE UNCHANGED vars
    BY <1>1 DEF vars
  <1>2. CASE Next
    <2> PICK s \in Sessions : Call(s) \/ Step(s) \/ Crash(s)
      BY <1>2 DEF Next
    <2>0. /\ sessions[s] \in Calls
          /\ Key(s) \in Keys
          /\ rows[Key(s)] \in Rows
          /\ IdleCall \in Calls
      BY IdleCallType DEF Key, Calls
    <2>1. ASSUME NEW k \in Keys, NEW pc \in PCs, NEW result \in BOOLEAN, NEW doc \in BOOLEAN,
                 Begin(s, pc, k, result, doc), UNCHANGED <<rows, effects, approved>>
          PROVE  TypeOK'
      BY <2>0, <2>1 DEF Begin, Calls, Rows, Outcomes, RowStates
    <2>2. ASSUME NEW outcome \in Outcomes, Return(s, outcome)
          PROVE  sessions' \in [Sessions -> Calls]
      BY <2>0, <2>2 DEF Return, Calls, PCs
    <2>3. ASSUME NEW pc \in PCs, NEW state \in RowStates, Goto(s, pc, state)
          PROVE  sessions' \in [Sessions -> Calls]
      BY <2>0, <2>3 DEF Goto, Calls
    <2>4. CASE Call(s)
      <3> PICK k \in Keys :
            \/ RequestCheck(s, k)
            \/ \E call \in {"record_approval", "approve", "deny"} : Decide(s, k, call)
            \/ ReverifyRead(s, k)
            \/ /\ Resumable(rows[k])
               /\ \E observed \in {o \in BOOLEAN : o => k \in DeferredKeys}, doc \in DocFor(k) :
                     Resume(s, k, observed, doc)
        BY <2>4 DEF Call
      <3>1. CASE RequestCheck(s, k)
        BY <2>1, <3>1 DEF RequestCheck, DocFor, PCs
      <3>2. CASE \E call \in {"record_approval", "approve", "deny"} : Decide(s, k, call)
        BY <2>1, <3>2 DEF Decide, PCs
      <3>3. CASE ReverifyRead(s, k)
        BY <2>1, <3>3 DEF ReverifyRead, PCs
      <3>4. ASSUME NEW observed \in BOOLEAN, NEW doc \in BOOLEAN, Resume(s, k, observed, doc)
            PROVE  TypeOK'
        <4>1. CASE rows[k].state \in TerminalStates
          <5>1. rows[k].state \in Outcomes
            BY DEF Rows, Outcomes
          <5>2. sessions' \in [Sessions -> Calls]
            <6>1. sessions' = [sessions EXCEPT ![s] =
                     [IdleCall EXCEPT !.pc = "returned", !.key = k,
                                      !.outcome = rows[k].state]]
              BY <3>4, <4>1 DEF Resume
            <6>2. QED
              BY <2>0, <5>1, <6>1 DEF Calls, PCs
          <5>3. QED
            BY <3>4, <5>2 DEF Resume
        <4>2. CASE rows[k].state \notin TerminalStates
          <5>1. (observed \/ rows[k].result) \in BOOLEAN
            BY DEF Rows
          <5>2. QED
            BY <2>1, <3>4, <4>2, <5>1 DEF Resume, PCs
        <4>3. QED
          BY <4>1, <4>2
      <3>5. QED
        BY <3>1, <3>2, <3>3, <3>4 DEF DocFor
    <2>5. CASE Crash(s)
      BY <2>0, <2>5 DEF Crash
    <2>6. CASE Finish(s)
      BY <2>0, <2>6 DEF Finish
    <2>7. CASE RequestInsert(s)
      <3>1. PendingRow \in Rows
        BY <1>0 DEF PendingRow, NoRow, Rows, RowStates, Decisions
      <3>2. "inserted" \in PCs /\ "conflict" \in PCs /\ {"pending", "absent"} \subseteq RowStates
        BY DEF PCs, RowStates
      <3>3. QED
        BY <2>0, <2>3, <2>7, <3>1, <3>2 DEF RequestInsert
    <2>8. CASE RequestConflict(s)
      BY <2>0, <2>2, <2>8 DEF RequestConflict, ConflictOutcome, Outcomes, RowStates, TerminalStates
    <2>9. CASE RequestPark(s)
      BY <2>0, <2>2, <2>9 DEF RequestPark, Rows, RowStates, Outcomes
    <2>10. CASE RequestRun(s)
      BY <2>0, <2>3, <2>10 DEF RequestRun, Copy, Calls, PCs
    <2>11. CASE RecordApproval(s)
      BY <2>0, <2>2, <2>11 DEF RecordApproval, Copy, Calls, Rows, Decisions, Outcomes
    <2>12. CASE Approve(s)
      <3>1. rows' \in [Keys -> Rows]
        BY <2>0, <2>12 DEF Approve, Rows, Decisions
      <3>2. sessions' \in [Sessions -> Calls]
        <4> PICK doc \in BOOLEAN :
               sessions' = [sessions EXCEPT ![s].pc = "run", ![s].doc = doc]
          BY <2>12 DEF Approve, DocFor
        <4> QED
          BY <2>0 DEF Calls, PCs
      <3>3. QED
        BY <2>0, <2>12, <3>1, <3>2 DEF Approve
    <2>13. CASE Deny(s)
      BY <2>0, <2>2, <2>13 DEF Deny, Rows, Decisions, RowStates, TerminalStates, Outcomes
    <2>14. CASE Reverify(s)
      <3>1. rows' \in [Keys -> Rows]
        BY <1>0, <2>0, <2>14 DEF Reverify, Rows, RowStates, InFlight
      <3>2. "verifying" \in Outcomes
        BY DEF Outcomes, RowStates, InFlight
      <3>3. QED
        BY <2>2, <2>14, <3>1, <3>2 DEF Reverify
    <2>15. CASE RunExecute(s)
      BY <2>0, <2>3, <2>15 DEF RunExecute, Rows, RowStates, InFlight, PCs
    <2>16. CASE Execute(s)
      BY <2>0, <2>3, <2>16 DEF Execute, Copy, Calls, PCs
    <2>17. CASE ExecuteRaises(s)
      BY <2>0, <2>2, <2>17 DEF ExecuteRaises, Rows, RowStates, TerminalStates, Outcomes
    <2>18. CASE ExecuteReturns(s)
      <3>1. rows' \in [Keys -> Rows]
        BY <2>0, <2>18 DEF ExecuteReturns, Rows, RowStates, InFlight
      <3>2. CASE Key(s) \in DeferredKeys
        BY <2>2, <2>18, <3>1, <3>2 DEF ExecuteReturns, Outcomes, RowStates, InFlight
      <3>3. CASE Key(s) \notin DeferredKeys
        BY <2>0, <2>18, <3>1, <3>3 DEF ExecuteReturns, Calls, PCs, RowStates, InFlight
      <3>4. QED
        BY <3>2, <3>3
    <2>19. CASE RunVerify(s)
      BY <2>0, <2>3, <2>19 DEF RunVerify, Rows, RowStates, InFlight, PCs
    <2>20. CASE VerifyFails(s)
      BY SMTT(30), AttemptsAssumption, <2>0, <2>20 DEF VerifyFails, AttemptsLeft, Rows, Calls
    <2>21. CASE VerifySucceeds(s)
      BY <2>0, <2>2, <2>21 DEF VerifySucceeds, Rows, RowStates, TerminalStates, Outcomes
    <2>22. CASE VerifyRaises(s)
      BY <2>0, <2>2, <2>22 DEF VerifyRaises, Outcomes
    <2>23. CASE VerifyGivesUp(s)
      BY <2>0, <2>2, <2>23 DEF VerifyGivesUp, Rows, RowStates, TerminalStates, Outcomes
    <2>24. QED
      BY <2>4, <2>5, <2>6, <2>7, <2>8, <2>9, <2>10, <2>11, <2>12, <2>13, <2>14, <2>15,
         <2>16, <2>17, <2>18, <2>19, <2>20, <2>21, <2>22, <2>23 DEF Step
  <1>3. QED
    BY <1>1, <1>2

(* Every reachable state is well typed. *)
THEOREM TypeCorrect == Spec => []TypeOK
  <1>1. Init => TypeOK
    <2>1. NoRow \in Rows
      BY AttemptsAssumption DEF NoRow, Rows, RowStates, Decisions
    <2>2. IdleCall \in Calls
      BY IdleCallType, KeysAssumption
    <2>3. QED
      BY <2>1, <2>2 DEF Init, TypeOK
  <1>2. QED
    BY <1>1, TypeStep, PTL DEF Spec

(* The invariant without its type part. *)
Rest == /\ HolderIsFirst /\ CallsAreLicensed /\ RowsAreHonest
        /\ ApprovalBeforeEffect /\ AutomaticOnce

(* A session that ends its call, and writes nothing, disturbs nothing. *)
LEMMA StopStep ==
    ASSUME Inv, TypeOK', NEW s \in Sessions, UNCHANGED <<rows, effects, approved>>,
           \A t \in Sessions : t # s => sessions'[t] = sessions[t],
           sessions'[s].pc \in {"idle", "conflict", "returned"}
    PROVE  Rest'
  <1> USE DEF At, Key, Copy, Inv
  <1>1. HolderIsFirst'
    BY DEF HolderIsFirst, Fresh, Holder
  <1>2. CallsAreLicensed'
    BY DEF CallsAreLicensed, Licensed, Fresh
  <1>3. (RowsAreHonest /\ ApprovalBeforeEffect /\ AutomaticOnce)'
    BY DEF RowsAreHonest, ApprovalBeforeEffect, AutomaticOnce
  <1>4. QED
    BY <1>1, <1>2, <1>3 DEF Rest

(* A session that begins a call other than an insert, on a row it has read. *)
LEMMA BeginStep ==
    ASSUME Inv, TypeOK', NEW s \in Sessions, NEW k \in Keys, NEW pc, NEW result, NEW doc,
           Begin(s, pc, k, result, doc), UNCHANGED <<rows, effects, approved>>,
           \/ pc = "checked" /\ \A p \in Requires[k] : rows[p].evidence
           \/ pc \in {"record_approval", "approve", "deny"} /\ Undecided(rows[k])
           \/ pc = "reverify" /\ rows[k].state = "failed"
           \/ pc = "run" /\ Resumable(rows[k]) /\ rows[k].state \notin TerminalStates
    PROVE  Rest'
  <1> USE DEF At, Key, Copy, Inv, TypeOK
  <1>1. /\ At(s, "idle")
        /\ \A t \in Sessions : t # s => sessions'[t] = sessions[t]
        /\ sessions'[s].pc = pc /\ sessions'[s].key = k /\ sessions'[s].state = rows[k].state
    BY DEF Begin
  <1>2. pc = "run" => \/ rows[k].state \in InFlight
                      \/ rows[k].state = "awaiting_approval" /\ k \in approved \cap ApprovalKeys
    <2> HAVE pc = "run"
    <2>1. rows[k] \in Rows /\ Resumable(rows[k]) /\ rows[k].state \notin TerminalStates
      OBVIOUS
    <2>2. CASE rows[k].decision = "none"
      BY <2>1, <2>2 DEF Resumable
    <2>3. CASE rows[k].decision # "none"
      BY <2>1, <2>3 DEF RowsAreHonest, Rows, RowStates, Decisions
    <2>4. QED
      BY <2>2, <2>3
  <1>3. HolderIsFirst'
    BY <1>1, <1>2 DEF HolderIsFirst, Fresh, Holder, InFlight
  <1>4. CallsAreLicensed'
    BY <1>1, <1>2 DEF CallsAreLicensed, Licensed, RowsAreHonest, Fresh, Undecided, InFlight
  <1>5. (RowsAreHonest /\ ApprovalBeforeEffect /\ AutomaticOnce)'
    BY DEF RowsAreHonest, ApprovalBeforeEffect, AutomaticOnce
  <1>6. QED
    BY <1>3, <1>4, <1>5 DEF Rest

(* A session that writes the row it is licensed to write, other than a first
   insert, disturbs no other session: what is left to show is what the row now
   says, and what the writer may do next. *)
LEMMA WriteStep ==
    ASSUME Inv, TypeOK', NEW s \in Sessions,
           \A t \in Sessions : t # s => sessions'[t] = sessions[t],
           sessions'[s].key = Key(s),
           \A k \in Keys : k # Key(s) => rows'[k] = rows[k],
           effects' = effects, approved \subseteq approved',
           rows[Key(s)].state \notin {"absent", "pending"} \/ Fresh(s),
           Fresh(s)' => FALSE, Holder(s)' => Holder(s), Licensed(s)',
           rows'[Key(s)].state \notin {"absent", "pending"},
           rows[Key(s)].evidence => rows'[Key(s)].evidence,
           rows'[Key(s)].state = "awaiting_approval"
             => Key(s) \in ApprovalKeys /\ rows'[Key(s)].decision # "denied",
           rows'[Key(s)].decision = "approved" => Key(s) \in approved',
           rows'[Key(s)].state = "succeeded" => rows'[Key(s)].evidence,
           rows'[Key(s)].evidence => effects[Key(s)] > 0
    PROVE  Rest'
  <1> USE DEF Inv
  <1>1. Key(s) \in Keys /\ Key(s)' = Key(s) /\ rows[Key(s)].state # "absent"
    BY DEF TypeOK, Calls, Key, HolderIsFirst, Fresh
  <1>2. ASSUME NEW t \in Sessions, t # s
        PROVE  /\ Key(t) \in Keys /\ Key(t)' = Key(t)
               /\ Fresh(t)' = Fresh(t) /\ Holder(t)' = Holder(t)
               /\ Fresh(t) => Key(t) # Key(s)
    <2>1. Key(t) \in Keys /\ Key(t)' = Key(t)
      BY <1>2 DEF TypeOK, Calls, Key
    <2>2. Fresh(t)' = Fresh(t) /\ Holder(t)' = Holder(t)
      BY <1>2 DEF Fresh, Holder, At, Copy, Key
    <2>3. Fresh(t) => Key(t) # Key(s)
      BY <1>1, <1>2 DEF HolderIsFirst, Holder
    <2>4. QED
      BY <2>1, <2>2, <2>3
  <1>3. \A k \in Keys : rows[k].evidence => rows'[k].evidence
    OBVIOUS
  <1>4. HolderIsFirst'
    <2> SUFFICES ASSUME NEW t \in Sessions
                 PROVE  /\ Fresh(t)' => rows'[Key(t)'].state = "pending"
                        /\ Holder(t)' =>
                             /\ effects'[Key(t)'] = 0
                             /\ \A u \in Sessions : Holder(u)' /\ Key(u)' = Key(t)' => u = t
      BY DEF HolderIsFirst
    <2>1. Fresh(t)' => rows'[Key(t)'].state = "pending"
      BY <1>2 DEF HolderIsFirst
    <2>2. \A u \in Sessions : (Holder(u)' => Holder(u)) /\ Key(u)' = Key(u)
      BY <1>1, <1>2
    <2>3. QED
      BY <2>1, <2>2 DEF HolderIsFirst
  <1>5. CallsAreLicensed'
    <2> SUFFICES ASSUME NEW t \in Sessions, t # s PROVE Licensed(t)'
      BY DEF CallsAreLicensed
    <2>1. Licensed(t) /\ sessions'[t] = sessions[t]
      BY DEF CallsAreLicensed
    <2>2. At(t, "checked") => \A p \in Requires[Key(t)] : rows'[p].evidence
      BY <1>2, <1>3, <2>1, KeysAssumption DEF Licensed
    <2>3. rows[Key(t)].state \notin {"absent", "pending"}
            => rows'[Key(t)].state \notin {"absent", "pending"}
      BY <1>2
    <2>4. Fresh(t)' = Fresh(t) /\ Key(t)' = Key(t)
      BY <1>2
    <2>5. QED
      BY <2>1, <2>2, <2>3, <2>4 DEF Licensed, At, Copy
  <1>6. RowsAreHonest'
    <2> SUFFICES ASSUME NEW k \in Keys
                 PROVE  /\ rows'[k].state \in {"absent", "pending"}
                             => rows'[k].decision = "none" /\ effects'[k] = 0
                        /\ rows'[k].state # "absent" => \A p \in Requires[k] : rows'[p].evidence
                        /\ rows'[k].state = "awaiting_approval"
                             => k \in ApprovalKeys /\ rows'[k].decision # "denied"
                        /\ rows'[k].decision = "approved" => k \in approved'
                        /\ rows'[k].state = "succeeded" => rows'[k].evidence
                        /\ rows'[k].evidence => effects'[k] > 0
      BY DEF RowsAreHonest
    <2>1. rows'[k].state # "absent" => \A p \in Requires[k] : rows'[p].evidence
      BY <1>1, <1>3, KeysAssumption DEF RowsAreHonest
    <2>2. CASE k = Key(s)
      BY <2>1, <2>2
    <2>3. CASE k # Key(s)
      BY <2>1, <2>3 DEF RowsAreHonest
    <2>4. QED
      BY <2>2, <2>3
  <1>7. (ApprovalBeforeEffect /\ AutomaticOnce)'
    BY DEF ApprovalBeforeEffect, AutomaticOnce
  <1>8. QED
    BY <1>4, <1>5, <1>6, <1>7 DEF Rest

(* The steps that write a row, one by one: where the session was, where it is,
   and what became of its row is all that WriteStep needs. *)
LEMMA WritersStep ==
    ASSUME Inv, TypeOK', NEW s \in Sessions,
           \/ RequestPark(s) \/ RecordApproval(s) \/ Approve(s) \/ Deny(s) \/ Reverify(s)
           \/ RunExecute(s) \/ ExecuteRaises(s) \/ ExecuteReturns(s) \/ RunVerify(s)
           \/ VerifyFails(s) \/ VerifySucceeds(s) \/ VerifyGivesUp(s)
    PROVE  Rest'
  <1>1. rows \in [Keys -> Rows] /\ sessions \in [Sessions -> Calls] /\ Key(s) \in Keys
    BY DEF Inv, TypeOK, Calls, Key
  <1>2. /\ Licensed(s)
        /\ Fresh(s) => rows[Key(s)].state = "pending"
        /\ rows[Key(s)].state \in {"absent", "pending"} => rows[Key(s)].decision = "none"
        /\ rows[Key(s)].state = "awaiting_approval"
             => Key(s) \in ApprovalKeys /\ rows[Key(s)].decision # "denied"
        /\ rows[Key(s)].decision = "approved" => Key(s) \in approved
        /\ rows[Key(s)].state = "succeeded" => rows[Key(s)].evidence
        /\ rows[Key(s)].evidence => effects[Key(s)] > 0
    BY <1>1 DEF Inv, HolderIsFirst, CallsAreLicensed, RowsAreHonest
  <1>3. CASE RequestPark(s)
    <2>1. /\ At(s, "inserted") /\ Key(s) \in ApprovalKeys
          /\ sessions'[s].pc = "returned" /\ sessions'[s].key = Key(s)
          /\ \A t \in Sessions : t # s => sessions'[t] = sessions[t]
          /\ rows'[Key(s)].state = "awaiting_approval"
          /\ rows'[Key(s)].decision = rows[Key(s)].decision
          /\ rows'[Key(s)].evidence = rows[Key(s)].evidence
          /\ \A k \in Keys : k # Key(s) => rows'[k] = rows[k]
          /\ effects' = effects /\ approved' = approved
      BY <1>1, <1>3 DEF RequestPark, Goto, Return, IdleCall, At, Key, Copy, Rows, Calls
    <2>2. Fresh(s) /\ rows[Key(s)].state = "pending" /\ rows[Key(s)].decision = "none"
      BY <1>2, <2>1 DEF Licensed, Fresh, At
    <2>3. Licensed(s)' /\ ~Fresh(s)' /\ (Holder(s)' => Holder(s))
      BY <1>2, <2>1, <2>2 DEF Licensed, Fresh, Holder, At, Key, Copy
    <2>4. QED
      BY <1>2, <2>1, <2>2, <2>3, WriteStep
  <1>4. CASE RecordApproval(s)
    <2>1. /\ At(s, "record_approval")
          /\ sessions'[s].pc = "returned" /\ sessions'[s].key = Key(s)
          /\ \A t \in Sessions : t # s => sessions'[t] = sessions[t]
          /\ rows'[Key(s)].decision = "approved"
          /\ rows'[Key(s)].state = rows[Key(s)].state
          /\ rows'[Key(s)].evidence = rows[Key(s)].evidence
          /\ \A k \in Keys : k # Key(s) => rows'[k] = rows[k]
          /\ effects' = effects /\ approved' = approved \cup {Key(s)}
      BY <1>1, <1>4 DEF RecordApproval, Goto, Return, IdleCall, At, Key, Copy, Rows, Calls
    <2>2. rows[Key(s)].state \notin {"absent", "pending"}
      BY <1>2, <2>1 DEF Licensed, Fresh, At
    <2>3. Licensed(s)' /\ ~Fresh(s)' /\ (Holder(s)' => Holder(s))
      BY <1>2, <2>1, <2>2 DEF Licensed, Fresh, Holder, At, Key, Copy
    <2>4. QED
      BY <1>2, <2>1, <2>2, <2>3, WriteStep
  <1>5. CASE Approve(s)
    <2>1. /\ At(s, "approve")
          /\ sessions'[s].pc = "run" /\ sessions'[s].state = Copy(s) /\ sessions'[s].key = Key(s)
          /\ \A t \in Sessions : t # s => sessions'[t] = sessions[t]
          /\ rows'[Key(s)].decision = "approved"
          /\ rows'[Key(s)].state = rows[Key(s)].state
          /\ rows'[Key(s)].evidence = rows[Key(s)].evidence
          /\ \A k \in Keys : k # Key(s) => rows'[k] = rows[k]
          /\ effects' = effects /\ approved' = approved \cup {Key(s)}
      <3> PICK doc \in BOOLEAN :
             sessions' = [sessions EXCEPT ![s].pc = "run", ![s].doc = doc]
        BY <1>5 DEF Approve, DocFor
      <3>1. /\ At(s, "approve") /\ effects' = effects /\ approved' = approved \cup {Key(s)}
            /\ rows' = [rows EXCEPT ![Key(s)].decision = "approved"]
        BY <1>5 DEF Approve
      <3> QED
        BY <1>1, <3>1 DEF Key, Copy, Rows, Calls
    <2>2. rows[Key(s)].state \notin {"absent", "pending"}
      BY <1>2, <2>1 DEF Licensed, Fresh, At
    <2>3. Licensed(s)' /\ ~Fresh(s)' /\ (Holder(s)' => Holder(s))
      BY <1>2, <2>1, <2>2 DEF Licensed, Fresh, Holder, At, Key, Copy
    <2>4. QED
      BY <1>2, <2>1, <2>2, <2>3, WriteStep
  <1>6. CASE Deny(s)
    <2>1. /\ At(s, "deny")
          /\ sessions'[s].pc = "returned" /\ sessions'[s].key = Key(s)
          /\ \A t \in Sessions : t # s => sessions'[t] = sessions[t]
          /\ rows'[Key(s)].state = "denied" /\ rows'[Key(s)].decision = "denied"
          /\ rows'[Key(s)].evidence = rows[Key(s)].evidence
          /\ \A k \in Keys : k # Key(s) => rows'[k] = rows[k]
          /\ effects' = effects /\ approved' = approved
      BY <1>1, <1>6 DEF Deny, Goto, Return, IdleCall, At, Key, Copy, Rows, Calls
    <2>2. rows[Key(s)].state \notin {"absent", "pending"}
      BY <1>2, <2>1 DEF Licensed, Fresh, At
    <2>3. Licensed(s)' /\ ~Fresh(s)' /\ (Holder(s)' => Holder(s))
      BY <1>2, <2>1, <2>2 DEF Licensed, Fresh, Holder, At, Key, Copy
    <2>4. QED
      BY <1>2, <2>1, <2>2, <2>3, WriteStep
  <1>7. CASE Reverify(s)
    <2>1. /\ At(s, "reverify")
          /\ sessions'[s].pc = "returned" /\ sessions'[s].key = Key(s)
          /\ \A t \in Sessions : t # s => sessions'[t] = sessions[t]
          /\ rows'[Key(s)].state = "verifying"
          /\ rows'[Key(s)].decision = rows[Key(s)].decision
          /\ rows'[Key(s)].evidence = rows[Key(s)].evidence
          /\ \A k \in Keys : k # Key(s) => rows'[k] = rows[k]
          /\ effects' = effects /\ approved' = approved
      BY <1>1, <1>7 DEF Reverify, Goto, Return, IdleCall, At, Key, Copy, Rows, Calls
    <2>2. rows[Key(s)].state \notin {"absent", "pending"}
      BY <1>2, <2>1 DEF Licensed, Fresh, At
    <2>3. Licensed(s)' /\ ~Fresh(s)' /\ (Holder(s)' => Holder(s))
      BY <1>2, <2>1, <2>2 DEF Licensed, Fresh, Holder, At, Key, Copy
    <2>4. QED
      BY <1>2, <2>1, <2>2, <2>3, WriteStep
  <1>8. CASE RunExecute(s)
    <2>1. /\ At(s, "run") /\ Copy(s) \in {"pending", "awaiting_approval"}
          /\ sessions'[s].pc = "execute" /\ sessions'[s].key = Key(s)
          /\ \A t \in Sessions : t # s => sessions'[t] = sessions[t]
          /\ rows'[Key(s)].state = "executing"
          /\ rows'[Key(s)].decision = rows[Key(s)].decision
          /\ rows'[Key(s)].evidence = rows[Key(s)].evidence
          /\ \A k \in Keys : k # Key(s) => rows'[k] = rows[k]
          /\ effects' = effects /\ approved' = approved
      BY <1>1, <1>8 DEF RunExecute, Goto, Return, IdleCall, At, Key, Copy, Rows, Calls
    <2>2. rows[Key(s)].state \notin {"absent", "pending"} \/ Fresh(s)
      BY <1>2, <2>1 DEF Licensed, Fresh, At
    <2>3. Licensed(s)' /\ ~Fresh(s)' /\ (Holder(s)' => Holder(s))
      BY <1>2, <2>1, <2>2 DEF Licensed, Fresh, Holder, At, Key, Copy
    <2>4. QED
      BY <1>2, <2>1, <2>2, <2>3, WriteStep
  <1>9. CASE ExecuteRaises(s)
    <2>1. /\ (At(s, "execute") \/ At(s, "executed"))
          /\ sessions'[s].pc = "returned" /\ sessions'[s].key = Key(s)
          /\ \A t \in Sessions : t # s => sessions'[t] = sessions[t]
          /\ rows'[Key(s)].state = "failed"
          /\ rows'[Key(s)].decision = rows[Key(s)].decision
          /\ rows'[Key(s)].evidence = rows[Key(s)].evidence
          /\ \A k \in Keys : k # Key(s) => rows'[k] = rows[k]
          /\ effects' = effects /\ approved' = approved
      BY <1>1, <1>9 DEF ExecuteRaises, Goto, Return, IdleCall, At, Key, Copy, Rows, Calls
    <2>2. rows[Key(s)].state \notin {"absent", "pending"}
      BY <1>2, <2>1 DEF Licensed, Fresh, At
    <2>3. Licensed(s)' /\ ~Fresh(s)' /\ (Holder(s)' => Holder(s))
      BY <1>2, <2>1, <2>2 DEF Licensed, Fresh, Holder, At, Key, Copy
    <2>4. QED
      BY <1>2, <2>1, <2>2, <2>3, WriteStep
  <1>10. CASE ExecuteReturns(s)
    <2>1. /\ At(s, "executed")
          /\ sessions'[s].pc \in {"verify", "returned"} /\ sessions'[s].key = Key(s)
          /\ \A t \in Sessions : t # s => sessions'[t] = sessions[t]
          /\ rows'[Key(s)].state = "verifying"
          /\ rows'[Key(s)].decision = rows[Key(s)].decision
          /\ rows'[Key(s)].evidence = rows[Key(s)].evidence
          /\ \A k \in Keys : k # Key(s) => rows'[k] = rows[k]
          /\ effects' = effects /\ approved' = approved
      <3>1. /\ sessions'[s].pc \in {"verify", "returned"} /\ sessions'[s].key = Key(s)
            /\ \A t \in Sessions : t # s => sessions'[t] = sessions[t]
        <4>1. CASE Key(s) \in DeferredKeys
          <5>1. Return(s, "verifying")
            BY <1>10, <4>1 DEF ExecuteReturns
          <5>2. QED
            BY <1>1, <5>1 DEF Return, IdleCall, Key, Calls
        <4>2. CASE Key(s) \notin DeferredKeys
          <5>1. sessions' = [sessions EXCEPT ![s].pc = "verify", ![s].state = "verifying",
                                             ![s].result = TRUE]
            BY <1>10, <4>2 DEF ExecuteReturns
          <5>2. QED
            BY <1>1, <5>1 DEF Key, Calls
        <4>3. QED
          BY <4>1, <4>2
      <3>2. /\ At(s, "executed") /\ effects' = effects /\ approved' = approved
            /\ rows' = [rows EXCEPT ![Key(s)].state = "verifying", ![Key(s)].result = TRUE]
        BY <1>10 DEF ExecuteReturns
      <3>3. QED
        BY <1>1, <3>1, <3>2 DEF Rows
    <2>2. rows[Key(s)].state \notin {"absent", "pending"}
      BY <1>2, <2>1 DEF Licensed, Fresh, At
    <2>3. Licensed(s)' /\ ~Fresh(s)' /\ (Holder(s)' => Holder(s))
      BY <1>2, <2>1, <2>2 DEF Licensed, Fresh, Holder, At, Key, Copy
    <2>4. QED
      BY <1>2, <2>1, <2>2, <2>3, WriteStep
  <1>11. CASE RunVerify(s)
    <2>1. /\ At(s, "run") /\ Copy(s) \in InFlight
          /\ sessions'[s].pc = "verify" /\ sessions'[s].key = Key(s)
          /\ \A t \in Sessions : t # s => sessions'[t] = sessions[t]
          /\ rows'[Key(s)].state \in {"verifying", rows[Key(s)].state}
          /\ rows'[Key(s)].decision = rows[Key(s)].decision
          /\ rows'[Key(s)].evidence = rows[Key(s)].evidence
          /\ \A k \in Keys : k # Key(s) => rows'[k] = rows[k]
          /\ effects' = effects /\ approved' = approved
      BY <1>1, <1>11 DEF RunVerify, Goto, Return, IdleCall, At, Key, Copy, Rows, Calls
    <2>2. rows[Key(s)].state \notin {"absent", "pending"}
      BY <1>2, <2>1 DEF Licensed, Fresh, At, InFlight
    <2>3. Licensed(s)' /\ ~Fresh(s)' /\ (Holder(s)' => Holder(s))
      BY <1>2, <2>1, <2>2 DEF Licensed, Fresh, Holder, At, Key, Copy, InFlight
    <2>4. QED
      BY <1>2, <2>1, <2>2, <2>3, WriteStep
  <1>12. CASE VerifyFails(s)
    <2>1. /\ At(s, "verify")
          /\ sessions'[s].pc = "verify" /\ sessions'[s].key = Key(s)
          /\ \A t \in Sessions : t # s => sessions'[t] = sessions[t]
          /\ rows'[Key(s)].state = rows[Key(s)].state
          /\ rows'[Key(s)].decision = rows[Key(s)].decision
          /\ rows'[Key(s)].evidence = rows[Key(s)].evidence
          /\ \A k \in Keys : k # Key(s) => rows'[k] = rows[k]
          /\ effects' = effects /\ approved' = approved
      BY <1>1, <1>12 DEF VerifyFails, Goto, Return, IdleCall, At, Key, Copy, Rows, Calls
    <2>2. rows[Key(s)].state \notin {"absent", "pending"}
      BY <1>2, <2>1 DEF Licensed, Fresh, At
    <2>3. Licensed(s)' /\ ~Fresh(s)' /\ (Holder(s)' => Holder(s))
      BY <1>2, <2>1, <2>2 DEF Licensed, Fresh, Holder, At, Key, Copy
    <2>4. QED
      BY <1>2, <2>1, <2>2, <2>3, WriteStep
  <1>13. CASE VerifySucceeds(s)
    <2>1. /\ At(s, "verify")
          /\ sessions'[s].pc = "returned" /\ sessions'[s].key = Key(s)
          /\ \A t \in Sessions : t # s => sessions'[t] = sessions[t]
          /\ rows'[Key(s)].state = "succeeded"
          /\ rows'[Key(s)].evidence /\ effects[Key(s)] > 0
          /\ rows'[Key(s)].decision = rows[Key(s)].decision
          /\ \A k \in Keys : k # Key(s) => rows'[k] = rows[k]
          /\ effects' = effects /\ approved' = approved
      BY <1>1, <1>13 DEF VerifySucceeds, Provable, Return, IdleCall, At, Key, Rows, Calls
    <2>2. rows[Key(s)].state \notin {"absent", "pending"}
      BY <1>2, <2>1 DEF Licensed, Fresh, At
    <2>3. Licensed(s)' /\ ~Fresh(s)' /\ (Holder(s)' => Holder(s))
      BY <1>2, <2>1, <2>2 DEF Licensed, Fresh, Holder, At, Key, Copy
    <2>4. QED
      BY <1>2, <2>1, <2>2, <2>3, WriteStep
  <1>14. CASE VerifyGivesUp(s)
    <2>1. /\ At(s, "verify")
          /\ sessions'[s].pc = "returned" /\ sessions'[s].key = Key(s)
          /\ \A t \in Sessions : t # s => sessions'[t] = sessions[t]
          /\ rows'[Key(s)].state = "failed"
          /\ rows'[Key(s)].decision = rows[Key(s)].decision
          /\ rows'[Key(s)].evidence = rows[Key(s)].evidence
          /\ \A k \in Keys : k # Key(s) => rows'[k] = rows[k]
          /\ effects' = effects /\ approved' = approved
      BY <1>1, <1>14 DEF VerifyGivesUp, Goto, Return, IdleCall, At, Key, Copy, Rows, Calls
    <2>2. rows[Key(s)].state \notin {"absent", "pending"}
      BY <1>2, <2>1 DEF Licensed, Fresh, At
    <2>3. Licensed(s)' /\ ~Fresh(s)' /\ (Holder(s)' => Holder(s))
      BY <1>2, <2>1, <2>2 DEF Licensed, Fresh, Holder, At, Key, Copy
    <2>4. QED
      BY <1>2, <2>1, <2>2, <2>3, WriteStep
  <1>15. QED
    BY <1>3, <1>4, <1>5, <1>6, <1>7, <1>8, <1>9, <1>10, <1>11, <1>12, <1>13, <1>14

(* What each action does to the invariant.  A row is written only by a session
   that is licensed to, and no other session's licence depends on the columns
   it writes. *)
LEMMA InvStep == Inv /\ TypeOK' /\ Next => Rest'
  <1> SUFFICES ASSUME Inv, TypeOK', NEW s \in Sessions, Call(s) \/ Step(s) \/ Crash(s)
               PROVE  Rest'
    BY DEF Next
  <1> USE KeysAssumption DEF Inv, TypeOK, At, Key, Copy, Goto, Return, Calls, Rows
  <1>0. IdleCall.pc = "idle" /\ Key(s) \in Keys
    BY DEF IdleCall
  <1>1. CASE Call(s)
    <2> PICK k \in Keys :
          \/ RequestCheck(s, k)
          \/ \E call \in {"record_approval", "approve", "deny"} : Decide(s, k, call)
          \/ ReverifyRead(s, k)
          \/ /\ Resumable(rows[k])
             /\ \E observed \in {o \in BOOLEAN : o => k \in DeferredKeys}, doc \in DocFor(k) :
                   Resume(s, k, observed, doc)
      BY <1>1 DEF Call
    <2>1. CASE RequestCheck(s, k)
      <3>1. \A p \in Requires[k] : rows[p].evidence
        BY <2>1 DEF RequestCheck, PreconditionsMet, RowsAreHonest
      <3>2. QED
        BY <2>1, <3>1, BeginStep DEF RequestCheck
    <2>2. CASE \E call \in {"record_approval", "approve", "deny"} : Decide(s, k, call)
      BY <2>2, BeginStep DEF Decide
    <2>3. CASE ReverifyRead(s, k)
      BY <2>3, BeginStep DEF ReverifyRead
    <2>4. ASSUME Resumable(rows[k]), NEW observed, NEW doc, Resume(s, k, observed, doc)
          PROVE  Rest'
      <3>1. CASE rows[k].state \in TerminalStates
        <4>1. sessions' = [sessions EXCEPT ![s] =
                 [IdleCall EXCEPT !.pc = "returned", !.key = k, !.outcome = rows[k].state]]
          BY <2>4, <3>1 DEF Resume
        <4>2. sessions'[s].pc = "returned"
          BY <4>1 DEF IdleCall
        <4>3. QED
          BY <2>4, <4>1, <4>2, StopStep DEF Resume
      <3>2. CASE rows[k].state \notin TerminalStates
        BY <2>4, <3>2, BeginStep DEF Resume
      <3>3. QED
        BY <3>1, <3>2
    <2>5. QED
      BY <2>1, <2>2, <2>3, <2>4
  <1>2. CASE RequestInsert(s)
    <2>1. CASE rows[Key(s)].state = "absent"
      <3>1. /\ sessions'[s].pc = "inserted" /\ sessions'[s].state = "pending"
            /\ sessions'[s].key = Key(s)
            /\ \A t \in Sessions : t # s => sessions'[t] = sessions[t]
        BY <1>2, <2>1 DEF RequestInsert
      <3>2. /\ rows'[Key(s)].state = "pending" /\ rows'[Key(s)].decision = "none"
            /\ ~rows'[Key(s)].evidence
            /\ \A k \in Keys : k # Key(s) => rows'[k] = rows[k]
        BY <1>0, <1>2, <2>1 DEF RequestInsert, PendingRow, NoRow
      <3>3. UNCHANGED <<effects, approved>> /\ effects[Key(s)] = 0 /\ ~rows[Key(s)].evidence
        BY <1>0, <1>2, <2>1 DEF RequestInsert, RowsAreHonest
      <3>4. \A p \in Requires[Key(s)] : rows'[p].evidence
        BY <1>0, <1>2, <3>2, <3>3 DEF RequestInsert, CallsAreLicensed, Licensed
      <3>5. \A t \in Sessions : t # s => /\ Fresh(t)' = Fresh(t) /\ Holder(t)' = Holder(t)
                                        /\ Key(t)' = Key(t)
        BY <3>1 DEF Fresh, Holder
      <3>6. \A t \in Sessions : Holder(t) => Key(t) # Key(s)
        BY <2>1 DEF HolderIsFirst, CallsAreLicensed, Licensed, Holder
      <3>7. HolderIsFirst'
        <4> SUFFICES ASSUME NEW t \in Sessions
                     PROVE  /\ Fresh(t)' => rows'[Key(t)'].state = "pending"
                            /\ Holder(t)' =>
                                 /\ effects'[Key(t)'] = 0
                                 /\ \A u \in Sessions :
                                      Holder(u)' /\ Key(u)' = Key(t)' => u = t
          BY DEF HolderIsFirst
        <4>1. CASE t = s
          BY <3>1, <3>2, <3>3, <3>5, <3>6, <4>1
        <4>2. CASE t # s
          <5>1. Key(t) \in Keys /\ (Holder(t) => Key(t) # Key(s))
            BY <3>6
          <5>2. Fresh(t) => Holder(t)
            BY DEF Holder
          <5>3. QED
            BY <3>1, <3>2, <3>3, <3>5, <4>2, <5>1, <5>2 DEF HolderIsFirst
        <4>3. QED
          BY <4>1, <4>2
      <3>8. \A k \in Keys : \A p \in Requires[k] : rows[p].evidence => rows'[p].evidence
        BY <3>2, <3>3
      <3>9. CallsAreLicensed'
        <4> SUFFICES ASSUME NEW t \in Sessions PROVE Licensed(t)'
          BY DEF CallsAreLicensed
        <4>1. CASE t = s
          BY <3>1, <4>1 DEF Licensed, Fresh
        <4>2. CASE t # s
          <5>1. Licensed(t) /\ Key(t) \in Keys /\ sessions'[t] = sessions[t]
            BY <3>1, <4>2 DEF CallsAreLicensed, Licensed
          <5>2. rows[Key(t)].state \notin {"absent", "pending"} => rows'[Key(t)] = rows[Key(t)]
            BY <2>1, <3>2, <5>1
          <5>3. QED
            BY <3>3, <3>5, <3>8, <4>2, <5>1, <5>2 DEF Licensed
        <4>3. QED
          BY <4>1, <4>2
      <3>10. RowsAreHonest'
        <4>1. \A k \in Keys : k # Key(s) =>
                 /\ rows'[k] = rows[k] /\ effects'[k] = effects[k]
                 /\ rows[k].state # "absent" => \A p \in Requires[k] : rows'[p].evidence
          BY <3>2, <3>3, <3>8 DEF RowsAreHonest
        <4>2. /\ rows'[Key(s)].state = "pending" /\ rows'[Key(s)].decision = "none"
              /\ ~rows'[Key(s)].evidence /\ effects'[Key(s)] = 0
          BY <3>2, <3>3
        <4>3. SUFFICES ASSUME NEW k \in Keys
              PROVE /\ rows'[k].state \in {"absent", "pending"}
                         => rows'[k].decision = "none" /\ effects'[k] = 0
                    /\ rows'[k].state # "absent" => \A p \in Requires[k] : rows'[p].evidence
                    /\ rows'[k].state = "awaiting_approval"
                         => k \in ApprovalKeys /\ rows'[k].decision # "denied"
                    /\ rows'[k].decision = "approved" => k \in approved'
                    /\ rows'[k].state = "succeeded" => rows'[k].evidence
                    /\ rows'[k].evidence => effects'[k] > 0
          BY DEF RowsAreHonest
        <4>4. CASE k = Key(s)
          BY <3>4, <4>2, <4>4
        <4>5. CASE k # Key(s)
          BY <3>3, <4>1, <4>5 DEF RowsAreHonest
        <4>6. QED
          BY <4>4, <4>5
      <3>11. (ApprovalBeforeEffect /\ AutomaticOnce)'
        BY <3>3 DEF ApprovalBeforeEffect, AutomaticOnce
      <3>12. QED
        BY <3>7, <3>9, <3>10, <3>11 DEF Rest
    <2>2. CASE rows[Key(s)].state # "absent"
      BY <1>2, <2>2, StopStep DEF RequestInsert
    <2>3. QED
      BY <2>1, <2>2
  <1>3. CASE RequestConflict(s)
    <2>1. sessions'[s].pc = "returned"
      BY <1>3 DEF RequestConflict, IdleCall
    <2>2. QED
      BY <1>3, <2>1, StopStep DEF RequestConflict
  <1>4. CASE RequestPark(s)
    BY <1>4, WritersStep
  <1>5. CASE RequestRun(s)
    <2>1. HolderIsFirst'
      BY <1>0, <1>5 DEF RequestRun, HolderIsFirst, Fresh, Holder
    <2>2. CallsAreLicensed'
      BY <1>0, <1>5 DEF RequestRun, CallsAreLicensed, Licensed, Fresh
    <2>3. RowsAreHonest'
      BY <1>0, <1>5 DEF RequestRun, RowsAreHonest
    <2>4. (ApprovalBeforeEffect /\ AutomaticOnce)'
      BY <1>5 DEF RequestRun, ApprovalBeforeEffect, AutomaticOnce
    <2>5. QED
      BY <2>1, <2>2, <2>3, <2>4 DEF Rest
  <1>6. CASE RecordApproval(s)
    BY <1>6, WritersStep
  <1>7. CASE Approve(s)
    BY <1>7, WritersStep
  <1>8. CASE Deny(s)
    BY <1>8, WritersStep
  <1>9. CASE Reverify(s)
    BY <1>9, WritersStep
  <1>10. CASE RunExecute(s)
    BY <1>10, WritersStep
  <1>11. CASE Execute(s)
    <2>1. HolderIsFirst'
      BY <1>0, <1>11 DEF Execute, HolderIsFirst, Fresh, Holder, CallsAreLicensed, Licensed
    <2>2. CallsAreLicensed'
      BY <1>0, <1>11 DEF Execute, CallsAreLicensed, Licensed, Fresh, HolderIsFirst, Holder
    <2>3. RowsAreHonest'
      BY <1>0, <1>11 DEF Execute, RowsAreHonest, CallsAreLicensed, Licensed, HolderIsFirst, Fresh,
                         Holder
    <2>4. (ApprovalBeforeEffect /\ AutomaticOnce)'
      BY <1>11 DEF Execute, ApprovalBeforeEffect, AutomaticOnce, CallsAreLicensed, Licensed,
                   HolderIsFirst, Holder
    <2>5. QED
      BY <2>1, <2>2, <2>3, <2>4 DEF Rest
  <1>12. CASE ExecuteRaises(s)
    BY <1>12, WritersStep
  <1>13. CASE ExecuteReturns(s)
    BY <1>13, WritersStep
  <1>14. CASE RunVerify(s)
    BY <1>14, WritersStep
  <1>15. CASE VerifyFails(s)
    BY <1>15, WritersStep
  <1>16. CASE VerifySucceeds(s)
    BY <1>16, WritersStep
  <1>17. CASE VerifyRaises(s)
    <2>1. sessions'[s].pc = "returned"
      BY <1>17 DEF VerifyRaises, IdleCall
    <2>2. QED
      BY <1>17, <2>1, StopStep DEF VerifyRaises
  <1>18. CASE VerifyGivesUp(s)
    BY <1>18, WritersStep
  <1>19. CASE Finish(s)
    BY <1>0, <1>19, StopStep DEF Finish
  <1>20. CASE Crash(s)
    BY <1>0, <1>20, StopStep DEF Crash
  <1>21. QED
    BY <1>1, <1>2, <1>3, <1>4, <1>5, <1>6, <1>7, <1>8, <1>9, <1>10, <1>11, <1>12,
       <1>13, <1>14, <1>15, <1>16, <1>17, <1>18, <1>19, <1>20
    DEF Step

LEMMA InvKept == Inv /\ [Next]_vars => Inv'
  <1> SUFFICES ASSUME Inv, [Next]_vars PROVE Inv'
    OBVIOUS
  <1>1. TypeOK'
    BY TypeStep DEF Inv
  <1>2. CASE Next
    BY <1>1, <1>2, InvStep DEF Inv, Rest
  <1>3. CASE UNCHANGED vars
    BY <1>1, <1>3 DEF vars, Inv, HolderIsFirst, CallsAreLicensed, Licensed, RowsAreHonest,
                      ApprovalBeforeEffect, AutomaticOnce, Fresh, Holder, At, Key, Copy
  <1>4. QED
    BY <1>2, <1>3

LEMMA InvInit == Init => Inv
  <1>1. NoRow \in Rows
    BY AttemptsAssumption DEF NoRow, Rows, RowStates, Decisions
  <1>2. IdleCall \in Calls /\ IdleCall.pc = "idle"
    BY IdleCallType, KeysAssumption
  <1>3. Init => TypeOK
    BY <1>1, <1>2 DEF Init, TypeOK
  <1>4. Init => HolderIsFirst /\ CallsAreLicensed
    BY <1>2 DEF Init, HolderIsFirst, CallsAreLicensed, Licensed, Fresh, Holder, At
  <1>5. Init => RowsAreHonest /\ ApprovalBeforeEffect /\ AutomaticOnce
    BY KeysAssumption DEF Init, RowsAreHonest, ApprovalBeforeEffect, AutomaticOnce, NoRow
  <1>6. QED
    BY <1>3, <1>4, <1>5 DEF Inv

(* The inductive invariant holds in every reachable state. *)
THEOREM Invariance == Spec => []Inv
  BY InvInit, InvKept, PTL DEF Spec

(* Nothing that needs an approval reaches the world without one. *)
THEOREM ApprovalSafe == Spec => []ApprovalBeforeEffect
  <1>1. Inv => ApprovalBeforeEffect
    BY DEF Inv
  <1>2. QED
    BY <1>1, Invariance, PTL

(* An action nobody approves is executed at most once. *)
THEOREM AutomaticSafe == Spec => []AutomaticOnce
  <1>1. Inv => AutomaticOnce
    BY DEF Inv
  <1>2. QED
    BY <1>1, Invariance, PTL

(* A row that says `succeeded` has its evidence and its effect. *)
THEOREM SuccessSafe == Spec => []SuccessIsProved
  <1>1. Inv => SuccessIsProved
    BY DEF Inv, RowsAreHonest, SuccessIsProved
  <1>2. QED
    BY <1>1, Invariance, PTL

(* No effect before what it requires is approved and proved. *)
THEOREM RequiredSafe == Spec => []RequiredFirst
  <1>1. Inv => RequiredFirst
    <2> SUFFICES ASSUME Inv, NEW k \in Keys, effects[k] > 0, NEW p \in Requires[k]
                 PROVE  rows[p].evidence /\ (p \in ApprovalKeys => p \in approved)
      BY DEF RequiredFirst
    <2>1. rows[k].state # "absent" /\ p \in Keys
      BY KeysAssumption DEF Inv, RowsAreHonest
    <2>2. rows[p].evidence /\ effects[p] > 0
      BY <2>1 DEF Inv, RowsAreHonest
    <2>3. QED
      BY <2>2 DEF Inv, ApprovalBeforeEffect
  <1>2. QED
    BY <1>1, Invariance, PTL

-----------------------------------------------------------------------------
(* What the callers of the gate may rely on. *)

(* What a step of a begun call leaves alone: the other sessions, the key it is
   about, and the rows of other keys. *)
LEMMA StepFrame ==
    ASSUME TypeOK, NEW s \in Sessions, Step(s), ~At(s, "returned")
    PROVE  /\ \A t \in Sessions : t # s => sessions'[t] = sessions[t]
           /\ sessions'[s].key = Key(s) /\ sessions'[s].pc # "idle"
           /\ ~At(s, "idle")
           /\ \A k \in Keys : k # Key(s) => rows'[k] = rows[k]
  <1> USE DEF At
  <1>1. rows \in [Keys -> Rows] /\ sessions \in [Sessions -> Calls] /\ Key(s) \in Keys
    BY DEF TypeOK, Calls, Key
  <1>2. ASSUME NEW outcome, Return(s, outcome)
        PROVE  /\ \A t \in Sessions : t # s => sessions'[t] = sessions[t]
               /\ sessions'[s].key = Key(s) /\ sessions'[s].pc = "returned"
    BY <1>1, <1>2 DEF Return, IdleCall
  <1>3. ASSUME NEW pc, NEW state, Goto(s, pc, state)
        PROVE  /\ \A t \in Sessions : t # s => sessions'[t] = sessions[t]
               /\ sessions'[s].key = Key(s) /\ sessions'[s].pc = pc
    BY <1>1, <1>3 DEF Goto, Key, Calls
  <1>4. CASE RequestInsert(s)
    BY <1>1, <1>3, <1>4 DEF RequestInsert
  <1>5. CASE RequestConflict(s)
    BY <1>1, <1>2, <1>5 DEF RequestConflict
  <1>6. CASE RequestPark(s)
    BY <1>1, <1>2, <1>6 DEF RequestPark
  <1>7. CASE RequestRun(s)
    BY <1>1, <1>3, <1>7 DEF RequestRun
  <1>8. CASE RecordApproval(s)
    BY <1>1, <1>2, <1>8 DEF RecordApproval
  <1>9. CASE Approve(s)
    <2> PICK doc : sessions' = [sessions EXCEPT ![s].pc = "run", ![s].doc = doc]
      BY <1>9 DEF Approve
    <2> QED BY <1>1, <1>9 DEF Approve, Key, Calls
  <1>10. CASE Deny(s)
    BY <1>1, <1>2, <1>10 DEF Deny
  <1>11. CASE Reverify(s)
    BY <1>1, <1>2, <1>11 DEF Reverify
  <1>12. CASE RunExecute(s)
    BY <1>1, <1>3, <1>12 DEF RunExecute
  <1>13. CASE Execute(s)
    BY <1>1, <1>3, <1>13 DEF Execute
  <1>14. CASE ExecuteRaises(s)
    BY <1>1, <1>2, <1>14 DEF ExecuteRaises
  <1>15. CASE ExecuteReturns(s)
    <2>1. CASE Return(s, "verifying")
      BY <1>1, <1>2, <1>15, <2>1 DEF ExecuteReturns
    <2>2. CASE sessions' = [sessions EXCEPT ![s].pc = "verify", ![s].state = "verifying",
                                            ![s].result = TRUE]
      BY <1>1, <1>15, <2>2 DEF ExecuteReturns, Key, Calls
    <2> QED BY <1>15, <2>1, <2>2 DEF ExecuteReturns
  <1>16. CASE RunVerify(s)
    BY <1>1, <1>3, <1>16 DEF RunVerify
  <1>17. CASE VerifyFails(s)
    BY <1>1, <1>17 DEF VerifyFails, Key, Calls
  <1>18. CASE VerifySucceeds(s)
    BY <1>1, <1>2, <1>18 DEF VerifySucceeds
  <1>19. CASE VerifyRaises(s)
    BY <1>1, <1>2, <1>19 DEF VerifyRaises
  <1>20. CASE VerifyGivesUp(s)
    BY <1>1, <1>2, <1>20 DEF VerifyGivesUp
  <1>21. ~Finish(s)
    BY DEF Finish
  <1> QED BY <1>4, <1>5, <1>6, <1>7, <1>8, <1>9, <1>10, <1>11, <1>12, <1>13, <1>14, <1>15,
             <1>16, <1>17, <1>18, <1>19, <1>20, <1>21 DEF Step

(* Where a step leaves a session, and what its row then says. *)
Leaves(s, pc, state, decision, evidence) ==
    /\ sessions'[s].pc = pc
    /\ rows'[Key(s)].state = state
    /\ rows'[Key(s)].decision = decision
    /\ rows'[Key(s)].evidence = evidence

(* Every step of a begun call: from where to where, on what copy, and what it
   makes of the row. *)
Moves(s) ==
    LET row == rows[Key(s)]
        Stays(pc) == Leaves(s, pc, row.state, row.decision, row.evidence)
        Turns(pc, state) == Leaves(s, pc, state, row.decision, row.evidence)
        Outcome(outcome) == sessions'[s].outcome = outcome
        Loaded(state) == sessions'[s].state = state
    IN
    \/ /\ At(s, "checked") /\ row.state = "absent"
       /\ Leaves(s, "inserted", "pending", "none", FALSE) /\ Loaded("pending")
    \/ At(s, "checked") /\ row.state # "absent" /\ Stays("conflict")
    \/ At(s, "conflict") /\ Stays("returned") /\ Outcome(ConflictOutcome(row.state))
    \/ /\ At(s, "inserted") /\ Key(s) \in ApprovalKeys
       /\ Turns("returned", "awaiting_approval") /\ Outcome("ApprovalRequired")
    \/ At(s, "inserted") /\ Key(s) \notin ApprovalKeys /\ Stays("run") /\ Loaded(Copy(s))
    \/ /\ At(s, "record_approval") /\ Leaves(s, "returned", row.state, "approved", row.evidence)
       /\ Outcome(Copy(s))
    \/ /\ At(s, "approve") /\ Leaves(s, "run", row.state, "approved", row.evidence)
       /\ Loaded(Copy(s))
    \/ /\ At(s, "deny") /\ Leaves(s, "returned", "denied", "denied", row.evidence)
       /\ Outcome("denied")
    \/ At(s, "reverify") /\ Turns("returned", "verifying") /\ Outcome("verifying")
    \/ /\ At(s, "run") /\ Copy(s) \in {"pending", "awaiting_approval"}
       /\ Turns("execute", "executing")
    \/ At(s, "execute") /\ Stays("executed")
    \/ (At(s, "execute") \/ At(s, "executed")) /\ Turns("returned", "failed") /\ Outcome("raised")
    \/ /\ At(s, "executed") /\ Key(s) \in DeferredKeys
       /\ Turns("returned", "verifying") /\ Outcome("verifying")
    \/ At(s, "executed") /\ Key(s) \notin DeferredKeys /\ Turns("verify", "verifying")
    \/ /\ At(s, "run") /\ Copy(s) \in InFlight
       /\ Turns("verify", IF Copy(s) = "executing" THEN "verifying" ELSE row.state)
    \/ At(s, "verify") /\ Stays("verify")
    \/ /\ At(s, "verify") /\ Leaves(s, "returned", "succeeded", row.decision, TRUE)
       /\ Outcome("succeeded")
    \/ At(s, "verify") /\ FlakyWorld /\ Stays("returned") /\ Outcome("raised")
    \/ At(s, "verify") /\ Turns("returned", "failed") /\ Outcome("failed")

LEMMA StepMoves ==
    ASSUME TypeOK, NEW s \in Sessions, Step(s), ~At(s, "returned")
    PROVE  /\ Moves(s)
           /\ approved \subseteq approved'
           /\ effects' = IF At(s, "execute") /\ sessions'[s].pc = "executed"
                           THEN [effects EXCEPT ![Key(s)] = @ + 1] ELSE effects
  <1> DEFINE row == rows[Key(s)]
  <1>1. /\ rows \in [Keys -> Rows] /\ sessions \in [Sessions -> Calls] /\ Key(s) \in Keys
        /\ row \in Rows /\ sessions[s] \in Calls
    BY DEF TypeOK, Calls, Key
  <1>2. ASSUME NEW outcome, Return(s, outcome)
        PROVE  sessions'[s].pc = "returned" /\ sessions'[s].outcome = outcome
    BY <1>1, <1>2 DEF Return, IdleCall
  <1>3. ASSUME NEW pc, NEW state, Goto(s, pc, state)
        PROVE  sessions'[s].pc = pc /\ sessions'[s].state = state
    BY <1>1, <1>3 DEF Goto, Calls
  <1> USE DEF Leaves, Moves
  <1>4. CASE RequestInsert(s)
    BY <1>1, <1>2, <1>3, <1>4 DEF RequestInsert, PendingRow, NoRow
  <1>5. CASE RequestConflict(s)
    BY <1>1, <1>2, <1>3, <1>5 DEF RequestConflict, Rows, Calls
  <1>6. CASE RequestPark(s)
    BY <1>1, <1>2, <1>3, <1>6 DEF RequestPark, Rows, Calls
  <1>7. CASE RequestRun(s)
    BY <1>1, <1>2, <1>3, <1>7 DEF RequestRun, Rows, Calls
  <1>8. CASE RecordApproval(s)
    BY <1>1, <1>2, <1>3, <1>8 DEF RecordApproval, Rows, Calls
  <1>9. CASE Approve(s)
    <2>1. PICK doc : sessions' = [sessions EXCEPT ![s].pc = "run", ![s].doc = doc]
      BY <1>9 DEF Approve
    <2>2. sessions'[s].pc = "run" /\ sessions'[s].state = Copy(s)
      BY <1>1, <2>1 DEF Copy, Calls
    <2>3. QED
      BY <1>1, <1>9, <2>2 DEF Approve, Rows
  <1>10. CASE Deny(s)
    BY <1>1, <1>2, <1>3, <1>10 DEF Deny, Rows, Calls
  <1>11. CASE Reverify(s)
    BY <1>1, <1>2, <1>3, <1>11 DEF Reverify, Rows, Calls
  <1>12. CASE RunExecute(s)
    BY <1>1, <1>2, <1>3, <1>12 DEF RunExecute, Rows, Calls
  <1>13. CASE Execute(s)
    BY <1>1, <1>2, <1>3, <1>13 DEF Execute, Rows, Calls
  <1>14. CASE ExecuteRaises(s)
    BY <1>1, <1>2, <1>3, <1>14 DEF ExecuteRaises, Rows, Calls
  <1>15. CASE ExecuteReturns(s)
    BY <1>1, <1>2, <1>3, <1>15 DEF ExecuteReturns, Rows, Calls
  <1>16. CASE RunVerify(s)
    BY <1>1, <1>2, <1>3, <1>16 DEF RunVerify, Rows, Calls
  <1>17. CASE VerifyFails(s)
    BY <1>1, <1>2, <1>3, <1>17 DEF VerifyFails, Rows, Calls, At
  <1>18. CASE VerifySucceeds(s)
    BY <1>1, <1>2, <1>3, <1>18 DEF VerifySucceeds, Rows, Calls
  <1>19. CASE VerifyRaises(s)
    BY <1>1, <1>2, <1>3, <1>19 DEF VerifyRaises, Rows, Calls
  <1>20. CASE VerifyGivesUp(s)
    BY <1>1, <1>2, <1>3, <1>20 DEF VerifyGivesUp, Rows, Calls
  <1>21. ~Finish(s)
    BY DEF Finish
  <1> QED
    BY <1>4, <1>5, <1>6, <1>7, <1>8, <1>9, <1>10, <1>11, <1>12, <1>13, <1>14, <1>15,
       <1>16, <1>17, <1>18, <1>19, <1>20, <1>21 DEF Step

(* Something has begun to execute the action, or nobody ever will. *)
Started(k) == rows[k].state \in InFlight \cup TerminalStates

(* No step takes back what others go by: that a row is there, that it was
   decided, that it was started, what proves its effect. *)
RowsMoveOn ==
    \A k \in Keys :
        /\ rows[k].state # "absent" => rows'[k].state # "absent"
        /\ rows[k].decision # "none" => rows'[k].decision # "none"
        /\ Started(k) => Started(k)'
        /\ rows[k].evidence => rows'[k].evidence

LEMMA RowsStep == Inv /\ [Next]_vars => RowsMoveOn
  <1> SUFFICES ASSUME Inv, [Next]_vars PROVE RowsMoveOn
    OBVIOUS
  <1>1. CASE UNCHANGED rows
    BY <1>1 DEF RowsMoveOn, Started
  <1>2. ASSUME NEW s \in Sessions, Step(s), ~At(s, "returned")
        PROVE  RowsMoveOn
    <2>1. /\ Moves(s) /\ Key(s) \in Keys /\ rows[Key(s)] \in Rows
          /\ \A k \in Keys : k # Key(s) => rows'[k] = rows[k]
      BY <1>2, StepMoves, StepFrame DEF Inv, TypeOK, Key, Calls
    <2>2. /\ At(s, "inserted") => rows[Key(s)].state = "pending"
          /\ rows[Key(s)].state = "absent" => rows[Key(s)].decision = "none" /\ ~rows[Key(s)].evidence
      BY <2>1 DEF Inv, HolderIsFirst, Fresh, RowsAreHonest
    <2>3. /\ rows[Key(s)].state # "absent" => rows'[Key(s)].state # "absent"
          /\ rows[Key(s)].decision # "none" => rows'[Key(s)].decision # "none"
          /\ rows[Key(s)].evidence => rows'[Key(s)].evidence
      BY <2>1, <2>2 DEF Moves, Leaves
    <2>4. Started(Key(s)) => rows'[Key(s)].state \in InFlight \cup TerminalStates
      BY <2>1, <2>2 DEF Moves, Leaves, Started, InFlight, TerminalStates
    <2>5. QED
      BY <2>1, <2>3, <2>4 DEF RowsMoveOn, Started
  <1>3. ASSUME NEW s \in Sessions, Call(s) \/ Crash(s) \/ Finish(s)
        PROVE  UNCHANGED rows
    BY <1>3 DEF Call, RequestCheck, Decide, ReverifyRead, Resume, Crash, Finish
  <1>4. ASSUME NEW s \in Sessions, Step(s), At(s, "returned")
        PROVE  Finish(s)
    BY <1>4 DEF Step, At, RequestInsert, RequestConflict, RequestPark, RequestRun,
       RecordApproval, Approve, Deny, Reverify, RunExecute, Execute, ExecuteRaises,
       ExecuteReturns, RunVerify, VerifyFails, VerifySucceeds, VerifyRaises, VerifyGivesUp
  <1>5. QED
    BY <1>1, <1>2, <1>3, <1>4 DEF Next, vars

(* A call does not run ahead of its row. *)
KeepsUp(s) ==
    /\ At(s, "idle") => sessions[s] = IdleCall
    /\ sessions[s].pc \in {"record_approval", "approve", "deny"} => Copy(s) = "awaiting_approval"
    /\ sessions[s].pc \in {"execute", "executed", "verify", "reverify"} => Started(Key(s))
    /\ At(s, "run") =>
         /\ Copy(s) \in InFlight => Started(Key(s))
         /\ Copy(s) = "awaiting_approval" => rows[Key(s)].decision # "none"
    /\ At(s, "returned") /\ sessions[s].outcome = "succeeded" => rows[Key(s)].evidence

CallsKeepUp == \A s \in Sessions : KeepsUp(s)

LEMMA CallsStep == Inv /\ CallsKeepUp /\ [Next]_vars => CallsKeepUp'
  <1> SUFFICES ASSUME Inv, CallsKeepUp, [Next]_vars, NEW t \in Sessions
               PROVE  KeepsUp(t)'
    BY DEF CallsKeepUp
  <1> USE DEF At, Copy, Key
  <1>1. /\ KeepsUp(t) /\ sessions \in [Sessions -> Calls] /\ rows \in [Keys -> Rows]
        /\ Key(t) \in Keys /\ RowsMoveOn
    BY RowsStep DEF CallsKeepUp, Inv, TypeOK, Calls
  <1>2. CASE sessions'[t] = sessions[t]
    <2>1. Started(Key(t)) => Started(Key(t))'
      BY <1>1, <1>2 DEF RowsMoveOn, Started
    <2>2. /\ rows[Key(t)].decision # "none" => rows'[Key(t)].decision # "none"
          /\ rows[Key(t)].evidence => rows'[Key(t)].evidence
      BY <1>1 DEF RowsMoveOn
    <2>3. QED
      BY <1>1, <1>2, <2>1, <2>2 DEF KeepsUp
  <1>3. ASSUME Step(t), ~At(t, "returned")
        PROVE  KeepsUp(t)'
    <2>1. /\ Moves(t) /\ rows[Key(t)] \in Rows /\ sessions'[t].key = Key(t)
          /\ sessions'[t].pc # "idle"
      BY <1>1, <1>3, StepMoves, StepFrame DEF Inv
    <2>2. Licensed(t) /\ (rows[Key(t)].state = "succeeded" => rows[Key(t)].evidence)
      BY <1>1 DEF Inv, CallsAreLicensed, RowsAreHonest
    <2>3. sessions'[t].pc \in {"execute", "executed", "verify", "reverify"}
            => rows'[Key(t)].state \in InFlight \cup TerminalStates
      BY <1>1, <2>1 DEF Moves, Leaves, KeepsUp, Started, InFlight, TerminalStates
    <2>4. sessions'[t].pc \notin {"record_approval", "approve", "deny"}
      BY <2>1 DEF Moves, Leaves
    <2>5. sessions'[t].pc = "run" =>
            /\ sessions'[t].state \in InFlight => rows'[Key(t)].state \in InFlight \cup TerminalStates
            /\ sessions'[t].state = "awaiting_approval" => rows'[Key(t)].decision # "none"
      BY <1>1, <2>1, <2>2 DEF Moves, Leaves, KeepsUp, InFlight, Licensed
    <2>6. sessions'[t].pc = "returned" /\ sessions'[t].outcome = "succeeded"
            => rows'[Key(t)].evidence
      BY <1>1, <2>1, <2>2 DEF Moves, Leaves, KeepsUp, ConflictOutcome
    <2>7. QED
      BY <2>1, <2>3, <2>4, <2>5, <2>6 DEF KeepsUp, Started
  <1>4. CASE sessions'[t] = IdleCall
    BY <1>4 DEF KeepsUp, IdleCall
  <1>5. ASSUME NEW k \in Keys, UNCHANGED rows,
               NEW pc, NEW result, NEW doc, Begin(t, pc, k, result, doc),
               \/ pc = "checked"
               \/ pc \in {"record_approval", "approve", "deny"} /\ Undecided(rows[k])
               \/ pc = "reverify" /\ rows[k].state = "failed"
               \/ pc = "run" /\ Resumable(rows[k])
        PROVE  KeepsUp(t)'
    <2>1. /\ sessions'[t].pc = pc /\ sessions'[t].key = k /\ sessions'[t].state = rows[k].state
      BY <1>1, <1>5 DEF Begin
    <2>2. rows[k].state = "awaiting_approval" => rows[k].state \notin InFlight \cup TerminalStates
      BY DEF InFlight, TerminalStates
    <2>3. QED
      BY <1>5, <2>1, <2>2 DEF KeepsUp, Undecided, Resumable, Started, TerminalStates
  <1>6. ASSUME Call(t)
        PROVE  KeepsUp(t)'
    <2> PICK k \in Keys :
          \/ RequestCheck(t, k)
          \/ \E call \in {"record_approval", "approve", "deny"} : Decide(t, k, call)
          \/ ReverifyRead(t, k)
          \/ /\ Resumable(rows[k])
             /\ \E observed \in {o \in BOOLEAN : o => k \in DeferredKeys}, doc \in DocFor(k) :
                   Resume(t, k, observed, doc)
      BY <1>6 DEF Call
    <2>1. CASE RequestCheck(t, k)
      BY <1>5, <2>1 DEF RequestCheck
    <2>2. CASE \E call \in {"record_approval", "approve", "deny"} : Decide(t, k, call)
      BY <1>5, <2>2 DEF Decide
    <2>3. CASE ReverifyRead(t, k)
      BY <1>5, <2>3 DEF ReverifyRead
    <2>4. ASSUME Resumable(rows[k]), NEW observed, NEW doc, Resume(t, k, observed, doc)
          PROVE  KeepsUp(t)'
      <3>1. CASE rows[k].state \in TerminalStates
        <4>1. /\ sessions'[t].pc = "returned" /\ sessions'[t].key = k
              /\ sessions'[t].outcome = rows[k].state
          BY <1>1, <2>4, <3>1 DEF Resume, IdleCall
        <4>2. QED
          BY <2>4, <4>1 DEF Resume, KeepsUp, Inv, RowsAreHonest
      <3>2. CASE rows[k].state \notin TerminalStates
        BY <1>5, <2>4, <3>2 DEF Resume
      <3>3. QED
        BY <3>1, <3>2
    <2>5. QED
      BY <2>1, <2>2, <2>3, <2>4
  <1>7. ASSUME NEW s \in Sessions, s # t, Call(s) \/ Step(s) \/ Crash(s)
        PROVE  sessions'[t] = sessions[t]
    <2>1. CASE Step(s) /\ ~At(s, "returned")
      BY <1>7, <2>1, StepFrame DEF Inv
    <2>2. CASE Step(s) /\ At(s, "returned")
      BY <1>1, <1>7, <2>2 DEF Step, RequestInsert, RequestConflict, RequestPark, RequestRun,
         RecordApproval, Approve, Deny, Reverify, RunExecute, Execute, ExecuteRaises,
         ExecuteReturns, RunVerify, VerifyFails, VerifySucceeds, VerifyRaises, VerifyGivesUp,
         Finish
    <2>3. CASE Call(s) \/ Crash(s)
      BY <1>1, <1>7, <2>3 DEF Call, RequestCheck, Decide, ReverifyRead, Resume, Crash, Begin
    <2>4. QED
      BY <1>7, <2>1, <2>2, <2>3
  <1>8. ASSUME Crash(t) \/ (Step(t) /\ At(t, "returned"))
        PROVE  sessions'[t] = IdleCall
    BY <1>1, <1>8 DEF Crash, Step, RequestInsert, RequestConflict, RequestPark, RequestRun,
       RecordApproval, Approve, Deny, Reverify, RunExecute, Execute, ExecuteRaises,
       ExecuteReturns, RunVerify, VerifyFails, VerifySucceeds, VerifyRaises, VerifyGivesUp,
       Finish
  <1>9. QED
    BY <1>2, <1>3, <1>4, <1>6, <1>7, <1>8 DEF Next, vars

LEMMA CallsInit == Init => CallsKeepUp
  BY DEF Init, CallsKeepUp, KeepsUp, At, IdleCall

(* Through every interleaving and crash, a call is at most as far as its row. *)
THEOREM CallsFollowTheirRows == Spec => []CallsKeepUp
  BY CallsInit, CallsStep, Invariance, PTL DEF Spec

-----------------------------------------------------------------------------
(* The gate implements the ledger. *)

(* The evidence of a row is never erased. *)
LEMMA LedgerStep == Inv /\ Inv' /\ [Next]_vars => [Ledger!Next]_(Ledger!ledgerVars)
  <1> DEFINE proved == {k \in Keys : rows[k].evidence}
  <1> SUFFICES ASSUME Inv, Inv', [Next]_vars
               PROVE  Ledger!Next \/ UNCHANGED <<approved, effects, proved>>
    BY DEF Ledger!ledgerVars
  <1> USE DEF Inv, TypeOK, Key, Calls, Rows
  <1>1. CASE UNCHANGED vars
    BY <1>1 DEF vars
  <1>2. ASSUME NEW s \in Sessions, Call(s) \/ Step(s) \/ Crash(s)
        PROVE  Ledger!Next \/ UNCHANGED <<approved, effects, proved>>
    <2>0. Key(s) \in Keys
      OBVIOUS
    <2>1. CASE UNCHANGED <<rows, effects, approved>>
      BY <2>1
    <2>2. CASE \/ RequestInsert(s) \/ RequestPark(s) \/ Deny(s) \/ Reverify(s) \/ RunExecute(s)
               \/ ExecuteRaises(s) \/ ExecuteReturns(s) \/ RunVerify(s) \/ VerifyFails(s)
               \/ VerifyGivesUp(s)
      <3>1. UNCHANGED <<effects, approved>>
        BY <2>2 DEF RequestInsert, RequestPark, Deny, Reverify, RunExecute, ExecuteRaises,
                    ExecuteReturns, RunVerify, VerifyFails, VerifyGivesUp
      <3>2. \A k \in Keys : rows'[k].evidence = rows[k].evidence
        <4>1. CASE RequestInsert(s)
          BY <2>0, <4>1 DEF RequestInsert, PendingRow, NoRow, RowsAreHonest
        <4>2. CASE RequestPark(s) \/ RunExecute(s) \/ ExecuteRaises(s)
          BY SMTT(30), <2>0, <4>2 DEF RequestPark, RunExecute, ExecuteRaises
        <4>3. CASE Deny(s)
          BY <2>0, <4>3 DEF Deny
        <4>4. CASE Reverify(s)
          BY <2>0, <4>4 DEF Reverify
        <4>5. CASE ExecuteReturns(s) \/ RunVerify(s) \/ VerifyFails(s) \/ VerifyGivesUp(s)
          BY <2>0, <4>5 DEF ExecuteReturns, RunVerify, VerifyFails, VerifyGivesUp
        <4>6. QED
          BY <2>2, <4>1, <4>2, <4>3, <4>4, <4>5
      <3>3. QED
        BY <3>1, <3>2
    <2>3. CASE RecordApproval(s) \/ Approve(s)
      <3>0. \A k \in Keys : rows'[k].evidence = rows[k].evidence
        BY <2>0, <2>3 DEF RecordApproval, Approve
      <3>1. Ledger!Approve(Key(s))
        BY <2>0, <2>3, <3>0 DEF RecordApproval, Approve, Ledger!Approve
      <3>2. QED
        BY <2>0, <3>1 DEF Ledger!Next
    <2>4. CASE Execute(s)
      <3>1. IF Key(s) \in ApprovalKeys THEN Key(s) \in approved ELSE effects[Key(s)] = 0
        BY <2>4 DEF Execute, CallsAreLicensed, Licensed, HolderIsFirst, Holder, At
      <3>2. Requires[Key(s)] \subseteq proved
        <4>1. rows[Key(s)].state # "absent"
          BY <2>4 DEF Execute, CallsAreLicensed, Licensed, Fresh, HolderIsFirst, At
        <4>2. QED
          BY <2>0, <4>1, KeysAssumption DEF RowsAreHonest
      <3>3. Ledger!Happen(Key(s))
        BY <2>4, <3>1, <3>2 DEF Execute, Ledger!Happen
      <3>4. QED
        BY <2>0, <3>3 DEF Ledger!Next
    <2>5. CASE VerifySucceeds(s)
      <3> PICK k \in Keys : k = Key(s)
        BY <2>0
      <3>1. Ledger!Prove(k)
        BY <2>5 DEF VerifySucceeds, Provable, Ledger!Prove
      <3>2. QED
        BY <3>1, Zenon DEF Ledger!Next
    <2>6. CASE Call(s) \/ Crash(s) \/ Finish(s) \/ RequestConflict(s) \/ RequestRun(s)
               \/ VerifyRaises(s)
      BY <2>1, <2>6 DEF Call, RequestCheck, Decide, ReverifyRead, Resume, Crash, Finish,
                        RequestConflict, RequestRun, VerifyRaises
    <2>7. QED
      BY <1>2, <2>2, <2>3, <2>4, <2>5, <2>6 DEF Step
  <1>3. QED
    BY <1>1, <1>2 DEF Next

(* Every behaviour of the gate, whatever its sessions' interleaving and
   crashes, is one its ledger allows. *)
THEOREM Refinement == Spec => LedgerSpec
  <1>1. Init => Ledger!Init
    BY DEF Init, Ledger!Init, NoRow
  <1>2. QED
    BY <1>1, LedgerStep, Invariance, PTL DEF Spec, Ledger!Spec, LedgerSpec
=============================================================================
