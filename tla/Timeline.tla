------------------------------ MODULE Timeline ------------------------------
(***************************************************************************)
(* The run's timeline: a stream that reads the four tables in turn, each   *)
(* from its own cursor, while the stages write them, until the run is      *)
(* settled and a pass brings nothing new.                                  *)
(*                                                                         *)
(* A row carries the start of the transaction that wrote it, not the       *)
(* moment it could be read, and a task's row only that of the transaction  *)
(* that created it: the queue moves tasks by statements that leave         *)
(* updated_at alone.  Each read sees what is committed at that moment.     *)
(***************************************************************************)
EXTENDS Naturals, Sequences

CONSTANTS
    Stages,                                 \* the run's stages
    MaxTime, MaxConnections, MaxRequeues     \* bounds of the model

ASSUME TimelineAssumption ==
    MaxTime \in Nat /\ MaxConnections \in Nat /\ MaxRequeues \in Nat

VARIABLES
    rows,       \* the rows of the four tables
    opened,     \* when the transaction a stage has open began, 0 when none is
    clock,      \* when the latest transaction began
    status,     \* runs.status
    stream,     \* where the reader is, whether its pass told anything, and what others did
    since,      \* the reader's cursors
    told,       \* the rows this connection was told
    missed,     \* the rows it was not told when it closed
    connections, requeues

vars == <<rows, opened, clock, status, stream, since, told, missed, connections, requeues>>
reader == <<since, told, missed, connections>>

(* The sources, in the order a pass reads them, and the status after them. *)
Sources == <<"task", "action", "artifact", "agent_call">>
Kinds == {Sources[i] : i \in 1..4}
ReadsStatus == 5

Created == 1
Row(kind, stage, state, at) == [kind |-> kind, stage |-> stage, state |-> state, at |-> at]
TaskRow(s, state) == Row("task", s, state, Created)

Tasks == {r \in rows : r.kind = "task"}
TaskIs(s, state) == TaskRow(s, state) \in rows

(* A slip: a stream that starts at the time of its connection. *)
FromNow == [k \in Kinds |-> clock]
From == [k \in Kinds |-> 0]

(* A reader about to make its first pass: nothing has been told, every cursor
   is at the epoch. *)
Reader(at, reading) ==
    [at |-> at, source |-> 1, emitted |-> FALSE,
     quiet |-> reading, still |-> reading, ordered |-> reading]

(* The stages' tasks have been enqueued. *)
Init ==
    /\ rows = {TaskRow(s, "pending") : s \in Stages}
    /\ opened = [s \in Stages |-> 0]
    /\ clock = Created
    /\ status = "running"
    /\ stream = Reader("idle", FALSE)
    /\ since = From
    /\ told = {} /\ missed = {}
    /\ connections = 0 /\ requeues = 0

-----------------------------------------------------------------------------
(* What is written. *)

(* A task or an action has one row, an artifact or a call one for each time
   it was made. *)
Rewritten(r, new) ==
    /\ r.kind \in {"task", "action"}
    /\ \E n \in new : n.kind = r.kind /\ n.stage = r.stage
Overlay(new) == {r \in rows : ~ Rewritten(r, new)} \cup new

(* What became readable while the reader was connected: anything at all, and
   anything since its pass began; and whether it began after all that could
   already be read. *)
Noticed(inOrder) ==
    IF stream.at = "reading"
      THEN [stream EXCEPT !.quiet = FALSE, !.still = FALSE,
                          !.ordered = stream.ordered /\ inOrder]
      ELSE stream

Latest(s) == \A r \in rows : r.at < opened[s]

(* A stage's transaction makes its rows readable. *)
Commit(s, new) ==
    /\ opened[s] # 0
    /\ rows' = Overlay(new)
    /\ opened' = [opened EXCEPT ![s] = 0]
    /\ stream' = Noticed(Latest(s))

(* A statement of the queue moves a task. *)
MoveTask(s, state) ==
    /\ rows' = Overlay({TaskRow(s, state)})
    /\ stream' = Noticed(TRUE)

(* run_once: a task is claimed and its handler called. *)
Claim(s) ==
    /\ TaskIs(s, "pending") /\ status = "running"
    /\ MoveTask(s, "running")
    /\ UNCHANGED <<opened, clock, status, requeues, reader>>

(* A halted run's task is failed instead. *)
Refuse(s) ==
    /\ TaskIs(s, "pending") /\ status = "halted_budget"
    /\ MoveTask(s, "failed")
    /\ UNCHANGED <<opened, clock, status, requeues, reader>>

(* The handler's first statement since its last commit begins a transaction. *)
Begin(s) ==
    /\ TaskIs(s, "running") /\ opened[s] = 0
    /\ clock < MaxTime
    /\ clock' = clock + 1
    /\ opened' = [opened EXCEPT ![s] = clock']
    /\ UNCHANGED <<rows, status, stream, requeues, reader>>

Made(s) == {Row(k, s, "made", opened[s]) : k \in {"artifact", "agent_call"}}
Called(s) == {Row("agent_call", s, "made", opened[s])}
Requested(s) == \E r \in rows : r.kind = "action" /\ r.stage = s

(* handle_site keeps its page before it asks for the deploy. *)
Keep(s) ==
    /\ Commit(s, Made(s))
    /\ UNCHANGED <<clock, status, requeues, reader>>

(* The gate inserts the stage's action, with the calls that led to it. *)
Request(s) ==
    /\ ~ Requested(s)
    /\ Commit(s, Called(s) \cup {Row("action", s, "executing", opened[s])})
    /\ UNCHANGED <<clock, status, requeues, reader>>

(* The gate commits what became of it. *)
Prove(s) ==
    /\ \E r \in rows : r.kind = "action" /\ r.stage = s /\ r.state = "executing"
    /\ \E verdict \in {"succeeded", "failed"} :
           Commit(s, {Row("action", s, verdict, opened[s])})
    /\ UNCHANGED <<clock, status, requeues, reader>>

(* The handler returned: its last rows and the task's end are one commit. *)
Finish(s) ==
    /\ \E last \in {{}, Made(s)} : Commit(s, last \cup {TaskRow(s, "done")})
    /\ UNCHANGED <<clock, status, requeues, reader>>

Verdict(tasks) ==
    IF \E r \in tasks : r.state \in {"pending", "running"} THEN "running"
    ELSE IF \E r \in tasks : r.state = "failed" THEN "failed" ELSE "succeeded"
Settled(tasks) == IF status = "running" THEN Verdict(tasks) ELSE status

(* The handler raised: its rows are rolled back, the task fails, and the run
   is settled with it. *)
Raise(s) ==
    /\ TaskIs(s, "running") /\ opened[s] # 0
    /\ opened' = [opened EXCEPT ![s] = 0]
    /\ MoveTask(s, "failed")
    /\ status' = Settled({r \in rows' : r.kind = "task"})
    /\ UNCHANGED <<clock, requeues, reader>>

(* The worker died: the sweep returns its task to the queue. *)
Sweep(s) ==
    /\ requeues < MaxRequeues
    /\ TaskIs(s, "running")
    /\ opened' = [opened EXCEPT ![s] = 0]
    /\ MoveTask(s, "pending")
    /\ requeues' = requeues + 1
    /\ UNCHANGED <<clock, status, reader>>

(* After a task that ended: the budget halts the run, or it settles. *)
Halt ==
    /\ status = "running"
    /\ \E r \in rows : r.kind = "agent_call"
    /\ status' = "halted_budget"
    /\ UNCHANGED <<rows, opened, clock, stream, requeues, reader>>

Settle ==
    /\ Settled(Tasks) # status
    /\ status' = Settled(Tasks)
    /\ UNCHANGED <<rows, opened, clock, stream, requeues, reader>>

(* The operator re-queues a stage, and the run re-opens. *)
Retry(s) ==
    /\ requeues < MaxRequeues
    /\ TaskIs(s, "done") \/ TaskIs(s, "failed")
    /\ status # "halted_budget"
    /\ MoveTask(s, "pending")
    /\ status' = "running"
    /\ requeues' = requeues + 1
    /\ UNCHANGED <<opened, clock, reader>>

-----------------------------------------------------------------------------
(* What is read. *)

Connect ==
    /\ stream.at # "reading"
    /\ connections < MaxConnections
    /\ connections' = connections + 1
    /\ stream' = Reader("reading", TRUE)
    /\ since' = From
    /\ told' = {} /\ missed' = {}
    /\ UNCHANGED <<rows, opened, clock, status, requeues>>

Unread(k) == {r \in rows : r.kind = k /\ r.at > since[k]}

(* A slip: the rows come in no order. *)
LastOfAny(r, new) == TRUE

(* The rows come in the order of their times, so the cursor ends at the last. *)
Last(r, new) == \A n \in new : n.at <= r.at

(* A slip: one cursor for the four tables. *)
MovedAll(k, at) == [j \in Kinds |-> IF at > since[j] THEN at ELSE since[j]]
Moved(k, at) == [since EXCEPT ![k] = at]

Poll ==
    /\ stream.at = "reading" /\ stream.source < ReadsStatus
    /\ LET k == Sources[stream.source] IN
       \/ /\ Unread(k) = {}
          /\ stream' = [stream EXCEPT !.source = @ + 1]
          /\ UNCHANGED <<since, told>>
       \/ \E r \in Unread(k) :
              /\ Last(r, Unread(k))
              /\ since' = Moved(k, r.at)
              /\ told' = told \cup Unread(k)
              /\ stream' = [stream EXCEPT !.source = @ + 1, !.emitted = TRUE]
    /\ UNCHANGED <<rows, opened, clock, status, missed, connections, requeues>>

(* A slip: only a run that succeeded is over. *)
OverIfSucceeded == status = "succeeded"
Over == status # "running"

(* A finished run that had nothing new to tell closes the stream. *)
ReadStatus ==
    /\ stream.at = "reading" /\ stream.source = ReadsStatus
    /\ IF Over /\ ~ stream.emitted
         THEN /\ stream' = [stream EXCEPT !.at = "closed"]
              /\ missed' = rows \ told
              /\ told' = {}
         ELSE /\ stream' = [stream EXCEPT !.source = 1, !.emitted = FALSE, !.still = TRUE]
              /\ UNCHANGED <<told, missed>>
    /\ UNCHANGED <<rows, opened, clock, status, since, connections, requeues>>

(* The connection is lost, and the cursors with it. *)
Drop ==
    /\ stream.at = "reading"
    /\ stream' = Reader("idle", FALSE)
    /\ since' = From
    /\ told' = {}
    /\ UNCHANGED <<rows, opened, clock, status, missed, connections, requeues>>

Next ==
    \/ \E s \in Stages : \/ Claim(s) \/ Refuse(s) \/ Begin(s) \/ Keep(s) \/ Request(s)
                         \/ Prove(s) \/ Finish(s) \/ Raise(s) \/ Sweep(s) \/ Retry(s)
    \/ Halt \/ Settle
    \/ Connect \/ Poll \/ ReadStatus \/ Drop

Spec == Init /\ [][Next]_vars

(* The reader's loop runs as long as the connection lives. *)
FairSpec == Spec /\ WF_vars(Poll) /\ WF_vars(ReadStatus)

-----------------------------------------------------------------------------
TaskStates == {"pending", "running", "done", "failed"}
ActionStates == {"executing", "succeeded", "failed"}

TypeOK ==
    /\ rows \subseteq [kind : Kinds, stage : Stages,
                       state : TaskStates \cup ActionStates \cup {"made"}, at : 1..clock]
    /\ opened \in [Stages -> 0..clock]
    /\ clock \in Nat \ {0}
    /\ status \in {"running", "succeeded", "failed", "halted_budget"}
    /\ stream \in [at : {"idle", "reading", "closed"}, source : 1..ReadsStatus,
                   emitted : BOOLEAN, quiet : BOOLEAN, still : BOOLEAN, ordered : BOOLEAN]
    /\ since \in [Kinds -> 0..clock]
    /\ connections \in Nat /\ requeues \in Nat

(* Nothing told lies beyond its cursor: the stream of runs.py tells no row
   twice, however often it reads the tables. *)
CursorsLead == \A r \in told : r.kind \in Kinds /\ r.at <= since[r.kind]

Inv == TypeOK /\ CursorsLead

Closed == stream.at = "closed"
Finished == {"succeeded", "failed"}

(* A console that connects when all is written is told the whole timeline
   before its stream closes, as _timeline promises one that connects late. *)
LateStreamIsWhole == Closed /\ stream.quiet => missed = {}

(* When transactions became readable in the order they began, and none during
   the last pass, the stream of _timeline closes with every action, artifact
   and call told. *)
QuietCloseIsWhole ==
    Closed /\ stream.still /\ stream.ordered => \A r \in missed : r.kind = "task"

(* The stream of a run that has ended for good, settled or halted, is closed
   by _timeline: a console never waits on it for ever. *)
StreamCloses ==
    <>[](status # "running" /\ stream.at # "idle") => <>Closed

(* A console sees the whole timeline of a run that settled (the docstring of
   _timeline), whichever of two stages began first. *)
ConnectedSeesAll ==
    Closed /\ stream.still /\ status \in Finished => \A r \in missed : r.kind = "task"
=============================================================================
