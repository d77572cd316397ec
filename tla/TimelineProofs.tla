--------------------------- MODULE TimelineProofs ---------------------------
(***************************************************************************)
(* The safety of the timeline, for any number of stages, connections and   *)
(* transactions: what a connection was told lies behind its cursors, and   *)
(* while nothing arrives behind them (Behind) the readable rows that do    *)
(* are told.  A pass that tells nothing leaves no row beyond a cursor, so  *)
(* a stream that closes then has told them all.                            *)
(***************************************************************************)
EXTENDS Timeline, TLAPS

Shape ==
    /\ \A r \in rows : /\ r.kind \in Kinds /\ r.stage \in Stages
                       /\ r.at \in Nat /\ r.at > 0 /\ r.at <= clock
                       /\ r.kind = "task" => r.at = Created
    /\ opened \in [Stages -> Nat]
    /\ \A s \in Stages : opened[s] <= clock
    /\ clock \in Nat /\ clock > 0
    /\ stream \in [at : {"idle", "reading", "closed"}, source : 1..ReadsStatus,
                   emitted : BOOLEAN, quiet : BOOLEAN, still : BOOLEAN, ordered : BOOLEAN]
    /\ since \in [Kinds -> Nat]
    /\ \A r \in told : r.kind \in Kinds /\ r.at \in Nat

(* What lies behind its cursor has been told. *)
Followed(which) == \A r \in which : r.at <= since[r.kind] => r \in told

Others == {r \in rows : r.kind # "task"}

(* No cursor is past every readable row. *)
Backed == \A k \in Kinds : since[k] = 0 \/ \E r \in rows : since[k] <= r.at

(* The sources a pass has read, and found to hold nothing new. *)
PassRead == {r \in rows : \E i \in 1..4 : i < stream.source /\ r.kind = Sources[i]}
Exhausted == \A r \in PassRead : r.at <= since[r.kind]

Reading ==
    stream.at = "reading" =>
        /\ stream.quiet => stream.still /\ stream.ordered /\ Followed(rows)
        /\ stream.ordered => Followed(Others) /\ Backed
        /\ stream.still /\ ~ stream.emitted => Exhausted

IInv == Shape /\ CursorsLead /\ Reading /\ LateStreamIsWhole /\ QuietCloseIsWhole

-----------------------------------------------------------------------------
(* Writing. *)

(* The flags of a reader that something happened to. *)
LEMMA NoticedFlags ==
    ASSUME Shape, NEW inOrder \in BOOLEAN, stream' = Noticed(inOrder)
    PROVE  /\ stream' \in [at : {"idle", "reading", "closed"}, source : 1..ReadsStatus,
                           emitted : BOOLEAN, quiet : BOOLEAN, still : BOOLEAN,
                           ordered : BOOLEAN]
           /\ stream'.at = stream.at
           /\ stream.at # "reading" => stream' = stream
           /\ stream.at = "reading" => /\ ~ stream'.quiet
                                       /\ ~ stream'.still
                                       /\ stream'.ordered => stream.ordered /\ inOrder
<1>1. stream \in [at : {"idle", "reading", "closed"}, source : 1..ReadsStatus,
                  emitted : BOOLEAN, quiet : BOOLEAN, still : BOOLEAN, ordered : BOOLEAN]
  BY DEF Shape
<1>2. CASE stream.at # "reading"
  BY <1>1, <1>2 DEF Noticed
<1>3. CASE stream.at = "reading"
  <2>1. stream' = [stream EXCEPT !.quiet = FALSE, !.still = FALSE,
                                 !.ordered = stream.ordered /\ inOrder]
    BY <1>3 DEF Noticed
  <2>2. (stream.ordered /\ inOrder) \in BOOLEAN
    OBVIOUS
  <2>3. /\ stream'.quiet = FALSE /\ stream'.still = FALSE
        /\ stream'.ordered = (stream.ordered /\ inOrder)
        /\ stream'.at = stream.at
    BY <1>1, <2>1, Zenon
  <2>4. stream' \in [at : {"idle", "reading", "closed"}, source : 1..ReadsStatus,
                     emitted : BOOLEAN, quiet : BOOLEAN, still : BOOLEAN, ordered : BOOLEAN]
    BY <1>1, <2>1, <2>2, Zenon
  <2> QED
    BY <1>3, <2>3, <2>4, Zenon
<1> QED
  BY <1>2, <1>3

(* Rows that are written carry their transaction's time, tasks the time they
   were created at; a reader whose commits came in order then still has every
   one of them ahead of its cursors. *)
LEMMA WritingHolds ==
    ASSUME IInv,
           NEW new, NEW t \in Nat, t > 0, t <= clock,
           \A n \in new : /\ n.kind \in Kinds /\ n.stage \in Stages
                          /\ n.kind = "task" => n.at = Created
                          /\ n.kind # "task" => n.at = t,
           NEW inOrder \in BOOLEAN,
           inOrder => (\A r \in rows : r.at < t) \/ (\A n \in new : n.kind = "task"),
           rows' = Overlay(new), stream' = Noticed(inOrder),
           opened' \in [Stages -> Nat], \A s \in Stages : opened'[s] <= clock,
           UNCHANGED <<clock, reader>>
    PROVE  IInv'
<1>1. /\ since' = since /\ told' = told /\ missed' = missed /\ clock' = clock
  BY DEF reader
<1>2. \A r \in rows' : r \in rows \/ r \in new
  BY DEF Overlay
<1>3. Shape'
  BY <1>1, <1>2, NoticedFlags DEF Shape, IInv, Created
<1>4. CursorsLead'
  BY <1>1 DEF IInv, CursorsLead
<1>5. Reading'
  <2> SUFFICES ASSUME stream'.at = "reading", stream'.ordered
               PROVE  Followed(Others)' /\ Backed'
    BY NoticedFlags DEF Reading, IInv
  <2>1. stream.at = "reading" /\ stream.ordered /\ inOrder /\ Followed(Others) /\ Backed
    BY NoticedFlags DEF Reading, IInv
  <2>2. ASSUME NEW k \in Kinds, since[k] # 0
        PROVE  \E r \in rows' : since[k] <= r.at
    <3>1. PICK r \in rows : since[k] <= r.at
      BY <2>1, <2>2 DEF Backed
    <3>2. CASE r \in rows'
      BY <3>1, <3>2
    <3>3. CASE r \notin rows'
      <4>1. PICK n \in new : n.kind = r.kind /\ n.stage = r.stage
        BY <3>3 DEF Overlay, Rewritten
      <4>2. CASE r.kind = "task"
        <5>1. n.at = r.at
          BY <4>1, <4>2 DEF IInv, Shape
        <5> QED
          BY <3>1, <4>1, <5>1 DEF Overlay
      <4>3. CASE r.kind # "task"
        <5>1. n.at = t /\ r.at < t
          BY <2>1, <4>1, <4>3
        <5>2. r.at \in Nat /\ since[k] \in Nat
          BY DEF IInv, Shape
        <5>3. since[k] <= n.at
          BY <3>1, <5>1, <5>2
        <5> QED
          BY <4>1, <5>3 DEF Overlay
      <4> QED
        BY <4>2, <4>3
    <3> QED
      BY <3>2, <3>3
  <2>3. ASSUME NEW n \in new, n.kind # "task"
        PROVE  since[n.kind] < n.at
    <3>1. n.at = t /\ n.kind \in Kinds /\ \A r \in rows : r.at < t
      BY <2>1, <2>3
    <3>2. since[n.kind] = 0 \/ \E r \in rows : since[n.kind] <= r.at
      BY <2>1, <3>1 DEF Backed
    <3>3. since[n.kind] \in Nat /\ \A r \in rows : r.at \in Nat
      BY <3>1 DEF IInv, Shape
    <3> QED
      BY <3>1, <3>2, <3>3
  <2>4. Followed(Others)'
    <3> SUFFICES ASSUME NEW r \in rows', r.kind # "task", r.at <= since[r.kind]
                 PROVE  r \in told
      BY <1>1 DEF Followed, Others
    <3>1. CASE r \in rows
      BY <2>1, <3>1 DEF Followed, Others
    <3>2. CASE r \in new
      <4>1. r.at = t /\ since[r.kind] \in Nat
        BY <3>2 DEF IInv, Shape
      <4> QED
        BY <2>3, <3>2, <4>1
    <3> QED
      BY <1>2, <3>1, <3>2
  <2> QED
    BY <1>1, <2>2, <2>4 DEF Backed
<1>6. LateStreamIsWhole' /\ QuietCloseIsWhole'
  BY <1>1, NoticedFlags DEF IInv, LateStreamIsWhole, QuietCloseIsWhole, Closed
<1> QED
  BY <1>3, <1>4, <1>5, <1>6 DEF IInv

(* The queue moves a task. *)
LEMMA MoveTaskHolds ==
    ASSUME IInv, NEW s \in Stages, NEW state, MoveTask(s, state),
           opened' \in [Stages -> Nat], \A i \in Stages : opened'[i] <= clock,
           UNCHANGED <<clock, reader>>
    PROVE  IInv'
<1> DEFINE new == {TaskRow(s, state)}
           t == 1
           inOrder == TRUE
<1>1. \A n \in new : n.kind = "task" /\ n.stage = s /\ n.at = Created
  BY DEF TaskRow, Row
<1>2. "task" \in Kinds
  BY DEF Kinds, Sources
<1>3. \A n \in new : /\ n.kind \in Kinds /\ n.stage \in Stages
                     /\ n.kind = "task" => n.at = Created
                     /\ n.kind # "task" => n.at = t
  BY <1>1, <1>2
<1>4. t \in Nat /\ t > 0 /\ t <= clock
  BY DEF IInv, Shape
<1>5. /\ inOrder \in BOOLEAN
      /\ rows' = Overlay(new) /\ stream' = Noticed(inOrder)
  BY DEF MoveTask
<1> HIDE DEF new, t, inOrder
<1> QED
  BY <1>1, <1>3, <1>4, <1>5, WritingHolds

(* A stage commits. *)
LEMMA CommitHolds ==
    ASSUME IInv, NEW s \in Stages, NEW new, Commit(s, new),
           \A n \in new : /\ n.kind \in Kinds /\ n.stage \in Stages
                          /\ n.kind = "task" => n.at = Created
                          /\ n.kind # "task" => n.at = opened[s],
           UNCHANGED <<clock, reader>>
    PROVE  IInv'
<1> DEFINE t == opened[s]
           inOrder == \A r \in rows : r.at < t
<1>1. t \in Nat /\ t > 0 /\ t <= clock
  BY DEF Commit, IInv, Shape
<1>2. opened' \in [Stages -> Nat] /\ \A i \in Stages : opened'[i] <= clock
  BY DEF Commit, IInv, Shape
<1>3. rows' = Overlay(new) /\ stream' = Noticed(inOrder)
  BY DEF Commit, Latest
<1>4. inOrder \in BOOLEAN /\ (inOrder => \A r \in rows : r.at < t)
  OBVIOUS
<1>5. \A n \in new : /\ n.kind \in Kinds /\ n.stage \in Stages
                     /\ n.kind = "task" => n.at = Created
                     /\ n.kind # "task" => n.at = t
  OBVIOUS
<1> HIDE DEF t, inOrder
<1> QED
  BY <1>1, <1>2, <1>3, <1>4, <1>5, WritingHolds

(* A step that writes no row and is not the reader's. *)
LEMMA AsideHolds ==
    ASSUME IInv, UNCHANGED <<rows, stream, reader>>,
           clock' \in Nat, clock <= clock',
           opened' \in [Stages -> Nat], \A i \in Stages : opened'[i] <= clock'
    PROVE  IInv'
<1>1. /\ rows' = rows /\ stream' = stream /\ since' = since
      /\ told' = told /\ missed' = missed
  BY DEF reader
<1>2. Shape'
  BY <1>1 DEF IInv, Shape
<1> QED
  BY <1>1, <1>2 DEF IInv, CursorsLead, Reading, Followed, Others, Backed, Exhausted,
                    PassRead, LateStreamIsWhole, QuietCloseIsWhole, Closed

LEMMA StageHolds ==
    ASSUME IInv, NEW s \in Stages,
           \/ Claim(s) \/ Refuse(s) \/ Begin(s) \/ Keep(s) \/ Request(s)
           \/ Prove(s) \/ Finish(s) \/ Raise(s) \/ Sweep(s) \/ Retry(s)
    PROVE  IInv'
<1>1. /\ opened \in [Stages -> Nat] /\ \A i \in Stages : opened[i] <= clock
      /\ clock \in Nat
  BY DEF IInv, Shape
<1>2. {"task", "action", "artifact", "agent_call"} \subseteq Kinds
  BY DEF Kinds, Sources
<1>3. CASE Claim(s) \/ Refuse(s) \/ Retry(s)
  BY <1>1, <1>3, MoveTaskHolds DEF Claim, Refuse, Retry
<1>4. CASE Raise(s) \/ Sweep(s)
  <2>1. opened' = [opened EXCEPT ![s] = 0] /\ UNCHANGED <<clock, reader>>
    BY <1>4 DEF Raise, Sweep
  <2>2. opened' \in [Stages -> Nat] /\ \A i \in Stages : opened'[i] <= clock
    BY <1>1, <2>1
  <2> QED
    BY <1>4, <2>1, <2>2, MoveTaskHolds DEF Raise, Sweep
<1>5. CASE Begin(s)
  BY <1>1, <1>5, AsideHolds DEF Begin
<1>6. CASE Keep(s)
  BY <1>2, <1>6, CommitHolds DEF Keep, Made, Row
<1>7. CASE Request(s)
  BY <1>2, <1>7, CommitHolds DEF Request, Called, Row
<1>8. CASE Prove(s)
  BY <1>2, <1>8, CommitHolds DEF Prove, Row
<1>9. CASE Finish(s)
  BY <1>2, <1>9, CommitHolds DEF Finish, Made, TaskRow, Row
<1> QED
  BY <1>3, <1>4, <1>5, <1>6, <1>7, <1>8, <1>9

-----------------------------------------------------------------------------
(* Reading. *)

LEMMA ReaderFlags ==
    ASSUME NEW at, NEW reading
    PROVE  /\ Reader(at, reading).at = at /\ Reader(at, reading).source = 1
           /\ Reader(at, reading).emitted = FALSE
           /\ Reader(at, reading).quiet = reading /\ Reader(at, reading).still = reading
           /\ Reader(at, reading).ordered = reading
  BY DEF Reader

LEMMA ConnectHolds == IInv /\ Connect => IInv'
<1> SUFFICES ASSUME IInv, Connect
             PROVE  IInv'
  OBVIOUS
<1>1. /\ rows' = rows /\ opened' = opened /\ clock' = clock
      /\ since' = [k \in Kinds |-> 0] /\ told' = {} /\ missed' = {}
      /\ stream' = Reader("reading", TRUE)
  BY DEF Connect, From
<1>2. Shape'
  BY <1>1 DEF IInv, Shape, Reader, ReadsStatus
<1>3. CursorsLead'
  BY <1>1 DEF CursorsLead
<1>4. \A r \in rows : r.kind \in Kinds /\ r.at \in Nat /\ ~ (r.at <= 0)
  BY DEF IInv, Shape
<1>5. Followed(rows)' /\ Followed(Others)' /\ Backed'
  BY <1>1, <1>4 DEF Followed, Others, Backed
<1>6. Exhausted'
  <2>1. stream'.source = 1
    BY <1>1 DEF Reader
  <2> QED
    BY <2>1 DEF Exhausted, PassRead
<1>7. Reading'
  BY <1>1, <1>5, <1>6, ReaderFlags DEF Reading
<1>8. LateStreamIsWhole' /\ QuietCloseIsWhole'
  BY <1>1, ReaderFlags DEF LateStreamIsWhole, QuietCloseIsWhole, Closed
<1> QED
  BY <1>2, <1>3, <1>7, <1>8 DEF IInv

LEMMA DropHolds == IInv /\ Drop => IInv'
<1> SUFFICES ASSUME IInv, Drop
             PROVE  IInv'
  OBVIOUS
<1>1. /\ rows' = rows /\ opened' = opened /\ clock' = clock
      /\ since' = [k \in Kinds |-> 0] /\ told' = {} /\ missed' = missed
      /\ stream' = Reader("idle", FALSE)
  BY DEF Drop, From
<1>2. Shape'
  BY <1>1 DEF IInv, Shape, Reader, ReadsStatus
<1>3. CursorsLead'
  BY <1>1 DEF CursorsLead
<1>4. Reading' /\ LateStreamIsWhole' /\ QuietCloseIsWhole'
  BY <1>1, ReaderFlags DEF Reading, LateStreamIsWhole, QuietCloseIsWhole, Closed
<1> QED
  BY <1>2, <1>3, <1>4 DEF IInv

(* A read leaves every row of its source at or behind the cursor, and what it
   moves the cursor over is told. *)
LEMMA PollHolds == IInv /\ Poll => IInv'
<1> SUFFICES ASSUME IInv, Poll
             PROVE  IInv'
  OBVIOUS
<1> DEFINE k == Sources[stream.source]
<1>1. /\ rows' = rows /\ opened' = opened /\ clock' = clock /\ missed' = missed
      /\ stream.at = "reading" /\ stream.source \in 1..4
  BY DEF Poll, IInv, Shape, ReadsStatus
<1>2. k \in Kinds /\ since[k] \in Nat
  BY <1>1 DEF Kinds, IInv, Shape
<1>3. \A r \in rows : r.kind \in Kinds /\ r.at \in Nat
  BY DEF IInv, Shape
<1>4. stream \in [at : {"idle", "reading", "closed"}, source : 1..ReadsStatus,
                  emitted : BOOLEAN, quiet : BOOLEAN, still : BOOLEAN, ordered : BOOLEAN]
  BY DEF IInv, Shape
<1>5. \/ /\ Unread(k) = {}
         /\ stream' = [stream EXCEPT !.source = @ + 1]
         /\ since' = since /\ told' = told
      \/ \E r \in Unread(k) :
             /\ Last(r, Unread(k))
             /\ since' = [since EXCEPT ![k] = r.at]
             /\ told' = told \cup Unread(k)
             /\ stream' = [stream EXCEPT !.source = @ + 1, !.emitted = TRUE]
  BY DEF Poll, Moved
<1>6. /\ stream'.at = "reading" /\ stream'.source = stream.source + 1
      /\ stream'.quiet = stream.quiet /\ stream'.still = stream.still
      /\ stream'.ordered = stream.ordered
      /\ stream' \in [at : {"idle", "reading", "closed"}, source : 1..ReadsStatus,
                      emitted : BOOLEAN, quiet : BOOLEAN, still : BOOLEAN, ordered : BOOLEAN]
  <2>1. stream.source + 1 \in 1..ReadsStatus
    BY <1>1 DEF ReadsStatus
  <2>2. \/ stream' = [stream EXCEPT !.source = stream.source + 1]
        \/ stream' = [stream EXCEPT !.source = stream.source + 1, !.emitted = TRUE]
    BY <1>5
  <2>3. TRUE \in BOOLEAN
    OBVIOUS
  <2> QED
    BY <1>1, <1>4, <2>1, <2>2, <2>3, Zenon
<1> HIDE DEF k
<1>7. LateStreamIsWhole' /\ QuietCloseIsWhole'
  BY <1>6 DEF LateStreamIsWhole, QuietCloseIsWhole, Closed
<1>8. CASE /\ Unread(k) = {}
           /\ stream' = [stream EXCEPT !.source = @ + 1]
           /\ since' = since /\ told' = told
  <2>1. stream'.emitted = stream.emitted
    BY <1>4, <1>8
  <2>2. Shape' /\ CursorsLead'
    BY <1>1, <1>6, <1>8 DEF IInv, Shape, CursorsLead
  <2>3. Exhausted => Exhausted'
    <3> SUFFICES ASSUME Exhausted, NEW r \in rows, NEW i \in 1..4,
                        i < stream.source + 1, r.kind = Sources[i]
                 PROVE  r.at <= since[r.kind]
      BY <1>1, <1>6, <1>8 DEF Exhausted, PassRead
    <3>1. CASE i < stream.source
      BY <3>1 DEF Exhausted, PassRead
    <3>2. CASE i = stream.source
      BY <1>2, <1>3, <1>8, <3>2 DEF Unread, k
    <3> QED
      BY <1>1, <3>1, <3>2
  <2>4. Reading'
    BY <1>1, <1>6, <1>8, <2>1, <2>3 DEF IInv, Reading, Followed, Others, Backed
  <2> QED
    BY <1>7, <2>2, <2>4 DEF IInv
<1>9. ASSUME NEW last \in Unread(k),
             Last(last, Unread(k)),
             since' = [since EXCEPT ![k] = last.at],
             told' = told \cup Unread(k),
             stream' = [stream EXCEPT !.source = @ + 1, !.emitted = TRUE]
      PROVE  IInv'
  <2>1. stream'.emitted
    BY <1>4, <1>9
  <2>2. last \in rows /\ last.at \in Nat /\ since[k] < last.at
    BY <1>2, <1>3 DEF Unread
  <2>3. /\ since \in [Kinds -> Nat] /\ since' \in [Kinds -> Nat]
        /\ since'[k] = last.at
        /\ \A j \in Kinds : j # k => since'[j] = since[j]
    BY <1>2, <1>9, <2>2 DEF IInv, Shape
  <2>4. \A r \in Unread(k) : r \in rows /\ r.kind = k /\ r.at <= since'[k]
    BY <1>9, <2>3 DEF Unread, Last
  <2>5. Shape'
    BY <1>1, <1>3, <1>6, <1>9, <2>3, <2>4 DEF IInv, Shape
  <2>6. CursorsLead'
    <3> SUFFICES ASSUME NEW r \in told'
                 PROVE  r.kind \in Kinds /\ r.at <= since'[r.kind]
      BY DEF CursorsLead
    <3>1. CASE r \in told
      BY <3>1, <1>2, <2>2, <2>3 DEF IInv, Shape, CursorsLead
    <3>2. CASE r \in Unread(k)
      BY <1>2, <2>4, <3>2
    <3> QED
      BY <1>9, <3>1, <3>2
  <2>7. ASSUME NEW which, which \subseteq rows, Followed(which),
               NEW r \in which, r.at <= since'[r.kind]
        PROVE  r \in told'
    <3>1. CASE r.kind # k
      BY <1>3, <1>9, <2>3, <2>7, <3>1 DEF Followed
    <3>2. CASE r.kind = k /\ r.at <= since[k]
      BY <1>9, <2>7, <3>2 DEF Followed
    <3>3. CASE r.kind = k /\ r.at > since[k]
      BY <1>9, <2>7, <3>3 DEF Unread
    <3> QED
      BY <1>2, <1>3, <2>7, <3>1, <3>2, <3>3
  <2>8. (Followed(rows) => Followed(rows)') /\ (Followed(Others) => Followed(Others)')
    BY <1>1, <2>7 DEF Followed, Others
  <2>9. Backed => Backed'
    BY <1>1, <2>2, <2>3 DEF Backed
  <2>10. Reading'
    BY <1>1, <1>6, <2>1, <2>8, <2>9 DEF IInv, Reading
  <2> QED
    BY <1>7, <2>5, <2>6, <2>10 DEF IInv
<1> QED
  BY <1>5, <1>8, <1>9

(* A stream that closes has read its four sources and told nothing: every row
   is at or behind its cursor. *)
LEMMA ReadStatusHolds == IInv /\ ReadStatus => IInv'
<1> SUFFICES ASSUME IInv, ReadStatus
             PROVE  IInv'
  OBVIOUS
<1>1. /\ rows' = rows /\ opened' = opened /\ clock' = clock /\ since' = since
      /\ stream.at = "reading" /\ stream.source = 5
  BY DEF ReadStatus, ReadsStatus
<1>2. stream \in [at : {"idle", "reading", "closed"}, source : 1..ReadsStatus,
                  emitted : BOOLEAN, quiet : BOOLEAN, still : BOOLEAN, ordered : BOOLEAN]
  BY DEF IInv, Shape
<1>3. CASE Over /\ ~ stream.emitted
  <2>1. /\ stream' = [stream EXCEPT !.at = "closed"]
        /\ missed' = rows \ told /\ told' = {}
    BY <1>3 DEF ReadStatus
  <2>2. /\ stream'.at = "closed" /\ stream'.quiet = stream.quiet
        /\ stream'.still = stream.still /\ stream'.ordered = stream.ordered
        /\ stream' \in [at : {"idle", "reading", "closed"}, source : 1..ReadsStatus,
                        emitted : BOOLEAN, quiet : BOOLEAN, still : BOOLEAN,
                        ordered : BOOLEAN]
    BY <1>2, <2>1
  <2>3. Shape' /\ CursorsLead' /\ Reading'
    BY <1>1, <2>1, <2>2 DEF IInv, Shape, CursorsLead, Reading
  <2>4. ASSUME stream.still, NEW r \in rows
        PROVE  r.at <= since[r.kind]
    <3>1. Exhausted
      BY <1>1, <1>3, <2>4 DEF IInv, Reading
    <3>2. PICK i \in 1..4 : r.kind = Sources[i]
      BY DEF IInv, Shape, Kinds
    <3> QED
      BY <1>1, <3>1, <3>2 DEF Exhausted, PassRead
  <2>5. LateStreamIsWhole'
    <3> SUFFICES ASSUME stream.quiet
                 PROVE  missed' = {}
      BY <2>2 DEF LateStreamIsWhole, Closed
    <3>1. stream.still /\ Followed(rows)
      BY <1>1 DEF IInv, Reading
    <3> QED
      BY <2>1, <2>4, <3>1 DEF Followed
  <2>6. QuietCloseIsWhole'
    <3> SUFFICES ASSUME stream.still, stream.ordered, NEW r \in missed', r.kind # "task"
                 PROVE  FALSE
      BY <2>2 DEF QuietCloseIsWhole, Closed
    <3>1. Followed(Others)
      BY <1>1 DEF IInv, Reading
    <3> QED
      BY <2>1, <2>4, <3>1 DEF Followed, Others
  <2> QED
    BY <2>3, <2>5, <2>6 DEF IInv
<1>4. CASE ~ (Over /\ ~ stream.emitted)
  <2>1. /\ stream' = [stream EXCEPT !.source = 1, !.emitted = FALSE, !.still = TRUE]
        /\ missed' = missed /\ told' = told
    BY <1>4 DEF ReadStatus
  <2>2. /\ stream'.at = "reading" /\ stream'.quiet = stream.quiet
        /\ stream'.still = TRUE /\ stream'.ordered = stream.ordered
        /\ stream'.source = 1
    BY <1>1, <1>2, <2>1, Zenon
  <2>3. stream' \in [at : {"idle", "reading", "closed"}, source : 1..ReadsStatus,
                     emitted : BOOLEAN, quiet : BOOLEAN, still : BOOLEAN, ordered : BOOLEAN]
    <3>1. 1 \in 1..ReadsStatus
      BY DEF ReadsStatus
    <3> QED
      BY <1>2, <2>1, <3>1, Zenon
  <2>4. Shape' /\ CursorsLead'
    BY <1>1, <2>1, <2>3 DEF IInv, Shape, CursorsLead
  <2>5. Exhausted'
    BY <2>2 DEF Exhausted, PassRead
  <2>6. Reading'
    BY <1>1, <2>1, <2>2, <2>5 DEF IInv, Reading, Followed, Others, Backed
  <2>7. LateStreamIsWhole' /\ QuietCloseIsWhole'
    BY <2>2 DEF LateStreamIsWhole, QuietCloseIsWhole, Closed
  <2> QED
    BY <2>4, <2>6, <2>7 DEF IInv
<1> QED
  BY <1>3, <1>4

-----------------------------------------------------------------------------
(* Everything proved below is this invariant's. *)
THEOREM TimelineInvariant == Spec => []IInv
<1>1. Init => IInv
  <2> SUFFICES ASSUME Init
               PROVE  IInv
    OBVIOUS
  <2>1. /\ opened = [s \in Stages |-> 0] /\ clock = 1 /\ stream = Reader("idle", FALSE)
        /\ since = [k \in Kinds |-> 0] /\ told = {}
        /\ rows = {TaskRow(s, "pending") : s \in Stages}
    BY DEF Init, From, Created
  <2>2. stream.at = "idle" /\ stream \in [at : {"idle", "reading", "closed"},
            source : 1..ReadsStatus, emitted : BOOLEAN, quiet : BOOLEAN, still : BOOLEAN,
            ordered : BOOLEAN]
    BY <2>1 DEF Reader, ReadsStatus
  <2>3. "task" \in Kinds
    BY DEF Kinds, Sources
  <2>4. Shape
    <3>1. \A r \in rows : r.kind = "task" /\ r.stage \in Stages /\ r.at = 1
      BY <2>1 DEF TaskRow, Row, Created
    <3>2. since \in [Kinds -> Nat] /\ opened \in [Stages -> Nat]
      BY <2>1
    <3>3. clock = 1 /\ \A s \in Stages : opened[s] = 0
      BY <2>1, Zenon
    <3>4. told = {}
      BY <2>1, Zenon
    <3> QED
      BY <2>2, <2>3, <3>1, <3>2, <3>3, <3>4 DEF Shape, Created
  <2> QED
    BY <2>1, <2>2, <2>4 DEF IInv, CursorsLead, Reading, LateStreamIsWhole,
                            QuietCloseIsWhole, Closed
<1>2. IInv /\ [Next]_vars => IInv'
  <2> SUFFICES ASSUME IInv, [Next]_vars
               PROVE  IInv'
    OBVIOUS
  <2>1. CASE \E s \in Stages :
                 \/ Claim(s) \/ Refuse(s) \/ Begin(s) \/ Keep(s) \/ Request(s)
                 \/ Prove(s) \/ Finish(s) \/ Raise(s) \/ Sweep(s) \/ Retry(s)
    BY <2>1, StageHolds
  <2>2. CASE Halt \/ Settle \/ UNCHANGED vars
    <3>1. /\ UNCHANGED <<rows, stream, reader>>
          /\ clock' = clock /\ opened' = opened
      BY <2>2 DEF Halt, Settle, vars, reader
    <3> QED
      BY <3>1, AsideHolds DEF IInv, Shape
  <2>3. CASE Connect \/ Poll \/ ReadStatus \/ Drop
    BY <2>3, ConnectHolds, PollHolds, ReadStatusHolds, DropHolds
  <2> QED
    BY <2>1, <2>2, <2>3 DEF Next
<1> QED
  BY <1>1, <1>2, PTL DEF Spec

(* A console that connects when all is written is told the whole timeline. *)
THEOREM LateConsoleSeesAll == Spec => []LateStreamIsWhole
<1>1. IInv => LateStreamIsWhole
  BY DEF IInv
<1> QED
  BY <1>1, TimelineInvariant, PTL

(* A stream that closes over commits that came in order, none of them during
   its last pass, has missed the moves of tasks only. *)
THEOREM OrderedStreamSeesAll == Spec => []QuietCloseIsWhole
<1>1. IInv => QuietCloseIsWhole
  BY DEF IInv
<1> QED
  BY <1>1, TimelineInvariant, PTL

(* What was told lies behind its cursor, whatever the stages do: no row is
   told twice. *)
THEOREM NothingToldTwice == Spec => []CursorsLead
<1>1. IInv => CursorsLead
  BY DEF IInv
<1> QED
  BY <1>1, TimelineInvariant, PTL
-----------------------------------------------------------------------------
(* The types, and with them the invariant of the checked runs. *)

States == TaskStates \cup ActionStates \cup {"made"}
TypedRow == [kind : Kinds, stage : Stages, state : States, at : Nat]

(* What IInv does not say of the types. *)
Typed ==
    /\ rows \subseteq TypedRow
    /\ status \in {"running", "succeeded", "failed", "halted_budget"}
    /\ \A k \in Kinds : since[k] <= clock
    /\ connections \in Nat /\ requeues \in Nat

LEMMA TypedGivesInv == IInv /\ Typed => Inv
<1> SUFFICES ASSUME IInv, Typed
             PROVE  Inv
  OBVIOUS
<1>1. rows \subseteq [kind : Kinds, stage : Stages,
                      state : TaskStates \cup ActionStates \cup {"made"}, at : 1..clock]
  <2> SUFFICES ASSUME NEW r \in rows
               PROVE  r \in [kind : Kinds, stage : Stages, state : States, at : 1..clock]
    BY DEF States
  <2>1. r \in TypedRow /\ r.at \in 1..clock
    BY DEF IInv, Shape, Typed
  <2> QED
    BY <2>1 DEF TypedRow
<1>2. opened \in [Stages -> 0..clock] /\ since \in [Kinds -> 0..clock]
  <2>1. /\ opened \in [Stages -> Nat] /\ \A s \in Stages : opened[s] \in 0..clock
        /\ since \in [Kinds -> Nat] /\ \A k \in Kinds : since[k] \in 0..clock
    BY DEF IInv, Shape, Typed
  <2> QED
    BY <2>1
<1> QED
  BY <1>1, <1>2 DEF IInv, Shape, Typed, Inv, TypeOK

LEMMA WritingKeepsTypes ==
    ASSUME Typed, NEW new, new \subseteq TypedRow, rows' = Overlay(new),
           status' \in {"running", "succeeded", "failed", "halted_budget"},
           UNCHANGED <<clock, reader>>, requeues' \in Nat
    PROVE  Typed'
<1>1. since' = since /\ connections' = connections /\ clock' = clock
  BY DEF reader
<1>2. rows' \subseteq TypedRow
  BY DEF Overlay, Typed
<1> QED
  BY <1>1, <1>2 DEF Typed

LEMMA RowsAreTyped ==
    ASSUME NEW s \in Stages
    PROVE  /\ \A state \in TaskStates : {TaskRow(s, state)} \subseteq TypedRow
           /\ \A state \in ActionStates, at \in Nat :
                  {Row("action", s, state, at)} \subseteq TypedRow
           /\ opened[s] \in Nat => Made(s) \subseteq TypedRow /\ Called(s) \subseteq TypedRow
<1>1. {"task", "action", "artifact", "agent_call"} \subseteq Kinds
  BY DEF Kinds, Sources
<1>2. Created \in Nat
  BY DEF Created
<1>3. TaskStates \subseteq States /\ ActionStates \subseteq States /\ "made" \in States
  BY DEF States
<1>4. ASSUME NEW kind \in Kinds, NEW state \in States, NEW at \in Nat
      PROVE  Row(kind, s, state, at) \in TypedRow
  BY DEF Row, TypedRow
<1>5. \A state \in TaskStates : {TaskRow(s, state)} \subseteq TypedRow
  BY <1>1, <1>2, <1>3, <1>4 DEF TaskRow
<1>6. \A state \in ActionStates, at \in Nat : {Row("action", s, state, at)} \subseteq TypedRow
  BY <1>1, <1>3, <1>4
<1>7. opened[s] \in Nat => Made(s) \subseteq TypedRow /\ Called(s) \subseteq TypedRow
  BY <1>1, <1>3, <1>4 DEF Made, Called
<1> QED
  BY <1>5, <1>6, <1>7

LEMMA StageKeepsTypes ==
    ASSUME IInv, Typed, NEW s \in Stages,
           \/ Claim(s) \/ Refuse(s) \/ Begin(s) \/ Keep(s) \/ Request(s)
           \/ Prove(s) \/ Finish(s) \/ Raise(s) \/ Sweep(s) \/ Retry(s)
    PROVE  Typed'
<1>1. /\ status \in {"running", "succeeded", "failed", "halted_budget"}
      /\ requeues \in Nat /\ opened[s] \in Nat /\ requeues + 1 \in Nat
  BY DEF IInv, Shape, Typed
<1>2. /\ {"pending", "running", "done", "failed"} \subseteq TaskStates
      /\ {"executing", "succeeded", "failed"} \subseteq ActionStates
  BY DEF TaskStates, ActionStates
<1>3. \A tasks : Settled(tasks) \in {"running", "succeeded", "failed", "halted_budget"}
  BY <1>1 DEF Settled, Verdict
<1>4. CASE Claim(s) \/ Refuse(s)
  BY <1>1, <1>2, <1>4, RowsAreTyped, WritingKeepsTypes DEF Claim, Refuse, MoveTask
<1>5. CASE Raise(s) \/ Sweep(s) \/ Retry(s)
  <2>1. /\ \E state \in TaskStates : rows' = Overlay({TaskRow(s, state)})
        /\ status' \in {"running", "succeeded", "failed", "halted_budget"}
        /\ requeues' \in Nat /\ UNCHANGED <<clock, reader>>
    BY <1>1, <1>2, <1>3, <1>5 DEF Raise, Sweep, Retry, MoveTask
  <2> QED
    BY <2>1, RowsAreTyped, WritingKeepsTypes
<1>6. CASE Begin(s)
  BY <1>6 DEF Begin, Typed, IInv, Shape, reader
<1>7. CASE Keep(s)
  BY <1>1, <1>7, RowsAreTyped, WritingKeepsTypes DEF Keep, Commit
<1>8. CASE Request(s)
  <2>1. Called(s) \cup {Row("action", s, "executing", opened[s])} \subseteq TypedRow
    BY <1>1, <1>2, RowsAreTyped
  <2> QED
    BY <1>1, <1>8, <2>1, WritingKeepsTypes DEF Request, Commit
<1>9. CASE Prove(s)
  <2>1. \E verdict \in ActionStates : rows' = Overlay({Row("action", s, verdict, opened[s])})
    BY <1>2, <1>9 DEF Prove, Commit
  <2> QED
    BY <1>1, <1>9, <2>1, RowsAreTyped, WritingKeepsTypes DEF Prove
<1>10. CASE Finish(s)
  <2>1. \E last \in {{}, Made(s)} : rows' = Overlay(last \cup {TaskRow(s, "done")})
    BY <1>10 DEF Finish, Commit
  <2>2. \A last \in {{}, Made(s)} : last \cup {TaskRow(s, "done")} \subseteq TypedRow
    BY <1>1, <1>2, RowsAreTyped
  <2> QED
    BY <1>1, <1>10, <2>1, <2>2, WritingKeepsTypes DEF Finish
<1> QED
  BY <1>4, <1>5, <1>6, <1>7, <1>8, <1>9, <1>10

LEMMA ReaderKeepsTypes ==
    ASSUME IInv, Typed, Connect \/ Poll \/ ReadStatus \/ Drop
    PROVE  Typed'
<1>1. /\ UNCHANGED <<rows, clock, status, requeues>> /\ connections' \in Nat
  <2>1. connections \in Nat /\ connections + 1 \in Nat
    BY DEF Typed
  <2> QED
    BY <2>1 DEF Connect, Poll, ReadStatus, Drop
<1>2. clock \in Nat /\ since \in [Kinds -> Nat] /\ \A r \in rows : r.at <= clock
  BY DEF IInv, Shape
<1>3. \A k \in Kinds : since'[k] <= clock
  <2>1. CASE Connect \/ Drop
    <3>1. since' = [k \in Kinds |-> 0]
      BY <2>1 DEF Connect, Drop, From
    <3> QED
      BY <1>2, <3>1
  <2>2. CASE ReadStatus
    BY <2>2 DEF ReadStatus, Typed
  <2>3. CASE Poll
    <3>1. \/ since' = since
          \/ \E r \in rows : since' = [since EXCEPT ![Sources[stream.source]] = r.at]
      BY <2>3 DEF Poll, Moved, Unread
    <3> QED
      BY <1>2, <3>1 DEF Typed
  <2> QED
    BY <2>1, <2>2, <2>3
<1> QED
  BY <1>1, <1>3 DEF Typed

(* Every state the timeline reaches is one its tables can hold, a row's time
   is that of a transaction that began, and nothing told lies beyond its
   cursor. *)
THEOREM TimelineKeepsInv == Spec => []Inv
<1>1. Init => Typed
  <2> SUFFICES ASSUME Init
               PROVE  Typed
    OBVIOUS
  <2>1. rows \subseteq TypedRow
    BY RowsAreTyped DEF Init, TaskStates
  <2>2. \A k \in Kinds : since[k] <= clock
    BY DEF Init, From, Created
  <2> QED
    BY <2>1, <2>2 DEF Init, Typed
<1>2. IInv /\ Typed /\ [Next]_vars => Typed'
  <2> SUFFICES ASSUME IInv, Typed, [Next]_vars
               PROVE  Typed'
    OBVIOUS
  <2>1. CASE \E s \in Stages :
                 \/ Claim(s) \/ Refuse(s) \/ Begin(s) \/ Keep(s) \/ Request(s)
                 \/ Prove(s) \/ Finish(s) \/ Raise(s) \/ Sweep(s) \/ Retry(s)
    BY <2>1, StageKeepsTypes
  <2>2. CASE Halt \/ Settle \/ UNCHANGED vars
    BY <2>2 DEF Halt, Settle, Settled, Verdict, vars, reader, Typed
  <2>3. CASE Connect \/ Poll \/ ReadStatus \/ Drop
    BY <2>3, ReaderKeepsTypes
  <2> QED
    BY <2>1, <2>2, <2>3 DEF Next
<1> QED
  BY <1>1, <1>2, TimelineInvariant, TypedGivesInv, PTL DEF Spec
=============================================================================
