---------------------------- MODULE StudioProofs ----------------------------
(***************************************************************************)
(* Proofs about Studio, for every selection, pack and bound: nothing       *)
(* flagged leaves the house but by a deploy, every post has one task, and, *)
(* unless the plan is re-run, a launch is announced behind a proved deploy *)
(* and a parked task waits for the decision that releases it.              *)
(***************************************************************************)
EXTENDS Studio, FiniteSetTheorems, SequenceTheorems, TLAPS

TaskStates == {"pending", "running", "awaiting_approval", "done", "failed"}
Points == {"idle", "working", "built"}
ActionStates == {"absent", "awaiting_approval", "succeeded", "failed"}

TaskRow == [kind : TaskKinds, slot : 0 .. Slots, after : SUBSET Nat, state : TaskStates,
            action : Keys \cup {<<>>}, pc : Points, version : Docs, content : Artifact]

ActionRow == [state : ActionStates, owner : Nat, content : Artifact]

(* The tables, and the document's version, which the plan and the operator raise. *)
Tables ==
    /\ tasks \in Seq(TaskRow) /\ Len(tasks) > 0
    /\ doc \in Docs
    /\ artifacts \in [ArtifactKinds -> Seq(Artifact)]
    /\ actions \in [Keys -> ActionRow]
    /\ outbound \subseteq [key : Keys \cup {<<"video", 0, 0>>}, content : Artifact]
    /\ edits \in 0 .. MaxEdits /\ reruns \in 0 .. MaxReruns /\ crashes \in 0 .. MaxCrashes

(* A row of `tasks` once it is enqueued. *)
Kept(old, new) == new.kind = old.kind /\ new.slot = old.slot /\ new.after = old.after

Fresh(row) == row.state = "pending" /\ row.pc = "idle" /\ row.action = <<>>

-----------------------------------------------------------------------------
(* Rows of `tasks`. *)

LEMMA RowIsSet ==
    ASSUME Tables, NEW t \in Ids, NEW row \in TaskRow, tasks' = [tasks EXCEPT ![t] = row]
    PROVE  /\ tasks' \in Seq(TaskRow) /\ Len(tasks') = Len(tasks) /\ Ids' = Ids
           /\ tasks'[t] = row /\ \A u \in Ids : u # t => tasks'[u] = tasks[u]
  BY DEF Tables, Ids

LEMMA Joined ==
    ASSUME NEW S, NEW a \in Seq(S), NEW b \in Seq(S)
    PROVE  /\ a \o b \in Seq(S) /\ Len(a \o b) = Len(a) + Len(b)
           /\ Len(a) \in Nat /\ Len(b) \in Nat
           /\ \A u \in 1 .. Len(a) : (a \o b)[u] = a[u]
           /\ \A i \in 1 .. Len(b) : (a \o b)[Len(a) + i] = b[i]
  <1>1. /\ a \o b \in Seq(S) /\ Len(a \o b) = Len(a) + Len(b)
        /\ Len(a) \in Nat /\ Len(b) \in Nat
    OBVIOUS
  <1>2. \A u \in 1 .. Len(a) + Len(b) :
            (a \o b)[u] = IF u <= Len(a) THEN a[u] ELSE b[u - Len(a)]
    BY ConcatProperties
  <1>3. \A u \in 1 .. Len(a) : (a \o b)[u] = a[u]
    BY <1>1, <1>2
  <1>4. ASSUME NEW i \in 1 .. Len(b)
        PROVE  (a \o b)[Len(a) + i] = b[i]
    <2>1. /\ Len(a) + i \in 1 .. Len(a) + Len(b) /\ ~ (Len(a) + i <= Len(a))
          /\ Len(a) + i - Len(a) = i
      BY <1>1
    <2> QED BY <1>2, <2>1
  <1> QED BY <1>1, <1>3, <1>4

LEMMA Grown ==
    ASSUME NEW S, NEW old \in Seq(S), NEW t \in 1 .. Len(old), NEW row \in S,
           NEW new \in Seq(S), NEW both, both = [old EXCEPT ![t] = row] \o new
    PROVE  /\ both \in Seq(S) /\ Len(both) = Len(old) + Len(new)
           /\ 1 .. Len(old) \subseteq 1 .. Len(both)
           /\ both[t] = row /\ \A u \in 1 .. Len(old) : u # t => both[u] = old[u]
           /\ \A i \in 1 .. Len(new) : both[Len(old) + i] = new[i]
  <1>1. PICK set : set = [old EXCEPT ![t] = row]
    OBVIOUS
  <1>2. /\ set \in Seq(S) /\ Len(set) = Len(old)
        /\ set[t] = row /\ \A u \in 1 .. Len(old) : u # t => set[u] = old[u]
    BY <1>1
  <1>3. both = set \o new
    BY <1>1
  <1>4. /\ both \in Seq(S) /\ Len(both) = Len(set) + Len(new)
        /\ Len(set) \in Nat /\ Len(new) \in Nat
        /\ \A u \in 1 .. Len(set) : both[u] = set[u]
        /\ \A i \in 1 .. Len(new) : both[Len(set) + i] = new[i]
    BY <1>2, <1>3, Joined
  <1> QED BY <1>2, <1>4

LEMMA RowsAreAdded ==
    ASSUME Tables, NEW t \in Ids, NEW row \in TaskRow, NEW new \in Seq(TaskRow),
           tasks' = [tasks EXCEPT ![t] = row] \o new
    PROVE  /\ tasks' \in Seq(TaskRow) /\ Len(tasks') = Len(tasks) + Len(new)
           /\ Ids \subseteq Ids'
           /\ tasks'[t] = row /\ \A u \in Ids : u # t => tasks'[u] = tasks[u]
           /\ \A i \in 1 .. Len(new) : tasks'[Len(tasks) + i] = new[i]
           /\ \A u \in Ids' : u \in Ids \/ \E i \in 1 .. Len(new) : u = Len(tasks) + i
  <1>1. tasks \in Seq(TaskRow) /\ t \in 1 .. Len(tasks) /\ row \in TaskRow
        /\ new \in Seq(TaskRow)
    BY DEF Tables, Ids
  <1>2. PICK both : both = [tasks EXCEPT ![t] = row] \o new
    OBVIOUS
  <1>3. tasks' = both
    BY <1>2
  <1>4. /\ both \in Seq(TaskRow) /\ Len(both) = Len(tasks) + Len(new)
        /\ 1 .. Len(tasks) \subseteq 1 .. Len(both)
    BY <1>1, <1>2, Grown
  <1>5. both[t] = row /\ \A u \in 1 .. Len(tasks) : u # t => both[u] = tasks[u]
    BY <1>1, <1>2, Grown
  <1>6. \A i \in 1 .. Len(new) : both[Len(tasks) + i] = new[i]
    BY <1>1, <1>2, Grown
  <1>7. ASSUME NEW u \in 1 .. Len(both), u \notin 1 .. Len(tasks)
        PROVE  \E i \in 1 .. Len(new) : u = Len(tasks) + i
    <2>1. Len(tasks) \in Nat /\ Len(new) \in Nat
      BY <1>1
    <2>2. u - Len(tasks) \in 1 .. Len(new) /\ u = Len(tasks) + (u - Len(tasks))
      BY <1>4, <1>7, <2>1
    <2> QED BY <2>2
  <1> QED BY <1>3, <1>4, <1>5, <1>6, <1>7 DEF Ids

LeftRow(t, state) == [tasks[t] EXCEPT !.state = state, !.pc = "idle", !.version = 0,
                                      !.content = NoArtifact]

LEMMA NothingWritten == NoArtifact \in Artifact /\ 0 \in Docs
  BY StudioAssumption DEF NoArtifact, Artifact, Docs

LEMMA WrittenIs ==
    ASSUME NEW status \in {"clean", "flagged"}, NEW r \in 0 .. MaxRevisions + 1
    PROVE  /\ Written(status, r) \in Artifact
           /\ Written(status, r).status = status /\ Written(status, r).posts = 0
  <1>1. PICK none : none = NoArtifact
    OBVIOUS
  <1>2. none \in Artifact /\ none.posts = 0
    <2>1. none = [status |-> "flagged", revision |-> 0, posts |-> 0]
      BY <1>1 DEF NoArtifact
    <2> QED BY <1>1, <2>1, NothingWritten
  <1>3. Written(status, r) = [none EXCEPT !.status = status, !.revision = r]
    BY <1>1 DEF Written
  <1> QED BY <1>2, <1>3 DEF Artifact

LEMMA ProducedTyped ==
    /\ Produced \subseteq Artifact
    /\ \A p \in ProducedPosts : p \in Artifact /\ p.posts \in 1 .. Slots
  <1>1. Produced \subseteq Artifact
    <2>1. \A r \in 0 .. MaxRevisions : r \in 0 .. MaxRevisions + 1
      BY StudioAssumption
    <2>2. MaxRevisions \in 0 .. MaxRevisions + 1
      BY StudioAssumption
    <2> QED BY <2>1, <2>2, WrittenIs DEF Produced
  <1>2. ASSUME NEW p \in ProducedPosts
        PROVE  p \in Artifact /\ p.posts \in 1 .. Slots
    <2>1. PICK q \in Produced, n \in 1 .. Slots : p = [q EXCEPT !.posts = n]
      BY DEF ProducedPosts
    <2>2. q \in Artifact
      BY <1>1
    <2>3. n \in 0 .. Slots
      BY StudioAssumption
    <2> QED BY <2>1, <2>2, <2>3 DEF Artifact
  <1> QED BY <1>1, <1>2

LEMMA RowIsTyped ==
    ASSUME Tables, NEW t \in Ids
    PROVE  tasks[t] \in TaskRow
  BY DEF Tables, Ids

LEMMA LeftRowIs ==
    ASSUME Tables, NEW t \in Ids, NEW state \in TaskStates
    PROVE  /\ Leave(t, state) = [tasks EXCEPT ![t] = LeftRow(t, state)]
           /\ LeftRow(t, state) \in TaskRow
           /\ Kept(tasks[t], LeftRow(t, state))
           /\ LeftRow(t, state).state = state /\ LeftRow(t, state).pc = "idle"
           /\ LeftRow(t, state).action = tasks[t].action
  <1>1. tasks[t] \in TaskRow /\ DOMAIN tasks = Ids
    BY RowIsTyped DEF Tables, Ids
  <1>2. Leave(t, state) = [tasks EXCEPT ![t] = LeftRow(t, state)]
    BY <1>1 DEF Leave, LeftRow
  <1>3. LeftRow(t, state) \in TaskRow
    BY <1>1, NothingWritten DEF LeftRow, TaskRow, Points
  <1>4. /\ Kept(tasks[t], LeftRow(t, state))
        /\ LeftRow(t, state).state = state /\ LeftRow(t, state).pc = "idle"
        /\ LeftRow(t, state).action = tasks[t].action
    BY <1>1 DEF LeftRow, TaskRow, Kept
  <1> QED BY <1>2, <1>3, <1>4

-----------------------------------------------------------------------------
(* What is enqueued. *)

LEMMA Listed ==
    ASSUME NEW S, IsFiniteSet(S)
    PROVE  /\ SetToSeq(S) \in Seq(S)
           /\ \A i, j \in 1 .. Len(SetToSeq(S)) : SetToSeq(S)[i] = SetToSeq(S)[j] => i = j
           /\ \A x \in S : \E i \in 1 .. Len(SetToSeq(S)) : SetToSeq(S)[i] = x
  <1> DEFINE n == Cardinality(S)
             Fits(f) == f \in [1 .. n -> S] /\ IsInjective(f)
  <1>1. n \in Nat /\ ExistsBijection(1 .. n, S)
    BY FS_CardinalityType
  <1>2. PICK g : g \in Bijection(1 .. n, S)
    BY <1>1 DEF ExistsBijection
  <1>3. g \in [1 .. n -> S] /\ \A i, j \in 1 .. n : g[i] = g[j] => i = j
    BY <1>2 DEF Bijection, Injection, IsInjective
  <1>4. \E f \in [1 .. n -> S] : IsInjective(f)
    BY <1>3 DEF IsInjective
  <1>5. SetToSeq(S) = CHOOSE f \in [1 .. n -> S] : IsInjective(f)
    BY DEF SetToSeq
  <1>6. SetToSeq(S) \in [1 .. n -> S] /\ IsInjective(SetToSeq(S))
    BY <1>4, <1>5
  <1>7. PICK f : f = SetToSeq(S)
    OBVIOUS
  <1> HIDE DEF n
  <1>8. f \in [1 .. n -> S] /\ \A i, j \in 1 .. n : f[i] = f[j] => i = j
    BY <1>6, <1>7 DEF IsInjective
  <1>9. f \in Seq(S) /\ Len(f) = n
    BY <1>1, <1>8
  <1>10. f \in Injection(1 .. n, S)
    BY <1>8 DEF Injection, IsInjective
  <1>11. Cardinality(1 .. n) = Cardinality(S)
    <2>1. Cardinality(1 .. n) = n
      BY <1>1, FS_Interval
    <2> QED BY <2>1 DEF n
  <1>12. f \in Surjection(1 .. n, S)
    BY <1>10, <1>11, FS_Injection
  <1>13. \A x \in S : \E i \in 1 .. n : f[i] = x
    BY <1>12 DEF Surjection
  <1> QED BY <1>7, <1>8, <1>9, <1>13

LEMMA StagesAreFinite == IsFiniteSet(Stages)
  <1>1. Stages = {"copy"} \cup {"site"} \cup {"demand"} \cup {"money"}
    BY DEF Stages
  <1>2. IsFiniteSet({"copy"} \cup {"site"})
    BY FS_Singleton, FS_AddElement
  <1>3. IsFiniteSet({"copy"} \cup {"site"} \cup {"demand"})
    BY <1>2, FS_AddElement
  <1>4. IsFiniteSet({"copy"} \cup {"site"} \cup {"demand"} \cup {"money"})
    BY <1>3, FS_AddElement
  <1> QED BY <1>1, <1>4

LEMMA EnqueuedRow ==
    ASSUME NEW kind \in TaskKinds, NEW slot \in 0 .. Slots, NEW after \in SUBSET Nat
    PROVE  /\ Task(kind, slot, after) \in TaskRow
           /\ Fresh(Task(kind, slot, after)) /\ Task(kind, slot, after).kind = kind
           /\ Task(kind, slot, after).slot = slot /\ Task(kind, slot, after).after = after
  BY NothingWritten DEF Task, TaskRow, TaskStates, Points, Fresh

(* The plan's tasks: one for each stage it resolves to. *)
LEMMA StageTasksAre ==
    ASSUME Tables, NEW selected, NEW new, new = StageTasks(selected)
    PROVE  /\ new \in Seq(TaskRow)
           /\ \A i \in 1 .. Len(new) :
                  /\ Fresh(new[i]) /\ new[i].kind \in Stages /\ new[i].slot = 0
                  /\ new[i].after \subseteq 1 .. Len(tasks) + Len(new)
           /\ \A i, j \in 1 .. Len(new) : new[i].kind = new[j].kind => i = j
  <1> DEFINE S == ResolveStages(selected)
  <1>1. S \subseteq Stages /\ IsFiniteSet(S)
    <2>1. S \subseteq Stages
      BY DEF ResolveStages
    <2> HIDE DEF S
    <2> QED BY <2>1, StagesAreFinite, FS_Subset
  <1>2. PICK order : order = SetToSeq(S)
    OBVIOUS
  <1>3. /\ order \in Seq(S)
        /\ \A i, j \in 1 .. Len(order) : order[i] = order[j] => i = j
        /\ \A x \in S : \E i \in 1 .. Len(order) : order[i] = x
    BY <1>1, <1>2, Listed
  <1> DEFINE TaskId(s) == Len(tasks) + CHOOSE i \in 1 .. Len(order) : order[i] = s
             After(i) == {TaskId(s) : s \in StageDependencies[order[i]]}
  <1>4. new = [i \in 1 .. Len(order) |-> Task(order[i], 0, After(i))]
    BY <1>2 DEF StageTasks
  <1>5. ASSUME NEW s \in S, NEW d \in StageDependencies[s]
        PROVE  d \in S
    <2>1. s \in Stages /\ d \in Stages
      BY <1>1, <1>5 DEF StageDependencies, Stages
    <2>2. ASSUME NEW wanted \in SUBSET Stages, selected \subseteq wanted, Closed(wanted)
          PROVE  d \in wanted
      <3>1. s \in wanted
        BY <2>2 DEF ResolveStages
      <3> QED BY <1>5, <2>2, <3>1 DEF Closed
    <2> QED BY <2>1, <2>2 DEF ResolveStages
  <1> HIDE DEF S
  <1>6. Len(tasks) \in Nat /\ Len(order) \in Nat
    BY <1>3 DEF Tables
  <1>7. ASSUME NEW s \in S
        PROVE  TaskId(s) \in 1 .. Len(tasks) + Len(order)
    <2>1. (CHOOSE i \in 1 .. Len(order) : order[i] = s) \in 1 .. Len(order)
      BY <1>3
    <2> QED BY <1>6, <2>1
  <1>8. ASSUME NEW i \in 1 .. Len(order)
        PROVE  order[i] \in Stages /\ After(i) \subseteq 1 .. Len(tasks) + Len(order)
    <2>1. order[i] \in S
      BY <1>3
    <2> HIDE DEF TaskId
    <2>2. \A s \in StageDependencies[order[i]] : TaskId(s) \in 1 .. Len(tasks) + Len(order)
      BY <1>5, <1>7, <2>1
    <2> QED BY <1>1, <2>1, <2>2
  <1> HIDE DEF After
  <1>9. ASSUME NEW i \in 1 .. Len(order)
        PROVE  /\ new[i] \in TaskRow /\ Fresh(new[i]) /\ new[i].kind = order[i]
               /\ new[i].slot = 0 /\ new[i].after = After(i)
    <2>1. /\ order[i] \in TaskKinds /\ 0 \in 0 .. Slots /\ After(i) \in SUBSET Nat
      BY <1>6, <1>8, StudioAssumption DEF TaskKinds
    <2>2. new[i] = Task(order[i], 0, After(i))
      BY <1>4
    <2> QED BY <2>1, <2>2, EnqueuedRow
  <1>10. new \in Seq(TaskRow) /\ Len(new) = Len(order)
    <2>1. DOMAIN new = 1 .. Len(order) /\ new = [i \in 1 .. Len(order) |-> new[i]]
      BY <1>4
    <2> QED BY <1>6, <1>9, <2>1
  <1> QED BY <1>3, <1>8, <1>9, <1>10

(* The pack's tasks: the video, the posts that have none, and the email. *)
LEMMA OutreachTasksAre ==
    ASSUME Tables, NEW posts \in 1 .. Slots, NEW new, new = OutreachTasks(posts)
    PROVE  /\ new \in Seq(TaskRow)
           /\ \A i \in 1 .. Len(new) :
                  /\ Fresh(new[i]) /\ new[i].kind \in {"video"} \cup Outreach
                  /\ new[i].kind = "publish" => new[i].slot \in NewSlots(posts)
                  /\ new[i].kind = "send_email" => OfKind("send_email") = {}
                  /\ new[i].kind \in Outreach => new[i].after = LaunchAfter
                  /\ new[i].after \subseteq Ids
           /\ \A i, j \in 1 .. Len(new) :
                  new[i].kind = new[j].kind /\ new[i].slot = new[j].slot => i = j
           /\ \A i, j \in 1 .. Len(new) :
                  new[i].kind = "send_email" /\ new[j].kind = "send_email" => i = j
           /\ \A n \in NewSlots(posts) : \E i \in 1 .. Len(new) :
                  new[i].kind = "publish" /\ new[i].slot = n
           /\ OfKind("send_email") = {} => \E i \in 1 .. Len(new) : new[i].kind = "send_email"
  <1>1. NewSlots(posts) \subseteq 1 .. posts /\ IsFiniteSet(NewSlots(posts))
    <2>1. NewSlots(posts) \subseteq 1 .. posts
      BY DEF NewSlots
    <2>2. IsFiniteSet(1 .. posts)
      BY FS_Interval, StudioAssumption
    <2> QED BY <2>1, <2>2, FS_Subset
  <1>2. PICK slots : slots = SetToSeq(NewSlots(posts))
    OBVIOUS
  <1>3. /\ slots \in Seq(NewSlots(posts))
        /\ \A i, j \in 1 .. Len(slots) : slots[i] = slots[j] => i = j
        /\ \A n \in NewSlots(posts) : \E i \in 1 .. Len(slots) : slots[i] = n
    BY <1>1, <1>2, Listed
  <1>4. PICK a, b, c :
          /\ a = <<Task("video", 0, {})>>
          /\ b = [i \in 1 .. Len(slots) |-> Task("publish", slots[i], LaunchAfter)]
          /\ c = IF OfKind("send_email") = {} THEN <<Task("send_email", 0, LaunchAfter)>>
                 ELSE <<>>
    OBVIOUS
  <1>5. new = a \o b \o c
    BY <1>2, <1>4 DEF OutreachTasks
  <1>6. /\ LaunchAfter \subseteq Ids /\ LaunchAfter \in SUBSET Nat /\ {} \in SUBSET Nat
        /\ 0 \in 0 .. Slots /\ \A n \in NewSlots(posts) : n \in 0 .. Slots
        /\ "video" \in TaskKinds /\ "publish" \in TaskKinds /\ "send_email" \in TaskKinds
    BY <1>1, StudioAssumption DEF LaunchAfter, OfKind, Ids, Tables, TaskKinds, Outreach
  <1>7. /\ a \in Seq(TaskRow) /\ Len(a) = 1
        /\ Fresh(a[1]) /\ a[1].kind = "video" /\ a[1].after = {}
    <2>1. PICK v : v = Task("video", 0, {})
      OBVIOUS
    <2>2. {} \in SUBSET Nat /\ 0 \in 0 .. Slots /\ "video" \in TaskKinds
      BY <1>6
    <2>3. v \in TaskRow /\ Fresh(v) /\ v.kind = "video" /\ v.after = {}
      BY <2>1, <2>2, EnqueuedRow
    <2> QED BY <1>4, <2>1, <2>3
  <1>8. ASSUME NEW i \in 1 .. Len(slots)
        PROVE  /\ b[i] \in TaskRow /\ Fresh(b[i]) /\ b[i].kind = "publish"
               /\ b[i].slot = slots[i] /\ b[i].after = LaunchAfter
    <2>1. slots[i] \in 0 .. Slots
      BY <1>3, <1>6
    <2>2. b[i] = Task("publish", slots[i], LaunchAfter)
      BY <1>4
    <2>3. LaunchAfter \in SUBSET Nat /\ "publish" \in TaskKinds
      BY <1>6
    <2> QED BY <2>1, <2>2, <2>3, EnqueuedRow
  <1>9. b \in Seq(TaskRow) /\ Len(b) = Len(slots) /\ Len(slots) \in Nat
    <2>1. Len(slots) \in Nat /\ b = [i \in 1 .. Len(slots) |-> b[i]]
      BY <1>3, <1>4
    <2> QED BY <1>8, <2>1
  <1>10. /\ c \in Seq(TaskRow)
         /\ OfKind("send_email") = {} =>
              /\ Len(c) = 1 /\ Fresh(c[1]) /\ c[1].kind = "send_email"
              /\ c[1].after = LaunchAfter
         /\ OfKind("send_email") # {} => Len(c) = 0
    <2>1. PICK e : e = Task("send_email", 0, LaunchAfter)
      OBVIOUS
    <2>2. LaunchAfter \in SUBSET Nat /\ 0 \in 0 .. Slots /\ "send_email" \in TaskKinds
      BY <1>6
    <2>3. e \in TaskRow /\ Fresh(e) /\ e.kind = "send_email" /\ e.after = LaunchAfter
      BY <2>1, <2>2, EnqueuedRow
    <2> QED BY <1>4, <2>1, <2>3
  <1>11. PICK ab : ab = a \o b
    OBVIOUS
  <1>12. /\ ab \in Seq(TaskRow) /\ Len(ab) = 1 + Len(slots)
         /\ ab[1] = a[1] /\ \A i \in 1 .. Len(slots) : ab[1 + i] = b[i]
    <2>0. a \in Seq(TaskRow) /\ b \in Seq(TaskRow)
      BY <1>7, <1>9
    <2>1. ab \in Seq(TaskRow) /\ Len(ab) = Len(a) + Len(b)
      BY <1>11, <2>0, Joined
    <2>2. \A u \in 1 .. Len(a) : ab[u] = a[u]
      BY <1>11, <2>0, Joined
    <2>3. \A i \in 1 .. Len(b) : ab[Len(a) + i] = b[i]
      BY <1>11, <2>0, Joined
    <2> QED BY <1>7, <1>9, <2>1, <2>2, <2>3
  <1>13. /\ new \in Seq(TaskRow) /\ Len(new) = Len(ab) + Len(c) /\ Len(c) \in Nat
         /\ \A i \in 1 .. Len(ab) : new[i] = ab[i]
         /\ \A i \in 1 .. Len(c) : new[Len(ab) + i] = c[i]
    <2>0. ab \in Seq(TaskRow) /\ c \in Seq(TaskRow) /\ new = ab \o c
      BY <1>5, <1>10, <1>11, <1>12
    <2>1. new \in Seq(TaskRow) /\ Len(new) = Len(ab) + Len(c) /\ Len(c) \in Nat
      BY <2>0, Joined
    <2>2. \A u \in 1 .. Len(ab) : new[u] = ab[u]
      BY <2>0, Joined
    <2>3. \A i \in 1 .. Len(c) : new[Len(ab) + i] = c[i]
      BY <2>0, Joined
    <2> QED BY <2>1, <2>2, <2>3
  <1> DEFINE last == 2 + Len(slots)
             emailed == OfKind("send_email") = {}
  (* Every task is the video's, a post's or the email's. *)
  <1>14. ASSUME NEW i \in 1 .. Len(new)
         PROVE  \/ i = 1 /\ new[i] = a[1]
                \/ i \in 2 .. 1 + Len(slots) /\ new[i] = b[i - 1] /\ i - 1 \in 1 .. Len(slots)
                \/ i = last /\ emailed /\ new[i] = c[1]
    <2>1. CASE i \in 1 .. Len(ab)
      <3>1. new[i] = ab[i]
        BY <1>13, <2>1
      <3>2. CASE i = 1
        BY <1>12, <3>1, <3>2
      <3>3. CASE i # 1
        <4>1. i - 1 \in 1 .. Len(slots) /\ i \in 2 .. 1 + Len(slots) /\ i = 1 + (i - 1)
          BY <1>9, <1>12, <2>1, <3>3
        <4>2. ab[1 + (i - 1)] = b[i - 1]
          BY <1>12, <4>1
        <4> QED BY <3>1, <4>1, <4>2
      <3> QED BY <3>2, <3>3
    <2>2. CASE i \notin 1 .. Len(ab)
      <3>1. PICK j : j = i - Len(ab)
        OBVIOUS
      <3>2. j \in 1 .. Len(c) /\ i = Len(ab) + j
        BY <1>9, <1>12, <1>13, <2>2, <3>1
      <3>3. j = 1 /\ emailed
        <4>1. (emailed => Len(c) = 1) /\ (~ emailed => Len(c) = 0)
          BY <1>10
        <4>2. Len(c) # 0
          BY <3>2
        <4>3. emailed
          BY <4>1, <4>2
        <4>4. Len(c) = 1
          BY <4>1, <4>3
        <4> QED BY <3>2, <4>3, <4>4
      <3>4. i = last
        BY <1>9, <1>12, <3>2, <3>3
      <3> QED BY <1>13, <3>2, <3>3, <3>4
    <2> QED BY <2>1, <2>2
  <1>15. ASSUME NEW i \in 1 .. Len(new)
         PROVE  /\ Fresh(new[i]) /\ new[i].kind \in {"video"} \cup Outreach
                /\ new[i].kind = "publish" => new[i].slot \in NewSlots(posts)
                /\ new[i].kind = "send_email" => emailed
                /\ new[i].kind \in Outreach => new[i].after = LaunchAfter
                /\ new[i].after \subseteq Ids
    <2>1. CASE new[i] = a[1]
      BY <1>7, <2>1 DEF Outreach
    <2>2. CASE new[i] = b[i - 1] /\ i - 1 \in 1 .. Len(slots)
      <3>1. slots[i - 1] \in NewSlots(posts)
        BY <1>3, <2>2
      <3>2. /\ Fresh(new[i]) /\ new[i].kind = "publish" /\ new[i].slot = slots[i - 1]
            /\ new[i].after = LaunchAfter
        BY <1>8, <2>2
      <3> HIDE DEF emailed
      <3> QED BY <1>6, <3>1, <3>2 DEF Outreach
    <2>3. CASE emailed /\ new[i] = c[1]
      BY <1>6, <1>10, <2>3 DEF Outreach
    <2> QED BY <1>14, <2>1, <2>2, <2>3
  <1>16. ASSUME NEW i \in 1 .. Len(new)
         PROVE  /\ new[i].kind = "video" => i = 1
                /\ new[i].kind = "send_email" => i = last
                /\ new[i].kind = "publish" => /\ i - 1 \in 1 .. Len(slots)
                                              /\ new[i].slot = slots[i - 1]
    <2>1. CASE i = 1 /\ new[i] = a[1]
      BY <1>7, <2>1
    <2>2. CASE new[i] = b[i - 1] /\ i - 1 \in 1 .. Len(slots)
      BY <1>8, <2>2
    <2>3. CASE i = last /\ emailed /\ new[i] = c[1]
      BY <1>10, <2>3
    <2> HIDE DEF last, emailed
    <2> QED BY <1>14, <2>1, <2>2, <2>3
  <1>17. ASSUME NEW i \in 1 .. Len(new), NEW j \in 1 .. Len(new),
                new[i].kind = new[j].kind, new[i].slot = new[j].slot
         PROVE  i = j
    <2>1. new[i].kind \in {"video", "publish", "send_email"}
      BY <1>15 DEF Outreach
    <2>2. CASE new[i].kind = "publish"
      <3>1. /\ i - 1 \in 1 .. Len(slots) /\ j - 1 \in 1 .. Len(slots)
            /\ slots[i - 1] = slots[j - 1]
        BY <1>16, <1>17, <2>2
      <3>2. i - 1 = j - 1
        BY <1>3, <3>1
      <3> QED BY <3>2
    <2>3. CASE new[i].kind # "publish"
      <3> HIDE DEF last
      <3> QED BY <1>16, <1>17, <2>1, <2>3
    <2> QED BY <2>2, <2>3
  <1>18. ASSUME NEW n \in NewSlots(posts)
         PROVE  \E i \in 1 .. Len(new) : new[i].kind = "publish" /\ new[i].slot = n
    <2>1. PICK i \in 1 .. Len(slots) : slots[i] = n
      BY <1>3
    <2>2. 1 + i \in 1 .. Len(new) /\ 1 + i \in 1 .. Len(ab) /\ ab[1 + i] = b[i]
      BY <1>9, <1>12, <1>13
    <2>3. new[1 + i] = b[i]
      BY <1>13, <2>2
    <2> QED BY <1>8, <2>1, <2>2, <2>3
  <1>19. ASSUME emailed
         PROVE  \E i \in 1 .. Len(new) : new[i].kind = "send_email"
    <2>1. Len(c) = 1 /\ c[1].kind = "send_email"
      BY <1>10, <1>19
    <2>2. Len(ab) + 1 \in 1 .. Len(new) /\ new[Len(ab) + 1] = c[1]
      BY <1>9, <1>12, <1>13, <2>1
    <2> QED BY <2>1, <2>2
  <1>20. \A i, j \in 1 .. Len(new) :
             new[i].kind = "send_email" /\ new[j].kind = "send_email" => i = j
    <2> HIDE DEF last
    <2> QED BY <1>16
  <1> QED BY <1>13, <1>15, <1>17, <1>18, <1>19, <1>20

-----------------------------------------------------------------------------
(* What a step makes of the tasks: it moves one, and may enqueue others. *)

Moves(t) ==
    /\ tasks' \in Seq(TaskRow) /\ Ids' = Ids
    /\ \A u \in Ids : Kept(tasks[u], tasks'[u]) /\ (u # t => tasks'[u] = tasks[u])

Grows(t) ==
    /\ tasks' \in Seq(TaskRow) /\ Ids \subseteq Ids'
    /\ \A u \in Ids : Kept(tasks[u], tasks'[u]) /\ (u # t => tasks'[u] = tasks[u])
    /\ \A u \in Ids' \ Ids : Fresh(tasks'[u]) /\ tasks'[u].after \subseteq Ids'

LEMMA RowMoves ==
    ASSUME Tables, NEW t \in Ids, NEW row \in TaskRow, Kept(tasks[t], row),
           tasks' = [tasks EXCEPT ![t] = row]
    PROVE  Moves(t) /\ tasks'[t] = row
  BY RowIsSet DEF Moves, Kept

LEMMA Leaves ==
    ASSUME Tables, NEW t \in Ids, NEW state \in TaskStates, tasks' = Leave(t, state)
    PROVE  /\ Moves(t)
           /\ tasks'[t].state = state /\ tasks'[t].pc = "idle"
           /\ tasks'[t].action = tasks[t].action
  <1>1. PICK row : row = LeftRow(t, state)
    OBVIOUS
  <1>2. /\ tasks' = [tasks EXCEPT ![t] = row] /\ row \in TaskRow /\ Kept(tasks[t], row)
        /\ row.state = state /\ row.pc = "idle" /\ row.action = tasks[t].action
    BY <1>1, LeftRowIs
  <1> QED BY <1>2, RowMoves

LEMMA StateMoves ==
    ASSUME Tables, NEW t \in Ids, NEW state \in TaskStates,
           tasks' = [tasks EXCEPT ![t].state = state]
    PROVE  /\ Moves(t)
           /\ tasks'[t].state = state /\ tasks'[t].pc = tasks[t].pc
           /\ tasks'[t].action = tasks[t].action /\ tasks'[t].content = tasks[t].content
           /\ tasks'[t].version = tasks[t].version
  <1>1. PICK row : row = [tasks[t] EXCEPT !.state = state]
    OBVIOUS
  <1>2. tasks[t] \in TaskRow /\ DOMAIN tasks = Ids
    BY RowIsTyped DEF Tables, Ids
  <1>3. tasks' = [tasks EXCEPT ![t] = row]
    BY <1>1, <1>2
  <1>4. /\ row \in TaskRow /\ Kept(tasks[t], row)
        /\ row.state = state /\ row.pc = tasks[t].pc /\ row.action = tasks[t].action
        /\ row.content = tasks[t].content /\ row.version = tasks[t].version
    BY <1>1, <1>2 DEF TaskRow, Kept
  <1> QED BY <1>3, <1>4, RowMoves

LEMMA NewestTyped ==
    ASSUME Tables, NEW kind \in ArtifactKinds, Has(kind)
    PROVE  Newest(kind) \in Artifact
  <1>1. artifacts[kind] \in Seq(Artifact) /\ artifacts[kind] # <<>>
    BY DEF Tables, Has
  <1>2. Len(artifacts[kind]) \in 1 .. Len(artifacts[kind])
    BY <1>1
  <1> QED BY <1>1, <1>2 DEF Newest

LEMMA UpstreamIs ==
    /\ DOMAIN Upstream = {"site", "video", "publish", "send_email"}
    /\ \A kind \in DOMAIN Upstream : Upstream[kind] \in ArtifactKinds
  BY DEF Upstream, Outreach, ArtifactKinds, Deliverables

LEMMA BeginMoves ==
    ASSUME Tables, NEW t \in Ids, Begin(t)
    PROVE  /\ Moves(t)
           /\ UNCHANGED <<doc, artifacts, actions, outbound, edits, reruns, crashes>>
           /\ tasks[t].state = "pending" /\ tasks[t].pc = "idle"
           /\ \A d \in tasks[t].after : tasks[d].state = "done"
           /\ tasks'[t].action = tasks[t].action
           /\ \/ /\ Accepts(t) /\ tasks'[t].state = "running" /\ tasks'[t].pc = "working"
                 /\ tasks'[t].content = Read(t)
              \/ tasks'[t].state = "failed" /\ tasks'[t].pc = "idle"
  <1>1. /\ tasks[t].state = "pending" /\ tasks[t].pc = "idle"
        /\ \A d \in tasks[t].after : tasks[d].state = "done"
        /\ UNCHANGED <<doc, artifacts, actions, outbound, edits, reruns, crashes>>
    BY DEF Begin, bounds
  <1>2. CASE Accepts(t)
    <2>1. PICK row : row = [tasks[t] EXCEPT !.state = "running", !.pc = "working",
                                            !.version = doc, !.content = Read(t)]
      OBVIOUS
    <2>2. tasks[t] \in TaskRow /\ DOMAIN tasks = Ids /\ doc \in Docs
      BY RowIsTyped DEF Tables, Ids
    <2>3. tasks' = [tasks EXCEPT ![t] = row]
      BY <1>2, <2>1, <2>2 DEF Begin
    <2>4. Read(t) \in Artifact
      BY <1>2, NewestTyped, NothingWritten, UpstreamIs DEF Read, Accepts
    <2>5. /\ row \in TaskRow /\ Kept(tasks[t], row)
          /\ row.state = "running" /\ row.pc = "working" /\ row.action = tasks[t].action
          /\ row.content = Read(t)
      BY <2>1, <2>2, <2>4 DEF TaskRow, Kept, TaskStates, Points
    <2>6. Moves(t) /\ tasks'[t] = row
      BY <2>3, <2>5, RowMoves
    <2> QED BY <1>1, <1>2, <2>5, <2>6
  <1>3. CASE ~ Accepts(t)
    <2>1. tasks' = Leave(t, "failed") /\ "failed" \in TaskStates
      BY <1>3 DEF Begin, TaskStates
    <2> QED BY <1>1, <2>1, Leaves
  <1> QED BY <1>2, <1>3

LEMMA BuildMoves ==
    ASSUME Tables, NEW t \in Ids, BuildSite(t)
    PROVE  /\ Moves(t)
           /\ UNCHANGED <<doc, actions, outbound, edits, reruns, crashes>>
           /\ artifacts' \in [ArtifactKinds -> Seq(Artifact)]
           /\ artifacts'["posts"] = artifacts["posts"]
           /\ tasks[t].kind = "site" /\ tasks'[t].pc = "built"
           /\ tasks'[t].state = tasks[t].state /\ tasks'[t].action = tasks[t].action
  <1>1. /\ tasks[t].kind = "site"
        /\ UNCHANGED <<doc, actions, outbound, edits, reruns, crashes>>
    BY DEF BuildSite, Works, bounds
  <1>2. PICK pages \in SiteBuilds :
          /\ artifacts' = [artifacts EXCEPT !["site"] = artifacts["site"] \o pages]
          /\ tasks' = [tasks EXCEPT ![t] = [@ EXCEPT !.pc = "built",
                                                     !.content = pages[Len(pages)]]]
    BY DEF BuildSite, Store
  <1>3. pages \in Seq(Artifact) /\ pages[Len(pages)] \in Artifact
    <2>1. \A s \in {"clean", "flagged"}, r \in {0, 1} : Written(s, r) \in Artifact
      BY StudioAssumption, WrittenIs
    <2>2. CASE \E s \in {"clean", "flagged"} : pages = <<Written(s, 0)>>
      BY <2>1, <2>2
    <2>3. CASE pages = <<Written("clean", 0), Written("clean", 1)>>
      BY <2>1, <2>3
    <2> QED BY <2>2, <2>3 DEF SiteBuilds
  <1>4. "site" \in ArtifactKinds /\ "posts" \in ArtifactKinds
    BY DEF ArtifactKinds, Deliverables
  <1>5. artifacts["site"] \o pages \in Seq(Artifact)
    BY <1>3, <1>4 DEF Tables
  <1>6. /\ artifacts' \in [ArtifactKinds -> Seq(Artifact)]
        /\ artifacts'["posts"] = artifacts["posts"]
    BY <1>2, <1>4, <1>5 DEF Tables
  <1>7. PICK row : row = [tasks[t] EXCEPT !.pc = "built", !.content = pages[Len(pages)]]
    OBVIOUS
  <1>8. tasks[t] \in TaskRow /\ DOMAIN tasks = Ids
    BY RowIsTyped DEF Tables, Ids
  <1>9. tasks' = [tasks EXCEPT ![t] = row]
    BY <1>2, <1>7, <1>8
  <1>10. /\ row \in TaskRow /\ Kept(tasks[t], row) /\ row.pc = "built"
         /\ row.state = tasks[t].state /\ row.action = tasks[t].action
    BY <1>3, <1>7, <1>8 DEF TaskRow, Kept, Points
  <1> QED BY <1>1, <1>6, <1>9, <1>10, RowMoves

LEMMA ParkedMoves ==
    ASSUME Tables, NEW t \in Ids, NEW k \in Keys, tasks' = Parked(t, k)
    PROVE  /\ Moves(t)
           /\ tasks'[t].state = "awaiting_approval" /\ tasks'[t].pc = "idle"
           /\ tasks'[t].action = k
  <1>1. PICK left : left = LeftRow(t, "awaiting_approval")
    OBVIOUS
  <1>2. /\ Leave(t, "awaiting_approval") = [tasks EXCEPT ![t] = left]
        /\ left \in TaskRow /\ Kept(tasks[t], left)
        /\ left.state = "awaiting_approval" /\ left.pc = "idle"
    BY <1>1, LeftRowIs DEF TaskStates
  <1>3. PICK row : row = [left EXCEPT !.action = k]
    OBVIOUS
  <1>4. DOMAIN tasks = Ids
    BY DEF Tables, Ids
  <1>5. tasks' = [tasks EXCEPT ![t] = row]
    BY <1>2, <1>3, <1>4 DEF Parked
  <1>6. /\ row \in TaskRow /\ Kept(tasks[t], row)
        /\ row.state = "awaiting_approval" /\ row.pc = "idle" /\ row.action = k
    BY <1>2, <1>3 DEF TaskRow, Kept
  <1> QED BY <1>5, <1>6, RowMoves

LEMMA MovesGrows ==
    ASSUME NEW t, Moves(t)
    PROVE  Grows(t)
  BY DEF Moves, Grows

LEMMA CopyMoves ==
    ASSUME Tables, NEW t \in Ids, HandleCopy(t)
    PROVE  /\ Moves(t)
           /\ UNCHANGED <<doc, actions, outbound, edits, reruns, crashes>>
           /\ artifacts' \in [ArtifactKinds -> Seq(Artifact)]
           /\ artifacts'["posts"] = artifacts["posts"]
           /\ tasks[t].kind = "copy" /\ tasks'[t].pc = "idle"
           /\ tasks'[t].state = "done" /\ tasks'[t].action = tasks[t].action
  <1>1. /\ tasks[t].kind = "copy" /\ tasks' = Leave(t, "done") /\ "done" \in TaskStates
        /\ UNCHANGED <<doc, actions, outbound, edits, reruns, crashes>>
    BY DEF HandleCopy, Works, bounds, TaskStates
  <1>2. PICK p \in Produced : artifacts' = [artifacts EXCEPT !["copy"] = artifacts["copy"] \o <<p>>]
    BY DEF HandleCopy, Store
  <1>3. p \in Artifact
    BY ProducedTyped
  <1>4. "copy" \in ArtifactKinds /\ "posts" \in ArtifactKinds
    BY DEF ArtifactKinds, Deliverables
  <1>5. artifacts["copy"] \o <<p>> \in Seq(Artifact)
    BY <1>3, <1>4 DEF Tables
  <1>6. /\ artifacts' \in [ArtifactKinds -> Seq(Artifact)]
        /\ artifacts'["posts"] = artifacts["posts"]
    BY <1>2, <1>4, <1>5 DEF Tables
  <1>7. Moves(t) /\ tasks'[t].state = "done" /\ tasks'[t].pc = "idle"
        /\ tasks'[t].action = tasks[t].action
    BY <1>1, Leaves
  <1> QED BY <1>1, <1>6, <1>7

LEMMA VideoMoves ==
    ASSUME Tables, NEW t \in Ids, HandleVideo(t)
    PROVE  /\ Moves(t)
           /\ UNCHANGED <<doc, actions, edits, reruns, crashes>>
           /\ artifacts' \in [ArtifactKinds -> Seq(Artifact)]
           /\ artifacts'["posts"] = artifacts["posts"]
           /\ outbound' = outbound \cup {[key |-> <<"video", 0, 0>>, content |-> tasks[t].content]}
           /\ tasks[t].content \in Artifact /\ tasks[t].pc = "working"
           /\ tasks[t].kind = "video" /\ tasks'[t].pc = "idle"
           /\ tasks'[t].state = "done" /\ tasks'[t].action = tasks[t].action
  <1>1. /\ tasks[t].kind = "video" /\ tasks' = Leave(t, "done") /\ "done" \in TaskStates
        /\ tasks[t].pc = "working"
        /\ outbound' = outbound \cup {[key |-> <<"video", 0, 0>>, content |-> tasks[t].content]}
        /\ UNCHANGED <<doc, actions, edits, reruns, crashes>>
    BY DEF HandleVideo, Works, bounds, TaskStates
  <1>2. PICK p : /\ p = Written("clean", 0)
                 /\ artifacts' = [artifacts EXCEPT !["video"] = artifacts["video"] \o <<p>>]
    BY DEF HandleVideo, Store
  <1>3. p \in Artifact /\ tasks[t].content \in Artifact
    BY <1>2, WrittenIs, RowIsTyped, StudioAssumption DEF TaskRow
  <1>4. "video" \in ArtifactKinds /\ "posts" \in ArtifactKinds
    BY DEF ArtifactKinds, Deliverables
  <1>5. artifacts["video"] \o <<p>> \in Seq(Artifact)
    BY <1>3, <1>4 DEF Tables
  <1>6. /\ artifacts' \in [ArtifactKinds -> Seq(Artifact)]
        /\ artifacts'["posts"] = artifacts["posts"]
    BY <1>2, <1>4, <1>5 DEF Tables
  <1>7. Moves(t) /\ tasks'[t].state = "done" /\ tasks'[t].pc = "idle"
        /\ tasks'[t].action = tasks[t].action
    BY <1>1, Leaves
  <1> QED BY <1>1, <1>3, <1>6, <1>7

LEMMA RaiseMoves ==
    ASSUME Tables, NEW t \in Ids, Raise(t)
    PROVE  /\ Moves(t)
           /\ UNCHANGED <<doc, artifacts, actions, outbound, edits, reruns, crashes>>
           /\ tasks'[t].state = "failed" /\ tasks'[t].pc = "idle"
           /\ tasks'[t].action = tasks[t].action
  BY Leaves DEF Raise, bounds, TaskStates

LEMMA DiesMoves ==
    ASSUME Tables, NEW t \in Ids, Dies(t)
    PROVE  /\ Moves(t)
           /\ UNCHANGED <<doc, artifacts, actions, outbound, edits, reruns>>
           /\ crashes' \in 0 .. MaxCrashes /\ tasks[t].pc = "built"
           /\ tasks'[t].state = "pending" /\ tasks'[t].pc = "idle"
           /\ tasks'[t].action = tasks[t].action
  <1>1. crashes' \in 0 .. MaxCrashes
    BY StudioAssumption DEF Tables, Dies
  <1> QED BY <1>1, Leaves DEF Dies, TaskStates

LEMMA RerunMoves ==
    ASSUME Tables, NEW t \in Ids, Rerun(t)
    PROVE  /\ Moves(t)
           /\ UNCHANGED <<doc, artifacts, actions, outbound, edits, crashes>>
           /\ reruns' = reruns + 1 /\ reruns' \in 0 .. MaxReruns
           /\ tasks[t].kind \in Rerunnable /\ tasks[t].state \in {"failed", "done"}
           /\ tasks'[t].state = "pending" /\ tasks'[t].pc = tasks[t].pc
           /\ tasks'[t].action = tasks[t].action /\ tasks'[t].content = tasks[t].content
  <1>1. reruns' = reruns + 1 /\ reruns' \in 0 .. MaxReruns
    BY StudioAssumption DEF Tables, Rerun
  <1>2. /\ tasks' = [tasks EXCEPT ![t].state = "pending"] /\ "pending" \in TaskStates
        /\ UNCHANGED <<doc, artifacts, actions, outbound, edits, crashes>>
        /\ tasks[t].kind \in Rerunnable /\ tasks[t].state \in {"failed", "done"}
    BY DEF Rerun, TaskStates
  <1>3. /\ Moves(t)
        /\ tasks'[t].state = "pending" /\ tasks'[t].pc = tasks[t].pc
        /\ tasks'[t].action = tasks[t].action /\ tasks'[t].content = tasks[t].content
    BY <1>2, StateMoves
  <1> QED BY <1>1, <1>2, <1>3

-----------------------------------------------------------------------------
(* The invariant. *)

Askers == {"site", "money"} \cup Outreach

(* The plan is the first task and the only one of its kind; the versions of the
   document are as many as the edits and the runs of the plan allow. *)
Planned ==
    /\ \A t \in Ids : tasks[t].kind = "plan" <=> t = 1
    /\ tasks[1].pc = "working" => tasks[1].state = "running"
    /\ doc <= edits + reruns + 1
    /\ tasks[1].state \in {"pending", "running"} => doc <= edits + reruns

Linked == \A t \in Ids : tasks[t].after \subseteq Ids

(* What a worker holds, and what a task is. *)
Held ==
    \A t \in Ids :
        /\ tasks[t].pc = "built" => tasks[t].kind = "site"
        /\ tasks[t].kind = "publish" => tasks[t].slot \in 1 .. Slots

(* An action's row names the task that asked for it. *)
Asked(k) ==
    LET owner == actions[k].owner
    IN  owner \in Ids /\ tasks[owner].kind \in Askers
            /\ \E v \in Docs : k = Key(tasks[owner], v)

Owned == \A k \in Keys : /\ actions[k].owner \in Ids \cup {0}
                         /\ actions[k].state # "absent" => Asked(k)

IInv ==
    /\ Tables /\ Planned /\ Linked /\ Held /\ Owned
    /\ HeldIsClean /\ RowsAreClean /\ OutboundIsClean

-----------------------------------------------------------------------------

LEMMA KeyIs ==
    ASSUME NEW row \in TaskRow, NEW v \in Docs, row.kind \in Askers,
           row.kind = "publish" => row.slot \in 1 .. Slots
    PROVE  /\ Key(row, v) \in Keys
           /\ row.kind = "site" => Key(row, v) = <<"deploy", v, 0>>
           /\ row.kind = "publish" => Key(row, v) = <<"publish", v, row.slot>>
           /\ row.kind = "send_email" => Key(row, v) = <<"send_email", 0, 0>>
           /\ row.kind = "money" => Key(row, v) = <<"arm", 0, 0>>
  <1>1. /\ row.kind = "site" => Key(row, v) = <<"deploy", v, 0>>
        /\ row.kind = "publish" => Key(row, v) = <<"publish", v, row.slot>>
        /\ row.kind = "send_email" => Key(row, v) = <<"send_email", 0, 0>>
        /\ row.kind = "money" => Key(row, v) = <<"arm", 0, 0>>
    BY DEF Key
  <1>2. row.kind \in {"site", "publish", "send_email", "money"}
    BY DEF Askers, Outreach
  <1>3. CASE row.kind = "site"
    BY <1>1, <1>3 DEF Keys
  <1>4. CASE row.kind = "publish"
    BY <1>1, <1>4 DEF Keys
  <1>5. CASE row.kind = "send_email"
    BY <1>1, <1>5 DEF Keys
  <1>6. CASE row.kind = "money"
    BY <1>1, <1>6 DEF Keys
  <1> QED BY <1>1, <1>2, <1>3, <1>4, <1>5, <1>6

LEMMA RequestMoves ==
    ASSUME Tables, Held, NEW t \in Ids, Request(t)
    PROVE  /\ Moves(t) /\ tasks'[t].pc = "idle"
           /\ UNCHANGED <<doc, artifacts, outbound, edits, reruns, crashes>>
           /\ tasks[t].kind \in Askers
           /\ tasks[t].pc = "built" \/ tasks[t].pc = "working"
           /\ \E k \in Keys :
                /\ k = Key(tasks[t], tasks[t].version)
                /\ \/ tasks'[t].state = "failed" /\ UNCHANGED actions
                      /\ tasks'[t].action = tasks[t].action
                   \/ /\ actions[k].state = "absent"
                      /\ actions' = [actions EXCEPT ![k] =
                           [state |-> "awaiting_approval", owner |-> t,
                            content |-> tasks[t].content]]
                      /\ tasks'[t].state = "awaiting_approval" /\ tasks'[t].action = k
                   \/ /\ actions[k].state = "awaiting_approval" /\ UNCHANGED actions
                      /\ tasks'[t].state = "awaiting_approval" /\ tasks'[t].action = k
                   \/ /\ actions[k].state = "succeeded" /\ UNCHANGED actions
                      /\ tasks'[t].state = "done" /\ tasks'[t].action = tasks[t].action
  <1>1. /\ UNCHANGED <<doc, artifacts, outbound, edits, reruns, crashes>>
        /\ tasks[t].pc = "built" \/ tasks[t].pc = "working"
    BY DEF Request, Asks, bounds
  <1>2. tasks[t].kind \in Askers
    BY DEF Request, Asks, Held, Askers
  <1>3. tasks[t] \in TaskRow /\ tasks[t].version \in Docs
    BY RowIsTyped DEF TaskRow
  <1>4. PICK k : k = Key(tasks[t], tasks[t].version)
    OBVIOUS
  <1>5. k \in Keys
    BY <1>2, <1>3, <1>4, KeyIs DEF Held
  <1>6. \/ tasks' = Leave(t, "failed") /\ UNCHANGED actions
        \/ /\ actions[k].state = "absent"
           /\ actions' = [actions EXCEPT ![k] = [state |-> "awaiting_approval", owner |-> t,
                                                 content |-> tasks[t].content]]
           /\ tasks' = Parked(t, k)
        \/ actions[k].state = "awaiting_approval" /\ UNCHANGED actions /\ tasks' = Parked(t, k)
        \/ actions[k].state = "succeeded" /\ UNCHANGED actions /\ tasks' = Leave(t, "done")
    BY <1>4 DEF Request
  <1>7. "failed" \in TaskStates /\ "done" \in TaskStates
    BY DEF TaskStates
  <1>8. CASE tasks' = Leave(t, "failed") /\ UNCHANGED actions
    <2>1. Moves(t) /\ tasks'[t].pc = "idle" /\ tasks'[t].state = "failed"
          /\ tasks'[t].action = tasks[t].action
      BY <1>7, <1>8, Leaves
    <2> QED BY <1>1, <1>2, <1>4, <1>5, <1>8, <2>1
  <1>9. CASE /\ actions[k].state = "absent"
             /\ actions' = [actions EXCEPT ![k] = [state |-> "awaiting_approval", owner |-> t,
                                                   content |-> tasks[t].content]]
             /\ tasks' = Parked(t, k)
    <2>1. Moves(t) /\ tasks'[t].pc = "idle" /\ tasks'[t].state = "awaiting_approval"
          /\ tasks'[t].action = k
      BY <1>5, <1>9, ParkedMoves
    <2> QED BY <1>1, <1>2, <1>4, <1>5, <1>9, <2>1
  <1>10. CASE /\ actions[k].state = "awaiting_approval" /\ UNCHANGED actions
              /\ tasks' = Parked(t, k)
    <2>1. Moves(t) /\ tasks'[t].pc = "idle" /\ tasks'[t].state = "awaiting_approval"
          /\ tasks'[t].action = k
      BY <1>5, <1>10, ParkedMoves
    <2> QED BY <1>1, <1>2, <1>4, <1>5, <1>10, <2>1
  <1>11. CASE /\ actions[k].state = "succeeded" /\ UNCHANGED actions
              /\ tasks' = Leave(t, "done")
    <2>1. Moves(t) /\ tasks'[t].pc = "idle" /\ tasks'[t].state = "done"
          /\ tasks'[t].action = tasks[t].action
      BY <1>7, <1>11, Leaves
    <2> QED BY <1>1, <1>2, <1>4, <1>5, <1>11, <2>1
  <1> QED BY <1>6, <1>8, <1>9, <1>10, <1>11

LEMMA DecideMoves ==
    ASSUME Tables, Owned, NEW k \in Keys, Decide(k)
    PROVE  /\ Moves(actions[k].owner) /\ Asked(k)
           /\ UNCHANGED <<doc, artifacts, edits, reruns, crashes>>
           /\ actions[k].state = "awaiting_approval"
           /\ \/ outbound' = outbound
              \/ outbound' = outbound \cup {[key |-> k, content |-> actions[k].content]}
           /\ tasks'[actions[k].owner].pc = tasks[actions[k].owner].pc
           /\ tasks'[actions[k].owner].content = tasks[actions[k].owner].content
           /\ tasks'[actions[k].owner].action = tasks[actions[k].owner].action
           /\ \/ /\ actions' = [actions EXCEPT ![k].state = "succeeded"]
                 /\ tasks'[actions[k].owner].state = "done"
              \/ /\ actions' = [actions EXCEPT ![k].state = "failed"]
                 /\ tasks'[actions[k].owner].state = "failed"
  <1>1. PICK t : t = actions[k].owner
    OBVIOUS
  <1>2. /\ actions[k].state = "awaiting_approval"
        /\ UNCHANGED <<doc, artifacts, edits, reruns, crashes>>
    BY DEF Decide, bounds
  <1>3. Asked(k)
    BY <1>2 DEF Owned
  <1>4. t \in Ids
    BY <1>1, <1>3 DEF Asked
  <1>5. PICK proved \in BOOLEAN, effect \in BOOLEAN :
          /\ actions' = [actions EXCEPT ![k].state = IF proved THEN "succeeded" ELSE "failed"]
          /\ tasks' = [tasks EXCEPT ![t].state = IF proved THEN "done" ELSE "failed"]
          /\ outbound' = IF effect THEN outbound \cup {[key |-> k, content |-> actions[k].content]}
                                   ELSE outbound
    BY <1>1 DEF Decide
  <1>6. PICK state \in {"done", "failed"} : state = IF proved THEN "done" ELSE "failed"
    OBVIOUS
  <1>7. state \in TaskStates /\ tasks' = [tasks EXCEPT ![t].state = state]
    BY <1>5, <1>6 DEF TaskStates
  <1>8. /\ Moves(t)
        /\ tasks'[t].state = state /\ tasks'[t].pc = tasks[t].pc
        /\ tasks'[t].action = tasks[t].action /\ tasks'[t].content = tasks[t].content
    BY <1>4, <1>7, StateMoves
  <1>9. \/ /\ actions' = [actions EXCEPT ![k].state = "succeeded"] /\ state = "done"
        \/ /\ actions' = [actions EXCEPT ![k].state = "failed"] /\ state = "failed"
    BY <1>5, <1>6
  <1>10. \/ outbound' = outbound
         \/ outbound' = outbound \cup {[key |-> k, content |-> actions[k].content]}
    BY <1>5
  <1> QED BY <1>1, <1>2, <1>3, <1>8, <1>9, <1>10

LEMMA RowsGrow ==
    ASSUME Tables, NEW t \in Ids, NEW state \in TaskStates, NEW new \in Seq(TaskRow),
           tasks' = Leave(t, state) \o new,
           \A i \in 1 .. Len(new) :
               Fresh(new[i]) /\ new[i].after \subseteq 1 .. Len(tasks) + Len(new)
    PROVE  /\ Grows(t)
           /\ Ids' = 1 .. Len(tasks) + Len(new)
           /\ tasks'[t].state = state /\ tasks'[t].pc = "idle"
           /\ tasks'[t].action = tasks[t].action
           /\ \A i \in 1 .. Len(new) : tasks'[Len(tasks) + i] = new[i] /\ Len(tasks) + i \in Ids'
           /\ \A u \in Ids' \ Ids : \E i \in 1 .. Len(new) : u = Len(tasks) + i
  <1>1. PICK row : row = LeftRow(t, state)
    OBVIOUS
  <1>2. /\ Leave(t, state) = [tasks EXCEPT ![t] = row] /\ row \in TaskRow
        /\ Kept(tasks[t], row) /\ row.state = state /\ row.pc = "idle"
        /\ row.action = tasks[t].action
    BY <1>1, LeftRowIs
  <1>3. tasks' = [tasks EXCEPT ![t] = row] \o new
    BY <1>2
  <1>4. /\ tasks' \in Seq(TaskRow) /\ Len(tasks') = Len(tasks) + Len(new)
        /\ Ids \subseteq Ids'
    BY <1>2, <1>3, RowsAreAdded
  <1>5. tasks'[t] = row /\ \A u \in Ids : u # t => tasks'[u] = tasks[u]
    BY <1>2, <1>3, RowsAreAdded
  <1>6. \A i \in 1 .. Len(new) : tasks'[Len(tasks) + i] = new[i]
    BY <1>2, <1>3, RowsAreAdded
  <1>7. \A u \in Ids' : u \in Ids \/ \E i \in 1 .. Len(new) : u = Len(tasks) + i
    BY <1>2, <1>3, RowsAreAdded
  <1>8. Ids' = 1 .. Len(tasks) + Len(new)
    BY <1>4 DEF Ids
  <1>9. ASSUME NEW i \in 1 .. Len(new)
        PROVE  Len(tasks) + i \in Ids'
    <2>1. Len(tasks) \in Nat /\ Len(new) \in Nat
      BY DEF Tables
    <2> QED BY <1>8, <2>1
  <1>10. ASSUME NEW u \in Ids' \ Ids
         PROVE  Fresh(tasks'[u]) /\ tasks'[u].after \subseteq Ids'
    <2>1. PICK i \in 1 .. Len(new) : u = Len(tasks) + i
      BY <1>7
    <2>2. tasks'[u] = new[i]
      BY <1>6, <2>1
    <2> QED BY <1>8, <2>2
  <1>11. Grows(t)
    BY <1>2, <1>4, <1>5, <1>10 DEF Grows, Kept
  <1> QED BY <1>2, <1>5, <1>6, <1>7, <1>8, <1>9, <1>11

LEMMA PlanGrows ==
    ASSUME Tables, NEW t \in Ids, HandlePlan(t)
    PROVE  /\ Grows(t)
           /\ UNCHANGED <<artifacts, actions, outbound, edits, reruns, crashes>>
           /\ doc' = doc \/ doc' = doc + 1
           /\ tasks[t].kind = "plan" /\ tasks[t].pc = "working"
           /\ tasks'[t].state = "done" /\ tasks'[t].pc = "idle"
           /\ tasks'[t].action = tasks[t].action
           /\ \A u \in Ids' \ Ids : tasks'[u].kind \in Stages /\ tasks'[u].slot = 0
           /\ \A u, w \in Ids' \ Ids : tasks'[u].kind = tasks'[w].kind => u = w
  <1>1. /\ UNCHANGED <<artifacts, actions, outbound, edits, reruns, crashes>>
        /\ doc' = doc \/ doc' = doc + 1
        /\ tasks[t].kind = "plan" /\ tasks[t].pc = "working" /\ "done" \in TaskStates
    BY DEF HandlePlan, Works, bounds, TaskStates
  <1>2. PICK selected \in Selections : tasks' = Leave(t, "done") \o StageTasks(selected)
    BY DEF HandlePlan
  <1>3. PICK new : new = StageTasks(selected)
    OBVIOUS
  <1>4. /\ new \in Seq(TaskRow)
        /\ \A i \in 1 .. Len(new) :
               /\ Fresh(new[i]) /\ new[i].kind \in Stages /\ new[i].slot = 0
               /\ new[i].after \subseteq 1 .. Len(tasks) + Len(new)
        /\ \A i, j \in 1 .. Len(new) : new[i].kind = new[j].kind => i = j
    BY <1>3, StageTasksAre
  <1>5. tasks' = Leave(t, "done") \o new
    BY <1>2, <1>3
  <1>6. /\ t \in Ids /\ new \in Seq(TaskRow)
        /\ \A i \in 1 .. Len(new) :
               Fresh(new[i]) /\ new[i].after \subseteq 1 .. Len(tasks) + Len(new)
    BY <1>4
  <1>7. /\ Grows(t) /\ tasks'[t].state = "done" /\ tasks'[t].pc = "idle"
        /\ tasks'[t].action = tasks[t].action
    BY <1>1, <1>5, <1>6, RowsGrow
  <1>8. \A i \in 1 .. Len(new) : tasks'[Len(tasks) + i] = new[i]
    BY <1>1, <1>5, <1>6, RowsGrow
  <1>9. \A u \in Ids' \ Ids : \E i \in 1 .. Len(new) : u = Len(tasks) + i
    BY <1>1, <1>5, <1>6, RowsGrow
  <1>10. \A u \in Ids' \ Ids : tasks'[u].kind \in Stages /\ tasks'[u].slot = 0
    BY <1>4, <1>8, <1>9
  <1>11. ASSUME NEW u \in Ids' \ Ids, NEW w \in Ids' \ Ids, tasks'[u].kind = tasks'[w].kind
         PROVE  u = w
    <2>1. PICK i \in 1 .. Len(new), j \in 1 .. Len(new) :
            u = Len(tasks) + i /\ w = Len(tasks) + j
      BY <1>9
    <2>2. tasks'[u] = new[i] /\ tasks'[w] = new[j]
      BY <1>8, <2>1
    <2> QED BY <1>4, <1>11, <2>1, <2>2
  <1> QED BY <1>1, <1>7, <1>10, <1>11

(* The pack's artifacts. *)
LEMMA PackIsStored ==
    ASSUME Tables, NEW pack \in Packs,
           artifacts' = [kind \in ArtifactKinds |->
               IF kind \in DOMAIN pack THEN Append(artifacts[kind], pack[kind])
                                       ELSE artifacts[kind]]
    PROVE  /\ artifacts' \in [ArtifactKinds -> Seq(Artifact)]
           /\ Has("posts")' /\ Newest("posts")' = pack.posts
           /\ pack.posts.posts \in 1 .. Slots
  <1>1. /\ pack \in [posts : ProducedPosts, email : Produced, video_props : Produced]
        /\ DOMAIN pack = {"posts", "email", "video_props"}
    BY StudioAssumption
  <1>2. /\ pack["posts"] \in Artifact /\ pack["email"] \in Artifact
        /\ pack["video_props"] \in Artifact /\ pack.posts.posts \in 1 .. Slots
    BY <1>1, ProducedTyped
  <1>3. \A kind \in DOMAIN pack : pack[kind] \in Artifact
    BY <1>1, <1>2
  <1>4. \A kind \in ArtifactKinds : artifacts[kind] \in Seq(Artifact)
    BY DEF Tables
  <1>5. \A kind \in ArtifactKinds : artifacts'[kind] \in Seq(Artifact)
    BY <1>3, <1>4
  <1>6. artifacts' \in [ArtifactKinds -> Seq(Artifact)]
    BY <1>5
  <1>7. PICK before, after : /\ before = artifacts["posts"] /\ after = artifacts'["posts"]
    OBVIOUS
  <1>8. before \in Seq(Artifact) /\ after = Append(before, pack.posts) /\ pack.posts \in Artifact
    <2>1. "posts" \in ArtifactKinds /\ "posts" \in DOMAIN pack
      BY <1>1 DEF ArtifactKinds, Deliverables
    <2> QED BY <1>2, <1>4, <1>7, <2>1
  <1>9. after # <<>> /\ after[Len(after)] = pack.posts
    BY <1>8
  <1> QED BY <1>2, <1>6, <1>7, <1>9 DEF Has, Newest

LEMMA DemandMoves ==
    ASSUME Tables, NEW t \in Ids, HandleDemand(t)
    PROVE  /\ UNCHANGED <<doc, actions, outbound, edits, reruns, crashes>>
           /\ tasks[t].kind = "demand" /\ tasks'[t].pc = "idle"
           /\ tasks'[t].action = tasks[t].action
           /\ \/ Moves(t) /\ tasks'[t].state = "failed" /\ UNCHANGED artifacts
              \/ /\ Grows(t) /\ tasks'[t].state = "done"
                 /\ artifacts' \in [ArtifactKinds -> Seq(Artifact)]
                 /\ Has("posts")'
                 /\ \A u \in Ids' \ Ids :
                      /\ tasks'[u].kind \in {"video"} \cup Outreach
                      /\ tasks'[u].kind = "publish" =>
                           /\ tasks'[u].slot \in 1 .. Slots
                           /\ \A w \in OfKind("publish") : tasks[w].slot # tasks'[u].slot
                      /\ tasks'[u].kind = "send_email" => OfKind("send_email") = {}
                      /\ tasks'[u].kind \in Outreach => tasks'[u].after = OfKind("site")
                 /\ \A u, w \in Ids' \ Ids :
                      /\ tasks'[u].kind = tasks'[w].kind /\ tasks'[u].slot = tasks'[w].slot
                           => u = w
                      /\ tasks'[u].kind = "send_email" /\ tasks'[w].kind = "send_email"
                           => u = w
                 /\ \A n \in 1 .. Newest("posts")'.posts :
                      \E u \in Ids' : tasks'[u].kind = "publish" /\ tasks'[u].slot = n
                 /\ \E u \in Ids' : tasks'[u].kind = "send_email"
  <1>1. /\ UNCHANGED <<doc, actions, outbound, edits, reruns, crashes>>
        /\ tasks[t].kind = "demand" /\ "done" \in TaskStates /\ "failed" \in TaskStates
    BY DEF HandleDemand, Works, bounds, TaskStates
  <1>2. CASE tasks' = Leave(t, "failed") /\ UNCHANGED artifacts
    <2>1. /\ Moves(t) /\ tasks'[t].state = "failed" /\ tasks'[t].pc = "idle"
          /\ tasks'[t].action = tasks[t].action
      BY <1>1, <1>2, Leaves
    <2> QED BY <1>1, <1>2, <2>1
  <1>3. ASSUME NEW pack \in Packs,
               artifacts' = [kind \in ArtifactKinds |->
                   IF kind \in DOMAIN pack THEN Append(artifacts[kind], pack[kind])
                                           ELSE artifacts[kind]],
               tasks' = Leave(t, "done") \o OutreachTasks(pack.posts.posts)
        PROVE  /\ Grows(t) /\ tasks'[t].state = "done" /\ tasks'[t].pc = "idle"
               /\ tasks'[t].action = tasks[t].action
               /\ artifacts' \in [ArtifactKinds -> Seq(Artifact)]
               /\ Has("posts")'
               /\ \A u \in Ids' \ Ids :
                    /\ tasks'[u].kind \in {"video"} \cup Outreach
                    /\ tasks'[u].kind = "publish" =>
                         /\ tasks'[u].slot \in 1 .. Slots
                         /\ \A w \in OfKind("publish") : tasks[w].slot # tasks'[u].slot
                    /\ tasks'[u].kind = "send_email" => OfKind("send_email") = {}
                    /\ tasks'[u].kind \in Outreach => tasks'[u].after = OfKind("site")
               /\ \A u, w \in Ids' \ Ids :
                    /\ tasks'[u].kind = tasks'[w].kind /\ tasks'[u].slot = tasks'[w].slot
                         => u = w
                    /\ tasks'[u].kind = "send_email" /\ tasks'[w].kind = "send_email"
                         => u = w
               /\ \A n \in 1 .. Newest("posts")'.posts :
                    \E u \in Ids' : tasks'[u].kind = "publish" /\ tasks'[u].slot = n
               /\ \E u \in Ids' : tasks'[u].kind = "send_email"
    <2>1. /\ artifacts' \in [ArtifactKinds -> Seq(Artifact)]
          /\ Has("posts")' /\ Newest("posts")' = pack.posts
          /\ pack.posts.posts \in 1 .. Slots
      BY <1>3, PackIsStored
    <2>2. PICK posts : posts = pack.posts.posts
      OBVIOUS
    <2>3. PICK new : new = OutreachTasks(posts)
      OBVIOUS
    <2>4. posts \in 1 .. Slots
      BY <2>1, <2>2
    <2>5. new \in Seq(TaskRow)
      BY <2>3, <2>4, OutreachTasksAre
    <2>6. \A i \in 1 .. Len(new) :
             /\ Fresh(new[i]) /\ new[i].kind \in {"video"} \cup Outreach
             /\ new[i].kind = "publish" => new[i].slot \in NewSlots(posts)
             /\ new[i].kind = "send_email" => OfKind("send_email") = {}
             /\ new[i].kind \in Outreach => new[i].after = LaunchAfter
             /\ new[i].after \subseteq Ids
      BY <2>3, <2>4, OutreachTasksAre
    <2>7. \A i, j \in 1 .. Len(new) :
             new[i].kind = new[j].kind /\ new[i].slot = new[j].slot => i = j
      BY <2>3, <2>4, OutreachTasksAre
    <2>8. \A i, j \in 1 .. Len(new) :
             new[i].kind = "send_email" /\ new[j].kind = "send_email" => i = j
      BY <2>3, <2>4, OutreachTasksAre
    <2>9. \A n \in NewSlots(posts) : \E i \in 1 .. Len(new) :
             new[i].kind = "publish" /\ new[i].slot = n
      BY <2>3, <2>4, OutreachTasksAre
    <2>10. OfKind("send_email") = {} => \E i \in 1 .. Len(new) : new[i].kind = "send_email"
      BY <2>3, <2>4, OutreachTasksAre
    <2>11. \A i \in 1 .. Len(new) :
             Fresh(new[i]) /\ new[i].after \subseteq 1 .. Len(tasks) + Len(new)
      <3>1. Len(tasks) \in Nat /\ Len(new) \in Nat
        BY <2>5 DEF Tables
      <3>2. Ids \subseteq 1 .. Len(tasks) + Len(new)
        BY <3>1 DEF Ids
      <3> QED BY <2>6, <3>2
    <2>12. tasks' = Leave(t, "done") \o new
      BY <1>3, <2>2, <2>3
    <2>13. /\ Grows(t) /\ tasks'[t].state = "done" /\ tasks'[t].pc = "idle"
           /\ tasks'[t].action = tasks[t].action
      BY <1>1, <2>5, <2>11, <2>12, RowsGrow
    <2>14. \A i \in 1 .. Len(new) : tasks'[Len(tasks) + i] = new[i] /\ Len(tasks) + i \in Ids'
      BY <1>1, <2>5, <2>11, <2>12, RowsGrow
    <2>15. \A u \in Ids' \ Ids : \E i \in 1 .. Len(new) : u = Len(tasks) + i
      BY <1>1, <2>5, <2>11, <2>12, RowsGrow
    <2>16. \A n \in NewSlots(posts) :
              n \in 1 .. Slots /\ \A w \in OfKind("publish") : tasks[w].slot # n
      BY <2>4, StudioAssumption DEF NewSlots
    <2>17. ASSUME NEW u \in Ids' \ Ids
           PROVE  /\ tasks'[u].kind \in {"video"} \cup Outreach
                  /\ tasks'[u].kind = "publish" =>
                       /\ tasks'[u].slot \in 1 .. Slots
                       /\ \A w \in OfKind("publish") : tasks[w].slot # tasks'[u].slot
                  /\ tasks'[u].kind = "send_email" => OfKind("send_email") = {}
                  /\ tasks'[u].kind \in Outreach => tasks'[u].after = OfKind("site")
      <3>1. PICK i \in 1 .. Len(new) : u = Len(tasks) + i
        BY <2>15
      <3>2. tasks'[u] = new[i]
        BY <2>14, <3>1
      <3> QED BY <2>6, <2>16, <3>2 DEF LaunchAfter
    <2>18. ASSUME NEW u \in Ids' \ Ids, NEW w \in Ids' \ Ids
           PROVE  /\ tasks'[u].kind = tasks'[w].kind /\ tasks'[u].slot = tasks'[w].slot => u = w
                  /\ tasks'[u].kind = "send_email" /\ tasks'[w].kind = "send_email" => u = w
      <3>1. PICK i \in 1 .. Len(new), j \in 1 .. Len(new) :
              u = Len(tasks) + i /\ w = Len(tasks) + j
        BY <2>15
      <3>2. tasks'[u] = new[i] /\ tasks'[w] = new[j]
        BY <2>14, <3>1
      <3> QED BY <2>7, <2>8, <3>1, <3>2
    <2>19. ASSUME NEW u \in Ids
           PROVE  u \in Ids' /\ tasks'[u].kind = tasks[u].kind /\ tasks'[u].slot = tasks[u].slot
      BY <2>13 DEF Grows, Kept
    <2>20. ASSUME NEW n \in 1 .. Newest("posts")'.posts
           PROVE  \E u \in Ids' : tasks'[u].kind = "publish" /\ tasks'[u].slot = n
      <3>1. n \in 1 .. posts
        BY <2>1, <2>2
      <3>2. CASE n \in NewSlots(posts)
        BY <2>9, <2>14, <3>2
      <3>3. CASE n \notin NewSlots(posts)
        <4>1. PICK w \in OfKind("publish") : tasks[w].slot = n
          BY <3>1, <3>3 DEF NewSlots
        <4> QED BY <2>19, <4>1 DEF OfKind
      <3> QED BY <3>2, <3>3
    <2>21. \E u \in Ids' : tasks'[u].kind = "send_email"
      <3>1. CASE OfKind("send_email") = {}
        BY <2>10, <2>14, <3>1
      <3>2. CASE OfKind("send_email") # {}
        <4>1. PICK w \in Ids : tasks[w].kind = "send_email"
          BY <3>2 DEF OfKind
        <4> QED BY <2>19, <4>1
      <3> QED BY <3>1, <3>2
    <2> QED BY <2>1, <2>13, <2>17, <2>18, <2>20, <2>21
  <1>4. \/ tasks' = Leave(t, "failed") /\ UNCHANGED artifacts
        \/ \E pack \in Packs :
              /\ artifacts' = [kind \in ArtifactKinds |->
                    IF kind \in DOMAIN pack THEN Append(artifacts[kind], pack[kind])
                                            ELSE artifacts[kind]]
              /\ tasks' = Leave(t, "done") \o OutreachTasks(pack.posts.posts)
    BY DEF HandleDemand
  <1> QED BY <1>1, <1>2, <1>3, <1>4

-----------------------------------------------------------------------------
(* The invariant is kept. *)

LEMMA FirstTask == ASSUME Tables PROVE 1 \in Ids
  BY DEF Tables, Ids

LEMMA KeyKept ==
    ASSUME NEW old, NEW new, Kept(old, new), NEW v
    PROVE  Key(new, v) = Key(old, v)
  BY DEF Key, Kept

(* What a step makes of the actions: their owner and content are fixed by the
   request that writes the row, which `t` makes for itself. *)
Files(t) ==
    /\ actions' \in [Keys -> ActionRow]
    /\ \A k \in Keys :
         \/ actions'[k] = actions[k]
         \/ /\ actions[k].state # "absent"
            /\ actions'[k].owner = actions[k].owner
            /\ actions'[k].content = actions[k].content
         \/ /\ actions'[k].owner = t /\ actions'[k].content = tasks[t].content
            /\ tasks[t].kind \in Askers /\ \E v \in Docs : k = Key(tasks[t], v)
            /\ k[1] \in Outreach => tasks[t].content.status = "clean"

LEMMA OwnersAreKept ==
    ASSUME Owned, NEW t \in Ids, Grows(t), Files(t)
    PROVE  Owned'
  <1>1. ASSUME NEW u \in Ids
        PROVE  u \in Ids' /\ Kept(tasks[u], tasks'[u]) /\ tasks'[u].kind = tasks[u].kind
    BY DEF Grows, Kept
  <1>2. ASSUME NEW k \in Keys, NEW u \in Ids, actions'[k].owner = u,
               tasks[u].kind \in Askers, \E v \in Docs : k = Key(tasks[u], v)
        PROVE  Asked(k)'
    <2>1. PICK v \in Docs : k = Key(tasks[u], v)
      BY <1>2
    <2>2. PICK row : row = tasks'[u]
      OBVIOUS
    <2>3. k = Key(row, v)
      BY <1>1, <2>1, <2>2, KeyKept
    <2> QED BY <1>1, <1>2, <2>2, <2>3 DEF Asked
  <1>3. ASSUME NEW k \in Keys
        PROVE  /\ actions'[k].owner \in Ids' \cup {0}
               /\ actions'[k].state # "absent" => Asked(k)'
    <2>1. CASE \/ actions'[k] = actions[k]
               \/ actions[k].state # "absent" /\ actions'[k].owner = actions[k].owner
      <3>1. actions'[k].owner = actions[k].owner
        BY <2>1
      <3>2. actions[k].owner \in Ids \cup {0}
        BY DEF Owned
      <3>3. ASSUME actions'[k].state # "absent"
            PROVE  Asked(k)'
        <4>1. Asked(k)
          BY <2>1, <3>3 DEF Owned
        <4> QED BY <1>2, <3>1, <4>1 DEF Asked
      <3> QED BY <1>1, <3>1, <3>2, <3>3
    <2>2. CASE /\ actions'[k].owner = t /\ tasks[t].kind \in Askers
               /\ \E v \in Docs : k = Key(tasks[t], v)
      BY <1>1, <1>2, <2>2
    <2> QED BY <2>1, <2>2 DEF Files
  <1> QED BY <1>3 DEF Owned

LEMMA RowsStayClean ==
    ASSUME Owned, RowsAreClean, NEW t \in Ids, Files(t)
    PROVE  RowsAreClean'
  <1>1. ASSUME NEW k \in Keys, k[1] \in Outreach, actions'[k].state # "absent"
        PROVE  actions'[k].content.status = "clean"
    BY <1>1 DEF Files, RowsAreClean
  <1> QED BY <1>1 DEF RowsAreClean

(* Enough for a step to keep the invariant. *)
Steady(t) ==
    /\ Grows(t) /\ Files(t)
    /\ artifacts' \in [ArtifactKinds -> Seq(Artifact)]
    /\ outbound' \subseteq [key : Keys \cup {<<"video", 0, 0>>}, content : Artifact]
    /\ edits' \in 0 .. MaxEdits /\ reruns' \in 0 .. MaxReruns /\ crashes' \in 0 .. MaxCrashes
    /\ doc' \in Nat
    /\ \A u \in Ids' \ Ids :
         /\ tasks'[u].kind # "plan"
         /\ tasks'[u].kind = "publish" => tasks'[u].slot \in 1 .. Slots
    /\ tasks'[t].pc = "built" => tasks[t].kind = "site"
    /\ tasks'[t].pc = "working" /\ tasks[t].kind \in Outreach \cup {"video"}
         => tasks'[t].content.status = "clean"
    /\ tasks'[1].pc = "working" => tasks'[1].state = "running"
    /\ doc' <= edits' + reruns' + 1
    /\ tasks'[1].state \in {"pending", "running"} => doc' <= edits' + reruns'
    /\ OutboundIsClean'

LEMMA SteadyKeeps ==
    ASSUME IInv, NEW t \in Ids, Steady(t)
    PROVE  IInv'
  <1> USE DEF IInv
  <1>1. 1 \in Ids /\ tasks' \in Seq(TaskRow) /\ Ids \subseteq Ids'
    BY FirstTask DEF Steady, Grows
  <1>2. ASSUME NEW u \in Ids
        PROVE  /\ tasks'[u].kind = tasks[u].kind /\ tasks'[u].slot = tasks[u].slot
               /\ tasks'[u].after = tasks[u].after
               /\ u # t => tasks'[u] = tasks[u]
    BY DEF Steady, Grows, Kept
  <1>3. ASSUME NEW u \in Ids' \ Ids
        PROVE  /\ tasks'[u].pc = "idle" /\ tasks'[u].after \subseteq Ids'
               /\ tasks'[u].kind # "plan"
               /\ tasks'[u].kind = "publish" => tasks'[u].slot \in 1 .. Slots
    BY DEF Steady, Grows, Fresh
  <1>4. Tables'
    <2>1. doc' \in Docs
      <3>1. /\ doc' \in Nat /\ doc' <= edits' + reruns' + 1
            /\ edits' \in 0 .. MaxEdits /\ reruns' \in 0 .. MaxReruns
        BY DEF Steady
      <3>2. MaxEdits \in Nat /\ MaxReruns \in Nat
        BY StudioAssumption
      <3>3. PICK d, e, r : d = doc' /\ e = edits' /\ r = reruns'
        OBVIOUS
      <3>4. d \in 0 .. MaxEdits + MaxReruns + 1
        <4>1. d \in Nat /\ d <= e + r + 1 /\ e \in 0 .. MaxEdits /\ r \in 0 .. MaxReruns
          BY <3>1, <3>3
        <4> QED BY <3>2, <4>1
      <3> QED BY <3>3, <3>4 DEF Docs
    <2>2. Len(tasks') > 0
      BY <1>1 DEF Ids
    <2>3. actions' \in [Keys -> ActionRow]
      BY DEF Steady, Files
    <2> QED BY <1>1, <2>1, <2>2, <2>3 DEF Tables, Steady
  <1>5. Planned'
    <2>1. \A u \in Ids' : tasks'[u].kind = "plan" <=> u = 1
      BY <1>1, <1>2, <1>3 DEF Planned
    <2> QED BY <2>1 DEF Planned, Steady
  <1>6. Linked'
    <2>1. ASSUME NEW u \in Ids
          PROVE  tasks'[u].after \subseteq Ids'
      <3>1. tasks[u].after \subseteq Ids
        BY DEF Linked
      <3> QED BY <1>1, <1>2, <3>1
    <2> QED BY <1>3, <2>1 DEF Linked
  <1>7. Held'
    <2>0. tasks'[t].pc = "built" => tasks[t].kind = "site"
      BY DEF Steady
    <2>1. ASSUME NEW u \in Ids
          PROVE  /\ tasks'[u].pc = "built" => tasks'[u].kind = "site"
                 /\ tasks'[u].kind = "publish" => tasks'[u].slot \in 1 .. Slots
      <3>1. /\ tasks[u].pc = "built" => tasks[u].kind = "site"
            /\ tasks[u].kind = "publish" => tasks[u].slot \in 1 .. Slots
        BY DEF Held
      <3>2. CASE u = t
        BY <1>2, <2>0, <3>1, <3>2
      <3>3. CASE u # t
        BY <1>2, <3>1, <3>3
      <3> QED BY <3>2, <3>3
    <2>2. \A u \in Ids' :
             /\ tasks'[u].pc = "built" => tasks'[u].kind = "site"
             /\ tasks'[u].kind = "publish" => tasks'[u].slot \in 1 .. Slots
      <3>1. ASSUME NEW u \in Ids' \ Ids
            PROVE  /\ tasks'[u].pc = "built" => tasks'[u].kind = "site"
                   /\ tasks'[u].kind = "publish" => tasks'[u].slot \in 1 .. Slots
        BY <1>3
      <3> QED BY <2>1, <3>1
    <2> QED BY <2>2 DEF Held
  <1>8. HeldIsClean'
    <2>0. tasks'[t].pc = "working" /\ tasks[t].kind \in Outreach \cup {"video"}
            => tasks'[t].content.status = "clean"
      BY DEF Steady
    <2>1. ASSUME NEW u \in Ids, tasks'[u].pc = "working",
                 tasks'[u].kind \in Outreach \cup {"video"}
          PROVE  tasks'[u].content.status = "clean"
      <3>1. CASE u = t
        BY <1>2, <2>0, <2>1, <3>1
      <3>2. CASE u # t
        <4>1. tasks[u].content.status = "clean"
          BY <1>2, <2>1, <3>2 DEF HeldIsClean
        <4> QED BY <1>2, <3>2, <4>1
      <3> QED BY <3>1, <3>2
    <2>2. \A u \in Ids' : tasks'[u].pc = "working" /\ tasks'[u].kind \in Outreach \cup {"video"}
                             => tasks'[u].content.status = "clean"
      BY <1>3, <2>1
    <2> QED BY <2>2 DEF HeldIsClean
  <1>9. Owned' /\ RowsAreClean'
    BY OwnersAreKept, RowsStayClean DEF Steady
  <1>10. OutboundIsClean'
    BY DEF Steady
  <1> QED BY <1>4, <1>5, <1>6, <1>7, <1>8, <1>9, <1>10

(* A step that leaves the plan's task, the document and the actions alone. *)
LEMMA AsideOfThePlan ==
    ASSUME IInv, NEW t \in Ids, Grows(t), tasks[t].kind # "plan",
           UNCHANGED <<doc, edits>>, reruns' = reruns \/ reruns' = reruns + 1
    PROVE  /\ doc' \in Nat
           /\ tasks'[1].pc = "working" => tasks'[1].state = "running"
           /\ doc' <= edits' + reruns' + 1
           /\ tasks'[1].state \in {"pending", "running"} => doc' <= edits' + reruns'
  <1>1. doc \in Nat /\ edits \in Nat /\ reruns \in Nat
    BY StudioAssumption DEF IInv, Tables, Docs
  <1>2. tasks'[1] = tasks[1]
    BY FirstTask DEF IInv, Planned, Grows
  <1> QED BY <1>1, <1>2 DEF IInv, Planned

LEMMA NothingFiled ==
    ASSUME Tables, NEW t, UNCHANGED actions
    PROVE  Files(t)
  BY DEF Tables, Files

LEMMA NothingSent ==
    ASSUME IInv, UNCHANGED outbound
    PROVE  /\ outbound' \subseteq [key : Keys \cup {<<"video", 0, 0>>}, content : Artifact]
           /\ OutboundIsClean'
  BY DEF IInv, Tables, OutboundIsClean

LEMMA InitHolds == Init => IInv
  <1> SUFFICES ASSUME Init PROVE IInv
    OBVIOUS
  <1>1. PICK row : row = Task("plan", 0, {})
    OBVIOUS
  <1>2. /\ row \in TaskRow /\ row.kind = "plan" /\ row.state = "pending" /\ row.pc = "idle"
        /\ row.slot = 0 /\ row.after = {}
    <2>1. "plan" \in TaskKinds /\ 0 \in 0 .. Slots /\ {} \in SUBSET Nat
      BY StudioAssumption DEF TaskKinds
    <2> QED BY <1>1, <2>1, EnqueuedRow DEF Fresh
  <1>3. tasks = <<row>>
    BY <1>1 DEF Init
  <1>4. tasks \in Seq(TaskRow) /\ Len(tasks) = 1 /\ tasks[1] = row /\ Ids = {1}
    BY <1>2, <1>3 DEF Ids
  <1>5. ASSUME NEW k \in Keys
        PROVE  actions[k].state = "absent" /\ actions[k].owner = 0
    BY <1>5 DEF Init, NoAction
  <1>6. Tables
    <2>1. NoAction \in ActionRow
      BY NothingWritten DEF NoAction, ActionRow, ActionStates
    <2>2. /\ doc \in Docs /\ artifacts \in [ArtifactKinds -> Seq(Artifact)]
          /\ outbound = {}
      BY NothingWritten DEF Init
    <2>3. edits \in 0 .. MaxEdits /\ reruns \in 0 .. MaxReruns /\ crashes \in 0 .. MaxCrashes
      BY StudioAssumption DEF Init
    <2>4. actions \in [Keys -> ActionRow]
      BY <2>1 DEF Init
    <2> QED BY <1>4, <2>2, <2>3, <2>4 DEF Tables
  <1>7. Planned
    BY <1>2, <1>4 DEF Planned, Init
  <1>8. Linked
    BY <1>2, <1>4 DEF Linked
  <1>9. Held /\ HeldIsClean
    BY <1>2, <1>4 DEF Held, HeldIsClean
  <1>10. Owned /\ RowsAreClean
    BY <1>5 DEF Owned, RowsAreClean
  <1>11. OutboundIsClean
    BY DEF Init, OutboundIsClean
  <1> QED BY <1>6, <1>7, <1>8, <1>9, <1>10, <1>11 DEF IInv

LEMMA BeginKeeps ==
    ASSUME IInv, NEW t \in Ids, Begin(t)
    PROVE  IInv'
  <1>0. Tables
    BY DEF IInv
  <1>1. /\ Moves(t)
        /\ UNCHANGED <<doc, artifacts, actions, outbound, edits, reruns, crashes>>
        /\ tasks[t].state = "pending"
        /\ \/ /\ Accepts(t) /\ tasks'[t].state = "running" /\ tasks'[t].pc = "working"
              /\ tasks'[t].content = Read(t)
           \/ tasks'[t].state = "failed" /\ tasks'[t].pc = "idle"
    BY <1>0, BeginMoves
  <1>2. Grows(t) /\ Files(t) /\ Ids' = Ids
    BY <1>0, <1>1, MovesGrows, NothingFiled DEF Moves
  <1>3. tasks'[t].pc = "working" /\ tasks[t].kind \in Outreach \cup {"video"}
          => tasks'[t].content.status = "clean"
    <2>1. ASSUME Accepts(t), tasks[t].kind \in Outreach \cup {"video"}
          PROVE  Read(t).status = "clean"
      BY <2>1, UpstreamIs DEF Accepts, Read, Outreach
    <2> QED BY <1>1, <2>1
  <1>4. /\ tasks'[1].pc = "working" => tasks'[1].state = "running"
        /\ doc' \in Nat
        /\ doc' <= edits' + reruns' + 1
        /\ tasks'[1].state \in {"pending", "running"} => doc' <= edits' + reruns'
    <2>1. doc \in Nat
      BY <1>0, StudioAssumption DEF Tables, Docs
    <2>2. CASE t = 1
      BY <1>1, <2>1, <2>2 DEF IInv, Planned
    <2>3. CASE t # 1
      <3>1. tasks'[1] = tasks[1]
        BY <1>0, <1>2, <2>3, FirstTask DEF Grows
      <3> QED BY <1>1, <2>1, <3>1 DEF IInv, Planned
    <2> QED BY <2>2, <2>3
  <1>5. Steady(t)
    BY <1>0, <1>1, <1>2, <1>3, <1>4, NothingSent DEF Steady, Tables
  <1> QED BY <1>5, SteadyKeeps

(* A task's failure, and the sweep's. *)
LEMMA LeavingKeeps ==
    ASSUME IInv, NEW t \in Ids, Raise(t) \/ Dies(t)
    PROVE  IInv'
  <1>0. Tables
    BY DEF IInv
  <1>1. /\ Moves(t)
        /\ UNCHANGED <<doc, artifacts, actions, outbound, edits, reruns>>
        /\ crashes' \in 0 .. MaxCrashes
        /\ tasks'[t].pc = "idle"
        /\ tasks'[t].state = "failed" \/ (tasks[t].pc = "built" /\ tasks'[t].state = "pending")
    <2>1. crashes \in 0 .. MaxCrashes
      BY <1>0 DEF Tables
    <2> QED BY <1>0, <2>1, RaiseMoves, DiesMoves
  <1>2. Grows(t) /\ Files(t) /\ Ids' = Ids
    BY <1>0, <1>1, MovesGrows, NothingFiled DEF Moves
  <1>3. /\ tasks'[1].pc = "working" => tasks'[1].state = "running"
        /\ doc' \in Nat
        /\ doc' <= edits' + reruns' + 1
        /\ tasks'[1].state \in {"pending", "running"} => doc' <= edits' + reruns'
    <2>1. doc \in Nat
      BY <1>0, StudioAssumption DEF Tables, Docs
    <2>2. CASE t = 1
      <3>1. tasks[t].kind = "plan"
        BY <2>2 DEF IInv, Planned
      <3>2. tasks[t].pc # "built"
        BY <3>1 DEF IInv, Held
      <3> QED BY <1>1, <2>1, <2>2, <3>2 DEF IInv, Planned
    <2>3. CASE t # 1
      <3>1. tasks'[1] = tasks[1]
        BY <1>0, <1>2, <2>3, FirstTask DEF Grows
      <3> QED BY <1>1, <2>1, <3>1 DEF IInv, Planned
    <2> QED BY <2>2, <2>3
  <1>4. Steady(t)
    BY <1>0, <1>1, <1>2, <1>3, NothingSent DEF Steady, Tables
  <1> QED BY <1>4, SteadyKeeps

LEMMA RerunKeeps ==
    ASSUME IInv, NEW t \in Ids, Rerun(t)
    PROVE  IInv'
  <1>0. Tables
    BY DEF IInv
  <1>1. /\ Moves(t)
        /\ UNCHANGED <<doc, artifacts, actions, outbound, edits, crashes>>
        /\ reruns' = reruns + 1 /\ reruns' \in 0 .. MaxReruns
        /\ tasks[t].state \in {"failed", "done"}
        /\ tasks'[t].state = "pending" /\ tasks'[t].pc = tasks[t].pc
        /\ tasks'[t].content = tasks[t].content
    BY <1>0, RerunMoves
  <1>2. Grows(t) /\ Files(t) /\ Ids' = Ids
    BY <1>0, <1>1, MovesGrows, NothingFiled DEF Moves
  <1>3. /\ tasks'[1].pc = "working" => tasks'[1].state = "running"
        /\ doc' \in Nat
        /\ doc' <= edits' + reruns' + 1
        /\ tasks'[1].state \in {"pending", "running"} => doc' <= edits' + reruns'
    <2>1. doc \in Nat /\ edits \in Nat /\ reruns \in Nat
      BY <1>0, StudioAssumption DEF Tables, Docs
    <2>2. doc <= edits + reruns + 1 /\ doc' = doc /\ edits' = edits
      BY <1>1 DEF IInv, Planned
    <2>3. doc' <= edits' + reruns'
      BY <1>1, <2>1, <2>2
    <2>4. CASE t = 1
      BY <1>1, <2>1, <2>2, <2>3, <2>4 DEF IInv, Planned
    <2>5. CASE t # 1
      <3>1. tasks'[1] = tasks[1]
        BY <1>0, <1>2, <2>5, FirstTask DEF Grows
      <3> QED BY <1>1, <2>1, <2>2, <2>3, <3>1 DEF IInv, Planned
    <2> QED BY <2>4, <2>5
  <1>4. /\ tasks'[t].pc = "built" => tasks[t].kind = "site"
        /\ tasks'[t].pc = "working" /\ tasks[t].kind \in Outreach \cup {"video"}
             => tasks'[t].content.status = "clean"
    BY <1>1 DEF IInv, Held, HeldIsClean
  <1>5. Steady(t)
    BY <1>0, <1>1, <1>2, <1>3, <1>4, NothingSent DEF Steady, Tables
  <1> QED BY <1>5, SteadyKeeps

LEMMA EditKeeps ==
    ASSUME IInv, Edit
    PROVE  IInv'
  <1>0. Tables
    BY DEF IInv
  <1>1. /\ UNCHANGED <<tasks, artifacts, actions, outbound, reruns, crashes>>
        /\ edits < MaxEdits /\ edits' = edits + 1 /\ doc' = doc + 1
    BY DEF Edit
  <1>2. /\ doc \in Nat /\ edits \in Nat /\ reruns \in Nat /\ edits' \in 0 .. MaxEdits
    BY <1>0, <1>1, StudioAssumption DEF Tables, Docs
  <1>3. 1 \in Ids /\ Grows(1) /\ Files(1) /\ Ids' = Ids
    <2>1. Ids' = Ids
      BY <1>1 DEF Ids
    <2>2. Grows(1)
      BY <1>0, <1>1, <2>1 DEF Grows, Kept, Tables
    <2> QED BY <1>0, <1>1, <2>1, <2>2, FirstTask, NothingFiled
  <1>4. /\ tasks'[1].pc = "working" => tasks'[1].state = "running"
        /\ doc' \in Nat
        /\ doc' <= edits' + reruns' + 1
        /\ tasks'[1].state \in {"pending", "running"} => doc' <= edits' + reruns'
    BY <1>1, <1>2 DEF IInv, Planned
  <1>5. /\ tasks'[1].pc = "built" => tasks[1].kind = "site"
        /\ tasks'[1].pc = "working" /\ tasks[1].kind \in Outreach \cup {"video"}
             => tasks'[1].content.status = "clean"
    BY <1>1, <1>3 DEF IInv, Held, HeldIsClean
  <1>6. Steady(1)
    BY <1>0, <1>1, <1>2, <1>3, <1>4, <1>5, NothingSent DEF Steady, Tables
  <1> QED BY <1>3, <1>6, SteadyKeeps

LEMMA PlanKeeps ==
    ASSUME IInv, NEW t \in Ids, HandlePlan(t)
    PROVE  IInv'
  <1>0. Tables
    BY DEF IInv
  <1>1. /\ Grows(t)
        /\ UNCHANGED <<artifacts, actions, outbound, edits, reruns, crashes>>
        /\ doc' = doc \/ doc' = doc + 1
        /\ tasks[t].kind = "plan" /\ tasks[t].pc = "working"
        /\ tasks'[t].state = "done" /\ tasks'[t].pc = "idle"
    BY <1>0, PlanGrows
  <1>2. \A u \in Ids' \ Ids : tasks'[u].kind \in Stages
    BY <1>0, PlanGrows
  <1>3. Files(t)
    BY <1>0, <1>1, NothingFiled
  <1>4. /\ tasks'[1].pc = "working" => tasks'[1].state = "running"
        /\ doc' \in Nat
        /\ doc' <= edits' + reruns' + 1
        /\ tasks'[1].state \in {"pending", "running"} => doc' <= edits' + reruns'
    <2>1. doc \in Nat /\ edits \in Nat /\ reruns \in Nat
      BY <1>0, StudioAssumption DEF Tables, Docs
    <2>2. t = 1
      BY <1>1 DEF IInv, Planned
    <2>3. doc <= edits + reruns
      BY <1>1, <2>2 DEF IInv, Planned
    <2> QED BY <1>1, <2>1, <2>2, <2>3
  <1>5. \A u \in Ids' \ Ids : tasks'[u].kind # "plan" /\ tasks'[u].kind # "publish"
    BY <1>2 DEF Stages
  <1>6. Steady(t)
    BY <1>0, <1>1, <1>3, <1>4, <1>5, NothingSent DEF Steady, Tables
  <1> QED BY <1>6, SteadyKeeps

LEMMA HandlerKeeps ==
    ASSUME IInv, NEW t \in Ids, HandleCopy(t) \/ HandleVideo(t) \/ BuildSite(t)
    PROVE  IInv'
  <1>0. Tables
    BY DEF IInv
  <1>1. /\ Moves(t)
        /\ UNCHANGED <<doc, actions, edits, reruns, crashes>>
        /\ artifacts' \in [ArtifactKinds -> Seq(Artifact)]
        /\ tasks[t].kind # "plan"
        /\ tasks'[t].pc = "idle" \/ (tasks'[t].pc = "built" /\ tasks[t].kind = "site")
        /\ \/ outbound' = outbound
           \/ /\ outbound' = outbound \cup {[key |-> <<"video", 0, 0>>,
                                             content |-> tasks[t].content]}
              /\ tasks[t].kind = "video" /\ tasks[t].pc = "working"
              /\ tasks[t].content \in Artifact
    <2>1. CASE HandleCopy(t)
      BY <1>0, <2>1, CopyMoves
    <2>2. CASE HandleVideo(t)
      BY <1>0, <2>2, VideoMoves
    <2>3. CASE BuildSite(t)
      BY <1>0, <2>3, BuildMoves
    <2> QED BY <2>1, <2>2, <2>3
  <1>2. Grows(t) /\ Files(t) /\ Ids' = Ids
    BY <1>0, <1>1, MovesGrows, NothingFiled DEF Moves
  <1>3. /\ outbound' \subseteq [key : Keys \cup {<<"video", 0, 0>>}, content : Artifact]
        /\ OutboundIsClean'
    <2>1. CASE outbound' = outbound
      BY <2>1, NothingSent
    <2>2. CASE /\ outbound' = outbound \cup {[key |-> <<"video", 0, 0>>,
                                              content |-> tasks[t].content]}
               /\ tasks[t].kind = "video" /\ tasks[t].pc = "working"
               /\ tasks[t].content \in Artifact
      <3>1. tasks[t].content.status = "clean"
        BY <2>2 DEF IInv, HeldIsClean
      <3> QED BY <1>0, <2>2, <3>1 DEF Tables, IInv, OutboundIsClean
    <2> QED BY <1>1, <2>1, <2>2
  <1>4. /\ doc' \in Nat
        /\ tasks'[1].pc = "working" => tasks'[1].state = "running"
        /\ doc' <= edits' + reruns' + 1
        /\ tasks'[1].state \in {"pending", "running"} => doc' <= edits' + reruns'
    BY <1>1, <1>2, AsideOfThePlan
  <1>5. Steady(t)
    BY <1>0, <1>1, <1>2, <1>3, <1>4 DEF Steady, Tables
  <1> QED BY <1>5, SteadyKeeps

LEMMA DemandKeeps ==
    ASSUME IInv, NEW t \in Ids, HandleDemand(t)
    PROVE  IInv'
  <1>0. Tables
    BY DEF IInv
  <1>1. /\ UNCHANGED <<doc, actions, outbound, edits, reruns, crashes>>
        /\ tasks[t].kind = "demand" /\ tasks'[t].pc = "idle"
    BY <1>0, DemandMoves
  <1>2. /\ Grows(t)
        /\ artifacts' \in [ArtifactKinds -> Seq(Artifact)]
        /\ \A u \in Ids' \ Ids :
             /\ tasks'[u].kind # "plan"
             /\ tasks'[u].kind = "publish" => tasks'[u].slot \in 1 .. Slots
    <2>1. CASE Moves(t) /\ UNCHANGED artifacts
      BY <1>0, <2>1, MovesGrows DEF Moves, Tables
    <2>2. CASE ~ (Moves(t) /\ UNCHANGED artifacts)
      <3>1. Grows(t) /\ artifacts' \in [ArtifactKinds -> Seq(Artifact)]
        BY <1>0, <2>2, DemandMoves
      <3>2. ASSUME NEW u \in Ids' \ Ids
            PROVE  /\ tasks'[u].kind \in {"video"} \cup Outreach
                   /\ tasks'[u].kind = "publish" => tasks'[u].slot \in 1 .. Slots
        BY <1>0, <2>2, DemandMoves
      <3> QED BY <3>1, <3>2 DEF Outreach
    <2> QED BY <2>1, <2>2
  <1>3. Files(t)
    BY <1>0, <1>1, NothingFiled
  <1>4. /\ doc' \in Nat
        /\ tasks'[1].pc = "working" => tasks'[1].state = "running"
        /\ doc' <= edits' + reruns' + 1
        /\ tasks'[1].state \in {"pending", "running"} => doc' <= edits' + reruns'
    BY <1>1, <1>2, AsideOfThePlan
  <1>5. Steady(t)
    BY <1>0, <1>1, <1>2, <1>3, <1>4, NothingSent DEF Steady, Tables
  <1> QED BY <1>5, SteadyKeeps

LEMMA RequestKeeps ==
    ASSUME IInv, NEW t \in Ids, Request(t)
    PROVE  IInv'
  <1>0. Tables /\ Held
    BY DEF IInv
  <1>1. /\ Moves(t) /\ tasks'[t].pc = "idle"
        /\ UNCHANGED <<doc, artifacts, outbound, edits, reruns, crashes>>
        /\ tasks[t].kind \in Askers
        /\ tasks[t].pc = "built" \/ tasks[t].pc = "working"
    BY <1>0, RequestMoves
  <1>2. Grows(t) /\ Ids' = Ids
    BY <1>1, MovesGrows DEF Moves
  <1>3. tasks[t].kind # "plan"
    BY <1>1 DEF Askers, Outreach
  <1>4. Files(t)
    <2>1. PICK k \in Keys :
            /\ k = Key(tasks[t], tasks[t].version)
            /\ \/ UNCHANGED actions
               \/ actions' = [actions EXCEPT ![k] =
                    [state |-> "awaiting_approval", owner |-> t, content |-> tasks[t].content]]
      BY <1>0, RequestMoves
    <2>2. CASE UNCHANGED actions
      BY <1>0, <2>2, NothingFiled
    <2>3. CASE actions' = [actions EXCEPT ![k] =
                 [state |-> "awaiting_approval", owner |-> t, content |-> tasks[t].content]]
      <3>1. PICK row : row = [state |-> "awaiting_approval", owner |-> t,
                              content |-> tasks[t].content]
        OBVIOUS
      <3>2. /\ tasks[t] \in TaskRow /\ tasks[t].content \in Artifact
            /\ tasks[t].version \in Docs
        BY <1>0, RowIsTyped DEF TaskRow
      <3>3. row \in ActionRow /\ row.owner = t /\ row.content = tasks[t].content
        <4>1. t \in Nat
          BY DEF Ids
        <4> QED BY <3>1, <3>2, <4>1 DEF ActionRow, ActionStates
      <3>4. actions' = [actions EXCEPT ![k] = row]
        BY <2>3, <3>1
      <3>5. /\ actions' \in [Keys -> ActionRow] /\ actions'[k] = row
            /\ \A l \in Keys : l # k => actions'[l] = actions[l]
        BY <1>0, <3>3, <3>4 DEF Tables
      <3>6. k[1] \in Outreach => tasks[t].content.status = "clean"
        <4>1. PICK v \in Docs : v = tasks[t].version
          BY <3>2
        <4>2. PICK task : task = tasks[t]
          OBVIOUS
        <4>3. /\ task \in TaskRow /\ task.kind \in Askers
              /\ task.kind = "publish" => task.slot \in 1 .. Slots
              /\ k = Key(task, v)
          BY <1>0, <1>1, <2>1, <3>2, <4>1, <4>2 DEF Held
        <4>4. /\ task.kind = "site" => k = <<"deploy", v, 0>>
              /\ task.kind = "money" => k = <<"arm", 0, 0>>
          BY <4>3, KeyIs
        <4>5. k[1] \in Outreach => task.kind \in Outreach
          BY <4>3, <4>4 DEF Askers, Outreach
        <4>6. task.kind \in Outreach => task.pc = "working"
          BY <1>0, <1>1, <4>2 DEF Held, Outreach
        <4> QED BY <4>2, <4>5, <4>6 DEF IInv, HeldIsClean
      <3>7. /\ actions'[k].owner = t /\ actions'[k].content = tasks[t].content
            /\ \E v \in Docs : k = Key(tasks[t], v)
        BY <2>1, <3>2, <3>3, <3>5
      <3> QED BY <1>1, <3>5, <3>6, <3>7 DEF Files
    <2> QED BY <2>1, <2>2, <2>3
  <1>5. /\ doc' \in Nat
        /\ tasks'[1].pc = "working" => tasks'[1].state = "running"
        /\ doc' <= edits' + reruns' + 1
        /\ tasks'[1].state \in {"pending", "running"} => doc' <= edits' + reruns'
    BY <1>1, <1>2, <1>3, AsideOfThePlan
  <1>6. Steady(t)
    BY <1>0, <1>1, <1>2, <1>4, <1>5, NothingSent DEF Steady, Tables
  <1> QED BY <1>6, SteadyKeeps

LEMMA KeysAreNotTheVideos == \A k \in Keys : k[1] # "video"
  BY DEF Keys

LEMMA DecideKeeps ==
    ASSUME IInv, NEW k \in Keys, Decide(k)
    PROVE  IInv'
  <1>0. Tables /\ Held /\ Owned
    BY DEF IInv
  <1>1. PICK t : t = actions[k].owner
    OBVIOUS
  <1>2. /\ Moves(t) /\ Asked(k)
        /\ UNCHANGED <<doc, artifacts, edits, reruns, crashes>>
        /\ actions[k].state = "awaiting_approval"
        /\ tasks'[t].pc = tasks[t].pc /\ tasks'[t].content = tasks[t].content
    BY <1>0, <1>1, DecideMoves
  <1>3. \/ outbound' = outbound
        \/ outbound' = outbound \cup {[key |-> k, content |-> actions[k].content]}
    BY <1>0, DecideMoves
  <1>4. PICK state \in {"succeeded", "failed"} : actions' = [actions EXCEPT ![k].state = state]
    BY <1>0, DecideMoves
  <1>5. t \in Ids /\ tasks[t].kind # "plan"
    BY <1>1, <1>2 DEF Asked, Askers, Outreach
  <1>6. Grows(t) /\ Ids' = Ids
    BY <1>2, MovesGrows DEF Moves
  <1>7. Files(t)
    <2>1. PICK row : row = [actions[k] EXCEPT !.state = state]
      OBVIOUS
    <2>2. actions[k] \in ActionRow /\ DOMAIN actions = Keys
      BY <1>0 DEF Tables
    <2>3. row \in ActionRow /\ row.owner = actions[k].owner /\ row.content = actions[k].content
      BY <2>1, <2>2 DEF ActionRow, ActionStates
    <2>4. actions' = [actions EXCEPT ![k] = row]
      BY <1>4, <2>1, <2>2
    <2>5. /\ actions' \in [Keys -> ActionRow] /\ actions'[k] = row
          /\ \A l \in Keys : l # k => actions'[l] = actions[l]
      BY <1>0, <2>3, <2>4 DEF Tables
    <2> QED BY <1>2, <2>3, <2>5 DEF Files
  <1>8. /\ outbound' \subseteq [key : Keys \cup {<<"video", 0, 0>>}, content : Artifact]
        /\ OutboundIsClean'
    <2>1. CASE outbound' = outbound
      BY <2>1, NothingSent
    <2>2. CASE outbound' = outbound \cup {[key |-> k, content |-> actions[k].content]}
      <3>1. actions[k].content \in Artifact
        BY <1>0 DEF Tables, ActionRow
      <3>2. k[1] \in Outreach \cup {"video"} => actions[k].content.status = "clean"
        BY <1>2, KeysAreNotTheVideos DEF IInv, RowsAreClean
      <3>3. \A o \in outbound : o.key[1] \in Outreach \cup {"video"} => o.content.status = "clean"
        BY DEF IInv, OutboundIsClean
      <3>4. outbound \subseteq [key : Keys \cup {<<"video", 0, 0>>}, content : Artifact]
        BY <1>0 DEF Tables
      <3>5. outbound' \subseteq [key : Keys \cup {<<"video", 0, 0>>}, content : Artifact]
        BY <2>2, <3>1, <3>4
      <3> QED BY <2>2, <3>2, <3>3, <3>5 DEF OutboundIsClean
    <2> QED BY <1>3, <2>1, <2>2
  <1>9. /\ doc' \in Nat
        /\ tasks'[1].pc = "working" => tasks'[1].state = "running"
        /\ doc' <= edits' + reruns' + 1
        /\ tasks'[1].state \in {"pending", "running"} => doc' <= edits' + reruns'
    BY <1>2, <1>5, <1>6, AsideOfThePlan
  <1>10. /\ tasks'[t].pc = "built" => tasks[t].kind = "site"
         /\ tasks'[t].pc = "working" /\ tasks[t].kind \in Outreach \cup {"video"}
              => tasks'[t].content.status = "clean"
    BY <1>2, <1>5 DEF IInv, Held, HeldIsClean
  <1>11. Steady(t)
    BY <1>0, <1>2, <1>6, <1>7, <1>8, <1>9, <1>10 DEF Steady, Tables
  <1> QED BY <1>5, <1>11, SteadyKeeps

LEMMA NextKeeps ==
    ASSUME IInv, [Next]_vars
    PROVE  IInv'
  <1>1. ASSUME NEW t \in Ids, Begin(t) \/ Handle(t) \/ Raise(t) \/ Dies(t) \/ Rerun(t)
        PROVE  IInv'
    BY <1>1, BeginKeeps, LeavingKeeps, RerunKeeps, PlanKeeps, HandlerKeeps, DemandKeeps,
       RequestKeeps DEF Handle
  <1>2. ASSUME NEW k \in Keys, Decide(k)
        PROVE  IInv'
    BY <1>2, DecideKeeps
  <1>3. ASSUME Edit
        PROVE  IInv'
    BY <1>3, EditKeeps
  <1>4. CASE UNCHANGED vars
    BY <1>4 DEF vars, IInv, Tables, Planned, Linked, Held, Owned, Asked, HeldIsClean, RowsAreClean,
       OutboundIsClean, Ids
  <1> QED BY <1>1, <1>2, <1>3, <1>4 DEF Next

(* Every reachable state of the studio keeps IInv: what runner.py, the stage   *)
(* handlers and the resume handler insert, link, hold and release stays one    *)
(* consistent set of rows, for any tenants' budgets, tasks, actions and        *)
(* workers, whatever is retried and whoever dies.                              *)
THEOREM StudioInvariant == Spec => []IInv
  <1> QED BY InitHolds, NextKeeps, PTL DEF Spec

LEMMA InvariantIsEnough == IInv => Inv
  <1> SUFFICES ASSUME IInv PROVE Inv
    OBVIOUS
  <1>1. Tables /\ Linked /\ Owned
    BY DEF IInv
  <1>2. DOMAIN tasks = Ids /\ \A t \in Ids : tasks[t] \in TaskRow /\ tasks[t].after \subseteq Ids
    BY <1>1, RowIsTyped DEF Linked, Tables, Ids
  <1>3. tasks \in Seq([kind : TaskKinds, slot : 0 .. Slots, after : SUBSET Ids,
                       state : TaskStates, action : Keys \cup {<<>>}, pc : Points,
                       version : Docs, content : Artifact])
    <2> DEFINE R == [kind : TaskKinds, slot : 0 .. Slots, after : SUBSET Ids,
                     state : TaskStates, action : Keys \cup {<<>>}, pc : Points,
                     version : Docs, content : Artifact]
    <2>1. \A row \in TaskRow : row.after \subseteq Ids => row \in R
      BY DEF TaskRow
    <2> HIDE DEF R
    <2>2. Len(tasks) \in Nat /\ tasks = [t \in 1 .. Len(tasks) |-> tasks[t]]
      BY <1>1 DEF Tables
    <2>3. \A t \in 1 .. Len(tasks) : tasks[t] \in R
      BY <1>2, <2>1 DEF Ids
    <2>4. tasks \in Seq(R)
      BY <2>2, <2>3
    <2> QED BY <2>4 DEF R
  <1>4. actions \in [Keys -> [state : ActionStates, owner : Ids \cup {0}, content : Artifact]]
    <2>1. ASSUME NEW k \in Keys
          PROVE  actions[k] \in [state : ActionStates, owner : Ids \cup {0}, content : Artifact]
      BY <1>1 DEF Tables, ActionRow, Owned
    <2> QED BY <1>1, <2>1 DEF Tables
  <1>5. TypeOK
    BY <1>1, <1>3, <1>4 DEF TypeOK, Tables, TaskStates, Points, ActionStates
  <1> QED BY <1>5 DEF IInv, Inv

(* A run's tables are typed, and whatever is edited, re-run or crashed in      *)
(* between, no post, no email and no frame comes from a flagged artifact.      *)
THEOREM StudioKeepsInv == Spec => []Inv
  BY StudioInvariant, InvariantIsEnough, PTL

-----------------------------------------------------------------------------
(* The pack fans out once. *)

Fanned ==
    /\ \A t, u \in Ids : tasks[t].kind = "publish" /\ tasks[u].kind = "publish"
                            /\ tasks[t].slot = tasks[u].slot => t = u
    /\ \A t, u \in Ids : tasks[t].kind = "send_email" /\ tasks[u].kind = "send_email" => t = u
    /\ Has("posts") =>
         /\ \A n \in 1 .. Newest("posts").posts :
               \E t \in Ids : tasks[t].kind = "publish" /\ tasks[t].slot = n
         /\ \E t \in Ids : tasks[t].kind = "send_email"

LEMMA FanStays ==
    ASSUME Fanned, NEW t \in Ids, Grows(t), artifacts'["posts"] = artifacts["posts"],
           \A u \in Ids' \ Ids : tasks'[u].kind \notin Outreach
    PROVE  Fanned'
  <1>1. \A u \in Ids : u \in Ids' /\ tasks'[u].kind = tasks[u].kind
                        /\ tasks'[u].slot = tasks[u].slot
    BY DEF Grows, Kept
  <1>2. \A u \in Ids' : tasks'[u].kind \in {"publish", "send_email"} => u \in Ids
    BY DEF Outreach
  <1>3. ASSUME NEW u \in Ids', NEW w \in Ids',
               \/ /\ tasks'[u].kind = "publish" /\ tasks'[w].kind = "publish"
                  /\ tasks'[u].slot = tasks'[w].slot
               \/ tasks'[u].kind = "send_email" /\ tasks'[w].kind = "send_email"
        PROVE  u = w
    BY <1>1, <1>2, <1>3 DEF Fanned
  <1>4. ASSUME Has("posts")'
        PROVE  /\ \A n \in 1 .. Newest("posts")'.posts :
                     \E u \in Ids' : tasks'[u].kind = "publish" /\ tasks'[u].slot = n
               /\ \E u \in Ids' : tasks'[u].kind = "send_email"
    <2>1. Has("posts") /\ Newest("posts")' = Newest("posts")
      BY <1>4 DEF Has, Newest
    <2>2. /\ \A n \in 1 .. Newest("posts").posts :
                \E u \in Ids : tasks[u].kind = "publish" /\ tasks[u].slot = n
          /\ \E u \in Ids : tasks[u].kind = "send_email"
      BY <2>1 DEF Fanned
    <2> QED BY <1>1, <2>1, <2>2
  <1> QED BY <1>3, <1>4 DEF Fanned

LEMMA FanGrows ==
    ASSUME IInv, Fanned, NEW t \in Ids, HandleDemand(t)
    PROVE  Fanned'
  <1>0. Tables
    BY DEF IInv
  <1>1. CASE Moves(t) /\ UNCHANGED artifacts
    <2>1. Grows(t) /\ Ids' = Ids
      BY <1>1, MovesGrows DEF Moves
    <2> QED BY <1>1, <2>1, FanStays
  <1>2. CASE ~ (Moves(t) /\ UNCHANGED artifacts)
    <2>1. Grows(t)
      BY <1>0, <1>2, DemandMoves
    <2>2. \A u \in Ids' \ Ids :
             /\ tasks'[u].kind = "publish" =>
                  \A w \in OfKind("publish") : tasks[w].slot # tasks'[u].slot
             /\ tasks'[u].kind = "send_email" => OfKind("send_email") = {}
      BY <1>0, <1>2, DemandMoves
    <2>3. \A u, w \in Ids' \ Ids :
             /\ tasks'[u].kind = tasks'[w].kind /\ tasks'[u].slot = tasks'[w].slot => u = w
             /\ tasks'[u].kind = "send_email" /\ tasks'[w].kind = "send_email" => u = w
      BY <1>0, <1>2, DemandMoves
    <2>4. \A n \in 1 .. Newest("posts")'.posts :
             \E u \in Ids' : tasks'[u].kind = "publish" /\ tasks'[u].slot = n
      BY <1>0, <1>2, DemandMoves
    <2>5. \E u \in Ids' : tasks'[u].kind = "send_email"
      BY <1>0, <1>2, DemandMoves
    <2>6. \A u \in Ids : u \in Ids' /\ tasks'[u].kind = tasks[u].kind
                          /\ tasks'[u].slot = tasks[u].slot
      BY <2>1 DEF Grows, Kept
    <2>7. ASSUME NEW u \in Ids', NEW w \in Ids',
                 \/ /\ tasks'[u].kind = "publish" /\ tasks'[w].kind = "publish"
                    /\ tasks'[u].slot = tasks'[w].slot
                 \/ tasks'[u].kind = "send_email" /\ tasks'[w].kind = "send_email"
          PROVE  u = w
      <3>1. CASE u \in Ids /\ w \in Ids
        BY <2>6, <2>7, <3>1 DEF Fanned
      <3>2. CASE u \in Ids /\ w \notin Ids
        BY <2>2, <2>6, <2>7, <3>2 DEF OfKind
      <3>3. CASE u \notin Ids /\ w \in Ids
        BY <2>2, <2>6, <2>7, <3>3 DEF OfKind
      <3>4. CASE u \notin Ids /\ w \notin Ids
        BY <2>3, <2>7, <3>4
      <3> QED BY <3>1, <3>2, <3>3, <3>4
    <2> QED BY <2>4, <2>5, <2>7 DEF Fanned
  <1> QED BY <1>1, <1>2

LEMMA FanIsKept ==
    ASSUME IInv, Fanned, [Next]_vars
    PROVE  Fanned'
  <1>0. Tables /\ Held /\ Owned
    BY DEF IInv
  <1>1. ASSUME NEW t \in Ids, Moves(t), artifacts'["posts"] = artifacts["posts"]
        PROVE  Fanned'
    <2>1. Grows(t) /\ Ids' = Ids
      BY <1>1, MovesGrows DEF Moves
    <2> QED BY <1>1, <2>1, FanStays
  <1>2. ASSUME NEW t \in Ids, Begin(t) PROVE Fanned'
    BY <1>0, <1>1, <1>2, BeginMoves
  <1>3. ASSUME NEW t \in Ids, HandlePlan(t) PROVE Fanned'
    <2>1. Grows(t) /\ UNCHANGED artifacts
      BY <1>0, <1>3, PlanGrows
    <2>2. \A u \in Ids' \ Ids : tasks'[u].kind \in Stages
      BY <1>0, <1>3, PlanGrows
    <2>3. \A u \in Ids' \ Ids : tasks'[u].kind \notin Outreach
      BY <2>2 DEF Stages, Outreach
    <2> QED BY <2>1, <2>3, FanStays
  <1>4. ASSUME NEW t \in Ids, HandleCopy(t) PROVE Fanned'
    BY <1>0, <1>1, <1>4, CopyMoves
  <1>5. ASSUME NEW t \in Ids, HandleDemand(t) PROVE Fanned'
    BY <1>5, FanGrows
  <1>6. ASSUME NEW t \in Ids, HandleVideo(t) PROVE Fanned'
    BY <1>0, <1>1, <1>6, VideoMoves
  <1>7. ASSUME NEW t \in Ids, BuildSite(t) PROVE Fanned'
    BY <1>0, <1>1, <1>7, BuildMoves
  <1>8. ASSUME NEW t \in Ids, Request(t) PROVE Fanned'
    BY <1>0, <1>1, <1>8, RequestMoves
  <1>9. ASSUME NEW t \in Ids, Raise(t) PROVE Fanned'
    BY <1>0, <1>1, <1>9, RaiseMoves
  <1>10. ASSUME NEW t \in Ids, Dies(t) PROVE Fanned'
    BY <1>0, <1>1, <1>10, DiesMoves
  <1>11. ASSUME NEW t \in Ids, Rerun(t) PROVE Fanned'
    BY <1>0, <1>1, <1>11, RerunMoves
  <1>12. ASSUME NEW k \in Keys, Decide(k) PROVE Fanned'
    <2>1. /\ Moves(actions[k].owner) /\ Asked(k) /\ UNCHANGED artifacts
      BY <1>0, <1>12, DecideMoves
    <2>2. actions[k].owner \in Ids
      BY <2>1 DEF Asked
    <2> QED BY <1>1, <2>1, <2>2
  <1>13. CASE Edit
    BY <1>13 DEF Edit, Fanned, Has, Newest, Ids
  <1>14. CASE UNCHANGED vars
    BY <1>14 DEF vars, Fanned, Has, Newest, Ids
  <1> QED BY <1>2, <1>3, <1>4, <1>5, <1>6, <1>7, <1>8, <1>9, <1>10, <1>11, <1>12, <1>13, <1>14
          DEF Next, Handle

(* However often the pack is written, and whatever is re-run, every post of the *)
(* newest pack has exactly one task, and the launch email has one.              *)
THEOREM PackFansOutOnce == Spec => []FannedOutOnce
  <1>1. Init => Fanned
    BY DEF Init, Fanned, Has, Task, Ids, ArtifactKinds, Deliverables
  <1>2. ASSUME Fanned PROVE FannedOutOnce
    <2>1. ASSUME NEW n \in 1 .. Newest("posts").posts, Has("posts")
          PROVE  Cardinality({t \in OfKind("publish") : tasks[t].slot = n}) = 1
      <3>1. PICK t \in Ids : tasks[t].kind = "publish" /\ tasks[t].slot = n
        BY <1>2, <2>1 DEF Fanned
      <3>2. {u \in OfKind("publish") : tasks[u].slot = n} = {t}
        BY <1>2, <3>1 DEF Fanned, OfKind
      <3> QED BY <3>2, FS_Singleton
    <2>2. ASSUME Has("posts")
          PROVE  Cardinality(OfKind("send_email")) = 1
      <3>1. PICK t \in Ids : tasks[t].kind = "send_email"
        BY <1>2, <2>2 DEF Fanned
      <3>2. OfKind("send_email") = {t}
        BY <1>2, <3>1 DEF Fanned, OfKind
      <3> QED BY <3>2, FS_Singleton
    <2> QED BY <2>1, <2>2 DEF FannedOutOnce
  <1>3. IInv /\ Fanned /\ [Next]_vars => Fanned'
    BY FanIsKept
  <1>4. Fanned => FannedOutOnce
    BY <1>2
  <1> QED BY <1>1, <1>3, <1>4, StudioInvariant, PTL DEF Spec

-----------------------------------------------------------------------------
(* Unless the plan is re-run, every stage has one task, a parked task waits for *)
(* its own action, and outreach comes behind the deploy.                         *)

PlannedOnce ==
    /\ tasks[1].state \in {"pending", "running"} => Ids = {1}
    /\ \A t, u \in Ids : tasks[t].kind \in Stages /\ tasks[t].kind = tasks[u].kind => t = u

Waits ==
    \A t \in Ids : tasks[t].state = "awaiting_approval" =>
        /\ tasks[t].action \in Keys
        /\ actions[tasks[t].action].state = "awaiting_approval"
        /\ actions[tasks[t].action].owner = t

Live == \E v \in Docs : actions[<<"deploy", v, 0>>].state = "succeeded"
Behind == OfKind("site") # {} => Live

Launched ==
    /\ \A t \in Ids : tasks[t].kind = "site" /\ tasks[t].state = "done" => Live
    /\ \A t \in Ids : tasks[t].kind \in Outreach => tasks[t].after = OfKind("site")
    /\ \A t \in Ids : tasks[t].kind \in Outreach /\ tasks[t].pc = "working" => Behind
    /\ \A k \in Keys : k[1] \in Outreach /\ actions[k].state # "absent" => Behind
    /\ \A o \in outbound : o.key[1] \in Outreach => actions[o.key].state # "absent"

LEMMA OnceStays ==
    ASSUME IInv, PlannedOnce, NEW t \in Ids, Moves(t),
           t = 1 /\ tasks'[1].state \in {"pending", "running"}
               => tasks[1].state \in {"pending", "running"}
    PROVE  PlannedOnce'
  <1>1. Ids' = Ids /\ \A u \in Ids : tasks'[u].kind = tasks[u].kind
    BY DEF Moves, Kept
  <1>2. tasks'[1].state \in {"pending", "running"} => tasks[1].state \in {"pending", "running"}
    <2>1. CASE t = 1
      BY <2>1
    <2>2. CASE t # 1
      <3>1. tasks'[1] = tasks[1]
        BY <2>2, FirstTask DEF IInv, Moves
      <3> QED BY <3>1
    <2> QED BY <2>1, <2>2
  <1>3. tasks'[1].state \in {"pending", "running"} => Ids' = {1}
    BY <1>1, <1>2 DEF PlannedOnce
  <1>4. \A u, w \in Ids' : tasks'[u].kind \in Stages /\ tasks'[u].kind = tasks'[w].kind => u = w
    BY <1>1 DEF PlannedOnce
  <1> QED BY <1>3, <1>4 DEF PlannedOnce

(* A stage in its handler finds the plan done, or is the plan. *)
LEMMA PlanIsAlone ==
    ASSUME IInv, PlannedOnce, NEW t \in Ids, tasks[t].kind = "plan", tasks[t].pc = "working"
    PROVE  t = 1 /\ Ids = {1}
  BY DEF IInv, Planned, PlannedOnce

LEMMA OnceIsKept ==
    ASSUME "plan" \notin Rerunnable, IInv, PlannedOnce, [Next]_vars
    PROVE  PlannedOnce'
  <1>0. Tables /\ Held /\ Owned
    BY DEF IInv
  <1>1. ASSUME NEW t \in Ids, Moves(t), t # 1
        PROVE  PlannedOnce'
    BY <1>1, OnceStays
  <1>2. ASSUME NEW t \in Ids, tasks[t].kind # "plan"
        PROVE  t # 1
    BY <1>2 DEF IInv, Planned
  <1>3. ASSUME NEW t \in Ids, Begin(t) PROVE PlannedOnce'
    <2>1. Moves(t) /\ tasks[t].state = "pending"
      BY <1>0, <1>3, BeginMoves
    <2> QED BY <2>1, OnceStays
  <1>4. ASSUME NEW t \in Ids, HandlePlan(t) PROVE PlannedOnce'
    <2>1. /\ Grows(t) /\ tasks[t].kind = "plan" /\ tasks[t].pc = "working"
          /\ tasks'[t].state = "done"
      BY <1>0, <1>4, PlanGrows
    <2>2. \A u \in Ids' \ Ids : tasks'[u].kind \in Stages
      BY <1>0, <1>4, PlanGrows
    <2>3. \A u, w \in Ids' \ Ids : tasks'[u].kind = tasks'[w].kind => u = w
      BY <1>0, <1>4, PlanGrows
    <2>4. t = 1 /\ Ids = {1}
      BY <2>1, PlanIsAlone
    <2>5. tasks'[1].kind = "plan"
      BY <2>1, <2>4 DEF Grows, Kept
    <2>6. tasks'[1].state = "done"
      BY <2>1, <2>4
    <2>7. \A u, w \in Ids' : tasks'[u].kind \in Stages /\ tasks'[u].kind = tasks'[w].kind => u = w
      <3>1. \A u \in Ids' : tasks'[u].kind \in Stages => u \in Ids' \ Ids
        BY <2>4, <2>5 DEF Stages
      <3> QED BY <2>3, <3>1
    <2> QED BY <2>6, <2>7 DEF PlannedOnce
  <1>5. ASSUME NEW t \in Ids, HandleDemand(t) PROVE PlannedOnce'
    <2>1. tasks[t].kind = "demand"
      BY <1>0, <1>5, DemandMoves
    <2>2. t # 1
      BY <1>2, <2>1
    <2>3. CASE Moves(t) /\ UNCHANGED artifacts
      BY <1>1, <2>2, <2>3
    <2>4. CASE ~ (Moves(t) /\ UNCHANGED artifacts)
      <3>1. Grows(t)
        BY <1>0, <1>5, <2>4, DemandMoves
      <3>2. \A u \in Ids' \ Ids : tasks'[u].kind \in {"video"} \cup Outreach
        BY <1>0, <1>5, <2>4, DemandMoves
      <3>3. \A u \in Ids' \ Ids : tasks'[u].kind \notin Stages
        BY <3>2 DEF Stages, Outreach
      <3>4. tasks'[1] = tasks[1]
        BY <1>0, <2>2, <3>1, FirstTask DEF Grows
      <3>5. tasks'[1].state \notin {"pending", "running"}
        BY <2>2, <3>4 DEF PlannedOnce
      <3>6. \A u \in Ids : tasks'[u].kind = tasks[u].kind
        BY <3>1 DEF Grows, Kept
      <3>7. \A u, w \in Ids' : tasks'[u].kind \in Stages /\ tasks'[u].kind = tasks'[w].kind => u = w
        BY <3>3, <3>6 DEF PlannedOnce
      <3> QED BY <3>5, <3>7 DEF PlannedOnce
    <2> QED BY <2>3, <2>4
  <1>6. ASSUME NEW t \in Ids, HandleCopy(t) PROVE PlannedOnce'
    <2>1. Moves(t) /\ tasks[t].kind # "plan"
      BY <1>0, <1>6, CopyMoves
    <2> QED BY <1>1, <1>2, <2>1
  <1>7. ASSUME NEW t \in Ids, HandleVideo(t) PROVE PlannedOnce'
    <2>1. Moves(t) /\ tasks[t].kind # "plan"
      BY <1>0, <1>7, VideoMoves
    <2> QED BY <1>1, <1>2, <2>1
  <1>8. ASSUME NEW t \in Ids, BuildSite(t) PROVE PlannedOnce'
    <2>1. Moves(t) /\ tasks[t].kind # "plan"
      BY <1>0, <1>8, BuildMoves
    <2> QED BY <1>1, <1>2, <2>1
  <1>9. ASSUME NEW t \in Ids, Request(t) PROVE PlannedOnce'
    <2>1. Moves(t) /\ tasks[t].kind \in Askers
      BY <1>0, <1>9, RequestMoves
    <2>2. tasks[t].kind # "plan"
      BY <2>1 DEF Askers, Outreach
    <2> QED BY <1>1, <1>2, <2>1, <2>2
  <1>10. ASSUME NEW t \in Ids, Raise(t) PROVE PlannedOnce'
    <2>1. Moves(t) /\ tasks'[t].state = "failed"
      BY <1>0, <1>10, RaiseMoves
    <2> QED BY <2>1, OnceStays
  <1>11. ASSUME NEW t \in Ids, Dies(t) PROVE PlannedOnce'
    <2>1. Moves(t) /\ tasks[t].pc = "built"
      BY <1>0, <1>11, DiesMoves
    <2>2. tasks[t].kind # "plan"
      BY <1>0, <2>1 DEF Held
    <2> QED BY <1>1, <1>2, <2>1, <2>2
  <1>12. ASSUME NEW t \in Ids, Rerun(t) PROVE PlannedOnce'
    <2>1. Moves(t) /\ tasks[t].kind \in Rerunnable
      BY <1>0, <1>12, RerunMoves
    <2> QED BY <1>1, <1>2, <2>1
  <1>13. ASSUME NEW k \in Keys, Decide(k) PROVE PlannedOnce'
    <2>1. Moves(actions[k].owner) /\ Asked(k)
      BY <1>0, <1>13, DecideMoves
    <2>2. actions[k].owner \in Ids /\ tasks[actions[k].owner].kind # "plan"
      BY <2>1 DEF Asked, Askers, Outreach
    <2> QED BY <1>1, <1>2, <2>1, <2>2
  <1>14. CASE Edit \/ UNCHANGED vars
    BY <1>14 DEF Edit, vars, PlannedOnce, Ids
  <1> QED BY <1>3, <1>4, <1>5, <1>6, <1>7, <1>8, <1>9, <1>10, <1>11, <1>12, <1>13, <1>14
          DEF Next, Handle

(* One task asks under one key. *)
LEMMA OneAsker ==
    ASSUME IInv, Fanned, PlannedOnce, NEW t \in Ids, NEW u \in Ids, NEW v \in Docs, NEW w \in Docs,
           tasks[t].kind \in Askers, tasks[u].kind \in Askers,
           Key(tasks[t], v) = Key(tasks[u], w)
    PROVE  t = u
  <1>1. PICK a, b : a = tasks[t] /\ b = tasks[u]
    OBVIOUS
  <1>2. /\ a \in TaskRow /\ a.kind \in Askers
        /\ a.kind = "publish" => a.slot \in 1 .. Slots
        /\ b \in TaskRow /\ b.kind \in Askers
        /\ b.kind = "publish" => b.slot \in 1 .. Slots
    BY <1>1, RowIsTyped DEF IInv, Held
  <1>3. /\ a.kind = "site" => Key(a, v) = <<"deploy", v, 0>>
        /\ a.kind = "publish" => Key(a, v) = <<"publish", v, a.slot>>
        /\ a.kind = "send_email" => Key(a, v) = <<"send_email", 0, 0>>
        /\ a.kind = "money" => Key(a, v) = <<"arm", 0, 0>>
    BY <1>2, KeyIs
  <1>4. /\ b.kind = "site" => Key(b, w) = <<"deploy", w, 0>>
        /\ b.kind = "publish" => Key(b, w) = <<"publish", w, b.slot>>
        /\ b.kind = "send_email" => Key(b, w) = <<"send_email", 0, 0>>
        /\ b.kind = "money" => Key(b, w) = <<"arm", 0, 0>>
    BY <1>2, KeyIs
  <1>5. Key(a, v) = Key(b, w)
    BY <1>1
  <1>6. /\ a.kind \in {"site", "money", "publish", "send_email"}
        /\ b.kind \in {"site", "money", "publish", "send_email"}
    BY <1>2 DEF Askers, Outreach
  <1>7. a.kind = b.kind
    BY <1>3, <1>4, <1>5, <1>6
  <1>0. /\ \A x, y \in Ids : tasks[x].kind = "publish" /\ tasks[y].kind = "publish"
                               /\ tasks[x].slot = tasks[y].slot => x = y
        /\ \A x, y \in Ids : tasks[x].kind = "send_email" /\ tasks[y].kind = "send_email"
                               => x = y
    BY DEF Fanned
  <1>8. CASE a.kind \in {"site", "money"}
    BY <1>1, <1>7, <1>8 DEF PlannedOnce, Stages
  <1>9. CASE a.kind = "publish"
    <2>1. a.slot = b.slot
      BY <1>3, <1>4, <1>5, <1>7, <1>9
    <2> QED BY <1>0, <1>1, <1>7, <1>9, <2>1
  <1>10. CASE a.kind = "send_email"
    BY <1>0, <1>1, <1>7, <1>10
  <1> QED BY <1>6, <1>8, <1>9, <1>10

(* What a step that asks and decides nothing leaves waiting. *)
LEMMA WaitStays ==
    ASSUME Waits, NEW t \in Ids, Grows(t), UNCHANGED actions,
           tasks'[t].state = "awaiting_approval" =>
               tasks[t].state = "awaiting_approval" /\ tasks'[t].action = tasks[t].action
    PROVE  Waits'
  <1>1. ASSUME NEW u \in Ids', tasks'[u].state = "awaiting_approval"
        PROVE  /\ tasks'[u].action \in Keys
               /\ actions'[tasks'[u].action].state = "awaiting_approval"
               /\ actions'[tasks'[u].action].owner = u
    <2>1. u \in Ids
      BY <1>1 DEF Grows, Fresh
    <2>2. tasks[u].state = "awaiting_approval" /\ tasks'[u].action = tasks[u].action
      BY <1>1, <2>1 DEF Grows
    <2> QED BY <2>1, <2>2 DEF Waits
  <1> QED BY <1>1 DEF Waits

LEMMA RequestWaits ==
    ASSUME IInv, Fanned, PlannedOnce, Waits, NEW t \in Ids, Request(t)
    PROVE  Waits'
  <1>0. Tables /\ Held /\ Owned
    BY DEF IInv
  <1>1. Moves(t) /\ Grows(t) /\ Ids' = Ids /\ tasks[t].kind \in Askers
    BY <1>0, RequestMoves, MovesGrows DEF Moves
  <1>2. PICK k \in Keys :
          /\ k = Key(tasks[t], tasks[t].version)
          /\ \/ tasks'[t].state \in {"failed", "done"} /\ UNCHANGED actions
             \/ /\ actions[k].state = "absent"
                /\ actions' = [actions EXCEPT ![k] =
                     [state |-> "awaiting_approval", owner |-> t, content |-> tasks[t].content]]
                /\ tasks'[t].state = "awaiting_approval" /\ tasks'[t].action = k
             \/ /\ actions[k].state = "awaiting_approval" /\ UNCHANGED actions
                /\ tasks'[t].state = "awaiting_approval" /\ tasks'[t].action = k
    BY <1>0, RequestMoves
  <1>3. CASE tasks'[t].state \in {"failed", "done"} /\ UNCHANGED actions
    BY <1>1, <1>3, WaitStays
  <1>4. \A u \in Ids : u # t => tasks'[u] = tasks[u]
    BY <1>1 DEF Moves
  <1>5. CASE /\ actions[k].state = "absent"
             /\ actions' = [actions EXCEPT ![k] =
                  [state |-> "awaiting_approval", owner |-> t, content |-> tasks[t].content]]
             /\ tasks'[t].state = "awaiting_approval" /\ tasks'[t].action = k
    <2>1. /\ actions'[k].state = "awaiting_approval" /\ actions'[k].owner = t
          /\ \A l \in Keys : l # k => actions'[l] = actions[l]
      BY <1>0, <1>5 DEF Tables
    <2>2. ASSUME NEW u \in Ids, tasks'[u].state = "awaiting_approval"
          PROVE  /\ tasks'[u].action \in Keys
                 /\ actions'[tasks'[u].action].state = "awaiting_approval"
                 /\ actions'[tasks'[u].action].owner = u
      <3>1. CASE u = t
        BY <1>5, <2>1, <3>1
      <3>2. CASE u # t
        <4>1. /\ tasks'[u] = tasks[u] /\ tasks[u].action \in Keys
              /\ actions[tasks[u].action].state = "awaiting_approval"
              /\ actions[tasks[u].action].owner = u
          BY <1>4, <2>2, <3>2 DEF Waits
        <4>2. tasks[u].action # k
          BY <1>5, <4>1
        <4> QED BY <2>1, <4>1, <4>2
      <3> QED BY <3>1, <3>2
    <2> QED BY <1>1, <2>2 DEF Waits
  <1>6. CASE /\ actions[k].state = "awaiting_approval" /\ UNCHANGED actions
             /\ tasks'[t].state = "awaiting_approval" /\ tasks'[t].action = k
    <2>1. actions[k].owner = t
      <3>1. Asked(k)
        BY <1>0, <1>6 DEF Owned
      <3>2. PICK u \in Ids, v \in Docs :
              u = actions[k].owner /\ tasks[u].kind \in Askers /\ k = Key(tasks[u], v)
        BY <3>1 DEF Asked
      <3>3. tasks[t].version \in Docs
        BY <1>0, RowIsTyped DEF TaskRow
      <3>4. PICK w \in Docs : w = tasks[t].version
        BY <3>3
      <3>5. Key(tasks[t], w) = Key(tasks[u], v)
        BY <1>2, <3>2, <3>4
      <3>6. t = u
        BY <1>1, <3>2, <3>5, OneAsker
      <3> QED BY <3>2, <3>6
    <2>2. ASSUME NEW u \in Ids, tasks'[u].state = "awaiting_approval"
          PROVE  /\ tasks'[u].action \in Keys
                 /\ actions'[tasks'[u].action].state = "awaiting_approval"
                 /\ actions'[tasks'[u].action].owner = u
      <3>1. CASE u = t
        BY <1>6, <2>1, <3>1
      <3>2. CASE u # t
        BY <1>4, <1>6, <2>2, <3>2 DEF Waits
      <3> QED BY <3>1, <3>2
    <2> QED BY <1>1, <2>2 DEF Waits
  <1> QED BY <1>2, <1>3, <1>5, <1>6

LEMMA DecideWaits ==
    ASSUME IInv, Waits, NEW k \in Keys, Decide(k)
    PROVE  Waits'
  <1>0. Tables /\ Owned
    BY DEF IInv
  <1>1. PICK t : t = actions[k].owner
    OBVIOUS
  <1>2. Moves(t) /\ Asked(k) /\ tasks'[t].state \in {"done", "failed"}
    BY <1>0, <1>1, DecideMoves
  <1>3. PICK state \in {"succeeded", "failed"} : actions' = [actions EXCEPT ![k].state = state]
    BY <1>0, DecideMoves
  <1>4. \A l \in Keys : l # k => actions'[l] = actions[l]
    BY <1>0, <1>3 DEF Tables
  <1>5. Ids' = Ids /\ \A u \in Ids : u # t => tasks'[u] = tasks[u]
    BY <1>2 DEF Moves
  <1>6. ASSUME NEW u \in Ids, tasks'[u].state = "awaiting_approval"
        PROVE  /\ tasks'[u].action \in Keys
               /\ actions'[tasks'[u].action].state = "awaiting_approval"
               /\ actions'[tasks'[u].action].owner = u
    <2>1. u # t
      BY <1>2, <1>6
    <2>2. /\ tasks'[u] = tasks[u] /\ tasks[u].action \in Keys
          /\ actions[tasks[u].action].state = "awaiting_approval"
          /\ actions[tasks[u].action].owner = u
      BY <1>5, <1>6, <2>1 DEF Waits
    <2>3. tasks[u].action # k
      BY <1>1, <2>1, <2>2
    <2> QED BY <1>4, <2>2, <2>3
  <1> QED BY <1>5, <1>6 DEF Waits

LEMMA WaitsIsKept ==
    ASSUME IInv, Fanned, PlannedOnce, Waits, [Next]_vars
    PROVE  Waits'
  <1>0. Tables /\ Held /\ Owned
    BY DEF IInv
  <1>1. ASSUME NEW t \in Ids, Moves(t), UNCHANGED actions,
               tasks'[t].state = "awaiting_approval" =>
                   tasks[t].state = "awaiting_approval" /\ tasks'[t].action = tasks[t].action
        PROVE  Waits'
    BY <1>1, MovesGrows, WaitStays
  <1>2. ASSUME NEW t \in Ids, Begin(t) PROVE Waits'
    <2>1. Moves(t) /\ UNCHANGED actions /\ tasks'[t].state \in {"running", "failed"}
      BY <1>0, <1>2, BeginMoves
    <2> QED BY <1>1, <2>1
  <1>3. ASSUME NEW t \in Ids, HandlePlan(t) PROVE Waits'
    <2>1. Grows(t) /\ UNCHANGED actions /\ tasks'[t].state = "done"
      BY <1>0, <1>3, PlanGrows
    <2> QED BY <2>1, WaitStays
  <1>4. ASSUME NEW t \in Ids, HandleDemand(t) PROVE Waits'
    <2>1. Grows(t) /\ UNCHANGED actions /\ tasks'[t].state \in {"done", "failed"}
      BY <1>0, <1>4, DemandMoves, MovesGrows
    <2> QED BY <2>1, WaitStays
  <1>5. ASSUME NEW t \in Ids, HandleCopy(t) PROVE Waits'
    <2>1. Moves(t) /\ UNCHANGED actions /\ tasks'[t].state = "done"
      BY <1>0, <1>5, CopyMoves
    <2> QED BY <1>1, <2>1
  <1>6. ASSUME NEW t \in Ids, HandleVideo(t) PROVE Waits'
    <2>1. Moves(t) /\ UNCHANGED actions /\ tasks'[t].state = "done"
      BY <1>0, <1>6, VideoMoves
    <2> QED BY <1>1, <2>1
  <1>7. ASSUME NEW t \in Ids, BuildSite(t) PROVE Waits'
    <2>1. /\ Moves(t) /\ UNCHANGED actions /\ tasks'[t].state = tasks[t].state
          /\ tasks'[t].action = tasks[t].action
      BY <1>0, <1>7, BuildMoves
    <2> QED BY <1>1, <2>1
  <1>8. ASSUME NEW t \in Ids, Request(t) PROVE Waits'
    BY <1>8, RequestWaits
  <1>9. ASSUME NEW t \in Ids, Raise(t) PROVE Waits'
    <2>1. Moves(t) /\ UNCHANGED actions /\ tasks'[t].state = "failed"
      BY <1>0, <1>9, RaiseMoves
    <2> QED BY <1>1, <2>1
  <1>10. ASSUME NEW t \in Ids, Dies(t) PROVE Waits'
    <2>1. Moves(t) /\ UNCHANGED actions /\ tasks'[t].state = "pending"
      BY <1>0, <1>10, DiesMoves
    <2> QED BY <1>1, <2>1
  <1>11. ASSUME NEW t \in Ids, Rerun(t) PROVE Waits'
    <2>1. Moves(t) /\ UNCHANGED actions /\ tasks'[t].state = "pending"
      BY <1>0, <1>11, RerunMoves
    <2> QED BY <1>1, <2>1
  <1>12. ASSUME NEW k \in Keys, Decide(k) PROVE Waits'
    BY <1>12, DecideWaits
  <1>13. CASE Edit \/ UNCHANGED vars
    BY <1>13 DEF Edit, vars, Waits, Ids
  <1> QED BY <1>2, <1>3, <1>4, <1>5, <1>6, <1>7, <1>8, <1>9, <1>10, <1>11, <1>12, <1>13
          DEF Next, Handle

(* Without a second plan, a parked task waits for an action that waits for the *)
(* operator and that names this task.                                          *)
THEOREM ParkedTaskIsReleased ==
    ASSUME "plan" \notin Rerunnable
    PROVE  Spec => []ParkedIsReleased
  <1>1. Init => Fanned /\ PlannedOnce /\ Waits
    BY DEF Init, Fanned, PlannedOnce, Waits, Has, Task, Ids, ArtifactKinds, Deliverables, Stages
  <1>2. IInv /\ Fanned /\ PlannedOnce /\ Waits /\ [Next]_vars => (Fanned /\ PlannedOnce /\ Waits)'
    <2>1. ASSUME IInv, Fanned, PlannedOnce, Waits, [Next]_vars
          PROVE  Fanned' /\ PlannedOnce' /\ Waits'
      BY <2>1, FanIsKept, OnceIsKept, WaitsIsKept
    <2> QED BY <2>1
  <1>3. Waits => ParkedIsReleased
    BY DEF Waits, ParkedIsReleased
  <1> QED BY <1>1, <1>2, <1>3, StudioInvariant, PTL DEF Spec

(* A decision is final, and an action once asked for stays. *)
Final ==
    \A k \in Keys :
        /\ actions[k].state = "succeeded" => actions'[k].state = "succeeded"
        /\ actions[k].state # "absent" => actions'[k].state # "absent"

LEMMA LiveStays ==
    ASSUME Final, Live
    PROVE  Live'
  <1>1. PICK v \in Docs : actions[<<"deploy", v, 0>>].state = "succeeded"
    BY DEF Live
  <1>2. <<"deploy", v, 0>> \in Keys
    BY DEF Keys
  <1> QED BY <1>1, <1>2 DEF Final, Live

(* Enough for a step other than the plan's to keep a launch behind its deploy. *)
LEMMA LaunchStays ==
    ASSUME IInv, Launched, NEW t \in Ids, Grows(t), Final, tasks[t].kind # "plan",
           \A u \in Ids' \ Ids : /\ tasks'[u].kind # "site"
                                 /\ tasks'[u].kind \in Outreach => tasks'[u].after = OfKind("site"),
           tasks[t].kind = "site" /\ tasks'[t].state = "done" => tasks[t].state = "done" \/ Live',
           tasks[t].kind \in Outreach /\ tasks'[t].pc = "working"
               => tasks[t].pc = "working" \/ Behind,
           \A k \in Keys : k[1] \in Outreach /\ actions'[k].state # "absent"
               => actions[k].state # "absent" \/ Behind,
           \A o \in outbound' : o.key[1] \in Outreach
               => o \in outbound \/ (o.key \in Keys /\ actions'[o.key].state # "absent")
    PROVE  Launched'
  <1>1. ASSUME NEW u \in Ids
        PROVE  /\ u \in Ids' /\ tasks'[u].kind = tasks[u].kind
               /\ tasks'[u].after = tasks[u].after
               /\ u # t => tasks'[u] = tasks[u]
    BY DEF Grows, Kept
  <1>2. ASSUME NEW u \in Ids' \ Ids
        PROVE  tasks'[u].state = "pending" /\ tasks'[u].pc = "idle"
    BY DEF Grows, Fresh
  <1>3. OfKind("site")' = OfKind("site")
    <2>1. \A u \in Ids' : tasks'[u].kind = "site" <=> u \in Ids /\ tasks[u].kind = "site"
      BY <1>1
    <2> QED BY <1>1, <2>1 DEF OfKind
  <1>4. Behind => Behind'
    BY <1>3, LiveStays DEF Behind
  <1>5. ASSUME NEW u \in Ids', tasks'[u].kind = "site", tasks'[u].state = "done"
        PROVE  Live'
    <2>1. u \in Ids /\ tasks[u].kind = "site"
      BY <1>1, <1>5
    <2>2. tasks[u].state = "done" \/ Live'
      BY <1>1, <1>5, <2>1
    <2> QED BY <2>1, <2>2, LiveStays DEF Launched
  <1>6. ASSUME NEW u \in Ids', tasks'[u].kind \in Outreach
        PROVE  tasks'[u].after = OfKind("site")'
    <2>1. CASE u \in Ids
      BY <1>1, <1>3, <1>6, <2>1 DEF Launched
    <2>2. CASE u \notin Ids
      BY <1>3, <1>6, <2>2
    <2> QED BY <2>1, <2>2
  <1>7. ASSUME NEW u \in Ids', tasks'[u].kind \in Outreach, tasks'[u].pc = "working"
        PROVE  Behind'
    <2>1. u \in Ids
      BY <1>2, <1>7
    <2>2. tasks[u].kind \in Outreach /\ (tasks[u].pc = "working" \/ Behind)
      BY <1>1, <1>7, <2>1
    <2>3. Behind
      BY <2>1, <2>2 DEF Launched
    <2> QED BY <1>4, <2>3
  <1>8. ASSUME NEW k \in Keys, k[1] \in Outreach, actions'[k].state # "absent"
        PROVE  Behind'
    <2>1. Behind
      BY <1>8 DEF Launched
    <2> QED BY <1>4, <2>1
  <1>9. ASSUME NEW o \in outbound', o.key[1] \in Outreach
        PROVE  actions'[o.key].state # "absent"
    <2>1. CASE o \in outbound
      <3>1. o.key \in Keys
        <4>1. o.key \in Keys \cup {<<"video", 0, 0>>}
          BY <2>1 DEF IInv, Tables
        <4> QED BY <1>9, <4>1 DEF Outreach
      <3> QED BY <1>9, <2>1, <3>1 DEF Launched, Final
    <2>2. CASE o.key \in Keys /\ actions'[o.key].state # "absent"
      BY <2>2
    <2> QED BY <1>9, <2>1, <2>2
  <1> QED BY <1>5, <1>6, <1>7, <1>8, <1>9 DEF Launched

LEMMA NothingDecided ==
    ASSUME UNCHANGED actions
    PROVE  /\ Final
           /\ \A k \in Keys : actions'[k].state # "absent" => actions[k].state # "absent"
  BY DEF Final

LEMMA PlanLaunches ==
    ASSUME IInv, PlannedOnce, Launched, NEW t \in Ids, HandlePlan(t)
    PROVE  Launched'
  <1>0. Tables /\ Owned
    BY DEF IInv
  <1>1. /\ Grows(t) /\ tasks[t].kind = "plan" /\ tasks[t].pc = "working"
        /\ tasks'[t].state = "done" /\ UNCHANGED <<actions, outbound>>
    BY <1>0, PlanGrows
  <1>2. \A u \in Ids' \ Ids : tasks'[u].kind \in Stages
    BY <1>0, PlanGrows
  <1>3. t = 1 /\ Ids = {1}
    BY <1>1, PlanIsAlone
  <1>4. tasks'[1].kind = "plan"
    BY <1>1, <1>3 DEF Grows, Kept
  <1>5. ASSUME NEW u \in Ids'
        PROVE  /\ tasks'[u].kind \notin Outreach
               /\ tasks'[u].kind = "site" => tasks'[u].state = "pending"
    <2>1. CASE u \in Ids
      BY <1>3, <1>4, <2>1 DEF Outreach
    <2>2. CASE u \notin Ids
      BY <1>1, <1>2, <2>2 DEF Stages, Outreach, Grows, Fresh
    <2> QED BY <2>1, <2>2
  <1>6. ASSUME NEW k \in Keys
        PROVE  actions[k].state = "absent"
    <2>1. ~ Asked(k)
      BY <1>1, <1>3 DEF Asked, Askers, Outreach
    <2> QED BY <1>0, <2>1 DEF Owned
  <1>7. ASSUME NEW o \in outbound, o.key[1] \in Outreach
        PROVE  FALSE
    <2>1. o.key \in Keys \cup {<<"video", 0, 0>>}
      BY <1>0, <1>7 DEF Tables
    <2>2. o.key \in Keys
      BY <1>7, <2>1 DEF Outreach
    <2>3. actions[o.key].state # "absent"
      BY <1>7 DEF Launched
    <2> QED BY <1>6, <2>2, <2>3
  <1> QED BY <1>1, <1>5, <1>6, <1>7 DEF Launched

LEMMA RequestLaunches ==
    ASSUME IInv, Launched, NEW t \in Ids, Request(t)
    PROVE  Launched'
  <1>0. Tables /\ Held
    BY DEF IInv
  <1>1. /\ Moves(t) /\ Grows(t) /\ Ids' = Ids /\ tasks[t].kind \in Askers
        /\ tasks'[t].pc = "idle" /\ UNCHANGED outbound
        /\ tasks[t].pc = "built" \/ tasks[t].pc = "working"
    BY <1>0, RequestMoves, MovesGrows DEF Moves
  <1>2. PICK k \in Keys :
          /\ k = Key(tasks[t], tasks[t].version)
          /\ \/ tasks'[t].state # "done" /\ UNCHANGED actions
             \/ /\ actions[k].state = "absent" /\ tasks'[t].state # "done"
                /\ actions' = [actions EXCEPT ![k] =
                     [state |-> "awaiting_approval", owner |-> t, content |-> tasks[t].content]]
             \/ actions[k].state = "succeeded" /\ UNCHANGED actions
    BY <1>0, RequestMoves
  <1>3. PICK task, v : task = tasks[t] /\ v = tasks[t].version
    OBVIOUS
  <1>4. /\ task \in TaskRow /\ task.kind \in Askers /\ v \in Docs
        /\ task.kind = "publish" => task.slot \in 1 .. Slots
        /\ k = Key(task, v)
    BY <1>0, <1>1, <1>2, <1>3, RowIsTyped DEF Held, TaskRow
  <1>5. /\ task.kind = "site" => k = <<"deploy", v, 0>>
        /\ task.kind = "money" => k = <<"arm", 0, 0>>
    BY <1>4, KeyIs
  <1>6. Final
    <2>1. CASE UNCHANGED actions
      BY <2>1, NothingDecided
    <2>2. CASE /\ actions[k].state = "absent"
               /\ actions' = [actions EXCEPT ![k] =
                    [state |-> "awaiting_approval", owner |-> t, content |-> tasks[t].content]]
      BY <1>0, <2>2 DEF Final, Tables
    <2> QED BY <1>2, <2>1, <2>2
  <1>7. tasks[t].kind = "site" /\ tasks'[t].state = "done" => Live'
    <2>1. CASE tasks'[t].state # "done"
      BY <2>1
    <2>2. CASE actions[k].state = "succeeded" /\ UNCHANGED actions
      <3>1. ASSUME tasks[t].kind = "site"
            PROVE  Live
        BY <1>3, <1>4, <1>5, <2>2, <3>1 DEF Live
      <3> QED BY <1>6, <3>1, LiveStays
    <2> QED BY <1>2, <2>1, <2>2
  <1>8. ASSUME NEW l \in Keys, l[1] \in Outreach, actions'[l].state # "absent"
        PROVE  actions[l].state # "absent" \/ Behind
    <2>1. CASE l # k \/ UNCHANGED actions
      BY <1>0, <1>2, <1>8, <2>1 DEF Tables
    <2>2. CASE l = k
      <3>1. task.kind \in Outreach
        BY <1>4, <1>5, <1>8, <2>2 DEF Askers, Outreach
      <3>2. tasks[t].pc = "working"
        BY <1>0, <1>1, <1>3, <3>1 DEF Held, Outreach
      <3> QED BY <1>3, <3>1, <3>2 DEF Launched
    <2> QED BY <2>1, <2>2
  <1>9. tasks[t].kind # "plan"
    BY <1>1 DEF Askers, Outreach
  <1> QED BY <1>1, <1>6, <1>7, <1>8, <1>9, LaunchStays

LEMMA DecideLaunches ==
    ASSUME IInv, Launched, NEW k \in Keys, Decide(k)
    PROVE  Launched'
  <1>0. Tables /\ Held /\ Owned
    BY DEF IInv
  <1>1. PICK t : t = actions[k].owner
    OBVIOUS
  <1>2. /\ Moves(t) /\ Asked(k) /\ actions[k].state = "awaiting_approval"
        /\ tasks'[t].pc = tasks[t].pc
        /\ \/ actions' = [actions EXCEPT ![k].state = "succeeded"]
           \/ actions' = [actions EXCEPT ![k].state = "failed"] /\ tasks'[t].state = "failed"
    BY <1>0, <1>1, DecideMoves
  <1>3. \/ outbound' = outbound
        \/ outbound' = outbound \cup {[key |-> k, content |-> actions[k].content]}
    BY <1>0, DecideMoves
  <1>4. t \in Ids /\ tasks[t].kind # "plan" /\ tasks[t].kind \in Askers
    BY <1>1, <1>2 DEF Asked, Askers, Outreach
  <1>5. Grows(t) /\ Ids' = Ids
    BY <1>2, MovesGrows DEF Moves
  <1>6. /\ actions'[k].state \in {"succeeded", "failed"}
        /\ tasks'[t].state = "failed" \/ actions'[k].state = "succeeded"
        /\ \A l \in Keys : l # k => actions'[l] = actions[l]
    BY <1>0, <1>2 DEF Tables, ActionRow
  <1>7. Final
    BY <1>2, <1>6 DEF Final
  <1>8. tasks[t].kind = "site" /\ tasks'[t].state = "done" => Live'
    <2>1. PICK v \in Docs : k = Key(tasks[t], v)
      BY <1>1, <1>2 DEF Asked
    <2>2. PICK task : task = tasks[t]
      OBVIOUS
    <2>3. /\ task \in TaskRow /\ task.kind \in Askers
          /\ task.kind = "publish" => task.slot \in 1 .. Slots
          /\ k = Key(task, v)
      BY <1>0, <1>4, <2>1, <2>2, RowIsTyped DEF Held
    <2>4. task.kind = "site" => k = <<"deploy", v, 0>>
      BY <2>3, KeyIs
    <2> QED BY <1>6, <2>2, <2>4 DEF Live
  <1>9. ASSUME NEW l \in Keys, actions'[l].state # "absent"
        PROVE  actions[l].state # "absent"
    BY <1>2, <1>6, <1>9
  <1>10. ASSUME NEW o \in outbound', o \notin outbound
         PROVE  o.key \in Keys /\ actions'[o.key].state # "absent"
    BY <1>3, <1>6, <1>10
  <1>11. tasks[t].kind \in Outreach /\ tasks'[t].pc = "working" => tasks[t].pc = "working"
    BY <1>2
  <1> QED BY <1>4, <1>5, <1>7, <1>8, <1>9, <1>10, <1>11, LaunchStays

LEMMA LaunchIsKept ==
    ASSUME IInv, PlannedOnce, Launched, [Next]_vars
    PROVE  Launched'
  <1>0. Tables /\ Held /\ Owned
    BY DEF IInv
  <1>1. ASSUME NEW t \in Ids, Moves(t), UNCHANGED <<actions, outbound>>, tasks[t].kind # "plan",
               tasks[t].kind = "site" => tasks'[t].state # "done" \/ tasks[t].state = "done",
               tasks[t].kind \in Outreach /\ tasks'[t].pc = "working"
                   => tasks[t].pc = "working" \/ Behind
        PROVE  Launched'
    <2>1. Grows(t) /\ Ids' = Ids
      BY <1>1, MovesGrows DEF Moves
    <2>2. /\ Final
          /\ \A k \in Keys : actions'[k].state # "absent" => actions[k].state # "absent"
      BY <1>1, NothingDecided
    <2> QED BY <1>1, <2>1, <2>2, LaunchStays
  <1>2. ASSUME NEW t \in Ids, Moves(t), UNCHANGED <<actions, outbound>>, tasks[t].kind = "plan"
        PROVE  Launched'
    <2>1. \A u \in Ids : tasks'[u].kind = tasks[u].kind /\ tasks'[u].after = tasks[u].after
      BY <1>2 DEF Moves, Kept
    <2>2. /\ Ids' = Ids /\ \A u \in Ids : tasks[u].kind # "plan" => tasks'[u] = tasks[u]
      BY <1>2 DEF Moves
    <2>3. OfKind("site")' = OfKind("site")
      BY <2>1, <2>2 DEF OfKind
    <2>4. Live' = Live /\ (Behind <=> Behind')
      BY <1>2, <2>3 DEF Live, Behind
    <2>5. \A u \in Ids : tasks'[u].kind \in {"site"} \cup Outreach => tasks'[u] = tasks[u]
      BY <2>1, <2>2 DEF Outreach
    <2> QED BY <1>2, <2>1, <2>2, <2>3, <2>4, <2>5 DEF Launched
  <1>3. ASSUME NEW t \in Ids, Begin(t) PROVE Launched'
    <2>1. /\ Moves(t) /\ UNCHANGED <<actions, outbound>> /\ tasks'[t].state # "done"
          /\ \A d \in tasks[t].after : tasks[d].state = "done"
      BY <1>0, <1>3, BeginMoves
    <2>2. tasks[t].kind \in Outreach => Behind
      <3>1. ASSUME tasks[t].kind \in Outreach, NEW d \in OfKind("site")
            PROVE  Live
        <4>1. tasks[t].after = OfKind("site")
          BY <3>1 DEF Launched
        <4>2. d \in Ids /\ tasks[d].kind = "site" /\ tasks[d].state = "done"
          BY <2>1, <3>1, <4>1 DEF OfKind
        <4> QED BY <4>2 DEF Launched
      <3> QED BY <3>1 DEF Behind
    <2> QED BY <1>1, <1>2, <2>1, <2>2
  <1>4. ASSUME NEW t \in Ids, HandlePlan(t) PROVE Launched'
    BY <1>4, PlanLaunches
  <1>5. ASSUME NEW t \in Ids, HandleDemand(t) PROVE Launched'
    <2>1. /\ UNCHANGED <<actions, outbound>> /\ tasks[t].kind = "demand" /\ tasks'[t].pc = "idle"
          /\ Grows(t)
      BY <1>0, <1>5, DemandMoves, MovesGrows
    <2>2. /\ Final
          /\ \A k \in Keys : actions'[k].state # "absent" => actions[k].state # "absent"
      BY <2>1, NothingDecided
    <2>3. ASSUME NEW u \in Ids' \ Ids
          PROVE  /\ tasks'[u].kind # "site"
                 /\ tasks'[u].kind \in Outreach => tasks'[u].after = OfKind("site")
      <3>1. ~ (Moves(t) /\ UNCHANGED artifacts)
        BY <2>3 DEF Moves
      <3>2. /\ tasks'[u].kind \in {"video"} \cup Outreach
            /\ tasks'[u].kind \in Outreach => tasks'[u].after = OfKind("site")
        BY <1>0, <1>5, <3>1, DemandMoves
      <3> QED BY <3>2 DEF Outreach
    <2> QED BY <2>1, <2>2, <2>3, LaunchStays
  <1>6. ASSUME NEW t \in Ids, HandleCopy(t) PROVE Launched'
    <2>1. Moves(t) /\ UNCHANGED <<actions, outbound>> /\ tasks[t].kind = "copy"
          /\ tasks'[t].pc = "idle"
      BY <1>0, <1>6, CopyMoves
    <2> QED BY <1>1, <2>1
  <1>7. ASSUME NEW t \in Ids, HandleVideo(t) PROVE Launched'
    <2>1. /\ Moves(t) /\ UNCHANGED actions /\ tasks[t].kind = "video" /\ tasks'[t].pc = "idle"
          /\ outbound' = outbound \cup {[key |-> <<"video", 0, 0>>, content |-> tasks[t].content]}
      BY <1>0, <1>7, VideoMoves
    <2>2. /\ Final
          /\ \A k \in Keys : actions'[k].state # "absent" => actions[k].state # "absent"
      BY <2>1, NothingDecided
    <2>3. Grows(t) /\ Ids' = Ids
      BY <2>1, MovesGrows DEF Moves
    <2>4. \A o \in outbound' : o.key[1] \in Outreach => o \in outbound
      BY <2>1 DEF Outreach
    <2> QED BY <2>1, <2>2, <2>3, <2>4, LaunchStays
  <1>8. ASSUME NEW t \in Ids, BuildSite(t) PROVE Launched'
    <2>1. /\ Moves(t) /\ UNCHANGED <<actions, outbound>> /\ tasks[t].kind = "site"
          /\ tasks'[t].pc = "built" /\ tasks'[t].state = tasks[t].state
      BY <1>0, <1>8, BuildMoves
    <2> QED BY <1>1, <2>1
  <1>9. ASSUME NEW t \in Ids, Request(t) PROVE Launched'
    BY <1>9, RequestLaunches
  <1>10. ASSUME NEW t \in Ids, Raise(t) PROVE Launched'
    <2>1. Moves(t) /\ UNCHANGED <<actions, outbound>> /\ tasks'[t].state = "failed"
          /\ tasks'[t].pc = "idle"
      BY <1>0, <1>10, RaiseMoves
    <2> QED BY <1>1, <1>2, <2>1
  <1>11. ASSUME NEW t \in Ids, Dies(t) PROVE Launched'
    <2>1. Moves(t) /\ UNCHANGED <<actions, outbound>> /\ tasks'[t].state = "pending"
          /\ tasks'[t].pc = "idle"
      BY <1>0, <1>11, DiesMoves
    <2> QED BY <1>1, <1>2, <2>1
  <1>12. ASSUME NEW t \in Ids, Rerun(t) PROVE Launched'
    <2>1. Moves(t) /\ UNCHANGED <<actions, outbound>> /\ tasks'[t].state = "pending"
          /\ tasks'[t].pc = tasks[t].pc
      BY <1>0, <1>12, RerunMoves
    <2> QED BY <1>1, <1>2, <2>1
  <1>13. ASSUME NEW k \in Keys, Decide(k) PROVE Launched'
    BY <1>13, DecideLaunches
  <1>14. CASE Edit \/ UNCHANGED vars
    BY <1>14 DEF Edit, vars, Launched, Behind, Live, OfKind, Ids
  <1> QED BY <1>3, <1>4, <1>5, <1>6, <1>7, <1>8, <1>9, <1>10, <1>11, <1>12, <1>13, <1>14
          DEF Next, Handle

(* Without a second plan, a launch is announced only behind a proved deploy, in *)
(* a run that has a site, whatever is edited, re-run, denied and crashed.       *)
THEOREM LaunchIsBehindTheDeploy ==
    ASSUME "plan" \notin Rerunnable
    PROVE  Spec => []LaunchAfterLive
  <1>1. Init => PlannedOnce /\ Launched
    BY DEF Init, PlannedOnce, Launched, Task, Ids, NoAction, Stages, Outreach
  <1>2. IInv /\ PlannedOnce /\ Launched /\ [Next]_vars => (PlannedOnce /\ Launched)'
    <2>1. ASSUME IInv, PlannedOnce, Launched, [Next]_vars
          PROVE  PlannedOnce' /\ Launched'
      BY <2>1, OnceIsKept, LaunchIsKept
    <2> QED BY <2>1
  <1>3. ASSUME IInv, Launched PROVE LaunchAfterLive
    <2>1. ASSUME NEW o \in outbound, o.key[1] \in Outreach
          PROVE  Behind
      <3>1. o.key \in Keys \cup {<<"video", 0, 0>>}
        BY <1>3 DEF IInv, Tables
      <3>2. o.key \in Keys
        BY <2>1, <3>1 DEF Outreach
      <3> QED BY <1>3, <2>1, <3>2 DEF Launched
    <2> QED BY <2>1 DEF LaunchAfterLive, Behind, Live
  <1>4. IInv /\ Launched => LaunchAfterLive
    BY <1>3
  <1> QED BY <1>1, <1>2, <1>4, StudioInvariant, PTL DEF Spec
=============================================================================
