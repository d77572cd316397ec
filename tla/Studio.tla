------------------------------- MODULE Studio -------------------------------
(***************************************************************************)
(* One run's stages and what they hand each other: the brand document in   *)
(* its versions, the artifacts in their generations, the stages a stage    *)
(* enqueues, and the gated actions that take an artifact out of the house. *)
(*                                                                         *)
(* An operator edits the brand document, re-runs a stage and decides the   *)
(* actions at any moment; a worker may die.  What TaskQueue, ActionGate    *)
(* and Agency model step by step is one step here: a claim with the        *)
(* handler's reads, a handler's commit with its task's, and a decision     *)
(* with the resume that carries it.                                        *)
(***************************************************************************)
EXTENDS Integers, SequencesExt

CONSTANTS
    Selections,    \* the sets of stages the Strategist may select
    Slots,         \* a bound of the model: the most posts in a pack
    MaxRevisions,  \* of pack.py
    Packs,         \* a bound of the model: the outcomes of `demand` considered
    Workers,       \* how many workers there are
    Rerunnable,    \* the kinds of stage the operator re-runs
    MaxEdits, MaxReruns, MaxCrashes    \* bounds of the model

VARIABLES
    tasks,      \* the rows of `tasks`, each with what the worker in its handler holds
    doc,        \* the version of the brand document the run points at; 0 is none
    artifacts,  \* kind -> its generations, oldest first
    actions,    \* idempotency key -> the row of `actions`
    outbound,   \* what was published, sent, deployed or rendered: under which key, from what
    edits, reruns, crashes    \* how often the operator edited and re-ran, and a worker died

vars == <<tasks, doc, artifacts, actions, outbound, edits, reruns, crashes>>

Stages == {"copy", "site", "demand", "money"}
Outreach == {"publish", "send_email"}
TaskKinds == Stages \cup Outreach \cup {"plan", "video"}
Deliverables == {"copy", "posts", "email", "video_props"}
ArtifactKinds == Deliverables \cup {"site", "video"}
Docs == 0 .. MaxEdits + MaxReruns + 1

(* What a handler reads before it works, and refuses unless it is clean. *)
Upstream ==
    [kind \in {"site", "video"} \cup Outreach |->
        CASE kind = "site"       -> "copy"
          [] kind = "video"      -> "video_props"
          [] kind = "publish"    -> "posts"
          [] kind = "send_email" -> "email"]

-----------------------------------------------------------------------------
(* Artifacts.  An artifact is abstracted to its grounding status, its revision
   within its generation, and the posts of a pack. *)

Artifact == [status : {"clean", "flagged"}, revision : 0 .. MaxRevisions + 1,
             posts : 0 .. Slots]

NoArtifact == [status |-> "flagged", revision |-> 0, posts |-> 0]

Written(status, revision) == [NoArtifact EXCEPT !.status = status, !.revision = revision]

(* produce(): a draft is checked for numerals and then reviewed; the first one
   that passes both is clean, and the last one is written whatever it is. *)
Produced == {Written("clean", r) : r \in 0 .. MaxRevisions}
                \cup {Written("flagged", MaxRevisions)}

ProducedPosts == {[p EXCEPT !.posts = n] : p \in Produced, n \in 1 .. Slots}

(* What one run of the site handler writes: the page it built, and a revision
   of it if the page was clean, a review asked for one and it was kept. *)
SiteBuilds ==
    {<<Written(s, 0)>> : s \in {"clean", "flagged"}}
        \cup {<<Written("clean", 0), Written("clean", 1)>>}

ASSUME StudioAssumption ==
    /\ Slots \in Nat /\ MaxRevisions \in Nat /\ MaxEdits \in Nat /\ MaxReruns \in Nat
    /\ MaxCrashes \in Nat
    /\ Packs \subseteq [posts : ProducedPosts, email : Produced, video_props : Produced]
    /\ \A selected \in Selections : selected \subseteq Stages

Newest(kind) == artifacts[kind][Len(artifacts[kind])]
Has(kind) == artifacts[kind] # <<>>
Store(kind, generation) == artifacts' = [artifacts EXCEPT ![kind] = @ \o generation]

-----------------------------------------------------------------------------
(* Idempotency keys: the run's brief and the prompts are fixed. *)

Key(task, version) ==
    CASE task.kind = "site"       -> <<"deploy", version, 0>>
      [] task.kind = "publish"    -> <<"publish", version, task.slot>>
      [] task.kind = "send_email" -> <<"send_email", 0, 0>>
      [] OTHER                    -> <<"arm", 0, 0>>

Keys == ({"deploy"} \X Docs \X {0}) \cup ({"publish"} \X Docs \X (1 .. Slots))
            \cup ({"send_email", "arm"} \X {0} \X {0})

NoAction == [state |-> "absent", owner |-> 0, content |-> NoArtifact]

-----------------------------------------------------------------------------
(* Tasks. *)

Task(kind, slot, after) ==
    [kind |-> kind, slot |-> slot, state |-> "pending", after |-> after, action |-> <<>>,
     pc |-> "idle", version |-> 0, content |-> NoArtifact]

Ids == 1 .. Len(tasks)
OfKind(kind) == {t \in Ids : tasks[t].kind = kind}
Busy == {t \in Ids : tasks[t].pc # "idle"}

(* resolve_stages: the selection closed over STAGE_DEPENDENCIES. *)
StageDependencies == [s \in Stages |-> IF s = "site" THEN {"copy"} ELSE {}]

Closed(stages) == \A s \in stages : StageDependencies[s] \subseteq stages

ResolveStages(selected) ==
    {s \in Stages : \A wanted \in SUBSET Stages :
        selected \subseteq wanted /\ Closed(wanted) => s \in wanted}

(* enqueue_stages: a task for each, behind the tasks of what it depends on.  A
   task's place in the table stands for its id, and nothing reads an order in it. *)
StageTasks(selected) ==
    LET order == SetToSeq(ResolveStages(selected))
        TaskId(s) == Len(tasks) + CHOOSE i \in 1 .. Len(order) : order[i] = s
    IN  [i \in 1 .. Len(order) |->
            Task(order[i], 0, {TaskId(s) : s \in StageDependencies[order[i]]})]

(* A slip: a re-run enqueues its posts again. *)
NewSlotsAgain(posts) == 1 .. posts

(* existing_task_slots *)
NewSlots(posts) == {n \in 1 .. posts : \A t \in OfKind("publish") : tasks[t].slot # n}

(* A slip: outreach does not wait for the site. *)
LaunchAfterNothing == {}

LaunchAfter == OfKind("site")

OutreachTasks(posts) ==
    LET slots == SetToSeq(NewSlots(posts))
    IN  <<Task("video", 0, {})>>
        \o [i \in 1 .. Len(slots) |-> Task("publish", slots[i], LaunchAfter)]
        \o (IF OfKind("send_email") = {} THEN <<Task("send_email", 0, LaunchAfter)>> ELSE <<>>)

-----------------------------------------------------------------------------

Init ==
    /\ tasks = <<Task("plan", 0, {})>>
    /\ doc = 0
    /\ artifacts = [kind \in ArtifactKinds |-> <<>>]
    /\ actions = [k \in Keys |-> NoAction]
    /\ outbound = {}
    /\ edits = 0 /\ reruns = 0 /\ crashes = 0

bounds == <<edits, reruns, crashes>>

Leave(t, state) ==
    [tasks EXCEPT ![t] = [@ EXCEPT !.state = state, !.pc = "idle",
                                   !.version = 0, !.content = NoArtifact]]

Works(t, kind) == tasks[t].pc = "working" /\ tasks[t].kind = kind

NeedsDoc(kind) == kind \notin {"plan", "video"}

(* A slip: the handler leaves it to the gate to refuse what is flagged. *)
AcceptsNewest(t) ==
    LET kind == tasks[t].kind IN
    /\ NeedsDoc(kind) => doc # 0
    /\ kind \in DOMAIN Upstream => Has(Upstream[kind])
    /\ kind = "publish" => tasks[t].slot <= Newest("posts").posts

(* UpstreamNotClean, PublishRefused, SendEmailRefused, RenderFailed *)
Accepts(t) ==
    LET kind == tasks[t].kind IN
    /\ NeedsDoc(kind) => doc # 0
    /\ kind \in DOMAIN Upstream =>
         Has(Upstream[kind]) /\ Newest(Upstream[kind]).status = "clean"
    /\ kind = "publish" => tasks[t].slot <= Newest("posts").posts

Read(t) ==
    LET kind == tasks[t].kind IN
    IF kind \in DOMAIN Upstream THEN Newest(Upstream[kind]) ELSE NoArtifact

(* A task is claimed behind its dependencies, and its handler reads the brand
   document and the newest artifact of what it works on. *)
Begin(t) ==
    /\ tasks[t].state = "pending" /\ tasks[t].pc = "idle"
    /\ \A d \in tasks[t].after : tasks[d].state = "done"
    /\ Cardinality(Busy) < Workers
    /\ tasks' = IF Accepts(t)
                  THEN [tasks EXCEPT ![t] = [@ EXCEPT !.state = "running", !.pc = "working",
                                                      !.version = doc, !.content = Read(t)]]
                  ELSE Leave(t, "failed")
    /\ UNCHANGED <<doc, artifacts, actions, outbound, bounds>>

(* The Strategist may write a brand document, and selects stages. *)
HandlePlan(t) ==
    /\ Works(t, "plan")
    /\ doc' \in {doc, doc + 1}
    /\ \E selected \in Selections : tasks' = Leave(t, "done") \o StageTasks(selected)
    /\ UNCHANGED <<artifacts, actions, outbound, bounds>>

HandleCopy(t) ==
    /\ Works(t, "copy")
    /\ \E p \in Produced : Store("copy", <<p>>)
    /\ tasks' = Leave(t, "done")
    /\ UNCHANGED <<doc, actions, outbound, bounds>>

(* The pack and the tasks it feeds are one commit.  Two tasks of kind `site`
   are more than the handler's query takes: it raises, and nothing is written. *)
HandleDemand(t) ==
    /\ Works(t, "demand")
    /\ IF Cardinality(OfKind("site")) > 1
         THEN tasks' = Leave(t, "failed") /\ UNCHANGED artifacts
         ELSE \E pack \in Packs :
                /\ artifacts' = [kind \in ArtifactKinds |->
                      IF kind \in DOMAIN pack THEN Append(artifacts[kind], pack[kind])
                                              ELSE artifacts[kind]]
                /\ tasks' = Leave(t, "done") \o OutreachTasks(pack.posts.posts)
    /\ UNCHANGED <<doc, actions, outbound, bounds>>

(* Both cuts are rendered from the props; the file is never checked again. *)
HandleVideo(t) ==
    /\ Works(t, "video")
    /\ Store("video", <<Written("clean", 0)>>)
    /\ outbound' = outbound \cup {[key |-> <<"video", 0, 0>>, content |-> tasks[t].content]}
    /\ tasks' = Leave(t, "done")
    /\ UNCHANGED <<doc, actions, bounds>>

(* The page is built, perhaps revised, and committed before it is asked to be
   deployed. *)
BuildSite(t) ==
    /\ Works(t, "site")
    /\ \E pages \in SiteBuilds :
         /\ Store("site", pages)
         /\ tasks' = [tasks EXCEPT ![t] = [@ EXCEPT !.pc = "built",
                                                    !.content = pages[Len(pages)]]]
    /\ UNCHANGED <<doc, actions, outbound, bounds>>

(* _check_preconditions.  The query for a deploy takes one of the run's site
   artifacts, and says not which. *)
MayMeet(kind) ==
    CASE kind = "site"       -> {p.status = "clean" : p \in Range(artifacts["site"])}
      [] kind = "publish"    -> {Newest("posts").status = "clean"}
      [] kind = "send_email" -> {Newest("email").status = "clean"}
      [] OTHER               -> {TRUE}

Asks(t) ==
    \/ tasks[t].pc = "built"
    \/ tasks[t].pc = "working" /\ tasks[t].kind \in Outreach \cup {"money"}

Parked(t, k) == [Leave(t, "awaiting_approval") EXCEPT ![t].action = k]

(* gate.request: a new action waits for the operator, and so does its task; one
   requested before answers as it stands. *)
Request(t) ==
    /\ Asks(t)
    /\ LET k == Key(tasks[t], tasks[t].version) IN
       \E met \in MayMeet(tasks[t].kind) :
         IF ~met THEN tasks' = Leave(t, "failed") /\ UNCHANGED actions
         ELSE CASE actions[k].state = "absent" ->
                     /\ actions' = [actions EXCEPT ![k] =
                          [state |-> "awaiting_approval", owner |-> t,
                           content |-> tasks[t].content]]
                     /\ tasks' = Parked(t, k)
                [] actions[k].state = "awaiting_approval" ->
                     tasks' = Parked(t, k) /\ UNCHANGED actions
                [] actions[k].state = "succeeded" ->
                     tasks' = Leave(t, "done") /\ UNCHANGED actions
                [] OTHER -> tasks' = Leave(t, "failed") /\ UNCHANGED actions
    /\ UNCHANGED <<doc, artifacts, outbound, bounds>>

(* A model, a renderer or a provider fails: what the stage wrote is rolled back. *)
Raise(t) ==
    /\ tasks[t].pc = "working" /\ tasks[t].kind \notin Outreach
    /\ tasks' = Leave(t, "failed")
    /\ UNCHANGED <<doc, artifacts, actions, outbound, bounds>>

(* The worker dies, its lease lapses, and the sweep re-queues the task.  Before
   the handler has committed anything, this is as if it had never begun. *)
Dies(t) ==
    /\ crashes < MaxCrashes /\ crashes' = crashes + 1
    /\ tasks[t].pc = "built"
    /\ tasks' = Leave(t, "pending")
    /\ UNCHANGED <<doc, artifacts, actions, outbound, edits, reruns>>

(* The operator decides.  An approved action is executed and verified, and its
   task takes the verdict, whatever it was at.  A denied one is here one that
   failed before it had an effect: both are final, and both fail their task. *)
Decide(k) ==
    /\ actions[k].state = "awaiting_approval"
    /\ \E proved, effect \in BOOLEAN :
         /\ proved => effect
         /\ actions' = [actions EXCEPT ![k].state = IF proved THEN "succeeded" ELSE "failed"]
         /\ tasks' = [tasks EXCEPT ![actions[k].owner].state =
                         IF proved THEN "done" ELSE "failed"]
         /\ outbound' = IF effect THEN outbound \cup {[key |-> k, content |-> actions[k].content]}
                                  ELSE outbound
    /\ UNCHANGED <<doc, artifacts, bounds>>

(* POST /tasks/{task_id}/retry *)
Rerun(t) ==
    /\ reruns < MaxReruns /\ reruns' = reruns + 1
    /\ tasks[t].state \in {"failed", "done"}
    /\ tasks[t].kind \in Rerunnable
    /\ tasks' = [tasks EXCEPT ![t].state = "pending"]
    /\ UNCHANGED <<doc, artifacts, actions, outbound, edits, crashes>>

(* PUT /runs/{run_id}/brand-doc *)
Edit ==
    /\ edits < MaxEdits /\ edits' = edits + 1
    /\ doc' = doc + 1
    /\ UNCHANGED <<tasks, artifacts, actions, outbound, reruns, crashes>>

Handle(t) ==
    HandlePlan(t) \/ HandleCopy(t) \/ HandleDemand(t) \/ HandleVideo(t) \/ BuildSite(t)
        \/ Request(t)

Next ==
    \/ \E t \in Ids : Begin(t) \/ Handle(t) \/ Raise(t) \/ Dies(t) \/ Rerun(t)
    \/ \E k \in Keys : Decide(k)
    \/ Edit

Spec == Init /\ [][Next]_vars

-----------------------------------------------------------------------------
(* Properties. *)

TypeOK ==
    /\ tasks \in Seq([kind : TaskKinds, slot : 0 .. Slots, after : SUBSET Ids,
                      state : {"pending", "running", "awaiting_approval", "done", "failed"},
                      action : Keys \cup {<<>>}, pc : {"idle", "working", "built"},
                      version : Docs, content : Artifact])
    /\ doc \in Docs
    /\ artifacts \in [ArtifactKinds -> Seq(Artifact)]
    /\ actions \in [Keys -> [state : {"absent", "awaiting_approval", "succeeded", "failed"},
                             owner : Ids \cup {0}, content : Artifact]]
    /\ outbound \subseteq [key : Keys \cup {<<"video", 0, 0>>}, content : Artifact]
    /\ edits \in 0 .. MaxEdits /\ reruns \in 0 .. MaxReruns /\ crashes \in 0 .. MaxCrashes

(* No post, no email and no frame comes from an artifact that held an amount the
   business never stated or a claim the Reviewer did not pass, although what was
   newest when the handler looked may be superseded before it leaves. *)
OutboundIsClean ==
    \A o \in outbound : o.key[1] \in Outreach \cup {"video"} => o.content.status = "clean"

(* What makes it so: what a handler holds was clean when it looked, and an
   action's content is fixed by the request that wrote its row. *)
HeldIsClean ==
    \A t \in Ids : tasks[t].pc = "working" /\ tasks[t].kind \in Outreach \cup {"video"}
        => tasks[t].content.status = "clean"

RowsAreClean ==
    \A k \in Keys : k[1] \in Outreach /\ actions[k].state # "absent"
        => actions[k].content.status = "clean"

Inv == TypeOK /\ HeldIsClean /\ RowsAreClean /\ OutboundIsClean

(* A launch is announced only behind a proved deploy, in a run that has a site,
   whatever is edited, re-run and denied in between. *)
LaunchAfterLive ==
    (OfKind("site") # {} /\ \E o \in outbound : o.key[1] \in Outreach)
        => \E v \in Docs : actions[<<"deploy", v, 0>>].state = "succeeded"

(* A parked task waits for an action that waits for the operator and that will
   release this task: the action's row names the task that asked first. *)
ParkedIsReleased ==
    \A t \in Ids : tasks[t].state = "awaiting_approval" =>
        /\ actions[tasks[t].action].state = "awaiting_approval"
        /\ actions[tasks[t].action].owner = t

(* However often the pack is written, every post of the newest one has exactly
   one task, and the launch email has one. *)
FannedOutOnce ==
    Has("posts") =>
        /\ \A n \in 1 .. Newest("posts").posts :
              Cardinality({t \in OfKind("publish") : tasks[t].slot = n}) = 1
        /\ Cardinality(OfKind("send_email")) = 1

(* DESIGN.md:1087: "no artifact reached the deploy with `grounding_status =
   'flagged'`". *)
FlaggedStaysHome ==
    \A o \in outbound : o.key[1] = "deploy" => o.content.status = "clean"
=============================================================================
