---------------------------- MODULE AppAssetLoader ----------------------------
(***************************************************************************)
(* CachedAppAssetLoader: the box art of the applications is loaded by      *)
(* tasks of two executors, one for the disk and one for the network, and   *)
(* shown in the recycled views of a list.  A view knows the task it waits  *)
(* for by its drawable, which refers to the task weakly.  Whether a bitmap *)
(* is in memory, on the disk or at the host is a choice at each access.    *)
(***************************************************************************)
EXTENDS Naturals, Sequences, FiniteSets

CONSTANTS
    Views,         \* the views of the list
    Apps,          \* the applications
    Tasks,         \* the LoaderTask objects there can be at a time
    Nothing,          \* no application, no task
    QueueLength,   \* MAX_PENDING_*_LOADS: 40 in the code
    Workers,       \* MAX_CONCURRENT_*_LOADS: 3 in the code
    MaxPopulates,  \* bound on the calls of populateImageView()
    MaxPauses      \* bound on the calls of cancelQueuedOperations()

ASSUME NothingAssumption == Nothing \notin Apps \cup Tasks /\ Apps \cap Tasks = {}
ASSUME QueuesAssumption ==
    QueueLength \in Nat \ {0} /\ Workers \in Nat \ {0} /\ MaxPopulates \in Nat /\ MaxPauses \in Nat

Executors == {"foreground", "network"}

VARIABLES
    bound,       \* the application that each view stands for
    drawable,    \* its bitmap, the task of its AsyncDrawable, or neither
    visible,     \* is the view shown
    fading,      \* the bitmap that its fade-out animation sets at its end
    task,        \* the LoaderTask objects
    queue,       \* the queue of each executor
    progress,    \* the tasks whose onProgressUpdate() is posted
    overtaken,   \* the views in which a fade-out ended too late (history)
    populates, pauses

viewVars  == <<bound, drawable, visible, fading, overtaken>>
countVars == <<populates, pauses>>
loaderVars == <<viewVars, task, queue, progress, countVars>>

LoaderTask ==
    [state : {"none", "queued", "running", "posted", "done", "dropped"},
     view : Views \cup {Nothing}, app : Apps \cup {Nothing}, diskOnly : BOOLEAN,
     tuple : BOOLEAN, cancelled : BOOLEAN, found : BOOLEAN]

NoTask == [state |-> "none", view |-> Nothing, app |-> Nothing, diskOnly |-> TRUE,
           tuple |-> FALSE, cancelled |-> FALSE, found |-> FALSE]

LoaderTypeOK ==
    /\ bound \in [Views -> Apps \cup {Nothing}]
    /\ drawable \in [Views -> Apps \cup Tasks \cup {Nothing}]
    /\ visible \in [Views -> BOOLEAN]
    /\ fading \in [Views -> Apps \cup {Nothing}]
    /\ task \in [Tasks -> LoaderTask]
    /\ queue \in [Executors -> Seq(Tasks)]
    /\ \A x \in Executors : Len(queue[x]) <= QueueLength
    /\ progress \subseteq Tasks
    /\ overtaken \subseteq Views
    /\ populates \in 0 .. MaxPopulates /\ pauses \in 0 .. MaxPauses

LoaderInit ==
    /\ bound = [v \in Views |-> Nothing]
    /\ drawable = [v \in Views |-> Nothing]
    /\ visible = [v \in Views |-> TRUE]
    /\ fading = [v \in Views |-> Nothing]
    /\ task = [t \in Tasks |-> NoTask]
    /\ queue = [x \in Executors |-> <<>>]
    /\ progress = {}
    /\ overtaken = {}
    /\ populates = 0 /\ pauses = 0

-----------------------------------------------------------------------------
(***************************************************************************)
(* The executors.                                                          *)
(***************************************************************************)

ExecutorOf(t) == IF task[t].diskOnly THEN "foreground" ELSE "network"
Running(x) == {t \in Tasks : task[t].state = "running" /\ ExecutorOf(t) = x}

\* "new LoaderTask": which of the objects that are not in use does not matter.
Unused == {t \in Tasks : task[t].state = "none"}
NewObject == IF Unused = {} THEN {} ELSE {CHOOSE t \in Unused : TRUE}

\* A task as it would be if it knew its tuple from the start.
NewTaskWithTuple(v, a, diskOnly) ==
    [NoTask EXCEPT !.state = "queued", !.view = v, !.app = a, !.diskOnly = diskOnly,
                   !.tuple = TRUE]

NewTask(v, a, diskOnly) ==
    [NoTask EXCEPT !.state = "queued", !.view = v, !.app = a, !.diskOnly = diskOnly]

\* The new task n is put into a queue, and from a full queue the oldest is
\* discarded; its AsyncTask is not told.
Execute(x, n, tasks) ==
    IF Len(queue[x]) < QueueLength
    THEN /\ queue' = [queue EXCEPT ![x] = Append(@, n)]
         /\ task' = tasks
    ELSE /\ queue' = [queue EXCEPT ![x] = Append(Tail(@), n)]
         /\ task' = [tasks EXCEPT ![Head(queue[x])].state = "dropped"]

\* A worker takes a task: doInBackground(), or nothing if it was cancelled.
DoInBackground(x) ==
    /\ queue[x] # <<>> /\ Cardinality(Running(x)) < Workers
    /\ LET t == Head(queue[x]) IN
          task' = IF task[t].cancelled THEN [task EXCEPT ![t].state = "done"]
                  ELSE [task EXCEPT ![t].state = "running", ![t].tuple = TRUE]
    /\ queue' = [queue EXCEPT ![x] = Tail(@)]
    /\ UNCHANGED <<viewVars, progress, countVars>>

\* The load as it would be if the disk task did not ask for a network task.
LoadWithoutProgress(t) ==
    /\ task[t].state = "running"
    /\ \E found \in BOOLEAN :
          task' = [task EXCEPT ![t].state = "posted", ![t].found = found]
    /\ UNCHANGED <<viewVars, queue, progress, countVars>>

\* The bitmap is found or not; the disk task asks for a network task if not.
\* A cancelled task may have seen that it is.
LoadEnds(t) ==
    /\ task[t].state = "running"
    /\ \/ /\ task' = [task EXCEPT ![t].state = "posted", ![t].found = TRUE]
          /\ UNCHANGED progress
       \/ /\ task' = [task EXCEPT ![t].state = "posted"]
          /\ progress' = IF task[t].diskOnly THEN progress \cup {t} ELSE progress
       \/ /\ task[t].cancelled
          /\ task' = [task EXCEPT ![t].state = "posted"]
          /\ UNCHANGED progress
    /\ UNCHANGED <<viewVars, queue, countVars>>

-----------------------------------------------------------------------------
(***************************************************************************)
(* The main thread.                                                        *)
(***************************************************************************)

\* getLoaderTask(view) = t.
IsLoaderTask(v, t) == drawable[v] = t

\* cancelPendingLoad() as it would be if a task that has not begun was taken to
\* load the same application.
PendingIfNotBegun(v, a) ==
    {t \in Tasks : IsLoaderTask(v, t) /\ ~task[t].cancelled
                   /\ (~task[t].tuple \/ task[t].app = a)}

\* "It's already loading what we want".
PendingLoad(v, a) ==
    {t \in Tasks : IsLoaderTask(v, t) /\ ~task[t].cancelled
                   /\ task[t].tuple /\ task[t].app = a}

\* What becomes of the tasks when cancelPendingLoad() lets the load proceed.
Cancelled(v) ==
    [t \in Tasks |-> IF IsLoaderTask(v, t) THEN [task[t] EXCEPT !.cancelled = TRUE]
                     ELSE task[t]]

\* populateImageView(): a bitmap in memory is shown at once, and any other is
\* loaded while the view is hidden.  A fade-out in the view goes on.
PopulateImageView(v, a) ==
    /\ populates < MaxPopulates
    /\ populates' = populates + 1
    /\ bound' = [bound EXCEPT ![v] = a]
    /\ IF PendingLoad(v, a) # {} THEN UNCHANGED <<drawable, visible, overtaken, task, queue>>
       ELSE /\ overtaken' = overtaken \ {v}
            /\ \/ /\ drawable' = [drawable EXCEPT ![v] = a]
                  /\ visible' = [visible EXCEPT ![v] = TRUE]
                  /\ task' = Cancelled(v)
                  /\ UNCHANGED queue
               \/ \E n \in NewObject :
                     /\ drawable' = [drawable EXCEPT ![v] = n]
                     /\ visible' = [visible EXCEPT ![v] = FALSE]
                     /\ Execute("foreground", n, [Cancelled(v) EXCEPT ![n] = NewTask(v, a, TRUE)])
    /\ UNCHANGED <<fading, progress, pauses>>

\* onProgressUpdate(): a network task takes the place of the disk task, with the
\* image for applications that have none.
OnProgressUpdate(t) ==
    /\ t \in progress
    /\ progress' = progress \ {t}
    /\ LET v == task[t].view IN
          IF task[t].cancelled \/ ~IsLoaderTask(v, t)
          THEN UNCHANGED <<drawable, visible, fading, task, queue>>
          ELSE \E n \in NewObject :
                  /\ drawable' = [drawable EXCEPT ![v] = n]
                  /\ visible' = [visible EXCEPT ![v] = TRUE]
                  /\ fading' = [fading EXCEPT ![v] = Nothing]
                  /\ Execute("network", n, [task EXCEPT ![n] = NewTask(v, task[t].app, FALSE)])
    /\ UNCHANGED <<bound, overtaken, countVars>>

\* onPostExecute(): the bitmap is shown, after a fade-out if the view is visible.
OnPostExecute(t) ==
    /\ task[t].state = "posted" /\ t \notin progress
    /\ task' = [task EXCEPT ![t].state = "done"]
    /\ LET v == task[t].view IN
          IF task[t].cancelled \/ ~IsLoaderTask(v, t) \/ ~task[t].found
          THEN UNCHANGED <<drawable, visible, fading>>
          ELSE IF visible[v]
          THEN /\ fading' = [fading EXCEPT ![v] = task[t].app]
               /\ UNCHANGED <<drawable, visible>>
          ELSE /\ drawable' = [drawable EXCEPT ![v] = task[t].app]
               /\ visible' = [visible EXCEPT ![v] = TRUE]
               /\ fading' = [fading EXCEPT ![v] = Nothing]
    /\ UNCHANGED <<bound, overtaken, queue, progress, countVars>>

\* onAnimationEnd(), which does not ask whose view it is by now.
FadeOutEnds(v) ==
    /\ fading[v] # Nothing
    /\ drawable' = [drawable EXCEPT ![v] = fading[v]]
    /\ fading' = [fading EXCEPT ![v] = Nothing]
    /\ overtaken' = IF visible[v] /\ fading[v] = bound[v] THEN overtaken ELSE overtaken \cup {v}
    /\ UNCHANGED <<bound, visible, task, queue, progress, countVars>>

\* cancelForegroundLoads(), when the activity is paused: "r" is a FutureTask, and
\* the AsyncTask is not cancelled.
CancelForegroundLoads ==
    /\ pauses < MaxPauses
    /\ pauses' = pauses + 1
    /\ queue' = [x \in Executors |-> <<>>]
    /\ task' = [t \in Tasks |-> IF task[t].state = "queued"
                                THEN [task[t] EXCEPT !.state = "dropped"] ELSE task[t]]
    /\ UNCHANGED <<viewVars, progress, populates>>

\* The garbage collector takes a task that only an AsyncDrawable refers to.
Collect(t) ==
    /\ task[t].state \in {"done", "dropped"} /\ t \notin progress
    /\ task' = [task EXCEPT ![t] = NoTask]
    /\ drawable' = [v \in Views |-> IF drawable[v] = t THEN Nothing ELSE drawable[v]]
    /\ UNCHANGED <<bound, visible, fading, overtaken, queue, progress, countVars>>

-----------------------------------------------------------------------------
TaskStep(t) == LoadEnds(t) \/ OnProgressUpdate(t) \/ OnPostExecute(t)

LoaderNext ==
    \/ \E v \in Views, a \in Apps : PopulateImageView(v, a)
    \/ \E v \in Views : FadeOutEnds(v)
    \/ \E x \in Executors : DoInBackground(x)
    \/ \E t \in Tasks : TaskStep(t) \/ Collect(t)
    \/ CancelForegroundLoads

\* Threads are scheduled, loads end, messages are handled; memory is collected.
LoaderFairness ==
    /\ \A x \in Executors : WF_loaderVars(DoInBackground(x))
    /\ \A t \in Tasks : WF_loaderVars(TaskStep(t)) /\ WF_loaderVars(Collect(t))

LoaderSpec == LoaderInit /\ [][LoaderNext]_loaderVars /\ LoaderFairness

-----------------------------------------------------------------------------
(***************************************************************************)
(* Correctness.                                                            *)
(***************************************************************************)

\* However late a load ends, and whatever the view was bound to in the meantime,
\* a view shows the art of the application that it stands for, and waits for no
\* other.  The one exception is a fade-out that the next application overtook.
ViewsShowTheirArt ==
    /\ LoaderTypeOK
    /\ \A v \in Views :
          /\ drawable[v] \in Apps => drawable[v] = bound[v] \/ v \in overtaken
          /\ drawable[v] \in Tasks => task[drawable[v]].app = bound[v]

\* A view for which populateImageView() would start nothing, since it has a load
\* of its application, is one whose load is under way, has shown the bitmap or
\* has tried the network: never one whose load was discarded from a queue.
TrustedLoadsAreReal ==
    \A v \in Views : \A t \in PendingLoad(v, bound[v]) :
        \/ task[t].state \in {"running", "posted"}
        \/ task[t].state = "done" /\ (fading[v] = bound[v] \/ ~task[t].diskOnly)

\* A view that is hidden while it waits is shown in the end, with its art or the
\* image for applications that have none, unless its load is discarded or a
\* fade-out ends in it.
AttachedState(v) == IF drawable[v] \in Tasks THEN task[drawable[v]].state ELSE "none"
Waits(v) == ~visible[v] /\ AttachedState(v) \in {"queued", "running", "posted"}
HiddenIsShown == \A v \in Views :
    Waits(v) ~> visible[v] \/ AttachedState(v) = "dropped" \/ v \in overtaken
=============================================================================
