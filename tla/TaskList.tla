------------------------------ MODULE TaskList ------------------------------
(***************************************************************************)
(* The task list of a project (tasks/management.rs, graph.rs, store.rs):   *)
(* agents create, update, complete and delete tasks and say which task     *)
(* blocks which; the list is kept in memory and one file per task.         *)
(* complete, set_dependencies and delete work under the write lock, file   *)
(* included.  create and update do not: create validates under the read    *)
(* lock, saves and only then inserts; update checks under the read lock,   *)
(* writes under the write lock and saves the copy it made after that.      *)
(*                                                                         *)
(* drifted is history: a restart has read files that were not the list,    *)
(* because a save failed or a late one put an older copy back.             *)
(***************************************************************************)
EXTENDS Integers

CONSTANTS
    TaskIds,
    TaskCalls,        \* tool calls that can be in progress
    NoTask,
    MaxTaskOps,       \* bound: operations
    MaxTaskFaults     \* bound: failed saves and restarts

ASSUME TaskListAssumption ==
    NoTask \notin TaskIds /\ {MaxTaskOps, MaxTaskFaults} \subseteq Nat

VARIABLES tasks, taskFiles, taskCall, minted, taskOps, taskFaults, drifted

taskVars == <<tasks, taskFiles, taskCall, minted, taskOps, taskFaults, drifted>>

Open == {"pending", "in_progress"}
Statuses == Open \cup {"completed", "deleted"}
Task == [status : Statuses, blocked_by : SUBSET TaskIds]
Absent == [status |-> "absent", blocked_by |-> {}]
Known(list) == {t \in TaskIds : list[t] # Absent}

NoTaskCall == [at |-> "idle", id |-> NoTask, value |-> Absent]

TaskListInit ==
    /\ tasks = [t \in TaskIds |-> Absent] /\ taskFiles = tasks
    /\ taskCall = [c \in TaskCalls |-> NoTaskCall]
    /\ minted = {} /\ taskOps = 0 /\ taskFaults = 0 /\ drifted = FALSE

-----------------------------------------------------------------------------
(* graph.rs                                                                *)

\* The blockers of a task that are not completed, those that are gone included.
open_blockers(t) == {b \in tasks[t].blocked_by : tasks[b].status # "completed"}

is_blocked(t) == tasks[t].status \in Open /\ open_blockers(t) # {}

ready_tasks == {t \in Known(tasks) : tasks[t].status \in Open /\ ~ is_blocked(t)}

\* Wrong variant: only the blockers' own blockers are looked at.
WalkedOnce(B) == B \cup UNION {tasks[t].blocked_by : t \in B}

\* Where the walk over blocked_by goes no further.
WalkEnds(S) == UNION {tasks[t].blocked_by : t \in S} \subseteq S

\* Everything it visits that starts at the tasks of B.
Walked(B) == {t \in TaskIds : \A S \in SUBSET TaskIds : B \subseteq S /\ WalkEnds(S) => t \in S}

would_create_cycle(t, B) == t \in Walked(B)

validate_blockers_exist(B) ==
    \A b \in B : tasks[b] # Absent /\ tasks[b].status # "deleted"

validate_dependency_assignment(t, B) ==
    validate_blockers_exist(B) /\ ~ would_create_cycle(t, B)

can_transition_to(t, s) == s \in {"in_progress", "completed"} => ~ is_blocked(t)

-----------------------------------------------------------------------------
(* management.rs                                                           *)

Operation == taskOps < MaxTaskOps /\ taskOps' = taskOps + 1

TaskFault == taskFaults < MaxTaskFaults /\ taskFaults' = taskFaults + 1

\* TaskStore::save of v as task t, which may fail.
SaveTask(t, v) ==
    \/ taskFiles' = [taskFiles EXCEPT ![t] = v] /\ UNCHANGED taskFaults
    \/ TaskFault /\ UNCHANGED taskFiles

Fails == TaskFault /\ UNCHANGED taskFiles

Holds(c, at, t, v) == taskCall' = [taskCall EXCEPT ![c] = [at |-> at, id |-> t, value |-> v]]

Returns(c) == taskCall' = [taskCall EXCEPT ![c] = NoTaskCall]

\* handle_create, first part.  The id is a new uuid; which one does not matter.
CreateTask(c, B) ==
    /\ taskCall[c].at = "idle" /\ minted # TaskIds /\ Operation
    /\ LET t == CHOOSE fresh \in TaskIds \ minted : TRUE
       IN  /\ validate_dependency_assignment(t, B)
           /\ Holds(c, "create", t, [status |-> "pending", blocked_by |-> B])
           /\ minted' = minted \cup {t}
    /\ UNCHANGED <<tasks, taskFiles, taskFaults, drifted>>

\* The file comes first; a failed save ends the call.
SaveCreated(c) ==
    /\ taskCall[c].at = "create"
    /\ \/ /\ taskFiles' = [taskFiles EXCEPT ![taskCall[c].id] = taskCall[c].value]
          /\ Holds(c, "insert", taskCall[c].id, taskCall[c].value)
          /\ UNCHANGED taskFaults
       \/ Fails /\ Returns(c)
    /\ UNCHANGED <<tasks, minted, taskOps, drifted>>

InsertCreated(c) ==
    /\ taskCall[c].at = "insert"
    /\ tasks' = [tasks EXCEPT ![taskCall[c].id] = taskCall[c].value]
    /\ Returns(c)
    /\ UNCHANGED <<taskFiles, minted, taskOps, taskFaults, drifted>>

\* handle_update with a status, first part: the check.
CheckUpdate(c, t, s) ==
    /\ taskCall[c].at = "idle" /\ t \in Known(tasks) /\ Operation
    /\ can_transition_to(t, s)
    /\ Holds(c, "update", t, [tasks[t] EXCEPT !.status = s])
    /\ UNCHANGED <<tasks, taskFiles, minted, taskFaults, drifted>>

\* update_task: the status is written if the task is still there, the rest of it is
\* what the list holds now, and a copy goes to be saved.
WriteUpdate(c) ==
    /\ taskCall[c].at = "update"
    /\ LET t == taskCall[c].id
           v == [tasks[t] EXCEPT !.status = taskCall[c].value.status]
       IN  \/ /\ t \in Known(tasks)
              /\ tasks' = [tasks EXCEPT ![t] = v] /\ Holds(c, "save", t, v)
           \/ t \notin Known(tasks) /\ Returns(c) /\ UNCHANGED tasks
    /\ UNCHANGED <<taskFiles, minted, taskOps, taskFaults, drifted>>

\* An update of other fields checks nothing; its copy is saved all the same.
UpdateFields(c, t) ==
    /\ taskCall[c].at = "idle" /\ t \in Known(tasks) /\ Operation
    /\ Holds(c, "save", t, tasks[t])
    /\ UNCHANGED <<tasks, taskFiles, minted, taskFaults, drifted>>

SaveUpdated(c) ==
    /\ taskCall[c].at = "save"
    /\ SaveTask(taskCall[c].id, taskCall[c].value)
    /\ Returns(c)
    /\ UNCHANGED <<tasks, minted, taskOps, drifted>>

\* handle_complete and handle_set_dependencies: one lock section; a failed save is
\* ignored.
Complete(t) ==
    /\ t \in Known(tasks) /\ Operation
    /\ can_transition_to(t, "completed")
    /\ LET v == [tasks[t] EXCEPT !.status = "completed"]
       IN  tasks' = [tasks EXCEPT ![t] = v] /\ SaveTask(t, v)
    /\ UNCHANGED <<taskCall, minted, drifted>>

SetDependencies(t, B) ==
    /\ t \in Known(tasks) /\ Operation
    /\ validate_dependency_assignment(t, B)
    /\ LET v == [tasks[t] EXCEPT !.blocked_by = B]
       IN  tasks' = [tasks EXCEPT ![t] = v] /\ SaveTask(t, v)
    /\ UNCHANGED <<taskCall, minted, drifted>>

\* handle_delete: the file goes too, unless that fails.
Delete(t) ==
    /\ t \in Known(tasks) /\ Operation
    /\ tasks' = [tasks EXCEPT ![t] = Absent] /\ SaveTask(t, Absent)
    /\ UNCHANGED <<taskCall, minted, drifted>>

\* What the files should hold: the list, and tasks saved but not inserted yet.
Intended ==
    [t \in TaskIds |-> IF \E c \in TaskCalls : taskCall[c].at = "insert" /\ taskCall[c].id = t
                       THEN taskFiles[t] ELSE tasks[t]]

\* The daemon ends; the next one loads the files.
load_from_store ==
    /\ TaskFault
    /\ tasks' = taskFiles /\ taskCall' = [c \in TaskCalls |-> NoTaskCall]
    /\ drifted' = (drifted \/ taskFiles # Intended)
    /\ UNCHANGED <<taskFiles, minted, taskOps>>

TaskListNext ==
    \/ \E c \in TaskCalls :
          \/ SaveCreated(c) \/ InsertCreated(c) \/ WriteUpdate(c) \/ SaveUpdated(c)
          \/ \E B \in SUBSET TaskIds : CreateTask(c, B)
          \/ \E t \in TaskIds :
                \/ UpdateFields(c, t)
                \/ \E s \in Statuses : CheckUpdate(c, t, s)
    \/ \E t \in TaskIds :
          \/ Complete(t) \/ Delete(t)
          \/ \E B \in SUBSET TaskIds : SetDependencies(t, B)
    \/ load_from_store

-----------------------------------------------------------------------------
(* Properties                                                              *)

TaskListTypeOK ==
    /\ tasks \in [TaskIds -> Task \cup {Absent}]
    /\ taskFiles \in [TaskIds -> Task \cup {Absent}]
    /\ minted \subseteq TaskIds
    /\ taskOps \in 0..MaxTaskOps /\ taskFaults \in 0..MaxTaskFaults /\ drifted \in BOOLEAN

\* Work never stalls on the list itself: as long as the files a restart reads are
\* the list, some open task is ready, whatever was created, updated, completed and
\* made to wait in between, unless an open task waits for one that was deleted.
SomethingIsReady ==
    LET open == {t \in Known(tasks) : tasks[t].status \in Open}
        waits == UNION {open_blockers(t) : t \in open}
    IN  (~ drifted /\ open # {} /\ waits \subseteq open) => ready_tasks # {}
=============================================================================
