-------------------------- MODULE MCSessionStores --------------------------
(***************************************************************************)
(* What is kept for a session and its project beside the runs, for TLC:    *)
(* the event streams (one client watched at a time), the saves of the      *)
(* history, the file snapshots behind /undo, the workspace its nodes roll  *)
(* back, the conversation the agent loop works on, the project's task list *)
(* and the lock of its memory.  They share no state the model keeps, so a  *)
(* behaviour is about one of them, picked at the start; the others stand   *)
(* still.                                                                  *)
(***************************************************************************)
EXTENDS SessionEvents, SessionSaves, Checkpoints, NodeRollback, AgentLoop,
        TaskList, ConsolidationLock

VARIABLE part

vars == <<part, eventVars, saveVars, checkpointVars, rollbackVars, loopVars,
          taskVars, lockVars>>

Saves == "saves"
Undo == "undo"
Nodes == "nodes"
Talk == "talk"
Todo == "todo"
Dream == "dream"

Init ==
    /\ part \in EventClients \cup {Saves, Undo, Nodes, Talk, Todo, Dream}
    /\ EventsInit /\ SavesInit /\ CheckpointsInit /\ RollbackInit /\ LoopInit
    /\ TaskListInit /\ LockInit
    /\ part # Talk => frontend = CHOOSE f \in Frontends : TRUE

StreamStep ==
    /\ part \in EventClients /\ (EventSource \/ EventClient(part))
    /\ UNCHANGED <<part, saveVars, checkpointVars, rollbackVars, loopVars, taskVars, lockVars>>

SaveStep ==
    /\ part = Saves /\ SavesNext
    /\ UNCHANGED <<part, eventVars, checkpointVars, rollbackVars, loopVars, taskVars, lockVars>>

UndoStep ==
    /\ part = Undo /\ CheckpointsNext
    /\ UNCHANGED <<part, eventVars, saveVars, rollbackVars, loopVars, taskVars, lockVars>>

NodeStep ==
    /\ part = Nodes /\ RollbackNext
    /\ UNCHANGED <<part, eventVars, saveVars, checkpointVars, loopVars, taskVars, lockVars>>

TalkStep ==
    /\ part = Talk /\ LoopNext
    /\ UNCHANGED <<part, eventVars, saveVars, checkpointVars, rollbackVars, taskVars, lockVars>>

TodoStep ==
    /\ part = Todo /\ TaskListNext
    /\ UNCHANGED <<part, eventVars, saveVars, checkpointVars, rollbackVars, loopVars, lockVars>>

DreamStep ==
    /\ part = Dream /\ LockNext
    /\ UNCHANGED <<part, eventVars, saveVars, checkpointVars, rollbackVars, loopVars, taskVars>>

Next == StreamStep \/ SaveStep \/ UndoStep \/ NodeStep \/ TalkStep \/ TodoStep \/ DreamStep

Spec == Init /\ [][Next]_vars

(***************************************************************************)
(* The daemon's tasks keep running: the publisher that has sent an event   *)
(* buffers it, a stream's task goes on, a run and its save tasks go on,    *)
(* a request that was admitted is finished, and the agent loop and the     *)
(* save it asks for are not left alone for ever.                           *)
(***************************************************************************)
FairSpec ==
    /\ Spec
    /\ WF_eventVars(part \in EventClients /\ push)
    /\ \A c \in SseClients : WF_eventVars(part = c /\ SseStep(c))
    /\ \A c \in WsClients : WF_eventVars(part = c /\ WsStep(c))
    /\ \A r \in Runs : WF_saveVars(part = Saves /\ RunStep(r))
    /\ \A r \in Runs, g \in Tasks : WF_saveVars(part = Saves /\ TaskStep(r, g))
    /\ \A p \in Puts : WF_saveVars(part = Saves /\ PutStep(p))
    /\ LoopGoesOn /\ SaveIsMade

\* Files can be brought back, by /undo because every manifest is intact, and by a
\* node's rollback because it ends where it says, crashes and failures included.
FilesComeBack == CheckpointsTypeOK /\ RollbackKeepsItsWord

\* What a project's processes and agents share stays usable: an open task is ready on
\* a list nothing drifted from, and one process at a time consolidates the memory.
SharedFilesSound == TaskListTypeOK /\ SomethingIsReady /\ OneConsolidator

\* Nothing goes back to an earlier state: a client gets each event after the ones
\* before it, and a save of an older history never replaces a newer one.
NothingGoesBack == DeliveredInOrder /\ NoStaleOverwrite

\* Streams, runs and turns come to their end: a connected client gets every event,
\* a run ends with its history saved, and a turn of the loop is over.
StoresProgress == EventsArrive /\ RunSaves /\ TurnEnds
=============================================================================
