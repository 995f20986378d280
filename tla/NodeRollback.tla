---------------------------- MODULE NodeRollback ----------------------------
(***************************************************************************)
(* The workspace behind the nodes of an execution session                  *)
(* (exec_session/coordinator.rs, git.rs, session.rs; rollback_node of      *)
(* node_runtime.rs).  A session has one execution turn, begun by           *)
(* ensure_turn with the first work-graph tool: it makes a snapshot         *)
(* directory, records HEAD and the untracked files, and saves session.json.*)
(* Every node starts in that turn.  rollback_node resets git, rewinds the  *)
(* snapshot, deletes the files made since and truncates the node chain, in *)
(* steps that a failure or a crash may cut; agents edit and commit between *)
(* any two of them.                                                        *)
(*                                                                         *)
(* A content is the number of the write that made it, 0 is no file.  A     *)
(* commit is the content of every file in it; `git add` and `git commit`   *)
(* are one step.  The project is a git repository with a commit.  The      *)
(* file tools capture under the id of the daemon's turn, never under that  *)
(* of the execution turn, so its snapshot is empty and the rewind only     *)
(* asks whether it is there.                                               *)
(***************************************************************************)
EXTENDS Integers, Sequences

CONSTANTS
    ProjectFiles,
    Committed,        \* the files in the commit the session finds
    OwnFiles,         \* the user's untracked files
    SnapshotsKept,    \* keep_n of the checkpoint store
    MaxWrites,        \* bound: edits
    MaxNodes,         \* bound: nodes begun
    MaxFaults         \* bound: failed writes and crashes

ASSUME NodeRollbackAssumption ==
    /\ Committed \subseteq ProjectFiles /\ OwnFiles \subseteq ProjectFiles \ Committed
    /\ SnapshotsKept \in Nat \ {0} /\ {MaxWrites, MaxNodes, MaxFaults} \subseteq Nat

VARIABLES
    work,       \* file -> content in the working tree
    log,        \* the commits HEAD can reach, newest last
    turn,       \* the execution turn in memory, or NoTurnYet
    nodes,      \* the node chain in memory; the last node is the current one
    onDisk,     \* session.json: turn and nodes
    snapshot,   \* the directory of the turn: how many newer ones there are, or -1
    call,       \* the begin_turn or rollback_node that holds the coordinator's lock
    writes, begun, faults,
    published,  \* history: the files committed since the turn began
    during      \* history: the files written or committed while the last rollback ran

rollbackVars == <<work, log, turn, nodes, onDisk, snapshot, call, writes, begun, faults,
                  published, during>>

project == <<work, log, published>>
session == <<turn, nodes, onDisk>>

NoTurnYet == [head |-> 0, untracked |-> {}]
NoCall == [at |-> "idle", anchor |-> 0]
Missing == -1

Tip == log[Len(log)]
Untracked == {f \in ProjectFiles : work[f] # 0 /\ Tip[f] = 0}

RollbackInit ==
    /\ work = [f \in ProjectFiles |-> IF f \in Committed \cup OwnFiles THEN 1 ELSE 0]
    /\ log = <<[f \in ProjectFiles |-> IF f \in Committed THEN 1 ELSE 0]>>
    /\ turn = NoTurnYet /\ nodes = <<>> /\ onDisk = [turn |-> NoTurnYet, nodes |-> <<>>]
    /\ snapshot = Missing /\ call = NoCall
    /\ writes = 1 /\ begun = 0 /\ faults = 0
    /\ published = {} /\ during = {}

(***************************************************************************)
(* The agents, whom the coordinator's lock does not stop.                  *)
(***************************************************************************)
Write(f) ==
    /\ writes < MaxWrites
    /\ writes' = writes + 1 /\ work' = [work EXCEPT ![f] = writes + 1]
    /\ during' = IF call.at = "idle" THEN during ELSE during \cup {f}
    /\ UNCHANGED <<log, published, session, snapshot, call, begun, faults>>

Commit(fs) ==
    LET after == [f \in ProjectFiles |-> IF f \in fs THEN work[f] ELSE Tip[f]] IN
    /\ after # Tip
    /\ log' = Append(log, after)
    /\ published' = IF turn = NoTurnYet THEN {} ELSE published \cup fs
    /\ during' = IF call.at = "idle" THEN during ELSE during \cup fs
    /\ UNCHANGED <<work, session, snapshot, call, writes, begun, faults>>

\* The first capture of a turn of the daemon makes a directory and prunes down
\* to keep_n.
NewerSnapshot ==
    /\ snapshot # Missing
    /\ snapshot' = IF snapshot + 1 >= SnapshotsKept THEN Missing ELSE snapshot + 1
    /\ UNCHANGED <<project, session, call, writes, begun, faults, during>>

(***************************************************************************)
(* session.json.                                                           *)
(***************************************************************************)
Fault == faults < MaxFaults /\ faults' = faults + 1

\* save writes a temporary file and renames it: all of the session or nothing.
Save(ok) ==
    IF ok THEN onDisk' = [turn |-> turn', nodes |-> nodes'] /\ UNCHANGED faults
          ELSE Fault /\ UNCHANGED onDisk

\* The daemon dies and opens the session again.
open_or_create ==
    /\ Fault
    /\ turn' = onDisk.turn /\ nodes' = onDisk.nodes /\ call' = NoCall
    /\ UNCHANGED <<project, onDisk, snapshot, writes, begun, during>>

(***************************************************************************)
(* ensure_turn and begin_turn.                                             *)
(***************************************************************************)
ensure_turn_begins ==
    /\ call = NoCall /\ turn = NoTurnYet
    /\ snapshot' = 0 /\ call' = [NoCall EXCEPT !.at = "record"]
    /\ UNCHANGED <<project, session, writes, begun, faults, during>>

\* Without the save the turn stays in memory, and the next call finds it there.
begin_turn ==
    /\ call.at = "record" /\ call' = NoCall
    /\ turn' = [head |-> Len(log), untracked |-> Untracked] /\ UNCHANGED nodes
    /\ \E ok \in BOOLEAN : Save(ok)
    /\ published' = {}
    /\ UNCHANGED <<work, log, snapshot, writes, begun, during>>

(***************************************************************************)
(* Nodes.  head is history: the commits there were when the node became    *)
(* Verified.                                                               *)
(***************************************************************************)
Terminal(n) == n.status \in {"Verified", "Failed"}

begin_node ==
    /\ call = NoCall /\ turn # NoTurnYet /\ begun < MaxNodes
    /\ nodes # <<>> => Terminal(nodes[Len(nodes)])
    /\ begun' = begun + 1
    /\ nodes' = Append(nodes, [status |-> "Running", head |-> 0]) /\ UNCHANGED turn
    /\ \E ok \in BOOLEAN : Save(ok)
    /\ UNCHANGED <<project, snapshot, call, writes, during>>

update_node_status(status) ==
    /\ call = NoCall /\ nodes # <<>> /\ ~ Terminal(nodes[Len(nodes)])
    /\ nodes' = [nodes EXCEPT ![Len(nodes)] =
                    [status |-> status, head |-> IF status = "Verified" THEN Len(log) ELSE 0]]
    /\ UNCHANGED turn
    /\ \E ok \in BOOLEAN : Save(ok)
    /\ UNCHANGED <<project, snapshot, call, writes, begun, during>>

(***************************************************************************)
(* rollback_node.                                                          *)
(***************************************************************************)
Bail == call' = NoCall
Go(at) == call' = [call EXCEPT !.at = at]

\* The anchor is the last Verified or Failed node; there is work to take back
\* if a node follows it, or if it failed itself.
rollback_node ==
    /\ call = NoCall
    /\ \E i \in DOMAIN nodes :
          /\ Terminal(nodes[i]) /\ \A j \in (i + 1)..Len(nodes) : ~ Terminal(nodes[j])
          /\ i < Len(nodes) \/ nodes[i].status = "Failed"
          /\ call' = [at |-> "reset", anchor |-> i]
    /\ during' = {}
    /\ UNCHANGED <<project, session, snapshot, writes, begun, faults>>

\* git reset --hard: a file that neither commit has is left alone.
ResetTo(h) ==
    /\ log' = SubSeq(log, 1, h)
    /\ work' = [f \in ProjectFiles |->
                   IF Tip[f] = 0 /\ log[h][f] = 0 THEN work[f] ELSE log[h][f]]

\* Wrong: one commit counts as none.
KeepsOneCommit ==
    /\ call.at = "reset"
    /\ IF Len(log) > turn.head + 1 THEN Bail ELSE Go("rewind")
    /\ UNCHANGED <<project, session, snapshot, writes, begun, faults, during>>

\* One commit is the agent's own; more than one is refused.
reset_git_head_if_needed ==
    /\ call.at = "reset"
    /\ \/ Len(log) = turn.head /\ Go("rewind") /\ UNCHANGED <<work, log>>
       \/ Len(log) = turn.head + 1 /\ Go("rewind") /\ ResetTo(turn.head)
       \/ Len(log) > turn.head + 1 /\ Bail /\ UNCHANGED <<work, log>>
    /\ UNCHANGED <<published, session, snapshot, writes, begun, faults, during>>

\* Nothing is captured under the execution turn's id: the rewind reads its
\* manifest and restores nothing, or fails because the directory was pruned.
rewind ==
    /\ call.at = "rewind"
    /\ IF snapshot = Missing THEN Bail ELSE Go("delete")
    /\ UNCHANGED <<project, session, snapshot, writes, begun, faults, during>>

\* Wrong: `git clean`, without the list the turn recorded.
CleanUntracked ==
    /\ call.at = "delete" /\ Go("save")
    /\ work' = [f \in ProjectFiles |-> IF f \in Untracked THEN 0 ELSE work[f]]
    /\ UNCHANGED <<log, published, session, snapshot, writes, begun, faults, during>>

\* A file that cannot be deleted ends the rollback half way.
delete_new_untracked ==
    /\ call.at = "delete"
    /\ \E fs \in SUBSET (Untracked \ turn.untracked) :
          /\ work' = [f \in ProjectFiles |-> IF f \in fs THEN 0 ELSE work[f]]
          /\ IF fs = Untracked \ turn.untracked THEN Go("save") /\ UNCHANGED faults
                                                ELSE Bail /\ Fault
    /\ UNCHANGED <<log, published, session, snapshot, writes, begun, during>>

\* The cursor stays on the only turn there is.
save_cursor ==
    /\ call.at = "save" /\ UNCHANGED <<turn, nodes>>
    /\ \E ok \in BOOLEAN : Save(ok) /\ IF ok THEN Go("truncate") ELSE Bail
    /\ UNCHANGED <<project, snapshot, writes, begun, during>>

\* A Failed anchor goes with the nodes after it.
truncate_nodes_after ==
    /\ call.at = "truncate" /\ call' = NoCall
    /\ nodes' = SubSeq(nodes, 1, IF nodes[call.anchor].status = "Failed"
                                 THEN call.anchor - 1 ELSE call.anchor)
    /\ UNCHANGED turn
    /\ \E ok \in BOOLEAN : Save(ok)
    /\ UNCHANGED <<project, snapshot, writes, begun, during>>

RollbackNext ==
    \/ \E f \in ProjectFiles : Write(f)
    \/ \E fs \in SUBSET ProjectFiles : Commit(fs)
    \/ NewerSnapshot \/ open_or_create
    \/ ensure_turn_begins \/ begin_turn
    \/ begin_node \/ \E s \in {"Verified", "Failed"} : update_node_status(s)
    \/ rollback_node \/ reset_git_head_if_needed \/ rewind \/ delete_new_untracked
    \/ save_cursor \/ truncate_nodes_after

(***************************************************************************)
(* Properties.                                                             *)
(***************************************************************************)
\* A rollback that has passed its stages left the workspace at the commit the
\* turn began with and without files made since, however many earlier attempts
\* a crash, an error or the prune cut half way; only what agents wrote or
\* committed while it ran may be left.
RollbackLands ==
    call.at \in {"save", "truncate"} =>
        /\ during = {} => Len(log) = turn.head
        /\ Untracked \subseteq turn.untracked \cup during

\* "It never touches files the user had before the turn": such a file is
\* still there, unless it was committed meanwhile and went with the commit.
OwnFilesKept == \A f \in turn.untracked : work[f] # 0 \/ f \in published

\* What a rollback promises of the workspace, through crashes and failures.
RollbackKeepsItsWord == RollbackLands /\ OwnFilesKept

\* rollback_node goes back "to the most recent `Verified` node ... restoring the
\* workspace to the verified node's state": the commits a node was verified
\* with outlive every rollback to it.
VerifiedWorkSurvives ==
    \A i \in DOMAIN nodes : nodes[i].status = "Verified" => nodes[i].head <= Len(log)
=============================================================================
