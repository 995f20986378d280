---------------------------- MODULE SessionSaves ----------------------------
(***************************************************************************)
(* Who writes a session's history, and in which order (daemon/run_loop.rs, *)
(* context/memory_session.rs, daemon/handlers/sessions.rs).  A run saves   *)
(* when it starts and when it ends; in between every SaveSession event     *)
(* spawns a task that copies the live history and saves it on its own      *)
(* time.  Clients overwrite the session with PUT or delete it.  A save is  *)
(* a read of the index, a write to disk and a write to the index; only     *)
(* the tasks and the final save of one run share a lock and a generation   *)
(* counter, and only PUTs share the update lock.                           *)
(*                                                                         *)
(* A history is the set of the changes it contains: <<r, k>> is change k   *)
(* of run r, k = 0 being the message that started it, and <<0, p>> what    *)
(* PUT p brings.  The live history of a run is behind a fair tokio mutex:  *)
(* lane[r] is its holder followed by its waiters.  Which run is active is  *)
(* RunScheduler's business; here one run starts when no other is active.   *)
(***************************************************************************)
EXTENDS Integers, Sequences, FiniteSets

CONSTANTS
    Puts,           \* PUT /sessions/:id requests
    Gone,           \* no session file, no index entry
    MaxRuns,        \* bound: runs, one after the other
    MaxChanges,     \* bound: changes a run makes to its history
    MaxSaves,       \* bound: SaveSession events of a run
    MaxWork,        \* bound: runs, SaveSession events and PUTs together
    MaxDisturbances      \* bound: cancellations, panics, failed writes, deletions; all
                    \* the PUTs together count as one

Runs == 1..MaxRuns
Changes == (Runs \X (0..MaxChanges)) \cup ({0} \X Puts)
Sessions == [ver : Nat, msgs : SUBSET Changes]

ASSUME SavesAssumption ==
    {MaxRuns, MaxChanges, MaxSaves, MaxWork, MaxDisturbances} \subseteq Nat
ASSUME GoneAssumption == Gone \notin Sessions

VARIABLES disk, index, run, job, save_gen, save_lock, lane, put, update_lock,
          disturbances, landed, meddled, died, stranded

saveVars == <<disk, index, run, job, save_gen, save_lock, lane, put, update_lock,
              disturbances, landed, meddled, died, stranded>>

\* A run's saves: 0 is its own (start, title, final), the others are the tasks
\* its SaveSession events spawn, named by the generation they claimed.
Jobs == 0..MaxSaves
Tasks == 1..MaxSaves
\* Who may queue for the live history: the loop, the final save (0), a task.
TheLoop == -1

NoJob == [at |-> "none", gen |-> 0, snap |-> {}, next |-> Gone]
Over(outcome) == [NoJob EXCEPT !.at = outcome]
NoRun == [at |-> "none", history |-> {}, count |-> 0, ok |-> FALSE]

\* History variables: the PUTs written since versions last started over; the runs
\* whose file somebody else wrote; those that panicked; those cancelled in the
\* queue for their history.
quiet == <<landed, meddled, died, stranded>>
clients == <<put, update_lock>>

Active(r) == run[r].at \notin {"none", "settled"}
Begun == {r \in Runs : run[r].at # "none"}
is_active == \E r \in Runs : Active(r)

SavesInit ==
    /\ disk = [ver |-> 0, msgs |-> {}] /\ index = disk
    /\ run = [r \in Runs |-> NoRun]
    /\ job = [r \in Runs |-> [g \in Jobs |-> NoJob]]
    /\ save_gen = [r \in Runs |-> 0]
    /\ save_lock = [r \in Runs |-> {}]
    /\ lane = [r \in Runs |-> <<>>]
    /\ put = [p \in Puts |-> NoJob] /\ update_lock = {}
    /\ disturbances = 0
    /\ landed = {} /\ meddled = {} /\ died = {} /\ stranded = {}

Work ==
    Cardinality(Begun) + Cardinality({p \in Puts : put[p].at # "none"})
        + Cardinality({t \in Runs \X Tasks : job[t[1]][t[2]].at # "none"})
Disturb == disturbances < MaxDisturbances /\ disturbances' = disturbances + 1

(***************************************************************************)
(* save_session_history: read the index, write the file, write the index.  *)
(***************************************************************************)
\* A run's save is over; its outcome is in job[r][g].at.
SaveGet(r, g) ==
    /\ job[r][g].at = "checked"
    /\ IF index = Gone
       THEN /\ job' = [job EXCEPT ![r][g] = Over("failed")]
            /\ save_lock' = [save_lock EXCEPT ![r] = @ \ {g}]
       ELSE /\ job' = [job EXCEPT ![r][g] = [@ EXCEPT !.at = "got",
                    !.next = [ver |-> index.ver + 1, msgs |-> job[r][g].snap]]]
            /\ UNCHANGED save_lock
    /\ UNCHANGED <<disk, index, run, save_gen, lane, clients, disturbances, quiet>>

SavePersist(r, g) ==
    /\ job[r][g].at = "got"
    /\ disk' = job[r][g].next
    /\ job' = [job EXCEPT ![r][g].at = "persisted"]
    /\ meddled' = IF r \in died THEN Begun ELSE meddled
    /\ landed' = IF disk # Gone /\ job[r][g].next.ver < disk.ver THEN {} ELSE landed
    /\ UNCHANGED <<index, run, save_gen, save_lock, lane, clients, disturbances,
                   died, stranded>>

SaveIndex(r, g) ==
    /\ job[r][g].at = "persisted"
    /\ index' = job[r][g].next
    /\ job' = [job EXCEPT ![r][g] = Over("saved")]
    /\ save_lock' = [save_lock EXCEPT ![r] = @ \ {g}]
    /\ UNCHANGED <<disk, run, save_gen, lane, clients, disturbances, quiet>>

\* The write to disk fails; the caller logs and goes on.
SaveFails(r, g) ==
    /\ job[r][g].at = "got" /\ Disturb
    /\ job' = [job EXCEPT ![r][g] = Over("failed")]
    /\ save_lock' = [save_lock EXCEPT ![r] = @ \ {g}]
    /\ UNCHANGED <<disk, index, run, save_gen, lane, clients, quiet>>

Saving(r, g) == SaveGet(r, g) \/ SavePersist(r, g) \/ SaveIndex(r, g)

(***************************************************************************)
(* guarded_save.                                                           *)
(***************************************************************************)
\* Wrong: trusts the generation it had when it was spawned.
NeverSuperseded(r, g) == FALSE

Superseded(r, g) == save_gen[r] # job[r][g].gen

\* Wrong: compares the generations before it has the lock.
UnlockedSave(r, g) ==
    /\ job[r][g].at = "snapped"
    /\ job' = [job EXCEPT ![r][g].at = IF Superseded(r, g) THEN "skipped" ELSE "checked"]
    /\ UNCHANGED <<disk, index, run, save_gen, save_lock, lane, clients, disturbances, quiet>>

GuardedSave(r, g) ==
    /\ job[r][g].at = "snapped" /\ save_lock[r] = {}
    /\ IF Superseded(r, g)
       THEN /\ job' = [job EXCEPT ![r][g] = Over("skipped")]
            /\ UNCHANGED save_lock
       ELSE /\ job' = [job EXCEPT ![r][g].at = "checked"]
            /\ save_lock' = [save_lock EXCEPT ![r] = {g}]
    /\ UNCHANGED <<disk, index, run, save_gen, lane, clients, disturbances, quiet>>

\* Wrong: hands out the generation that was current before.
ClaimsOldGeneration(r) == save_gen[r]

claim_save_generation(r) == save_gen[r] + 1

(***************************************************************************)
(* The run: run_session_turn.                                              *)
(***************************************************************************)
Claim(r) ==
    /\ run[r].at = "none" /\ ~ is_active /\ Work < MaxWork
    /\ \A q \in 1..(r - 1) : run[q].at = "settled"
    /\ run' = [run EXCEPT ![r].at = "claimed"]
    /\ UNCHANGED <<disk, index, job, save_gen, save_lock, lane, clients, disturbances, quiet>>

\* The seed is the session on disk plus the new message; reading it refreshes
\* the index.  A vanished session ends the run.
Seed(r) ==
    /\ run[r].at = "claimed"
    /\ IF disk = Gone
       THEN /\ run' = [run EXCEPT ![r].at = "settled"]
            /\ UNCHANGED <<index, job>>
       ELSE LET h == disk.msgs \cup {<<r, 0>>} IN
            /\ run' = [run EXCEPT ![r] = [@ EXCEPT !.at = "starting", !.history = h]]
            /\ job' = [job EXCEPT ![r][0] = [NoJob EXCEPT !.at = "checked", !.snap = h]]
            /\ index' = disk
    /\ UNCHANGED <<disk, save_gen, save_lock, lane, clients, disturbances, quiet>>

\* The start save is on disk, or the run ends without having run.  An unnamed
\* session is then given a title: read from disk, written back.
Started(r) ==
    /\ run[r].at = "starting" /\ job[r][0].at \in {"saved", "failed"}
    /\ \/ run' = [run EXCEPT ![r].at = IF job[r][0].at = "saved" THEN "loop" ELSE "settled"]
          /\ UNCHANGED <<index, job>>
       \/ /\ job[r][0].at = "saved" /\ disk # Gone
          /\ index' = disk
          /\ job' = [job EXCEPT ![r][0] = [@ EXCEPT !.at = "got", !.next = disk]]
          /\ run' = [run EXCEPT ![r].at = "titling"]
    /\ UNCHANGED <<disk, save_gen, save_lock, lane, clients, disturbances, quiet>>

Titled(r) ==
    /\ run[r].at = "titling" /\ job[r][0].at \in {"saved", "failed"}
    /\ run' = [run EXCEPT ![r].at = "loop"]
    /\ UNCHANGED <<disk, index, job, save_gen, save_lock, lane, clients, disturbances, quiet>>

\* The loop changes the history, at once or when the mutex is its own.
Change(r) ==
    /\ run[r].count < MaxChanges
    /\ \/ run[r].at = "loop" /\ lane[r] = <<>>
          /\ UNCHANGED lane
       \/ run[r].at = "waiting" /\ Head(lane[r]) = TheLoop
          /\ lane' = [lane EXCEPT ![r] = Tail(@)]
    /\ LET n == run[r].count + 1 IN
       run' = [run EXCEPT ![r] = [@ EXCEPT !.at = "loop", !.count = n,
                    !.history = run[r].history \cup {<<r, n>>}]]
    /\ UNCHANGED <<disk, index, job, save_gen, save_lock, clients, disturbances, quiet>>

ChangeWaits(r) ==
    /\ run[r].at = "loop" /\ run[r].count < MaxChanges /\ lane[r] # <<>>
    /\ run' = [run EXCEPT ![r].at = "waiting"]
    /\ lane' = [lane EXCEPT ![r] = Append(@, TheLoop)]
    /\ UNCHANGED <<disk, index, job, save_gen, save_lock, clients, disturbances, quiet>>

\* emit(SaveSession): the generation is claimed now, the rest is spawned.
SaveSession(r) ==
    LET g == claim_save_generation(r) IN
    /\ run[r].at = "loop" /\ save_gen[r] < MaxSaves /\ Work < MaxWork
    /\ save_gen' = [save_gen EXCEPT ![r] = @ + 1]
    /\ job' = [job EXCEPT ![r][save_gen[r] + 1] = [NoJob EXCEPT !.at = "spawned", !.gen = g]]
    /\ UNCHANGED <<disk, index, run, save_lock, lane, clients, disturbances, quiet>>

\* history.lock().await.clone() of the task: queue, then copy.
TaskQueues(r, g) ==
    /\ job[r][g].at = "spawned"
    /\ job' = [job EXCEPT ![r][g].at = "queued"]
    /\ lane' = [lane EXCEPT ![r] = Append(@, g)]
    /\ UNCHANGED <<disk, index, run, save_gen, save_lock, clients, disturbances, quiet>>

TaskCopies(r, g) ==
    /\ job[r][g].at = "queued" /\ Head(lane[r]) = g
    /\ job' = [job EXCEPT ![r][g] = [@ EXCEPT !.at = "snapped", !.snap = run[r].history]]
    /\ lane' = [lane EXCEPT ![r] = Tail(@)]
    /\ UNCHANGED <<disk, index, run, save_gen, save_lock, clients, disturbances, quiet>>

\* The loop ends by itself, or the cancelled token wins the select.  In both
\* cases its future is pinned and lives on unpolled: a place it has in the
\* queue for the history is never given up.
LoopEnds(r) ==
    /\ run[r].at = "loop"
    /\ run' = [run EXCEPT ![r].at = "ending"]
    /\ UNCHANGED <<disk, index, job, save_gen, save_lock, lane, clients, disturbances, quiet>>

Cancel(r) ==
    /\ run[r].at \in {"loop", "waiting"} /\ Disturb
    /\ run' = [run EXCEPT ![r].at = "ending"]
    /\ stranded' = IF run[r].at = "waiting" THEN stranded \cup {r} ELSE stranded
    /\ UNCHANGED <<disk, index, job, save_gen, save_lock, lane, clients, landed, meddled, died>>

\* A panic drops the run's future and with it its claim; its tasks live on.
Die(r) ==
    /\ run[r].at \in {"loop", "waiting"} /\ Disturb
    /\ run' = [run EXCEPT ![r].at = "settled"]
    /\ lane' = [lane EXCEPT ![r] = SelectSeq(@, LAMBDA w : w # TheLoop)]
    /\ died' = died \cup {r}
    /\ UNCHANGED <<disk, index, job, save_gen, save_lock, clients, landed, meddled, stranded>>

\* history_handle.lock().await of the final save.
FinalQueues(r) ==
    /\ run[r].at = "ending"
    /\ run' = [run EXCEPT ![r].at = "final"]
    /\ lane' = [lane EXCEPT ![r] = Append(@, 0)]
    /\ UNCHANGED <<disk, index, job, save_gen, save_lock, clients, disturbances, quiet>>

\* The final save copies the history and claims the newest generation.
FinalCopies(r) ==
    LET g == claim_save_generation(r) IN
    /\ run[r].at = "final" /\ Head(lane[r]) = 0
    /\ run' = [run EXCEPT ![r].at = "saving"]
    /\ lane' = [lane EXCEPT ![r] = Tail(@)]
    /\ save_gen' = [save_gen EXCEPT ![r] = @ + 1]
    /\ job' = [job EXCEPT ![r][0] = [NoJob EXCEPT !.at = "snapped", !.gen = g,
                                                 !.snap = run[r].history]]
    /\ UNCHANGED <<disk, index, save_lock, clients, disturbances, quiet>>

\* Wrong: takes a final save that failed for a good one.
SettleRegardless(r) ==
    /\ run[r].at = "saving" /\ job[r][0].at \in {"saved", "failed", "skipped"}
    /\ run' = [run EXCEPT ![r] = [@ EXCEPT !.at = "settled", !.ok = TRUE]]
    /\ UNCHANGED <<disk, index, job, save_gen, save_lock, lane, clients, disturbances, quiet>>

Settle(r) ==
    /\ run[r].at = "saving" /\ job[r][0].at \in {"saved", "failed", "skipped"}
    /\ run' = [run EXCEPT ![r] = [@ EXCEPT !.at = "settled", !.ok = job[r][0].at = "saved"]]
    /\ UNCHANGED <<disk, index, job, save_gen, save_lock, lane, clients, disturbances, quiet>>

(***************************************************************************)
(* Clients.                                                                *)
(***************************************************************************)
\* Wrong: PUTs do not wait for each other.
Unserialized == TRUE

UpdateLockFree == update_lock = {}

\* update_session takes the update lock and refuses while a run is active.
PutBegins(p) ==
    /\ put[p].at = "none" /\ UpdateLockFree
    /\ Work < MaxWork
    /\ IF \E q \in Puts : put[q].at # "none" THEN UNCHANGED disturbances ELSE Disturb
    /\ IF is_active
       THEN put' = [put EXCEPT ![p].at = "refused"] /\ UNCHANGED update_lock
       ELSE put' = [put EXCEPT ![p].at = "locked"] /\ update_lock' = update_lock \cup {p}
    /\ UNCHANGED <<disk, index, run, job, save_gen, save_lock, lane, quiet>>

\* It reads the session from disk, or starts a new one, and compares the
\* version the client expects, which may be this one or another.  (A PUT whose
\* write then fails leaves what a refused one leaves.)
PutLoads(p) ==
    LET session == IF disk = Gone THEN [ver |-> 0, msgs |-> {}] ELSE disk IN
    /\ put[p].at = "locked"
    /\ index' = IF disk = Gone THEN index ELSE disk
    /\ \/ /\ put' = [put EXCEPT ![p].at = "refused"]
          /\ update_lock' = update_lock \ {p}
       \/ /\ put' = [put EXCEPT ![p] = [@ EXCEPT !.at = "got", !.gen = session.ver,
                        !.next = [ver |-> session.ver + 1, msgs |-> {<<0, p>>}]]]
          /\ UNCHANGED update_lock
    /\ UNCHANGED <<disk, run, job, save_gen, save_lock, lane, disturbances, quiet>>

PutPersists(p) ==
    /\ put[p].at = "got"
    /\ disk' = put[p].next
    /\ put' = [put EXCEPT ![p].at = "persisted"]
    /\ meddled' = Begun
    /\ landed' = landed \cup {p}
    /\ UNCHANGED <<index, run, job, save_gen, save_lock, lane, update_lock, disturbances,
                   died, stranded>>

PutAnswers(p) ==
    /\ put[p].at = "persisted"
    /\ index' = put[p].next
    /\ put' = [put EXCEPT ![p] = [Over("ok") EXCEPT !.gen = put[p].gen]]
    /\ update_lock' = update_lock \ {p}
    /\ UNCHANGED <<disk, run, job, save_gen, save_lock, lane, disturbances, quiet>>

\* delete_session asks nobody: the file goes, then the index entry.
DeleteFile ==
    /\ disk # Gone /\ Disturb
    /\ disk' = Gone
    /\ meddled' = Begun
    /\ landed' = {}
    /\ UNCHANGED <<index, run, job, save_gen, save_lock, lane, clients, died, stranded>>

DeleteIndex ==
    /\ disk = Gone /\ index # Gone
    /\ index' = Gone
    /\ UNCHANGED <<disk, run, job, save_gen, save_lock, lane, clients, disturbances, quiet>>

(***************************************************************************)
(* The session.                                                            *)
(***************************************************************************)
TaskStep(r, g) == TaskQueues(r, g) \/ TaskCopies(r, g) \/ GuardedSave(r, g) \/ Saving(r, g)

\* What a run does when nobody interferes.
RunStep(r) ==
    \/ Seed(r) \/ Started(r) \/ Titled(r) \/ LoopEnds(r)
    \/ run[r].at = "waiting" /\ Change(r)
    \/ FinalQueues(r) \/ FinalCopies(r) \/ GuardedSave(r, 0) \/ Saving(r, 0) \/ Settle(r)

PutStep(p) == PutLoads(p) \/ PutPersists(p) \/ PutAnswers(p)

SavesNext ==
    \/ \E r \in Runs :
          \/ Claim(r) \/ RunStep(r) \/ Change(r) \/ ChangeWaits(r) \/ SaveSession(r)
          \/ Cancel(r) \/ Die(r)
          \/ \E g \in Tasks : TaskStep(r, g)
          \/ \E g \in Jobs : SaveFails(r, g)
    \/ \E p \in Puts : PutBegins(p) \/ PutStep(p)
    \/ DeleteFile \/ DeleteIndex

(***************************************************************************)
(* Properties.                                                             *)
(***************************************************************************)
JobStates == {"none", "spawned", "queued", "snapped", "checked", "got", "persisted",
              "saved", "failed", "skipped", "locked", "refused", "ok"}

\* The save lock of a run has one holder, which is between its check and the
\* end of its save; the update lock belongs to the PUTs under way.
SavesTypeOK ==
    /\ disk \in Sessions \cup {Gone} /\ index \in Sessions \cup {Gone}
    /\ \A r \in Runs :
          /\ run[r].history \subseteq Changes /\ save_gen[r] \in 0..(MaxSaves + 1)
          /\ Cardinality(save_lock[r]) <= 1
          /\ \A g \in Jobs : job[r][g].at \in JobStates
          /\ \A g \in Tasks :
                job[r][g].at \in {"checked", "got", "persisted"} <=> save_lock[r] = {g}
    /\ update_lock = {p \in Puts : put[p].at \in {"locked", "got", "persisted"}}

\* A save never takes back what its own run, or a later one, already has on
\* disk: a delayed snapshot task finds that a newer generation was claimed, and
\* a task that has passed that check finishes before the newer save starts.
\* Tasks of a run that panicked are not covered: no final save claims a
\* generation over theirs.
NoStaleOverwrite ==
    [][\A r \in Runs \ died, g \in Jobs :
          (job[r][g].at = "got" /\ job'[r][g].at = "persisted" /\ disk # Gone) =>
              {c \in disk.msgs : c[1] >= r} \subseteq disk'.msgs]_saveVars

\* The final save stands: once a run has settled with its history saved, that
\* history stays on disk, however late its snapshot tasks are, until a client,
\* or a task of a run that panicked, writes.
FinalSaveStands ==
    \A r \in Runs :
        (run[r].at = "settled" /\ run[r].ok /\ r \notin meddled) => run[r].history \subseteq disk.msgs

\* Of the PUTs that expect one version at most one is written, also while a run
\* starts in the middle of it.  Versions are a session's own: they start over
\* when its file is deleted, and go back when a title, or a save of a run that
\* panicked, is written over a newer file; landed starts over with them.
OnePutPerVersion ==
    \A p, q \in landed : put[p].gen = put[q].gen => p = q

\* What was saved stands: the locks have one holder each, no late snapshot task
\* takes back a settled run's history, and no second PUT the first one's.
SavesStand == SavesTypeOK /\ FinalSaveStands /\ OnePutPerVersion

\* A run whose history may stay unsaved: it panicked, it was cancelled in the
\* queue for its history, a write failed, or its session vanished.
Excused(r) ==
    \/ r \in died \cup stranded
    \/ run[r].at = "settled" /\ (job[r][0].at = "failed" \/ run[r].history = {})

\* Every other run ends, and ends with its history saved, cancelled or not.
RunSaves == \A r \in Runs : Active(r) ~> (run[r].ok \/ Excused(r))

\* Every run that is cancelled, or ends by itself, settles: "cancellation drops
\* the loop future; the final save below still runs".
RunSettles == \A r \in Runs : run[r].at = "ending" ~> run[r].at = "settled"
=============================================================================
