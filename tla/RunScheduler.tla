---------------------------- MODULE RunScheduler ----------------------------
(***************************************************************************)
(* The daemon's run slot and continuation scheduler for one session        *)
(* (src/src/daemon/run_loop.rs, with the inboxes of                        *)
(* src/src/daemon/state.rs).  A session runs one turn at a time.  A turn   *)
(* is started by a client's POST /run, or by the scheduler: from the       *)
(* results of background tasks, from a completed task group, or from the   *)
(* queue of messages that were posted while a turn was running.            *)
(*                                                                         *)
(* The scheduler is one task that handles one event after the other, but   *)
(* each lock it takes is a step of its own here: clients, background tasks *)
(* and the turn itself act in between.                                     *)
(***************************************************************************)
EXTENDS Integers, Sequences, FiniteSets

CONSTANTS Messages,         \* user messages clients post
          Tasks,            \* background tasks that report a result
          Groups,           \* task groups of the root that become ready
          RunIds,           \* run ids the daemon mints
          None,             \* no run, no claim
          MaxQueue,         \* MESSAGE_QUEUE_MAX_DEPTH
          BgCapacity,       \* BACKGROUND_RESULTS_CAPACITY
          MaxTombstones,    \* BACKGROUND_RESULT_TOMBSTONE_CAPACITY
          MaxReports,       \* bound on the reports of background results
          MaxFailures,      \* bound on failed saves and starts
          MaxRetractions    \* bound on DELETE requests

ASSUME CapacityAssumption ==
  /\ MaxQueue \in Nat \ {0} /\ BgCapacity \in Nat \ {0}
  /\ MaxTombstones \in Nat /\ MaxReports \in Nat
  /\ MaxFailures \in Nat /\ MaxRetractions \in Nat
ASSUME NoneAssumption == None \notin RunIds
\* Messages, results and groups are different things, and None is no claim.
ASSUME KindsAssumption ==
  /\ Messages \cap Tasks = {} /\ Messages \cap Groups = {} /\ Tasks \cap Groups = {}
  /\ None \notin [run : RunIds, tasks : Seq(Tasks)]
  /\ None \notin [run : RunIds, entry : [msg : Messages, run : RunIds]]

VARIABLES
  slot,        \* RunRegistry entry of the session: the run that owns it, or None
  runs,        \* run id -> [phase, items]: the turn and what its start message carries
  post,        \* message -> where its POST /run stands
  queue,       \* MessageInbox.pending: <<[msg, run], ...>>
  msgClaim,    \* MessageInbox.claim: [run, entry], or None
  pending, recovery,   \* BackgroundResultInbox: pending_order, recovery_order
  bgClaim,     \* its claimed batch: [run, tasks], or None
  consumed,    \* its tombstones, oldest first
  group,       \* group of the root -> "open", "ready" or "claimed"
  blocked,     \* the failed-save barrier (continuation_blocked)
  pings,       \* hints on their way to the channel: kind -> how many
  events,      \* the scheduler's channel
  sched,       \* the scheduler: [pc, run: the finished run it handles or None,
               \*   ok: whether that run saved, next: the run it claims for]
  history,     \* the items whose messages are in the persisted session, in order
  accepted,    \* history: results that record_background_result retained
  evicted,     \* history: results dropped at capacity
  promised,    \* history: message -> run id that POST /run returned for it
  parked,      \* history: messages that were queued, in that order
  unsaved,     \* history: the last turn that ended did not save
  reports, failures, retractions   \* counters for the bounds

slotVars  == <<slot, runs>>
queueVars == <<queue, msgClaim>>
bgVars    == <<pending, recovery, bgClaim, consumed, accepted, evicted>>
chanVars  == <<pings, events>>
postVars  == <<post, promised, parked>>
counters  == <<reports, failures, retractions>>
vars == <<slotVars, postVars, queueVars, bgVars, group, blocked, chanVars, sched,
          history, unsaved, counters>>

-----------------------------------------------------------------------------

Elems(s) == {s[i] : i \in DOMAIN s}
FirstN(s, n) == SubSeq(s, 1, IF n < Len(s) THEN n ELSE Len(s))
DropN(s, n) == SubSeq(s, n + 1, Len(s))
LastN(s, n) == DropN(s, IF n < Len(s) THEN Len(s) - n ELSE 0)

Unused == [phase |-> "unused", items |-> <<>>]

\* "starting": before its start save.  "saved", "unstarted": that save succeeded
\* or failed, and the claims are not settled yet.  "running": the agent loop.
Phases == {"unused", "starting", "saved", "unstarted", "running", "ended"}
Active(r) == runs[r].phase \notin {"unused", "ended"}

\* A uuid nobody has seen yet; RunIds bounds how many turns a behaviour has.  (One that was claimed and given back without a
\* turn left no trace, so the model may use it again.)
Fresh == {r \in RunIds : /\ runs[r] = Unused /\ slot # r
                         /\ \A m \in Messages : promised[m] # r}
Mint == CHOOSE r \in Fresh : TRUE

Init ==
  /\ slot = None
  /\ runs = [r \in RunIds |-> Unused]
  /\ post = [m \in Messages |-> "idle"]
  /\ promised = [m \in Messages |-> None]
  /\ parked = <<>>
  /\ queue = <<>> /\ msgClaim = None
  /\ pending = <<>> /\ recovery = <<>> /\ bgClaim = None
  /\ consumed = <<>> /\ accepted = {} /\ evicted = {}
  /\ group = [g \in Groups |-> "open"]
  /\ blocked = FALSE
  /\ pings = [k \in {"result", "group"} |-> 0]
  /\ events = <<>>
  /\ sched = [pc |-> "recv", run |-> None, ok |-> TRUE, next |-> None]
  /\ history = <<>>
  /\ unsaved = FALSE
  /\ reports = 0 /\ failures = 0 /\ retractions = 0

-----------------------------------------------------------------------------
(* The run registry                                                        *)

\* Wrong variant, for the mutation runs: a busy slot is taken over.
ClaimOverBusy(r) == slot' = r

RegistryClaim(r) == slot = None /\ slot' = r

\* Wrong variant: the release is forgotten.
FinishForgotten(r) == UNCHANGED slot

\* finish: only the owner releases.
RegistryFinish(r) == slot' = IF slot = r THEN None ELSE slot

\* handoff: the finished owner's claim becomes the next run's.
RegistryHandoff(finished, r) == slot = finished /\ slot' = r

\* spawn_claimed_session_turn
SpawnTurn(r, items) ==
  runs' = [runs EXCEPT ![r] = [phase |-> "starting", items |-> items]]

-----------------------------------------------------------------------------
(* Clients: POST /run, DELETE /queue, and task groups claimed by polling   *)

PostStarts(m) ==
  /\ post[m] = "idle" /\ Fresh # {}
  /\ RegistryClaim(Mint)
  /\ SpawnTurn(Mint, <<m>>)
  /\ post' = [post EXCEPT ![m] = "started"]
  /\ promised' = [promised EXCEPT ![m] = Mint]
  /\ UNCHANGED <<parked, queueVars, bgVars, group, blocked, chanVars, sched,
                 history, unsaved, counters>>

\* The slot is taken.  With queue=false the client gets 409; otherwise the
\* message is enqueued, in a later step.
PostBusy(m, wait) ==
  /\ post[m] = "idle" /\ slot # None
  /\ post' = [post EXCEPT ![m] = IF wait THEN "busy" ELSE "refused"]
  /\ UNCHANGED <<slotVars, promised, parked, queueVars, bgVars, group, blocked,
                 chanVars, sched, history, unsaved, counters>>

\* 202 with the run id the queued turn will have, or 429.
PostEnqueue(m) ==
  /\ post[m] = "busy" /\ Fresh # {}
  /\ IF Len(queue) < MaxQueue
     THEN /\ queue' = Append(queue, [msg |-> m, run |-> Mint])
          /\ post' = [post EXCEPT ![m] = "queued"]
          /\ promised' = [promised EXCEPT ![m] = Mint]
          /\ parked' = Append(parked, m)
     ELSE /\ post' = [post EXCEPT ![m] = "refused"]
          /\ UNCHANGED <<queue, promised, parked>>
  /\ UNCHANGED <<slotVars, msgClaim, bgVars, group, blocked, chanVars, sched,
                 history, unsaved, counters>>

Queued == {queue[i].msg : i \in DOMAIN queue}

\* DELETE /queue/:message_id answers 204 for a message that still waits, and
\* DELETE /queue retracts all of them.
Retract(gone, rest) ==
  /\ gone # {} /\ retractions < MaxRetractions
  /\ queue' = rest
  /\ post' = [m \in Messages |-> IF m \in gone THEN "retracted" ELSE post[m]]
  /\ retractions' = retractions + 1
  /\ UNCHANGED <<slotVars, promised, parked, msgClaim, bgVars, group, blocked,
                 chanVars, sched, history, unsaved, reports, failures>>

RetractOne(m) ==
  \E i \in DOMAIN queue :
    queue[i].msg = m /\ Retract({m}, FirstN(queue, i - 1) \o DropN(queue, i))

RetractAll == Retract(Queued, <<>>)

\* POST /agents/task-groups/claim by a polling client
ClientClaims(g) ==
  /\ group[g] = "ready"
  /\ group' = [group EXCEPT ![g] = "claimed"]
  /\ UNCHANGED <<slotVars, postVars, queueVars, bgVars, blocked, chanVars, sched,
                 history, unsaved, counters>>

-----------------------------------------------------------------------------
(* Background results and ready groups arrive                              *)

Claimed == IF bgClaim = None THEN <<>> ELSE bgClaim.tasks
Live == Elems(pending) \cup Elems(recovery) \cup Elems(Claimed)

\* Wrong variant: a result that was consumed is accepted again.
AcceptsConsumed(t) == t \notin Live

Accepts(t) == t \notin Live /\ t \notin Elems(consumed)

\* Wrong variant: the bound is off by one.
PendingFullLate == Len(pending) > BgCapacity

PendingFull == Len(pending) >= BgCapacity

\* enqueue: at capacity the oldest pending result makes room.
Enqueue(t) ==
  /\ pending' = Append(IF PendingFull THEN Tail(pending) ELSE pending, t)
  /\ evicted' = IF PendingFull THEN evicted \cup {Head(pending)} ELSE evicted
  /\ accepted' = accepted \cup {t}

\* record_background_result: a new result is retained and a hint is sent.  A
\* duplicate is dropped.
Report(t) ==
  /\ reports < MaxReports
  /\ reports' = reports + 1
  /\ IF Accepts(t)
     THEN Enqueue(t) /\ pings' = [pings EXCEPT !["result"] = @ + 1]
     ELSE UNCHANGED <<pending, evicted, accepted, pings>>
  /\ UNCHANGED <<slotVars, postVars, queueVars, recovery, bgClaim, consumed,
                 group, blocked, events, sched, history, unsaved, failures,
                 retractions>>

\* The coordinator records the last result of a root group and pings.
GroupReady(g) ==
  /\ group[g] = "open"
  /\ group' = [group EXCEPT ![g] = "ready"]
  /\ pings' = [pings EXCEPT !["group"] = @ + 1]
  /\ UNCHANGED <<slotVars, postVars, queueVars, bgVars, blocked, events, sched,
                 history, unsaved, counters>>

\* A hint reaches the scheduler's channel: the send after the result was
\* retained, or the task that forwards the coordinator's pings.
Ping(kind) ==
  /\ pings[kind] > 0
  /\ pings' = [pings EXCEPT ![kind] = @ - 1]
  /\ events' = Append(events, [kind |-> kind])
  /\ UNCHANGED <<slotVars, postVars, queueVars, bgVars, group, blocked, sched,
                 history, unsaved, counters>>

-----------------------------------------------------------------------------
(* The turn                                                                *)

SetPhase(r, p) == runs' = [runs EXCEPT ![r].phase = p]

\* RunClaimGuard is dropped: the scheduler learns how the turn ended.
EndTurn(r, ok) ==
  /\ SetPhase(r, "ended")
  /\ events' = Append(events, [kind |-> "finished", run |-> r, ok |-> ok])
  /\ unsaved' = ~ok

Fails(ok) == /\ ok \/ failures < MaxFailures
             /\ failures' = IF ok THEN failures ELSE failures + 1

\* The user message, with the session's history before it, is persisted.
StartSave(r, ok) ==
  /\ runs[r].phase = "starting"
  /\ Fails(ok)
  /\ SetPhase(r, IF ok THEN "saved" ELSE "unstarted")
  /\ history' = IF ok THEN history \o runs[r].items ELSE history
  /\ UNCHANGED <<slot, postVars, queueVars, bgVars, group, blocked, chanVars,
                 sched, unsaved, reports, retractions>>

\* BackgroundResultInbox::ack_claim: the batch leaves the inbox and its ids
\* become tombstones, the oldest of which are forgotten.
AckResults(r) ==
  IF bgClaim # None /\ bgClaim.run = r
  THEN /\ bgClaim' = None
       /\ consumed' = LastN(consumed \o bgClaim.tasks, MaxTombstones)
  ELSE UNCHANGED <<bgClaim, consumed>>

\* MessageInbox::ack_claim
AckMessage(r) ==
  msgClaim' = IF msgClaim # None /\ msgClaim.run = r THEN None ELSE msgClaim

AckClaims(r) ==
  /\ runs[r].phase = "saved"
  /\ AckResults(r)
  /\ AckMessage(r)
  /\ SetPhase(r, "running")
  /\ UNCHANGED <<slot, postVars, queue, pending, recovery, accepted, evicted,
                 group, blocked, chanVars, sched, history, unsaved, counters>>

\* Wrong variant: the batch is dropped instead of requeued.
RequeueForgets(r) ==
  /\ bgClaim' = IF bgClaim # None /\ bgClaim.run = r THEN None ELSE bgClaim
  /\ UNCHANGED recovery

\* BackgroundResultInbox::requeue_claim: ahead of what already waits for recovery
RequeueResults(r) ==
  IF bgClaim # None /\ bgClaim.run = r
  THEN recovery' = bgClaim.tasks \o recovery /\ bgClaim' = None
  ELSE UNCHANGED <<recovery, bgClaim>>

\* Wrong variant: the failed head goes behind the messages that followed it.
RequeueAtBack(r) ==
  IF msgClaim # None /\ msgClaim.run = r
  THEN queue' = Append(queue, msgClaim.entry) /\ msgClaim' = None
  ELSE UNCHANGED <<queue, msgClaim>>

\* MessageInbox::requeue_claim: back to the head of the queue
RequeueMessage(r) ==
  IF msgClaim # None /\ msgClaim.run = r
  THEN queue' = <<msgClaim.entry>> \o queue /\ msgClaim' = None
  ELSE UNCHANGED <<queue, msgClaim>>

\* The start save failed: both claims are requeued and the turn is over.
GiveUpStart(r) ==
  /\ runs[r].phase = "unstarted"
  /\ RequeueResults(r)
  /\ RequeueMessage(r)
  /\ EndTurn(r, FALSE)
  /\ UNCHANGED <<slot, postVars, pending, consumed, accepted, evicted, group,
                 blocked, pings, sched, history, counters>>

\* A turn that returns before its start save (its session is gone, the stored
\* history does not convert), or before its final one (no root context), or
\* that panics: only the guard runs.
Dies(r) ==
  /\ runs[r].phase \in {"starting", "running"}
  /\ Fails(FALSE)
  /\ EndTurn(r, FALSE)
  /\ UNCHANGED <<slot, postVars, queueVars, bgVars, group, blocked, pings, sched,
                 history, reports, retractions>>

\* The loop ended, or POST /cancel made it end, and the final save is done.
FinalSave(r, ok) ==
  /\ runs[r].phase = "running"
  /\ Fails(ok)
  /\ EndTurn(r, ok)
  /\ UNCHANGED <<slot, postVars, queueVars, bgVars, group, blocked, pings, sched,
                 history, reports, retractions>>

-----------------------------------------------------------------------------
(* The scheduler: one event at a time, one lock at a time                  *)

Goto(pc) == sched' = [sched EXCEPT !.pc = pc]

\* What the scheduler leaves alone in every step but the ones that say otherwise
SchedKeeps == UNCHANGED <<postVars, pings, history, unsaved, counters>>

Recv ==
  /\ sched.pc = "recv" /\ events # <<>>
  /\ LET e == Head(events)
     IN  sched' = IF e.kind = "finished"
                  THEN [pc |-> "requeue", run |-> e.run, ok |-> e.ok, next |-> None]
                  ELSE [pc |-> IF e.kind = "result" THEN "gate" ELSE "groups",
                        run |-> None, ok |-> TRUE, next |-> None]
  /\ events' = Tail(events)
  /\ SchedKeeps /\ UNCHANGED <<slotVars, queueVars, bgVars, group, blocked>>

\* prepare_background_continuation, a result: not past a failed save
ResultGate ==
  /\ sched.pc = "gate"
  /\ Goto(IF blocked THEN "groups" ELSE "check")
  /\ SchedKeeps
  /\ UNCHANGED <<slotVars, queueVars, bgVars, group, blocked, events>>

\* Wrong variant: the batch of a run that never acknowledged it is left claimed.
RequeueSkipped ==
  /\ sched.pc = "requeue"
  /\ Goto(IF sched.ok THEN "allow" ELSE "block")
  /\ SchedKeeps
  /\ UNCHANGED <<slotVars, queueVars, bgVars, group, blocked, events>>

\* A finished run: a batch it did not acknowledge goes back first.
RequeueUnacked ==
  /\ sched.pc = "requeue"
  /\ RequeueResults(sched.run)
  /\ Goto(IF sched.ok THEN "allow" ELSE "block")
  /\ SchedKeeps
  /\ UNCHANGED <<slotVars, queueVars, pending, consumed, accepted, evicted, group,
                 blocked, events>>

\* Wrong variant: a failed save raises no barrier.
BlockForgotten ==
  /\ sched.pc = "block"
  /\ Goto("release")
  /\ SchedKeeps
  /\ UNCHANGED <<slotVars, queueVars, bgVars, group, blocked, events>>

Block ==
  /\ sched.pc = "block"
  /\ blocked' = TRUE
  /\ Goto("release")
  /\ SchedKeeps
  /\ UNCHANGED <<slotVars, queueVars, bgVars, group, events>>

Allow ==
  /\ sched.pc = "allow"
  /\ blocked' = FALSE
  /\ Goto("check")
  /\ SchedKeeps
  /\ UNCHANGED <<slotVars, queueVars, bgVars, group, events>>

\* Wrong variant: nothing else is looked at after the release.
ReleaseAndWait ==
  /\ sched.pc = "release"
  /\ RegistryFinish(sched.run)
  /\ sched' = [sched EXCEPT !.pc = "recv", !.run = None]
  /\ SchedKeeps
  /\ UNCHANGED <<runs, queueVars, bgVars, group, blocked, events>>

\* The finished run's claim is released.
Release ==
  /\ sched.pc = "release"
  /\ RegistryFinish(sched.run)
  /\ sched' = [sched EXCEPT !.pc = "groups", !.run = None]
  /\ SchedKeeps
  /\ UNCHANGED <<runs, queueVars, bgVars, group, blocked, events>>

HasPending == recovery # <<>> \/ pending # <<>>

\* Wrong variant: results are looked for only when their own hint arrives.
CheckPendingOnHint ==
  /\ sched.pc = "check"
  /\ Goto(IF sched.run # None THEN "release"
          ELSE IF HasPending THEN "take" ELSE "groups")
  /\ SchedKeeps
  /\ UNCHANGED <<slotVars, queueVars, bgVars, group, blocked, events>>

CheckPending ==
  /\ sched.pc = "check"
  /\ Goto(IF HasPending THEN "take"
          ELSE IF sched.run # None THEN "release" ELSE "groups")
  /\ SchedKeeps
  /\ UNCHANGED <<slotVars, queueVars, bgVars, group, blocked, events>>

\* The slot for a continuation: handed over by the finished run, or claimed.
TakeForResults ==
  /\ sched.pc = "take"
  /\ \/ /\ Fresh # {}
        /\ IF sched.run # None THEN RegistryHandoff(sched.run, Mint)
                               ELSE RegistryClaim(Mint)
        /\ sched' = [sched EXCEPT !.pc = "claim", !.run = None, !.next = Mint]
     \/ /\ slot # sched.run
        /\ sched' = [sched EXCEPT !.pc = "groups", !.run = None]
        /\ UNCHANGED slot
  /\ SchedKeeps
  /\ UNCHANGED <<runs, queueVars, bgVars, group, blocked, events>>

\* claim_for_session: the recovery queue first, one batch in all.
Recovered == FirstN(recovery, BgCapacity)
Batch == Recovered \o FirstN(pending, BgCapacity - Len(Recovered))

ClaimForSession(r) ==
  /\ bgClaim' = [run |-> r, tasks |-> Batch]
  /\ recovery' = DropN(recovery, Len(Recovered))
  /\ pending' = DropN(pending, Len(Batch) - Len(Recovered))

ClaimResults ==
  /\ sched.pc = "claim"
  /\ IF bgClaim = None /\ HasPending
     THEN /\ ClaimForSession(sched.next)
          /\ SpawnTurn(sched.next, Batch)
          /\ Goto("recv")
          /\ UNCHANGED slot
     ELSE /\ RegistryFinish(sched.next)
          /\ Goto("groups")
          /\ UNCHANGED <<runs, pending, recovery, bgClaim>>
  /\ SchedKeeps
  /\ UNCHANGED <<queueVars, consumed, accepted, evicted, group, blocked, events>>

\* prepare_task_group_continuation
GroupGate ==
  /\ sched.pc = "groups"
  /\ Goto(IF blocked THEN "message" ELSE "takeGroup")
  /\ SchedKeeps
  /\ UNCHANGED <<slotVars, queueVars, bgVars, group, blocked, events>>

TakeForGroup ==
  /\ sched.pc = "takeGroup"
  /\ \/ /\ Fresh # {}
        /\ RegistryClaim(Mint)
        /\ sched' = [sched EXCEPT !.pc = "claimGroup", !.next = Mint]
     \/ /\ slot # None
        /\ Goto("message")
        /\ UNCHANGED slot
  /\ SchedKeeps
  /\ UNCHANGED <<runs, queueVars, bgVars, group, blocked, events>>

\* claim_ready_root_group takes a ready group, once and for all.
ClaimGroup ==
  /\ sched.pc = "claimGroup"
  /\ \/ \E g \in Groups :
          /\ group[g] = "ready"
          /\ group' = [group EXCEPT ![g] = "claimed"]
          /\ SpawnTurn(sched.next, <<g>>)
          /\ Goto("recv")
          /\ UNCHANGED <<slot, failures>>
     \/ \* no group is ready, or the claim fails
        /\ Fails(\A g \in Groups : group[g] # "ready")
        /\ RegistryFinish(sched.next)
        /\ Goto("message")
        /\ UNCHANGED <<runs, group>>
  /\ UNCHANGED <<postVars, queueVars, bgVars, blocked, chanVars, history, unsaved,
                 reports, retractions>>

\* prepare_message_continuation
MessageGate ==
  /\ sched.pc = "message"
  /\ Goto(IF blocked THEN "recv" ELSE "peek")
  /\ SchedKeeps
  /\ UNCHANGED <<slotVars, queueVars, bgVars, group, blocked, events>>

\* The run id of the head is read before the slot is claimed.
Peek ==
  /\ sched.pc = "peek"
  /\ sched' = IF queue = <<>> THEN [sched EXCEPT !.pc = "recv"]
              ELSE [sched EXCEPT !.pc = "takeMessage", !.next = Head(queue).run]
  /\ SchedKeeps
  /\ UNCHANGED <<slotVars, queueVars, bgVars, group, blocked, events>>

TakeForMessage ==
  /\ sched.pc = "takeMessage"
  /\ \/ RegistryClaim(sched.next) /\ Goto("claimHead")
     \/ slot # None /\ Goto("recv") /\ UNCHANGED slot
  /\ SchedKeeps
  /\ UNCHANGED <<runs, queueVars, bgVars, group, blocked, events>>

\* Wrong variant: the head is claimed but stays in the queue.
HeadStays == queue

Rest == Tail(queue)

\* claim_head: whatever is at the head now runs under the id that was read.
ClaimHead ==
  /\ sched.pc = "claimHead"
  /\ IF msgClaim = None /\ queue # <<>>
     THEN /\ msgClaim' = [run |-> sched.next, entry |-> Head(queue)]
          /\ queue' = Rest
          /\ SpawnTurn(sched.next, <<Head(queue).msg>>)
          /\ UNCHANGED slot
     ELSE /\ RegistryFinish(sched.next)
          /\ UNCHANGED <<runs, queueVars>>
  /\ Goto("recv")
  /\ SchedKeeps /\ UNCHANGED <<bgVars, group, blocked, events>>

Scheduler ==
  \/ Recv \/ ResultGate \/ RequeueUnacked \/ Block \/ Allow \/ Release
  \/ CheckPending \/ TakeForResults \/ ClaimResults
  \/ GroupGate \/ TakeForGroup \/ ClaimGroup
  \/ MessageGate \/ Peek \/ TakeForMessage \/ ClaimHead

Turn(r) ==
  \/ \E ok \in BOOLEAN : StartSave(r, ok) \/ FinalSave(r, ok)
  \/ AckClaims(r) \/ GiveUpStart(r) \/ Dies(r)

Clients ==
  \/ \E m \in Messages : \/ PostStarts(m) \/ PostEnqueue(m) \/ RetractOne(m)
                         \/ \E wait \in BOOLEAN : PostBusy(m, wait)
  \/ RetractAll
  \/ \E g \in Groups : ClientClaims(g)

Arrivals ==
  \/ \E t \in Tasks : Report(t)
  \/ \E g \in Groups : GroupReady(g)

Pinger == \E kind \in DOMAIN pings : Ping(kind)

Next == Scheduler \/ (\E r \in RunIds : Turn(r)) \/ Clients \/ Arrivals \/ Pinger

Spec == Init /\ [][Next]_vars

\* The scheduler task, the hints and a started handler are polled to the end;
\* a turn ends (its loop has a round limit and its calls have timeouts).
Fairness ==
  /\ WF_vars(Scheduler)
  /\ WF_vars(Pinger)
  /\ \A r \in RunIds : WF_vars(Turn(r))
  /\ \A m \in Messages : WF_vars(PostEnqueue(m))

FairSpec == Spec /\ Fairness

-----------------------------------------------------------------------------
(* Properties                                                              *)

IsQueued(e) == e.msg \in Messages /\ e.run \in RunIds

\* Every variable has its type, the queue and the batch respect their capacities,
\* and the scheduler holds a finished run only while it handles that run.
TypeOK ==
  /\ slot \in RunIds \cup {None}
  /\ DOMAIN runs = RunIds /\ \A r \in RunIds : runs[r].phase \in Phases
  /\ post \in [Messages -> {"idle", "started", "busy", "queued", "refused", "retracted"}]
  /\ promised \in [Messages -> RunIds \cup {None}]
  /\ \A i \in DOMAIN queue : IsQueued(queue[i])
  /\ Len(queue) <= MaxQueue + 1    \* requeue_claim does not look at the depth
  /\ msgClaim # None => msgClaim.run \in RunIds /\ IsQueued(msgClaim.entry)
  /\ Elems(pending) \cup Elems(recovery) \cup Elems(consumed) \subseteq Tasks
  /\ Len(pending) <= BgCapacity /\ Len(consumed) <= MaxTombstones
  /\ bgClaim # None => bgClaim.run \in RunIds /\ Len(bgClaim.tasks) \in 1..BgCapacity
  /\ group \in [Groups -> {"open", "ready", "claimed"}]
  /\ blocked \in BOOLEAN /\ unsaved \in BOOLEAN
  /\ sched.run # None => sched.pc \in {"requeue", "block", "allow", "release", "check", "take"}

\* One active run per session: a turn that has not ended owns the session's
\* slot, so two turns never write the same session (RunRegistry::claim, handoff).
RunOwnsSlot == \A r \in RunIds : Active(r) => slot = r

FinishedPending(r) == \E i \in DOMAIN events :
                        events[i].kind = "finished" /\ events[i].run = r

\* No claim leaks: whoever owns the slot is a turn that has not ended, a turn
\* whose RunFinished the scheduler will handle, or the scheduler itself
\* (RunClaimGuard: "Every exit path ... avoids leaking the claim").
SlotHasHolder ==
  slot # None =>
    \/ Active(slot) \/ FinishedPending(slot) \/ sched.run = slot
    \/ sched.pc \in {"claim", "claimGroup", "claimHead"} /\ sched.next = slot

\* A result that was accepted is in the inbox, in the persisted session, or was
\* dropped at capacity: no failed start, failed save or race with the
\* scheduler loses it (claim_for_session, ack_claim, requeue_claim).
NoResultLost == accepted \subseteq Live \cup Elems(history) \cup evicted

\* A background result enters the persisted history once, however often it is
\* reported and retried, while its tombstone is kept (enqueue, ack_claim).
ResultDurableOnce ==
  \A i, j \in DOMAIN history : history[i] = history[j] /\ history[i] \in Tasks => i = j

\* A claimed batch belongs to a turn that will acknowledge or requeue it, or
\* whose end the scheduler still has to handle (state.rs: "an unacknowledged run
\* requeues its claim").
BatchHasOwner ==
  bgClaim # None =>
    \/ Active(bgClaim.run) \/ FinishedPending(bgClaim.run)
    \/ sched.pc = "requeue" /\ sched.run = bgClaim.run

\* Background results are accounted for from their acceptance to the persisted
\* history: the queues keep their bounds, no result is lost, none becomes durable
\* twice, and a claimed batch always has somebody who will settle it.
ResultsAccounted == TypeOK /\ NoResultLost /\ ResultDurableOnce /\ BatchHasOwner

At(s, x) == CHOOSE i \in DOMAIN s : s[i] = x

\* Messages that were queued and not retracted become durable in the order they
\* were queued, retries of a failed start included (claim_head, requeue_claim).
QueueIsFifo ==
  \A i, j \in DOMAIN parked :
    i < j /\ parked[j] \in Elems(history) /\ post[parked[i]] # "retracted" =>
      /\ parked[i] \in Elems(history)
      /\ At(history, parked[i]) < At(history, parked[j])

\* A message whose DELETE was answered with 204 is never run (MessageInbox::remove:
\* "Claimed heads cannot be removed").
RetractedNeverRuns ==
  \A m \in Messages : post[m] = "retracted" =>
    /\ m \notin Elems(history)
    /\ \A r \in RunIds : Active(r) => m \notin Elems(runs[r].items)

\* The message queue keeps its order and its promises through retries of failed
\* starts, and through retractions that race with the claim of the head.
QueueOrderKept == QueueIsFifo /\ RetractedNeverRuns

Direct(r) == \E m \in Messages : runs[r].items = <<m>> /\ post[m] = "started"

\* The scheduler starts no turn on top of a turn whose history was not saved:
\* only a client's explicit run gets past the failed-save barrier
\* (block_background_continuation and its three checks).
NoContinuationOverUnsaved ==
  [][\A r \in RunIds : ~ Active(r) /\ Active(r)' /\ unsaved => Direct(r)']_vars

\* When saves succeed, a retained result reaches the history (or is dropped at
\* capacity), whether it arrives in an idle session, during a turn or while the
\* scheduler decides.
ResultsDelivered ==
  \A t \in Tasks : t \in accepted ~> t \in Elems(history) \cup evicted

\* A group that becomes ready is claimed, by the scheduler if by nobody else
\* (prepare_task_group_continuation: "re-attempted from the RunFinished re-check").
GroupsTaken == \A g \in Groups : group[g] = "ready" ~> group[g] = "claimed"

\* Whatever asks for a continuation gets one: results become durable and ready
\* groups are claimed, also when they arrive as hints the scheduler discards.
ContinuationsDelivered == ResultsDelivered /\ GroupsTaken

\* A message that waits while some turn owns the slot leaves the queue.
QueuedBehindRunStarts ==
  \A m \in Messages : m \in Queued /\ slot # None ~> m \notin Queued

=============================================================================
