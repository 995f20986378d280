-------------------------- MODULE AgentCoordinator --------------------------
(***************************************************************************)
(* The agent coordinator (src/src/agent/coordinator.rs) at work in one     *)
(* session: the `task` calls that reserve, group and spawn child agents    *)
(* (src/src/tools/meta/task.rs), the child futures that run, collect their *)
(* own children and finish, the claims of the root's task groups, and the  *)
(* cancel and reset handlers (src/src/daemon/handlers/agents.rs).          *)
(*                                                                         *)
(* One step is one critical section.  The coordinator keeps its state      *)
(* behind several locks and takes them one after the other, so everything  *)
(* between two acquisitions may interleave: a `task` call with the         *)
(* canceller, a finishing child with its joining parent, a claim with a    *)
(* late result.  A future that is dropped (timeout, cancelled token, user  *)
(* interrupt) or aborted stops between two of its steps and takes the      *)
(* calls it was running down with it.                                      *)
(***************************************************************************)
EXTENDS TaskGroupStore, Sequences

CONSTANTS Session,         \* the session under study
          Root,            \* its persistent root agent
          NoGroup,         \* no group mapped
          MaxConcurrent,   \* permits of the subagent semaphore
          MaxDepth,        \* subagent depth limit
          MaxCancels,      \* bound on cancel requests
          MaxInterrupts,   \* bound on interrupts of the root's run
          MaxDeadlines,    \* bound on groups that outlive their deadline
          MaxDisturbances  \* bound on the last three together

ASSUME SessionAssumption == Session \in Sessions
ASSUME RootAssumption == Root \notin Children /\ Owners = Children \cup {Root}
ASSUME NoGroupAssumption == NoGroup \notin GroupIds \cup Results
ASSUME LimitsAssumption ==
  /\ MaxConcurrent \in Nat \ {0}
  /\ MaxDepth \in Nat \ {0}
  /\ MaxCancels \in Nat
  /\ MaxInterrupts \in Nat
  /\ MaxDeadlines \in Nat
  /\ MaxDisturbances \in Nat

VARIABLES
  ownerGroups,   \* <<owner, generation, turn>> -> group open for that key
  childGroups,   \* child -> group its result goes to, or NoGroup
  scope,         \* child -> status of its scope, "absent" before it is inserted
  record,        \* child -> status of its store record
  parent,        \* child -> agent whose `task` call creates it
  holds,         \* children whose scope holds a semaphore permit
  permits,       \* free permits
  handle,        \* child -> its JoinHandle: "none", "held" by the scope, or
                 \* taken out by a "joiner" or the "canceller"
  call,          \* child -> place of the `task` call that creates it
  callGroup,     \* child -> group that call works on
  fut,           \* child -> place of its spawned future
  verdict,       \* child -> terminal its future computed
  awaiting,      \* parent -> children its join has not resolved yet
  batch,         \* parent -> children whose results its collect returned
  synthesized,   \* parent -> children whose results entered its reasoning
  sweeper,       \* "swept" while a root claim is between its sweep and its pick
  canceller,     \* the cancel or reset request in progress
  cancels, interrupts,  \* how many there were
  torn,          \* history: children cancelled in the middle of their reservation
  registered, inbox     \* history, as in TaskGroupDelivery

callVars   == <<call, callGroup, parent>>
futVars    == <<fut, verdict, awaiting, batch, synthesized>>
scopeVars  == <<scope, record, holds, permits, handle>>
mapVars    == <<ownerGroups, childGroups>>
cancelVars == <<canceller, cancels>>
histVars   == <<torn, registered, inbox>>
vars == <<storeVars, mapVars, scopeVars, callVars, futVars, sweeper, cancelVars,
          interrupts, histVars>>

-----------------------------------------------------------------------------
(* Places and statuses                                                     *)

Alive    == {"Pending", "Running", "WaitingForChildren", "Finalizing"}   \* is_live
Statuses == Alive \cup {"Cancelling"} \cup Terminals

Terminal(st) == st \in Terminals

\* A `task` call: it looks up its group, passes the admission checks, waits for
\* a permit, inserts the store record, then the scope, then marks it Running,
\* joins the group, spawns the future, registers the handle.  The three
\* "reject" places are finish_child(Cancelled) when the group refuses.
CallPlaces == {"idle", "lookedUp", "admitted", "permitted", "stored", "pending",
               "reserved", "grouped", "spawned", "reject", "rejectPersist",
               "rejectRecord", "done", "refused", "dropped"}
InCall == CallPlaces \ {"idle", "done", "refused", "dropped"}

\* A child's future: reasoning, then the synthesis barrier, then finish_child.
LoopPlaces   == {"loop", "joining", "claiming", "resuming", "finalizing",
                 "concluding"}
FinishPlaces == {"finish", "persist", "record", "force"}
FutPlaces    == LoopPlaces \cup FinishPlaces \cup {"none", "ended", "aborted"}

ChildrenOf(p) == {c \in Children : record[c] # "absent" /\ parent[c] = p}

\* live_direct_children: the scope's status, else the record's.
StatusOf(c) == IF scope[c] = "absent" THEN record[c] ELSE scope[c]
LiveChildren(p) == {c \in ChildrenOf(p) : StatusOf(c) \in Alive}

\* Ancestors below the root.  Depth is bounded by the number of children.
Depth[c \in Children, n \in 0 .. Cardinality(Children)] ==
  IF parent[c] = Root \/ n = 0 THEN 1 ELSE 1 + Depth[parent[c], n - 1]
DepthOf(a) == IF a = Root THEN 0 ELSE Depth[a, Cardinality(Children)]

\* group_operations: held by a reservation between its record insert and its
\* Running mark, and by a root claim between its sweep and its pick.
GroupLockFree ==
  sweeper = "idle" /\ \A c \in Children : call[c] \notin {"stored", "pending"}

OwnerGroupsOf(g) == {k \in DOMAIN ownerGroups : ownerGroups[k] = g}
DropOwnerKeys(keys) ==
  ownerGroups' = [k \in DOMAIN ownerGroups \ keys |-> ownerGroups[k]]

Init ==
  /\ StoreInit
  /\ ownerGroups = [k \in {} |-> NoGroup]
  /\ childGroups = [c \in Children |-> NoGroup]
  /\ scope = [c \in Children |-> "absent"]
  /\ record = [c \in Children |-> "absent"]
  /\ parent = [c \in Children |-> Root]
  /\ holds = {}
  /\ permits = MaxConcurrent
  /\ handle = [c \in Children |-> "none"]
  /\ call = [c \in Children |-> "idle"]
  /\ callGroup = [c \in Children |-> NoGroup]
  /\ fut = [c \in Children |-> "none"]
  /\ verdict = [c \in Children |-> "failed"]
  /\ awaiting = [c \in Children |-> {}]
  /\ batch = [c \in Children |-> {}]
  /\ synthesized = [c \in Children |-> {}]
  /\ sweeper = "idle"
  /\ canceller = [pc |-> "idle", targets |-> {}, todo |-> {}, reset |-> FALSE,
                  stack |-> <<>>, child |-> Root, terminal |-> "cancelled"]
  /\ cancels = 0
  /\ interrupts = 0
  /\ torn = {}
  /\ registered = {}
  /\ inbox = [c \in Children |-> <<>>]

-----------------------------------------------------------------------------
(* finish_child, the steps every finisher shares                           *)

\* Wrong variants, for the mutation runs: the permit is forgotten instead of
\* dropped, and the last finisher wins instead of the first.
SettleScopeForgetsPermit(c, t) ==
  IF scope[c] # "absent" /\ ~ Terminal(scope[c])
  THEN /\ scope' = [scope EXCEPT ![c] = t]
       /\ holds' = holds \ {c}
       /\ UNCHANGED permits
  ELSE UNCHANGED <<scope, holds, permits>>

SettleScopeLastWins(c, t) ==
  IF scope[c] # "absent"
  THEN /\ scope' = [scope EXCEPT ![c] = t]
       /\ holds' = holds \ {c}
       /\ permits' = permits + (IF c \in holds THEN 1 ELSE 0)
  ELSE UNCHANGED <<scope, holds, permits>>

\* Under the scope lock the first finisher wins: it sets the status, takes the
\* permit out of the scope and wakes joiners.
SettleScope(c, t) ==
  IF scope[c] # "absent" /\ ~ Terminal(scope[c])
  THEN /\ scope' = [scope EXCEPT ![c] = t]
       /\ holds' = holds \ {c}
       /\ permits' = permits + (IF c \in holds THEN 1 ELSE 0)
  ELSE UNCHANGED <<scope, holds, permits>>

\* Only the first finisher goes on to the store; a later one only records.
AfterSettle(c, first, later) == IF Terminal(scope[c]) THEN later ELSE first

\* record_mapped_child_result, under group_operations: no mapping, or the
\* result is (or already was) in the group: the mapping goes.  Otherwise the
\* group refuses (expired, claimed or obsolete) and the mapping stays.
Refuses(c) ==
  LET g == childGroups[c]
  IN  g # NoGroup /\ ~ CanRecord(g, c) /\ ~ AlreadyRecorded(g, c)

RecordMapped(c, t) ==
  LET g == childGroups[c]
  IN  /\ GroupLockFree
      /\ IF g # NoGroup /\ CanRecord(g, c)
         THEN RecordResult(g, c, t)
         ELSE UNCHANGED storeVars
      /\ childGroups' = IF Refuses(c) THEN childGroups
                        ELSE [childGroups EXCEPT ![c] = NoGroup]

\* Wrong variant: every dropped call gives a permit back.
DropCallsOfReturnsAll(p) ==
  LET dropped == {c \in Children : parent[c] = p /\ call[c] \in InCall}
  IN  /\ call' = [c \in Children |-> IF c \in dropped THEN "dropped" ELSE call[c]]
      /\ permits' = permits + Cardinality(dropped)

\* Dropping the future of p drops the `task` calls it is running.  A permit
\* still in the call's hands goes back; one already in the scope does not.
DropCallsOf(p) ==
  LET dropped == {c \in Children : parent[c] = p /\ call[c] \in InCall}
      carried == {c \in dropped : call[c] \in {"permitted", "stored"}}
  IN  /\ call' = [c \in Children |-> IF c \in dropped THEN "dropped" ELSE call[c]]
      /\ permits' = permits + Cardinality(carried)

-----------------------------------------------------------------------------
(* The `task` call that creates child c                                    *)

\* An agent can call `task` while its loop is reasoning.
CanCall(p) == IF p = Root THEN TRUE ELSE fut[p] = "loop"

\* current_or_create_root_group / current_or_create_parent_group
LookUpGroup(c, p, t, g) ==
  LET key == <<p, CurrentGeneration(Session), t>>
  IN  /\ call[c] = "idle" /\ CanCall(p) /\ GroupLockFree
      /\ (p = Root) = (t # NoTurn)
      /\ IF key \in DOMAIN ownerGroups
         THEN /\ g = ownerGroups[key]
              /\ UNCHANGED <<storeVars, ownerGroups>>
         ELSE /\ CreateGroup(g, Session, p, t, CurrentGeneration(Session))
              /\ ownerGroups' = [k \in DOMAIN ownerGroups \cup {key} |->
                                   IF k = key THEN g ELSE ownerGroups[k]]
      /\ call' = [call EXCEPT ![c] = "lookedUp"]
      /\ parent' = [parent EXCEPT ![c] = p]
      /\ callGroup' = [callGroup EXCEPT ![c] = g]
      /\ UNCHANGED <<childGroups, scopeVars, futVars, sweeper, cancelVars,
                     interrupts, histVars>>

CallStep(c, from, to) ==
  /\ call[c] = from
  /\ call' = [call EXCEPT ![c] = to]
  /\ UNCHANGED <<callGroup, parent, futVars, sweeper, cancelVars, interrupts>>

\* The caller's status and depth are checked here and not again.
Admissible(c) ==
  LET p == parent[c]
  IN  /\ p # Root => scope[p] \in Alive
      /\ DepthOf(p) < MaxDepth

Admit(c) ==
  /\ CallStep(c, "lookedUp", IF Admissible(c) THEN "admitted" ELSE "refused")
  /\ UNCHANGED <<storeVars, mapVars, scopeVars, histVars>>

AcquirePermit(c) ==
  /\ permits > 0
  /\ permits' = permits - 1
  /\ CallStep(c, "admitted", "permitted")
  /\ UNCHANGED <<storeVars, mapVars, scope, record, holds, handle, histVars>>

\* group_operations is taken here and held until MarkRunning.
InsertRecord(c) ==
  /\ GroupLockFree
  /\ record' = [record EXCEPT ![c] = "Pending"]
  /\ CallStep(c, "permitted", "stored")
  /\ UNCHANGED <<storeVars, mapVars, scope, holds, permits, handle, histVars>>

InsertScope(c) ==
  /\ scope' = [scope EXCEPT ![c] = "Pending"]
  /\ holds' = holds \cup {c}
  /\ CallStep(c, "stored", "pending")
  /\ UNCHANGED <<storeVars, mapVars, record, permits, handle, histVars>>

\* The status is written whatever it has become since InsertScope.
MarkRunning(c) ==
  /\ scope' = [scope EXCEPT ![c] = "Running"]
  /\ CallStep(c, "pending", "reserved")
  /\ UNCHANGED <<storeVars, mapVars, record, holds, permits, handle, histVars>>

\* reserve_child_in_group: the group must still be the caller's and accept c.
Owned(c) == \E k \in OwnerGroupsOf(callGroup[c]) : k[1] = parent[c]

JoinGroup(c) ==
  /\ GroupLockFree
  /\ IF Owned(c) /\ CanAddChild(callGroup[c], c)
     THEN /\ CallStep(c, "reserved", "grouped")
          /\ AddChild(callGroup[c], c)
          /\ childGroups' = [childGroups EXCEPT ![c] = callGroup[c]]
          /\ registered' = registered \cup {c}
     ELSE /\ CallStep(c, "reserved", "reject")
          /\ UNCHANGED <<storeVars, childGroups, registered>>
  /\ UNCHANGED <<ownerGroups, scopeVars, torn, inbox>>

RejectSettle(c) ==
  /\ CallStep(c, "reject", AfterSettle(c, "rejectPersist", "rejectRecord"))
  /\ SettleScope(c, "cancelled")
  /\ UNCHANGED <<storeVars, mapVars, record, handle, histVars>>

RejectPersist(c) ==
  /\ CallStep(c, "rejectPersist", "rejectRecord")
  /\ record' = [record EXCEPT ![c] = "cancelled"]
  /\ UNCHANGED <<storeVars, mapVars, scope, holds, permits, handle, histVars>>

RejectRecord(c) ==
  /\ CallStep(c, "rejectRecord", "refused")
  /\ RecordMapped(c, scope[c])
  /\ UNCHANGED <<ownerGroups, scopeVars, histVars>>

Spawn(c) ==
  /\ call[c] = "grouped"
  /\ call' = [call EXCEPT ![c] = "spawned"]
  /\ fut' = [fut EXCEPT ![c] = "loop"]
  /\ UNCHANGED <<storeVars, mapVars, scopeVars, callGroup, parent, verdict,
                 awaiting, batch, synthesized, sweeper, cancelVars, interrupts,
                 histVars>>

RegisterTask(c) ==
  /\ CallStep(c, "spawned", "done")
  /\ handle' = [handle EXCEPT ![c] = "held"]
  /\ UNCHANGED <<storeVars, mapVars, scope, record, holds, permits, histVars>>

\* Cancel requests, interrupts and expired groups so far: only bounds use it.
Disturbances == cancels + interrupts + Cardinality(overdue)

\* The user interrupts the root's run: its loop future is dropped.
InterruptRoot ==
  /\ interrupts < MaxInterrupts /\ Disturbances < MaxDisturbances
  /\ \E c \in Children : parent[c] = Root /\ call[c] \in InCall
  /\ interrupts' = interrupts + 1
  /\ DropCallsOf(Root)
  /\ UNCHANGED <<storeVars, mapVars, scope, record, holds, handle,
                 callGroup, parent, futVars, sweeper, cancelVars, histVars>>

-----------------------------------------------------------------------------
(* The future of child c                                                   *)

FutStep(c, from, to) ==
  /\ fut[c] = from
  /\ fut' = [fut EXCEPT ![c] = to]
  /\ UNCHANGED <<sweeper, cancelVars, interrupts>>

\* The loop ends with an error: the subagent timeout, the cancelled token or a
\* failed round.  It is dropped wherever it was, and so are its `task` calls.
LoopFails(c) ==
  /\ fut[c] \in LoopPlaces
  /\ fut' = [fut EXCEPT ![c] = "finish"]
  /\ verdict' = [verdict EXCEPT ![c] = "failed"]
  /\ awaiting' = [awaiting EXCEPT ![c] = {}]
  /\ batch' = [batch EXCEPT ![c] = {}]
  /\ DropCallsOf(c)
  /\ UNCHANGED <<storeVars, mapVars, scope, record, holds, handle,
                 callGroup, parent, synthesized, sweeper, cancelVars,
                 interrupts, histVars>>

\* A candidate final answer: collect_children_for_synthesis starts.  An owner
\* that is neither Running nor waiting fails its loop instead.
CandidateFinal(c) ==
  /\ \A d \in Children : parent[d] = c => call[d] \notin InCall
  /\ scope[c] \in {"Running", "WaitingForChildren"}
  /\ FutStep(c, "loop", "joining")
  /\ IF scope[c] = "Running" /\ LiveChildren(c) # {}
     THEN /\ scope' = [scope EXCEPT ![c] = "WaitingForChildren"]
          /\ record' = [record EXCEPT ![c] = "WaitingForChildren"]
     ELSE UNCHANGED <<scope, record>>
  /\ awaiting' = [awaiting EXCEPT ![c] = ChildrenOf(c)]
  /\ UNCHANGED <<storeVars, mapVars, holds, permits, handle, callVars,
                 verdict, batch, synthesized, histVars>>

\* await_child_terminal, for one child at a time: the join takes the handle of
\* the child it waits for...
TakeHandle(c, d) ==
  /\ fut[c] = "joining" /\ d \in awaiting[c]
  /\ ~ Terminal(scope[d]) /\ handle[d] = "held"
  /\ \A e \in awaiting[c] : handle[e] = "joiner" => Terminal(scope[e])
  /\ handle' = [handle EXCEPT ![d] = "joiner"]
  /\ UNCHANGED <<storeVars, mapVars, scope, record, holds, permits,
                 callVars, futVars, sweeper, cancelVars, interrupts, histVars>>

\* ... and is done with the child once its scope is terminal.
JoinChild(c, d) ==
  /\ fut[c] = "joining" /\ d \in awaiting[c] /\ Terminal(scope[d])
  /\ awaiting' = [awaiting EXCEPT ![c] = @ \ {d}]
  /\ UNCHANGED <<storeVars, mapVars, scopeVars, callVars, fut, verdict, batch,
                 synthesized, sweeper, cancelVars, interrupts, histVars>>

\* The joined handle may win over the wake-up: then the join finishes the child
\* again, and a group that refuses the result fails the whole collect.
JoinHandle(c, d) ==
  /\ fut[c] = "joining" /\ d \in awaiting[c]
  /\ handle[d] = "joiner" /\ fut[d] = "ended"
  /\ RecordMapped(d, scope[d])
  /\ IF Refuses(d)
     THEN /\ fut' = [fut EXCEPT ![c] = "finish"]
          /\ verdict' = [verdict EXCEPT ![c] = "failed"]
          /\ awaiting' = [awaiting EXCEPT ![c] = {}]
          /\ scope' = IF scope[c] = "WaitingForChildren"
                      THEN [scope EXCEPT ![c] = "Running"] ELSE scope
          /\ record' = IF scope[c] = "WaitingForChildren"
                       THEN [record EXCEPT ![c] = "Running"] ELSE record
     ELSE /\ awaiting' = [awaiting EXCEPT ![c] = @ \ {d}]
          /\ UNCHANGED <<fut, verdict, scope, record>>
  /\ UNCHANGED <<ownerGroups, holds, permits, handle, callVars, batch,
                 synthesized, sweeper, cancelVars, interrupts, histVars>>

Joined(c) ==
  /\ awaiting[c] = {}
  /\ FutStep(c, "joining", "claiming")
  /\ UNCHANGED <<storeVars, mapVars, scopeVars, callVars, verdict, awaiting,
                 batch, synthesized, histVars>>

\* Wrong variant: the claim copies the batch and leaves the group in the store.
HandOverCopies(g) ==
  /\ g \in Unclaimed /\ UNCHANGED <<storeVars, ownerGroups>>
  /\ inbox' = [c \in Children |-> IF c \in Reported(g)
                                  THEN Append(inbox[c], groups[g].results[c])
                                  ELSE inbox[c]]

\* The results of a claimed group reach its owner.
HandOver(g) ==
  /\ RemoveDelivery(g)
  /\ DropOwnerKeys(OwnerGroupsOf(g))
  /\ inbox' = [c \in Children |-> IF c \in Reported(g)
                                  THEN Append(inbox[c], groups[g].results[c])
                                  ELSE inbox[c]]

\* Wrong variant: a group that is not ready yet yields no results.
ClaimOwnDropsJoined(c) ==
  LET key   == <<c, CurrentGeneration(Session), NoTurn>>
      ready == {g \in ReadyFor(Session, c, CurrentGeneration(Session)) :
                  key \in DOMAIN ownerGroups /\ ownerGroups[key] = g}
  IN  /\ GroupLockFree
      /\ FutStep(c, "claiming", "resuming")
      /\ \/ \E g \in ready :
              HandOver(g) /\ batch' = [batch EXCEPT ![c] = Reported(g)]
         \/ ready = {} /\ UNCHANGED <<storeVars, ownerGroups, inbox, batch>>
      /\ UNCHANGED <<childGroups, scopeVars, callVars, verdict, awaiting,
                     synthesized, torn, registered>>

\* Claim the owner's current group if it is ready, else use the joined results.
ClaimOwn(c) ==
  LET key   == <<c, CurrentGeneration(Session), NoTurn>>
      ready == {g \in ReadyFor(Session, c, CurrentGeneration(Session)) :
                  key \in DOMAIN ownerGroups /\ ownerGroups[key] = g}
  IN  /\ GroupLockFree
      /\ FutStep(c, "claiming", "resuming")
      /\ \/ \E g \in ready :
              HandOver(g) /\ batch' = [batch EXCEPT ![c] = Reported(g)]
         \/ /\ ready = {}
            /\ batch' = [batch EXCEPT ![c] = ChildrenOf(c)]
            /\ UNCHANGED <<storeVars, ownerGroups, inbox>>
      /\ UNCHANGED <<childGroups, scopeVars, callVars, verdict, awaiting,
                     synthesized, torn, registered>>

\* Wrong variant: the way back to Running does not look at the status.
ResumeUnchecked(c) ==
  LET fresh == batch[c] \ synthesized[c]
  IN  /\ FutStep(c, "resuming", IF fresh = {} THEN "finalizing" ELSE "loop")
      /\ scope' = [scope EXCEPT ![c] = "Running"]
      /\ record' = [record EXCEPT ![c] = "Running"]
      /\ synthesized' = [synthesized EXCEPT ![c] = @ \cup fresh]
      /\ batch' = [batch EXCEPT ![c] = {}]
      /\ UNCHANGED <<storeVars, mapVars, holds, permits, handle, callVars,
                     verdict, awaiting, histVars>>

\* WaitingForChildren -> Running; fresh results go into another round.
Resume(c) ==
  LET fresh == batch[c] \ synthesized[c]
  IN  /\ FutStep(c, "resuming", IF fresh = {} THEN "finalizing" ELSE "loop")
      /\ IF scope[c] = "WaitingForChildren"
         THEN /\ scope' = [scope EXCEPT ![c] = "Running"]
              /\ record' = [record EXCEPT ![c] = "Running"]
         ELSE UNCHANGED <<scope, record>>
      /\ synthesized' = [synthesized EXCEPT ![c] = @ \cup fresh]
      /\ batch' = [batch EXCEPT ![c] = {}]
      /\ UNCHANGED <<storeVars, mapVars, holds, permits, handle, callVars,
                     verdict, awaiting, histVars>>

\* begin_finalizing; an owner that is cancelled or still has live children
\* fails its loop instead (LoopFails).
BeginFinalizing(c) ==
  /\ scope[c] \in {"Running", "WaitingForChildren"}
  /\ LiveChildren(c) = {}
  /\ FutStep(c, "finalizing", "concluding")
  /\ scope' = [scope EXCEPT ![c] = "Finalizing"]
  /\ record' = [record EXCEPT ![c] = "Finalizing"]
  /\ UNCHANGED <<storeVars, mapVars, holds, permits, handle, callVars,
                 verdict, awaiting, batch, synthesized, histVars>>

\* The loop returns its final text.  Until then a timeout or a cancelled token
\* may still take it (LoopFails).
Conclude(c) ==
  /\ FutStep(c, "concluding", "finish")
  /\ verdict' = [verdict EXCEPT ![c] = "completed"]
  /\ UNCHANGED <<storeVars, mapVars, scopeVars, callVars, awaiting, batch,
                 synthesized, histVars>>

Finish(c) ==
  /\ FutStep(c, "finish", AfterSettle(c, "persist", "record"))
  /\ SettleScope(c, verdict[c])
  /\ UNCHANGED <<storeVars, mapVars, record, handle, callVars, verdict,
                 awaiting, batch, synthesized, histVars>>

Persist(c) ==
  /\ FutStep(c, "persist", "record")
  /\ record' = [record EXCEPT ![c] = verdict[c]]
  /\ UNCHANGED <<storeVars, mapVars, scope, holds, permits, handle,
                 callVars, verdict, awaiting, batch, synthesized, histVars>>

\* Wrong variant: a late finisher records its own terminal, not the stored one.
RecordOwnVerdict(c) ==
  /\ FutStep(c, "record", IF Refuses(c) THEN "force" ELSE "ended")
  /\ RecordMapped(c, verdict[c])
  /\ UNCHANGED <<ownerGroups, scopeVars, callVars, verdict, awaiting, batch,
                 synthesized, histVars>>

\* A refused result is retried once by force_record_child_result.
Record(c) ==
  /\ FutStep(c, "record", IF Refuses(c) THEN "force" ELSE "ended")
  /\ RecordMapped(c, scope[c])
  /\ UNCHANGED <<ownerGroups, scopeVars, callVars, verdict, awaiting, batch,
                 synthesized, histVars>>

ForceRecord(c) ==
  /\ FutStep(c, "force", "ended")
  /\ RecordMapped(c, verdict[c])
  /\ UNCHANGED <<ownerGroups, scopeVars, callVars, verdict, awaiting, batch,
                 synthesized, histVars>>

-----------------------------------------------------------------------------
(* Claims of the root's groups: scheduler, polling client, user turn       *)

\* claim_ready_root_group sweeps overdue groups of every owner first...
\* (A call that finds nothing overdue and nothing ready changes nothing.)
RootSweep ==
  /\ GroupLockFree
  /\ \E g \in Unclaimed : \/ g \in overdue /\ groups[g].lifecycle = "Active"
                          \/ groups[g].owner = Root /\ IsReady(g)
  /\ sweeper' = "swept"
  /\ ExpireDueGroups
  /\ UNCHANGED <<mapVars, scopeVars, callVars, futVars, cancelVars, interrupts,
                 histVars>>

\* ... then claims one ready group, of the generation the caller asks for.
RootPick(gen) ==
  LET ready == ReadyFor(Session, Root, gen)
  IN  /\ sweeper = "swept"
      /\ sweeper' = "idle"
      /\ \/ \E g \in ready : HandOver(g)
         \/ ready = {} /\ UNCHANGED <<storeVars, ownerGroups, inbox>>
      /\ UNCHANGED <<childGroups, scopeVars, callVars, futVars, cancelVars,
                     interrupts, torn, registered>>

Deadline(g) ==
  /\ Cardinality(overdue) < MaxDeadlines /\ Disturbances < MaxDisturbances
  /\ DeadlinePasses(g)
  /\ UNCHANGED <<mapVars, scopeVars, callVars, futVars, sweeper, cancelVars,
                 interrupts, histVars>>

-----------------------------------------------------------------------------
(* The cancel and reset handlers                                           *)

CancelStep(from, new) ==
  /\ canceller.pc = from
  /\ canceller' = new
  /\ UNCHANGED <<cancels, parent, callGroup, sweeper, interrupts>>

StartCancel(targets, reset) ==
  /\ canceller.pc = "idle"
  /\ canceller' = [canceller EXCEPT !.pc = "pick", !.targets = targets,
                                       !.todo = targets, !.reset = reset]
  /\ UNCHANGED <<storeVars, mapVars, scopeVars, callVars, futVars, sweeper,
                 interrupts, histVars>>

\* A cancel request, counted; a reset is bounded by the generations instead.
Request(targets) ==
  /\ cancels < MaxCancels /\ Disturbances < MaxDisturbances
  /\ cancels' = cancels + 1
  /\ StartCancel(targets, FALSE)

\* cancel_child: one direct child of the root, whatever its status.
CancelChild == \E c \in ChildrenOf(Root) : Request({c})

\* cancel_root_children: every child whose store record is not terminal.
Unfinished == {c \in ChildrenOf(Root) : ~ Terminal(record[c])}

CancelSession == Request(Unfinished)

ResetSession ==
  /\ CurrentGeneration(Session) < MaxGeneration
  /\ StartCancel(Unfinished, TRUE)
  /\ UNCHANGED cancels

\* cancel_descendants(c), first half: Cancelling, in the scope and in the store; a
\* scope that is terminal or absent is left alone.  The cancelled token makes the
\* loop fail, which LoopFails allows at any time anyway.
Marks(c) == scope[c] # "absent" /\ ~ Terminal(scope[c])

MarkCancelling(c) ==
  IF Marks(c)
  THEN /\ scope' = [scope EXCEPT ![c] = "Cancelling"]
       /\ record' = [record EXCEPT ![c] = "Cancelling"]
  ELSE UNCHANGED <<scope, record>>

\* A canceller that meets a reservation between two of its writes.
Tear(c) == torn' = IF call[c] \in {"stored", "pending"} THEN torn \cup {c} ELSE torn

Frame(c) == [scope |-> c, snapped |-> FALSE, signal |-> {}, wait |-> {}]

\* cancel_subtree on the next target
PickTarget(c) ==
  /\ c \in canceller.todo
  /\ CancelStep("pick",
       [canceller EXCEPT !.todo = @ \ {c},
                         !.pc = IF Marks(c) THEN "walk" ELSE "finish",
                         !.stack = IF Marks(c) THEN <<Frame(c)>> ELSE <<>>,
                         !.child = c, !.terminal = "cancelled"])
  /\ MarkCancelling(c)
  /\ Tear(c)
  /\ UNCHANGED <<storeVars, mapVars, holds, permits, handle, call, futVars,
                 registered, inbox>>

Top == canceller.stack[Len(canceller.stack)]
SetTop(frame) == [canceller.stack EXCEPT ![Len(canceller.stack)] = frame]

\* cancel_descendants, second half: the live children are listed once.
Snapshot ==
  /\ canceller.pc = "walk" /\ ~ Top.snapped
  /\ LET live == LiveChildren(Top.scope)
     IN  CancelStep("walk",
           [canceller EXCEPT !.stack =
              SetTop([Top EXCEPT !.snapped = TRUE, !.signal = live, !.wait = live])])
  /\ UNCHANGED <<storeVars, mapVars, scopeVars, call, futVars, histVars>>

Signal(c) ==
  /\ canceller.pc = "walk" /\ Top.snapped /\ c \in Top.signal
  /\ LET rest == SetTop([Top EXCEPT !.signal = @ \ {c}])
     IN  CancelStep("walk",
           [canceller EXCEPT !.stack = IF Marks(c) THEN Append(rest, Frame(c)) ELSE rest])
  /\ MarkCancelling(c)
  /\ Tear(c)
  /\ UNCHANGED <<storeVars, mapVars, holds, permits, handle, call, futVars,
                 registered, inbox>>

\* await_cancelled_child: a terminal child needs nothing, a registered handle is
\* taken and joined, a child without one is finished as cancelled.
AwaitCancelled(c) ==
  /\ canceller.pc = "walk" /\ Top.snapped /\ Top.signal = {} /\ c \in Top.wait
  /\ LET rest == SetTop([Top EXCEPT !.wait = @ \ {c}])
     IN  CancelStep("walk",
           [canceller EXCEPT !.stack = rest, !.child = c, !.terminal = "cancelled",
                             !.pc = IF Terminal(scope[c]) THEN "walk"
                                    ELSE IF handle[c] = "held" THEN "join"
                                    ELSE "finish"])
  /\ handle' = IF ~ Terminal(scope[c]) /\ handle[c] = "held"
               THEN [handle EXCEPT ![c] = "canceller"] ELSE handle
  /\ UNCHANGED <<storeVars, mapVars, scope, record, holds, permits, call,
                 futVars, histVars>>

\* The handle is ready, or the shutdown timeout strikes and aborts the future.
CancelJoined ==
  /\ canceller.pc = "join" /\ fut[canceller.child] = "ended"
  /\ CancelStep("join", [canceller EXCEPT !.pc = "finish",
                                          !.terminal = verdict[canceller.child]])
  /\ UNCHANGED <<storeVars, mapVars, scopeVars, call, futVars, histVars>>

CancelTimeout ==
  LET c == canceller.child
  IN  /\ CancelStep("join", [canceller EXCEPT !.pc = "finish"])
      /\ fut[c] # "ended"
      /\ fut' = [fut EXCEPT ![c] = "aborted"]
      /\ DropCallsOf(c)
      /\ UNCHANGED <<storeVars, mapVars, scope, record, holds, handle,
                     verdict, awaiting, batch, synthesized, histVars>>

\* Wrong variant: once its descendants are cancelled the target is not finished.
ReturnSkipsTarget ==
  /\ canceller.pc = "walk" /\ Top.snapped /\ Top.signal = {} /\ Top.wait = {}
  /\ LET rest == SubSeq(canceller.stack, 1, Len(canceller.stack) - 1)
     IN  CancelStep("walk",
           [canceller EXCEPT !.stack = rest,
                             !.pc = IF rest = <<>> THEN "pick" ELSE "walk"])
  /\ UNCHANGED <<storeVars, mapVars, scopeVars, call, futVars, histVars>>

\* A scope whose live children are done: back to its parent's frame, or on to
\* finishing the target itself.
Return ==
  /\ canceller.pc = "walk" /\ Top.snapped /\ Top.signal = {} /\ Top.wait = {}
  /\ LET rest == SubSeq(canceller.stack, 1, Len(canceller.stack) - 1)
     IN  CancelStep("walk",
           [canceller EXCEPT !.stack = rest,
                             !.pc = IF rest = <<>> THEN "finish" ELSE "walk",
                             !.child = Top.scope, !.terminal = "cancelled"])
  /\ UNCHANGED <<storeVars, mapVars, scopeVars, call, futVars, histVars>>

CancelSettle ==
  LET c == canceller.child
  IN  /\ CancelStep("finish",
           [canceller EXCEPT !.pc = AfterSettle(c, "persist", "record"),
                             !.terminal = IF Terminal(scope[c]) THEN scope[c] ELSE @])
      /\ SettleScope(c, canceller.terminal)
      /\ Tear(c)
      /\ UNCHANGED <<storeVars, mapVars, record, handle, call, futVars,
                     registered, inbox>>

CancelPersist ==
  /\ CancelStep("persist", [canceller EXCEPT !.pc = "record"])
  /\ record' = [record EXCEPT ![canceller.child] = canceller.terminal]
  /\ UNCHANGED <<storeVars, mapVars, scope, holds, permits, handle, call,
                 futVars, histVars>>

\* A refused result is an error, and the error ends the whole request.
CancelRecord ==
  /\ CancelStep("record",
       IF Refuses(canceller.child)
       THEN [canceller EXCEPT !.pc = "pick", !.todo = {}, !.stack = <<>>]
       ELSE [canceller EXCEPT !.pc = IF canceller.stack = <<>> THEN "pick" ELSE "walk"])
  /\ RecordMapped(canceller.child, canceller.terminal)
  /\ UNCHANGED <<ownerGroups, scopeVars, call, futVars, histVars>>

CancelDone ==
  /\ canceller.todo = {}
  /\ CancelStep("pick",
       [canceller EXCEPT !.pc = IF canceller.reset THEN "cancelGeneration" ELSE "idle"])
  /\ UNCHANGED <<storeVars, mapVars, scopeVars, call, futVars, histVars>>

\* clean_generation_mappings, for the generations the predicate selects
CleanMappings(stale) ==
  LET keys == {k \in DOMAIN ownerGroups : k[2] \in stale}
      gone == {ownerGroups[k] : k \in keys}
  IN  /\ DropOwnerKeys(keys)
      /\ childGroups' = [c \in Children |-> IF childGroups[c] \in gone
                                            THEN NoGroup ELSE childGroups[c]]

ResetCancels ==
  /\ GroupLockFree
  /\ CancelStep("cancelGeneration", [canceller EXCEPT !.pc = "advance"])
  /\ CancelGeneration(Session, CurrentGeneration(Session))
  /\ CleanMappings({CurrentGeneration(Session)})
  /\ UNCHANGED <<scopeVars, call, futVars, histVars>>

\* Wrong variant: the mappings of the old generation stay.
ResetAdvancesKeepsMappings ==
  /\ GroupLockFree
  /\ CancelStep("advance", [canceller EXCEPT !.pc = "idle"])
  /\ AdvanceGeneration(Session)
  /\ UNCHANGED <<mapVars, scopeVars, call, futVars, histVars>>

ResetAdvances ==
  /\ GroupLockFree
  /\ CancelStep("advance", [canceller EXCEPT !.pc = "idle"])
  /\ AdvanceGeneration(Session)
  /\ CleanMappings(0 .. CurrentGeneration(Session))
  /\ UNCHANGED <<scopeVars, call, futVars, histVars>>

-----------------------------------------------------------------------------

CallNext(c) ==
  \/ Admit(c) \/ AcquirePermit(c) \/ InsertRecord(c) \/ InsertScope(c)
  \/ MarkRunning(c) \/ JoinGroup(c) \/ Spawn(c) \/ RegisterTask(c)
  \/ RejectSettle(c) \/ RejectPersist(c) \/ RejectRecord(c)

CollectNext(c) ==
  \/ \E d \in Children : TakeHandle(c, d) \/ JoinChild(c, d) \/ JoinHandle(c, d)
  \/ Joined(c) \/ ClaimOwn(c) \/ Resume(c) \/ BeginFinalizing(c) \/ Conclude(c)

FinishNext(c) == Finish(c) \/ Persist(c) \/ Record(c) \/ ForceRecord(c)

CancelNext ==
  \/ \E c \in Children : PickTarget(c) \/ Signal(c) \/ AwaitCancelled(c)
  \/ Snapshot \/ CancelJoined \/ CancelTimeout \/ Return
  \/ CancelSettle \/ CancelPersist \/ CancelRecord \/ CancelDone
  \/ ResetCancels \/ ResetAdvances

Next ==
  \/ \E c \in Children :
       \/ \E p \in Owners, t \in Turns \cup {NoTurn}, g \in GroupIds :
            LookUpGroup(c, p, t, g)
       \/ CallNext(c)
       \/ LoopFails(c) \/ CandidateFinal(c) \/ CollectNext(c) \/ FinishNext(c)
  \/ InterruptRoot
  \/ RootSweep
  \/ \E gen \in 0 .. MaxGeneration : RootPick(gen)
  \/ \E g \in GroupIds : Deadline(g)
  \/ CancelChild \/ CancelSession \/ ResetSession \/ CancelNext

Spec == Init /\ [][Next]_vars

\* What the runtime guarantees: every started future is polled, the locks and
\* the semaphore are first come first served (hence strong fairness), the
\* subagent timeout ends every loop, deadlines pass, and an attached client
\* polls claim_ready_root_group on every tick.
Fairness ==
  /\ \A c \in Children :
       /\ SF_vars(CallNext(c))
       /\ SF_vars(FinishNext(c))
       /\ WF_vars(LoopFails(c))
  /\ \A g \in GroupIds : WF_vars(Deadline(g))
  /\ SF_vars(RootSweep)
  /\ WF_vars(\E gen \in 0 .. MaxGeneration : RootPick(gen))

FairSpec == Spec /\ Fairness

-----------------------------------------------------------------------------
(* Properties                                                              *)

\* Types.  The pool never holds more permits than it was made with, a canceller
\* works off only what it was asked for, and the store keeps only groups whose
\* id was handed out.
TypeOK ==
  /\ DOMAIN generations \subseteq Sessions
  /\ generations \in [DOMAIN generations -> Nat]
  /\ Unclaimed \subseteq minted
  /\ groups \in [Unclaimed -> GroupRecord]
  /\ minted \subseteq GroupIds /\ overdue \subseteq GroupIds
  /\ DOMAIN ownerGroups \subseteq Owners \X Nat \X (Turns \cup {NoTurn})
  /\ ownerGroups \in [DOMAIN ownerGroups -> GroupIds]
  /\ childGroups \in [Children -> GroupIds \cup {NoGroup}]
  /\ scope \in [Children -> Statuses \cup {"absent"}]
  /\ record \in [Children -> Statuses \cup {"absent"}]
  /\ parent \in [Children -> Owners]
  /\ holds \subseteq Children /\ permits \in 0 .. MaxConcurrent
  /\ handle \in [Children -> {"none", "held", "joiner", "canceller"}]
  /\ call \in [Children -> CallPlaces]
  /\ callGroup \in [Children -> GroupIds \cup {NoGroup}]
  /\ fut \in [Children -> FutPlaces]
  /\ verdict \in [Children -> Terminals]
  /\ awaiting \in [Children -> SUBSET Children]
  /\ batch \in [Children -> SUBSET Children]
  /\ synthesized \in [Children -> SUBSET Children]
  /\ sweeper \in {"idle", "swept"}
  /\ canceller.todo \subseteq canceller.targets /\ canceller.targets \subseteq Children
  /\ canceller.child \in Owners
  /\ canceller.terminal \in Terminals
  /\ cancels \in 0 .. MaxCancels /\ interrupts \in 0 .. MaxInterrupts
  /\ torn \subseteq Children /\ registered \subseteq Children
  /\ inbox \in [Children -> Seq(Results)]

\* No permit is lost or duplicated: each is free, in the hands of a `task`
\* call, or in exactly one scope, whatever is dropped or aborted.
PermitsConserved ==
  permits + Cardinality(holds)
          + Cardinality({c \in Children : call[c] \in {"permitted", "stored"}})
    = MaxConcurrent

Delivery == INSTANCE TaskGroupDelivery WITH None <- NoGroup

\* Every step of the coordinator that touches the store is one TaskGroupDelivery
\* allows its callers (this is Delivery!Spec, written so that TLC looks at the
\* touching steps only).  What is proved there for every instance
\* (a result is delivered at most once, only current groups are left, one group
\* per turn) therefore holds of the whole coordinator.
UsesStoreAsPromised ==
  Delivery!Init /\ [][Delivery!vars' # Delivery!vars => Delivery!Next]_vars

\* What a group records for a child is the terminal its scope settled on, or
\* the sweep's timeout: racing finishers never leave two versions.
RecordedIsTerminal ==
  \A g \in Unclaimed : \A c \in Reported(g) \ torn :
    groups[g].results[c] \in {scope[c], "timeout"}

\* An agent that completes has no live child and has taken the result of every
\* child it spawned into its reasoning.  (A child its group refused was never
\* spawned: the `task` call answered with an error.)
CompletesAfterChildren ==
  \A p \in Children : scope[p] = "completed" =>
    \A c \in ChildrenOf(p) :
      Terminal(scope[c]) /\ (c \in registered => c \in synthesized[p])

\* A terminal status is final, except that a reservation's Running mark
\* overwrites whatever a canceller wrote in the middle of the reservation.
TerminalKept ==
  [][\A c \in Children : Terminal(scope[c]) /\ c \notin torn => scope'[c] = scope[c]]_vars

\* A child that is live holds its permit until it is terminal.
LiveHoldsPermit ==
  \A c \in Children : c \notin torn /\ scope[c] \notin {"absent"} \cup Terminals => c \in holds

\* Every permit is accounted for: the pool never exceeds its size, no permit is lost
\* or doubled whatever is dropped or aborted, and a live child keeps its own until
\* it is terminal.
PermitsAccounted == TypeOK /\ PermitsConserved /\ LiveHoldsPermit

\* Results and terminals agree: racing finishers leave one version of a result, and
\* a parent that completes has waited for its children and used what they returned.
TerminalsInOrder == RecordedIsTerminal /\ CompletesAfterChildren

\* cancel_root_children "cancels every live direct child of the persistent
\* root": when a cancel request is over, each child it was for is terminal (in the
\* store, if its call was dropped before it had a scope), unless the request met the
\* child in the middle of its reservation.  True as long as no group's deadline has
\* passed: an expired group refuses a result, and the error ends the request.
CancelSettlesTargets ==
  canceller.pc = "idle" /\ overdue = {} =>
    \A c \in canceller.targets \ torn : Terminal(StatusOf(c))

\* Groups the coordinator still maps belong to the current generation: nothing
\* started before a reset can report into, or add to, what comes after it.
MappingsFollowGeneration ==
  /\ \A k \in DOMAIN ownerGroups : k[2] = CurrentGeneration(Session)
  /\ \A c \in Children : childGroups[c] \in Unclaimed =>
       groups[childGroups[c]].generation = CurrentGeneration(Session)

(* The inductive invariant of AgentCoordinator_proofs, part by part.       *)

Recorded == {c \in Children : record[c] # "absent"}
Kids(p)  == {c \in registered : parent[c] = p}

BeforeScope == {"idle", "lookedUp", "admitted", "permitted", "stored"}
BeforeJoin  == BeforeScope \cup {"pending", "reserved"}
Rejecting   == {"reject", "rejectPersist", "rejectRecord"}
Barrier     == {"claiming", "resuming", "finalizing", "concluding"}
Settled     == {"persist", "record", "force", "ended"}

\* The canceller walks the stored children only, its stack has a frame while it
\* walks, and what it finishes is cancelled or has ended by itself.
Frames == [scope : Recorded, snapped : BOOLEAN, signal : SUBSET Recorded,
           wait : SUBSET Recorded]

CancelPlaces == {"idle", "pick", "walk", "join", "finish", "persist", "record",
                 "cancelGeneration", "advance"}

CancellerRecord == [pc : CancelPlaces, targets : SUBSET Children,
                    todo : SUBSET Recorded, reset : BOOLEAN, stack : Seq(Frames),
                    child : Owners, terminal : Terminals]

CancellerSound ==
  /\ canceller \in CancellerRecord
  /\ canceller.todo \subseteq canceller.targets
  /\ canceller.pc = "walk" => canceller.stack # <<>>
  /\ canceller.pc \in {"join", "finish", "persist", "record"} =>
       canceller.child \in Recorded
  /\ canceller.pc = "join" => fut[canceller.child] # "none"
  /\ canceller.pc \in {"join", "finish"} =>
       canceller.terminal = "cancelled" \/ fut[canceller.child] = "ended"

\* A reset that is under way has a generation left to advance to.
ResetBounded ==
  /\ CurrentGeneration(Session) <= MaxGeneration
  /\ canceller.pc \in {"cancelGeneration", "advance"} => canceller.reset
  /\ canceller.pc # "idle" /\ canceller.reset => CurrentGeneration(Session) < MaxGeneration

\* What the place of c's `task` call and of its future say about c.
Reservation(c) ==
  /\ call[c] \in {"idle", "lookedUp", "admitted", "permitted"} => record[c] = "absent"
  /\ call[c] \in InCall \ {"lookedUp", "admitted", "permitted"} => record[c] # "absent"
  /\ call[c] \in BeforeScope => scope[c] = "absent" /\ c \notin holds
  /\ call[c] \in InCall \ BeforeScope => scope[c] # "absent"
  /\ call[c] = "pending" /\ c \notin torn => scope[c] = "Pending"
  /\ call[c] \in BeforeJoin \cup Rejecting => c \notin registered
  /\ call[c] \in {"rejectPersist", "rejectRecord"} => Terminal(scope[c])
  /\ call[c] \in {"grouped", "spawned"} => c \in registered
  /\ call[c] = "spawned" => fut[c] # "none"
  /\ fut[c] # "none" => call[c] \in {"spawned", "done", "dropped"} /\ c \in registered
  /\ handle[c] # "none" => fut[c] # "none"
  /\ c \in registered => scope[c] # "absent"
  /\ scope[c] # "absent" => record[c] # "absent"
  /\ fut[c] \in Settled => Terminal(scope[c])

\* The coordinator's own maps: keys and unclaimed groups belong to the session and
\* its current generation, and a mapped child is a member of its group.
MapsSound ==
  /\ \A k \in DOMAIN ownerGroups :
       /\ k[2] = CurrentGeneration(Session)
       /\ ownerGroups[k] \in minted
       /\ ownerGroups[k] \in Unclaimed => groups[ownerGroups[k]].owner = k[1]
  /\ \A g \in Unclaimed :
       /\ groups[g].session = Session
       /\ groups[g].owner # Root => groups[g].turn = NoTurn
  /\ \A c \in Children : childGroups[c] # NoGroup =>
       /\ c \in registered /\ childGroups[c] \in minted
       /\ childGroups[c] \in Unclaimed => c \in groups[childGroups[c]].children

\* A result is recorded late only where it is refused again, and the canceller
\* records the terminal the scope settled on.
LateFinishers ==
  /\ \A c \in Children : fut[c] = "force" /\ childGroups[c] \in Unclaimed =>
       groups[childGroups[c]].lifecycle = "Expired"
  /\ canceller.pc \in {"persist", "record"} =>
       \/ canceller.child \in torn
       \/ scope[canceller.child] = canceller.terminal
       \/ /\ scope[canceller.child] = "absent"
          /\ call[canceller.child] \notin BeforeScope

\* The synthesis barrier of p: no call is under way, every child is terminal, every
\* spawned child's result was used.
Quiet(p)  == \A c \in Children : parent[c] = p => call[c] \notin InCall
AllOver(p) == \A c \in ChildrenOf(p) : Terminal(scope[c])
AllUsed(p) == Kids(p) \subseteq synthesized[p]

BarrierSound(p) ==
  /\ fut[p] \in Barrier \cup {"joining"} => Quiet(p)
  /\ fut[p] = "joining" =>
       \A c \in ChildrenOf(p) : c \in awaiting[p] \/ Terminal(scope[c])
  /\ fut[p] \in Barrier => AllOver(p)
  /\ fut[p] = "resuming" /\ batch[p] \subseteq synthesized[p] => AllUsed(p)
  /\ fut[p] \in {"finalizing", "concluding"} => AllUsed(p)
  /\ fut[p] \in FinishPlaces \cup {"ended"} /\ verdict[p] = "completed" =>
       Quiet(p) /\ AllOver(p) /\ AllUsed(p)
  /\ scope[p] = "completed" =>
       /\ fut[p] \in Settled \cup {"aborted"}
       /\ Quiet(p) /\ AllOver(p) /\ AllUsed(p)

\* Once an agent has used the result of one member of its group, what it has not
\* used yet is in that group too: claiming it completes the agent's knowledge.  What
\* it is about to use is everything, or the group it claimed was its only one.
GroupsUsedWhole ==
  /\ \A p \in Children : \A c \in batch[p] \cup synthesized[p] :
       call[c] \notin BeforeJoin
  /\ \A g \in Unclaimed : LET p == groups[g].owner IN p \in Children =>
       \/ groups[g].children \cap synthesized[p] = {}
       \/ Kids(p) \ synthesized[p] \subseteq groups[g].children
  /\ \A p \in Children : fut[p] = "resuming" =>
       Kids(p) \subseteq batch[p] \/ \A g \in Unclaimed : groups[g].owner # p

CoordinatorInv ==
  /\ TypeOK
  /\ Delivery!DeliveryInv
  /\ CancellerSound
  /\ ResetBounded
  /\ \A c \in Children : Reservation(c)
  /\ PermitsConserved
  /\ LiveHoldsPermit
  /\ MapsSound
  /\ LateFinishers
  /\ RecordedIsTerminal
  /\ \A p \in Children : BarrierSound(p)
  /\ GroupsUsedWhole

(* Behind CancelSettlesTargets.                                            *)

\* Until a deadline passes, a child is mapped to an open group, which its owner
\* still has, and only until it has reported: no finisher is refused.
MappedIsOpen ==
  /\ \A g \in Unclaimed : groups[g].lifecycle = "Active"
  /\ \A c \in Children : childGroups[c] # NoGroup =>
       /\ childGroups[c] \in Unclaimed /\ c \notin Reported(childGroups[c])
       /\ OwnerGroupsOf(childGroups[c]) # {}

\* A record that is terminal without a scope gets none any more.
InsertedOnce ==
  \A c \in Children \ torn :
    scope[c] = "absent" /\ Terminal(record[c]) => call[c] \notin BeforeScope

\* The target the request is at: the bottom of its stack, or the child it finishes.
Target(c) ==
  \/ /\ canceller.pc \in {"walk", "join", "finish", "persist", "record"}
     /\ canceller.stack # <<>> /\ canceller.stack[1].scope = c
  \/ /\ canceller.pc \in {"finish", "persist"}
     /\ canceller.stack = <<>> /\ canceller.child = c

\* No target of a request is forgotten.
RequestTracked ==
  /\ canceller.pc \in {"idle", "cancelGeneration", "advance"} => canceller.todo = {}
  /\ \A c \in canceller.targets \ torn :
       Terminal(StatusOf(c)) \/ c \in canceller.todo \/ Target(c)

CancelInv == InsertedOnce /\ (overdue = {} => MappedIsOpen /\ RequestTracked)

\* The result of every root child that joined a group reaches the root, even if
\* the call that spawned the child was dropped half-way: the sweep makes up a
\* timeout for a child that will never report.
ResultArrives ==
  \A c \in Children : (c \in registered /\ parent[c] = Root) ~> (inbox[c] # <<>>)

\* A permit in the scope of a child that will never run: its `task` call was
\* dropped after InsertScope and before Spawn.
Stranded == {c \in holds : call[c] = "dropped" /\ fut[c] = "none"}

\* A `task` call waiting for a permit gets one, or fails with its caller: even
\* with nested calls the wait ends, unless a dropped call strands a permit.
WaitingCallProceeds ==
  \A c \in Children : (call[c] = "admitted") ~> (call[c] # "admitted" \/ Stranded # {})

\* What is on its way to the root arrives, and a call that waits goes on.
NothingWaitsForEver == ResultArrives /\ WaitingCallProceeds

=============================================================================
