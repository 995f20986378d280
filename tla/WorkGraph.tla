------------------------------ MODULE WorkGraph ------------------------------
(***************************************************************************)
(* The verification state machine of one execution session: the nodes an   *)
(* agent begins, the passes of compile, test and verify anchors that judge *)
(* them, decomposition into units, the code-owned routes and the dispatch  *)
(* of the root-cause specialist (src/src/exec_session/node_runtime.rs,     *)
(* runtime_store.rs, decompose.rs and node_tools.rs).                      *)
(*                                                                         *)
(* The root agent and its subagents share the session, so their tool calls *)
(* interleave wherever the code awaits or lets go of the coordinator's     *)
(* lock.  An operation is a record in `op`; one action is one section      *)
(* under that lock.  Passes of the work graph hold an asynchronous gate    *)
(* from their start to their route; begin_node, decompose_node and         *)
(* rollback_node do not take it.                                           *)
(*                                                                         *)
(* Session metadata (session.json) is written by every change of it.  The  *)
(* work state is written by capture_current_work_state, a step of its own: *)
(* `saved` is the copy on disk, `ws` the one in memory.                    *)
(***************************************************************************)
EXTENDS WorkGraphRouting

CONSTANTS Agents,        \* agents with the node tools; they share one session
          RootAgent,     \* the one whose task calls are root calls
          Children,      \* root-cause specialists, each launched at most once
          Human, Daemon, \* the reviewer; the recovery in root_context
          Nobody,
          Requests,      \* [risk, specialists, review] of a begin_node call
          Verdicts,      \* of the human reviewer
          UnitCounts,    \* how many units a decompose_node call proposes
          MaxCalls,      \* bound: calls of the node tools
          MaxCrashes,    \* bound: restarts of the daemon
          MaxDrops,      \* bound: operations dropped at an await
          MaxCuts        \* bound: specialists cut off, at launch or before their terminal handler

Actors == Agents \cup Children \cup {Human, Daemon}

ASSUME RootAssumption == RootAgent \in Agents /\ Human \notin Agents /\ Daemon \notin Agents
ASSUME ActorsAssumption ==
  Children \cap (Agents \cup {Human, Daemon}) = {} /\ Human # Daemon
ASSUME NobodyAssumption == Nobody \notin Actors
ASSUME RequestsAssumption ==
  Requests \subseteq [risk : {"low", "medium", "high"}, specialists : Nat, review : BOOLEAN]
ASSUME UnitsAssumption == UnitCounts \subseteq Nat \ {0}
ASSUME VerdictsAssumption == Verdicts \subseteq {"approve", "reject"}

VARIABLES nodes,     \* session.node_states: [id, status, retry] in order
          cur,       \* session.current_node
          session,   \* session.status
          ws, saved, \* the work state in memory and beside the checkpoint
          rust,      \* whether the project has the Rust verification profile
          gate,      \* who holds work_graph_gate
          pending,   \* pending_root_cause
          op,        \* the operation each actor is in
          poisoned,  \* a panic under the coordinator's write lock
          proven,    \* history: nodes whose anchors have all passed in one attempt
          commanded, \* history: nodes whose own verify commands have passed
          overtaken, \* history: nodes begun while another verdict was on its way
          calls, crashes, drops, cuts

session_vars == <<nodes, cur, session>>
bounds       == <<calls, crashes, drops, cuts>>
vars == <<nodes, cur, session, ws, saved, rust, gate, pending, op, poisoned, proven,
          commanded, overtaken, calls, crashes, drops, cuts>>

Tools == {"begin", "verify", "rollback", "decompose"}

Idle == [pc |-> "idle", node |-> NoNode, attempt |-> 0, why |-> "none", unit |-> 0,
         units |-> 0, passed |-> FALSE]
At(pc) == [Idle EXCEPT !.pc = pc]

NoRoute == [node |-> NoNode, attempt |-> 0, child |-> Nobody]

Statuses == {"Running", "Verifying", "Verified", "Failed"}

Ids == {nodes[i].id : i \in DOMAIN nodes}
current_node == CHOOSE n \in {nodes[i] : i \in DOMAIN nodes} : n.id = cur
HasCurrent == cur \in Ids

\* update_node_status: nothing happens when the node is gone.
WithStatus(id, status) ==
  [i \in DOMAIN nodes |-> IF nodes[i].id = id THEN [nodes[i] EXCEPT !.status = status]
                          ELSE nodes[i]]

\* A section that ends in capture_current_work_state, and one that does not reach it.
Capture(w) == ws' = w /\ saved' = w
NoCapture(w) == ws' = w /\ saved' = saved

Goto(a, o) == op' = [op EXCEPT ![a] = o]
Release(a) == gate' = IF gate = a THEN Nobody ELSE gate
Finish(a) == Goto(a, Idle) /\ Release(a)

-----------------------------------------------------------------------------
(* Admission of a tool call                                                *)

\* Wrong variant: the lock of the route is let go before the node is marked.
RouteUnlocked == FALSE

\* resolve_root_cause_child_terminal keeps the lock of the pending route until it
\* has marked the node.
RouteLocked == \E c \in Children : op[c].pc \in {"failing", "failmark"}

\* Wrong variant: the guard looks at the reservation only.
PendingRouteOnly == poisoned \/ pending # NoRoute

\* The registry's guard: root_cause_pending, true when the lock is poisoned.
root_cause_pending == poisoned \/ pending # NoRoute \/ next_step(ws) = "RootCause"

\* A mutating tool passes the guard; what it then does is a later step.
execute_with_context(a, tool) ==
  /\ op[a] = Idle
  /\ ~ RouteLocked
  /\ ~ root_cause_pending
  /\ calls < MaxCalls
  /\ calls' = calls + 1
  /\ tool = "decompose" => UnitCounts # {}
  /\ Goto(a, At(tool))
  /\ UNCHANGED <<session_vars, ws, saved, rust, gate, pending, poisoned, proven, commanded,
                 overtaken, crashes, drops, cuts>>

-----------------------------------------------------------------------------
(* begin_node                                                              *)

NextId ==
  LET used == Ids \cup {n \in NodeIds : ws.audit[n].known} IN
  IF used = {} THEN 1 ELSE 1 + CHOOSE n \in used : \A k \in used : k <= n

Terminal == HasCurrent => current_node.status \in {"Verified", "Failed"}

Known(w, n) == [w EXCEPT !.audit[n].known = TRUE]

FreshState(request, n) ==
  Known([reset_for_new_node(ws) EXCEPT !.plan =
           compose_work_graph(request.risk, request.specialists, request.review)], n)

AddNode(n) ==
  /\ nodes' = Append(nodes, [id |-> n, status |-> "Running", retry |-> 0])
  /\ cur' = n
  /\ overtaken' = IF \E b \in Actors : op[b].node # NoNode THEN overtaken \cup {n}
                  ELSE overtaken

\* begin_node_with_work_graph: refused unless the current node is terminal.
BeginNode(a, request) ==
  /\ op[a].pc = "begin"
  /\ ~ poisoned
  /\ Goto(a, Idle)
  /\ IF Terminal /\ NextId \in NodeIds
     THEN AddNode(NextId) /\ Capture(FreshState(request, NextId))
     ELSE UNCHANGED <<nodes, cur, ws, saved, overtaken>>
  /\ UNCHANGED <<session, rust, gate, pending, poisoned, proven, commanded, bounds>>

\* The daemon dies after add_node has written session.json and before the work
\* state is captured.
RestartOps == [b \in Actors |-> IF b \in Children /\ op[b].pc # "idle" THEN At("done") ELSE Idle]

CrashInBegin(a) ==
  /\ op[a].pc = "begin"
  /\ ~ poisoned /\ Terminal /\ NextId \in NodeIds
  /\ crashes < MaxCrashes
  /\ crashes' = crashes + 1
  /\ nodes' = Append(nodes, [id |-> NextId, status |-> "Running", retry |-> 0])
  /\ cur' = NextId
  /\ overtaken' = overtaken \cup {NextId}
  /\ op' = RestartOps /\ gate' = Nobody /\ pending' = NoRoute
  /\ NoCapture(saved)
  /\ UNCHANGED <<session, rust, poisoned, proven, commanded, calls, drops, cuts>>

-----------------------------------------------------------------------------
(* verify_node: entry and decomposed units                                 *)

HasOpenUnits == \E i \in DOMAIN ws.units : ws.units[i].outcome = "none"

Entry == IF rust THEN At("gate") ELSE At("legacy")

verify_current_node(a) ==
  /\ op[a].pc = "verify"
  /\ ~ poisoned
  /\ Goto(a, IF ~ HasCurrent THEN Idle ELSE IF HasOpenUnits THEN At("unitgate") ELSE Entry)
  /\ UNCHANGED <<session_vars, ws, saved, rust, gate, pending, poisoned, proven, commanded,
                 overtaken, bounds>>

\* run_decomposed_units takes the gate and a copy of the units: how many there are
\* and, in `attempt`, the iterations each may use.
run_decomposed_units(a) ==
  /\ op[a].pc = "unitgate"
  /\ ~ poisoned
  /\ gate = Nobody
  /\ IF HasCurrent /\ ws.units # <<>>
     THEN gate' = a /\ Goto(a, [At("units") EXCEPT !.node = cur, !.unit = 1, !.units = Len(ws.units),
                                                   !.attempt = ws.units[1].allocation])
     ELSE gate' = gate /\ Goto(a, Idle)
  /\ UNCHANGED <<session_vars, ws, saved, rust, pending, poisoned, proven, commanded, overtaken,
                 bounds>>

\* One unit runs its anchors, at most `attempt` times, until they pass; its outcome
\* is recorded under its name, whatever the units are by then.
RunUnit(a, used, passed) ==
  LET i == op[a].unit
      w == Noted(ws, op[a].node, used) IN
  /\ op[a].pc = "units" /\ i <= op[a].units
  /\ ~ poisoned
  /\ IF passed THEN used \in 1 .. op[a].attempt ELSE used = op[a].attempt
  /\ IF i \in DOMAIN ws.units
     THEN /\ Capture([w EXCEPT !.units[i].outcome = IF passed THEN "passed" ELSE "failed"])
          /\ Goto(a, [op[a] EXCEPT !.unit = i + 1, !.passed = @ \/ passed])
          /\ gate' = gate
     ELSE NoCapture(w) /\ Finish(a)
  /\ UNCHANGED <<session_vars, rust, pending, poisoned, proven, commanded, overtaken, bounds>>

\* The parent is charged when no unit passed; neither that nor the route is
\* captured.  The gate is free again: the parent's own pass queues for it anew.
RouteParent(a) ==
  LET w == IF op[a].passed THEN ws ELSE consume_iteration_budget(ws) IN
  /\ op[a].pc = "units" /\ op[a].unit > op[a].units
  /\ ~ poisoned
  /\ Release(a)
  /\ IF ~ op[a].passed /\ ~ ws.budget.has
     THEN NoCapture(ws) /\ Goto(a, Idle)
     ELSE /\ NoCapture(w)
          /\ Goto(a, IF next_step(w) = "Escalate"
                     THEN [At("failing") EXCEPT !.node = op[a].node, !.units = 1]
                     ELSE Entry)
  /\ UNCHANGED <<session_vars, rust, pending, poisoned, proven, commanded, overtaken, bounds>>

-----------------------------------------------------------------------------
(* verify_node: a pass of the work graph                                   *)

\* Wrong variant: a pass starts without waiting for the gate.
PrepareUngated(a) ==
  /\ op[a].pc = "gate"
  /\ ~ poisoned
  /\ IF HasCurrent
     THEN /\ gate' = a
          /\ Capture([reset_for_work_graph_pass(ws) EXCEPT !.budget = Budget(Remaining(ws))])
          /\ Goto(a, [At("compile") EXCEPT !.node = cur, !.attempt = ws.audit[cur].attempt + 1])
     ELSE Finish(a) /\ UNCHANGED <<ws, saved>>
  /\ UNCHANGED <<session_vars, rust, pending, poisoned, proven, commanded, overtaken, bounds>>

\* prepare_work_graph_pass, once the gate is ours.
prepare_work_graph_pass(a) ==
  /\ op[a].pc = "gate"
  /\ ~ poisoned
  /\ gate = Nobody
  /\ IF HasCurrent
     THEN /\ gate' = a
          /\ Capture([reset_for_work_graph_pass(ws) EXCEPT !.budget = Budget(Remaining(ws))])
          /\ Goto(a, [At("compile") EXCEPT !.node = cur, !.attempt = ws.audit[cur].attempt + 1])
     ELSE Finish(a) /\ UNCHANGED <<ws, saved>>
  /\ UNCHANGED <<session_vars, rust, pending, poisoned, proven, commanded, overtaken, bounds>>

\* Where a pass goes from a routed result: on to the next anchor, to a terminal
\* edge with the gate still held, or out with the gate released.
AfterRoute(a, step) ==
  LET to == CASE step = "TestAnchor" /\ op[a].pc = "compile" -> "test"
              [] step = "VerifyGate" /\ op[a].pc = "test" -> "final"
              [] step = "Complete" -> "completing"
              [] step = "Escalate" -> "failing"
              [] step = "RootCause" -> "dispatch"
              [] OTHER -> "idle" IN
  /\ Goto(a, IF to \in {"idle", "dispatch"} THEN At(to) ELSE [op[a] EXCEPT !.pc = to])
  /\ IF to \in {"idle", "dispatch"} THEN Release(a) ELSE gate' = gate

\* The run of failed test anchors adapt_work_graph counts back over.
TestStreak(w, n, ok) == [w EXCEPT !.audit[n].testFailures = IF ok THEN 0 ELSE @ + 1]

\* Wrong variant: the routed result is not captured.
RecordUncaptured(a, anchor, why) ==
  LET n == op[a].node
      k == op[a].attempt
      got == [ws EXCEPT ![anchor] = Result(why, <<n, k>>)]
      w == Noted(IF why = "failed" THEN consume_iteration_budget(got) ELSE got, n, k) IN
  /\ ~ poisoned
  /\ NoCapture(Routed(w, n, k, next_step(w))) /\ AfterRoute(a, next_step(w))
  /\ UNCHANGED <<session_vars, rust, pending, poisoned, commanded, overtaken, bounds>>

\* The result of an anchor: stored, charged when a command failed, audited and
\* captured, then routed, audited and captured again.  Without a budget the charge
\* is an error that leaves the result in memory only.
RecordResult(a, anchor, why) ==
  LET n    == op[a].node
      k    == op[a].attempt
      got  == [ws EXCEPT ![anchor] = Result(why, <<n, k>>)]
      paid == IF why = "failed" THEN consume_iteration_budget(got) ELSE got
      seen == Noted(IF anchor = "test" THEN TestStreak(paid, n, why = "passed") ELSE paid, n, k)
      change == IF anchor = "test" THEN adapt_work_graph(seen, n) ELSE "Unchanged"
      plan == IF change = "Splice" THEN apply_adaptation(seen) ELSE seen
      step == IF change = "Escalate" THEN "Escalate" ELSE next_step(plan) IN
  /\ ~ poisoned
  /\ IF why = "failed" /\ ~ ws.budget.has
     THEN NoCapture(got) /\ Finish(a)
     ELSE Capture(Routed(plan, n, k, step)) /\ AfterRoute(a, step)
  /\ UNCHANGED <<session_vars, rust, pending, poisoned, commanded, overtaken, bounds>>

record_compile_result(a, why) ==
  /\ op[a].pc = "compile" /\ why \in {"passed", "failed"}
  /\ RecordResult(a, "compile", why)
  /\ UNCHANGED proven

record_test_result(a, why) ==
  /\ op[a].pc = "test" /\ why \in {"passed", "failed"}
  /\ RecordResult(a, "test", why)
  /\ UNCHANGED proven

\* The three anchors hold together: all passed in one attempt at this node, and a
\* human approved it where the plan asks for one.
Proof(w, n) ==
  /\ w.compile.ok /\ w.test.ok /\ w.verify.ok
  /\ w.compile.pass = w.test.pass /\ w.test.pass = w.verify.pass
  /\ w.verify.pass[1] = n
  /\ w.plan.review => w.review = "approve"

Prove(w) == proven' = proven \cup {n \in NodeIds : Proof(w, n)}

record_verify_result(a, why) ==
  /\ op[a].pc = "final"
  /\ RecordResult(a, "verify", why)
  /\ Prove(ws')

\* Wrong variant: the guard of the pass is never dropped.
CompletedKeepsGate(a) ==
  /\ op[a].pc = "completing"
  /\ ~ poisoned
  /\ session' = "Completed"
  /\ Goto(a, [op[a] EXCEPT !.pc = "marking"])
  /\ UNCHANGED <<nodes, cur, ws, saved, rust, gate, pending, poisoned, proven, commanded,
                 overtaken, bounds>>

\* complete_work_graph_route, Complete: mark_completed sets the session's status;
\* the guard of the pass is dropped before the node is marked.
mark_completed(a) ==
  /\ op[a].pc = "completing"
  /\ ~ poisoned
  /\ session' = "Completed"
  /\ Goto(a, [op[a] EXCEPT !.pc = "marking"])
  /\ Release(a)
  /\ UNCHANGED <<nodes, cur, ws, saved, rust, pending, poisoned, proven, commanded, overtaken,
                 bounds>>

\* verify_current_node and record_human_review mark whatever node is current.
MarkVerified(a) ==
  /\ op[a].pc = "marking"
  /\ ~ poisoned
  /\ IF HasCurrent THEN session' = "InProgress" /\ nodes' = WithStatus(cur, "Verified")
                   ELSE UNCHANGED <<session, nodes>>
  /\ Goto(a, Idle)
  /\ UNCHANGED <<cur, ws, saved, rust, gate, pending, poisoned, proven, commanded, overtaken,
                 bounds>>

\* complete_work_graph_route, Escalate: the session first, then the current node,
\* with the pass's gate (or the child's hold on the route) kept to the end.
mark_failed(a) ==
  /\ op[a].pc = "failing"
  /\ ~ poisoned
  /\ session' = "Failed"
  /\ Goto(a, [op[a] EXCEPT !.pc = "failmark"])
  /\ UNCHANGED <<nodes, cur, ws, saved, rust, gate, pending, poisoned, proven, commanded,
                 overtaken, bounds>>

Ended(a) == IF a \in Children THEN At("done") ELSE Idle

MarkFailed(a) ==
  /\ op[a].pc = "failmark"
  /\ ~ poisoned
  /\ nodes' = IF HasCurrent THEN WithStatus(cur, "Failed") ELSE nodes
  /\ Goto(a, IF HasCurrent /\ op[a].units > 0 THEN [op[a] EXCEPT !.pc = "failagain"] ELSE Ended(a))
  /\ Release(a)
  /\ UNCHANGED <<cur, session, ws, saved, rust, pending, poisoned, proven, commanded, overtaken,
                 bounds>>

\* After units that escalated, verify_current_node marks the current node once more.
MarkFailedAgain(a) ==
  /\ op[a].pc = "failagain"
  /\ ~ poisoned
  /\ nodes' = IF HasCurrent THEN WithStatus(cur, "Failed") ELSE nodes
  /\ Goto(a, Idle)
  /\ UNCHANGED <<cur, session, ws, saved, rust, gate, pending, poisoned, proven, commanded,
                 overtaken, bounds>>

-----------------------------------------------------------------------------
(* verify_node of a project without anchors (verify_node)                  *)

LegacyRead(a) ==
  /\ op[a].pc = "legacy"
  /\ ~ poisoned
  /\ Goto(a, IF HasCurrent /\ current_node.status \in {"Running", "Failed"}
             THEN [At("legacyset") EXCEPT !.node = cur] ELSE Idle)
  /\ UNCHANGED <<session_vars, ws, saved, rust, gate, pending, poisoned, proven, commanded,
                 overtaken, bounds>>

LegacyVerifying(a) ==
  /\ op[a].pc = "legacyset"
  /\ ~ poisoned
  /\ nodes' = WithStatus(op[a].node, "Verifying")
  /\ Goto(a, [op[a] EXCEPT !.pc = "legacyrun"])
  /\ UNCHANGED <<cur, session, ws, saved, rust, gate, pending, poisoned, proven, commanded,
                 overtaken, bounds>>

\* verify_and_complete: the hook decides, from the length of the log, whether a
\* failure leaves the session open.
verify_and_complete(a, why) ==
  /\ op[a].pc = "legacyrun"
  /\ ~ poisoned
  /\ IF why = "passed" THEN session' = "Completed" ELSE session' \in {session, "Failed"}
  /\ commanded' = IF why = "passed" THEN commanded \cup {op[a].node} ELSE commanded
  /\ Goto(a, [op[a] EXCEPT !.pc = "legacyend", !.why = why])
  /\ UNCHANGED <<nodes, cur, ws, saved, rust, gate, pending, poisoned, proven, overtaken, bounds>>

\* The verdict goes to the node that was verified; `current_node().expect` panics,
\* with the write lock held, when a rollback has left no current node.
LegacyFinish(a) ==
  LET n  == op[a].node
      ok == op[a].why = "passed"
      marked == WithStatus(n, IF ok THEN "Verified" ELSE "Failed")
      counted == [i \in DOMAIN marked |->
                    IF ~ ok /\ marked[i].id = n THEN [marked[i] EXCEPT !.retry = @ + 1]
                    ELSE marked[i]] IN
  /\ op[a].pc = "legacyend"
  /\ ~ poisoned
  /\ nodes' = counted
  /\ poisoned' = ~ HasCurrent
  /\ IF HasCurrent THEN Capture([ws EXCEPT !.verify = Result(op[a].why, <<n, 0>>)])
                   ELSE UNCHANGED <<ws, saved>>
  /\ session' = IF ok THEN "InProgress"
                ELSE IF \E i \in DOMAIN counted : counted[i].id = cur
                                                  /\ counted[i].retry >= AutoRetryMax
                THEN "Failed" ELSE session
  /\ Goto(a, Idle)
  /\ UNCHANGED <<cur, rust, gate, pending, proven, commanded, overtaken, bounds>>

-----------------------------------------------------------------------------
(* The root-cause specialist                                               *)

\* root_cause_dispatch_request: the current node and its latest RootCause route.
CanReserve == ~ poisoned /\ HasCurrent /\ ws.audit[cur].rootCause > 0

Reserve(a) ==
  /\ pending' = [node |-> cur, attempt |-> ws.audit[cur].rootCause, child |-> Nobody]
  /\ Goto(a, At("launch"))

prepare_root_cause_dispatch(a) ==
  /\ op[a].pc = "dispatch"
  /\ ~ RouteLocked
  /\ IF pending = NoRoute /\ CanReserve THEN Reserve(a) ELSE pending' = pending /\ Goto(a, Idle)
  /\ UNCHANGED <<session_vars, ws, saved, rust, gate, poisoned, proven, commanded, overtaken,
                 bounds>>

\* root_context, before a run of the root: a route whose child was lost is dispatched
\* again from the persisted state.
prepare_recovered_root_cause_dispatch ==
  /\ op[Daemon] = Idle
  /\ ~ RouteLocked
  /\ pending = NoRoute /\ next_step(ws) = "RootCause" /\ CanReserve
  /\ Reserve(Daemon)
  /\ UNCHANGED <<session_vars, ws, saved, rust, gate, poisoned, proven, commanded, overtaken,
                 bounds>>

\* The task tool binds the child it has admitted before it spawns it; only a root
\* call binds.  With the lock poisoned the child is noted, and cancelled.
try_bind_root_cause_child(a, c) ==
  /\ op[a].pc = "launch"
  /\ a \in {RootAgent, Daemon}
  /\ op[c] = Idle
  /\ ~ RouteLocked
  /\ pending # NoRoute /\ pending.child = Nobody
  /\ pending' = [pending EXCEPT !.child = c]
  /\ op' = [op EXCEPT ![a] = Idle, ![c] = At(IF poisoned THEN "done" ELSE "running")]
  /\ saved' = IF poisoned THEN saved ELSE ws
  /\ UNCHANGED <<session_vars, ws, rust, gate, poisoned, proven, commanded, overtaken, bounds>>

\* The launcher fails, or starts a child it cannot bind.
cancel_root_cause_dispatch(a) ==
  /\ op[a].pc = "launch"
  /\ ~ RouteLocked
  /\ pending' = IF pending.child = Nobody THEN NoRoute ELSE pending
  /\ Goto(a, Idle)
  /\ UNCHANGED <<session_vars, ws, saved, rust, gate, poisoned, proven, commanded, overtaken,
                 bounds>>

\* The child's report: it must be the dispatched child, about the latest RootCause
\* route of the current node, and must release the Implement edge.  The report is
\* stored before that last check, which leaves it in memory when it refuses.
ReportMatches(c) ==
  /\ pending.child = c
  /\ HasCurrent
  /\ pending.node = cur /\ pending.attempt = ws.audit[cur].rootCause

record_specialist_report(c) ==
  LET w == [ws EXCEPT !.report = <<pending.node, pending.attempt>>] IN
  /\ op[c].pc = "running"
  /\ ~ poisoned /\ ~ RouteLocked
  /\ ReportMatches(c)
  /\ IF next_step(w) = "Implement"
     THEN Capture(Routed(w, cur, pending.attempt, "Implement")) /\ pending' = NoRoute
     ELSE NoCapture(w) /\ pending' = pending
  /\ UNCHANGED <<session_vars, rust, gate, op, poisoned, proven, commanded, overtaken, bounds>>

\* Wrong variant: the terminal records Escalate and leaves the route pending.
ResolveKeepsRoute(c) ==
  /\ op[c].pc = "running"
  /\ ~ RouteLocked
  /\ IF pending.child # c \/ poisoned
     THEN Goto(c, At("done")) /\ UNCHANGED <<ws, saved>>
     ELSE /\ Capture(Noted([ws EXCEPT !.budget.left = 0], pending.node, pending.attempt))
          /\ Goto(c, [At("failing") EXCEPT !.node = pending.node])
  /\ UNCHANGED <<session_vars, rust, gate, pending, poisoned, proven, commanded, overtaken,
                 bounds>>

\* The child ends.  Without a report the route fails closed: no budget is left and
\* the Escalate edge is recorded; the node is marked with the route still locked.
resolve_root_cause_child_terminal(c) ==
  LET w == [ws EXCEPT !.budget.left = 0] IN
  /\ op[c].pc = "running"
  /\ ~ RouteLocked
  /\ IF pending.child # c \/ poisoned
     THEN Goto(c, At("done")) /\ UNCHANGED <<ws, saved, pending>>
     ELSE /\ Capture(Noted(w, pending.node, pending.attempt))
          /\ pending' = NoRoute
          /\ Goto(c, [At("failing") EXCEPT !.node = pending.node])
  /\ UNCHANGED <<session_vars, rust, gate, poisoned, proven, commanded, overtaken, bounds>>

\* The agent coordinator aborts the child's task: nothing after its current await runs.
AbortChild(c) ==
  /\ op[c].pc = "running"
  /\ cuts < MaxCuts
  /\ cuts' = cuts + 1
  /\ Goto(c, At("done"))
  /\ UNCHANGED <<session_vars, ws, saved, rust, gate, pending, poisoned, proven, commanded,
                 overtaken, calls, crashes, drops>>

-----------------------------------------------------------------------------
(* Human review, rollback, decomposition                                   *)

record_human_review(verdict) ==
  LET w == [ws EXCEPT !.review = verdict]
      n == cur IN
  /\ op[Human] = Idle
  /\ ~ poisoned
  /\ HasCurrent /\ ws.plan.has /\ ws.plan.review /\ ws.verify.ok
  /\ Capture(Routed(w, n, Greater(ws.audit[n].attempt, 1), next_step(w)))
  /\ Prove(w)
  /\ Goto(Human, CASE next_step(w) = "Complete" -> [At("completing") EXCEPT !.node = n]
                   [] next_step(w) = "Escalate" -> [At("failing") EXCEPT !.node = n]
                   [] OTHER -> Idle)
  /\ UNCHANGED <<session_vars, rust, gate, pending, poisoned, commanded, overtaken, bounds>>

Anchors == {i \in DOMAIN nodes : nodes[i].status \in {"Verified", "Failed"}}
Anchor == CHOOSE i \in Anchors : \A k \in Anchors : k <= i

\* The work state of the checkpoint comes back without its decomposition, with the
\* budget from before it, and with every audit event recorded since.
RolledBack ==
  LET restored == [saved EXCEPT !.audit = ws.audit] IN
  clear_decomposition(IF ws.units = <<>> THEN restored
                      ELSE [restored EXCEPT !.budget = IF ws.before.has THEN ws.before ELSE Budget(1)])

\* Wrong variant: truncation leaves current_node as it was.
RollbackKeepsCurrent(a) ==
  /\ op[a].pc = "rollback"
  /\ ~ poisoned
  /\ Anchors # {}
  /\ nodes[Anchor].status = "Failed" \/ Anchor < Len(nodes)
  /\ nodes' = SubSeq(nodes, 1, IF nodes[Anchor].status = "Failed" THEN Anchor - 1 ELSE Anchor)
  /\ NoCapture(RolledBack)
  /\ Goto(a, Idle)
  /\ UNCHANGED <<cur, session, rust, gate, pending, poisoned, proven, commanded, overtaken,
                 bounds>>

\* Refused without an anchor, or when a verified anchor is the last node.
rollback_node(a) ==
  /\ op[a].pc = "rollback"
  /\ ~ poisoned
  /\ Anchors # {}
  /\ nodes[Anchor].status = "Failed" \/ Anchor < Len(nodes)
  /\ IF nodes[Anchor].status = "Failed"
     THEN nodes' = SubSeq(nodes, 1, Anchor - 1) /\ cur' = NoNode
     ELSE nodes' = SubSeq(nodes, 1, Anchor) /\ cur' = nodes[Anchor].id
  /\ NoCapture(RolledBack)
  /\ Goto(a, Idle)
  /\ UNCHANGED <<session, rust, gate, pending, poisoned, proven, commanded, overtaken, bounds>>

\* Refused as above, or because commits would be lost, or the workspace cannot be
\* restored.
RollbackRefused(a) ==
  /\ op[a].pc = "rollback"
  /\ ~ poisoned
  /\ Goto(a, Idle)
  /\ UNCHANGED <<session_vars, ws, saved, rust, gate, pending, poisoned, proven, commanded,
                 overtaken, bounds>>

\* decompose_for_runtime; `checked_sub(1).expect` panics under the write lock when
\* no iteration is left.
decompose_node(a, count) ==
  LET left == Remaining(ws)
      unit == [allocation |-> child_max_iter(left, count), outcome |-> "none"]
      ready == ws.plan.has /\ HasCurrent IN
  /\ op[a].pc = "decompose"
  /\ ~ poisoned
  /\ count <= MAX_DECOMPOSE_UNITS
  /\ poisoned' = (ready /\ left = 0)
  /\ IF ready /\ left > 0 /\ Affordable(left, count)
     THEN Capture(Noted([ws EXCEPT !.before = Budget(left),
                                   !.budget = Budget(Retained(left, count)),
                                   !.units = [i \in 1 .. count |-> unit]],
                        cur, Greater(ws.audit[cur].attempt, 1)))
     ELSE UNCHANGED <<ws, saved>>
  /\ Goto(a, Idle)
  /\ UNCHANGED <<session_vars, rust, gate, pending, proven, commanded, overtaken, bounds>>

-----------------------------------------------------------------------------
(* Faults                                                                  *)

\* The run of an agent is cancelled: its operation ends at the await it is in and
\* lets go of the gate.
Awaits == {"gate", "unitgate", "units", "compile", "test", "final", "legacyrun"}

Drop(a) ==
  /\ op[a].pc \in Awaits
  /\ drops < MaxDrops
  /\ drops' = drops + 1
  /\ Finish(a)
  /\ UNCHANGED <<session_vars, ws, saved, rust, pending, poisoned, proven, commanded, overtaken,
                 calls, crashes, cuts>>

\* Cancelled while it launches a specialist: the reservation stays, bound to nobody.
DropLaunch(a) ==
  /\ op[a].pc = "launch"
  /\ cuts < MaxCuts
  /\ cuts' = cuts + 1
  /\ Goto(a, Idle)
  /\ UNCHANGED <<session_vars, ws, saved, rust, gate, pending, poisoned, proven, commanded,
                 overtaken, calls, crashes, drops>>

\* With the lock poisoned every operation under way ends in an error.
LockError(a) ==
  /\ poisoned
  /\ op[a].pc \notin {"idle", "running", "done", "launch", "dispatch"}
  /\ Goto(a, Ended(a)) /\ Release(a)
  /\ UNCHANGED <<session_vars, ws, saved, rust, pending, poisoned, proven, commanded, overtaken,
                 bounds>>

\* The daemon restarts from session.json and the captured work state.
Restart ==
  /\ crashes < MaxCrashes
  /\ crashes' = crashes + 1
  /\ NoCapture(saved)
  /\ op' = RestartOps /\ gate' = Nobody /\ pending' = NoRoute /\ poisoned' = FALSE
  /\ UNCHANGED <<session_vars, rust, proven, commanded, overtaken, calls, drops, cuts>>

-----------------------------------------------------------------------------
Init ==
  /\ nodes = <<>> /\ cur = NoNode /\ session = "InProgress"
  /\ ws = DefaultWorkState /\ saved = DefaultWorkState
  /\ rust \in BOOLEAN
  /\ gate = Nobody /\ pending = NoRoute /\ op = [a \in Actors |-> Idle]
  /\ poisoned = FALSE /\ proven = {} /\ commanded = {} /\ overtaken = {}
  /\ calls = 0 /\ crashes = 0 /\ drops = 0 /\ cuts = 0

\* The sections of an operation that nothing but a lock or a fault can hold up.
Proceed(a) ==
  \/ \E r \in Requests : BeginNode(a, r)
  \/ verify_current_node(a) \/ run_decomposed_units(a) \/ RouteParent(a)
  \/ \E used \in 0 .. AutoRetryMax, ok \in BOOLEAN : RunUnit(a, used, ok)
  \/ prepare_work_graph_pass(a)
  \/ \E why \in {"passed", "failed", "boundary"} :
       \/ record_compile_result(a, why) \/ record_test_result(a, why)
       \/ record_verify_result(a, why) \/ verify_and_complete(a, why)
  \/ LegacyRead(a) \/ LegacyVerifying(a) \/ LegacyFinish(a)
  \/ rollback_node(a) \/ RollbackRefused(a)
  \/ \E count \in UnitCounts : decompose_node(a, count)
  \/ prepare_root_cause_dispatch(a)

\* What any actor does once its verdict is decided, or its lock is gone.
Settle(a) ==
  mark_completed(a) \/ MarkVerified(a) \/ mark_failed(a) \/ MarkFailed(a) \/ MarkFailedAgain(a)
  \/ LockError(a)

Launch(a) == (\E c \in Children : try_bind_root_cause_child(a, c)) \/ cancel_root_cause_dispatch(a)

ChildEnds(c) == resolve_root_cause_child_terminal(c)

Faults ==
  \/ \E a \in Agents : Drop(a)
  \/ \E a \in Agents \cup {Daemon} : DropLaunch(a)
  \/ \E a \in Agents : CrashInBegin(a)
  \/ \E c \in Children : AbortChild(c)
  \/ Restart

Next ==
  \/ \E a \in Agents, tool \in Tools : execute_with_context(a, tool)
  \/ \E a \in Agents : Proceed(a)
  \/ \E a \in Actors : Settle(a)
  \/ \E a \in Agents \cup {Daemon} : Launch(a)
  \/ prepare_recovered_root_cause_dispatch
  \/ \E c \in Children : record_specialist_report(c) \/ ChildEnds(c)
  \/ \E verdict \in Verdicts : record_human_review(verdict)
  \/ Faults

Spec == Init /\ [][Next]_vars

\* Locks are granted in turn, commands and launches end, and a specialist runs under
\* a deadline.
Fairness ==
  /\ \A a \in Agents : SF_vars(Proceed(a))
  /\ \A a \in Actors : WF_vars(Settle(a))
  /\ \A a \in Agents \cup {Daemon} : WF_vars(Launch(a))
  /\ \A c \in Children : WF_vars(ChildEnds(c))

FairSpec == Spec /\ Fairness
-----------------------------------------------------------------------------
(* Properties                                                              *)

OpPlaces == {"idle", "gate", "unitgate", "units", "compile", "test", "final", "completing",
             "marking", "failing", "failmark", "failagain", "legacy", "legacyset", "legacyrun",
             "legacyend", "dispatch", "launch", "running", "done"} \cup Tools

WorkStateOK(w) ==
  /\ \A r \in {w.compile, w.test, w.verify} : r.ok \in BOOLEAN /\ r.pass[1] \in {NoNode} \cup NodeIds
  /\ w.budget.left \in 0 .. AutoRetryMax + 1
  /\ Len(w.units) <= MAX_DECOMPOSE_UNITS
  /\ w.plan.revision <= 1 + MAX_PLAN_ADAPTATIONS

\* The state has its type: node ids are unique and in order, and the current node is
\* in the chain (node_states and current_node of session.rs).
TypeOK ==
  /\ \A i \in DOMAIN nodes : nodes[i].id \in NodeIds /\ nodes[i].status \in Statuses
  /\ \A i, k \in DOMAIN nodes : i < k => nodes[i].id < nodes[k].id
  /\ cur \in {NoNode} \cup Ids
  /\ session \in {"InProgress", "Completed", "Failed"}
  /\ WorkStateOK(ws) /\ WorkStateOK(saved)
  /\ gate \in {Nobody} \cup Agents
  /\ pending.child \in {Nobody} \cup Children
  /\ \A a \in Actors : op[a].pc \in OpPlaces

\* What a node has to have for its mark, and the nodes begun while another verdict was
\* on its way, which begin_node and rollback_node let happen.
Earned == overtaken \cup (IF rust THEN proven ELSE commanded)

\* Where a project has the Rust profile, a node marked Verified has passed compile,
\* test and verify anchors, all in one attempt at that very node, and a human has
\* approved it where its plan asks for one.  Without the profile its own verify
\* commands have passed, and that is all: verify_current_node then runs no compile or
\* test anchor and asks no human, whatever begin_node was told.
VerifiedWasProven ==
  \A i \in DOMAIN nodes : nodes[i].status = "Verified" => nodes[i].id \in Earned

\* A pass is one sequence: while it is at its test or verify anchor, the results on
\* record for its node are its own; begin_node and rollback_node, which do not take
\* the gate, may have wiped them, but no other attempt's are mixed in.
PassNotInterleaved ==
  \A a \in Agents :
    op[a].pc \in {"test", "final"} /\ op[a].node = cur =>
      \A r \in {ws.compile, ws.test} : r.pass \in {NoPass, <<op[a].node, op[a].attempt>>}

\* Node, budget, audit and results tell one story, whatever begins, rolls back or
\* restarts in the middle of a pass, and no pass mixes in results of another.
PassesSound == TypeOK /\ PassNotInterleaved

\* The diagnostic gate survives a restart: while the root is held back for a
\* root-cause report, the work state on disk holds it back as well.
GateSurvivesRestart == next_step(ws) = "RootCause" => next_step(saved) = "RootCause"

\* The root is held back only where a specialist can be asked: a node is current and
\* has a failure routed to root cause.
HeldOnlyForANode ==
  next_step(ws) = "RootCause" => HasCurrent /\ ws.audit[cur].rootCause > 0

\* The root is held back for a diagnosis in memory and on disk alike, and only where
\* one can be asked for.
HeldForADiagnosis == GateSurvivesRestart /\ HeldOnlyForANode

\* The report that releases the Implement edge is about the failure on record, not
\* about an earlier attempt or another node.
ReportIsForThisFailure ==
  ws.report # NoPass =>
    \E r \in {ws.compile, ws.test, ws.verify} :
      Present(r) /\ r.pass = ws.report /\ (~ r.ok \/ ws.review = "reject")

\* A verdict lands on the node it is about.
VerdictOnOwnNode ==
  \A a \in Actors :
    op[a].pc \in {"completing", "marking", "failing", "failmark", "failagain"} => op[a].node = cur

\* Neither a report nor a verdict is ever about another node or attempt than the one
\* it is applied to.
VerdictsAreAboutTheirNode == ReportIsForThisFailure /\ VerdictOnOwnNode

\* Nothing an agent does lends it iterations: until a node is begun or rolled back,
\* or the daemon restarts, what a node and its units may still spend never grows,
\* however often it is decomposed, verified or given up half way.
BudgetNeverGrows ==
  [][(Len(nodes') = Len(nodes) /\ crashes' = crashes) => Spendable(ws') <= Spendable(ws)]_vars

\* The root cannot go around the specialist: a failure routed to root cause stays
\* so until a report is in or the budget is gone.
DiagnosisIsNotBypassed ==
  [][next_step(ws) = "RootCause" =>
       next_step(ws') = "RootCause" \/ ws'.report # NoPass \/ ws'.budget.left = 0]_vars

\* A reserved route is resolved, so the root is not blocked for ever, unless the
\* specialist is aborted, or its launcher cancelled, before its terminal handler runs.
RouteResolved == pending # NoRoute ~> (pending = NoRoute \/ cuts > 0)

\* Every tool call ends.
CallEnds == \A a \in Agents : op[a] # Idle ~> op[a] = Idle

\* Nothing waits for ever: calls end, whoever holds the gate or is dropped with it,
\* and so does the hold on the root.
CallsAndRoutesEnd == CallEnds /\ RouteResolved
=============================================================================
