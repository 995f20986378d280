-------------------------- MODULE WorkGraph_proofs --------------------------
EXTENDS WorkGraph, SequenceTheorems, FiniteSetTheorems, WellFoundedInduction, TLAPS

(***************************************************************************)
(* The work graph's session keeps its promises for any number of agents,   *)
(* specialists, nodes and units.                                           *)
(*                                                                         *)
(* Verdicts. VerifiedWasProven is not inductive: a node is marked Verified *)
(* two steps after the router has decided, by which time begin_node,       *)
(* rollback_node, a cancellation or a restart may have changed every       *)
(* result. What carries it is that a pass holds the gate (GateHeld), that  *)
(* prepare_work_graph_pass clears the results in memory and on disk, so    *)
(* that whatever is there is of one pass (OwnResults, ResultsOfOnePass),   *)
(* and that until the current node has its proof every pass and result is  *)
(* about it and no verdict is on its way (Unsettled). Most operations      *)
(* judge nothing: they are shown to be Calm, and one lemma keeps the       *)
(* invariant for all of them.                                              *)
(*                                                                         *)
(* Iterations. What a node may spend is what it has left plus what its     *)
(* open units hold; that the units of a decomposition have equal shares    *)
(* (EqualShares) makes the second a product, which a unit that has run     *)
(* only lowers. Every operation but begin, rollback and restart is Frugal. *)
(*                                                                         *)
(* The hold. The root is held back for a diagnosis while the router says   *)
(* so. It is on disk whenever it is in memory (HoldInv) as long as nothing *)
(* is decomposed: a step writes what it leaves, or routes as before. That  *)
(* it is held only where a specialist can be asked, and that reports and   *)
(* verdicts are about their node, needs the root to be on its own (Alone): *)
(* then a hold, a route that is out and a verdict being marked all find it *)
(* waiting (RootStays), and the failure they are about is on record        *)
(* (OnRecord).                                                             *)
(***************************************************************************)

\* The type of each part of the state (WorkGraph!TypeOK bounds some of them further).
Passes == ({NoNode} \cup NodeIds) \X Nat
Results == [ok : BOOLEAN, why : {"none", "passed", "failed", "boundary"}, pass : Passes]
Budgets == [has : BOOLEAN, left : Nat]
Plans == [has : BOOLEAN, diagnose : BOOLEAN, review : BOOLEAN, revision : Nat]
Unit == [allocation : Nat, outcome : {"none", "passed", "failed"}]
Audit == [known : BOOLEAN, attempt : Nat, rootCause : Nat, testFailures : Nat]
WorkState ==
  [compile : Results, test : Results, verify : Results, review : {"none", "approve", "reject"},
   report : Passes, budget : Budgets, plan : Plans, units : Seq(Unit), before : Budgets,
   audit : [NodeIds -> Audit]]
Node == [id : NodeIds, status : Statuses, retry : Nat]
Operation ==
  [pc : OpPlaces, node : {NoNode} \cup NodeIds, attempt : Nat,
   why : {"none", "passed", "failed", "boundary"}, unit : Nat, units : Nat, passed : BOOLEAN]
Route == [node : {NoNode} \cup NodeIds, attempt : Nat, child : {Nobody} \cup Children]

\* The state every operation reads, and the operations themselves.
SharedTypes ==
  /\ nodes \in Seq(Node)
  /\ cur \in {NoNode} \cup NodeIds
  /\ session \in {"InProgress", "Completed", "Failed"}
  /\ ws \in WorkState /\ saved \in WorkState
  /\ rust \in BOOLEAN
  /\ gate \in {Nobody} \cup Agents
  /\ pending \in Route

Types == SharedTypes /\ op \in [Actors -> Operation]

\* Places inside an anchor pass, and places of the verification without anchors.
Judging == {"compile", "test", "final"}
Legacy == {"legacy", "legacyset", "legacyrun", "legacyend"}

\* Whoever is inside a pass, or runs units, holds the gate: no two passes overlap.
GateHeld == \A a \in Actors : op[a].pc \in Judging \cup {"units"} => gate = a

\* A Rust session verifies by anchors, any other by the one check; without anchors no
\* compile result is ever stored, in memory or on disk.
OneMode ==
  /\ \A a \in Actors : (op[a].pc \in Judging \cup {"gate"} => rust) /\ (op[a].pc \in Legacy => ~ rust)
  /\ ~ rust => ws.compile = NoResult /\ saved.compile = NoResult

\* A node whose verdict without anchors is on its way has passed its own commands.
PassedCommands(o) == o.pc = "legacyend" /\ o.why = "passed"
Commanded == \A a \in Actors : PassedCommands(op[a]) => op[a].node \in commanded

\* While o runs, w holds no result but those o itself has stored so far: prepare_work_graph_pass
\* has cleared the rest.
Own(w, o) ==
  /\ w.verify = NoResult
  /\ w.compile = NoResult \/ (o.pc # "compile" /\ w.compile.pass = <<o.node, o.attempt>>)
  /\ w.test = NoResult \/ (o.pc = "final" /\ w.test.pass = <<o.node, o.attempt>>)

\* A restart or a save in the middle of a pass finds nothing else on disk either.
OwnResults ==
  \A a \in Actors : op[a].pc \in Judging => Own(ws, op[a]) /\ Own(saved, op[a])

\* A pass and a verdict are about a node.
Named == \A a \in Actors : op[a].pc \in Judging \cup {"completing", "marking"} => op[a].node # NoNode

\* Two results, where both are present, come from one pass.
Agree(r, s) == r = NoResult \/ s = NoResult \/ r.pass = s.pass
OnePass(w) == Agree(w.compile, w.test) /\ Agree(w.compile, w.verify) /\ Agree(w.test, w.verify)
\* So the router never weighs the compile of one attempt with the test of another.
ResultsOfOnePass == rust => OnePass(ws) /\ OnePass(saved)

\* The current node has its proof, or began while a verdict was on its way.
Settled == cur = NoNode \/ cur \in Earned
\* The results w holds are about node n.
About(w, n) == \A r \in {w.compile, w.test, w.verify} : r = NoResult \/ r.pass[1] = n
\* Before that, every pass and every result is about the current node, and no operation
\* is about to mark a node Verified.
Unsettled ==
  ~ Settled =>
    /\ \A a \in Actors : /\ op[a].pc \in Judging => op[a].node = cur
                         /\ op[a].pc \notin {"completing", "marking"}
    /\ rust => About(ws, cur) /\ About(saved, cur)

-----------------------------------------------------------------------------
(* The operators on the work state                                         *)

\* v has the results of w, and, for SameJudgement, what else the verdict depends on.
SameResults(w, v) == v.compile = w.compile /\ v.test = w.test /\ v.verify = w.verify
SameJudgement(w, v) == SameResults(w, v) /\ v.review = w.review /\ v.plan.review = w.plan.review

\* The empty values have their types.
LEMMA Constants ==
  /\ NoNode \notin NodeIds /\ NoPass \in Passes /\ NoResult \in Results
  /\ NoBudget \in Budgets /\ NoPlan \in Plans
  /\ DefaultWorkState \in WorkState
  <1>1. NoNode \notin NodeIds
    BY NodesAssumption DEF NoNode, NodeIds
  <1>2. NoPass \in Passes
    BY DEF NoPass, Passes
  <1>3. NoResult \in Results
    BY <1>2 DEF NoResult, Results
  <1>4. NoBudget \in Budgets /\ NoPlan \in Plans
    BY DEF NoBudget, Budgets, NoPlan, Plans
  <1>5. NoAudit \in [NodeIds -> Audit]
    BY DEF NoAudit, Audit
  <1>6. <<>> \in Seq(Unit)
    OBVIOUS
  <1>7. DefaultWorkState \in WorkState
    BY <1>2, <1>3, <1>4, <1>5, <1>6 DEF DefaultWorkState, WorkState
  <1> QED
    BY <1>1, <1>2, <1>3, <1>4, <1>7

\* Noting an attempt in the audit changes no judgement.
LEMMA NotedType ==
  ASSUME NEW w \in WorkState, NEW n, NEW k \in Nat
  PROVE  Noted(w, n, k) \in WorkState /\ SameJudgement(w, Noted(w, n, k))
  <1>1. Greater(w.audit[n].attempt, k) \in Nat \/ n \notin NodeIds
    BY DEF Greater, WorkState, Audit
  <1>2. [w.audit EXCEPT ![n].attempt = Greater(@, k)] \in [NodeIds -> Audit]
    BY <1>1 DEF WorkState, Audit
  <1>3. Noted(w, n, k) = [w EXCEPT !.audit = [w.audit EXCEPT ![n].attempt = Greater(@, k)]]
    BY DEF Noted
  <1> QED
    BY <1>2, <1>3 DEF WorkState, SameJudgement, SameResults

\* Nor does noting a route.
LEMMA RoutedType ==
  ASSUME NEW w \in WorkState, NEW n, NEW k \in Nat, NEW step
  PROVE  Routed(w, n, k, step) \in WorkState /\ SameJudgement(w, Routed(w, n, k, step))
  <1> DEFINE v == Noted(w, n, k)
  <1>1. v \in WorkState /\ SameJudgement(w, v)
    BY NotedType
  <1> HIDE DEF v
  <1>2. [v.audit EXCEPT ![n].rootCause = k] \in [NodeIds -> Audit]
    BY <1>1 DEF WorkState, Audit
  <1>3. [v EXCEPT !.audit[n].rootCause = k] = [v EXCEPT !.audit = [v.audit EXCEPT ![n].rootCause = k]]
    OBVIOUS
  <1>4. [v EXCEPT !.audit[n].rootCause = k] \in WorkState
    BY <1>1, <1>2, <1>3 DEF WorkState
  <1>5. SameJudgement(w, [v EXCEPT !.audit[n].rootCause = k])
    BY <1>1, <1>3 DEF WorkState, SameJudgement, SameResults
  <1>6. Routed(w, n, k, step) = IF step = "RootCause" THEN [v EXCEPT !.audit[n].rootCause = k] ELSE v
    BY DEF Routed, v
  <1> QED
    BY <1>1, <1>4, <1>5, <1>6

\* Nor does counting test failures in a row.
LEMMA StreakType ==
  ASSUME NEW w \in WorkState, NEW n, NEW ok \in BOOLEAN
  PROVE  TestStreak(w, n, ok) \in WorkState /\ SameJudgement(w, TestStreak(w, n, ok))
  <1> DEFINE f == IF ok THEN 0 ELSE w.audit[n].testFailures + 1
             streak == [w.audit EXCEPT ![n] = [w.audit[n] EXCEPT !.testFailures = f]]
  <1>1. f \in Nat \/ n \notin NodeIds
    BY DEF WorkState, Audit
  <1>2. TestStreak(w, n, ok) = [w EXCEPT !.audit = streak]
    BY DEF TestStreak
  <1> HIDE DEF f
  <1>3. streak \in [NodeIds -> Audit]
    BY <1>1 DEF WorkState, Audit
  <1> HIDE DEF streak
  <1> QED
    BY <1>2, <1>3 DEF WorkState, SameJudgement, SameResults

\* Charging an iteration changes no judgement.
LEMMA ConsumeType ==
  ASSUME NEW w \in WorkState
  PROVE  /\ consume_iteration_budget(w) \in WorkState
         /\ SameJudgement(w, consume_iteration_budget(w))
  <1> DEFINE left == IF w.budget.left > 0 THEN w.budget.left - 1 ELSE 0
             budget == [w.budget EXCEPT !.left = left]
  <1>1. left \in Nat
    BY DEF WorkState, Budgets
  <1>2. consume_iteration_budget(w) = [w EXCEPT !.budget = budget]
    BY DEF consume_iteration_budget
  <1> HIDE DEF left
  <1>3. budget \in Budgets
    BY <1>1 DEF WorkState, Budgets
  <1> HIDE DEF budget
  <1> QED
    BY <1>2, <1>3 DEF WorkState, SameJudgement, SameResults

\* Adapting the plan keeps the results and the review it asks for.
LEMMA AdaptationType ==
  ASSUME NEW w \in WorkState
  PROVE  apply_adaptation(w) \in WorkState /\ SameJudgement(w, apply_adaptation(w))
  <1> DEFINE plan == [w.plan EXCEPT !.diagnose = TRUE, !.revision = @ + 1]
  <1>1. apply_adaptation(w) = [w EXCEPT !.plan = plan]
    BY DEF apply_adaptation, WorkState
  <1>2. w.plan.revision + 1 \in Nat /\ w.plan \in Plans
    BY DEF WorkState, Plans
  <1>3. plan \in Plans /\ plan.review = w.plan.review
    BY <1>2 DEF Plans
  <1> HIDE DEF plan
  <1> QED
    BY <1>1, <1>3 DEF WorkState, SameJudgement, SameResults

\* A result an anchor reports is a result.
LEMMA ResultType ==
  ASSUME NEW why \in {"passed", "failed", "boundary"}, NEW pass \in Passes
  PROVE  /\ Result(why, pass) \in Results /\ Result(why, pass) # NoResult
         /\ Result(why, pass).pass = pass
  BY DEF Result, Results, NoResult

\* prepare_work_graph_pass clears all three results.
LEMMA ResetType ==
  ASSUME NEW w \in WorkState
  PROVE  /\ reset_for_work_graph_pass(w) \in WorkState
         /\ reset_for_new_node(w) \in WorkState
         /\ clear_decomposition(w) \in WorkState /\ SameJudgement(w, clear_decomposition(w))
  <1>1. reset_for_work_graph_pass(w) \in WorkState
    BY Constants DEF reset_for_work_graph_pass, WorkState
  <1>2. reset_for_new_node(w) \in WorkState
    BY Constants DEF reset_for_new_node, WorkState
  <1>3. <<>> \in Seq(Unit)
    OBVIOUS
  <1>4. clear_decomposition(w) \in WorkState /\ SameJudgement(w, clear_decomposition(w))
    BY <1>3, Constants DEF clear_decomposition, WorkState, SameJudgement, SameResults
  <1> QED
    BY <1>1, <1>2, <1>4

\* A stored result is the anchor's result, and the other two stay.
LEMMA StoredType ==
  ASSUME NEW w \in WorkState, NEW r \in Results, NEW anchor \in {"compile", "test", "verify"}
  PROVE  [w EXCEPT ![anchor] = r] \in WorkState
  <1>1. CASE anchor = "compile"
    BY <1>1 DEF WorkState
  <1>2. CASE anchor = "test"
    BY <1>2 DEF WorkState
  <1>3. CASE anchor = "verify"
    BY <1>3 DEF WorkState
  <1> QED
    BY <1>1, <1>2, <1>3

\* The work state of a new node holds no result.
LEMMA FreshType ==
  ASSUME ws \in WorkState, NEW request \in Requests, NEW n \in NodeIds
  PROVE  /\ FreshState(request, n) \in WorkState
         /\ FreshState(request, n).compile = NoResult
         /\ FreshState(request, n).test = NoResult
         /\ FreshState(request, n).verify = NoResult
  <1> DEFINE plan == compose_work_graph(request.risk, request.specialists, request.review)
             base == [reset_for_new_node(ws) EXCEPT !.plan = plan]
             audit == [base.audit EXCEPT ![n] = [base.audit[n] EXCEPT !.known = TRUE]]
  <1>1. plan \in Plans
    BY RequestsAssumption DEF compose_work_graph, Plans
  <1>2. /\ reset_for_new_node(ws) \in WorkState
        /\ reset_for_new_node(ws).compile = NoResult
        /\ reset_for_new_node(ws).test = NoResult
        /\ reset_for_new_node(ws).verify = NoResult
    BY ResetType, Constants DEF reset_for_new_node, DefaultWorkState
  <1> HIDE DEF plan
  <1>3. base \in WorkState /\ SameResults(reset_for_new_node(ws), base)
    BY <1>1, <1>2 DEF WorkState, SameResults
  <1>4. FreshState(request, n) = [base EXCEPT !.audit = audit]
    BY DEF FreshState, Known, plan
  <1> HIDE DEF base
  <1>5. audit \in [NodeIds -> Audit]
    BY <1>3 DEF WorkState, Audit
  <1> HIDE DEF audit
  <1>6. /\ FreshState(request, n) \in WorkState
        /\ SameResults(base, FreshState(request, n))
    BY <1>3, <1>4, <1>5 DEF WorkState, SameResults
  <1> QED
    BY <1>2, <1>3, <1>6 DEF SameResults

\* The work state after rollback_node holds the results and the review on disk.
LEMMA RolledBackType ==
  ASSUME ws \in WorkState, saved \in WorkState
  PROVE  RolledBack \in WorkState /\ SameJudgement(saved, RolledBack)
  <1> DEFINE restored == [saved EXCEPT !.audit = ws.audit]
             budget == IF ws.before.has THEN ws.before ELSE Budget(1)
             lent == [restored EXCEPT !.budget = budget]
             w == IF ws.units = <<>> THEN restored ELSE lent
  <1>1. restored \in WorkState /\ SameJudgement(saved, restored)
    BY DEF WorkState, SameJudgement, SameResults
  <1>2. budget \in Budgets
    BY DEF WorkState, Budgets, Budget
  <1> HIDE DEF restored, budget
  <1>3. lent \in WorkState /\ SameJudgement(restored, lent)
    BY <1>1, <1>2 DEF WorkState, SameJudgement, SameResults
  <1> HIDE DEF lent
  <1>4. w \in WorkState /\ SameJudgement(saved, w)
    BY <1>1, <1>3 DEF SameJudgement, SameResults
  <1>5. RolledBack = clear_decomposition(w)
    BY DEF RolledBack, w, lent, restored, budget
  <1> HIDE DEF w
  <1> QED
    BY <1>4, <1>5, ResetType DEF SameJudgement, SameResults

-----------------------------------------------------------------------------
(* Operations and nodes                                                    *)

\* Every place an operation is sent to has its type.
LEMMA OperationType ==
  /\ Idle \in Operation
  /\ \A p \in OpPlaces : /\ At(p) \in Operation /\ At(p).pc = p /\ At(p).node = NoNode
                         /\ At(p).attempt = 0 /\ At(p).units = 0
  /\ \A o \in Operation, p \in OpPlaces :
       /\ [o EXCEPT !.pc = p] \in Operation
       /\ [o EXCEPT !.pc = p].pc = p /\ [o EXCEPT !.pc = p].node = o.node
       /\ [o EXCEPT !.pc = p].attempt = o.attempt
  <1>1. "idle" \in OpPlaces
    BY DEF OpPlaces
  <1>2. Idle \in Operation
    BY <1>1 DEF Idle, Operation
  <1>3. Idle.node = NoNode /\ Idle.attempt = 0 /\ Idle.units = 0
    BY DEF Idle
  <1>4. ASSUME NEW p \in OpPlaces
        PROVE  /\ At(p) \in Operation /\ At(p).pc = p /\ At(p).node = NoNode
               /\ At(p).attempt = 0 /\ At(p).units = 0
    BY <1>2, <1>3 DEF At, Operation
  <1>5. ASSUME NEW o \in Operation, NEW p \in OpPlaces
        PROVE  /\ [o EXCEPT !.pc = p] \in Operation
               /\ [o EXCEPT !.pc = p].pc = p /\ [o EXCEPT !.pc = p].node = o.node
               /\ [o EXCEPT !.pc = p].attempt = o.attempt
    BY DEF Operation
  <1> QED
    BY <1>2, <1>4, <1>5

\* Goto moves one actor and leaves the others where they are.
LEMMA GotoType ==
  ASSUME op \in [Actors -> Operation], NEW a \in Actors, NEW o \in Operation, Goto(a, o)
  PROVE  /\ op' \in [Actors -> Operation]
         /\ op'[a] = o /\ \A b \in Actors : b # a => op'[b] = op[b]
  BY DEF Goto

\* Writing one node's status keeps the list and every other node.
LEMMA StatusType ==
  ASSUME nodes \in Seq(Node), NEW id, NEW status \in Statuses
  PROVE  /\ WithStatus(id, status) \in Seq(Node)
         /\ Len(WithStatus(id, status)) = Len(nodes)
         /\ DOMAIN WithStatus(id, status) = DOMAIN nodes
         /\ \A i \in DOMAIN nodes :
              /\ WithStatus(id, status)[i].id = nodes[i].id
              /\ WithStatus(id, status)[i].retry = nodes[i].retry
              /\ WithStatus(id, status)[i].status = IF nodes[i].id = id THEN status ELSE nodes[i].status
  <1>1. \A i \in DOMAIN nodes : nodes[i] \in Node
    OBVIOUS
  <1>2. DOMAIN nodes = 1 .. Len(nodes) /\ Len(nodes) \in Nat
    OBVIOUS
  <1>3. WithStatus(id, status) \in [1 .. Len(nodes) -> Node]
    BY <1>1, <1>2 DEF WithStatus, Node
  <1>4. WithStatus(id, status) \in Seq(Node) /\ Len(WithStatus(id, status)) = Len(nodes)
    BY <1>2, <1>3
  <1> QED
    BY <1>1, <1>2, <1>4 DEF WithStatus, Node

-----------------------------------------------------------------------------
(* The result of an anchor and its route                                   *)

\* What the router asks for before it completes a node.
Passing(w) ==
  /\ w.compile # NoResult /\ w.test # NoResult /\ w.verify # NoResult
  /\ w.compile.ok /\ w.test.ok /\ w.verify.ok
  /\ w.plan.review => w.review = "approve"

\* The router completes a node only on three passed anchors and the review its plan
\* asks for.
LEMMA CompleteIsPassing ==
  ASSUME NEW w, next_step(w) = "Complete"
  PROVE  Passing(w)
  <1>1. retry_or_escalate(w) # "Complete"
    BY DEF retry_or_escalate
  <1> QED
    BY <1>1 DEF next_step, Passing, Present

\* Where a routed pass goes, with what becomes of its gate; `done` is what it takes to
\* complete the node.
Moves(a, done) ==
  \/ Goto(a, Idle) /\ Release(a)
  \/ Goto(a, At("dispatch")) /\ Release(a)
  \/ op[a].pc = "compile" /\ Goto(a, [op[a] EXCEPT !.pc = "test"]) /\ gate' = gate
  \/ op[a].pc = "test" /\ Goto(a, [op[a] EXCEPT !.pc = "final"]) /\ gate' = gate
  \/ done /\ Goto(a, [op[a] EXCEPT !.pc = "completing"]) /\ gate' = gate
  \/ Goto(a, [op[a] EXCEPT !.pc = "failing"]) /\ gate' = gate

\* A routed pass goes on, ends, or leaves with its gate released.
LEMMA AfterRouteMoves ==
  ASSUME NEW a, NEW step, AfterRoute(a, step)
  PROVE  Moves(a, step = "Complete")
  <1>0. At("idle") = Idle
    <2>1. "idle" \in OpPlaces
      BY DEF OpPlaces
    <2>2. At("idle") \in Operation /\ Idle \in Operation
      BY <2>1, OperationType
    <2>0. Idle.pc = "idle"
      BY DEF Idle
    <2>3. \A f \in DOMAIN Idle : At("idle")[f] = Idle[f]
      BY <2>0 DEF At
    <2>4. DOMAIN At("idle") = DOMAIN Idle
      BY DEF At, Idle
    <2> QED
      BY <2>2, <2>3, <2>4 DEF Operation
  <1>1. CASE step = "TestAnchor" /\ op[a].pc = "compile"
    BY <1>1 DEF AfterRoute, Moves
  <1>2. CASE step = "VerifyGate" /\ op[a].pc = "test"
    BY <1>2 DEF AfterRoute, Moves
  <1>3. CASE step = "Complete"
    BY <1>3 DEF AfterRoute, Moves
  <1>4. CASE step = "Escalate"
    BY <1>4 DEF AfterRoute, Moves
  <1>5. CASE step = "RootCause"
    BY <1>5 DEF AfterRoute, Moves
  <1>6. CASE /\ ~ (step = "TestAnchor" /\ op[a].pc = "compile")
             /\ ~ (step = "VerifyGate" /\ op[a].pc = "test")
             /\ step \notin {"Complete", "Escalate", "RootCause"}
    BY <1>0, <1>6 DEF AfterRoute, Moves
  <1> QED
    BY <1>1, <1>2, <1>3, <1>4, <1>5, <1>6

\* What record_compile_result, record_test_result and record_verify_result have in
\* common: one result is stored, and the pass moves on by the route of the new state.
LEMMA RecordStores ==
  ASSUME Types, NEW a \in Agents, op[a].pc \in Judging,
         NEW anchor \in {"compile", "test", "verify"}, NEW why \in {"passed", "failed", "boundary"},
         RecordResult(a, anchor, why)
  PROVE  /\ ws' \in WorkState /\ saved' \in {saved, ws'}
         /\ SameJudgement([ws EXCEPT ![anchor] = Result(why, <<op[a].node, op[a].attempt>>)], ws')
         /\ Moves(a, Passing(ws'))
         /\ UNCHANGED <<nodes, cur, session, rust, pending, poisoned, commanded, overtaken>>
  <1> DEFINE n == op[a].node
             k == op[a].attempt
             r == Result(why, <<n, k>>)
             got == [ws EXCEPT ![anchor] = r]
             paid == IF why = "failed" THEN consume_iteration_budget(got) ELSE got
             counted == IF anchor = "test" THEN TestStreak(paid, n, why = "passed") ELSE paid
             seen == Noted(counted, n, k)
             change == IF anchor = "test" THEN adapt_work_graph(seen, n) ELSE "Unchanged"
             plan == IF change = "Splice" THEN apply_adaptation(seen) ELSE seen
             step == IF change = "Escalate" THEN "Escalate" ELSE next_step(plan)
             w == Routed(plan, n, k, step)
  <1>1. a \in Actors /\ op[a] \in Operation /\ ws \in WorkState
    BY DEF Types, SharedTypes, Actors
  <1>2. n \in {NoNode} \cup NodeIds /\ k \in Nat
    BY <1>1 DEF Operation
  <1>3. <<n, k>> \in Passes
    BY <1>2 DEF Passes
  <1>4. r \in Results
    BY <1>3, ResultType
  <1>5. \/ NoCapture(got) /\ Finish(a)
        \/ Capture(w) /\ AfterRoute(a, step)
    BY DEF RecordResult
  <1>6. UNCHANGED <<nodes, cur, session, rust, pending, poisoned, commanded, overtaken>>
    BY DEF RecordResult, session_vars
  <1>7. got \in WorkState
    BY <1>1, <1>4, StoredType
  <1> HIDE DEF n, k, r, got
  <1>8. paid \in WorkState /\ SameJudgement(got, paid)
    BY <1>7, ConsumeType DEF SameJudgement, SameResults
  <1> HIDE DEF paid
  <1>9. counted \in WorkState /\ SameJudgement(got, counted)
    <2>1. (why = "passed") \in BOOLEAN
      OBVIOUS
    <2>2. TestStreak(paid, n, why = "passed") \in WorkState
      BY <2>1, <1>8, StreakType
    <2>3. SameJudgement(paid, TestStreak(paid, n, why = "passed"))
      BY <2>1, <1>8, StreakType
    <2> QED
      BY <1>8, <2>2, <2>3 DEF SameJudgement, SameResults
  <1> HIDE DEF counted
  <1>10. seen \in WorkState /\ SameJudgement(got, seen)
    BY <1>2, <1>9, NotedType DEF SameJudgement, SameResults
  <1> HIDE DEF seen, change
  <1>11. plan \in WorkState /\ SameJudgement(got, plan)
    BY <1>10, AdaptationType DEF SameJudgement, SameResults
  <1> HIDE DEF plan
  <1>12. step = "Complete" => Passing(plan)
    BY CompleteIsPassing
  <1> HIDE DEF step
  <1>13. w \in WorkState /\ SameJudgement(got, w) /\ (step = "Complete" => Passing(w))
    <2>1. w \in WorkState /\ SameJudgement(plan, w)
      BY <1>2, <1>11, RoutedType
    <2> QED
      BY <2>1, <1>11, <1>12 DEF SameJudgement, SameResults, Passing
  <1> HIDE DEF w
  <1>14. ASSUME NoCapture(got), Finish(a)
         PROVE  /\ ws' \in WorkState /\ saved' \in {saved, ws'} /\ SameJudgement(got, ws')
                /\ Moves(a, Passing(ws'))
    BY <1>14, <1>7 DEF NoCapture, Finish, Moves, SameJudgement, SameResults
  <1>15. ASSUME Capture(w), AfterRoute(a, step)
         PROVE  /\ ws' \in WorkState /\ saved' \in {saved, ws'} /\ SameJudgement(got, ws')
                /\ Moves(a, Passing(ws'))
    <2>1. ws' = w /\ saved' = w
      BY <1>15 DEF Capture
    <2>2. Moves(a, step = "Complete")
      BY <1>15, AfterRouteMoves
    <2>3. Moves(a, Passing(ws'))
      BY <2>1, <2>2, <1>13 DEF Moves
    <2> QED
      BY <2>1, <2>3, <1>13
  <1>16. /\ ws' \in WorkState /\ saved' \in {saved, ws'} /\ SameJudgement(got, ws')
         /\ Moves(a, Passing(ws'))
    BY <1>5, <1>14, <1>15
  <1> QED
    BY <1>6, <1>16 DEF got, r, n, k

-----------------------------------------------------------------------------
(* Steps that judge nothing                                                *)

\* The part of the invariant about passes and results.
PassInv ==
  GateHeld /\ OneMode /\ Commanded /\ Named /\ OwnResults /\ ResultsOfOnePass /\ Unsettled

\* An operation may arrive here without a result of its own.
Fits(a, o) ==
  /\ o.pc \notin Judging
  /\ o.pc = "units" => gate' = a
  /\ o.pc = "gate" => rust
  /\ o.pc \in Legacy => ~ rust /\ (PassedCommands(o) => o.node \in commanded')
  /\ o.pc \in {"completing", "marking"} => o.node # NoNode /\ Settled'

\* No operation starts or continues a pass; the gate is not taken from one.
Quiet ==
  /\ rust' = rust
  /\ \A b \in Actors :
       \/ op'[b] = op[b] /\ (op[b].pc \in Judging \cup {"units"} /\ gate = b => gate' = b)
       \/ Fits(b, op'[b])

\* The current node stays, and no node loses what it has earned.
HistoryKept ==
  cur' = cur /\ Earned \subseteq Earned' /\ commanded \subseteq commanded'

\* The results of w are those in memory, those on disk, or those of the old gate,
\* which keeps no compile result.
From(w) ==
  \/ SameResults(ws, w) \/ SameResults(saved, w)
  \/ ~ rust /\ w.compile = NoResult

\* Such a step keeps the gate and the results in order: those it leaves are those in
\* memory or those on disk.
LEMMA QuietParts ==
  ASSUME PassInv, Quiet, commanded \subseteq commanded', From(ws'), From(saved')
  PROVE  GateHeld' /\ OneMode' /\ Commanded' /\ Named' /\ OwnResults' /\ ResultsOfOnePass'
  <1>1. GateHeld'
    BY DEF PassInv, GateHeld, Quiet, Fits
  <1>2. OneMode'
    BY DEF PassInv, OneMode, Quiet, Fits, From, SameResults
  <1>3. Named'
    BY DEF PassInv, Named, Quiet, Fits
  <1>4. OwnResults'
    <2> SUFFICES ASSUME NEW a \in Actors, op'[a].pc \in Judging
                 PROVE  Own(ws', op'[a]) /\ Own(saved', op'[a])
      BY DEF OwnResults
    <2>1. op'[a] = op[a]
      BY DEF Quiet, Fits
    <2>2. Own(ws, op[a]) /\ Own(saved, op[a]) /\ rust
      BY <2>1 DEF PassInv, OwnResults, OneMode
    <2> QED
      BY <2>1, <2>2 DEF Own, From, SameResults
  <1>5. ResultsOfOnePass'
    BY DEF PassInv, ResultsOfOnePass, OnePass, Quiet, From, SameResults
  <1>6. Commanded'
    BY DEF PassInv, Commanded, PassedCommands, Quiet, Fits, Legacy
  <1> QED
    BY <1>1, <1>2, <1>3, <1>4, <1>5, <1>6

\* It keeps the whole invariant when it stays with the current node,
LEMMA QuietKeeps ==
  ASSUME PassInv, Quiet, HistoryKept, From(ws'), From(saved')
  PROVE  PassInv'
  <1>1. Unsettled'
    <2> SUFFICES ASSUME ~ Settled'
                 PROVE  /\ \A a \in Actors : /\ op'[a].pc \in Judging => op'[a].node = cur'
                                             /\ op'[a].pc \notin {"completing", "marking"}
                        /\ rust' => About(ws', cur') /\ About(saved', cur')
      BY DEF Unsettled
    <2>1. ~ Settled
      BY DEF Settled, HistoryKept, Earned
    <2>2. /\ \A a \in Actors : /\ op[a].pc \in Judging => op[a].node = cur
                               /\ op[a].pc \notin {"completing", "marking"}
          /\ rust => About(ws, cur) /\ About(saved, cur)
      BY <2>1 DEF PassInv, Unsettled
    <2>3. \A a \in Actors : /\ op'[a].pc \in Judging => op'[a].node = cur'
                            /\ op'[a].pc \notin {"completing", "marking"}
      BY <2>2 DEF Quiet, Fits, HistoryKept, Earned
    <2>4. rust' => About(ws', cur') /\ About(saved', cur')
      BY <2>2 DEF Quiet, HistoryKept, Earned, From, SameResults, About
    <2> QED
      BY <2>3, <2>4
  <1> QED
    BY <1>1, QuietParts DEF PassInv, HistoryKept

\* and when it leaves a settled one.
LEMMA SettledKeeps ==
  ASSUME PassInv, Quiet, commanded \subseteq commanded', Settled', From(ws'), From(saved')
  PROVE  PassInv'
  BY QuietParts DEF PassInv, Unsettled

\* a releases the gate, takes it when it is free, or leaves it.
GateMoves(a) == gate' = gate \/ Release(a) \/ (gate = Nobody /\ gate' = a)

\* Moving one actor to such a place is quiet.
LEMMA GotoQuiet ==
  ASSUME Types, NEW a \in Actors, NEW o \in Operation, Goto(a, o), Fits(a, o), GateMoves(a),
         rust' = rust
  PROVE  Quiet /\ op' \in [Actors -> Operation]
  <1>1. /\ op' \in [Actors -> Operation]
        /\ op'[a] = o /\ \A b \in Actors : b # a => op'[b] = op[b]
    BY GotoType DEF Types
  <1>2. ASSUME NEW b \in Actors, b # a, gate = b
        PROVE  gate' = b
    BY <1>2, NobodyAssumption DEF GateMoves, Release
  <1> QED
    BY <1>1, <1>2 DEF Quiet

\* A step that judges nothing: it keeps the pass invariant (QuietKeeps).
Calm == Types' /\ Quiet /\ HistoryKept /\ From(ws') /\ From(saved')

\* Moving one actor is calm when it keeps the results.
LEMMA GotoCalm ==
  ASSUME Types, SharedTypes', NEW a \in Actors, NEW o \in Operation, Goto(a, o), Fits(a, o),
         GateMoves(a), rust' = rust, HistoryKept, From(ws'), From(saved')
  PROVE  Calm
  BY GotoQuiet DEF Calm, Types

\* The results in memory and on disk are themselves.
LEMMA SameWork ==
  From(ws) /\ From(saved)
  BY DEF From, SameResults

\* Nothing about nodes and results changes.
Same == UNCHANGED <<nodes, cur, session, ws, saved, rust, proven, commanded, overtaken>>

\* Nothing but the gate, the route and the operation moves.
LEMMA SameCalm ==
  ASSUME Types, Same, NEW a \in Actors, NEW o \in Operation, Goto(a, o), Fits(a, o),
         GateMoves(a), gate' \in {Nobody} \cup Agents, pending' \in Route
  PROVE  Calm
  <1>1. SharedTypes'
    BY DEF Types, SharedTypes, Same
  <1>2. rust' = rust /\ HistoryKept
    BY DEF Same, HistoryKept, Earned
  <1>3. From(ws') /\ From(saved')
    BY SameWork DEF Same
  <1> QED
    BY <1>1, <1>2, <1>3, GotoCalm

\* Releasing is one way the gate moves.
LEMMA ReleaseMoves ==
  ASSUME Types, NEW a, gate' = gate \/ Release(a)
  PROVE  GateMoves(a) /\ gate' \in {Nobody} \cup Agents
  BY DEF Types, SharedTypes, GateMoves, Release

\* Places of an operation that ask nothing of the gate or the results.
PlainPlaces ==
  OpPlaces \ (Judging \cup Legacy \cup {"units", "gate", "completing", "marking"})

\* An operation may be sent to such a place at any time.
LEMMA PlainFits ==
  ASSUME NEW a, NEW p \in PlainPlaces
  PROVE  At(p) \in Operation /\ Fits(a, At(p))
  BY OperationType DEF PlainPlaces, Fits

\* An operation may end at any time.
LEMMA IdleFits ==
  ASSUME NEW a
  PROVE  Idle \in Operation /\ Fits(a, Idle)
  <1>1. Idle.pc = "idle"
    BY DEF Idle
  <1> QED
    BY <1>1, OperationType DEF Fits, Judging, Legacy

\* The entries of the tools are such places.
LEMMA ToolsArePlain ==
  /\ Tools \subseteq PlainPlaces
  /\ {"unitgate", "dispatch", "launch", "running", "done", "failing", "failmark", "failagain"}
       \subseteq PlainPlaces
  BY DEF Tools, PlainPlaces, OpPlaces, Judging, Legacy

\* A tool call that is admitted judges nothing yet.
LEMMA AdmissionCalm ==
  ASSUME Types, NEW a \in Agents, NEW tool \in Tools, execute_with_context(a, tool)
  PROVE  Calm
  <1>1. Goto(a, At(tool)) /\ Same /\ gate' = gate /\ pending' = pending
    BY DEF execute_with_context, Same, session_vars
  <1>2. At(tool) \in Operation /\ Fits(a, At(tool))
    BY PlainFits, ToolsArePlain
  <1>3. a \in Actors /\ pending' \in Route
    BY <1>1 DEF Actors, Types, SharedTypes
  <1> QED
    BY <1>1, <1>2, <1>3, ReleaseMoves, SameCalm

\* Where verify_current_node goes fits the kind of session.
LEMMA EntryFits ==
  ASSUME Types, NEW a
  PROVE  Entry \in Operation /\ Fits(a, Entry)
  <1>1. {"gate", "legacy"} \subseteq OpPlaces
    BY DEF OpPlaces
  <1>2. rust \in BOOLEAN
    BY DEF Types, SharedTypes
  <1>3. CASE rust
    BY <1>1, <1>3, OperationType DEF Entry, Fits, Judging, Legacy, PassedCommands
  <1>4. CASE ~ rust
    BY <1>1, <1>4, OperationType DEF Entry, Fits, Judging, Legacy, PassedCommands
  <1> QED
    BY <1>2, <1>3, <1>4

\* Entering verify_current_node judges nothing yet.
LEMMA VerifyCalm ==
  ASSUME Types, NEW a \in Agents, verify_current_node(a)
  PROVE  Calm
  <1> DEFINE o == IF ~ HasCurrent THEN Idle ELSE IF HasOpenUnits THEN At("unitgate") ELSE Entry
  <1>1. Goto(a, o) /\ Same /\ gate' = gate /\ pending' = pending
    BY DEF verify_current_node, Same, session_vars
  <1>2. o \in Operation /\ Fits(a, o)
    <2>1. "unitgate" \in PlainPlaces
      BY ToolsArePlain
    <2>2. At("unitgate") \in Operation /\ Fits(a, At("unitgate"))
      BY <2>1, PlainFits
    <2> QED
      BY <2>2, IdleFits, EntryFits
  <1> HIDE DEF o
  <1>3. a \in Actors /\ pending' \in Route
    BY <1>1 DEF Actors, Types, SharedTypes
  <1> QED
    BY <1>1, <1>2, <1>3, ReleaseMoves, SameCalm

\* Starting the units, with the gate, judges nothing.
LEMMA RunUnitsCalm ==
  ASSUME Types, NEW a \in Agents, run_decomposed_units(a)
  PROVE  Calm
  <1> DEFINE o == [At("units") EXCEPT !.node = cur, !.unit = 1, !.units = Len(ws.units),
                                      !.attempt = ws.units[1].allocation]
  <1>1. Same /\ pending' = pending
    BY DEF run_decomposed_units, Same, session_vars
  <1>2. \/ ws.units # <<>> /\ gate = Nobody /\ gate' = a /\ Goto(a, o)
        \/ gate' = gate /\ Goto(a, Idle)
    BY DEF run_decomposed_units
  <1>3. a \in Actors /\ pending' \in Route
    BY <1>1 DEF Actors, Types, SharedTypes
  <1>4. CASE gate' = gate /\ Goto(a, Idle)
    BY <1>1, <1>3, <1>4, IdleFits, ReleaseMoves, SameCalm
  <1>5. CASE ws.units # <<>> /\ gate = Nobody /\ gate' = a /\ Goto(a, o)
    <2>1. ws.units \in Seq(Unit) /\ cur \in {NoNode} \cup NodeIds
      BY DEF Types, SharedTypes, WorkState
    <2>2. Len(ws.units) \in Nat /\ ws.units[1] \in Unit
      BY <2>1, <1>5
    <2>3. ws.units[1].allocation \in Nat
      BY <2>2 DEF Unit
    <2>4. At("units") \in Operation /\ At("units").pc = "units"
      BY OperationType DEF OpPlaces
    <2>5. o \in Operation /\ o.pc = "units"
      BY <2>1, <2>2, <2>3, <2>4 DEF Operation
    <2> HIDE DEF o
    <2>6. Fits(a, o)
      BY <2>5, <1>5 DEF Fits, Judging, Legacy
    <2>7. GateMoves(a) /\ gate' \in {Nobody} \cup Agents
      BY <1>5 DEF GateMoves
    <2> QED
      BY <1>1, <1>3, <1>5, <2>5, <2>6, <2>7, SameCalm
  <1> QED
    BY <1>2, <1>4, <1>5

\* A unit's outcome is no judgement of the node.
LEMMA UnitType ==
  ASSUME NEW w \in WorkState, NEW i \in DOMAIN w.units, NEW outcome \in {"passed", "failed"}
  PROVE  /\ [w EXCEPT !.units[i].outcome = outcome] \in WorkState
         /\ SameJudgement(w, [w EXCEPT !.units[i].outcome = outcome])
  <1> DEFINE unit == [w.units[i] EXCEPT !.outcome = outcome]
             units == [w.units EXCEPT ![i] = unit]
  <1>1. w.units \in Seq(Unit) /\ w.units[i] \in Unit
    BY DEF WorkState
  <1>2. unit \in Unit
    BY <1>1 DEF Unit
  <1>3. [w EXCEPT !.units[i].outcome = outcome] = [w EXCEPT !.units = units]
    OBVIOUS
  <1> HIDE DEF unit
  <1>4. units \in Seq(Unit)
    BY <1>1, <1>2
  <1> HIDE DEF units
  <1> QED
    BY <1>3, <1>4 DEF WorkState, SameJudgement, SameResults

\* Running a unit, or ending the units, judges nothing.
LEMMA RunUnitCalm ==
  ASSUME Types, GateHeld, NEW a \in Agents, NEW used \in Nat, NEW passed \in BOOLEAN,
         RunUnit(a, used, passed)
  PROVE  Calm
  <1> DEFINE i == op[a].unit
             w == Noted(ws, op[a].node, used)
             v == [w EXCEPT !.units[i].outcome = IF passed THEN "passed" ELSE "failed"]
             o == [op[a] EXCEPT !.unit = i + 1, !.passed = @ \/ passed]
  <1>1. a \in Actors /\ op[a] \in Operation /\ ws \in WorkState /\ saved \in WorkState
    BY DEF Actors, Types, SharedTypes
  <1>2. w \in WorkState /\ SameJudgement(ws, w) /\ w.units = ws.units
    BY <1>1, NotedType DEF Noted, WorkState
  <1>3. /\ op[a].pc = "units"
        /\ UNCHANGED <<nodes, cur, session, rust, pending, proven, commanded, overtaken>>
    BY DEF RunUnit, session_vars
  <1>4. \/ i \in DOMAIN ws.units /\ Capture(v) /\ Goto(a, o) /\ gate' = gate
        \/ NoCapture(w) /\ Goto(a, Idle) /\ Release(a)
    BY DEF RunUnit, Finish
  <1>5. rust' = rust /\ HistoryKept
    BY <1>3 DEF HistoryKept, Earned
  <1> HIDE DEF w
  <1>6. CASE NoCapture(w) /\ Goto(a, Idle) /\ Release(a)
    <2>1. SharedTypes'
      BY <1>2, <1>3, <1>6, ReleaseMoves DEF NoCapture, Types, SharedTypes
    <2>2. From(ws') /\ From(saved')
      BY <1>2, <1>6 DEF NoCapture, From, SameJudgement, SameResults
    <2> QED
      BY <1>1, <1>5, <1>6, <2>1, <2>2, IdleFits, ReleaseMoves, GotoCalm
  <1>7. CASE i \in DOMAIN ws.units /\ Capture(v) /\ Goto(a, o) /\ gate' = gate
    <2>1. v \in WorkState /\ SameJudgement(w, v)
      BY <1>2, <1>7, UnitType
    <2> HIDE DEF v
    <2>2. SharedTypes'
      BY <1>3, <1>7, <2>1 DEF Capture, Types, SharedTypes
    <2>3. From(ws') /\ From(saved')
      BY <1>2, <1>7, <2>1 DEF Capture, From, SameJudgement, SameResults
    <2>4. i + 1 \in Nat /\ (op[a].passed \/ passed) \in BOOLEAN
      BY <1>1 DEF Operation
    <2>5. o \in Operation /\ o.pc = "units"
      BY <1>1, <1>3, <2>4 DEF Operation
    <2> HIDE DEF o
    <2>6. Fits(a, o)
      BY <1>1, <1>3, <1>7, <2>5 DEF Fits, Judging, Legacy, GateHeld
    <2> QED
      BY <1>1, <1>5, <1>7, <2>2, <2>3, <2>5, <2>6, ReleaseMoves, GotoCalm
  <1> QED
    BY <1>4, <1>6, <1>7

\* Routing the parent after its units judges nothing.
LEMMA RouteParentCalm ==
  ASSUME Types, NEW a \in Agents, RouteParent(a)
  PROVE  Calm
  <1> DEFINE w == IF op[a].passed THEN ws ELSE consume_iteration_budget(ws)
             o == [At("failing") EXCEPT !.node = op[a].node, !.units = 1]
             p == IF next_step(w) = "Escalate" THEN o ELSE Entry
  <1>1. a \in Actors /\ op[a] \in Operation /\ ws \in WorkState /\ saved \in WorkState
    BY DEF Actors, Types, SharedTypes
  <1>2. w \in WorkState /\ SameJudgement(ws, w)
    BY <1>1, ConsumeType DEF SameJudgement, SameResults
  <1>3. /\ Release(a)
        /\ UNCHANGED <<nodes, cur, session, rust, pending, proven, commanded, overtaken>>
    BY DEF RouteParent, session_vars
  <1>4. \/ NoCapture(ws) /\ Goto(a, Idle)
        \/ NoCapture(w) /\ Goto(a, p)
    BY DEF RouteParent
  <1>5. rust' = rust /\ HistoryKept
    BY <1>3 DEF HistoryKept, Earned
  <1>6. o \in Operation /\ Fits(a, o)
    <2>1. At("failing") \in Operation /\ At("failing").pc = "failing"
      BY OperationType DEF OpPlaces
    <2>2. o \in Operation /\ o.pc = "failing"
      BY <1>1, <2>1 DEF Operation
    <2> HIDE DEF o
    <2> QED
      BY <2>2 DEF Fits, Judging, Legacy
  <1> HIDE DEF w, o
  <1>7. p \in Operation /\ Fits(a, p)
    BY <1>6, EntryFits
  <1> HIDE DEF p
  <1>8. From(ws') /\ From(saved') /\ ws' \in WorkState /\ saved' \in WorkState
    BY <1>1, <1>2, <1>4 DEF NoCapture, From, SameJudgement, SameResults
  <1>9. SharedTypes'
    BY <1>3, <1>8, ReleaseMoves DEF Types, SharedTypes
  <1>10. Goto(a, p) \/ Goto(a, Idle)
    BY <1>4
  <1> QED
    BY <1>1, <1>3, <1>5, <1>7, <1>8, <1>9, <1>10, IdleFits, ReleaseMoves, GotoCalm

\* A refused rollback changes nothing.
LEMMA RefusedCalm ==
  ASSUME Types, NEW a \in Agents, RollbackRefused(a)
  PROVE  Calm
  <1>1. Same /\ pending' = pending /\ gate' = gate /\ Goto(a, Idle)
    BY DEF RollbackRefused, Same, session_vars
  <1>2. a \in Actors /\ pending' \in Route
    BY <1>1 DEF Actors, Types, SharedTypes
  <1> QED
    BY <1>1, <1>2, IdleFits, ReleaseMoves, SameCalm

\* The iterations that count units get out of left, and what the parent keeps.
LEMMA SplitType ==
  ASSUME NEW left \in Nat, left > 0, NEW count \in Nat \ {0}
  PROVE  /\ child_max_iter(left, count) \in Nat
         /\ Affordable(left, count) => Retained(left, count) \in Nat
  <1> DEFINE c == child_max_iter(left, count)
  <1>1. left \div count \in Nat /\ left - 1 \in Nat
    OBVIOUS
  <1>2. c \in Nat
    BY <1>1 DEF child_max_iter, Lesser, Greater
  <1> HIDE DEF c
  <1>3. c * count \in Nat
    BY <1>2
  <1>4. left > c * count => left - c * count \in Nat
    BY <1>3
  <1> QED
    BY <1>2, <1>4 DEF Affordable, Retained, c

\* What a node may still spend is a number.
LEMMA RemainingType ==
  ASSUME NEW w \in WorkState
  PROVE  Remaining(w) \in Nat
  BY RetryAssumption DEF Remaining, WorkState, Budgets

\* The current node, if any, is a node.
LEMMA CurrentIsNode ==
  ASSUME Types, HasCurrent
  PROVE  cur \in NodeIds
  <1>1. \A i \in DOMAIN nodes : nodes[i] \in Node
    BY DEF Types, SharedTypes
  <1> QED
    BY <1>1 DEF HasCurrent, Ids, Node

\* Decomposing a node judges nothing, though it pays no heed to the gate.
LEMMA DecomposeCalm ==
  ASSUME Types, NEW a \in Agents, NEW count \in UnitCounts, decompose_node(a, count)
  PROVE  Calm
  <1> DEFINE left == Remaining(ws)
             c == child_max_iter(left, count)
             unit == [allocation |-> c, outcome |-> "none"]
             units == [i \in 1 .. count |-> unit]
             split == [ws EXCEPT !.before = Budget(left), !.budget = Budget(Retained(left, count)),
                                 !.units = units]
             k == Greater(ws.audit[cur].attempt, 1)
             w == Noted(split, cur, k)
  <1>1. a \in Actors /\ ws \in WorkState /\ saved \in WorkState
    BY DEF Actors, Types, SharedTypes
  <1>2. /\ gate' = gate /\ Goto(a, Idle)
        /\ UNCHANGED <<nodes, cur, session, rust, pending, proven, commanded, overtaken>>
    BY DEF decompose_node, session_vars
  <1>3. \/ HasCurrent /\ left > 0 /\ Affordable(left, count) /\ Capture(w)
        \/ UNCHANGED <<ws, saved>>
    BY DEF decompose_node
  <1>4. ASSUME HasCurrent, left > 0, Affordable(left, count), Capture(w)
        PROVE  /\ ws' \in WorkState /\ saved' \in WorkState /\ SameResults(ws, ws')
               /\ saved' = ws'
    <2>1. left \in Nat /\ count \in Nat \ {0}
      BY <1>1, RemainingType, UnitsAssumption
    <2> HIDE DEF left
    <2>2. c \in Nat /\ Retained(left, count) \in Nat
      BY <1>4, <2>1, SplitType
    <2> HIDE DEF c
    <2>3. unit \in Unit
      BY <2>2 DEF Unit
    <2> HIDE DEF unit
    <2>4. units \in Seq(Unit)
      BY <2>1, <2>3
    <2> HIDE DEF units
    <2>5. Budget(left) \in Budgets /\ Budget(Retained(left, count)) \in Budgets
      BY <2>1, <2>2 DEF Budget, Budgets
    <2>6. split \in WorkState /\ SameResults(ws, split)
      BY <1>1, <2>4, <2>5 DEF WorkState, SameResults
    <2>7. cur \in NodeIds
      BY <1>4, CurrentIsNode
    <2>8. k \in Nat
      BY <1>1, <2>7 DEF WorkState, Audit, Greater
    <2> HIDE DEF split, k
    <2>9. w \in WorkState /\ SameJudgement(split, w)
      BY <2>6, <2>8, NotedType
    <2> QED
      BY <1>4, <2>6, <2>9 DEF Capture, SameJudgement, SameResults
  <1>5. ws' \in WorkState /\ saved' \in WorkState /\ From(ws') /\ From(saved')
    BY <1>1, <1>3, <1>4, SameWork DEF From, SameResults
  <1>6. SharedTypes'
    BY <1>2, <1>5 DEF Types, SharedTypes
  <1>7. rust' = rust /\ HistoryKept
    BY <1>2 DEF HistoryKept, Earned
  <1> QED
    BY <1>1, <1>2, <1>5, <1>6, <1>7, IdleFits, ReleaseMoves, GotoCalm

\* A dispatch takes the latest route for its current node, if there is one.
LEMMA ReserveType ==
  ASSUME Types, NEW a, CanReserve, Reserve(a)
  PROVE  pending' \in Route /\ Goto(a, At("launch"))
  <1>1. cur \in NodeIds /\ ws \in WorkState
    BY CurrentIsNode DEF CanReserve, Types, SharedTypes
  <1>2. ws.audit[cur].rootCause \in Nat
    BY <1>1 DEF WorkState, Audit
  <1> QED
    BY <1>1, <1>2 DEF Reserve, Route

\* Preparing a root-cause dispatch judges nothing.
LEMMA DispatchCalm ==
  ASSUME Types, NEW a \in Agents, prepare_root_cause_dispatch(a)
  PROVE  Calm
  <1>1. Same /\ gate' = gate
    BY DEF prepare_root_cause_dispatch, Same, session_vars
  <1>2. \/ CanReserve /\ Reserve(a)
        \/ pending' = pending /\ Goto(a, Idle)
    BY DEF prepare_root_cause_dispatch
  <1>3. a \in Actors
    BY DEF Actors
  <1>4. pending' \in Route /\ (Goto(a, Idle) \/ Goto(a, At("launch")))
    BY <1>2, ReserveType DEF Types, SharedTypes
  <1>5. At("launch") \in Operation /\ Fits(a, At("launch"))
    BY ToolsArePlain, PlainFits
  <1> QED
    BY <1>1, <1>3, <1>4, <1>5, IdleFits, ReleaseMoves, SameCalm

\* Nor does preparing one again after a restart.
LEMMA RecoveredCalm ==
  ASSUME Types, prepare_recovered_root_cause_dispatch
  PROVE  Calm
  <1>1. Same /\ gate' = gate
    BY DEF prepare_recovered_root_cause_dispatch, Same, session_vars
  <1>2. pending' \in Route /\ Goto(Daemon, At("launch"))
    BY ReserveType DEF prepare_recovered_root_cause_dispatch
  <1>3. Daemon \in Actors
    BY DEF Actors
  <1>4. At("launch") \in Operation /\ Fits(Daemon, At("launch"))
    BY ToolsArePlain, PlainFits
  <1> QED
    BY <1>1, <1>2, <1>3, <1>4, ReleaseMoves, SameCalm

\* Nor does cancelling one.
LEMMA CancelDispatchCalm ==
  ASSUME Types, NEW a \in Agents \cup {Daemon}, cancel_root_cause_dispatch(a)
  PROVE  Calm
  <1>1. Same /\ gate' = gate /\ Goto(a, Idle) /\ pending' \in {NoRoute, pending}
    BY DEF cancel_root_cause_dispatch, Same, session_vars
  <1>2. a \in Actors /\ pending' \in Route
    BY <1>1 DEF Actors, Types, SharedTypes, NoRoute, Route
  <1> QED
    BY <1>1, <1>2, IdleFits, ReleaseMoves, SameCalm

\* Nor does binding its child.
LEMMA BindCalm ==
  ASSUME Types, NEW a \in Agents \cup {Daemon}, NEW c \in Children, try_bind_root_cause_child(a, c)
  PROVE  Calm
  <1> DEFINE o == At(IF poisoned THEN "done" ELSE "running")
  <1>1. /\ op' = [op EXCEPT ![a] = Idle, ![c] = o] /\ gate' = gate
        /\ pending' = [pending EXCEPT !.child = c] /\ saved' \in {saved, ws}
        /\ UNCHANGED <<nodes, cur, session, ws, rust, proven, commanded, overtaken>>
    BY DEF try_bind_root_cause_child, session_vars
  <1>2. At("done") \in Operation /\ Fits(c, At("done"))
    BY ToolsArePlain, PlainFits
  <1>3. At("running") \in Operation /\ Fits(c, At("running"))
    BY ToolsArePlain, PlainFits
  <1>4. o \in Operation /\ Fits(c, o)
    BY <1>2, <1>3
  <1> HIDE DEF o
  <1>5. pending' \in Route
    BY <1>1 DEF Types, SharedTypes, Route
  <1>6. SharedTypes'
    BY <1>1, <1>5 DEF Types, SharedTypes
  <1>7. Idle \in Operation /\ Fits(a, Idle)
    BY IdleFits
  <1>8. op' \in [Actors -> Operation]
    BY <1>1, <1>4, <1>7 DEF Types
  <1>9. \A b \in Actors : op'[b] = op[b] \/ (b = a /\ op'[b] = Idle) \/ (b = c /\ op'[b] = o)
    BY <1>1 DEF Types
  <1>10. Quiet
    BY <1>1, <1>4, <1>7, <1>9 DEF Quiet
  <1>11. HistoryKept /\ From(ws') /\ From(saved')
    BY <1>1 DEF HistoryKept, Earned, From, SameResults
  <1> QED
    BY <1>6, <1>8, <1>10, <1>11 DEF Calm, Types

\* A verdict that is on its way was decided for a node that is settled.
LEMMA VerdictSettled ==
  ASSUME Types, PassInv, NEW a \in Actors, op[a].pc \in {"completing", "marking"}
  PROVE  Settled /\ op[a].node # NoNode
  BY DEF PassInv, Unsettled, Named

\* mark_completed marks a settled node.
LEMMA CompletedCalm ==
  ASSUME Types, PassInv, NEW a \in Actors, mark_completed(a)
  PROVE  Calm
  <1> DEFINE o == [op[a] EXCEPT !.pc = "marking"]
  <1>1. /\ op[a].pc = "completing" /\ session' = "Completed" /\ Goto(a, o) /\ Release(a)
        /\ UNCHANGED <<nodes, cur, ws, saved, rust, pending, proven, commanded, overtaken>>
    BY DEF mark_completed
  <1>2. HistoryKept /\ rust' = rust /\ From(ws') /\ From(saved')
    BY <1>1, SameWork DEF HistoryKept, Earned
  <1>3. Settled' /\ op[a].node # NoNode
    BY <1>1, VerdictSettled DEF Settled, Earned
  <1>4. o \in Operation /\ o.pc = "marking" /\ o.node = op[a].node
    BY OperationType DEF Types, OpPlaces
  <1> HIDE DEF o
  <1>5. Fits(a, o)
    BY <1>3, <1>4 DEF Fits, Judging, Legacy
  <1>6. SharedTypes'
    BY <1>1, ReleaseMoves DEF Types, SharedTypes
  <1> QED
    BY <1>1, <1>2, <1>4, <1>5, <1>6, ReleaseMoves, GotoCalm

\* Steps that write node statuses: the node list keeps its type.
LEMMA MarkType ==
  ASSUME Types, NEW status \in Statuses,
         nodes' \in {nodes, WithStatus(cur, status)}
  PROVE  nodes' \in Seq(Node)
  BY StatusType DEF Types, SharedTypes

\* Writing the Verified status judges nothing any more.
LEMMA MarkVerifiedCalm ==
  ASSUME Types, NEW a \in Actors, MarkVerified(a)
  PROVE  Calm
  <1>1. /\ session' \in {session, "InProgress"} /\ nodes' \in {nodes, WithStatus(cur, "Verified")}
        /\ Goto(a, Idle)
        /\ UNCHANGED <<cur, ws, saved, rust, gate, pending, proven, commanded, overtaken>>
    BY DEF MarkVerified
  <1>2. HistoryKept /\ rust' = rust /\ From(ws') /\ From(saved')
    BY <1>1, SameWork DEF HistoryKept, Earned
  <1>3. nodes' \in Seq(Node)
    BY <1>1, MarkType DEF Statuses
  <1>4. SharedTypes'
    BY <1>1, <1>3 DEF Types, SharedTypes
  <1> QED
    BY <1>1, <1>2, <1>4, IdleFits, ReleaseMoves, GotoCalm

\* mark_failed judges nothing.
LEMMA FailedCalm ==
  ASSUME Types, NEW a \in Actors, mark_failed(a)
  PROVE  Calm
  <1> DEFINE o == [op[a] EXCEPT !.pc = "failmark"]
  <1>1. /\ session' = "Failed" /\ Goto(a, o)
        /\ UNCHANGED <<nodes, cur, ws, saved, rust, gate, pending, proven, commanded, overtaken>>
    BY DEF mark_failed
  <1>2. HistoryKept /\ rust' = rust /\ From(ws') /\ From(saved')
    BY <1>1, SameWork DEF HistoryKept, Earned
  <1>3. o \in Operation /\ o.pc = "failmark"
    BY OperationType DEF Types, OpPlaces
  <1> HIDE DEF o
  <1>4. Fits(a, o)
    BY <1>3 DEF Fits, Judging, Legacy
  <1>5. SharedTypes'
    BY <1>1 DEF Types, SharedTypes
  <1> QED
    BY <1>1, <1>2, <1>3, <1>4, <1>5, ReleaseMoves, GotoCalm

\* The places of a failing operation fit anywhere.
LEMMA EndedFits ==
  ASSUME NEW a
  PROVE  Ended(a) \in Operation /\ Fits(a, Ended(a))
  BY IdleFits, PlainFits, ToolsArePlain DEF Ended

\* Writing the Failed status judges nothing.
LEMMA MarkFailedCalm ==
  ASSUME Types, NEW a \in Actors, MarkFailed(a)
  PROVE  Calm
  <1> DEFINE o == [op[a] EXCEPT !.pc = "failagain"]
  <1>1. /\ nodes' \in {nodes, WithStatus(cur, "Failed")} /\ Release(a)
        /\ Goto(a, o) \/ Goto(a, Ended(a))
        /\ UNCHANGED <<cur, session, ws, saved, rust, pending, proven, commanded, overtaken>>
    BY DEF MarkFailed
  <1>2. HistoryKept /\ rust' = rust /\ From(ws') /\ From(saved')
    BY <1>1, SameWork DEF HistoryKept, Earned
  <1>3. o \in Operation /\ o.pc = "failagain"
    BY OperationType DEF Types, OpPlaces
  <1> HIDE DEF o
  <1>4. Fits(a, o)
    BY <1>3 DEF Fits, Judging, Legacy
  <1>5. nodes' \in Seq(Node)
    BY <1>1, MarkType DEF Statuses
  <1>6. SharedTypes'
    BY <1>1, <1>5, ReleaseMoves DEF Types, SharedTypes
  <1> QED
    BY <1>1, <1>2, <1>3, <1>4, <1>6, EndedFits, ReleaseMoves, GotoCalm

\* Nor does writing it the second time.
LEMMA MarkFailedAgainCalm ==
  ASSUME Types, NEW a \in Actors, MarkFailedAgain(a)
  PROVE  Calm
  <1>1. /\ nodes' \in {nodes, WithStatus(cur, "Failed")} /\ Goto(a, Idle)
        /\ UNCHANGED <<cur, session, ws, saved, rust, gate, pending, proven, commanded, overtaken>>
    BY DEF MarkFailedAgain
  <1>2. HistoryKept /\ rust' = rust /\ From(ws') /\ From(saved')
    BY <1>1, SameWork DEF HistoryKept, Earned
  <1>3. nodes' \in Seq(Node)
    BY <1>1, MarkType DEF Statuses
  <1>4. SharedTypes'
    BY <1>1, <1>3 DEF Types, SharedTypes
  <1> QED
    BY <1>1, <1>2, <1>4, IdleFits, ReleaseMoves, GotoCalm

\* A lock that cannot be had ends the operation, and judges nothing.
LEMMA LockErrorCalm ==
  ASSUME Types, NEW a \in Actors, LockError(a)
  PROVE  Calm
  <1>1. Same /\ pending' = pending /\ Release(a) /\ Goto(a, Ended(a))
    BY DEF LockError, Same, session_vars
  <1>2. pending' \in Route
    BY <1>1 DEF Types, SharedTypes
  <1> QED
    BY <1>1, <1>2, EndedFits, ReleaseMoves, SameCalm

\* A cancelled run drops its operation and the gate with it.
LEMMA DropCalm ==
  ASSUME Types, NEW a \in Agents, Drop(a)
  PROVE  Calm
  <1>1. Same /\ pending' = pending /\ Release(a) /\ Goto(a, Idle)
    BY DEF Drop, Finish, Same, session_vars
  <1>2. a \in Actors /\ pending' \in Route
    BY <1>1 DEF Types, SharedTypes, Actors
  <1> QED
    BY <1>1, <1>2, IdleFits, ReleaseMoves, SameCalm

\* A dropped launch judges nothing.
LEMMA DropLaunchCalm ==
  ASSUME Types, NEW a \in Agents \cup {Daemon}, DropLaunch(a)
  PROVE  Calm
  <1>1. Same /\ pending' = pending /\ gate' = gate /\ Goto(a, Idle)
    BY DEF DropLaunch, Same, session_vars
  <1>2. a \in Actors /\ pending' \in Route
    BY <1>1 DEF Types, SharedTypes, Actors
  <1> QED
    BY <1>1, <1>2, IdleFits, ReleaseMoves, SameCalm

\* An aborted child judges nothing.
LEMMA AbortCalm ==
  ASSUME Types, NEW c \in Children, AbortChild(c)
  PROVE  Calm
  <1>1. Same /\ pending' = pending /\ gate' = gate /\ Goto(c, At("done"))
    BY DEF AbortChild, Same, session_vars
  <1>2. c \in Actors /\ pending' \in Route
    BY <1>1 DEF Types, SharedTypes, Actors
  <1>3. At("done") \in Operation /\ Fits(c, At("done"))
    BY ToolsArePlain, PlainFits
  <1> QED
    BY <1>1, <1>2, <1>3, ReleaseMoves, SameCalm

\* After a restart no operation is in a pass.
LEMMA RestartOpsAre ==
  ASSUME op' = RestartOps
  PROVE  /\ op' \in [Actors -> Operation]
         /\ \A b \in Actors : op'[b] \in {Idle, At("done")}
  <1>1. At("done") \in Operation /\ Idle \in Operation
    BY OperationType DEF OpPlaces
  <1> QED
    BY <1>1 DEF RestartOps

\* A restart goes back to the results on disk, which are of one pass too.
LEMMA RestartCalm ==
  ASSUME Types, Restart
  PROVE  Calm
  <1>1. /\ op' = RestartOps /\ gate' = Nobody /\ pending' = NoRoute /\ ws' = saved /\ saved' = saved
        /\ UNCHANGED <<nodes, cur, session, rust, proven, commanded, overtaken>>
    BY DEF Restart, NoCapture, session_vars
  <1>2. NoRoute \in Route
    BY DEF NoRoute, Route
  <1>3. SharedTypes'
    BY <1>1, <1>2 DEF Types, SharedTypes
  <1>4. \A b \in Actors : Fits(b, op'[b])
    <2> SUFFICES ASSUME NEW b \in Actors PROVE Fits(b, op'[b])
      OBVIOUS
    <2>1. Fits(b, Idle)
      BY IdleFits
    <2>2. Fits(b, At("done"))
      BY PlainFits, ToolsArePlain
    <2> QED
      BY <1>1, <2>1, <2>2, RestartOpsAre
  <1>5. Quiet
    BY <1>1, <1>4 DEF Quiet
  <1>6. HistoryKept /\ From(ws') /\ From(saved')
    BY <1>1 DEF HistoryKept, Earned, From, SameResults
  <1> QED
    BY <1>1, <1>3, <1>5, <1>6, RestartOpsAre DEF Calm, Types

-----------------------------------------------------------------------------
(* Verification without anchors                                            *)

\* Without anchors: reading the node judges nothing,
LEMMA LegacyReadCalm ==
  ASSUME Types, PassInv, NEW a \in Agents, LegacyRead(a)
  PROVE  Calm
  <1> DEFINE o == [At("legacyset") EXCEPT !.node = cur]
  <1>1. /\ op[a].pc = "legacy" /\ Same /\ pending' = pending /\ gate' = gate
        /\ Goto(a, o) \/ Goto(a, Idle)
    BY DEF LegacyRead, Same, session_vars
  <1>2. a \in Actors /\ pending' \in Route
    BY <1>1 DEF Types, SharedTypes, Actors
  <1>3. At("legacyset") \in Operation /\ At("legacyset").pc = "legacyset"
    BY OperationType DEF OpPlaces
  <1>4. o \in Operation /\ o.pc = "legacyset"
    BY <1>3 DEF Operation, Types, SharedTypes
  <1> HIDE DEF o
  <1>5. ~ rust
    BY <1>1, <1>2 DEF PassInv, OneMode, Legacy
  <1>6. Fits(a, o)
    BY <1>4, <1>5 DEF Fits, Judging, Legacy, PassedCommands
  <1> QED
    BY <1>1, <1>2, <1>4, <1>6, IdleFits, ReleaseMoves, SameCalm

\* marking it as being verified judges nothing,
LEMMA LegacyVerifyingCalm ==
  ASSUME Types, PassInv, NEW a \in Agents, LegacyVerifying(a)
  PROVE  Calm
  <1> DEFINE o == [op[a] EXCEPT !.pc = "legacyrun"]
  <1>1. /\ op[a].pc = "legacyset" /\ nodes' = WithStatus(op[a].node, "Verifying") /\ Goto(a, o)
        /\ UNCHANGED <<cur, session, ws, saved, rust, gate, pending, proven, commanded, overtaken>>
    BY DEF LegacyVerifying
  <1>2. HistoryKept /\ rust' = rust /\ From(ws') /\ From(saved')
    BY <1>1, SameWork DEF HistoryKept, Earned
  <1>3. a \in Actors
    BY DEF Actors
  <1>4. o \in Operation /\ o.pc = "legacyrun"
    BY <1>3, OperationType DEF Types, OpPlaces
  <1> HIDE DEF o
  <1>5. ~ rust
    BY <1>1, <1>3 DEF PassInv, OneMode, Legacy
  <1>6. Fits(a, o)
    BY <1>4, <1>5 DEF Fits, Judging, Legacy, PassedCommands
  <1>7. nodes' \in Seq(Node)
    BY <1>1, StatusType DEF Statuses, Types, SharedTypes
  <1>8. SharedTypes'
    BY <1>1, <1>7 DEF Types, SharedTypes
  <1> QED
    BY <1>1, <1>2, <1>3, <1>4, <1>6, <1>8, ReleaseMoves, GotoCalm

\* nor does running the check, whose verdict is kept by the operation,
LEMMA LegacyVerdictCalm ==
  ASSUME Types, PassInv, NEW a \in Agents, NEW why \in {"passed", "failed", "boundary"},
         verify_and_complete(a, why)
  PROVE  Calm
  <1> DEFINE o == [op[a] EXCEPT !.pc = "legacyend", !.why = why]
  <1>1. /\ op[a].pc = "legacyrun" /\ session' \in {session, "Completed", "Failed"} /\ Goto(a, o)
        /\ UNCHANGED <<nodes, cur, ws, saved, rust, gate, pending, proven, overtaken>>
        /\ commanded' = IF why = "passed" THEN commanded \cup {op[a].node} ELSE commanded
    BY DEF verify_and_complete
  <1>2. HistoryKept /\ rust' = rust /\ From(ws') /\ From(saved')
    BY <1>1, SameWork DEF HistoryKept, Earned
  <1>3. a \in Actors
    BY DEF Actors
  <1>4. o \in Operation /\ o.pc = "legacyend" /\ o.why = why /\ o.node = op[a].node
    BY <1>3 DEF Types, OpPlaces, Operation
  <1> HIDE DEF o
  <1>5. ~ rust
    BY <1>1, <1>3 DEF PassInv, OneMode, Legacy
  <1>6. Fits(a, o)
    BY <1>1, <1>4, <1>5 DEF Fits, Judging, Legacy, PassedCommands
  <1>7. SharedTypes'
    BY <1>1 DEF Types, SharedTypes
  <1> QED
    BY <1>1, <1>2, <1>3, <1>4, <1>6, <1>7, ReleaseMoves, GotoCalm

\* The node list LegacyFinish leaves.
Counted(n, ok) ==
  LET marked == WithStatus(n, IF ok THEN "Verified" ELSE "Failed") IN
  [i \in DOMAIN marked |-> IF ~ ok /\ marked[i].id = n THEN [marked[i] EXCEPT !.retry = @ + 1]
                           ELSE marked[i]]

\* The node list LegacyFinish leaves has its type.
LEMMA CountedType ==
  ASSUME nodes \in Seq(Node), NEW n, NEW ok \in BOOLEAN
  PROVE  /\ Counted(n, ok) \in Seq(Node) /\ Len(Counted(n, ok)) = Len(nodes)
         /\ DOMAIN Counted(n, ok) = DOMAIN nodes
         /\ \A i \in DOMAIN nodes :
              /\ Counted(n, ok)[i].id = nodes[i].id
              /\ Counted(n, ok)[i].status = IF nodes[i].id = n THEN IF ok THEN "Verified" ELSE "Failed"
                                            ELSE nodes[i].status
  <1> DEFINE status == IF ok THEN "Verified" ELSE "Failed"
             marked == WithStatus(n, status)
             counted == [i \in DOMAIN marked |->
                           IF ~ ok /\ marked[i].id = n
                           THEN [marked[i] EXCEPT !.retry = marked[i].retry + 1] ELSE marked[i]]
  <1>1. status \in Statuses
    BY DEF Statuses
  <1>2. Counted(n, ok) = counted
    BY DEF Counted
  <1> HIDE DEF status
  <1>3. /\ marked \in Seq(Node) /\ Len(marked) = Len(nodes) /\ DOMAIN marked = DOMAIN nodes
        /\ \A i \in DOMAIN nodes :
             /\ marked[i].id = nodes[i].id
             /\ marked[i].status = IF nodes[i].id = n THEN status ELSE nodes[i].status
    BY <1>1, StatusType
  <1> HIDE DEF marked
  <1>4. \A i \in DOMAIN marked : marked[i] \in Node
    BY <1>3
  <1>5. ASSUME NEW i \in DOMAIN marked
        PROVE  /\ counted[i] \in Node /\ counted[i].id = marked[i].id
               /\ counted[i].status = marked[i].status
    BY <1>4 DEF Node
  <1>6. DOMAIN marked = 1 .. Len(nodes) /\ Len(nodes) \in Nat /\ DOMAIN counted = DOMAIN marked
    BY <1>3
  <1> HIDE DEF counted
  <1>7. \A i \in DOMAIN marked : counted[i] \in Node
    BY <1>5
  <1>8. counted = [i \in DOMAIN marked |-> counted[i]]
    BY DEF counted
  <1>9. counted \in [1 .. Len(nodes) -> Node]
    BY <1>6, <1>7, <1>8
  <1>10. counted \in Seq(Node) /\ Len(counted) = Len(nodes)
    BY <1>6, <1>9
  <1> QED
    BY <1>2, <1>3, <1>5, <1>6, <1>10 DEF status

\* and the end of it stores a result but no compile result.
LEMMA LegacyFinishCalm ==
  ASSUME Types, PassInv, NEW a \in Agents, LegacyFinish(a)
  PROVE  Calm
  <1> DEFINE n == op[a].node
             ok == op[a].why = "passed"
             r == Result(op[a].why, <<n, 0>>)
             w == [ws EXCEPT !.verify = r]
  <1>1. /\ op[a].pc = "legacyend" /\ nodes' = Counted(n, ok)
        /\ ws' \in {ws, w} /\ saved' \in {saved, w}
        /\ session' \in {"InProgress", "Failed", session} /\ Goto(a, Idle)
        /\ UNCHANGED <<cur, rust, gate, pending, proven, commanded, overtaken>>
    BY DEF LegacyFinish, Capture, Counted
  <1>2. a \in Actors
    BY DEF Actors
  <1>3. ~ rust /\ ws.compile = NoResult /\ saved.compile = NoResult
    BY <1>1, <1>2 DEF PassInv, OneMode, Legacy
  <1>4. op[a] \in Operation
    BY <1>2 DEF Types
  <1>5. <<n, 0>> \in Passes /\ ok \in BOOLEAN
    BY <1>4 DEF Passes, Operation
  <1>6. r \in Results
    BY <1>4, <1>5 DEF Result, Results, Operation
  <1> HIDE DEF r
  <1>7. w \in WorkState /\ w.compile = NoResult
    BY <1>3, <1>6 DEF Types, SharedTypes, WorkState
  <1> HIDE DEF w
  <1>8. From(ws') /\ From(saved') /\ ws' \in WorkState /\ saved' \in WorkState
    BY <1>1, <1>3, <1>7 DEF From, SameResults, Types, SharedTypes
  <1>9. nodes' \in Seq(Node)
    BY <1>1, <1>5, CountedType DEF Types, SharedTypes
  <1>10. SharedTypes'
    BY <1>1, <1>8, <1>9 DEF Types, SharedTypes
  <1>11. HistoryKept /\ rust' = rust
    BY <1>1 DEF HistoryKept, Earned
  <1> QED
    BY <1>1, <1>2, <1>8, <1>10, <1>11, IdleFits, ReleaseMoves, GotoCalm

-----------------------------------------------------------------------------
(* The specialist and the reviewer                                         *)

\* A specialist's report judges nothing.
LEMMA ReportCalm ==
  ASSUME Types, NEW c \in Children, record_specialist_report(c)
  PROVE  Calm
  <1> DEFINE w == [ws EXCEPT !.report = <<pending.node, pending.attempt>>]
             v == Routed(w, cur, pending.attempt, "Implement")
  <1>1. /\ op[c].pc = "running" /\ pending' \in {NoRoute, pending}
        /\ (ws' = v /\ saved' = v) \/ (ws' = w /\ saved' = saved)
        /\ UNCHANGED <<nodes, cur, session, rust, gate, op, proven, commanded, overtaken>>
    BY DEF record_specialist_report, Capture, NoCapture, session_vars
  <1>2. <<pending.node, pending.attempt>> \in Passes /\ pending.attempt \in Nat
    BY DEF Types, SharedTypes, Route, Passes
  <1>3. w \in WorkState /\ SameResults(ws, w)
    BY <1>2 DEF Types, SharedTypes, WorkState, SameResults
  <1> HIDE DEF w
  <1>4. v \in WorkState /\ SameResults(ws, v)
    BY <1>2, <1>3, RoutedType DEF SameJudgement, SameResults
  <1> HIDE DEF v
  <1>5. From(ws') /\ From(saved') /\ ws' \in WorkState /\ saved' \in WorkState
    BY <1>1, <1>3, <1>4 DEF From, SameResults, Types, SharedTypes
  <1>6. pending' \in Route
    BY <1>1 DEF NoRoute, Route, Types, SharedTypes
  <1>7. Types'
    BY <1>1, <1>5, <1>6 DEF Types, SharedTypes
  <1>8. Quiet /\ HistoryKept
    BY <1>1 DEF Quiet, HistoryKept, Earned
  <1> QED
    BY <1>5, <1>7, <1>8 DEF Calm

\* Nor does the end of its child.
LEMMA ChildEndsCalm ==
  ASSUME Types, NEW c \in Children, resolve_root_cause_child_terminal(c)
  PROVE  Calm
  <1> DEFINE w == [ws EXCEPT !.budget.left = 0]
             v == Noted(w, pending.node, pending.attempt)
             o == [At("failing") EXCEPT !.node = pending.node]
  <1>1. UNCHANGED <<nodes, cur, session, rust, gate, proven, commanded, overtaken>>
    BY DEF resolve_root_cause_child_terminal, session_vars
  <1>2. \/ Goto(c, At("done")) /\ UNCHANGED <<ws, saved, pending>>
        \/ Goto(c, o) /\ ws' = v /\ saved' = v /\ pending' = NoRoute
    BY DEF resolve_root_cause_child_terminal, Capture
  <1>3. c \in Actors
    BY DEF Actors
  <1>4. pending \in Route /\ NoRoute \in Route /\ pending.attempt \in Nat
    BY DEF Types, SharedTypes, Route, NoRoute
  <1>5. w \in WorkState /\ SameResults(ws, w)
    BY DEF Types, SharedTypes, WorkState, Budgets, SameResults
  <1> HIDE DEF w
  <1>6. v \in WorkState /\ SameResults(ws, v)
    BY <1>4, <1>5, NotedType DEF SameJudgement, SameResults
  <1> HIDE DEF v
  <1>7. From(ws') /\ From(saved') /\ ws' \in WorkState /\ saved' \in WorkState
    BY <1>2, <1>6, SameWork DEF From, SameResults, Types, SharedTypes
  <1>8. SharedTypes'
    BY <1>1, <1>2, <1>4, <1>7 DEF Types, SharedTypes
  <1>9. At("done") \in Operation /\ Fits(c, At("done"))
    BY ToolsArePlain, PlainFits
  <1>10. At("failing") \in Operation /\ At("failing").pc = "failing"
    BY OperationType DEF OpPlaces
  <1>11. o \in Operation /\ o.pc = "failing"
    BY <1>4, <1>10 DEF Operation, Route
  <1> HIDE DEF o
  <1>12. Fits(c, o)
    BY <1>11 DEF Fits, Judging, Legacy
  <1>13. HistoryKept /\ rust' = rust
    BY <1>1 DEF HistoryKept, Earned
  <1> QED
    BY <1>1, <1>2, <1>3, <1>7, <1>8, <1>9, <1>11, <1>12, <1>13, ReleaseMoves, GotoCalm

\* Three passed results of one pass about node n, reviewed where that is asked for,
\* are the proof of n.
LEMMA PassingProves ==
  ASSUME NEW w, NEW n, OnePass(w), w.verify.pass[1] = n, Passing(w)
  PROVE  Proof(w, n)
  BY DEF OnePass, Agree, Passing, Proof

\* A review completes the current node only on three passed results of one pass about it.
LEMMA ReviewCalm ==
  ASSUME Types, PassInv, NEW verdict \in Verdicts, record_human_review(verdict)
  PROVE  Calm
  <1> DEFINE w == [ws EXCEPT !.review = verdict]
             k == Greater(ws.audit[cur].attempt, 1)
             v == Routed(w, cur, k, next_step(w))
             done == [At("completing") EXCEPT !.node = cur]
             fail == [At("failing") EXCEPT !.node = cur]
  <1>1. /\ HasCurrent /\ ws' = v /\ saved' = v
        /\ proven' = proven \cup {n \in NodeIds : Proof(w, n)}
        /\ UNCHANGED <<nodes, cur, session, rust, gate, pending, commanded, overtaken>>
    BY DEF record_human_review, session_vars, Capture, Prove
  <1>2. Goto(Human, CASE next_step(w) = "Complete" -> done
                      [] next_step(w) = "Escalate" -> fail
                      [] OTHER -> Idle)
    BY DEF record_human_review
  <1>3. \/ next_step(w) = "Complete" /\ Goto(Human, done)
        \/ Goto(Human, fail) \/ Goto(Human, Idle)
    BY <1>2
  <1>4. Human \in Actors /\ cur \in NodeIds /\ ws \in WorkState
    BY <1>1, CurrentIsNode DEF Actors, Types, SharedTypes
  <1>5. /\ w \in WorkState /\ SameResults(ws, w)
    BY <1>4, VerdictsAssumption DEF WorkState, SameResults
  <1>6. k \in Nat
    BY <1>4 DEF WorkState, Audit, Greater
  <1> HIDE DEF w, k
  <1>7. v \in WorkState /\ SameResults(ws, v)
    BY <1>5, <1>6, RoutedType DEF SameJudgement, SameResults
  <1> HIDE DEF v
  <1>8. From(ws') /\ From(saved') /\ ws' \in WorkState /\ saved' \in WorkState
    BY <1>1, <1>7 DEF From, SameResults
  <1>9. SharedTypes'
    BY <1>1, <1>8 DEF Types, SharedTypes
  <1>10. HistoryKept /\ rust' = rust
    BY <1>1 DEF HistoryKept, Earned
  <1>11. At("completing") \in Operation /\ At("completing").pc = "completing"
    BY OperationType DEF OpPlaces
  <1>12. At("failing") \in Operation /\ At("failing").pc = "failing"
    BY OperationType DEF OpPlaces
  <1>13. /\ done \in Operation /\ done.pc = "completing" /\ done.node = cur
         /\ fail \in Operation /\ fail.pc = "failing"
    BY <1>4, <1>11, <1>12 DEF Operation
  <1> HIDE DEF done, fail
  <1>14. next_step(w) = "Complete" => Settled'
    <2> SUFFICES ASSUME next_step(w) = "Complete", ~ Settled
                 PROVE  rust /\ cur \in proven'
      BY <1>1 DEF Settled, Earned
    <2>1. Passing(w)
      BY CompleteIsPassing
    <2>2. rust
      BY <2>1, <1>5 DEF Passing, SameResults, PassInv, OneMode
    <2>3. OnePass(ws) /\ About(ws, cur)
      BY <2>2 DEF PassInv, ResultsOfOnePass, Unsettled
    <2>4. OnePass(w) /\ w.verify.pass[1] = cur
      BY <2>1, <2>3, <1>5 DEF OnePass, About, SameResults, Passing
    <2> QED
      BY <1>1, <1>4, <2>1, <2>2, <2>4, PassingProves
  <1>15. Fits(Human, fail) /\ (next_step(w) = "Complete" => Fits(Human, done))
    BY <1>4, <1>13, <1>14, Constants DEF Fits, Judging, Legacy
  <1> QED
    BY <1>1, <1>3, <1>4, <1>8, <1>9, <1>10, <1>13, <1>15, IdleFits, ReleaseMoves, GotoCalm

-----------------------------------------------------------------------------
(* A pass of the work graph                                                *)

\* What a step of the holder of the gate must establish.
Turn(a, o) ==
  /\ o.pc \in Judging => gate' = a /\ Own(ws', o) /\ Own(saved', o) /\ o.node # NoNode
  /\ o.pc \notin {"units"} \cup Legacy
  /\ o.pc \in {"completing", "marking"} => o.node # NoNode /\ Settled'
  /\ OnePass(ws') /\ OnePass(saved')
  /\ ~ Settled' => /\ About(ws', cur) /\ About(saved', cur)
                   /\ o.pc \in Judging => o.node = cur

\* Such a step keeps the pass invariant.
LEMMA TurnKeeps ==
  ASSUME Types, PassInv, rust, rust' = rust, HistoryKept, NEW a \in Actors, NEW o \in Operation,
         Goto(a, o), gate \in {a, Nobody}, Turn(a, o)
  PROVE  PassInv'
  <1>1. /\ op' \in [Actors -> Operation]
        /\ op'[a] = o /\ \A b \in Actors : b # a => op'[b] = op[b]
    BY GotoType DEF Types
  <1>2. ASSUME NEW b \in Actors, b # a
        PROVE  op'[b].pc \notin Judging \cup {"units"}
    BY <1>1, <1>2, NobodyAssumption DEF PassInv, GateHeld
  <1>3. GateHeld'
    BY <1>1, <1>2 DEF GateHeld, Turn
  <1>4. OneMode'
    BY <1>1 DEF PassInv, OneMode, Turn
  <1>5. Named'
    BY <1>1 DEF PassInv, Named, Turn
  <1>6. OwnResults'
    BY <1>1, <1>2 DEF OwnResults, Turn
  <1>7. ResultsOfOnePass'
    BY DEF ResultsOfOnePass, Turn
  <1>8. Unsettled'
    <2> SUFFICES ASSUME ~ Settled'
                 PROVE  /\ \A b \in Actors : /\ op'[b].pc \in Judging => op'[b].node = cur'
                                             /\ op'[b].pc \notin {"completing", "marking"}
                        /\ rust' => About(ws', cur') /\ About(saved', cur')
      BY DEF Unsettled
    <2>1. ~ Settled
      BY DEF Settled, HistoryKept, Earned
    <2>2. \A b \in Actors : op[b].pc \notin {"completing", "marking"}
      BY <2>1 DEF PassInv, Unsettled
    <2>3. About(ws', cur') /\ About(saved', cur') /\ (o.pc \in Judging => o.node = cur')
      BY DEF Turn, HistoryKept, Earned
    <2>4. o.pc \notin {"completing", "marking"}
      BY DEF Turn
    <2>5. ASSUME NEW b \in Actors
          PROVE  /\ op'[b].pc \in Judging => op'[b].node = cur'
                 /\ op'[b].pc \notin {"completing", "marking"}
      BY <1>1, <1>2, <2>2, <2>3, <2>4
    <2> QED
      BY <2>3, <2>5
  <1>9. Commanded'
    BY <1>1 DEF PassInv, Commanded, PassedCommands, HistoryKept, Turn, Legacy
  <1> QED
    BY <1>3, <1>4, <1>5, <1>6, <1>7, <1>8, <1>9 DEF PassInv

\* prepare_work_graph_pass clears the results in memory and on disk.
LEMMA PrepareKeeps ==
  ASSUME Types, PassInv, NEW a \in Agents, prepare_work_graph_pass(a)
  PROVE  Types' /\ PassInv'
  <1> DEFINE r == reset_for_work_graph_pass(ws)
             w == [r EXCEPT !.budget = Budget(Remaining(ws))]
             k == ws.audit[cur].attempt + 1
             o == [At("compile") EXCEPT !.node = cur, !.attempt = k]
  <1>1. /\ op[a].pc = "gate" /\ gate = Nobody
        /\ UNCHANGED <<nodes, cur, session, rust, pending, proven, commanded, overtaken>>
    BY DEF prepare_work_graph_pass, session_vars
  <1>2. \/ HasCurrent /\ gate' = a /\ ws' = w /\ saved' = w /\ Goto(a, o)
        \/ Goto(a, Idle) /\ Release(a) /\ UNCHANGED <<ws, saved>>
    BY DEF prepare_work_graph_pass, Finish, Capture
  <1>3. a \in Actors /\ rust' = rust /\ HistoryKept /\ pending' \in Route
    BY <1>1 DEF Actors, HistoryKept, Earned, Types, SharedTypes
  <1>4. CASE Goto(a, Idle) /\ Release(a) /\ UNCHANGED <<ws, saved>>
    <2>1. Calm
      BY <1>1, <1>3, <1>4, IdleFits, ReleaseMoves, SameCalm DEF Same
    <2> QED
      BY <2>1, QuietKeeps DEF Calm
  <1>5. CASE HasCurrent /\ gate' = a /\ ws' = w /\ saved' = w /\ Goto(a, o)
    <2>1. ws \in WorkState /\ cur \in NodeIds
      BY <1>5, CurrentIsNode DEF Types, SharedTypes
    <2>2. r \in WorkState /\ r.compile = NoResult /\ r.test = NoResult /\ r.verify = NoResult
      BY <2>1, ResetType DEF reset_for_work_graph_pass, WorkState
    <2>3. Budget(Remaining(ws)) \in Budgets
      BY <2>1, RemainingType DEF Budget, Budgets
    <2> HIDE DEF r
    <2>4. w \in WorkState /\ w.compile = NoResult /\ w.test = NoResult /\ w.verify = NoResult
      BY <2>2, <2>3 DEF WorkState
    <2> HIDE DEF w
    <2>5. k \in Nat
      BY <2>1 DEF WorkState, Audit
    <2> HIDE DEF k
    <2>6. At("compile") \in Operation /\ At("compile").pc = "compile"
      BY OperationType DEF OpPlaces
    <2>7. o \in Operation /\ o.pc = "compile" /\ o.node = cur
      BY <2>1, <2>5, <2>6 DEF Operation
    <2> HIDE DEF o
    <2>8. rust
      BY <1>1, <1>3 DEF PassInv, OneMode
    <2>9. Turn(a, o)
      BY <1>5, <2>1, <2>4, <2>7, Constants DEF Turn, Judging, Legacy, Own, OnePass, Agree, About
    <2>10. PassInv'
      BY <1>1, <1>3, <1>5, <2>7, <2>8, <2>9, TurnKeeps
    <2>11. Types'
      BY <1>1, <1>3, <1>5, <2>4, <2>7, GotoType DEF Types, SharedTypes
    <2> QED
      BY <2>10, <2>11
  <1> QED
    BY <1>2, <1>4, <1>5

\* Inside a pass: the gate is held, the session is a Rust one, and the pass has a node.
LEMMA JudgingHolds ==
  ASSUME Types, PassInv, NEW a \in Agents, op[a].pc \in Judging
  PROVE  /\ a \in Actors /\ op[a] \in Operation
         /\ gate = a /\ rust /\ op[a].node # NoNode /\ Own(ws, op[a]) /\ Own(saved, op[a])
         /\ OnePass(ws) /\ OnePass(saved)
         /\ ~ Settled => op[a].node = cur /\ About(ws, cur) /\ About(saved, cur)
  <1>1. a \in Actors /\ op[a] \in Operation
    BY DEF Actors, Types
  <1>2. gate = a /\ rust /\ op[a].node # NoNode /\ Own(ws, op[a]) /\ Own(saved, op[a])
    BY <1>1 DEF PassInv, GateHeld, OneMode, Named, OwnResults
  <1> QED
    BY <1>1, <1>2 DEF PassInv, ResultsOfOnePass, Unsettled

\* An anchor adds the pass's own result to those of the same pass.
LEMMA RecordKeeps ==
  ASSUME Types, PassInv, NEW a \in Agents, op[a].pc \in Judging,
         NEW anchor \in {"compile", "test", "verify"},
         op[a].pc = "compile" <=> anchor = "compile", op[a].pc = "test" <=> anchor = "test",
         NEW why \in {"passed", "failed", "boundary"}, RecordResult(a, anchor, why),
         proven \subseteq proven', anchor = "verify" => Prove(ws')
  PROVE  Types' /\ PassInv'
  <1> DEFINE pass == <<op[a].node, op[a].attempt>>
             r == Result(why, pass)
             got == [ws EXCEPT ![anchor] = r]
  <1>1. /\ a \in Actors /\ op[a] \in Operation
        /\ gate = a /\ rust /\ op[a].node # NoNode /\ Own(ws, op[a]) /\ Own(saved, op[a])
        /\ OnePass(ws) /\ OnePass(saved)
        /\ ~ Settled => op[a].node = cur /\ About(ws, cur) /\ About(saved, cur)
    BY JudgingHolds
  <1>2. /\ ws' \in WorkState /\ saved' \in {saved, ws'} /\ SameJudgement(got, ws')
        /\ Moves(a, Passing(ws'))
        /\ UNCHANGED <<nodes, cur, session, rust, pending, poisoned, commanded, overtaken>>
    BY RecordStores
  <1>3. pass \in Passes /\ pass[1] = op[a].node
    BY <1>1 DEF Passes, Operation
  <1> HIDE DEF pass
  <1>4. r \in Results /\ r # NoResult /\ r.pass = pass
    BY <1>3, ResultType
  <1> HIDE DEF r
  <1>5. ws \in WorkState /\ saved \in WorkState
    BY DEF Types, SharedTypes
  <1>6. /\ ws'.compile = (IF anchor = "compile" THEN r ELSE ws.compile)
        /\ ws'.test = (IF anchor = "test" THEN r ELSE ws.test)
        /\ ws'.verify = (IF anchor = "verify" THEN r ELSE ws.verify)
    <2>1. /\ got.compile = (IF anchor = "compile" THEN r ELSE ws.compile)
          /\ got.test = (IF anchor = "test" THEN r ELSE ws.test)
          /\ got.verify = (IF anchor = "verify" THEN r ELSE ws.verify)
      <3>1. CASE anchor = "compile"
        BY <3>1, <1>5 DEF WorkState
      <3>2. CASE anchor = "test"
        BY <3>2, <1>5 DEF WorkState
      <3>3. CASE anchor = "verify"
        BY <3>3, <1>5 DEF WorkState
      <3> QED
        BY <3>1, <3>2, <3>3
    <2> HIDE DEF got
    <2> QED
      BY <2>1, <1>2 DEF SameJudgement, SameResults
  <1> HIDE DEF got
  <1>7. /\ ws.verify = NoResult
        /\ ws.compile = NoResult \/ (anchor # "compile" /\ ws.compile.pass = pass)
        /\ ws.test = NoResult \/ (anchor = "verify" /\ ws.test.pass = pass)
    BY <1>1 DEF Own, pass, Judging
  <1>8. OnePass(ws')
    BY <1>4, <1>6, <1>7 DEF OnePass, Agree
  <1>9. OnePass(saved')
    BY <1>1, <1>2, <1>8
  <1>10. HistoryKept /\ rust' = rust
    BY <1>2 DEF HistoryKept, Earned
  <1>11. ~ Settled' => About(ws', cur) /\ About(saved', cur) /\ op[a].node = cur
    <2> SUFFICES ASSUME ~ Settled'
                 PROVE  About(ws', cur) /\ About(saved', cur) /\ op[a].node = cur
      OBVIOUS
    <2>1. ~ Settled
      BY <1>10 DEF Settled, HistoryKept, Earned
    <2>2. op[a].node = cur /\ About(ws, cur) /\ About(saved, cur)
      BY <2>1, <1>1
    <2>3. About(ws', cur)
      BY <2>2, <1>3, <1>4, <1>6 DEF About
    <2> QED
      BY <2>2, <2>3, <1>2
  <1>12. Passing(ws') => Settled'
    <2> SUFFICES ASSUME Passing(ws'), ~ Settled'
                 PROVE  cur \in proven'
      BY <1>1, <1>10 DEF Settled, HistoryKept, Earned
    <2>1. anchor = "verify"
      BY <1>6, <1>7 DEF Passing
    <2>2. ws'.verify.pass[1] = cur
      BY <2>1, <1>3, <1>4, <1>6, <1>11
    <2>3. Proof(ws', cur)
      BY <1>8, <2>2, PassingProves
    <2>4. cur \in NodeIds
      BY <1>10 DEF Settled, HistoryKept, Earned, Types, SharedTypes
    <2> QED
      BY <2>1, <2>3, <2>4 DEF Prove
  <1>13. \E o \in Operation : Goto(a, o) /\ Turn(a, o)
    <2> DEFINE to(p) == [op[a] EXCEPT !.pc = p]
    <2>1. \A p \in OpPlaces : /\ to(p) \in Operation /\ to(p).pc = p /\ to(p).node = op[a].node
                              /\ to(p).attempt = op[a].attempt
      BY <1>1, OperationType
    <2>2. {"test", "final", "completing", "failing", "dispatch"} \subseteq OpPlaces
      BY DEF OpPlaces
    <2>3. ASSUME NEW o \in Operation, o.pc \in {"idle", "dispatch", "failing"}
          PROVE  Turn(a, o)
      BY <2>3, <1>8, <1>9, <1>11 DEF Turn, Judging, Legacy
    <2>4. CASE Goto(a, Idle)
      BY <2>3, <2>4, OperationType DEF Idle
    <2>5. CASE Goto(a, At("dispatch"))
      BY <2>2, <2>3, <2>5, OperationType
    <2>6. CASE Goto(a, to("failing"))
      BY <2>1, <2>2, <2>3, <2>6
    <2>7. CASE Passing(ws') /\ Goto(a, to("completing"))
      <3>1. to("completing") \in Operation /\ to("completing").pc = "completing"
            /\ to("completing").node = op[a].node
        BY <2>1, <2>2
      <3>2. Turn(a, to("completing"))
        BY <3>1, <2>7, <1>1, <1>8, <1>9, <1>11, <1>12 DEF Turn, Judging, Legacy
      <3> QED
        BY <3>1, <3>2, <2>7
    <2>8. CASE op[a].pc = "compile" /\ Goto(a, to("test")) /\ gate' = gate
      <3>1. /\ to("test") \in Operation /\ to("test").pc = "test"
            /\ to("test").node = op[a].node /\ to("test").attempt = op[a].attempt
        BY <2>1, <2>2
      <3> HIDE DEF to
      <3>2. Own(ws', to("test"))
        BY <3>1, <2>8, <1>4, <1>6, <1>7 DEF Own, pass
      <3>3. Own(saved, to("test"))
        BY <3>1, <2>8, <1>1 DEF Own
      <3>4. Turn(a, to("test"))
        BY <3>1, <3>2, <3>3, <2>8, <1>1, <1>2, <1>8, <1>9, <1>11 DEF Turn, Judging, Legacy
      <3> QED
        BY <3>1, <3>4, <2>8
    <2>9. CASE op[a].pc = "test" /\ Goto(a, to("final")) /\ gate' = gate
      <3>1. /\ to("final") \in Operation /\ to("final").pc = "final"
            /\ to("final").node = op[a].node /\ to("final").attempt = op[a].attempt
        BY <2>1, <2>2
      <3> HIDE DEF to
      <3>2. Own(ws', to("final"))
        BY <3>1, <2>9, <1>4, <1>6, <1>7 DEF Own, pass
      <3>3. Own(saved, to("final"))
        BY <3>1, <2>9, <1>1 DEF Own
      <3>4. Turn(a, to("final"))
        BY <3>1, <3>2, <3>3, <2>9, <1>1, <1>2, <1>8, <1>9, <1>11 DEF Turn, Judging, Legacy
      <3> QED
        BY <3>1, <3>4, <2>9
    <2> QED
      BY <1>2, <2>4, <2>5, <2>6, <2>7, <2>8, <2>9 DEF Moves
  <1>14. PICK o \in Operation : Goto(a, o) /\ Turn(a, o)
    BY <1>13
  <1>15. PassInv'
    BY <1>1, <1>10, <1>14, TurnKeeps
  <1>16. gate' = gate \/ Release(a)
    BY <1>2 DEF Moves
  <1>17. Types'
    BY <1>1, <1>2, <1>5, <1>14, <1>16, GotoType, ReleaseMoves DEF Types, SharedTypes
  <1> QED
    BY <1>15, <1>17

-----------------------------------------------------------------------------
(* The chain of nodes: beginning one, going back                           *)

\* A set of numbers with a bound has a greatest one (by well-founded induction on the bound).
LEMMA HasGreatest ==
  ASSUME NEW m \in Nat, NEW S, S \subseteq 0 .. m, S # {}
  PROVE  \E x \in S : \A y \in S : y <= x
  <1> DEFINE T == {m - x : x \in S}
             R == OpToRel(<, Nat)
  <1>1. T \subseteq Nat /\ T # {}
    <2>1. \A x \in S : x \in 0 .. m
      OBVIOUS
    <2>2. \A x \in S : m - x \in Nat
      BY <2>1
    <2>3. PICK x \in S : TRUE
      OBVIOUS
    <2> QED
      BY <2>2, <2>3
  <1>2. PICK t \in T : \A u \in T : ~ (<<u, t>> \in R)
    <2>1. IsWellFoundedOn(R, Nat)
      BY NatLessThanWellFounded
    <2> HIDE DEF R, T
    <2> QED
      BY <1>1, <2>1, WFMin
  <1>3. \A u \in T : ~ (u < t)
    BY <1>1, <1>2 DEF OpToRel
  <1>4. PICK x \in S : t = m - x
    OBVIOUS
  <1>5. ASSUME NEW y \in S PROVE y <= x
    <2>1. m - y \in T
      OBVIOUS
    <2>2. ~ (m - y < m - x)
      BY <1>3, <1>4, <2>1
    <2>3. x \in 0 .. m /\ y \in 0 .. m
      OBVIOUS
    <2> HIDE DEF T
    <2> QED
      BY <2>2, <2>3
  <1> QED
    BY <1>5

\* The node rollback_node goes back to is in the chain and judged.
LEMMA AnchorIs ==
  ASSUME nodes \in Seq(Node), Anchors # {}
  PROVE  /\ Anchor \in DOMAIN nodes /\ nodes[Anchor].status \in {"Verified", "Failed"}
         /\ Anchor \in 1 .. Len(nodes)
  <1>1. Len(nodes) \in Nat /\ DOMAIN nodes = 1 .. Len(nodes)
    OBVIOUS
  <1>2. Anchors \subseteq 0 .. Len(nodes)
    BY <1>1 DEF Anchors
  <1>3. \E i \in Anchors : \A k \in Anchors : k <= i
    BY <1>1, <1>2, HasGreatest
  <1>4. Anchor \in Anchors
    BY <1>3 DEF Anchor
  <1> QED
    BY <1>1, <1>4 DEF Anchors

\* A chain with one more node is a chain.
LEMMA AppendType ==
  ASSUME nodes \in Seq(Node), NEW n \in NodeIds,
         nodes' = Append(nodes, [id |-> n, status |-> "Running", retry |-> 0])
  PROVE  /\ nodes' \in Seq(Node) /\ Len(nodes') = Len(nodes) + 1
         /\ DOMAIN nodes' = 1 .. Len(nodes) + 1
         /\ \A i \in DOMAIN nodes : nodes'[i] = nodes[i]
         /\ nodes'[Len(nodes) + 1] = [id |-> n, status |-> "Running", retry |-> 0]
  <1>1. [id |-> n, status |-> "Running", retry |-> 0] \in Node
    BY DEF Node, Statuses
  <1> QED
    BY <1>1

\* begin_node starts without results; a node begun during a verdict is overtaken.
LEMMA BeginKeeps ==
  ASSUME Types, PassInv, NEW a \in Agents, NEW request \in Requests, BeginNode(a, request)
  PROVE  Types' /\ PassInv'
  <1> DEFINE n == NextId
             w == FreshState(request, n)
  <1>1. /\ Goto(a, Idle) /\ UNCHANGED <<session, rust, gate, pending, proven, commanded>>
        /\ \/ UNCHANGED <<nodes, cur, ws, saved, overtaken>>
           \/ n \in NodeIds /\ AddNode(n) /\ ws' = w /\ saved' = w
    BY DEF BeginNode, Capture
  <1>2. a \in Actors /\ Idle \in Operation /\ Idle.pc = "idle"
    BY OperationType DEF Actors, Idle
  <1>3. CASE UNCHANGED <<nodes, cur, ws, saved, overtaken>>
    <2>1. Same /\ pending' \in Route
      BY <1>1, <1>3 DEF Same, Types, SharedTypes
    <2>2. Calm
      BY <1>1, <1>2, <2>1, IdleFits, ReleaseMoves, SameCalm
    <2> QED
      BY <2>2, QuietKeeps DEF Calm
  <1>4. CASE n \in NodeIds /\ AddNode(n) /\ ws' = w /\ saved' = w
    <2>1. /\ w \in WorkState
          /\ w.compile = NoResult /\ w.test = NoResult /\ w.verify = NoResult
      BY <1>4, FreshType DEF Types, SharedTypes
    <2> HIDE DEF w, n
    <2>2. /\ nodes' = Append(nodes, [id |-> n, status |-> "Running", retry |-> 0]) /\ cur' = n
          /\ (\E b \in Actors : op[b].node # NoNode) => n \in overtaken'
      BY <1>4 DEF AddNode
    <2>3. /\ op' \in [Actors -> Operation]
          /\ op'[a] = Idle /\ \A b \in Actors : b # a => op'[b] = op[b]
      BY <1>1, <1>2, GotoType DEF Types
    <2>4. nodes' \in Seq(Node)
      BY <1>4, <2>2, AppendType DEF Types, SharedTypes
    <2>5. Types'
      BY <1>1, <1>4, <2>1, <2>2, <2>3, <2>4 DEF Types, SharedTypes
    <2>6. \A b \in Actors : op'[b].pc = "idle" \/ op'[b] = op[b]
      BY <1>2, <2>3
    <2>7. GateHeld' /\ Named'
      BY <1>1, <2>6 DEF PassInv, GateHeld, Named, Judging
    <2>8. OneMode'
      BY <1>1, <1>4, <2>1, <2>6 DEF PassInv, OneMode, Judging, Legacy
    <2>9. OwnResults' /\ ResultsOfOnePass'
      BY <1>4, <2>1 DEF OwnResults, Own, ResultsOfOnePass, OnePass, Agree
    <2>10. About(ws', cur') /\ About(saved', cur')
      BY <1>4, <2>1 DEF About
    <2>11. ASSUME ~ Settled', NEW b \in Actors
           PROVE  op'[b].pc \notin Judging \cup {"completing", "marking"}
      <3>1. op[b].node = NoNode
        BY <2>2, <2>11 DEF Settled, Earned
      <3> QED
        BY <2>6, <3>1 DEF PassInv, Named, Judging
    <2>12. Unsettled'
      BY <2>10, <2>11 DEF Unsettled
    <2>13. Commanded'
      BY <1>1, <2>6 DEF PassInv, Commanded, PassedCommands
    <2> QED
      BY <2>5, <2>7, <2>8, <2>9, <2>12, <2>13 DEF PassInv
  <1> QED
    BY <1>1, <1>3, <1>4

\* A crash inside begin_node leaves a node ahead of the work state on disk: overtaken.
LEMMA CrashKeeps ==
  ASSUME Types, PassInv, NEW a \in Agents, CrashInBegin(a)
  PROVE  Types' /\ PassInv'
  <1> DEFINE n == NextId
  <1>1. /\ n \in NodeIds /\ nodes' = Append(nodes, [id |-> n, status |-> "Running", retry |-> 0])
        /\ cur' = n /\ n \in overtaken'
        /\ op' = RestartOps /\ gate' = Nobody /\ pending' = NoRoute /\ ws' = saved /\ saved' = saved
        /\ UNCHANGED <<session, rust, commanded>>
    BY DEF CrashInBegin, NoCapture
  <1> HIDE DEF n
  <1>2. nodes' \in Seq(Node)
    BY <1>1, AppendType DEF Types, SharedTypes
  <1>3. NoRoute \in Route
    BY DEF NoRoute, Route
  <1>4. Types'
    BY <1>1, <1>2, <1>3, RestartOpsAre DEF Types, SharedTypes
  <1>5. \A b \in Actors : Fits(b, op'[b])
    <2> SUFFICES ASSUME NEW b \in Actors PROVE Fits(b, op'[b])
      OBVIOUS
    <2>1. Fits(b, Idle)
      BY IdleFits
    <2>2. Fits(b, At("done"))
      BY PlainFits, ToolsArePlain
    <2> QED
      BY <1>1, <2>1, <2>2, RestartOpsAre
  <1>6. Quiet
    BY <1>1, <1>5 DEF Quiet
  <1>7. Settled' /\ From(ws') /\ From(saved')
    BY <1>1 DEF Settled, Earned, From, SameResults
  <1> QED
    BY <1>1, <1>4, <1>6, <1>7, SettledKeeps

\* rollback_node goes back to a node that has earned its mark, or to none.
LEMMA RollbackKeeps ==
  ASSUME Types, PassInv, VerifiedWasProven, NEW a \in Agents, rollback_node(a)
  PROVE  Types' /\ PassInv'
  <1>1. /\ Anchors # {} /\ Goto(a, Idle) /\ ws' = RolledBack /\ saved' = saved
        /\ UNCHANGED <<session, rust, gate, pending, proven, commanded, overtaken>>
    BY DEF rollback_node, NoCapture
  <1>2. nodes \in Seq(Node) /\ ws \in WorkState /\ saved \in WorkState /\ a \in Actors
    BY DEF Types, SharedTypes, Actors
  <1>3. /\ Anchor \in DOMAIN nodes /\ nodes[Anchor].status \in {"Verified", "Failed"}
        /\ Anchor \in 1 .. Len(nodes) /\ nodes[Anchor] \in Node
    BY <1>1, <1>2, AnchorIs
  <1>4. \/ nodes' = SubSeq(nodes, 1, Anchor - 1) /\ cur' = NoNode
        \/ /\ nodes' = SubSeq(nodes, 1, Anchor) /\ cur' = nodes[Anchor].id
           /\ nodes[Anchor].status = "Verified"
    BY <1>3 DEF rollback_node
  <1>5. nodes' \in Seq(Node)
    <2>1. SubSeq(nodes, 1, Anchor - 1) \in Seq(Node)
      BY <1>2, <1>3
    <2>2. SubSeq(nodes, 1, Anchor) \in Seq(Node)
      BY <1>2, <1>3
    <2> QED
      BY <1>4, <2>1, <2>2
  <1>6. cur' \in {NoNode} \cup NodeIds
    BY <1>3, <1>4 DEF Node
  <1>7. Settled'
    BY <1>1, <1>3, <1>4 DEF Settled, VerifiedWasProven, Earned
  <1>8. RolledBack \in WorkState /\ SameJudgement(saved, RolledBack)
    BY <1>2, RolledBackType
  <1>9. SharedTypes'
    BY <1>1, <1>5, <1>6, <1>8 DEF Types, SharedTypes
  <1>10. Quiet /\ op' \in [Actors -> Operation]
    BY <1>1, <1>2, IdleFits, ReleaseMoves, GotoQuiet
  <1>11. From(ws') /\ From(saved')
    BY <1>1, <1>8 DEF From, SameJudgement, SameResults
  <1> QED
    BY <1>1, <1>7, <1>9, <1>10, <1>11, SettledKeeps DEF Types

-----------------------------------------------------------------------------
(* The inductive invariant                                                 *)

\* The invariant VerifiedWasProven needs.
JudgedInv == Types /\ PassInv /\ VerifiedWasProven

\* It holds initially.
LEMMA JudgedInit == Init => JudgedInv
  <1> SUFFICES ASSUME Init PROVE JudgedInv
    OBVIOUS
  <1>1. \A a \in Actors : op[a] = Idle
    BY DEF Init
  <1>2. Idle \in Operation /\ Idle.pc = "idle"
    BY OperationType DEF Idle
  <1>3. NoRoute \in Route
    BY DEF NoRoute, Route
  <1>4. Types
    BY <1>2, <1>3, Constants DEF Init, Types, SharedTypes
  <1>5. GateHeld /\ Named /\ OwnResults
    BY <1>1, <1>2 DEF GateHeld, Named, OwnResults, Judging
  <1>6. /\ ws.compile = NoResult /\ ws.test = NoResult /\ ws.verify = NoResult
        /\ saved.compile = NoResult /\ saved.test = NoResult /\ saved.verify = NoResult
    BY DEF Init, DefaultWorkState
  <1>7. OneMode /\ ResultsOfOnePass
    BY <1>1, <1>2, <1>6 DEF OneMode, Judging, Legacy, ResultsOfOnePass, OnePass, Agree
  <1>10. Commanded
    BY <1>1, <1>2 DEF Commanded, PassedCommands
  <1>8. Unsettled
    BY DEF Init, Unsettled, Settled, Earned
  <1>9. VerifiedWasProven
    BY DEF Init, VerifiedWasProven, Earned
  <1> QED
    BY <1>4, <1>5, <1>7, <1>8, <1>9, <1>10 DEF JudgedInv, PassInv

\* One step of the system, by what it may change of the nodes and the results.
LEMMA StepIs ==
  ASSUME Next
  PROVE  \/ \E a \in Agents, tool \in Tools : execute_with_context(a, tool)
         \/ \E a \in Agents : Proceed(a)
         \/ \E a \in Actors : Settle(a)
         \/ \E a \in Agents \cup {Daemon} : Launch(a)
         \/ prepare_recovered_root_cause_dispatch
         \/ \E c \in Children : record_specialist_report(c) \/ ChildEnds(c)
         \/ \E verdict \in Verdicts : record_human_review(verdict)
         \/ \E a \in Agents : Drop(a) \/ CrashInBegin(a)
         \/ \E a \in Agents \cup {Daemon} : DropLaunch(a)
         \/ \E c \in Children : AbortChild(c)
         \/ Restart
  BY DEF Next, Faults

\* A calm step keeps it.
LEMMA CalmKeeps ==
  ASSUME PassInv, Calm
  PROVE  Types' /\ PassInv'
  BY QuietKeeps DEF Calm

\* A step inside an operation keeps it.
LEMMA ProceedKeeps ==
  ASSUME JudgedInv, NEW a \in Agents, Proceed(a)
  PROVE  Types' /\ PassInv'
  <1> USE DEF JudgedInv
  <1>1. ASSUME NEW r \in Requests, BeginNode(a, r)
        PROVE  Types' /\ PassInv'
    BY <1>1, BeginKeeps
  <1>2. CASE verify_current_node(a)
    BY <1>2, VerifyCalm, CalmKeeps
  <1>3. CASE run_decomposed_units(a)
    BY <1>3, RunUnitsCalm, CalmKeeps
  <1>4. CASE RouteParent(a)
    BY <1>4, RouteParentCalm, CalmKeeps
  <1>5. ASSUME NEW used \in 0 .. AutoRetryMax, NEW ok \in BOOLEAN, RunUnit(a, used, ok)
        PROVE  Types' /\ PassInv'
    <2>1. used \in Nat /\ GateHeld
      BY RetryAssumption DEF PassInv
    <2> QED
      BY <2>1, <1>5, RunUnitCalm, CalmKeeps
  <1>6. CASE prepare_work_graph_pass(a)
    BY <1>6, PrepareKeeps
  <1>7. ASSUME NEW why \in {"passed", "failed", "boundary"}, record_compile_result(a, why)
        PROVE  Types' /\ PassInv'
    <2>1. op[a].pc = "compile" /\ RecordResult(a, "compile", why) /\ proven' = proven
      BY <1>7 DEF record_compile_result
    <2> QED
      BY <2>1, RecordKeeps DEF Judging
  <1>8. ASSUME NEW why \in {"passed", "failed", "boundary"}, record_test_result(a, why)
        PROVE  Types' /\ PassInv'
    <2>1. op[a].pc = "test" /\ RecordResult(a, "test", why) /\ proven' = proven
      BY <1>8 DEF record_test_result
    <2> QED
      BY <2>1, RecordKeeps DEF Judging
  <1>9. ASSUME NEW why \in {"passed", "failed", "boundary"}, record_verify_result(a, why)
        PROVE  Types' /\ PassInv'
    <2>1. op[a].pc = "final" /\ RecordResult(a, "verify", why) /\ Prove(ws')
      BY <1>9 DEF record_verify_result
    <2>2. proven \subseteq proven'
      BY <2>1 DEF Prove
    <2> QED
      BY <2>1, <2>2, RecordKeeps DEF Judging
  <1>10. ASSUME NEW why \in {"passed", "failed", "boundary"}, verify_and_complete(a, why)
         PROVE  Types' /\ PassInv'
    BY <1>10, LegacyVerdictCalm, CalmKeeps
  <1>11. CASE LegacyRead(a)
    BY <1>11, LegacyReadCalm, CalmKeeps
  <1>12. CASE LegacyVerifying(a)
    BY <1>12, LegacyVerifyingCalm, CalmKeeps
  <1>13. CASE LegacyFinish(a)
    BY <1>13, LegacyFinishCalm, CalmKeeps
  <1>14. CASE rollback_node(a)
    BY <1>14, RollbackKeeps
  <1>15. CASE RollbackRefused(a)
    BY <1>15, RefusedCalm, CalmKeeps
  <1>16. ASSUME NEW count \in UnitCounts, decompose_node(a, count)
         PROVE  Types' /\ PassInv'
    BY <1>16, DecomposeCalm, CalmKeeps
  <1>17. CASE prepare_root_cause_dispatch(a)
    BY <1>17, DispatchCalm, CalmKeeps
  <1> QED
    BY <1>1, <1>2, <1>3, <1>4, <1>5, <1>6, <1>7, <1>8, <1>9, <1>10, <1>11, <1>12, <1>13, <1>14,
       <1>15, <1>16, <1>17 DEF Proceed

\* Every step keeps the pass invariant.
LEMMA PassStep ==
  ASSUME JudgedInv, Next
  PROVE  Types' /\ PassInv'
  <1> USE DEF JudgedInv
  <1>1. ASSUME NEW a \in Agents, NEW tool \in Tools, execute_with_context(a, tool)
        PROVE  Types' /\ PassInv'
    BY <1>1, AdmissionCalm, CalmKeeps
  <1>2. ASSUME NEW a \in Actors, Settle(a)
        PROVE  Types' /\ PassInv'
    <2>1. CASE mark_completed(a)
      BY <2>1, CompletedCalm, CalmKeeps
    <2>2. CASE MarkVerified(a)
      BY <2>2, MarkVerifiedCalm, CalmKeeps
    <2>3. CASE mark_failed(a)
      BY <2>3, FailedCalm, CalmKeeps
    <2>4. CASE MarkFailed(a)
      BY <2>4, MarkFailedCalm, CalmKeeps
    <2>5. CASE MarkFailedAgain(a)
      BY <2>5, MarkFailedAgainCalm, CalmKeeps
    <2>6. CASE LockError(a)
      BY <2>6, LockErrorCalm, CalmKeeps
    <2> QED
      BY <1>2, <2>1, <2>2, <2>3, <2>4, <2>5, <2>6 DEF Settle
  <1>3. ASSUME NEW a \in Agents \cup {Daemon}, Launch(a)
        PROVE  Types' /\ PassInv'
    <2>1. ASSUME NEW c \in Children, try_bind_root_cause_child(a, c)
          PROVE  Types' /\ PassInv'
      BY <2>1, BindCalm, CalmKeeps
    <2>2. CASE cancel_root_cause_dispatch(a)
      BY <2>2, CancelDispatchCalm, CalmKeeps
    <2> QED
      BY <1>3, <2>1, <2>2 DEF Launch
  <1>4. CASE prepare_recovered_root_cause_dispatch
    BY <1>4, RecoveredCalm, CalmKeeps
  <1>5. ASSUME NEW c \in Children, record_specialist_report(c)
        PROVE  Types' /\ PassInv'
    BY <1>5, ReportCalm, CalmKeeps
  <1>6. ASSUME NEW c \in Children, ChildEnds(c)
        PROVE  Types' /\ PassInv'
    BY <1>6, ChildEndsCalm, CalmKeeps DEF ChildEnds
  <1>7. ASSUME NEW verdict \in Verdicts, record_human_review(verdict)
        PROVE  Types' /\ PassInv'
    BY <1>7, ReviewCalm, CalmKeeps
  <1>8. ASSUME NEW a \in Agents, Drop(a)
        PROVE  Types' /\ PassInv'
    BY <1>8, DropCalm, CalmKeeps
  <1>9. ASSUME NEW a \in Agents, CrashInBegin(a)
        PROVE  Types' /\ PassInv'
    BY <1>9, CrashKeeps
  <1>10. ASSUME NEW a \in Agents \cup {Daemon}, DropLaunch(a)
         PROVE  Types' /\ PassInv'
    BY <1>10, DropLaunchCalm, CalmKeeps
  <1>11. ASSUME NEW c \in Children, AbortChild(c)
         PROVE  Types' /\ PassInv'
    BY <1>11, AbortCalm, CalmKeeps
  <1>12. CASE Restart
    BY <1>12, RestartCalm, CalmKeeps
  <1> QED
    BY <1>1, <1>2, <1>3, <1>4, <1>5, <1>6, <1>7, <1>8, <1>9, <1>10, <1>11, <1>12, ProceedKeeps,
       StepIs

-----------------------------------------------------------------------------
(* A node marked Verified is proven                                        *)

\* No status is written.
LEMMA SameNodesVerified ==
  ASSUME VerifiedWasProven, nodes' = nodes, Earned \subseteq Earned'
  PROVE  VerifiedWasProven'
  BY DEF VerifiedWasProven

\* A node marked Verified is settled.
LEMMA StatusVerified ==
  ASSUME VerifiedWasProven, nodes \in Seq(Node), NEW id, NEW status \in Statuses,
         nodes' = WithStatus(id, status), Earned' = Earned,
         status = "Verified" => id \in Earned
  PROVE  VerifiedWasProven'
  BY StatusType DEF VerifiedWasProven

\* A new node is not Verified.
LEMMA AppendVerified ==
  ASSUME VerifiedWasProven, nodes \in Seq(Node), NEW n \in NodeIds,
         nodes' = Append(nodes, [id |-> n, status |-> "Running", retry |-> 0]),
         Earned \subseteq Earned'
  PROVE  VerifiedWasProven'
  <1>1. /\ DOMAIN nodes' = 1 .. Len(nodes) + 1 /\ DOMAIN nodes = 1 .. Len(nodes) /\ Len(nodes) \in Nat
        /\ \A i \in DOMAIN nodes : nodes'[i] = nodes[i]
        /\ nodes'[Len(nodes) + 1].status = "Running"
    BY AppendType
  <1>2. \A i \in DOMAIN nodes' : i \in DOMAIN nodes \/ i = Len(nodes) + 1
    BY <1>1
  <1> QED
    BY <1>1, <1>2 DEF VerifiedWasProven

\* Without anchors the node marked is the one whose own commands have passed, whichever
\* is current by then.
LEMMA LegacyVerified ==
  ASSUME JudgedInv, NEW a \in Agents, LegacyFinish(a)
  PROVE  VerifiedWasProven'
  <1> DEFINE n == op[a].node
             ok == op[a].why = "passed"
  <1>0. a \in Actors /\ op[a].pc = "legacyend"
    BY DEF LegacyFinish, Actors
  <1>1. nodes' = Counted(n, ok) /\ Earned' = Earned
    BY DEF LegacyFinish, Counted, Earned
  <1>4. ok => n \in Earned
    BY <1>0 DEF JudgedInv, PassInv, OneMode, Legacy, Commanded, PassedCommands, Earned
  <1>2. ok \in BOOLEAN /\ nodes \in Seq(Node)
    BY DEF JudgedInv, Types, SharedTypes
  <1> HIDE DEF ok, n
  <1>3. /\ DOMAIN nodes' = DOMAIN nodes
        /\ \A i \in DOMAIN nodes :
             /\ nodes'[i].id = nodes[i].id
             /\ nodes'[i].status = IF nodes[i].id = n THEN IF ok THEN "Verified" ELSE "Failed"
                                   ELSE nodes[i].status
    BY <1>1, <1>2, CountedType
  <1> QED
    BY <1>1, <1>3, <1>4 DEF JudgedInv, VerifiedWasProven

\* rollback_node only removes nodes.
LEMMA RollbackVerified ==
  ASSUME JudgedInv, NEW a \in Agents, rollback_node(a)
  PROVE  VerifiedWasProven'
  <1>1. Anchors # {} /\ Earned' = Earned /\ nodes \in Seq(Node)
    BY DEF rollback_node, JudgedInv, Types, SharedTypes, Earned
  <1>2. Anchor \in 1 .. Len(nodes) /\ Len(nodes) \in Nat
    BY <1>1, AnchorIs
  <1>3. PICK m \in {Anchor - 1, Anchor} : nodes' = SubSeq(nodes, 1, m)
    BY DEF rollback_node
  <1>4. m \in 0 .. Len(nodes)
    BY <1>2
  <1>5. DOMAIN nodes' = 1 .. m /\ \A i \in 1 .. m : nodes'[i] = nodes[i] /\ i \in DOMAIN nodes
    BY <1>1, <1>2, <1>3, <1>4
  <1> QED
    BY <1>1, <1>5 DEF JudgedInv, VerifiedWasProven

\* A step inside an operation marks no node that has not earned it.
LEMMA ProceedVerified ==
  ASSUME JudgedInv, NEW a \in Agents, Proceed(a)
  PROVE  VerifiedWasProven'
  <1>0. VerifiedWasProven /\ nodes \in Seq(Node)
    BY DEF JudgedInv, Types, SharedTypes
  <1>1. ASSUME NEW r \in Requests, BeginNode(a, r)
        PROVE  VerifiedWasProven'
    <2>1. CASE UNCHANGED <<nodes, overtaken>>
      BY <2>1, <1>0, <1>1, SameNodesVerified DEF BeginNode, Earned
    <2>2. CASE NextId \in NodeIds /\ AddNode(NextId)
      <3>1. /\ nodes' = Append(nodes, [id |-> NextId, status |-> "Running", retry |-> 0])
            /\ overtaken \subseteq overtaken'
        BY <2>2 DEF AddNode
      <3>2. Earned \subseteq Earned'
        BY <1>1, <3>1 DEF BeginNode, Earned
      <3> QED
        BY <3>1, <3>2, <2>2, <1>0, AppendVerified
    <2> QED
      BY <1>1, <2>1, <2>2 DEF BeginNode
  <1>2. CASE \/ verify_current_node(a) \/ run_decomposed_units(a) \/ RouteParent(a)
             \/ prepare_work_graph_pass(a) \/ LegacyRead(a) \/ RollbackRefused(a)
             \/ prepare_root_cause_dispatch(a)
    <2>1. nodes' = nodes /\ Earned' = Earned
      BY <1>2 DEF Earned, verify_current_node, run_decomposed_units, RouteParent, prepare_work_graph_pass,
                  LegacyRead, RollbackRefused, prepare_root_cause_dispatch, session_vars
    <2> QED
      BY <1>0, <2>1, SameNodesVerified
  <1>3. ASSUME NEW used, NEW ok, RunUnit(a, used, ok)
        PROVE  VerifiedWasProven'
    BY <1>0, <1>3, SameNodesVerified DEF RunUnit, session_vars, Earned
  <1>4. ASSUME NEW why, \/ record_compile_result(a, why) \/ record_test_result(a, why)
                        \/ record_verify_result(a, why)
        PROVE  VerifiedWasProven'
    <2>1. UNCHANGED <<nodes, rust, commanded, overtaken>>
      BY <1>4 DEF record_compile_result, record_test_result, record_verify_result, RecordResult,
                  session_vars
    <2>2. proven \subseteq proven'
      BY <1>4 DEF record_compile_result, record_test_result, record_verify_result, Prove
    <2>3. Earned \subseteq Earned'
      BY <2>1, <2>2 DEF Earned
    <2> QED
      BY <1>0, <2>1, <2>3, SameNodesVerified
  <1>5. ASSUME NEW why, verify_and_complete(a, why)
        PROVE  VerifiedWasProven'
    BY <1>0, <1>5, SameNodesVerified DEF verify_and_complete, Earned
  <1>6. CASE LegacyVerifying(a)
    BY <1>0, <1>6, StatusVerified DEF LegacyVerifying, Statuses, Earned
  <1>7. ASSUME NEW count, decompose_node(a, count)
        PROVE  VerifiedWasProven'
    BY <1>0, <1>7, SameNodesVerified DEF decompose_node, session_vars, Earned
  <1> QED
    BY <1>1, <1>2, <1>3, <1>4, <1>5, <1>6, <1>7, LegacyVerified, RollbackVerified DEF Proceed

\* Nor does any step.
LEMMA VerifiedStep ==
  ASSUME JudgedInv, Next
  PROVE  VerifiedWasProven'
  <1>0. VerifiedWasProven /\ nodes \in Seq(Node) /\ Types /\ PassInv
    BY DEF JudgedInv, Types, SharedTypes
  <1>1. CASE \/ \E a \in Agents, tool \in Tools : execute_with_context(a, tool)
             \/ \E a \in Agents \cup {Daemon} : Launch(a) \/ DropLaunch(a)
             \/ prepare_recovered_root_cause_dispatch
             \/ \E c \in Children : record_specialist_report(c) \/ ChildEnds(c) \/ AbortChild(c)
             \/ \E a \in Agents : Drop(a)
             \/ Restart
    <2>1. nodes' = nodes /\ Earned' = Earned
      BY <1>1 DEF Earned, execute_with_context, Launch, try_bind_root_cause_child,
                  cancel_root_cause_dispatch, DropLaunch, prepare_recovered_root_cause_dispatch,
                  record_specialist_report, ChildEnds, resolve_root_cause_child_terminal,
                  AbortChild, Drop, Restart, session_vars
    <2> QED
      BY <1>0, <2>1, SameNodesVerified
  <1>2. ASSUME NEW verdict, record_human_review(verdict)
        PROVE  VerifiedWasProven'
    BY <1>0, <1>2, SameNodesVerified DEF record_human_review, Prove, session_vars, Earned
  <1>3. ASSUME NEW a \in Agents, CrashInBegin(a)
        PROVE  VerifiedWasProven'
    <2>1. /\ NextId \in NodeIds /\ Earned \subseteq Earned'
          /\ nodes' = Append(nodes, [id |-> NextId, status |-> "Running", retry |-> 0])
      BY <1>3 DEF CrashInBegin, Earned
    <2> QED
      BY <1>0, <2>1, AppendVerified
  <1>4. ASSUME NEW a \in Actors, Settle(a)
        PROVE  VerifiedWasProven'
    <2>1. CASE mark_completed(a) \/ mark_failed(a) \/ LockError(a)
      <3>1. nodes' = nodes /\ Earned' = Earned
        BY <2>1 DEF mark_completed, mark_failed, LockError, session_vars, Earned
      <3> QED
        BY <1>0, <3>1, SameNodesVerified
    <2>2. CASE MarkVerified(a)
      <3>1. /\ op[a].pc = "marking" /\ Earned' = Earned
            /\ nodes' = nodes \/ (HasCurrent /\ nodes' = WithStatus(cur, "Verified"))
        BY <2>2 DEF MarkVerified, Earned
      <3>2. Settled
        BY <1>0, <3>1, VerdictSettled
      <3>3. HasCurrent => cur \in Earned
        BY <1>0, <3>2, CurrentIsNode, Constants DEF Settled
      <3> QED
        BY <1>0, <3>1, <3>3, StatusVerified, SameNodesVerified DEF Statuses
    <2>3. CASE MarkFailed(a) \/ MarkFailedAgain(a)
      <3>1. /\ Earned' = Earned
            /\ nodes' = nodes \/ nodes' = WithStatus(cur, "Failed")
        BY <2>3 DEF MarkFailed, MarkFailedAgain, Earned
      <3> QED
        BY <1>0, <3>1, StatusVerified, SameNodesVerified DEF Statuses
    <2> QED
      BY <1>4, <2>1, <2>2, <2>3 DEF Settle
  <1> QED
    BY <1>1, <1>2, <1>3, <1>4, ProceedVerified, StepIs

\* With the Rust profile no node is marked Verified that its anchors, and the reviewer its
\* plan asks for, have not passed in one attempt; without it none whose verify commands
\* have not passed; except those begun while another verdict was on its way.  Whatever
\* the agents, the specialists and the reviewer interleave, whoever is cancelled, and
\* wherever the daemon restarts.
THEOREM VerifiedTheorem == Spec => []VerifiedWasProven
  <1>1. Init => JudgedInv
    BY JudgedInit
  <1>2. JudgedInv /\ [Next]_vars => JudgedInv'
    <2> SUFFICES ASSUME JudgedInv, [Next]_vars PROVE JudgedInv'
      OBVIOUS
    <2>1. CASE Next
      BY <2>1, PassStep, VerifiedStep DEF JudgedInv
    <2>2. CASE UNCHANGED vars
      BY <2>2 DEF vars, JudgedInv, Types, SharedTypes, PassInv, GateHeld, OneMode, Commanded,
                  Named, OwnResults, ResultsOfOnePass, Unsettled, Settled, VerifiedWasProven, Earned
    <2> QED
      BY <2>1, <2>2
  <1>3. JudgedInv => VerifiedWasProven
    BY DEF JudgedInv
  <1> QED
    BY <1>1, <1>2, <1>3, PTL DEF Spec

-----------------------------------------------------------------------------
(* The iterations of a node and its units                                  *)

\* The largest budget the router grants, and the last plan revision.
MaxLeft == AutoRetryMax + 1
MaxRevision == 1 + MAX_PLAN_ADAPTATIONS

\* Neither budgets nor plans nor decompositions leave their bounds.
Bounded(w) ==
  /\ w.budget.left <= MaxLeft /\ w.before.left <= MaxLeft
  /\ Len(w.units) <= MAX_DECOMPOSE_UNITS
  /\ w.plan.revision <= MaxRevision

\* The units of one decomposition are given equal shares.
EqualShares(w) == \A i, k \in DOMAIN w.units : w.units[i].allocation = w.units[k].allocation

\* The part of the invariant about iterations.
AccountOK(w) == Bounded(w) /\ EqualShares(w)

\* v has no more to spend than w, on the same units.
Charged(w, v) ==
  /\ v.units = w.units /\ v.before = w.before
  /\ Remaining(v) <= Remaining(w) /\ v.budget.left <= MaxLeft
  /\ v.plan.revision <= MaxRevision

\* Nothing is spent.
SameAccount(w, v) ==
  v.units = w.units /\ v.before = w.before /\ v.budget = w.budget /\ v.plan = w.plan

\* Units still to run, and what they hold.
Open(w) == {i \in 1 .. Len(w.units) : w.units[i].outcome = "none"}

Reserved(w) ==
  IF Open(w) = {} THEN 0 ELSE Cardinality(Open(w)) * w.units[CHOOSE i \in Open(w) : TRUE].allocation

\* What may be spent is what the parent has left and what the open units hold.
LEMMA SpendableIs ==
  ASSUME NEW w
  PROVE  Spendable(w) = Remaining(w) + Reserved(w)
  BY DEF Spendable, Reserved, Open

\* The open units are finitely many.
LEMMA OpenIs ==
  ASSUME NEW w \in WorkState
  PROVE  /\ IsFiniteSet(Open(w)) /\ Cardinality(Open(w)) \in Nat
         /\ Open(w) \subseteq DOMAIN w.units
         /\ DOMAIN w.units = 1 .. Len(w.units) /\ Len(w.units) \in Nat
         /\ \A i \in DOMAIN w.units : w.units[i] \in Unit /\ w.units[i].allocation \in Nat
  <1>1. w.units \in Seq(Unit)
    BY DEF WorkState
  <1>2. DOMAIN w.units = 1 .. Len(w.units) /\ Len(w.units) \in Nat
    BY <1>1
  <1>3. \A i \in DOMAIN w.units : w.units[i] \in Unit
    BY <1>1
  <1>4. IsFiniteSet(1 .. Len(w.units))
    BY <1>2, FS_Interval
  <1>5. Open(w) \subseteq 1 .. Len(w.units)
    BY DEF Open
  <1>6. IsFiniteSet(Open(w)) /\ Cardinality(Open(w)) \in Nat
    BY <1>4, <1>5, FS_Subset, FS_CardinalityType
  <1> QED
    BY <1>2, <1>3, <1>5, <1>6 DEF Unit

\* What the open units hold is their number times the common share.
LEMMA ReservedIs ==
  ASSUME NEW w \in WorkState, EqualShares(w), NEW i \in Open(w)
  PROVE  Reserved(w) = Cardinality(Open(w)) * w.units[i].allocation
  <1>1. (CHOOSE k \in Open(w) : TRUE) \in Open(w)
    OBVIOUS
  <1>2. w.units[CHOOSE k \in Open(w) : TRUE].allocation = w.units[i].allocation
    BY <1>1, OpenIs DEF EqualShares
  <1>3. Open(w) # {}
    OBVIOUS
  <1> QED
    BY <1>2, <1>3 DEF Reserved

\* What they hold is a number.
LEMMA ReservedType ==
  ASSUME NEW w \in WorkState
  PROVE  Reserved(w) \in Nat
  <1>1. CASE Open(w) = {}
    BY <1>1 DEF Reserved
  <1>2. CASE Open(w) # {}
    <2> DEFINE c == CHOOSE k \in Open(w) : TRUE
    <2>1. c \in Open(w)
      BY <1>2
    <2>2. w.units[c].allocation \in Nat /\ Cardinality(Open(w)) \in Nat
      BY <2>1, OpenIs
    <2>3. Reserved(w) = Cardinality(Open(w)) * w.units[c].allocation
      BY <1>2 DEF Reserved
    <2> HIDE DEF c
    <2> QED
      BY <2>2, <2>3
  <1> QED
    BY <1>1, <1>2

\* Fewer units hold no more.
LEMMA ProductGrows ==
  ASSUME NEW m \in Nat, NEW n \in Nat, NEW k \in Nat, m <= n
  PROVE  m * k <= n * k
  <1>1. n = m + (n - m) /\ n - m \in Nat
    OBVIOUS
  <1>2. PICK d \in Nat : n = m + d
    BY <1>1
  <1>3. n * k = m * k + d * k /\ d * k \in Nat /\ m * k \in Nat
    BY <1>2
  <1> QED
    BY <1>3

\* A charge lets nothing grow.
LEMMA ChargedOK ==
  ASSUME NEW w \in WorkState, NEW v \in WorkState, AccountOK(w), Charged(w, v)
  PROVE  AccountOK(v) /\ Spendable(v) <= Spendable(w)
  <1>1. Open(v) = Open(w) /\ Reserved(v) = Reserved(w)
    BY DEF Charged, Open, Reserved
  <1>2. Reserved(w) \in Nat /\ Remaining(w) \in Nat /\ Remaining(v) \in Nat
    BY ReservedType, RemainingType
  <1>3. Remaining(v) + Reserved(v) <= Remaining(w) + Reserved(w)
    BY <1>1, <1>2 DEF Charged
  <1>4. AccountOK(v)
    BY DEF AccountOK, Bounded, EqualShares, Charged
  <1> QED
    BY <1>3, <1>4, SpendableIs

\* Spending nothing is a charge.
LEMMA SameCharged ==
  ASSUME NEW w \in WorkState, NEW v \in WorkState, AccountOK(w), SameAccount(w, v)
  PROVE  Charged(w, v)
  <1>1. Remaining(w) \in Nat
    BY RemainingType
  <1>2. Remaining(v) = Remaining(w)
    BY DEF SameAccount, Remaining
  <1> QED
    BY <1>1, <1>2 DEF SameAccount, Charged, AccountOK, Bounded

\* A unit that has run holds nothing any more.
LEMMA UnitRunOK ==
  ASSUME NEW w \in WorkState, AccountOK(w), NEW i \in DOMAIN w.units,
         NEW outcome \in {"passed", "failed"}, NEW v,
         v = [w EXCEPT !.units[i].outcome = outcome]
  PROVE  AccountOK(v) /\ Spendable(v) <= Spendable(w)
  <1>1. v \in WorkState
    BY UnitType
  <1>2. w.units \in Seq(Unit) /\ DOMAIN w.units = 1 .. Len(w.units) /\ Len(w.units) \in Nat
    BY OpenIs DEF WorkState
  <1>3. v.units = [w.units EXCEPT ![i].outcome = outcome]
    BY DEF WorkState
  <1>4. v.budget = w.budget /\ v.before = w.before /\ v.plan = w.plan
    BY DEF WorkState
  <1>5. Len(v.units) = Len(w.units) /\ DOMAIN v.units = DOMAIN w.units
    BY <1>2, <1>3
  <1>6. \A k \in DOMAIN w.units : w.units[k] \in Unit
    BY <1>2
  <1>7. \A k \in DOMAIN w.units : /\ v.units[k].allocation = w.units[k].allocation
                                  /\ k # i => v.units[k].outcome = w.units[k].outcome
    BY <1>3, <1>6 DEF Unit
  <1>8. v.units[i].outcome # "none"
    BY <1>3, <1>6 DEF Unit
  <1>9. Open(v) \subseteq Open(w)
    BY <1>2, <1>5, <1>7, <1>8 DEF Open
  <1>10. AccountOK(v)
    BY <1>4, <1>5, <1>7 DEF AccountOK, Bounded, EqualShares
  <1>11. Reserved(v) <= Reserved(w)
    <2>1. CASE Open(v) = {}
      <3>1. Reserved(v) = 0 /\ Reserved(w) \in Nat
        BY <2>1, ReservedType DEF Reserved
      <3> QED
        BY <3>1
    <2>2. CASE Open(v) # {}
      <3>1. PICK k \in Open(v) : TRUE
        BY <2>2
      <3>2. k \in Open(w) /\ k \in DOMAIN w.units
        BY <3>1, <1>9, OpenIs
      <3>3. Cardinality(Open(v)) <= Cardinality(Open(w))
        BY <1>9, OpenIs, FS_Subset
      <3>4. Cardinality(Open(v)) \in Nat /\ Cardinality(Open(w)) \in Nat
        BY <1>1, OpenIs
      <3>5. w.units[k].allocation \in Nat /\ v.units[k].allocation = w.units[k].allocation
        BY <3>2, <1>7, OpenIs
      <3>6. Reserved(v) = Cardinality(Open(v)) * v.units[k].allocation
        BY <1>1, <1>10, <3>1, ReservedIs DEF AccountOK
      <3>7. Reserved(w) = Cardinality(Open(w)) * w.units[k].allocation
        BY <3>2, ReservedIs DEF AccountOK
      <3> QED
        BY <3>3, <3>4, <3>5, <3>6, <3>7, ProductGrows
    <2> QED
      BY <2>1, <2>2
  <1>12. Remaining(v) = Remaining(w) /\ Remaining(w) \in Nat /\ Reserved(v) \in Nat /\ Reserved(w) \in Nat
    BY <1>1, <1>4, RemainingType, ReservedType DEF Remaining
  <1>13. Remaining(v) + Reserved(v) <= Remaining(w) + Reserved(w)
    BY <1>11, <1>12
  <1> QED
    BY <1>10, <1>13, SpendableIs

\* decompose_node lends its units what it takes from the parent, and no more.
LEMMA SplitOK ==
  ASSUME NEW w \in WorkState, AccountOK(w), NEW count \in Nat \ {0}, count <= MAX_DECOMPOSE_UNITS,
         Remaining(w) > 0, Affordable(Remaining(w), count), NEW v \in WorkState,
         v.before = Budget(Remaining(w)), v.budget = Budget(Retained(Remaining(w), count)),
         v.plan = w.plan,
         v.units = [i \in 1 .. count |->
                      [allocation |-> child_max_iter(Remaining(w), count), outcome |-> "none"]]
  PROVE  AccountOK(v) /\ Spendable(v) <= Spendable(w)
  <1> DEFINE left == Remaining(w)
             c == child_max_iter(left, count)
  <1>1. left \in Nat
    BY RemainingType
  <1>2. left <= MaxLeft
    BY <1>1, RetryAssumption DEF Remaining, AccountOK, Bounded, MaxLeft
  <1>3. c \in Nat /\ Retained(left, count) \in Nat /\ Retained(left, count) = left - c * count
    BY <1>1, SplitType DEF Retained
  <1>4. v.units = [i \in 1 .. count |-> [allocation |-> c, outcome |-> "none"]]
    OBVIOUS
  <1>5. v.before = Budget(left) /\ v.budget = Budget(Retained(left, count))
    OBVIOUS
  <1> HIDE DEF left, c
  <1>6. Len(v.units) = count /\ DOMAIN v.units = 1 .. count
    <2>1. v.units \in Seq(Unit)
      BY DEF WorkState
    <2>2. DOMAIN v.units = 1 .. count
      BY <1>4
    <2> QED
      BY <2>1, <2>2
  <1>7. Open(v) = 1 .. count
    BY <1>4, <1>6 DEF Open
  <1>8. Cardinality(Open(v)) = count
    BY <1>7, FS_Interval
  <1>9. EqualShares(v)
    BY <1>4, <1>6 DEF EqualShares
  <1>10. Reserved(v) = count * c
    <2>1. 1 \in Open(v) /\ v.units[1].allocation = c
      BY <1>4, <1>7
    <2> QED
      BY <1>8, <1>9, <2>1, ReservedIs
  <1>11. Remaining(v) = Retained(left, count)
    BY <1>5 DEF Remaining, Budget
  <1>12. c * count = count * c /\ c * count \in Nat
    BY <1>3
  <1>13. Remaining(v) + Reserved(v) = left
    BY <1>1, <1>3, <1>10, <1>11, <1>12
  <1>14. Reserved(w) \in Nat
    BY ReservedType
  <1>15. Spendable(v) <= Spendable(w)
    BY <1>1, <1>13, <1>14, SpendableIs DEF left
  <1>16. Retained(left, count) <= left
    BY <1>1, <1>3, <1>12
  <1>17. v.budget.left <= MaxLeft /\ v.before.left <= MaxLeft
    BY <1>1, <1>2, <1>3, <1>5, <1>16, RetryAssumption DEF Budget, MaxLeft
  <1>18. AccountOK(v)
    BY <1>6, <1>9, <1>17 DEF AccountOK, Bounded
  <1> QED
    BY <1>15, <1>18

\* The audit spends nothing.
LEMMA NotedAccount ==
  ASSUME NEW w \in WorkState, NEW n, NEW k
  PROVE  SameAccount(w, Noted(w, n, k))
  BY DEF Noted, SameAccount, WorkState

\* Nor does noting a route.
LEMMA RoutedAccount ==
  ASSUME NEW w \in WorkState, NEW n, NEW k \in Nat, NEW step
  PROVE  SameAccount(w, Routed(w, n, k, step))
  <1> DEFINE v == Noted(w, n, k)
  <1>1. v \in WorkState /\ SameAccount(w, v)
    BY NotedType, NotedAccount
  <1>2. Routed(w, n, k, step) = IF step = "RootCause" THEN [v EXCEPT !.audit[n].rootCause = k] ELSE v
    BY DEF Routed
  <1> HIDE DEF v
  <1>3. SameAccount(v, [v EXCEPT !.audit[n].rootCause = k])
    BY <1>1 DEF SameAccount, WorkState
  <1> QED
    BY <1>1, <1>2, <1>3 DEF SameAccount

\* Nor does counting failures.
LEMMA StreakAccount ==
  ASSUME NEW w \in WorkState, NEW n, NEW ok
  PROVE  SameAccount(w, TestStreak(w, n, ok))
  BY DEF TestStreak, SameAccount, WorkState

\* consume_iteration_budget charges at most what is left.
LEMMA ConsumeCharged ==
  ASSUME NEW w \in WorkState, AccountOK(w)
  PROVE  Charged(w, consume_iteration_budget(w)) /\ consume_iteration_budget(w).plan = w.plan
  <1> DEFINE v == consume_iteration_budget(w)
             left == IF w.budget.left > 0 THEN w.budget.left - 1 ELSE 0
  <1>1. w.budget \in Budgets /\ w.budget.left \in Nat /\ w.budget.has \in BOOLEAN
    BY DEF WorkState, Budgets
  <1>2. left \in Nat /\ left <= w.budget.left
    BY <1>1
  <1>3. v = [w EXCEPT !.budget = [w.budget EXCEPT !.left = left]]
    BY DEF consume_iteration_budget
  <1> HIDE DEF left
  <1>4. /\ v.units = w.units /\ v.before = w.before /\ v.plan = w.plan
        /\ v.budget = [w.budget EXCEPT !.left = left]
    BY <1>3 DEF WorkState
  <1> HIDE DEF v
  <1>5. v.budget.has = w.budget.has /\ v.budget.left = left
    BY <1>1, <1>4 DEF Budgets
  <1>6. Remaining(v) <= Remaining(w)
    <2>1. CASE w.budget.has
      BY <2>1, <1>2, <1>5 DEF Remaining
    <2>2. CASE ~ w.budget.has
      BY <2>2, <1>5, RetryAssumption DEF Remaining
    <2> QED
      BY <2>1, <2>2
  <1>7. w.budget.left <= MaxLeft /\ MaxLeft \in Nat
    BY RetryAssumption DEF AccountOK, Bounded, MaxLeft
  <1>8. v.budget.left <= MaxLeft
    BY <1>1, <1>2, <1>5, <1>7
  <1> QED
    BY <1>4, <1>6, <1>8 DEF Charged, AccountOK, Bounded, v

\* Two charges are a charge.
LEMMA ChargedTwice ==
  ASSUME NEW u \in WorkState, NEW w \in WorkState, NEW v \in WorkState,
         Charged(u, w), SameAccount(w, v)
  PROVE  Charged(u, v)
  <1>1. Remaining(v) = Remaining(w)
    BY DEF Remaining, SameAccount
  <1> QED
    BY <1>1 DEF Charged, SameAccount

\* The account after the result of an anchor: at most one iteration is charged, and
\* the plan is revised only while revisions are left.
LEMMA RecordCharged ==
  ASSUME Types, Types', AccountOK(ws), NEW a \in Agents, op[a].pc \in Judging,
         NEW anchor \in {"compile", "test", "verify"}, NEW why \in {"passed", "failed", "boundary"},
         RecordResult(a, anchor, why)
  PROVE  Charged(ws, ws') /\ saved' \in {saved, ws'}
  <1> DEFINE n == op[a].node
             k == op[a].attempt
             r == Result(why, <<n, k>>)
             got == [ws EXCEPT ![anchor] = r]
             paid == IF why = "failed" THEN consume_iteration_budget(got) ELSE got
             counted == IF anchor = "test" THEN TestStreak(paid, n, why = "passed") ELSE paid
             seen == Noted(counted, n, k)
             change == IF anchor = "test" THEN adapt_work_graph(seen, n) ELSE "Unchanged"
             plan == IF change = "Splice" THEN apply_adaptation(seen) ELSE seen
             step == IF change = "Escalate" THEN "Escalate" ELSE next_step(plan)
             w == Routed(plan, n, k, step)
  <1>1. a \in Actors /\ op[a] \in Operation /\ ws \in WorkState /\ saved \in WorkState
    BY DEF Types, SharedTypes, Actors
  <1>2. n \in {NoNode} \cup NodeIds /\ k \in Nat
    BY <1>1 DEF Operation
  <1>3. <<n, k>> \in Passes
    BY <1>2 DEF Passes
  <1>4. r \in Results
    BY <1>3, ResultType
  <1>5. \/ ws' = got /\ saved' = saved
        \/ ws' = w /\ saved' = w
    BY DEF RecordResult, NoCapture, Capture
  <1>6. got \in WorkState
    BY <1>1, <1>4, StoredType
  <1> HIDE DEF n, k, r
  <1>7. SameAccount(ws, got)
    <2>1. CASE anchor = "compile"
      BY <2>1, <1>1 DEF WorkState, SameAccount
    <2>2. CASE anchor = "test"
      BY <2>2, <1>1 DEF WorkState, SameAccount
    <2>3. CASE anchor = "verify"
      BY <2>3, <1>1 DEF WorkState, SameAccount
    <2> QED
      BY <2>1, <2>2, <2>3
  <1> HIDE DEF got
  <1>8. Charged(ws, got) /\ AccountOK(got)
    BY <1>1, <1>6, <1>7, SameCharged, ChargedOK
  <1>9. paid \in WorkState /\ Charged(got, paid) /\ paid.plan = got.plan
    <2>1. /\ consume_iteration_budget(got) \in WorkState
          /\ Charged(got, consume_iteration_budget(got))
          /\ consume_iteration_budget(got).plan = got.plan
      BY <1>6, <1>8, ConsumeType, ConsumeCharged
    <2>2. Charged(got, got)
      BY <1>6, <1>8, SameCharged DEF SameAccount
    <2> QED
      BY <1>6, <2>1, <2>2
  <1> HIDE DEF paid
  <1>10. counted \in WorkState /\ SameAccount(paid, counted)
    <2>1. (why = "passed") \in BOOLEAN
      OBVIOUS
    <2>2. TestStreak(paid, n, why = "passed") \in WorkState
      BY <2>1, <1>9, StreakType
    <2>3. SameAccount(paid, TestStreak(paid, n, why = "passed"))
      BY <1>9, StreakAccount
    <2> QED
      BY <1>9, <2>2, <2>3 DEF SameAccount
  <1> HIDE DEF counted
  <1>11. seen \in WorkState /\ SameAccount(paid, seen)
    BY <1>2, <1>10, NotedType, NotedAccount DEF SameAccount
  <1> HIDE DEF seen
  <1>12. Charged(got, seen)
    BY <1>6, <1>9, <1>11, ChargedTwice
  <1>13. plan \in WorkState /\ Charged(got, plan)
    <2>1. CASE change # "Splice"
      BY <2>1, <1>11, <1>12
    <2>2. CASE change = "Splice"
      <3>1. ~ (seen.plan.revision - 1 >= MAX_PLAN_ADAPTATIONS)
        BY <2>2 DEF adapt_work_graph
      <3>2. seen.plan.revision \in Nat
        BY <1>11 DEF WorkState, Plans
      <3>3. seen.plan.revision + 1 <= MaxRevision
        BY <3>1, <3>2 DEF MaxRevision, MAX_PLAN_ADAPTATIONS
      <3>4. /\ plan = [seen EXCEPT !.plan = [seen.plan EXCEPT !.diagnose = TRUE, !.revision = @ + 1]]
        BY <2>2, <1>11 DEF apply_adaptation, WorkState
      <3> HIDE DEF plan
      <3>5. /\ plan.units = seen.units /\ plan.before = seen.before /\ plan.budget = seen.budget
            /\ plan.plan = [seen.plan EXCEPT !.diagnose = TRUE, !.revision = @ + 1]
        BY <3>4, <1>11 DEF WorkState
      <3>6. plan.plan.revision = seen.plan.revision + 1
        BY <3>5, <1>11 DEF WorkState, Plans
      <3>7. Remaining(plan) = Remaining(seen)
        BY <3>5 DEF Remaining
      <3>8. plan \in WorkState
        BY <2>2, <1>11, AdaptationType DEF plan
      <3> QED
        BY <1>12, <3>3, <3>5, <3>6, <3>7, <3>8 DEF Charged
    <2> QED
      BY <2>1, <2>2
  <1> HIDE DEF change, plan, step
  <1>14. w \in WorkState /\ SameAccount(plan, w)
    BY <1>2, <1>13, RoutedType, RoutedAccount
  <1> HIDE DEF w
  <1>15. Charged(got, w)
    BY <1>6, <1>13, <1>14, ChargedTwice
  <1>16. Charged(ws, w)
    <2>1. Remaining(got) = Remaining(ws)
      BY <1>7 DEF SameAccount, Remaining
    <2> QED
      BY <2>1, <1>7, <1>15 DEF SameAccount, Charged
  <1> QED
    BY <1>5, <1>8, <1>16

\* A step that spends nothing it did not have.
Frugal == AccountOK(ws') /\ AccountOK(saved') /\ Spendable(ws') <= Spendable(ws)

\* A step between states whose accounts are in order.
Accounts == Types /\ Types' /\ AccountOK(ws) /\ AccountOK(saved)

\* What may be spent is a number.
LEMMA SpendableType ==
  ASSUME NEW w \in WorkState
  PROVE  Spendable(w) \in Nat
  <1>1. Remaining(w) \in Nat /\ Reserved(w) \in Nat
    BY RemainingType, ReservedType
  <1> QED
    BY <1>1, SpendableIs

\* The states of such a step.
LEMMA AccountsAre ==
  ASSUME Accounts
  PROVE  ws \in WorkState /\ saved \in WorkState /\ ws' \in WorkState /\ saved' \in WorkState
  BY DEF Accounts, Types, SharedTypes

\* A charge, saved or not, is frugal.
LEMMA ChargedFrugal ==
  ASSUME Accounts, Charged(ws, ws'), saved' \in {saved, ws, ws'}
  PROVE  Frugal
  <1>1. AccountOK(ws') /\ Spendable(ws') <= Spendable(ws)
    BY AccountsAre, ChargedOK DEF Accounts
  <1> QED
    BY <1>1 DEF Frugal, Accounts

\* So is a step that leaves the account alone.
LEMMA UnchangedFrugal ==
  ASSUME Accounts, ws' = ws, saved' \in {saved, ws}
  PROVE  Frugal
  <1>1. SameAccount(ws, ws')
    BY DEF SameAccount
  <1>2. Charged(ws, ws')
    BY <1>1, AccountsAre, SameCharged DEF Accounts
  <1> QED
    BY <1>2, ChargedFrugal

\* A unit that has run gives up its share.
LEMMA RunUnitFrugal ==
  ASSUME Accounts, NEW a \in Agents, NEW used \in Nat, NEW passed \in BOOLEAN,
         RunUnit(a, used, passed)
  PROVE  Frugal
  <1> DEFINE i == op[a].unit
             w == Noted(ws, op[a].node, used)
             outcome == IF passed THEN "passed" ELSE "failed"
             v == [w EXCEPT !.units[i].outcome = outcome]
  <1>1. \/ i \in DOMAIN ws.units /\ ws' = v /\ saved' = v
        \/ ws' = w /\ saved' = saved
    BY DEF RunUnit, Capture, NoCapture
  <1>2. w \in WorkState /\ SameAccount(ws, w)
    BY AccountsAre, NotedType, NotedAccount
  <1>3. outcome \in {"passed", "failed"}
    OBVIOUS
  <1> HIDE DEF w, outcome
  <1>4. Charged(ws, w) /\ AccountOK(w) /\ Spendable(w) <= Spendable(ws)
    BY <1>2, AccountsAre, SameCharged, ChargedOK DEF Accounts
  <1>5. CASE ws' = w /\ saved' = saved
    BY <1>4, <1>5, ChargedFrugal
  <1>6. CASE i \in DOMAIN ws.units /\ ws' = v /\ saved' = v
    <2>1. i \in DOMAIN w.units
      BY <1>2, <1>6 DEF SameAccount
    <2>2. AccountOK(v) /\ Spendable(v) <= Spendable(w)
      BY <1>2, <1>3, <1>4, <2>1, UnitRunOK
    <2>3. Spendable(v) \in Nat /\ Spendable(w) \in Nat /\ Spendable(ws) \in Nat
      BY <1>2, <1>6, AccountsAre, SpendableType
    <2> HIDE DEF v
    <2> QED
      BY <1>4, <1>6, <2>2, <2>3 DEF Frugal
  <1> QED
    BY <1>1, <1>5, <1>6

\* Routing the parent charges an iteration at most.
LEMMA RouteParentFrugal ==
  ASSUME Accounts, NEW a \in Agents, RouteParent(a)
  PROVE  Frugal
  <1>1. ws' \in {ws, consume_iteration_budget(ws)} /\ saved' = saved
    BY DEF RouteParent, NoCapture
  <1>2. CASE ws' = ws
    BY <1>1, <1>2, UnchangedFrugal
  <1>3. CASE ws' = consume_iteration_budget(ws)
    BY <1>1, <1>3, AccountsAre, ConsumeCharged, ChargedFrugal DEF Accounts
  <1> QED
    BY <1>1, <1>2, <1>3

\* A pass starts with what is left.
LEMMA PrepareFrugal ==
  ASSUME Accounts, NEW a \in Agents, prepare_work_graph_pass(a)
  PROVE  Frugal
  <1> DEFINE r == reset_for_work_graph_pass(ws)
             w == [r EXCEPT !.budget = Budget(Remaining(ws))]
  <1>1. \/ ws' = w /\ saved' = w
        \/ UNCHANGED <<ws, saved>>
    BY DEF prepare_work_graph_pass, Capture
  <1>2. CASE UNCHANGED <<ws, saved>>
    BY <1>2, UnchangedFrugal
  <1>3. CASE ws' = w /\ saved' = w
    <2>1. ws \in WorkState /\ Remaining(ws) \in Nat
      BY AccountsAre, RemainingType
    <2>2. SameAccount(ws, r) /\ r \in WorkState
      BY <2>1, ResetType DEF reset_for_work_graph_pass, WorkState, SameAccount
    <2> HIDE DEF r
    <2>3. /\ w.units = ws.units /\ w.before = ws.before /\ w.plan = ws.plan
          /\ w.budget = Budget(Remaining(ws))
      BY <2>2 DEF WorkState, SameAccount
    <2>4. Remaining(w) = Remaining(ws) /\ w.budget.left = Remaining(ws)
      BY <2>3 DEF Remaining, Budget
    <2>5. Remaining(ws) <= MaxLeft
      BY <2>1, RetryAssumption DEF Remaining, Accounts, AccountOK, Bounded, MaxLeft
    <2>6. Charged(ws, w)
      BY <2>1, <2>3, <2>4, <2>5 DEF Charged, Accounts, AccountOK, Bounded
    <2> QED
      BY <1>3, <2>6, ChargedFrugal
  <1> QED
    BY <1>1, <1>2, <1>3

\* The result of an anchor charges an iteration at most.
LEMMA RecordFrugal ==
  ASSUME Accounts, NEW a \in Agents, NEW why \in {"passed", "failed", "boundary"},
         \/ record_compile_result(a, why) \/ record_test_result(a, why)
         \/ record_verify_result(a, why)
  PROVE  Frugal
  <1>1. PICK anchor \in {"compile", "test", "verify"} :
          op[a].pc \in Judging /\ RecordResult(a, anchor, why)
    BY DEF record_compile_result, record_test_result, record_verify_result, Judging
  <1> QED
    BY <1>1, RecordCharged, ChargedFrugal DEF Accounts

\* Verification without anchors spends nothing.
LEMMA LegacyFrugal ==
  ASSUME Accounts, NEW a \in Agents, LegacyFinish(a)
  PROVE  Frugal
  <1> DEFINE w == [ws EXCEPT !.verify = Result(op[a].why, <<op[a].node, 0>>)]
  <1>1. \/ ws' = w /\ saved' = w
        \/ UNCHANGED <<ws, saved>>
    BY DEF LegacyFinish, Capture
  <1>2. SameAccount(ws, w)
    BY AccountsAre DEF SameAccount, WorkState
  <1> HIDE DEF w
  <1>3. CASE ws' = w /\ saved' = w
    BY <1>2, <1>3, AccountsAre, SameCharged, ChargedFrugal DEF Accounts
  <1> QED
    BY <1>1, <1>3, UnchangedFrugal

\* A decomposition lends what it takes from the parent.
LEMMA DecomposeFrugal ==
  ASSUME Accounts, NEW a \in Agents, NEW count \in UnitCounts, decompose_node(a, count)
  PROVE  Frugal
  <1> DEFINE left == Remaining(ws)
             units == [i \in 1 .. count |->
                         [allocation |-> child_max_iter(left, count), outcome |-> "none"]]
             split == [ws EXCEPT !.before = Budget(left), !.budget = Budget(Retained(left, count)),
                                 !.units = units]
             k == Greater(ws.audit[cur].attempt, 1)
             w == Noted(split, cur, k)
  <1>1. /\ count <= MAX_DECOMPOSE_UNITS
        /\ \/ left > 0 /\ Affordable(left, count) /\ ws' = w /\ saved' = w
           \/ UNCHANGED <<ws, saved>>
    BY DEF decompose_node, Capture
  <1>2. CASE left > 0 /\ Affordable(left, count) /\ ws' = w /\ saved' = w
    <2>1. count \in Nat \ {0} /\ ws \in WorkState /\ left \in Nat
      BY AccountsAre, RemainingType, UnitsAssumption
    <2> HIDE DEF left, units, k
    <2>2. /\ split.before = Budget(left) /\ split.budget = Budget(Retained(left, count))
          /\ split.units = units /\ split.plan = ws.plan
      BY <2>1 DEF WorkState
    <2>3. w = [split EXCEPT !.audit[cur].attempt = Greater(@, k)]
      BY DEF Noted
    <2>4. /\ w.before = split.before /\ w.budget = split.budget /\ w.units = split.units
          /\ w.plan = split.plan
      BY <2>1, <2>3 DEF WorkState
    <2> HIDE DEF split, w
    <2>5. w \in WorkState
      BY <1>2, AccountsAre
    <2>6. AccountOK(w) /\ Spendable(w) <= Spendable(ws)
      BY <1>1, <1>2, <2>1, <2>2, <2>4, <2>5, SplitOK DEF Accounts, left, units
    <2> QED
      BY <1>2, <2>6 DEF Frugal
  <1> QED
    BY <1>1, <1>2, UnchangedFrugal

\* A report lends nothing.
LEMMA ReportFrugal ==
  ASSUME Accounts, NEW c \in Children, record_specialist_report(c)
  PROVE  Frugal
  <1> DEFINE w == [ws EXCEPT !.report = <<pending.node, pending.attempt>>]
             v == Routed(w, cur, pending.attempt, "Implement")
  <1>1. (ws' = v /\ saved' = v) \/ (ws' = w /\ saved' = saved)
    BY DEF record_specialist_report, Capture, NoCapture
  <1>2. <<pending.node, pending.attempt>> \in Passes /\ pending.attempt \in Nat
    BY DEF Accounts, Types, SharedTypes, Route, Passes
  <1>3. w \in WorkState /\ SameAccount(ws, w)
    BY <1>2, AccountsAre DEF WorkState, SameAccount
  <1> HIDE DEF w
  <1>4. SameAccount(ws, v)
    BY <1>2, <1>3, RoutedAccount DEF SameAccount
  <1> HIDE DEF v
  <1>5. SameAccount(ws, ws')
    BY <1>1, <1>3, <1>4
  <1> QED
    BY <1>1, <1>5, AccountsAre, SameCharged, ChargedFrugal DEF Accounts

\* Nor does the end of a child.
LEMMA ChildEndsFrugal ==
  ASSUME Accounts, NEW c \in Children, resolve_root_cause_child_terminal(c)
  PROVE  Frugal
  <1> DEFINE w == [ws EXCEPT !.budget.left = 0]
             v == Noted(w, pending.node, pending.attempt)
  <1>1. (ws' = v /\ saved' = v) \/ UNCHANGED <<ws, saved>>
    BY DEF resolve_root_cause_child_terminal, Capture
  <1>2. CASE ws' = v /\ saved' = v
    <2>1. ws \in WorkState /\ ws.budget \in Budgets /\ pending.attempt \in Nat
      BY AccountsAre DEF WorkState, Accounts, Types, SharedTypes, Route
    <2>2. w = [ws EXCEPT !.budget = [ws.budget EXCEPT !.left = 0]]
      OBVIOUS
    <2>3. /\ w.units = ws.units /\ w.before = ws.before /\ w.plan = ws.plan
          /\ w.budget = [ws.budget EXCEPT !.left = 0]
      BY <2>1, <2>2 DEF WorkState
    <2>4. w.budget.left = 0 /\ w.budget.has = ws.budget.has
      BY <2>1, <2>3 DEF Budgets
    <2>5. w \in WorkState
      BY <2>1 DEF WorkState, Budgets
    <2> HIDE DEF w
    <2>6. Remaining(w) <= Remaining(ws)
      <3>1. CASE ws.budget.has
        BY <3>1, <2>1, <2>4 DEF Remaining, Budgets
      <3>2. CASE ~ ws.budget.has
        BY <3>2, <2>4, RetryAssumption DEF Remaining
      <3> QED
        BY <3>1, <3>2
    <2>7. Charged(ws, w)
      BY <2>3, <2>4, <2>6, RetryAssumption DEF Charged, MaxLeft, Accounts, AccountOK, Bounded
    <2>8. SameAccount(w, v)
      BY <2>5, NotedAccount
    <2> HIDE DEF v
    <2>9. Charged(ws, ws')
      BY <1>2, <2>1, <2>5, <2>7, <2>8, AccountsAre, ChargedTwice
    <2> QED
      BY <1>2, <2>9, ChargedFrugal
  <1> QED
    BY <1>1, <1>2, UnchangedFrugal

\* A review charges an iteration at most.
LEMMA ReviewFrugal ==
  ASSUME Accounts, NEW verdict \in Verdicts, record_human_review(verdict)
  PROVE  Frugal
  <1> DEFINE w == [ws EXCEPT !.review = verdict]
             k == Greater(ws.audit[cur].attempt, 1)
             v == Routed(w, cur, k, next_step(w))
  <1>1. HasCurrent /\ ws' = v /\ saved' = v
    BY DEF record_human_review, Capture
  <1>2. cur \in NodeIds /\ ws \in WorkState
    BY <1>1, CurrentIsNode, AccountsAre DEF Accounts
  <1>3. w \in WorkState /\ SameAccount(ws, w)
    BY <1>2, VerdictsAssumption DEF WorkState, SameAccount
  <1>4. k \in Nat
    BY <1>2 DEF WorkState, Audit, Greater
  <1> HIDE DEF w, k
  <1>5. SameAccount(ws, v)
    BY <1>3, <1>4, RoutedAccount DEF SameAccount
  <1> HIDE DEF v
  <1> QED
    BY <1>1, <1>5, AccountsAre, SameCharged, ChargedFrugal DEF Accounts

\* A new node has an account in order.
LEMMA FreshAccount ==
  ASSUME ws \in WorkState, NEW request \in Requests, NEW n \in NodeIds
  PROVE  AccountOK(FreshState(request, n))
  <1> DEFINE plan == compose_work_graph(request.risk, request.specialists, request.review)
             base == [reset_for_new_node(ws) EXCEPT !.plan = plan]
             w == FreshState(request, n)
  <1>1. plan.revision = 1
    BY DEF compose_work_graph
  <1>2. /\ reset_for_new_node(ws) \in WorkState /\ reset_for_new_node(ws).units = <<>>
        /\ reset_for_new_node(ws).budget = NoBudget /\ reset_for_new_node(ws).before = NoBudget
    BY ResetType DEF reset_for_new_node, DefaultWorkState
  <1> HIDE DEF plan
  <1>3. /\ base.units = <<>> /\ base.budget = NoBudget /\ base.before = NoBudget
        /\ base.plan = plan
    BY <1>2 DEF WorkState
  <1>4. w = [base EXCEPT !.audit[n].known = TRUE]
    BY DEF FreshState, Known, plan
  <1>5. w.units = base.units /\ w.budget = base.budget /\ w.before = base.before /\ w.plan = base.plan
    BY <1>2, <1>4 DEF WorkState
  <1> HIDE DEF base, w
  <1>6. w.units = <<>> /\ w.budget.left = 0 /\ w.before.left = 0 /\ w.plan.revision = 1
    BY <1>1, <1>3, <1>5 DEF NoBudget
  <1>7. Len(<<>>) = 0 /\ DOMAIN <<>> = {}
    OBVIOUS
  <1>8. Bounded(w)
    BY <1>6, <1>7, RetryAssumption
    DEF Bounded, MaxLeft, MaxRevision, MAX_PLAN_ADAPTATIONS, MAX_DECOMPOSE_UNITS
  <1>9. EqualShares(w)
    BY <1>6, <1>7 DEF EqualShares
  <1> QED
    BY <1>8, <1>9 DEF AccountOK, w

\* So has the node rollback_node goes back to.
LEMMA RolledBackAccount ==
  ASSUME ws \in WorkState, saved \in WorkState, AccountOK(ws), AccountOK(saved)
  PROVE  AccountOK(RolledBack)
  <1> DEFINE restored == [saved EXCEPT !.audit = ws.audit]
             budget == IF ws.before.has THEN ws.before ELSE Budget(1)
             lent == [restored EXCEPT !.budget = budget]
             w == IF ws.units = <<>> THEN restored ELSE lent
             v == clear_decomposition(w)
  <1>1. restored \in WorkState /\ restored.budget = saved.budget /\ restored.plan = saved.plan
    BY DEF WorkState
  <1>2. budget \in Budgets /\ budget.left <= MaxLeft
    <2>1. Budget(1) \in Budgets /\ Budget(1).left = 1
      BY DEF Budget, Budgets
    <2>2. 1 <= MaxLeft
      BY RetryAssumption DEF MaxLeft
    <2>3. ws.before \in Budgets /\ ws.before.left <= MaxLeft
      BY DEF WorkState, AccountOK, Bounded
    <2> QED
      BY <2>1, <2>2, <2>3
  <1> HIDE DEF restored, budget
  <1>3. lent \in WorkState /\ lent.budget = budget /\ lent.plan = saved.plan
    BY <1>1, <1>2 DEF WorkState
  <1> HIDE DEF lent
  <1>4. w \in WorkState /\ w.budget.left <= MaxLeft /\ w.plan = saved.plan
    BY <1>1, <1>2, <1>3 DEF AccountOK, Bounded
  <1>5. RolledBack = v
    BY DEF RolledBack, lent, restored, budget
  <1> HIDE DEF w
  <1>6. /\ v.units = <<>> /\ v.before = NoBudget /\ v.budget = w.budget /\ v.plan = w.plan
    BY <1>4 DEF clear_decomposition, WorkState
  <1> HIDE DEF v
  <1>7. Len(<<>>) = 0 /\ DOMAIN <<>> = {}
    OBVIOUS
  <1>8. v.before.left <= MaxLeft
    BY <1>6, RetryAssumption DEF NoBudget, MaxLeft
  <1>9. Bounded(v)
    BY <1>4, <1>6, <1>7, <1>8 DEF Bounded, AccountOK, MAX_DECOMPOSE_UNITS
  <1>10. EqualShares(v)
    BY <1>6, <1>7 DEF EqualShares
  <1> QED
    BY <1>5, <1>9, <1>10 DEF AccountOK

\* What every step does to the accounts.
BudgetStep ==
  /\ AccountOK(ws') /\ AccountOK(saved')
  /\ Len(nodes') = Len(nodes) /\ crashes' = crashes => Spendable(ws') <= Spendable(ws)

\* A frugal step does.
LEMMA FrugalSteps ==
  ASSUME Frugal
  PROVE  BudgetStep
  BY DEF Frugal, BudgetStep

\* begin_node grants a budget to a new node only.
LEMMA BeginBudget ==
  ASSUME Accounts, NEW a \in Agents, NEW request \in Requests, BeginNode(a, request)
  PROVE  BudgetStep
  <1>1. \/ UNCHANGED <<ws, saved>>
        \/ /\ NextId \in NodeIds /\ AddNode(NextId)
           /\ ws' = FreshState(request, NextId) /\ saved' = FreshState(request, NextId)
    BY DEF BeginNode, Capture
  <1>2. CASE UNCHANGED <<ws, saved>>
    BY <1>2, UnchangedFrugal, FrugalSteps
  <1>3. CASE /\ NextId \in NodeIds /\ AddNode(NextId)
             /\ ws' = FreshState(request, NextId) /\ saved' = FreshState(request, NextId)
    <2>1. nodes' = Append(nodes, [id |-> NextId, status |-> "Running", retry |-> 0])
      BY <1>3 DEF AddNode
    <2>2. Len(nodes') = Len(nodes) + 1 /\ Len(nodes) \in Nat
      BY <1>3, <2>1, AppendType DEF Accounts, Types, SharedTypes
    <2>3. Len(nodes') # Len(nodes)
      BY <2>2
    <2>4. AccountOK(ws') /\ AccountOK(saved')
      BY <1>3, AccountsAre, FreshAccount
    <2> QED
      BY <2>3, <2>4 DEF BudgetStep
  <1> QED
    BY <1>1, <1>2, <1>3

\* rollback_node returns to a budget only with a shorter chain.
LEMMA RollbackBudget ==
  ASSUME Accounts, NEW a \in Agents, rollback_node(a)
  PROVE  BudgetStep
  <1>1. Anchors # {} /\ nodes \in Seq(Node) /\ ws' = RolledBack /\ saved' = saved
    BY DEF rollback_node, NoCapture, Accounts, Types, SharedTypes
  <1>2. Anchor \in 1 .. Len(nodes) /\ Len(nodes) \in Nat
    BY <1>1, AnchorIs
  <1>3. \/ nodes' = SubSeq(nodes, 1, Anchor - 1)
        \/ nodes' = SubSeq(nodes, 1, Anchor) /\ Anchor < Len(nodes)
    BY DEF rollback_node
  <1>4. Len(nodes') # Len(nodes)
    <2>1. CASE nodes' = SubSeq(nodes, 1, Anchor - 1)
      <3>1. Len(nodes') = Anchor - 1
        BY <1>1, <1>2, <2>1
      <3> QED
        BY <1>2, <3>1
    <2>2. CASE nodes' = SubSeq(nodes, 1, Anchor) /\ Anchor < Len(nodes)
      <3>1. Len(nodes') = Anchor
        BY <1>1, <1>2, <2>2
      <3> QED
        BY <1>2, <2>2, <3>1
    <2> QED
      BY <1>3, <2>1, <2>2
  <1>5. AccountOK(ws') /\ AccountOK(saved')
    BY <1>1, AccountsAre, RolledBackAccount DEF Accounts
  <1> QED
    BY <1>4, <1>5 DEF BudgetStep

\* A restart goes back to the account on disk, which is in order too.
LEMMA CrashBudget ==
  ASSUME Accounts, crashes \in Nat, Restart \/ \E a \in Agents : CrashInBegin(a)
  PROVE  BudgetStep
  <1>1. ws' = saved /\ saved' = saved /\ crashes' = crashes + 1
    BY DEF Restart, CrashInBegin, NoCapture
  <1>2. crashes' # crashes
    BY <1>1
  <1> QED
    BY <1>1, <1>2 DEF BudgetStep, Accounts

\* A step inside an operation keeps the accounts.
LEMMA ProceedBudget ==
  ASSUME Accounts, NEW a \in Agents, Proceed(a)
  PROVE  BudgetStep
  <1>1. CASE \/ verify_current_node(a) \/ run_decomposed_units(a) \/ LegacyRead(a)
             \/ LegacyVerifying(a) \/ RollbackRefused(a) \/ prepare_root_cause_dispatch(a)
    <2>1. UNCHANGED <<ws, saved>>
      BY <1>1 DEF verify_current_node, run_decomposed_units, LegacyRead, LegacyVerifying,
                  RollbackRefused, prepare_root_cause_dispatch
    <2> QED
      BY <2>1, UnchangedFrugal, FrugalSteps
  <1>2. ASSUME NEW why, verify_and_complete(a, why)
        PROVE  BudgetStep
    <2>1. UNCHANGED <<ws, saved>>
      BY <1>2 DEF verify_and_complete
    <2> QED
      BY <2>1, UnchangedFrugal, FrugalSteps
  <1>3. ASSUME NEW r \in Requests, BeginNode(a, r)
        PROVE  BudgetStep
    BY <1>3, BeginBudget
  <1>4. CASE RouteParent(a)
    BY <1>4, RouteParentFrugal, FrugalSteps
  <1>5. ASSUME NEW used \in 0 .. AutoRetryMax, NEW ok \in BOOLEAN, RunUnit(a, used, ok)
        PROVE  BudgetStep
    <2>1. used \in Nat
      BY RetryAssumption
    <2> QED
      BY <2>1, <1>5, RunUnitFrugal, FrugalSteps
  <1>6. CASE prepare_work_graph_pass(a)
    BY <1>6, PrepareFrugal, FrugalSteps
  <1>7. ASSUME NEW why \in {"passed", "failed", "boundary"},
               \/ record_compile_result(a, why) \/ record_test_result(a, why)
               \/ record_verify_result(a, why)
        PROVE  BudgetStep
    BY <1>7, RecordFrugal, FrugalSteps
  <1>8. CASE LegacyFinish(a)
    BY <1>8, LegacyFrugal, FrugalSteps
  <1>9. CASE rollback_node(a)
    BY <1>9, RollbackBudget
  <1>10. ASSUME NEW count \in UnitCounts, decompose_node(a, count)
         PROVE  BudgetStep
    BY <1>10, DecomposeFrugal, FrugalSteps
  <1> QED
    BY <1>1, <1>2, <1>3, <1>4, <1>5, <1>6, <1>7, <1>8, <1>9, <1>10 DEF Proceed

\* Every step does.
LEMMA BudgetSteps ==
  ASSUME Accounts, crashes \in Nat, Next
  PROVE  BudgetStep
  <1>1. CASE \/ \E a \in Agents, tool \in Tools : execute_with_context(a, tool)
             \/ prepare_recovered_root_cause_dispatch
             \/ \E a \in Agents : Drop(a)
             \/ \E a \in Agents \cup {Daemon} : DropLaunch(a)
             \/ \E c \in Children : AbortChild(c)
    <2>1. UNCHANGED <<ws, saved>>
      BY <1>1 DEF execute_with_context, prepare_recovered_root_cause_dispatch, Drop, DropLaunch,
                  AbortChild
    <2> QED
      BY <2>1, UnchangedFrugal, FrugalSteps
  <1>2. ASSUME NEW a, Settle(a)
        PROVE  BudgetStep
    <2>1. UNCHANGED <<ws, saved>>
      BY <1>2 DEF Settle, mark_completed, MarkVerified, mark_failed, MarkFailed, MarkFailedAgain,
                  LockError
    <2> QED
      BY <2>1, UnchangedFrugal, FrugalSteps
  <1>3. ASSUME NEW a, Launch(a)
        PROVE  BudgetStep
    <2>1. ws' = ws /\ saved' \in {saved, ws}
      BY <1>3 DEF Launch, try_bind_root_cause_child, cancel_root_cause_dispatch
    <2> QED
      BY <2>1, UnchangedFrugal, FrugalSteps
  <1>4. ASSUME NEW c \in Children, record_specialist_report(c) \/ ChildEnds(c)
        PROVE  BudgetStep
    BY <1>4, ReportFrugal, ChildEndsFrugal, FrugalSteps DEF ChildEnds
  <1>5. ASSUME NEW verdict \in Verdicts, record_human_review(verdict)
        PROVE  BudgetStep
    BY <1>5, ReviewFrugal, FrugalSteps
  <1> QED
    BY <1>1, <1>2, <1>3, <1>4, <1>5, ProceedBudget, CrashBudget, StepIs

\* Only a restart counts as a crash.
LEMMA CrashesCounted ==
  ASSUME Next, crashes \in Nat
  PROVE  crashes' \in Nat
  <1>1. ASSUME NEW a, Proceed(a)
        PROVE  crashes' = crashes
    BY <1>1 DEF Proceed, BeginNode, verify_current_node, run_decomposed_units, RouteParent, RunUnit,
        prepare_work_graph_pass, record_compile_result, record_test_result, record_verify_result,
        RecordResult, verify_and_complete, LegacyRead, LegacyVerifying, LegacyFinish,
        rollback_node, RollbackRefused, decompose_node, prepare_root_cause_dispatch, bounds
  <1>2. ASSUME NEW a, Settle(a) \/ Launch(a)
        PROVE  crashes' = crashes
    BY <1>2 DEF Settle, mark_completed, MarkVerified, mark_failed, MarkFailed, MarkFailedAgain,
        LockError, Launch, try_bind_root_cause_child, cancel_root_cause_dispatch, bounds
  <1>3. ASSUME NEW c, record_specialist_report(c) \/ ChildEnds(c) \/ AbortChild(c)
        PROVE  crashes' = crashes
    BY <1>3 DEF record_specialist_report, ChildEnds, resolve_root_cause_child_terminal, AbortChild,
        bounds
  <1>4. ASSUME NEW verdict, record_human_review(verdict)
        PROVE  crashes' = crashes
    BY <1>4 DEF record_human_review, bounds
  <1>5. ASSUME NEW a, \/ \E tool : execute_with_context(a, tool)
                      \/ prepare_recovered_root_cause_dispatch \/ Drop(a) \/ DropLaunch(a)
        PROVE  crashes' = crashes
    BY <1>5 DEF execute_with_context, prepare_recovered_root_cause_dispatch, Drop, DropLaunch, bounds
  <1>6. ASSUME NEW a, CrashInBegin(a) \/ Restart
        PROVE  crashes' = crashes + 1
    BY <1>6 DEF CrashInBegin, Restart
  <1>7. crashes' = crashes \/ crashes' = crashes + 1
    BY <1>1, <1>2, <1>3, <1>4, <1>5, <1>6, StepIs
  <1> QED
    BY <1>7

-----------------------------------------------------------------------------
(* Node ids only grow along the chain                                      *)

\* Ids grow along the chain, and the current node is in it.
Ordered == \A i, k \in DOMAIN nodes : i < k => nodes[i].id < nodes[k].id
InChain == cur \in {NoNode} \cup Ids
ChainInv == Ordered /\ InChain

\* A new node's id is greater than every id in the chain.
LEMMA NextIdIsNew ==
  ASSUME Types
  PROVE  \A i \in DOMAIN nodes : nodes[i].id < NextId
  <1> DEFINE used == Ids \cup {n \in NodeIds : ws.audit[n].known}
             max == CHOOSE n \in used : \A k \in used : k <= n
  <1>1. \A i \in DOMAIN nodes : nodes[i].id \in NodeIds
    <2>1. \A i \in DOMAIN nodes : nodes[i] \in Node
      BY DEF Types, SharedTypes
    <2> QED
      BY <2>1 DEF Node
  <1>2. used \subseteq 0 .. MaxNodes /\ MaxNodes \in Nat
    BY <1>1, NodesAssumption DEF Ids, NodeIds
  <1>3. NextId = IF used = {} THEN 1 ELSE 1 + max
    BY DEF NextId
  <1>4. Ids \subseteq used
    OBVIOUS
  <1> SUFFICES ASSUME NEW i \in DOMAIN nodes
               PROVE  nodes[i].id < NextId
    OBVIOUS
  <1>5. nodes[i].id \in used
    BY <1>4 DEF Ids
  <1> HIDE DEF used
  <1>6. \E n \in used : \A k \in used : k <= n
    BY <1>2, <1>5, HasGreatest
  <1>7. max \in used /\ \A k \in used : k <= max
    BY <1>6
  <1> HIDE DEF max
  <1>8. NextId = 1 + max /\ nodes[i].id <= max
    BY <1>3, <1>5, <1>7
  <1>9. max \in Nat /\ nodes[i].id \in Nat
    <2>1. \A x \in 0 .. MaxNodes : x \in Nat
      BY NodesAssumption
    <2>2. max \in 0 .. MaxNodes /\ nodes[i].id \in 0 .. MaxNodes
      BY <1>2, <1>5, <1>7, Zenon
    <2> QED
      BY <2>1, <2>2
  <1> QED
    BY <1>8, <1>9

\* A step that keeps the ids keeps the chain.
LEMMA SameIdsChain ==
  ASSUME ChainInv, DOMAIN nodes' = DOMAIN nodes,
         \A i \in DOMAIN nodes : nodes'[i].id = nodes[i].id, cur' = cur
  PROVE  ChainInv'
  BY DEF ChainInv, Ordered, InChain, Ids

\* So does one that keeps the nodes.
LEMMA SameNodesChain ==
  ASSUME ChainInv, UNCHANGED <<nodes, cur>>
  PROVE  ChainInv'
  BY DEF ChainInv, Ordered, InChain, Ids

\* Statuses are not ids.
LEMMA StatusChain ==
  ASSUME ChainInv, Types, NEW id, NEW status \in Statuses, nodes' = WithStatus(id, status), cur' = cur
  PROVE  ChainInv'
  BY StatusType, SameIdsChain DEF Types, SharedTypes

\* A new node comes last.
LEMMA AppendChain ==
  ASSUME ChainInv, Types, NextId \in NodeIds, cur' = NextId,
         nodes' = Append(nodes, [id |-> NextId, status |-> "Running", retry |-> 0])
  PROVE  ChainInv'
  <1> DEFINE n == NextId
             m == Len(nodes) + 1
  <1>1. \A i \in DOMAIN nodes : nodes[i].id < n
    BY NextIdIsNew
  <1>2. /\ DOMAIN nodes' = 1 .. m /\ DOMAIN nodes = 1 .. Len(nodes) /\ Len(nodes) \in Nat
        /\ \A i \in DOMAIN nodes : nodes'[i] = nodes[i]
        /\ nodes'[m].id = n
    BY AppendType DEF Types, SharedTypes
  <1>3. ASSUME NEW i \in DOMAIN nodes', NEW k \in DOMAIN nodes', i < k
        PROVE  nodes'[i].id < nodes'[k].id
    <2>1. i \in DOMAIN nodes /\ nodes'[i] = nodes[i]
      BY <1>2, <1>3
    <2>2. CASE k \in DOMAIN nodes
      BY <2>1, <2>2, <1>2, <1>3 DEF ChainInv, Ordered
    <2>3. CASE k = m
      BY <2>1, <2>3, <1>1, <1>2
    <2> QED
      BY <1>2, <2>2, <2>3
  <1>4. m \in DOMAIN nodes'
    BY <1>2
  <1>5. cur' \in {nodes'[i].id : i \in DOMAIN nodes'}
    BY <1>2, <1>4
  <1> QED
    BY <1>3, <1>5 DEF ChainInv, Ordered, InChain, Ids

\* rollback_node leaves a prefix of the chain, with its last node current or none.
LEMMA RollbackChain ==
  ASSUME ChainInv, Types, NEW a \in Agents, rollback_node(a)
  PROVE  ChainInv'
  <1>1. Anchors # {} /\ nodes \in Seq(Node)
    BY DEF rollback_node, Types, SharedTypes
  <1>2. Anchor \in 1 .. Len(nodes) /\ Len(nodes) \in Nat
    BY <1>1, AnchorIs
  <1>3. PICK m \in {Anchor - 1, Anchor} :
          nodes' = SubSeq(nodes, 1, m) /\ (cur' = NoNode \/ (m = Anchor /\ cur' = nodes[Anchor].id))
    BY DEF rollback_node
  <1>4. m \in 0 .. Len(nodes)
    BY <1>2
  <1>5. DOMAIN nodes' = 1 .. m /\ \A i \in 1 .. m : nodes'[i] = nodes[i] /\ i \in DOMAIN nodes
    BY <1>1, <1>2, <1>3, <1>4
  <1>6. Ordered'
    BY <1>5 DEF ChainInv, Ordered
  <1>7. m = Anchor => Anchor \in DOMAIN nodes' /\ nodes'[Anchor].id = nodes[Anchor].id
    BY <1>2, <1>5
  <1>8. cur' \in {NoNode} \cup {nodes'[i].id : i \in DOMAIN nodes'}
    BY <1>3, <1>7
  <1> QED
    BY <1>6, <1>8 DEF ChainInv, InChain, Ids

\* Verification without anchors keeps the ids.
LEMMA LegacyChain ==
  ASSUME ChainInv, Types, NEW a \in Agents, LegacyFinish(a)
  PROVE  ChainInv'
  <1> DEFINE ok == op[a].why = "passed"
  <1>1. nodes' = Counted(op[a].node, ok) /\ cur' = cur
    BY DEF LegacyFinish, Counted
  <1>2. ok \in BOOLEAN
    OBVIOUS
  <1> HIDE DEF ok
  <1> QED
    BY <1>1, <1>2, CountedType, SameIdsChain DEF Types, SharedTypes

\* A step inside an operation keeps the chain.
LEMMA ProceedChain ==
  ASSUME ChainInv, Types, NEW a \in Agents, Proceed(a)
  PROVE  ChainInv'
  <1>1. ASSUME NEW r \in Requests, BeginNode(a, r)
        PROVE  ChainInv'
    <2>1. CASE UNCHANGED <<nodes, cur>>
      BY <2>1, SameNodesChain
    <2>2. CASE NextId \in NodeIds /\ AddNode(NextId)
      BY <2>2, AppendChain DEF AddNode
    <2> QED
      BY <1>1, <2>1, <2>2 DEF BeginNode
  <1>2. CASE \/ verify_current_node(a) \/ run_decomposed_units(a) \/ RouteParent(a)
             \/ prepare_work_graph_pass(a) \/ LegacyRead(a) \/ RollbackRefused(a)
             \/ prepare_root_cause_dispatch(a)
    <2>1. UNCHANGED <<nodes, cur>>
      BY <1>2 DEF verify_current_node, run_decomposed_units, RouteParent, prepare_work_graph_pass,
                  LegacyRead, RollbackRefused, prepare_root_cause_dispatch, session_vars
    <2> QED
      BY <2>1, SameNodesChain
  <1>3. ASSUME NEW used, NEW ok, RunUnit(a, used, ok)
        PROVE  ChainInv'
    BY <1>3, SameNodesChain DEF RunUnit, session_vars
  <1>4. ASSUME NEW why, \/ record_compile_result(a, why) \/ record_test_result(a, why)
                        \/ record_verify_result(a, why) \/ verify_and_complete(a, why)
        PROVE  ChainInv'
    <2>1. UNCHANGED <<nodes, cur>>
      BY <1>4 DEF record_compile_result, record_test_result, record_verify_result, RecordResult,
                  verify_and_complete, session_vars
    <2> QED
      BY <2>1, SameNodesChain
  <1>5. CASE LegacyVerifying(a)
    BY <1>5, StatusChain DEF LegacyVerifying, Statuses
  <1>6. ASSUME NEW count, decompose_node(a, count)
        PROVE  ChainInv'
    BY <1>6, SameNodesChain DEF decompose_node, session_vars
  <1> QED
    BY <1>1, <1>2, <1>3, <1>4, <1>5, <1>6, LegacyChain, RollbackChain DEF Proceed

\* Every step does.
LEMMA ChainStep ==
  ASSUME ChainInv, Types, Next
  PROVE  ChainInv'
  <1>1. CASE \/ \E a \in Agents, tool \in Tools : execute_with_context(a, tool)
             \/ \E a \in Agents \cup {Daemon} : Launch(a) \/ DropLaunch(a)
             \/ prepare_recovered_root_cause_dispatch
             \/ \E c \in Children : record_specialist_report(c) \/ ChildEnds(c) \/ AbortChild(c)
             \/ \E verdict \in Verdicts : record_human_review(verdict)
             \/ \E a \in Agents : Drop(a)
             \/ Restart
    <2>1. UNCHANGED <<nodes, cur>>
      BY <1>1 DEF execute_with_context, Launch, try_bind_root_cause_child,
                  cancel_root_cause_dispatch, DropLaunch, prepare_recovered_root_cause_dispatch,
                  record_specialist_report, ChildEnds, resolve_root_cause_child_terminal,
                  record_human_review, AbortChild, Drop, Restart, session_vars
    <2> QED
      BY <2>1, SameNodesChain
  <1>2. ASSUME NEW a \in Agents, CrashInBegin(a)
        PROVE  ChainInv'
    BY <1>2, AppendChain DEF CrashInBegin
  <1>3. ASSUME NEW a \in Actors, Settle(a)
        PROVE  ChainInv'
    <2>1. cur' = cur /\ nodes' \in {nodes, WithStatus(cur, "Verified"), WithStatus(cur, "Failed")}
      BY <1>3 DEF Settle, mark_completed, MarkVerified, mark_failed, MarkFailed, MarkFailedAgain,
                  LockError, session_vars
    <2>2. "Verified" \in Statuses /\ "Failed" \in Statuses
      BY DEF Statuses
    <2> QED
      BY <2>1, <2>2, SameNodesChain, StatusChain
  <1> QED
    BY <1>1, <1>2, <1>3, ProceedChain, StepIs

-----------------------------------------------------------------------------

\* The whole inductive invariant of the session
SessionInv == JudgedInv /\ ChainInv /\ AccountOK(ws) /\ AccountOK(saved) /\ crashes \in Nat

\* It holds initially.
LEMMA SessionInit == Init => SessionInv
  <1> SUFFICES ASSUME Init PROVE SessionInv
    OBVIOUS
  <1>1. nodes = <<>> /\ cur = NoNode /\ crashes = 0
    BY DEF Init
  <1>2. ChainInv
    BY <1>1 DEF ChainInv, Ordered, InChain
  <1>3. Len(<<>>) = 0 /\ DOMAIN <<>> = {}
    OBVIOUS
  <1>4. /\ DefaultWorkState.units = <<>> /\ DefaultWorkState.budget.left = 0
        /\ DefaultWorkState.before.left = 0 /\ DefaultWorkState.plan.revision = 0
    BY DEF DefaultWorkState, NoBudget, NoPlan
  <1>5. AccountOK(DefaultWorkState)
    BY <1>3, <1>4, RetryAssumption
    DEF AccountOK, Bounded, EqualShares, MaxLeft, MaxRevision, MAX_PLAN_ADAPTATIONS,
        MAX_DECOMPOSE_UNITS
  <1>6. AccountOK(ws) /\ AccountOK(saved)
    BY <1>5 DEF Init
  <1> QED
    BY <1>1, <1>2, <1>6, JudgedInit DEF SessionInv

\* Every step keeps it, and lends nothing.
LEMMA SessionStep ==
  ASSUME SessionInv, [Next]_vars
  PROVE  /\ SessionInv'
         /\ Len(nodes') = Len(nodes) /\ crashes' = crashes => Spendable(ws') <= Spendable(ws)
  <1>1. CASE Next
    <2>1. Types' /\ PassInv' /\ VerifiedWasProven'
      BY <1>1, PassStep, VerifiedStep DEF SessionInv
    <2>2. Accounts
      BY <2>1 DEF Accounts, SessionInv, JudgedInv
    <2>3. BudgetStep
      BY <1>1, <2>2, BudgetSteps DEF SessionInv
    <2>4. ChainInv'
      BY <1>1, ChainStep DEF SessionInv, JudgedInv
    <2>5. crashes' \in Nat
      BY <1>1, CrashesCounted DEF SessionInv
    <2> QED
      BY <2>1, <2>3, <2>4, <2>5 DEF SessionInv, JudgedInv, BudgetStep
  <1>2. CASE UNCHANGED vars
    <2>1. JudgedInv'
      BY <1>2 DEF SessionInv, vars, JudgedInv, Types, SharedTypes, PassInv, GateHeld, OneMode,
                  Commanded, Named, OwnResults, ResultsOfOnePass, Unsettled, Settled, VerifiedWasProven, Earned
    <2>2. ChainInv' /\ crashes' \in Nat
      BY <1>2, SameNodesChain DEF SessionInv, vars
    <2>3. ws' = ws /\ saved' = saved
      BY <1>2 DEF vars
    <2>4. Spendable(ws) \in Nat
      BY SpendableType DEF SessionInv, JudgedInv, Types, SharedTypes
    <2>5. Spendable(ws') <= Spendable(ws)
      BY <2>3, <2>4
    <2> QED
      BY <2>1, <2>2, <2>3, <2>5 DEF SessionInv
  <1> QED
    BY <1>1, <1>2

\* It gives what the runs check.
LEMMA SessionPassesSound ==
  ASSUME SessionInv
  PROVE  PassesSound
  <1>1. Types /\ PassInv /\ ChainInv /\ AccountOK(ws) /\ AccountOK(saved)
    BY DEF SessionInv, JudgedInv
  <1>2. \A i \in DOMAIN nodes : nodes[i].id \in NodeIds /\ nodes[i].status \in Statuses
    <2>1. \A i \in DOMAIN nodes : nodes[i] \in Node
      BY <1>1 DEF Types, SharedTypes
    <2> QED
      BY <2>1 DEF Node
  <1>3. ASSUME NEW w \in WorkState, AccountOK(w)
        PROVE  WorkStateOK(w)
    <2>1. ASSUME NEW r \in Results
          PROVE  r.ok \in BOOLEAN /\ r.pass[1] \in {NoNode} \cup NodeIds
      BY DEF Results, Passes
    <2>2. w.compile \in Results /\ w.test \in Results /\ w.verify \in Results
      BY DEF WorkState
    <2>3. w.budget.left \in Nat
      BY DEF WorkState, Budgets
    <2>4. w.budget.left \in 0 .. AutoRetryMax + 1
      BY <1>3, <2>3, RetryAssumption DEF AccountOK, Bounded, MaxLeft
    <2>5. Len(w.units) <= MAX_DECOMPOSE_UNITS /\ w.plan.revision <= 1 + MAX_PLAN_ADAPTATIONS
      BY <1>3 DEF AccountOK, Bounded, MaxRevision
    <2> QED
      BY <2>1, <2>2, <2>4, <2>5 DEF WorkStateOK
  <1>4. WorkStateOK(ws) /\ WorkStateOK(saved)
    BY <1>1, <1>3 DEF Types, SharedTypes
  <1>5. pending.child \in {Nobody} \cup Children
    BY <1>1 DEF Types, SharedTypes, Route
  <1>6. \A a \in Actors : op[a].pc \in OpPlaces
    BY <1>1 DEF Types, Operation
  <1>7. TypeOK
    BY <1>1, <1>2, <1>4, <1>5, <1>6 DEF TypeOK, Types, SharedTypes, ChainInv, Ordered, InChain
  <1>8. ASSUME NEW a \in Agents, op[a].pc \in {"test", "final"}
        PROVE  \A r \in {ws.compile, ws.test} : r.pass \in {NoPass, <<op[a].node, op[a].attempt>>}
    <2>1. Own(ws, op[a])
      BY <1>1, <1>8 DEF PassInv, OwnResults, Judging, Actors
    <2>2. NoResult.pass = NoPass
      BY DEF NoResult
    <2> QED
      BY <2>1, <2>2 DEF Own
  <1>9. PassNotInterleaved
    BY <1>8 DEF PassNotInterleaved
  <1> QED
    BY <1>7, <1>9 DEF PassesSound

\* Node, budget, plan and results tell one story, for any number of agents,
\* specialists, nodes and units: ids only grow along the chain, no budget or plan
\* leaves its bounds, and while a pass is at its test or verify anchor no result of
\* another attempt is mixed in, though begin_node, decompose_node, rollback_node and a
\* cancelled run pay no heed to its gate.
THEOREM PassesTheorem == Spec => []PassesSound
  <1>1. SessionInv /\ [Next]_vars => SessionInv'
    BY SessionStep
  <1> QED
    BY <1>1, SessionInit, SessionPassesSound, PTL DEF Spec

\* Nothing lends a node iterations: between a begin, a rollback and a restart, what
\* the node and its open units may still spend never grows.
THEOREM BudgetTheorem == Spec => BudgetNeverGrows
  <1>1. SessionInv /\ [Next]_vars => SessionInv'
    BY SessionStep
  <1>2. SessionInv /\ [Next]_vars =>
          [Len(nodes') = Len(nodes) /\ crashes' = crashes => Spendable(ws') <= Spendable(ws)]_vars
    BY SessionStep
  <1> QED
    BY <1>1, <1>2, SessionInit, PTL DEF Spec, BudgetNeverGrows

-----------------------------------------------------------------------------
(* The hold on the root                                                    *)

\* The router sends the root to root cause: it is held back.
Held(w) == next_step(w) = "RootCause"

\* Nothing is lent to units, and without a budget there is nothing to spend.
Unlent(w) == w.units = <<>> /\ (~ w.budget.has => w.budget.left = 0)

\* The part of the invariant that needs no more than that nothing is decomposed.
HoldInv == Unlent(ws) /\ Unlent(saved) /\ (Held(ws) => Held(saved))

\* r is a failed or rejected result of this pass; w has one on record.
Bad(w, r, pass) == Present(r) /\ r.pass = pass /\ (~ r.ok \/ w.review = "reject")
Failure(w, pass) == Bad(w, w.compile, pass) \/ Bad(w, w.test, pass) \/ Bad(w, w.verify, pass)

\* What holds the root: a failure, iterations to go on with, and no report yet.
LEMMA HeldIs ==
  ASSUME NEW w \in WorkState, Held(w)
  PROVE  /\ w.budget.left # 0 /\ w.report = NoPass /\ w.plan.diagnose
         /\ Present(w.compile)
         /\ \E r \in {w.compile, w.test, w.verify} : Present(r) /\ (~ r.ok \/ w.review = "reject")
  <1>1. retry_or_escalate(w) = "RootCause"
    BY DEF Held, next_step
  <1>2. w.budget.left # 0 /\ w.report = NoPass /\ w.plan.diagnose
    BY <1>1 DEF retry_or_escalate
  <1>3. w.review \in {"none", "approve", "reject"}
    BY DEF WorkState
  <1>4. Present(w.compile)
    BY DEF Held, next_step
  <1>5. \/ ~ w.compile.ok
        \/ Present(w.test) /\ ~ w.test.ok
        \/ Present(w.verify) /\ ~ w.verify.ok
        \/ w.review = "reject"
    BY <1>3 DEF Held, next_step
  <1>6. \E r \in {w.compile, w.test, w.verify} : Present(r) /\ (~ r.ok \/ w.review = "reject")
    <2>1. CASE ~ w.compile.ok \/ w.review = "reject"
      <3> WITNESS w.compile \in {w.compile, w.test, w.verify}
      <3> QED
        BY <1>4, <2>1
    <2>2. CASE Present(w.test) /\ ~ w.test.ok
      <3> WITNESS w.test \in {w.compile, w.test, w.verify}
      <3> QED
        BY <2>2
    <2>3. CASE Present(w.verify) /\ ~ w.verify.ok
      <3> WITNESS w.verify \in {w.compile, w.test, w.verify}
      <3> QED
        BY <2>3
    <2> QED
      BY <1>5, <2>1, <2>2, <2>3
  <1> QED
    BY <1>2, <1>4, <1>6

\* v is routed as w is.
SameRoute(w, v) ==
  /\ SameJudgement(w, v) /\ v.units = w.units /\ v.budget = w.budget /\ v.plan = w.plan
  /\ v.report = w.report

LEMMA RouteIsSame ==
  ASSUME NEW w, NEW v, SameRoute(w, v)
  PROVE  next_step(v) = next_step(w) /\ (Unlent(w) => Unlent(v))
  <1>1. retry_or_escalate(v) = retry_or_escalate(w)
    BY DEF SameRoute, retry_or_escalate
  <1>2. next_step(v) = next_step(w)
    BY <1>1 DEF SameRoute, SameJudgement, SameResults, next_step, Present
  <1> QED
    BY <1>2 DEF SameRoute, Unlent

\* The audit is no part of the route: noting an attempt or a route changes neither
\* the route nor what any other event reads back.
SameCauses(w, v) == \A m \in NodeIds : v.audit[m].rootCause = w.audit[m].rootCause

LEMMA NotedRoute ==
  ASSUME NEW w \in WorkState, NEW n, NEW k \in Nat
  PROVE  SameRoute(w, Noted(w, n, k)) /\ SameCauses(w, Noted(w, n, k))
  <1>1. Noted(w, n, k).report = w.report
    BY DEF Noted, WorkState
  <1>2. SameCauses(w, Noted(w, n, k))
    BY DEF SameCauses, Noted, WorkState, Audit
  <1> QED
    BY <1>1, <1>2, NotedType, NotedAccount DEF SameRoute, SameAccount

LEMMA RoutedRoute ==
  ASSUME NEW w \in WorkState, NEW n \in NodeIds, NEW k \in Nat, NEW step
  PROVE  /\ SameRoute(w, Routed(w, n, k, step))
         /\ step = "RootCause" => Routed(w, n, k, step).audit[n].rootCause = k
         /\ step # "RootCause" => SameCauses(w, Routed(w, n, k, step))
  <1> DEFINE v == Noted(w, n, k)
             u == [v EXCEPT !.audit[n].rootCause = k]
  <1>1. v \in WorkState /\ SameRoute(w, v) /\ SameCauses(w, v)
    BY NotedType, NotedRoute
  <1>2. Routed(w, n, k, step) = IF step = "RootCause" THEN u ELSE v
    BY DEF Routed
  <1> HIDE DEF v
  <1>3. u.report = v.report /\ u.audit[n].rootCause = k
    BY <1>1 DEF WorkState, Audit
  <1>4. Routed(w, n, k, step).report = w.report
    BY <1>1, <1>2, <1>3 DEF SameRoute
  <1> QED
    BY <1>1, <1>2, <1>3, <1>4, RoutedType, RoutedAccount DEF SameRoute, SameAccount

\* Without a budget left there is nothing to hold the root for.
LEMMA NothingLeft ==
  ASSUME NEW w \in WorkState, w.budget.left = 0
  PROVE  ~ Held(w)
  BY HeldIs

\* w, with the result `got` holds, is routed by this step and written.
RoutedBy(a, got, w, step) ==
  /\ SameJudgement(got, w) /\ w.report = ws.report /\ w.units = ws.units
  /\ Unlent(ws) => Unlent(w)
  /\ step = next_step(w) \/ (step = "Escalate" /\ ~ w.plan.diagnose)
  /\ ws' = Routed(w, op[a].node, op[a].attempt, step) /\ saved' = ws'
  /\ AfterRoute(a, step)

\* What an anchor's result does to the route: without a budget to charge, the failed
\* result stays in memory and the pass is over; otherwise the state that is routed is
\* written, and the pass goes where the router says.
LEMMA RecordRoutes ==
  ASSUME Types, NEW a \in Agents, op[a].pc \in Judging, op[a].node \in NodeIds,
         NEW anchor \in {"compile", "test", "verify"}, NEW why \in {"passed", "failed", "boundary"},
         RecordResult(a, anchor, why)
  PROVE  LET got == [ws EXCEPT ![anchor] = Result(why, <<op[a].node, op[a].attempt>>)] IN
         \/ ~ ws.budget.has /\ ws' = got /\ saved' = saved /\ Goto(a, Idle) /\ got \in WorkState
         \/ \E w \in WorkState : \E step : RoutedBy(a, got, w, step)
  <1> DEFINE n == op[a].node
             k == op[a].attempt
             r == Result(why, <<n, k>>)
             got == [ws EXCEPT ![anchor] = r]
             paid == IF why = "failed" THEN consume_iteration_budget(got) ELSE got
             counted == IF anchor = "test" THEN TestStreak(paid, n, why = "passed") ELSE paid
             seen == Noted(counted, n, k)
             change == IF anchor = "test" THEN adapt_work_graph(seen, n) ELSE "Unchanged"
             plan == IF change = "Splice" THEN apply_adaptation(seen) ELSE seen
             step == IF change = "Escalate" THEN "Escalate" ELSE next_step(plan)
  <1>1. a \in Actors /\ op[a] \in Operation /\ ws \in WorkState
    BY DEF Types, SharedTypes, Actors
  <1>2. n \in NodeIds /\ k \in Nat
    BY <1>1 DEF Operation
  <1>3. r \in Results
    <2>1. <<n, k>> \in Passes
      BY <1>2 DEF Passes
    <2> QED
      BY <2>1, ResultType
  <1>4. \/ ~ ws.budget.has /\ NoCapture(got) /\ Finish(a)
        \/ Capture(Routed(plan, n, k, step)) /\ AfterRoute(a, step)
    BY DEF RecordResult
  <1>5. got \in WorkState
    BY <1>1, <1>3, StoredType
  <1>6. got.report = ws.report /\ got.units = ws.units /\ got.budget = ws.budget
    <2>1. anchor # "report" /\ anchor # "units" /\ anchor # "budget"
      OBVIOUS
    <2> HIDE DEF r
    <2> QED
      BY <1>1, <2>1 DEF WorkState
  <1> HIDE DEF n, k, r, got
  <1>7. /\ paid \in WorkState /\ SameJudgement(got, paid) /\ paid.report = ws.report
        /\ paid.units = ws.units /\ (Unlent(ws) => Unlent(paid))
    <2>1. CASE why = "failed"
      <3> DEFINE left == IF got.budget.left > 0 THEN got.budget.left - 1 ELSE 0
      <3>1. paid = [got EXCEPT !.budget = [got.budget EXCEPT !.left = left]]
        BY <2>1 DEF consume_iteration_budget
      <3>2. got.budget \in Budgets /\ (got.budget.left = 0 => left = 0)
        BY <1>5 DEF WorkState
      <3> HIDE DEF left
      <3>3. /\ paid.report = got.report /\ paid.units = got.units
            /\ paid.budget = [got.budget EXCEPT !.left = left]
        BY <3>1, <1>5 DEF WorkState
      <3>4. paid.budget.has = got.budget.has /\ paid.budget.left = left
        BY <3>2, <3>3 DEF Budgets
      <3>5. paid \in WorkState /\ SameJudgement(got, paid)
        BY <2>1, <1>5, ConsumeType
      <3> QED
        BY <3>2, <3>3, <3>4, <3>5, <1>6 DEF Unlent
    <2>2. CASE why # "failed"
      BY <2>2, <1>5, <1>6 DEF Unlent, SameJudgement, SameResults
    <2> QED
      BY <2>1, <2>2
  <1> HIDE DEF paid
  <1>8. /\ counted \in WorkState /\ SameJudgement(paid, counted) /\ SameAccount(paid, counted)
        /\ counted.report = paid.report
    <2>1. (why = "passed") \in BOOLEAN
      OBVIOUS
    <2>2. TestStreak(paid, n, why = "passed").report = paid.report
      BY <1>7 DEF TestStreak, WorkState
    <2>3. SameJudgement(paid, paid) /\ SameAccount(paid, paid)
      BY DEF SameJudgement, SameResults, SameAccount
    <2> QED
      BY <2>1, <2>2, <2>3, <1>7, StreakType, StreakAccount
  <1> HIDE DEF counted
  <1>9. seen \in WorkState /\ SameRoute(counted, seen)
    BY <1>2, <1>8, NotedType, NotedRoute
  <1>10. change = "Escalate" => ~ seen.plan.diagnose
    BY DEF adapt_work_graph
  <1> HIDE DEF seen, change
  <1>11. /\ plan \in WorkState /\ SameJudgement(seen, plan) /\ plan.report = seen.report
         /\ plan.units = seen.units /\ plan.budget = seen.budget
         /\ change = "Escalate" => plan = seen
    <2>1. /\ apply_adaptation(seen).report = seen.report /\ apply_adaptation(seen).units = seen.units
          /\ apply_adaptation(seen).budget = seen.budget
      BY <1>9 DEF apply_adaptation, WorkState
    <2>2. SameJudgement(seen, seen)
      BY DEF SameJudgement, SameResults
    <2> QED
      BY <2>1, <2>2, <1>9, AdaptationType
  <1>12. /\ SameJudgement(got, plan) /\ plan.report = ws.report /\ plan.units = ws.units
         /\ (Unlent(ws) => Unlent(plan))
    BY <1>7, <1>8, <1>9, <1>11 DEF SameJudgement, SameResults, SameRoute, SameAccount, Unlent
  <1> HIDE DEF plan
  <1>14. step = next_step(plan) \/ (step = "Escalate" /\ ~ plan.plan.diagnose)
    BY <1>10, <1>11
  <1> HIDE DEF step
  <1>15. CASE ~ ws.budget.has /\ NoCapture(got) /\ Finish(a)
    BY <1>15, <1>5 DEF NoCapture, Finish, got, r, n, k
  <1>16. CASE Capture(Routed(plan, n, k, step)) /\ AfterRoute(a, step)
    <2>1. /\ ws' = Routed(plan, op[a].node, op[a].attempt, step) /\ saved' = ws'
      BY <1>16 DEF Capture, n, k
    <2>2. SameJudgement([ws EXCEPT ![anchor] = Result(why, <<op[a].node, op[a].attempt>>)], plan)
      BY <1>12 DEF got, r, n, k
    <2>3. RoutedBy(a, [ws EXCEPT ![anchor] = Result(why, <<op[a].node, op[a].attempt>>)], plan, step)
      BY <2>1, <2>2, <1>12, <1>14, <1>16 DEF RoutedBy
    <2> QED
      BY <2>3, <1>11
  <1> QED
    BY <1>4, <1>15, <1>16

\* A node that begins holds nobody back.
LEMMA FreshRoute ==
  ASSUME ws \in WorkState, NEW request \in Requests, NEW n \in NodeIds
  PROVE  /\ Unlent(FreshState(request, n)) /\ FreshState(request, n).report = NoPass
         /\ ~ Held(FreshState(request, n))
  <1> DEFINE plan == compose_work_graph(request.risk, request.specialists, request.review)
             base == [reset_for_new_node(ws) EXCEPT !.plan = plan]
             w == FreshState(request, n)
  <1>1. /\ reset_for_new_node(ws) \in WorkState /\ reset_for_new_node(ws).units = <<>>
        /\ reset_for_new_node(ws).budget = NoBudget /\ reset_for_new_node(ws).report = NoPass
    BY ResetType DEF reset_for_new_node, DefaultWorkState
  <1> HIDE DEF plan
  <1>2. base.units = <<>> /\ base.budget = NoBudget /\ base.report = NoPass
    BY <1>1 DEF WorkState
  <1>3. w = [base EXCEPT !.audit[n].known = TRUE]
    BY DEF FreshState, Known, plan
  <1>4. w.units = base.units /\ w.budget = base.budget /\ w.report = base.report
    BY <1>1, <1>3 DEF WorkState
  <1>5. w \in WorkState
    BY FreshType
  <1> HIDE DEF base, w
  <1>6. w.units = <<>> /\ w.budget.left = 0 /\ w.report = NoPass
    BY <1>2, <1>4 DEF NoBudget
  <1> QED
    BY <1>5, <1>6, NothingLeft DEF Unlent, w

\* Without a decomposition rollback_node goes back to the route on disk.
LEMMA RolledBackRoute ==
  ASSUME ws \in WorkState, saved \in WorkState, Unlent(ws), Unlent(saved)
  PROVE  SameRoute(saved, RolledBack)
  <1> DEFINE restored == [saved EXCEPT !.audit = ws.audit]
             v == clear_decomposition(restored)
  <1>1. RolledBack = v
    BY DEF RolledBack, Unlent
  <1>2. /\ restored \in WorkState /\ restored.budget = saved.budget /\ restored.plan = saved.plan
        /\ restored.report = saved.report
    BY DEF WorkState
  <1> HIDE DEF restored
  <1>3. /\ v.units = <<>> /\ v.budget = restored.budget /\ v.plan = restored.plan
        /\ v.report = restored.report
    BY <1>2 DEF clear_decomposition, WorkState
  <1> QED
    BY <1>1, <1>2, <1>3, RolledBackType DEF SameRoute, Unlent

\* A pass starts with nothing on record.
LEMMA PrepareRoute ==
  ASSUME Types, NEW a \in Agents, prepare_work_graph_pass(a), HasCurrent
  PROVE  /\ ws' \in WorkState /\ saved' = ws' /\ ws'.units = ws.units /\ ws'.budget.has
         /\ ws'.report = NoPass /\ ~ Held(ws')
         /\ Goto(a, [At("compile") EXCEPT !.node = cur, !.attempt = ws.audit[cur].attempt + 1])
  <1> DEFINE r == reset_for_work_graph_pass(ws)
             w == [r EXCEPT !.budget = Budget(Remaining(ws))]
  <1>1. ws' = w /\ saved' = w
    BY DEF prepare_work_graph_pass, Capture
  <1>2. ws \in WorkState
    BY DEF Types, SharedTypes
  <1>3. /\ r \in WorkState /\ r.compile = NoResult /\ r.report = NoPass /\ r.units = ws.units
    <2>1. r \in WorkState
      BY <1>2, ResetType
    <2>2. r.compile = NoResult /\ r.report = NoPass
      BY <1>2 DEF reset_for_work_graph_pass, WorkState
    <2>3. r.units = ws.units
      BY <1>2 DEF reset_for_work_graph_pass, WorkState
    <2> QED
      BY <2>1, <2>2, <2>3
  <1>4. Budget(Remaining(ws)) \in Budgets /\ Budget(Remaining(ws)).has
    <2>1. Remaining(ws) \in Nat
      BY <1>2, RemainingType
    <2> QED
      BY <2>1 DEF Budget, Budgets
  <1> HIDE DEF r
  <1>5. /\ w \in WorkState /\ w.compile = NoResult /\ w.report = NoPass /\ w.units = ws.units
        /\ w.budget.has
    BY <1>3, <1>4 DEF WorkState
  <1> HIDE DEF w
  <1>6. ~ Held(w)
    BY <1>5, HeldIs DEF Present
  <1>7. Goto(a, [At("compile") EXCEPT !.node = cur, !.attempt = ws.audit[cur].attempt + 1])
    BY DEF prepare_work_graph_pass
  <1> QED
    BY <1>1, <1>5, <1>6, <1>7

\* A report releases the root, and leaves what it is about on record.
LEMMA ReportRoute ==
  ASSUME Types, HasCurrent, NEW c \in Children, record_specialist_report(c)
  PROVE  /\ ws' \in WorkState /\ SameJudgement(ws, ws') /\ SameCauses(ws, ws')
         /\ ws'.units = ws.units /\ ws'.budget = ws.budget /\ ws'.plan = ws.plan
         /\ ws'.report = <<pending.node, pending.attempt>>
         /\ saved' = ws' \/ (saved' = saved /\ next_step(ws') # "Implement")
         /\ pending' \in {pending, NoRoute} /\ ReportMatches(c)
  <1> DEFINE w == [ws EXCEPT !.report = <<pending.node, pending.attempt>>]
             v == Routed(w, cur, pending.attempt, "Implement")
  <1>1. /\ \/ next_step(w) = "Implement" /\ ws' = v /\ saved' = v
           \/ next_step(w) # "Implement" /\ ws' = w /\ saved' = saved
        /\ pending' \in {pending, NoRoute} /\ ReportMatches(c)
    BY DEF record_specialist_report, Capture, NoCapture
  <1>2. <<pending.node, pending.attempt>> \in Passes /\ pending.attempt \in Nat
    BY DEF Types, SharedTypes, Route, Passes
  <1>3. cur \in NodeIds
    BY CurrentIsNode
  <1>4. /\ w \in WorkState /\ SameJudgement(ws, w) /\ w.audit = ws.audit
        /\ w.units = ws.units /\ w.budget = ws.budget /\ w.plan = ws.plan
        /\ w.report = <<pending.node, pending.attempt>>
    BY <1>2 DEF Types, SharedTypes, WorkState, SameJudgement, SameResults
  <1> HIDE DEF w
  <1>5. v \in WorkState /\ SameRoute(w, v) /\ SameCauses(w, v)
    BY <1>2, <1>3, <1>4, RoutedType, RoutedRoute
  <1> HIDE DEF v
  <1> QED
    BY <1>1, <1>4, <1>5 DEF SameRoute, SameJudgement, SameResults, SameCauses

\* A child that ends without one takes the budget with it.
LEMMA ChildEndsRoute ==
  ASSUME Types, NEW c \in Children, resolve_root_cause_child_terminal(c)
  PROVE  \/ Goto(c, At("done")) /\ UNCHANGED <<ws, saved, pending>>
         \/ /\ ws' \in WorkState /\ SameJudgement(ws, ws') /\ SameCauses(ws, ws')
            /\ ws'.units = ws.units /\ ws'.budget.left = 0 /\ ws'.report = ws.report /\ saved' = ws'
            /\ pending.child = c /\ pending' = NoRoute
            /\ Goto(c, [At("failing") EXCEPT !.node = pending.node])
  <1> DEFINE w == [ws EXCEPT !.budget.left = 0]
             v == Noted(w, pending.node, pending.attempt)
  <1>1. \/ Goto(c, At("done")) /\ UNCHANGED <<ws, saved, pending>>
        \/ /\ ws' = v /\ saved' = v /\ pending.child = c /\ pending' = NoRoute
           /\ Goto(c, [At("failing") EXCEPT !.node = pending.node])
    BY DEF resolve_root_cause_child_terminal, Capture
  <1>2. ws \in WorkState /\ ws.budget \in Budgets /\ pending.attempt \in Nat
    BY DEF Types, SharedTypes, Route, WorkState
  <1>3. /\ w \in WorkState /\ SameJudgement(ws, w) /\ w.audit = ws.audit /\ w.units = ws.units
        /\ w.report = ws.report /\ w.budget = [ws.budget EXCEPT !.left = 0]
    BY <1>2 DEF WorkState, Budgets, SameJudgement, SameResults
  <1>4. w.budget.left = 0
    BY <1>2, <1>3 DEF Budgets
  <1> HIDE DEF w
  <1>5. v \in WorkState /\ SameRoute(w, v) /\ SameCauses(w, v)
    BY <1>2, <1>3, NotedType, NotedRoute
  <1> HIDE DEF v
  <1> QED
    BY <1>1, <1>3, <1>4, <1>5 DEF SameRoute, SameJudgement, SameResults, SameCauses

-----------------------------------------------------------------------------
(* The hold is on disk whenever it is in memory                            *)

\* A step that writes what it leaves, or leaves what routes alike, keeps that.
LEMMA WrittenHold ==
  ASSUME Unlent(ws'), saved' = ws'
  PROVE  HoldInv'
  BY DEF HoldInv

LEMMA SameHold ==
  ASSUME HoldInv, SameRoute(ws, ws'), saved' = saved
  PROVE  HoldInv'
  <1>1. Held(ws') <=> Held(ws)
    BY RouteIsSame DEF Held
  <1>2. Unlent(ws')
    BY RouteIsSame DEF HoldInv
  <1> QED
    BY <1>1, <1>2 DEF HoldInv

\* So does one that touches neither, or only writes what is in memory.
LEMMA UntouchedHold ==
  ASSUME HoldInv, ws' = ws, saved' \in {saved, ws}
  PROVE  HoldInv'
  BY DEF HoldInv

\* A parent whose units failed is charged in memory only, which cannot start a hold.
LEMMA RouteParentHold ==
  ASSUME HoldInv, ws \in WorkState, NEW a \in Agents, RouteParent(a)
  PROVE  HoldInv'
  <1> DEFINE left == IF ws.budget.left > 0 THEN ws.budget.left - 1 ELSE 0
             v == consume_iteration_budget(ws)
  <1>1. ws' \in {ws, v} /\ saved' = saved
    BY DEF RouteParent, NoCapture
  <1>2. v = [ws EXCEPT !.budget = [ws.budget EXCEPT !.left = left]] /\ ws.budget \in Budgets
    BY DEF consume_iteration_budget, WorkState
  <1>3. ws.budget.left = 0 => left = 0
    BY <1>2 DEF Budgets
  <1> HIDE DEF left
  <1>4. /\ v.units = ws.units /\ v.plan = ws.plan /\ v.report = ws.report
        /\ v.budget = [ws.budget EXCEPT !.left = left]
    BY <1>2 DEF WorkState
  <1>5. v.budget.has = ws.budget.has /\ v.budget.left = left
    BY <1>2, <1>4 DEF Budgets
  <1>6. v \in WorkState /\ SameJudgement(ws, v)
    BY ConsumeType
  <1> HIDE DEF v
  <1>7. Unlent(v)
    BY <1>3, <1>4, <1>5 DEF Unlent, HoldInv
  <1>8. Held(v) => Held(ws)
    <2> SUFFICES ASSUME Held(v) PROVE Held(ws)
      OBVIOUS
    <2>1. v.budget.left # 0 /\ ws.budget.left # 0
      BY <1>3, <1>5, <1>6, HeldIs
    <2>2. retry_or_escalate(v) = retry_or_escalate(ws)
      BY <1>4, <2>1 DEF retry_or_escalate
    <2>3. next_step(v) = next_step(ws)
      BY <1>6, <2>2 DEF SameJudgement, SameResults, next_step, Present
    <2> QED
      BY <2>3 DEF Held
  <1> QED
    BY <1>1, <1>7, <1>8 DEF HoldInv

\* The result of an anchor is written, or stored where there is no budget to hold for.
LEMMA RecordHold ==
  ASSUME HoldInv, Types, Named, NEW a \in Agents, op[a].pc \in Judging,
         NEW anchor \in {"compile", "test", "verify"}, NEW why \in {"passed", "failed", "boundary"},
         RecordResult(a, anchor, why)
  PROVE  HoldInv'
  <1> DEFINE got == [ws EXCEPT ![anchor] = Result(why, <<op[a].node, op[a].attempt>>)]
  <1>1. op[a].node \in NodeIds /\ op[a].attempt \in Nat /\ ws \in WorkState
    BY DEF Types, SharedTypes, Actors, Operation, Named
  <1>2. \/ ~ ws.budget.has /\ ws' = got /\ saved' = saved /\ got \in WorkState
        \/ \E w \in WorkState : \E step : RoutedBy(a, got, w, step)
    BY <1>1, RecordRoutes
  <1>3. CASE ~ ws.budget.has /\ ws' = got /\ saved' = saved /\ got \in WorkState
    <2>1. ws'.units = ws.units /\ ws'.budget = ws.budget
      <3>1. anchor # "units" /\ anchor # "budget"
        OBVIOUS
      <3> QED
        BY <1>1, <1>3, <3>1 DEF WorkState
    <2>2. ws'.budget.left = 0 /\ Unlent(ws')
      BY <1>3, <2>1 DEF Unlent, HoldInv
    <2>3. ~ Held(ws')
      BY <1>3, <2>2, NothingLeft
    <2> QED
      BY <1>3, <2>2, <2>3 DEF HoldInv
  <1>4. ASSUME NEW w \in WorkState, NEW step, RoutedBy(a, got, w, step)
        PROVE  HoldInv'
    <2>1. Unlent(w) /\ ws' = Routed(w, op[a].node, op[a].attempt, step) /\ saved' = ws'
      BY <1>4 DEF RoutedBy, HoldInv
    <2>2. Unlent(ws')
      BY <1>1, <2>1, RoutedRoute, RouteIsSame
    <2> QED
      BY <2>1, <2>2, WrittenHold
  <1> QED
    BY <1>2, <1>3, <1>4

\* A step inside an operation keeps the hold on disk, when nothing is decomposed.
LEMMA ProceedHold ==
  ASSUME UnitCounts = {}, HoldInv, Types, Named, NEW a \in Agents, Proceed(a)
  PROVE  HoldInv'
  <1>0. ws \in WorkState /\ saved \in WorkState
    BY DEF Types, SharedTypes
  <1>1. CASE \/ verify_current_node(a) \/ run_decomposed_units(a) \/ LegacyRead(a)
             \/ LegacyVerifying(a) \/ RollbackRefused(a) \/ prepare_root_cause_dispatch(a)
    <2>1. ws' = ws /\ saved' = saved
      BY <1>1 DEF verify_current_node, run_decomposed_units, LegacyRead, LegacyVerifying,
                  RollbackRefused, prepare_root_cause_dispatch
    <2> QED
      BY <2>1, UntouchedHold
  <1>9. ASSUME NEW why, verify_and_complete(a, why)
        PROVE  HoldInv'
    <2>1. ws' = ws /\ saved' = saved
      BY <1>9 DEF verify_and_complete
    <2> QED
      BY <2>1, UntouchedHold
  <1>2. ASSUME NEW r \in Requests, BeginNode(a, r)
        PROVE  HoldInv'
    <2>1. \/ UNCHANGED <<ws, saved>>
          \/ NextId \in NodeIds /\ ws' = FreshState(r, NextId) /\ saved' = ws'
      BY <1>2 DEF BeginNode, Capture
    <2> QED
      BY <2>1, <1>0, FreshRoute, WrittenHold, UntouchedHold
  <1>3. ASSUME NEW used \in 0 .. AutoRetryMax, NEW ok \in BOOLEAN, RunUnit(a, used, ok)
        PROVE  HoldInv'
    <2>1. op[a].unit \notin DOMAIN ws.units
      BY DEF HoldInv, Unlent
    <2>2. ws' = Noted(ws, op[a].node, used) /\ saved' = saved
      BY <1>3, <2>1 DEF RunUnit, NoCapture
    <2>3. used \in Nat
      BY RetryAssumption
    <2> QED
      BY <1>0, <2>2, <2>3, NotedRoute, SameHold
  <1>4. CASE prepare_work_graph_pass(a)
    <2>1. CASE HasCurrent
      <3>1. saved' = ws' /\ ws'.units = ws.units /\ ws'.budget.has
        BY <1>4, <2>1, PrepareRoute
      <3>2. Unlent(ws')
        BY <3>1 DEF Unlent, HoldInv
      <3> QED
        BY <3>1, <3>2, WrittenHold
    <2>2. CASE ~ HasCurrent
      <3>1. ws' = ws /\ saved' = saved
        BY <1>4, <2>2 DEF prepare_work_graph_pass
      <3> QED
        BY <3>1, UntouchedHold
    <2> QED
      BY <2>1, <2>2
  <1>5. ASSUME NEW why \in {"passed", "failed", "boundary"},
               \/ record_compile_result(a, why) \/ record_test_result(a, why)
               \/ record_verify_result(a, why)
        PROVE  HoldInv'
    BY <1>5, RecordHold
    DEF record_compile_result, record_test_result, record_verify_result, Judging
  <1>6. CASE LegacyFinish(a)
    <2> DEFINE w == [ws EXCEPT !.verify = Result(op[a].why, <<op[a].node, 0>>)]
    <2>1. (ws' = w /\ saved' = w) \/ UNCHANGED <<ws, saved>>
      BY <1>6 DEF LegacyFinish, Capture
    <2>2. w.units = ws.units /\ w.budget = ws.budget
      BY <1>0 DEF WorkState
    <2> HIDE DEF w
    <2>3. Unlent(w)
      BY <2>2 DEF Unlent, HoldInv
    <2> QED
      BY <2>1, <2>3, WrittenHold, UntouchedHold
  <1>7. CASE rollback_node(a)
    <2>1. ws' = RolledBack /\ saved' = saved
      BY <1>7 DEF rollback_node, NoCapture
    <2>2. SameRoute(saved, RolledBack)
      BY <1>0, RolledBackRoute DEF HoldInv
    <2>3. next_step(ws') = next_step(saved) /\ Unlent(ws')
      BY <2>1, <2>2, RouteIsSame DEF HoldInv
    <2> QED
      BY <2>1, <2>3 DEF HoldInv, Held
  <1>8. CASE RouteParent(a)
    BY <1>0, <1>8, RouteParentHold
  <1> QED
    BY <1>1, <1>2, <1>3, <1>4, <1>5, <1>6, <1>7, <1>8, <1>9 DEF Proceed

\* Every step does.
LEMMA HoldStep ==
  ASSUME UnitCounts = {}, HoldInv, Types, Named, Next
  PROVE  HoldInv'
  <1>0. ws \in WorkState /\ saved \in WorkState
    BY DEF Types, SharedTypes
  <1>1. CASE \/ \E a \in Agents, tool \in Tools : execute_with_context(a, tool)
             \/ \E a \in Actors : Settle(a)
             \/ \E a \in Agents \cup {Daemon} : Launch(a) \/ DropLaunch(a)
             \/ prepare_recovered_root_cause_dispatch
             \/ \E a \in Agents : Drop(a)
             \/ \E c \in Children : AbortChild(c)
    <2>1. ws' = ws /\ saved' \in {saved, ws}
      BY <1>1 DEF execute_with_context, Settle, mark_completed, MarkVerified, mark_failed, MarkFailed,
                  MarkFailedAgain, LockError, Launch, try_bind_root_cause_child,
                  cancel_root_cause_dispatch, DropLaunch, prepare_recovered_root_cause_dispatch,
                  Drop, AbortChild
    <2> QED
      BY <2>1, UntouchedHold
  <1>2. CASE Restart \/ \E a \in Agents : CrashInBegin(a)
    <2>1. ws' = saved /\ saved' = saved
      BY <1>2 DEF Restart, CrashInBegin, NoCapture
    <2> QED
      BY <2>1, WrittenHold DEF HoldInv
  <1>3. ASSUME NEW c \in Children, record_specialist_report(c)
        PROVE  HoldInv'
    <2>1. HasCurrent
      BY <1>3 DEF record_specialist_report, ReportMatches
    <2>2. /\ ws' \in WorkState /\ ws'.units = ws.units /\ ws'.budget = ws.budget
          /\ ws'.report = <<pending.node, pending.attempt>> /\ pending.node = cur
          /\ saved' \in {saved, ws'}
      BY <1>3, <2>1, ReportRoute DEF ReportMatches
    <2>3. Unlent(ws')
      BY <2>2 DEF Unlent, HoldInv
    <2>4. ws'.report # NoPass
      <3>1. cur \in NodeIds
        BY <2>1, CurrentIsNode
      <3> QED
        BY <2>2, <3>1, Constants DEF NoPass
    <2>5. ~ Held(ws')
      BY <2>2, <2>4, HeldIs
    <2> QED
      BY <2>2, <2>3, <2>5 DEF HoldInv
  <1>4. ASSUME NEW c \in Children, ChildEnds(c)
        PROVE  HoldInv'
    <2>1. \/ UNCHANGED <<ws, saved>>
          \/ ws'.units = ws.units /\ ws'.budget.left = 0 /\ saved' = ws'
      BY <1>4, ChildEndsRoute DEF ChildEnds
    <2> QED
      BY <2>1, WrittenHold, UntouchedHold DEF Unlent, HoldInv
  <1>5. ASSUME NEW verdict \in Verdicts, record_human_review(verdict)
        PROVE  HoldInv'
    <2> DEFINE w == [ws EXCEPT !.review = verdict]
               k == Greater(ws.audit[cur].attempt, 1)
               v == Routed(w, cur, k, next_step(w))
    <2>1. HasCurrent /\ ws' = v /\ saved' = v
      BY <1>5 DEF record_human_review, Capture
    <2>2. cur \in NodeIds
      BY <2>1, CurrentIsNode
    <2>3. w \in WorkState /\ w.units = ws.units /\ w.budget = ws.budget
      BY <1>0, VerdictsAssumption DEF WorkState
    <2>4. k \in Nat
      BY <1>0, <2>2 DEF WorkState, Audit, Greater
    <2> HIDE DEF w, k
    <2>5. Unlent(w)
      BY <2>3 DEF Unlent, HoldInv
    <2>6. Unlent(v)
      BY <2>2, <2>3, <2>4, <2>5, RoutedRoute, RouteIsSame
    <2> HIDE DEF v
    <2> QED
      BY <2>1, <2>6, WrittenHold
  <1> QED
    BY <1>1, <1>2, <1>3, <1>4, <1>5, ProceedHold, StepIs

\* While nothing is decomposed, the hold on the root survives a restart, whatever number
\* of agents, reviewers, cancelled runs and crashes gets in between: no section of any
\* operation leaves it in memory only.
THEOREM GateSurvivesTheorem ==
  ASSUME UnitCounts = {}
  PROVE  Spec => []GateSurvivesRestart
  <1>1. Init => SessionInv /\ HoldInv
    <2>1. Unlent(DefaultWorkState)
      BY DEF DefaultWorkState, Unlent, NoBudget
    <2> QED
      BY <2>1, SessionInit DEF Init, HoldInv
  <1>2. SessionInv /\ HoldInv /\ [Next]_vars => SessionInv' /\ HoldInv'
    <2>1. SessionInv /\ HoldInv /\ Next => HoldInv'
      BY HoldStep DEF SessionInv, JudgedInv, PassInv
    <2>2. HoldInv /\ UNCHANGED vars => HoldInv'
      BY DEF HoldInv, vars
    <2> QED
      BY <2>1, <2>2, SessionStep
  <1>3. HoldInv => GateSurvivesRestart
    BY DEF HoldInv, GateSurvivesRestart, Held
  <1> QED
    BY <1>1, <1>2, <1>3, PTL DEF Spec

-----------------------------------------------------------------------------
(* The root on its own                                                     *)

\* Nobody but the root begins, verifies or rolls back nodes, nothing is decomposed and
\* nobody reviews.
Alone == Agents = {RootAgent} /\ UnitCounts = {} /\ Verdicts = {}

\* The root is at rest, or about its specialist: in none of these places does it touch
\* nodes or results.
Waiting == {"idle", "dispatch", "launch"}
Waits == op[RootAgent].pc \in Waiting
ChildPlaces == {"idle", "running", "failing", "failmark", "done"}
VerdictPlaces == {"completing", "marking", "failing", "failmark", "failagain"}

\* w has a failure of the current node's latest RootCause route on record.
Diagnosable(w) ==
  /\ rust /\ cur # NoNode /\ w.audit[cur].rootCause > 0
  /\ Failure(w, <<cur, w.audit[cur].rootCause>>)

\* A report in w is about a failure that is on record.
Reported(w) == w.report # NoPass => rust /\ Failure(w, w.report)

\* While the root is held back, a route is out or a child's verdict is being marked,
\* the root does nothing else.
RootStays == Held(ws) \/ pending # NoRoute \/ RouteLocked => Waits

\* What is to be diagnosed, or was, is on record.
OnRecord ==
  /\ Held(ws) \/ pending # NoRoute \/ op[RootAgent].pc = "dispatch" => Diagnosable(ws)
  /\ Held(saved) => Diagnosable(saved)
  /\ Reported(ws) /\ Reported(saved)

RouteIsCurrent ==
  pending # NoRoute => pending.node = cur /\ pending.attempt = ws.audit[cur].rootCause

OnOwnNode ==
  \A a \in Children \cup {RootAgent} : op[a].pc \in VerdictPlaces => op[a].node = cur

Placed ==
  /\ op[Human].pc = "idle" /\ op[Daemon].pc \in {"idle", "launch"} /\ op[RootAgent].pc # "units"
  /\ \A c \in Children : op[c].pc \in ChildPlaces /\ op[c].units = 0

PassIsCurrent ==
  op[RootAgent].pc \in Judging =>
    op[RootAgent].node = cur /\ op[RootAgent].attempt > 0 /\ ws.report = NoPass

RootInv ==
  /\ HoldInv /\ (Held(saved) => Held(ws))
  /\ RootStays /\ OnRecord /\ RouteIsCurrent /\ OnOwnNode /\ Placed /\ PassIsCurrent

\* The kinds of actors are apart.
LEMMA ActorsApart ==
  ASSUME Alone
  PROVE  /\ Actors = {RootAgent, Human, Daemon} \cup Children
         /\ RootAgent \notin Children /\ Human \notin Children /\ Daemon \notin Children
         /\ RootAgent # Human /\ RootAgent # Daemon /\ Human # Daemon
  BY RootAssumption, ActorsAssumption DEF Alone, Actors

\* A failure stays on record while the results and the review do.
LEMMA FailureStays ==
  ASSUME NEW w, NEW v, SameJudgement(w, v), NEW pass, Failure(w, pass)
  PROVE  Failure(v, pass)
  BY DEF SameJudgement, SameResults, Failure, Bad

\* What v still owes the root is what w does.
LEMMA DiagnosableStays ==
  ASSUME NEW w, NEW v, SameJudgement(w, v), SameCauses(w, v), cur \in {NoNode} \cup NodeIds,
         rust' = rust, cur' = cur, Diagnosable(w)
  PROVE  /\ rust' /\ cur' # NoNode /\ v.audit[cur'].rootCause > 0
         /\ Failure(v, <<cur', v.audit[cur'].rootCause>>)
  <1>1. v.audit[cur].rootCause = w.audit[cur].rootCause
    BY DEF Diagnosable, SameCauses
  <1> QED
    BY <1>1, FailureStays DEF Diagnosable

LEMMA ReportedStays ==
  ASSUME NEW w, NEW v, SameJudgement(w, v), v.report = w.report, rust' = rust, Reported(w)
  PROVE  v.report # NoPass => rust' /\ Failure(v, v.report)
  BY FailureStays DEF Reported

\* A step that leaves node and results alone and holds the root no more than before: the
\* report is the only thing that may be new, and what it leaves is written or holds alike.
Mild ==
  /\ rust' = rust /\ cur' = cur /\ pending' \in {pending, NoRoute}
  /\ SameJudgement(ws, ws') /\ SameCauses(ws, ws') /\ (Held(ws') => Held(ws))
  /\ saved' = ws' \/ (saved' = saved /\ (Held(ws) => Held(ws')))
  /\ ws'.report = ws.report \/ (Waits /\ (ws'.report # NoPass => rust /\ Failure(ws', ws'.report)))

\* Where such a step may send an actor.
Suits(a, o) ==
  /\ a = RootAgent =>
       /\ o.pc \notin {"dispatch", "units"} \cup Judging
       /\ o.pc \notin Waiting => ~ Waits \/ (~ Held(ws) /\ pending = NoRoute /\ ~ RouteLocked)
       /\ o.pc \in VerdictPlaces => o.node = cur
  /\ a \in Children =>
       /\ o.pc \in ChildPlaces /\ o.units = 0
       /\ o.pc \in {"failing", "failmark"} => o.node = cur /\ Waits
  /\ a = Daemon => o.pc \in {"idle", "launch"}
  /\ a = Human => o.pc = "idle"

\* It keeps the invariant.
LEMMA MildKeeps ==
  ASSUME Alone, RootInv, Types, HoldInv', Mild, NEW a \in Actors, NEW o, Suits(a, o), Goto(a, o)
  PROVE  RootInv'
  <1>1. /\ op'[a] = o /\ \A b \in Actors : b # a => op'[b] = op[b]
    BY DEF Goto, Types
  <1>2. /\ Actors = {RootAgent, Human, Daemon} \cup Children
        /\ RootAgent \notin Children /\ Human \notin Children /\ Daemon \notin Children
        /\ RootAgent # Human /\ RootAgent # Daemon /\ Human # Daemon
    BY ActorsApart
  <1>3. Placed'
    BY <1>1, <1>2 DEF RootInv, Placed, Suits, ChildPlaces
  <1>4. OnOwnNode'
    <2> SUFFICES ASSUME NEW b \in Children \cup {RootAgent}, op'[b].pc \in VerdictPlaces
                 PROVE  op'[b].node = cur
      BY DEF OnOwnNode, Mild
    <2>1. CASE b # a
      BY <1>1, <1>2, <2>1 DEF RootInv, OnOwnNode
    <2>2. CASE b = a
      BY <1>1, <1>2, <2>2 DEF Suits, VerdictPlaces, ChildPlaces
    <2> QED
      BY <2>1, <2>2
  <1>5. op'[RootAgent] = op[RootAgent] \/ a = RootAgent
    BY <1>1, <1>2
  <1>6. op'[RootAgent].pc \in Judging => op'[RootAgent] = op[RootAgent]
    BY <1>1, <1>5 DEF Suits
  <1>7. PassIsCurrent'
    BY <1>6 DEF RootInv, PassIsCurrent, Mild, Waits, Waiting, Judging
  <1>8. RouteLocked' => RouteLocked \/ (a \in Children /\ Waits)
    BY <1>1, <1>2 DEF RouteLocked, Suits
  <1>9. RootStays'
    <2>1. Held(ws') \/ pending' # NoRoute \/ RouteLocked' => Waits
      BY <1>8 DEF RootInv, RootStays, Mild
    <2>2. CASE a # RootAgent
      BY <1>1, <1>2, <2>1, <2>2 DEF RootStays, Waits
    <2>3. CASE a = RootAgent
      <3> SUFFICES ASSUME Held(ws') \/ pending' # NoRoute \/ RouteLocked', o.pc \notin Waiting
                   PROVE  FALSE
        BY <1>1, <2>3 DEF RootStays, Waits
      <3>1. Waits
        BY <2>1
      <3>2. ~ Held(ws) /\ pending = NoRoute /\ ~ RouteLocked
        BY <2>3, <3>1 DEF Suits
      <3>3. ~ RouteLocked'
        BY <1>2, <1>8, <2>3, <3>2
      <3> QED
        BY <3>2, <3>3 DEF Mild
    <2> QED
      BY <2>2, <2>3
  <1>10. cur \in {NoNode} \cup NodeIds
    BY DEF Types, SharedTypes
  <1>11. op'[RootAgent].pc = "dispatch" => op[RootAgent].pc = "dispatch"
    BY <1>1, <1>5 DEF Suits
  <1>12. Diagnosable(ws) => Diagnosable(ws)'
    BY <1>10, DiagnosableStays DEF Mild, Diagnosable
  <1>13. Held(ws') \/ pending' # NoRoute \/ op'[RootAgent].pc = "dispatch" => Diagnosable(ws)'
    BY <1>11, <1>12 DEF RootInv, OnRecord, Mild
  <1>14. Held(saved') => Diagnosable(saved)'
    <2>1. CASE saved' = ws'
      BY <1>13, <2>1 DEF Diagnosable
    <2>2. CASE saved' = saved
      BY <2>2 DEF RootInv, OnRecord, Mild, Diagnosable
    <2> QED
      BY <2>1, <2>2 DEF Mild
  <1>15. Reported(ws)'
    <2>1. CASE ws'.report = ws.report
      BY <2>1, ReportedStays DEF Mild, RootInv, OnRecord, Reported
    <2>2. CASE ws'.report # NoPass => rust /\ Failure(ws', ws'.report)
      BY <2>2 DEF Mild, Reported
    <2> QED
      BY <2>1, <2>2 DEF Mild
  <1>16. Reported(saved)'
    <2>1. CASE saved' = ws'
      BY <1>15, <2>1 DEF Reported
    <2>2. CASE saved' = saved
      BY <2>2 DEF RootInv, OnRecord, Mild, Reported
    <2> QED
      BY <2>1, <2>2 DEF Mild
  <1>17. OnRecord'
    BY <1>13, <1>14, <1>15, <1>16 DEF OnRecord
  <1>18. RouteIsCurrent'
    <2> SUFFICES ASSUME pending' # NoRoute
                 PROVE  pending'.node = cur' /\ pending'.attempt = ws'.audit[cur'].rootCause
      BY DEF RouteIsCurrent
    <2>1. pending' = pending /\ cur' = cur
      BY DEF Mild
    <2>2. pending.node = cur /\ pending.attempt = ws.audit[cur].rootCause /\ Diagnosable(ws)
      BY <2>1 DEF RootInv, RouteIsCurrent, OnRecord
    <2>3. ws'.audit[cur].rootCause = ws.audit[cur].rootCause
      BY <1>10, <2>2 DEF Mild, SameCauses, Diagnosable
    <2> QED
      BY <2>1, <2>2, <2>3
  <1>19. Held(saved') => Held(ws')
    BY DEF Mild, RootInv
  <1> QED
    BY <1>3, <1>4, <1>7, <1>9, <1>17, <1>18, <1>19 DEF RootInv

\* A step that leaves node, results and budget alone, or gives up the pending route.
Plain ==
  /\ rust' = rust /\ cur' = cur /\ pending' \in {pending, NoRoute}
  /\ ws' = ws /\ saved' = saved

LEMMA PlainKeeps ==
  ASSUME Alone, RootInv, Types, Plain, NEW a \in Actors, NEW o, Suits(a, o), Goto(a, o)
  PROVE  RootInv'
  <1>1. HoldInv'
    BY UntouchedHold DEF Plain, RootInv
  <1>2. SameJudgement(ws, ws') /\ SameCauses(ws, ws')
    BY DEF Plain, SameJudgement, SameResults, SameCauses
  <1>3. Mild
    BY <1>2 DEF Plain, Mild
  <1> QED
    BY <1>1, <1>3, MildKeeps

\* An actor at rest suits, whoever it is, and so does a child that is done.
LEMMA IdleSuits ==
  ASSUME NEW a
  PROVE  Suits(a, Idle) /\ (a \in Children => Suits(a, At("done")))
  <1>1. Idle.pc = "idle" /\ Idle.units = 0
    BY DEF Idle
  <1>2. At("done").pc = "done" /\ At("done").units = 0
    BY OperationType DEF OpPlaces
  <1>3. Suits(a, Idle)
    BY <1>1 DEF Suits, Waiting, VerdictPlaces, ChildPlaces, Judging
  <1>4. ASSUME a \in Children
        PROVE  a = RootAgent \/ a = Daemon \/ a = Human => FALSE
    BY <1>4, RootAssumption, ActorsAssumption
  <1> QED
    BY <1>2, <1>3, <1>4 DEF Suits, ChildPlaces

\* The root on its way: what it does when it is not waiting.
RootPlaces == {"begin", "verify", "rollback", "decompose", "gate", "unitgate",
               "legacy", "legacyset", "legacyrun", "legacyend"}

LEMMA RootSuits ==
  ASSUME Alone, NEW o, o.pc \in RootPlaces,
         ~ Waits \/ (~ Held(ws) /\ pending = NoRoute /\ ~ RouteLocked)
  PROVE  Suits(RootAgent, o)
  <1>1. RootAgent \notin Children /\ RootAgent # Human /\ RootAgent # Daemon
    BY ActorsApart
  <1> QED
    BY <1>1 DEF Suits, RootPlaces, Waiting, VerdictPlaces, Judging

\* A root that is not waiting is not held back, and nothing is pending.
LEMMA RootBusy ==
  ASSUME RootInv, ~ Waits
  PROVE  ~ Held(ws) /\ ~ Held(saved) /\ pending = NoRoute /\ ~ RouteLocked
  BY DEF RootInv, RootStays

\* The root comes to rest with nobody held back and nothing out: whatever node is current.
LEMMA RestsKeeps ==
  ASSUME Alone, RootInv, HoldInv', ~ RouteLocked, ~ Held(ws'), ~ Held(saved'), pending' = NoRoute,
         op'[RootAgent] = Idle, \A b \in Actors : b # RootAgent => op'[b] = op[b],
         Reported(ws)', Reported(saved)'
  PROVE  RootInv'
  <1>1. /\ Actors = {RootAgent, Human, Daemon} \cup Children
        /\ RootAgent \notin Children /\ RootAgent # Human /\ RootAgent # Daemon
    BY ActorsApart
  <1>2. Idle.pc = "idle"
    BY DEF Idle
  <1>3. Placed'
    BY <1>1, <1>2 DEF RootInv, Placed
  <1>4. ~ RouteLocked'
    BY <1>1 DEF RouteLocked
  <1>5. OnOwnNode'
    BY <1>1, <1>2, <1>3, <1>4 DEF OnOwnNode, Placed, ChildPlaces, VerdictPlaces, RouteLocked
  <1>6. PassIsCurrent' /\ RouteIsCurrent'
    BY <1>2 DEF PassIsCurrent, RouteIsCurrent, Judging
  <1>7. RootStays'
    BY <1>2 DEF RootStays, Waits, Waiting
  <1>8. OnRecord'
    BY <1>2 DEF OnRecord
  <1> QED
    BY <1>3, <1>5, <1>6, <1>7, <1>8 DEF RootInv

\* The root moves within its pass, or out of it, with nobody held back and nothing out.
RootGoes(o) ==
  /\ o.pc \notin {"units", "dispatch"}
  /\ o.pc \in Judging => o.node = cur /\ o.attempt > 0 /\ ws'.report = NoPass
  /\ o.pc \in VerdictPlaces => o.node = cur

LEMMA MovesKeeps ==
  ASSUME Alone, RootInv, HoldInv', ~ RouteLocked, ~ Held(ws'), ~ Held(saved'), pending' = NoRoute,
         cur' = cur, NEW o, RootGoes(o), op'[RootAgent] = o,
         \A b \in Actors : b # RootAgent => op'[b] = op[b],
         Reported(ws)', Reported(saved)'
  PROVE  RootInv'
  <1>1. /\ Actors = {RootAgent, Human, Daemon} \cup Children
        /\ RootAgent \notin Children /\ RootAgent # Human /\ RootAgent # Daemon
    BY ActorsApart
  <1>3. Placed'
    BY <1>1 DEF RootInv, Placed, RootGoes
  <1>4. ~ RouteLocked'
    BY <1>1 DEF RouteLocked
  <1>5. OnOwnNode'
    <2> SUFFICES ASSUME NEW b \in Children \cup {RootAgent}, op'[b].pc \in VerdictPlaces
                 PROVE  op'[b].node = cur
      BY DEF OnOwnNode
    <2> QED
      BY <1>1 DEF RootInv, OnOwnNode, RootGoes
  <1>6. PassIsCurrent' /\ RouteIsCurrent'
    BY DEF PassIsCurrent, RouteIsCurrent, RootGoes
  <1>7. RootStays'
    BY <1>4 DEF RootStays
  <1>8. OnRecord'
    BY DEF OnRecord, RootGoes
  <1> QED
    BY <1>3, <1>5, <1>6, <1>7, <1>8 DEF RootInv

\* Admission
LEMMA AdmissionRoot ==
  ASSUME Alone, RootInv, Types, NEW a \in Agents, NEW tool \in Tools,
         execute_with_context(a, tool)
  PROVE  RootInv'
  <1>1. Plain /\ Goto(a, At(tool)) /\ ~ RouteLocked /\ ~ root_cause_pending
    BY DEF execute_with_context, Plain, session_vars
  <1>2. a = RootAgent /\ a \in Actors
    BY DEF Alone, Actors
  <1>3. At(tool).pc \in RootPlaces
    BY OperationType DEF OpPlaces, RootPlaces, Tools
  <1>4. ~ Held(ws) /\ pending = NoRoute
    BY <1>1 DEF root_cause_pending, Held
  <1> QED
    BY <1>1, <1>2, <1>3, <1>4, RootSuits, PlainKeeps

\* The steps inside an operation that touch no result
LEMMA ProceedPlain ==
  ASSUME Alone, RootInv, Types, NEW a \in Agents,
         \/ verify_current_node(a) \/ run_decomposed_units(a) \/ LegacyRead(a) \/ LegacyVerifying(a)
         \/ RollbackRefused(a)
  PROVE  RootInv'
  <1>1. a = RootAgent /\ a \in Actors /\ op[a] \in Operation /\ ws.units = <<>>
    BY DEF Alone, Actors, Types, RootInv, HoldInv, Unlent
  <1>2. Plain
    BY DEF Plain, verify_current_node, run_decomposed_units, LegacyRead, LegacyVerifying,
           RollbackRefused, session_vars
  <1>3. ~ Waits
    BY <1>1 DEF Waits, Waiting, verify_current_node, run_decomposed_units, LegacyRead,
                LegacyVerifying, RollbackRefused
  <1>4. \A p \in RootPlaces : At(p).pc = p
    <2>1. RootPlaces \subseteq OpPlaces
      BY DEF OpPlaces, RootPlaces, Tools
    <2> QED
      BY <2>1, OperationType
  <1>5. [At("legacyset") EXCEPT !.node = cur].pc = "legacyset"
    <2>1. At("legacyset") \in Operation /\ At("legacyset").pc = "legacyset"
      BY OperationType DEF OpPlaces
    <2> QED
      BY <2>1 DEF Operation
  <1>6. [op[a] EXCEPT !.pc = "legacyrun"].pc = "legacyrun"
    BY <1>1 DEF Operation
  <1>7. \E o : Goto(a, o) /\ (o = Idle \/ o.pc \in RootPlaces)
    <2>1. CASE verify_current_node(a)
      BY <2>1, <1>4 DEF verify_current_node, Entry, RootPlaces
    <2>2. CASE run_decomposed_units(a)
      BY <2>2, <1>1 DEF run_decomposed_units
    <2>3. CASE LegacyRead(a)
      BY <2>3, <1>5 DEF LegacyRead, RootPlaces
    <2>4. CASE LegacyVerifying(a)
      BY <2>4, <1>6 DEF LegacyVerifying, RootPlaces
    <2>5. CASE RollbackRefused(a)
      BY <2>5 DEF RollbackRefused
    <2> QED
      BY <2>1, <2>2, <2>3, <2>4, <2>5
  <1>8. PICK o : Goto(a, o) /\ (o = Idle \/ o.pc \in RootPlaces)
    BY <1>7
  <1>9. Suits(a, o)
    BY <1>1, <1>3, <1>8, IdleSuits, RootSuits
  <1> QED
    BY <1>1, <1>2, <1>8, <1>9, PlainKeeps

LEMMA LegacyVerdictRoot ==
  ASSUME Alone, RootInv, Types, NEW a \in Agents, NEW why \in {"passed", "failed", "boundary"},
         verify_and_complete(a, why)
  PROVE  RootInv'
  <1> DEFINE o == [op[a] EXCEPT !.pc = "legacyend", !.why = why]
  <1>1. a = RootAgent /\ a \in Actors /\ op[a] \in Operation
    BY DEF Alone, Actors, Types
  <1>2. Plain /\ Goto(a, o) /\ op[a].pc = "legacyrun"
    BY DEF Plain, verify_and_complete
  <1>3. o.pc = "legacyend"
    BY <1>1 DEF Operation
  <1> HIDE DEF o
  <1>4. ~ Waits /\ o.pc \in RootPlaces
    BY <1>1, <1>2, <1>3 DEF Waits, Waiting, RootPlaces
  <1> QED
    BY <1>1, <1>2, <1>4, RootSuits, PlainKeeps

\* begin_node: the root is not held back, and a fresh node holds nobody.
LEMMA BeginRoot ==
  ASSUME Alone, RootInv, HoldInv', Types, NEW a \in Agents, NEW request \in Requests,
         BeginNode(a, request)
  PROVE  RootInv'
  <1>1. /\ a = RootAgent /\ a \in Actors /\ ws \in WorkState /\ rust' = rust /\ pending' = pending
        /\ op[a].pc = "begin" /\ Goto(a, Idle)
    BY DEF Alone, Actors, Types, SharedTypes, BeginNode
  <1>2. ~ Waits
    BY <1>1 DEF Waits, Waiting
  <1>3. ~ Held(ws) /\ ~ Held(saved) /\ pending = NoRoute /\ ~ RouteLocked
    BY <1>2, RootBusy
  <1>4. CASE ws' = ws /\ saved' = saved /\ cur' = cur
    <2>1. Plain
      BY <1>1, <1>4 DEF Plain
    <2> QED
      BY <1>1, <2>1, IdleSuits, PlainKeeps
  <1>5. CASE NextId \in NodeIds /\ ws' = FreshState(request, NextId) /\ saved' = ws'
    <2>1. ~ Held(ws') /\ ~ Held(saved') /\ ws'.report = NoPass /\ saved'.report = NoPass
      BY <1>1, <1>5, FreshRoute
    <2>2. pending' = NoRoute
      BY <1>1, <1>3
    <2>3. op'[RootAgent] = Idle /\ \A b \in Actors : b # RootAgent => op'[b] = op[b]
      BY <1>1 DEF Goto, Types
    <2>4. Reported(ws)' /\ Reported(saved)'
      BY <2>1 DEF Reported
    <2> QED
      BY <1>3, <2>1, <2>2, <2>3, <2>4, RestsKeeps
  <1> QED
    BY <1>4, <1>5 DEF BeginNode, Capture

\* prepare_work_graph_pass: the pass is about the current node and starts with no report.
LEMMA PrepareRoot ==
  ASSUME Alone, RootInv, HoldInv', Types, NEW a \in Agents, prepare_work_graph_pass(a)
  PROVE  RootInv'
  <1>1. /\ a = RootAgent /\ a \in Actors /\ ws \in WorkState /\ op \in [Actors -> Operation]
        /\ op[a].pc = "gate"
        /\ cur' = cur /\ rust' = rust /\ pending' = pending
    BY DEF Alone, Actors, Types, SharedTypes, prepare_work_graph_pass, session_vars
  <1>2. ~ Waits
    BY <1>1 DEF Waits, Waiting
  <1>3. ~ Held(ws) /\ ~ Held(saved) /\ pending = NoRoute /\ ~ RouteLocked
    BY <1>2, RootBusy
  <1>4. CASE ~ HasCurrent
    <2>1. Plain /\ Goto(a, Idle)
      BY <1>1, <1>4 DEF Plain, prepare_work_graph_pass, Finish
    <2> QED
      BY <1>1, <2>1, IdleSuits, PlainKeeps
  <1>5. CASE HasCurrent
    <2> DEFINE o == [At("compile") EXCEPT !.node = cur, !.attempt = ws.audit[cur].attempt + 1]
    <2>1. saved' = ws' /\ ws'.report = NoPass /\ ~ Held(ws') /\ Goto(a, o)
      BY <1>5, PrepareRoute
    <2>2. cur \in NodeIds /\ ws.audit[cur].attempt \in Nat
      <3>1. cur \in NodeIds
        BY <1>5, CurrentIsNode
      <3> QED
        BY <1>1, <3>1 DEF WorkState, Audit
    <2>3. o.pc = "compile" /\ o.node = cur /\ o.attempt > 0
      <3>1. "compile" \in OpPlaces
        BY DEF OpPlaces
      <3>2. At("compile") \in Operation /\ At("compile").pc = "compile"
        BY <3>1, OperationType
      <3> QED
        BY <2>2, <3>2 DEF Operation
    <2> HIDE DEF o
    <2>4. op'[RootAgent] = o /\ \A b \in Actors : b # RootAgent => op'[b] = op[b]
      BY <1>1, <2>1 DEF Goto
    <2>5. Reported(ws)' /\ Reported(saved)'
      BY <2>1 DEF Reported
    <2> QED
      BY <1>1, <1>3, <2>1, <2>3, <2>4, <2>5, MovesKeeps DEF RootGoes, Judging
  <1> QED
    BY <1>4, <1>5

\* Every result of a pass in progress, its latest included, is of that pass; so what a
\* router that holds the root back has found is a failure of it.
LEMMA HeldIsOwn ==
  ASSUME NEW w \in WorkState, Held(w), NEW pass,
         \A r \in {w.compile, w.test, w.verify} : r = NoResult \/ r.pass = pass
  PROVE  Failure(w, pass)
  <1>1. PICK r \in {w.compile, w.test, w.verify} : Present(r) /\ (~ r.ok \/ w.review = "reject")
    BY HeldIs
  <1>2. Bad(w, r, pass)
    BY <1>1 DEF Bad, Present
  <1> QED
    BY <1>2 DEF Failure

LEMMA StoredIsOwn ==
  ASSUME ws \in WorkState, NEW o \in Operation, o.node \in NodeIds, Own(ws, o),
         NEW anchor \in {"compile", "test", "verify"}, NEW why \in {"passed", "failed", "boundary"}
  PROVE  LET got == [ws EXCEPT ![anchor] = Result(why, <<o.node, o.attempt>>)] IN
         /\ \A r \in {got.compile, got.test, got.verify} : r = NoResult \/ r.pass = <<o.node, o.attempt>>
         /\ got.report = ws.report /\ got.budget = ws.budget
  <1> DEFINE s == Result(why, <<o.node, o.attempt>>)
             got == [ws EXCEPT ![anchor] = s]
  <1>1. s.pass = <<o.node, o.attempt>>
    <2>1. <<o.node, o.attempt>> \in Passes
      BY DEF Operation, Passes
    <2> QED
      BY <2>1, ResultType
  <1> HIDE DEF s
  <1>2. got.report = ws.report /\ got.budget = ws.budget
    <2>1. anchor # "report" /\ anchor # "budget"
      OBVIOUS
    <2> QED
      BY <2>1 DEF WorkState
  <1>3. got.compile \in {ws.compile, s} /\ got.test \in {ws.test, s} /\ got.verify \in {ws.verify, s}
    BY DEF WorkState
  <1> HIDE DEF got
  <1>4. /\ \A r \in {got.compile, got.test, got.verify} : r = NoResult \/ r.pass = <<o.node, o.attempt>>
        /\ got.report = ws.report /\ got.budget = ws.budget
    BY <1>1, <1>2, <1>3 DEF Own
  <1> QED
    BY <1>4 DEF got, s

\* Where a routed pass sends the root: to dispatch exactly for root cause.
LEMMA RootAfterRoute ==
  ASSUME Types, op[RootAgent].pc \in Judging, op[RootAgent].node = cur, op[RootAgent].attempt > 0,
         RootAgent \in Actors, NEW step, AfterRoute(RootAgent, step)
  PROVE  \E o : /\ Goto(RootAgent, o) /\ (o.pc = "dispatch" <=> step = "RootCause")
                /\ o.pc # "units"
                /\ o.pc \in Judging \cup VerdictPlaces => o.node = cur /\ o.attempt > 0
  <1>1. op[RootAgent] \in Operation
    BY DEF Types
  <1>2. \A p \in {"idle", "dispatch"} : At(p).pc = p
    BY OperationType DEF OpPlaces
  <1>3. \A p \in OpPlaces :
          /\ [op[RootAgent] EXCEPT !.pc = p].pc = p
          /\ [op[RootAgent] EXCEPT !.pc = p].node = cur
          /\ [op[RootAgent] EXCEPT !.pc = p].attempt > 0
    BY <1>1, OperationType
  <1>4. {"test", "final", "completing", "failing"} \subseteq OpPlaces
    BY DEF OpPlaces
  <1> DEFINE Out(p) == At(p)
             In(p) == [op[RootAgent] EXCEPT !.pc = p]
  <1>5. \/ step = "RootCause" /\ Goto(RootAgent, Out("dispatch"))
        \/ step # "RootCause" /\ Goto(RootAgent, Out("idle"))
        \/ step # "RootCause" /\ \E p \in {"test", "final", "completing", "failing"} :
                                  Goto(RootAgent, In(p))
    BY DEF AfterRoute
  <1>6. CASE step = "RootCause" /\ Goto(RootAgent, Out("dispatch"))
    <2> WITNESS Out("dispatch")
    <2> QED
      BY <1>2, <1>6 DEF Judging, VerdictPlaces
  <1>7. CASE step # "RootCause" /\ Goto(RootAgent, Out("idle"))
    <2> WITNESS Out("idle")
    <2> QED
      BY <1>2, <1>7 DEF Judging, VerdictPlaces
  <1>8. ASSUME NEW p \in {"test", "final", "completing", "failing"}, step # "RootCause",
               Goto(RootAgent, In(p))
        PROVE  \E o : /\ Goto(RootAgent, o) /\ (o.pc = "dispatch" <=> step = "RootCause")
                      /\ o.pc # "units"
                      /\ o.pc \in Judging \cup VerdictPlaces => o.node = cur /\ o.attempt > 0
    <2> WITNESS In(p)
    <2> QED
      BY <1>3, <1>4, <1>8
  <1> QED
    BY <1>5, <1>6, <1>7, <1>8

\* A result stored, charged and routed: the root is held back exactly when it goes to
\* dispatch, with the failure and its route on record, in memory and on disk.
LEMMA RoutedRoot ==
  ASSUME Alone, RootInv, HoldInv', Types, op[RootAgent].pc \in Judging, RootAgent \in Actors,
         op[RootAgent].node \in NodeIds, rust, rust' = rust, cur' = cur, pending' = pending,
         NEW got, got.report = NoPass,
         \A r \in {got.compile, got.test, got.verify} :
           r = NoResult \/ r.pass = <<op[RootAgent].node, op[RootAgent].attempt>>,
         NEW w \in WorkState, NEW step, RoutedBy(RootAgent, got, w, step)
  PROVE  RootInv'
  <1>1. op[RootAgent].node = cur /\ op[RootAgent].attempt > 0 /\ op[RootAgent].attempt \in Nat
        /\ ws.report = NoPass
    BY DEF RootInv, PassIsCurrent, Types, Operation
  <1>2. ~ Waits
    BY DEF Waits, Waiting, Judging
  <1>3. ~ Held(ws) /\ ~ Held(saved) /\ pending = NoRoute /\ ~ RouteLocked
    BY <1>2, RootBusy
  <1>4. /\ SameJudgement(got, w) /\ w.report = ws.report
        /\ step = next_step(w) \/ (step = "Escalate" /\ ~ w.plan.diagnose)
        /\ ws' = Routed(w, op[RootAgent].node, op[RootAgent].attempt, step) /\ saved' = ws'
        /\ AfterRoute(RootAgent, step)
    BY DEF RoutedBy
  <1>5. /\ SameRoute(w, ws') /\ (step = "RootCause" => ws'.audit[cur].rootCause = op[RootAgent].attempt)
    BY <1>1, <1>4, RoutedRoute
  <1>6. step = "RootCause" <=> Held(w)
    BY <1>4, HeldIs DEF Held
  <1>7. Held(ws') <=> Held(w)
    BY <1>5, RouteIsSame DEF Held
  <1>8. PICK o : /\ Goto(RootAgent, o) /\ (o.pc = "dispatch" <=> step = "RootCause")
                 /\ o.pc # "units"
                 /\ o.pc \in Judging \cup VerdictPlaces => o.node = cur /\ o.attempt > 0
    BY <1>1, <1>4, RootAfterRoute
  <1>9. op'[RootAgent] = o /\ \A b \in Actors : b # RootAgent => op'[b] = op[b]
    BY <1>8 DEF Goto, Types
  <1>10. ws'.report = NoPass
    BY <1>1, <1>4, <1>5 DEF SameRoute
  <1>11. Reported(ws)' /\ Reported(saved)'
    BY <1>4, <1>10 DEF Reported
  <1>12. CASE step # "RootCause"
    <2>1. ~ Held(ws') /\ ~ Held(saved')
      BY <1>4, <1>6, <1>7, <1>12
    <2>2. RootGoes(o)
      BY <1>8, <1>10, <1>12 DEF RootGoes
    <2>3. pending' = NoRoute
      BY <1>3
    <2> QED
      BY <1>3, <1>9, <1>11, <2>1, <2>2, <2>3, MovesKeeps
  <1>13. CASE step = "RootCause"
    <2>1. o.pc = "dispatch" /\ Held(w)
      BY <1>6, <1>8, <1>13
    <2>2. \A r \in {w.compile, w.test, w.verify} :
            r = NoResult \/ r.pass = <<cur, op[RootAgent].attempt>>
      BY <1>1, <1>4 DEF SameJudgement, SameResults
    <2>3. Failure(w, <<cur, op[RootAgent].attempt>>)
      BY <2>1, <2>2, HeldIsOwn
    <2>4. Failure(ws', <<cur, op[RootAgent].attempt>>)
      BY <1>5, <2>3, FailureStays DEF SameRoute
    <2>5. cur # NoNode
      BY <1>1, Constants
    <2>6. Diagnosable(ws)' /\ Diagnosable(saved)'
      BY <1>1, <1>4, <1>5, <1>13, <2>4, <2>5 DEF Diagnosable
    <2>7. OnRecord'
      BY <1>11, <2>6 DEF OnRecord
    <2>8. /\ Actors = {RootAgent, Human, Daemon} \cup Children
          /\ RootAgent \notin Children /\ RootAgent # Human /\ RootAgent # Daemon
      BY ActorsApart
    <2>9. Placed'
      BY <1>9, <2>1, <2>8 DEF RootInv, Placed
    <2>10. ~ RouteLocked'
      BY <1>3, <1>9, <2>8 DEF RouteLocked
    <2>11. OnOwnNode'
      <3> SUFFICES ASSUME NEW b \in Children \cup {RootAgent}, op'[b].pc \in VerdictPlaces
                   PROVE  op'[b].node = cur
        BY DEF OnOwnNode
      <3> QED
        BY <1>9, <2>1, <2>8 DEF RootInv, OnOwnNode, VerdictPlaces
    <2>12. RootStays' /\ PassIsCurrent'
      BY <1>9, <2>1 DEF RootStays, Waits, Waiting, PassIsCurrent, Judging
    <2>13. RouteIsCurrent' /\ (Held(saved') => Held(ws'))
      BY <1>3, <1>4 DEF RouteIsCurrent
    <2> QED
      BY <2>7, <2>9, <2>11, <2>12, <2>13 DEF RootInv
  <1> QED
    BY <1>12, <1>13

LEMMA RecordRoot ==
  ASSUME Alone, RootInv, HoldInv', Types, PassInv, NEW a \in Agents, op[a].pc \in Judging,
         NEW anchor \in {"compile", "test", "verify"}, NEW why \in {"passed", "failed", "boundary"},
         RecordResult(a, anchor, why)
  PROVE  RootInv'
  <1> DEFINE got == [ws EXCEPT ![anchor] = Result(why, <<op[a].node, op[a].attempt>>)]
  <1>1. a = RootAgent /\ a \in Actors
    BY DEF Alone, Actors
  <1>2. op[a] \in Operation /\ rust /\ op[a].node \in NodeIds /\ Own(ws, op[a]) /\ ws \in WorkState
    BY JudgingHolds DEF Types, SharedTypes, Operation
  <1>3. rust' = rust /\ cur' = cur /\ pending' = pending
    BY DEF RecordResult, session_vars
  <1>4. ws.report = NoPass
    BY <1>1 DEF RootInv, PassIsCurrent
  <1>5. \/ ~ ws.budget.has /\ ws' = got /\ saved' = saved /\ Goto(a, Idle) /\ got \in WorkState
        \/ \E w \in WorkState : \E step : RoutedBy(a, got, w, step)
    BY <1>2, RecordRoutes
  <1>6. /\ \A r \in {got.compile, got.test, got.verify} :
             r = NoResult \/ r.pass = <<op[a].node, op[a].attempt>>
        /\ got.report = ws.report /\ got.budget = ws.budget
    BY <1>2, StoredIsOwn
  <1> HIDE DEF got
  <1>7. ASSUME NEW w \in WorkState, NEW step, RoutedBy(a, got, w, step)
        PROVE  RootInv'
    BY <1>1, <1>2, <1>3, <1>4, <1>6, <1>7, RoutedRoot
  <1>8. CASE ~ ws.budget.has /\ ws' = got /\ saved' = saved /\ Goto(a, Idle) /\ got \in WorkState
    <2>1. ~ Waits
      BY <1>1 DEF Waits, Waiting, Judging
    <2>2. ~ Held(ws) /\ ~ Held(saved) /\ pending = NoRoute /\ ~ RouteLocked
      BY <2>1, RootBusy
    <2>3. ws'.budget.left = 0 /\ ws'.report = NoPass
      BY <1>4, <1>6, <1>8 DEF RootInv, HoldInv, Unlent
    <2>4. ~ Held(ws') /\ ~ Held(saved')
      BY <1>8, <2>2, <2>3, NothingLeft
    <2>5. op'[RootAgent] = Idle /\ \A b \in Actors : b # RootAgent => op'[b] = op[b]
      BY <1>1, <1>8 DEF Goto, Types
    <2>6. Reported(ws)'
      BY <2>3 DEF Reported
    <2>7. Reported(saved)'
      BY <1>3, <1>8 DEF RootInv, OnRecord, Reported
    <2>8. pending' = NoRoute
      BY <1>3, <2>2
    <2> QED
      BY <2>2, <2>4, <2>5, <2>6, <2>7, <2>8, RestsKeeps
  <1> QED
    BY <1>5, <1>7, <1>8

\* verify_node without anchors never holds the root back: there is no compile result.
LEMMA LegacyRoot ==
  ASSUME Alone, RootInv, HoldInv', Types, Types', PassInv, NEW a \in Agents, LegacyFinish(a)
  PROVE  RootInv'
  <1>1. /\ a = RootAgent /\ a \in Actors /\ op[a].pc = "legacyend" /\ ws \in WorkState
        /\ rust' = rust /\ cur' = cur /\ pending' = pending /\ Goto(a, Idle)
    BY DEF Alone, Actors, Types, SharedTypes, LegacyFinish
  <1>2. ~ rust /\ ws.compile = NoResult
    BY <1>1 DEF PassInv, OneMode, Legacy
  <1>3. ~ Waits
    BY <1>1 DEF Waits, Waiting
  <1>4. ~ Held(ws) /\ ~ Held(saved) /\ pending = NoRoute /\ ~ RouteLocked
    BY <1>3, RootBusy
  <1>5. ws.report = NoPass
    BY <1>2 DEF RootInv, OnRecord, Reported
  <1>6. CASE UNCHANGED <<ws, saved>>
    <2>1. Plain
      BY <1>1, <1>6 DEF Plain
    <2> QED
      BY <1>1, <2>1, IdleSuits, PlainKeeps
  <1>7. CASE Capture([ws EXCEPT !.verify = Result(op[a].why, <<op[a].node, 0>>)])
    <2>0. PICK r : ws' = [ws EXCEPT !.verify = r] /\ saved' = ws'
      BY <1>7 DEF Capture
    <2>1. ws'.compile = NoResult /\ ws'.report = NoPass /\ saved' = ws'
      BY <1>1, <1>2, <1>5, <2>0 DEF WorkState
    <2>2. ws' \in WorkState
      BY DEF Types, SharedTypes
    <2>3. ~ Held(ws')
      BY <2>1, <2>2, HeldIs DEF Present
    <2>4. op'[RootAgent] = Idle /\ \A b \in Actors : b # RootAgent => op'[b] = op[b]
      BY <1>1 DEF Goto, Types
    <2>5. Reported(ws)' /\ Reported(saved)'
      BY <2>1 DEF Reported
    <2>6. pending' = NoRoute
      BY <1>1, <1>4
    <2> QED
      BY <1>4, <2>1, <2>3, <2>4, <2>5, <2>6, RestsKeeps
  <1> QED
    BY <1>6, <1>7 DEF LegacyFinish

\* rollback_node goes back to a state on disk that holds nobody back either.
LEMMA RollbackRoot ==
  ASSUME Alone, RootInv, HoldInv', Types, NEW a \in Agents, rollback_node(a)
  PROVE  RootInv'
  <1>1. /\ a = RootAgent /\ a \in Actors /\ op[a].pc = "rollback"
        /\ ws \in WorkState /\ saved \in WorkState
        /\ rust' = rust /\ pending' = pending /\ Goto(a, Idle) /\ ws' = RolledBack /\ saved' = saved
    BY DEF Alone, Actors, Types, SharedTypes, rollback_node, NoCapture
  <1>2. ~ Waits
    BY <1>1 DEF Waits, Waiting
  <1>3. ~ Held(ws) /\ ~ Held(saved) /\ pending = NoRoute /\ ~ RouteLocked
    BY <1>2, RootBusy
  <1>4. SameRoute(saved, ws')
    BY <1>1, RolledBackRoute DEF RootInv, HoldInv
  <1>5. ~ Held(ws')
    BY <1>3, <1>4, RouteIsSame DEF Held
  <1>6. Reported(ws)' /\ Reported(saved)'
    <2>1. Reported(saved)
      BY DEF RootInv, OnRecord
    <2>2. Reported(ws)'
      BY <1>1, <1>4, <2>1, ReportedStays DEF SameRoute, Reported
    <2> QED
      BY <1>1, <2>1, <2>2 DEF Reported
  <1>7. op'[RootAgent] = Idle /\ \A b \in Actors : b # RootAgent => op'[b] = op[b]
    BY <1>1 DEF Goto, Types
  <1> QED
    BY <1>1, <1>3, <1>5, <1>6, <1>7, RestsKeeps

\* The root asks for its specialist, and so does the daemon after a restart.
LEMMA ReserveRoot ==
  ASSUME Alone, RootInv, HoldInv', Types, NEW a \in {RootAgent, Daemon}, Diagnosable(ws), Waits,
         Reserve(a), UNCHANGED <<cur, ws, saved, rust>>
  PROVE  RootInv'
  <1>1. /\ Actors = {RootAgent, Human, Daemon} \cup Children
        /\ RootAgent \notin Children /\ Human \notin Children /\ Daemon \notin Children
        /\ RootAgent # Human /\ RootAgent # Daemon /\ Human # Daemon
    BY ActorsApart
  <1>2. At("launch").pc = "launch"
    BY OperationType DEF OpPlaces
  <1>3. /\ op'[a].pc = "launch" /\ \A b \in Actors : b # a => op'[b] = op[b]
        /\ pending'.node = cur /\ pending'.attempt = ws.audit[cur].rootCause
    BY <1>1, <1>2 DEF Reserve, Goto, Types
  <1>4. Placed'
    BY <1>1, <1>3 DEF RootInv, Placed
  <1>5. OnOwnNode'
    <2> SUFFICES ASSUME NEW b \in Children \cup {RootAgent}, op'[b].pc \in VerdictPlaces
                 PROVE  op'[b].node = cur
      BY DEF OnOwnNode
    <2> QED
      BY <1>1, <1>3 DEF RootInv, OnOwnNode, VerdictPlaces
  <1>6. Waits'
    BY <1>1, <1>3 DEF Waits, Waiting
  <1>7. RootStays' /\ PassIsCurrent'
    BY <1>6 DEF RootStays, PassIsCurrent, Waits, Waiting, Judging
  <1>8. Diagnosable(ws)' /\ (Held(saved') => Diagnosable(saved)') /\ Reported(ws)' /\ Reported(saved)'
    BY DEF RootInv, OnRecord, Diagnosable, Reported
  <1>9. OnRecord'
    BY <1>8 DEF OnRecord
  <1>10. RouteIsCurrent'
    BY <1>3 DEF RouteIsCurrent
  <1> QED
    BY <1>4, <1>5, <1>7, <1>9, <1>10 DEF RootInv

LEMMA DispatchRoot ==
  ASSUME Alone, RootInv, HoldInv', Types, NEW a \in Agents, prepare_root_cause_dispatch(a)
  PROVE  RootInv'
  <1>1. /\ a = RootAgent /\ a \in Actors /\ op[a].pc = "dispatch"
        /\ rust' = rust /\ cur' = cur /\ ws' = ws /\ saved' = saved
    BY DEF Alone, Actors, prepare_root_cause_dispatch, session_vars
  <1>2. CASE Reserve(a)
    <2>1. Diagnosable(ws) /\ Waits
      BY <1>1 DEF RootInv, OnRecord, Waits, Waiting
    <2> QED
      BY <1>1, <1>2, <2>1, ReserveRoot
  <1>3. CASE pending' = pending /\ Goto(a, Idle)
    <2>1. Plain
      BY <1>1, <1>3 DEF Plain
    <2> QED
      BY <1>1, <1>3, <2>1, IdleSuits, PlainKeeps
  <1> QED
    BY <1>2, <1>3 DEF prepare_root_cause_dispatch

LEMMA RecoveredRoot ==
  ASSUME Alone, RootInv, HoldInv', Types, prepare_recovered_root_cause_dispatch
  PROVE  RootInv'
  <1>1. Held(ws) /\ Reserve(Daemon) /\ rust' = rust /\ cur' = cur /\ ws' = ws /\ saved' = saved
    BY DEF prepare_recovered_root_cause_dispatch, Held, session_vars
  <1>2. Diagnosable(ws) /\ Waits
    BY <1>1 DEF RootInv, OnRecord, RootStays
  <1> QED
    BY <1>1, <1>2, ReserveRoot

\* The child is bound, its launcher is at rest, and what is in memory is on disk.
LEMMA BindRoot ==
  ASSUME Alone, RootInv, HoldInv', Types, NEW a \in Agents \cup {Daemon}, NEW c \in Children,
         try_bind_root_cause_child(a, c)
  PROVE  RootInv'
  <1>1. /\ Actors = {RootAgent, Human, Daemon} \cup Children
        /\ RootAgent \notin Children /\ Human \notin Children /\ Daemon \notin Children
        /\ RootAgent # Human /\ RootAgent # Daemon /\ Human # Daemon
        /\ a \in {RootAgent, Daemon}
    BY ActorsApart DEF Alone
  <1>2. \E p \in {"done", "running"} : op' = [op EXCEPT ![a] = Idle, ![c] = At(p)]
    BY DEF try_bind_root_cause_child
  <1>3. PICK p \in {"done", "running"} : op' = [op EXCEPT ![a] = Idle, ![c] = At(p)]
    BY <1>2
  <1>4. At(p).pc = p /\ At(p).units = 0 /\ Idle.pc = "idle"
    BY OperationType DEF OpPlaces, Idle
  <1>5. /\ op'[a].pc = "idle" /\ op'[c].pc = p /\ op'[c].units = 0
        /\ \A b \in Actors : b # a /\ b # c => op'[b] = op[b]
    BY <1>1, <1>3, <1>4 DEF Types
  <1>6. /\ pending # NoRoute /\ pending' = [pending EXCEPT !.child = c]
        /\ ws' = ws /\ saved' \in {ws, saved} /\ cur' = cur /\ rust' = rust
    BY DEF try_bind_root_cause_child, session_vars
  <1>7. pending'.node = pending.node /\ pending'.attempt = pending.attempt
    BY <1>6 DEF Types, SharedTypes, Route
  <1>8. Waits /\ Diagnosable(ws)
    BY <1>6 DEF RootInv, RootStays, OnRecord
  <1>9. Placed'
    BY <1>1, <1>5 DEF RootInv, Placed, ChildPlaces
  <1>10. OnOwnNode'
    <2> SUFFICES ASSUME NEW b \in Children \cup {RootAgent}, op'[b].pc \in VerdictPlaces
                 PROVE  op'[b].node = cur
      BY <1>6 DEF OnOwnNode
    <2> QED
      BY <1>1, <1>5 DEF RootInv, OnOwnNode, VerdictPlaces
  <1>11. Waits'
    BY <1>1, <1>5, <1>8 DEF Waits, Waiting
  <1>12. RootStays' /\ PassIsCurrent'
    BY <1>11 DEF RootStays, PassIsCurrent, Waits, Waiting, Judging
  <1>13. Diagnosable(ws)' /\ (Held(saved') => Diagnosable(saved)') /\ Reported(ws)' /\ Reported(saved)'
    BY <1>6, <1>8 DEF RootInv, OnRecord, Diagnosable, Reported
  <1>14. OnRecord'
    BY <1>13 DEF OnRecord
  <1>15. RouteIsCurrent' /\ (Held(saved') => Held(ws'))
    BY <1>6, <1>7 DEF RootInv, RouteIsCurrent
  <1> QED
    BY <1>9, <1>10, <1>12, <1>14, <1>15 DEF RootInv

LEMMA LaunchRoot ==
  ASSUME Alone, RootInv, HoldInv', Types, NEW a \in Agents \cup {Daemon}, Launch(a) \/ DropLaunch(a)
  PROVE  RootInv'
  <1>1. a \in Actors
    BY DEF Actors
  <1>2. CASE cancel_root_cause_dispatch(a) \/ DropLaunch(a)
    <2>1. Plain /\ Goto(a, Idle)
      BY <1>2 DEF Plain, cancel_root_cause_dispatch, DropLaunch, session_vars
    <2> QED
      BY <1>1, <2>1, IdleSuits, PlainKeeps
  <1> QED
    BY <1>2, BindRoot DEF Launch

\* The report the root waits for is about the failure that is to be diagnosed.
LEMMA ReportRoot ==
  ASSUME Alone, RootInv, HoldInv', Types, NEW c \in Children, record_specialist_report(c)
  PROVE  RootInv'
  <1>1. /\ c \in Actors /\ op[c].pc = "running" /\ rust' = rust /\ cur' = cur
        /\ HasCurrent /\ op' = op
    BY DEF Actors, record_specialist_report, ReportMatches, session_vars
  <1>2. /\ SameJudgement(ws, ws') /\ SameCauses(ws, ws') /\ ws' \in WorkState
        /\ ws'.budget = ws.budget /\ ws'.plan = ws.plan
        /\ ws'.report = <<pending.node, pending.attempt>>
        /\ saved' = ws' \/ (saved' = saved /\ next_step(ws') # "Implement")
        /\ pending' \in {pending, NoRoute} /\ ReportMatches(c)
    BY <1>1, ReportRoute
  <1>3. pending.child = c /\ pending.node = cur /\ pending.attempt = ws.audit[cur].rootCause
    BY <1>2 DEF ReportMatches
  <1>4. pending # NoRoute
    <2>1. NoRoute.child = Nobody /\ c # Nobody
      BY <1>1, NobodyAssumption DEF NoRoute
    <2> QED
      BY <1>3, <2>1
  <1>5. Waits /\ Diagnosable(ws)
    BY <1>4 DEF RootInv, RootStays, OnRecord
  <1>6. rust /\ Failure(ws', ws'.report)
    <2>1. Failure(ws, <<cur, ws.audit[cur].rootCause>>) /\ rust
      BY <1>5 DEF Diagnosable
    <2>2. Failure(ws', <<cur, ws.audit[cur].rootCause>>)
      BY <1>2, <2>1, FailureStays
    <2> QED
      BY <1>2, <1>3, <2>1, <2>2
  <1>7. ws'.report # NoPass
    BY <1>2, <1>3, <1>5 DEF Diagnosable, NoPass
  <1>8. ~ Held(ws')
    BY <1>2, <1>7, HeldIs
  <1>9. Held(ws) => next_step(ws') = "Implement"
    <2> SUFFICES ASSUME Held(ws) PROVE next_step(ws') = "Implement"
      OBVIOUS
    <2>1. ws'.budget.left # 0
      BY <1>2, HeldIs DEF Types, SharedTypes
    <2>2. retry_or_escalate(ws') = "Implement"
      BY <1>7, <2>1 DEF retry_or_escalate
    <2>3. retry_or_escalate(ws) = "RootCause"
      BY DEF Held, next_step
    <2> QED
      BY <1>2, <2>2 DEF SameJudgement, SameResults, Held, next_step, Present
  <1>10. Mild
    BY <1>1, <1>2, <1>5, <1>6, <1>8, <1>9 DEF Mild
  <1>11. Suits(c, op[c])
    <2>1. c # RootAgent /\ c # Daemon /\ c # Human
      BY ActorsApart
    <2> QED
      BY <1>1, <2>1 DEF RootInv, Placed, Suits, ChildPlaces
  <1>12. Goto(c, op[c])
    BY <1>1 DEF Goto, Types
  <1> QED
    BY <1>1, <1>10, <1>11, <1>12, MildKeeps

\* A child that ends without one leaves nothing to hold the root for.
LEMMA ChildEndsRoot ==
  ASSUME Alone, RootInv, HoldInv', Types, Types', NEW c \in Children, ChildEnds(c)
  PROVE  RootInv'
  <1>1. c \in Actors /\ rust' = rust /\ cur' = cur /\ resolve_root_cause_child_terminal(c)
    BY DEF Actors, ChildEnds, resolve_root_cause_child_terminal, session_vars
  <1>2. CASE Goto(c, At("done")) /\ UNCHANGED <<ws, saved, pending>>
    <2>1. Plain
      BY <1>1, <1>2 DEF Plain
    <2> QED
      BY <1>1, <1>2, <2>1, IdleSuits, PlainKeeps
  <1>3. CASE /\ ws' \in WorkState /\ SameJudgement(ws, ws') /\ SameCauses(ws, ws')
             /\ ws'.units = ws.units /\ ws'.budget.left = 0 /\ ws'.report = ws.report /\ saved' = ws'
             /\ pending.child = c /\ pending' = NoRoute
             /\ Goto(c, [At("failing") EXCEPT !.node = pending.node])
    <2> DEFINE o == [At("failing") EXCEPT !.node = pending.node]
    <2>1. pending # NoRoute
      <3>1. NoRoute.child = Nobody /\ c # Nobody
        BY <1>1, NobodyAssumption DEF NoRoute
      <3> QED
        BY <1>3, <3>1
    <2>2. Waits /\ pending.node = cur
      BY <2>1 DEF RootInv, RootStays, RouteIsCurrent
    <2>3. ~ Held(ws')
      BY <1>3, NothingLeft
    <2>4. Mild
      BY <1>1, <1>3, <2>3 DEF Mild
    <2>5. o.pc = "failing" /\ o.node = cur /\ o.units = 0
      <3>1. At("failing") \in Operation /\ At("failing").pc = "failing" /\ At("failing").units = 0
        BY OperationType DEF OpPlaces
      <3> QED
        BY <2>2, <3>1 DEF Operation
    <2> HIDE DEF o
    <2>6. c # RootAgent /\ c # Daemon /\ c # Human
      BY ActorsApart
    <2>7. Suits(c, o)
      BY <2>2, <2>5, <2>6 DEF Suits, ChildPlaces
    <2>8. Goto(c, o)
      BY <1>3 DEF o
    <2> QED
      BY <1>1, <2>4, <2>7, <2>8, MildKeeps
  <1> QED
    BY <1>1, <1>2, <1>3, ChildEndsRoute

\* A verdict is marked, on its own node.
LEMMA SettleRoot ==
  ASSUME Alone, RootInv, HoldInv', Types, NEW a \in Actors, Settle(a)
  PROVE  RootInv'
  <1>1. /\ Actors = {RootAgent, Human, Daemon} \cup Children
        /\ RootAgent \notin Children /\ Human \notin Children /\ Daemon \notin Children
        /\ RootAgent # Human /\ RootAgent # Daemon /\ Human # Daemon
    BY ActorsApart
  <1>2. Plain
    BY DEF Plain, Settle, mark_completed, MarkVerified, mark_failed, MarkFailed, MarkFailedAgain,
           LockError, session_vars
  <1>3. /\ op[a] \in Operation
        /\ op[a].pc \notin {"idle", "running", "done", "launch", "dispatch"}
    BY DEF Types, Settle, mark_completed, MarkVerified, mark_failed, MarkFailed, MarkFailedAgain,
           LockError
  <1>4. a \in Children \cup {RootAgent}
    BY <1>1, <1>3 DEF RootInv, Placed
  <1>5. \A p \in OpPlaces : LET o == [op[a] EXCEPT !.pc = p] IN
          o.pc = p /\ o.node = op[a].node /\ o.units = op[a].units
    BY <1>3 DEF Operation
  <1>6. \/ Goto(a, Idle) \/ (a \in Children /\ Goto(a, At("done")))
        \/ \E p \in {"marking", "failmark", "failagain"} :
             /\ op[a].pc \in VerdictPlaces /\ Goto(a, [op[a] EXCEPT !.pc = p])
             /\ p = "marking" => op[a].pc = "completing"
             /\ p = "failagain" => op[a].units > 0
    <2>1. CASE mark_completed(a)
      BY <2>1 DEF mark_completed, VerdictPlaces
    <2>2. CASE MarkVerified(a) \/ MarkFailedAgain(a)
      BY <2>2 DEF MarkVerified, MarkFailedAgain
    <2>3. CASE mark_failed(a)
      BY <2>3 DEF mark_failed, VerdictPlaces
    <2>4. CASE MarkFailed(a)
      BY <2>4 DEF MarkFailed, VerdictPlaces, Ended
    <2>5. CASE LockError(a)
      BY <2>5 DEF LockError, Ended
    <2> QED
      BY <2>1, <2>2, <2>3, <2>4, <2>5 DEF Settle
  <1>7. ASSUME NEW p \in {"marking", "failmark", "failagain"}, op[a].pc \in VerdictPlaces,
               Goto(a, [op[a] EXCEPT !.pc = p]),
               p = "marking" => op[a].pc = "completing", p = "failagain" => op[a].units > 0
        PROVE  RootInv'
    <2>1. PICK o : o = [op[a] EXCEPT !.pc = p]
      OBVIOUS
    <2>2. o.pc = p /\ o.node = op[a].node /\ o.units = op[a].units
      BY <1>5, <2>1 DEF OpPlaces
    <2>3. op[a].node = cur
      BY <1>4, <1>7 DEF RootInv, OnOwnNode
    <2>4. CASE a = RootAgent
      <3>1. ~ Waits
        BY <1>7, <2>4 DEF Waits, Waiting, VerdictPlaces
      <3> QED
        BY <1>1, <1>2, <1>7, <2>1, <2>2, <2>3, <2>4, <3>1, PlainKeeps DEF Suits, Judging, VerdictPlaces
    <2>5. CASE a \in Children
      <3>1. op[a].pc \in {"failing", "failmark"} /\ op[a].units = 0
        BY <1>7, <2>5 DEF RootInv, Placed, ChildPlaces, VerdictPlaces
      <3>2. RouteLocked
        BY <2>5, <3>1 DEF RouteLocked
      <3>3. Waits
        BY <3>2 DEF RootInv, RootStays
      <3>4. p = "failmark"
        BY <1>7, <3>1
      <3>5. Suits(a, o)
        BY <1>1, <2>2, <2>3, <2>5, <3>1, <3>3, <3>4 DEF Suits, ChildPlaces
      <3> QED
        BY <1>2, <1>7, <2>1, <3>5, PlainKeeps
    <2> QED
      BY <1>4, <2>4, <2>5
  <1> QED
    BY <1>2, <1>6, <1>7, IdleSuits, PlainKeeps

\* Nobody is in the middle of anything after a restart.
LEMMA RestartPlaces ==
  ASSUME Alone, op' = RestartOps
  PROVE  /\ Waits' /\ ~ RouteLocked' /\ Placed' /\ OnOwnNode' /\ PassIsCurrent'
         /\ op'[RootAgent].pc = "idle"
  <1>1. /\ Actors = {RootAgent, Human, Daemon} \cup Children
        /\ RootAgent \notin Children /\ Human \notin Children /\ Daemon \notin Children
    BY ActorsApart
  <1>2. Idle.pc = "idle" /\ Idle.units = 0
    BY DEF Idle
  <1>3. At("done").pc = "done" /\ At("done").units = 0
    BY OperationType DEF OpPlaces
  <1>4. \A b \in Actors : op'[b] = Idle \/ (b \in Children /\ op'[b] = At("done"))
    BY DEF RestartOps
  <1>5. \A b \in Actors : /\ op'[b].pc = "idle" \/ (b \in Children /\ op'[b].pc = "done")
                          /\ op'[b].units = 0
    BY <1>2, <1>3, <1>4
  <1> QED
    BY <1>1, <1>5 DEF Waits, Waiting, RouteLocked, Placed, ChildPlaces, OnOwnNode, VerdictPlaces,
                      PassIsCurrent, Judging

\* A restart finds the hold on disk, and what it is about.
LEMMA RestartRoot ==
  ASSUME Alone, RootInv, HoldInv', Types, Restart
  PROVE  RootInv'
  <1>1. /\ op' = RestartOps /\ pending' = NoRoute /\ ws' = saved /\ saved' = saved
        /\ cur' = cur /\ rust' = rust
    BY DEF Restart, NoCapture, session_vars
  <1>2. /\ Waits' /\ ~ RouteLocked' /\ Placed' /\ OnOwnNode' /\ PassIsCurrent'
        /\ op'[RootAgent].pc = "idle"
    BY <1>1, RestartPlaces
  <1>3. OnRecord'
    BY <1>1, <1>2 DEF RootInv, OnRecord, Diagnosable, Reported
  <1> QED
    BY <1>1, <1>2, <1>3 DEF RootInv, RootStays, RouteIsCurrent

LEMMA CrashRoot ==
  ASSUME Alone, RootInv, HoldInv', Types, NEW a \in Agents, CrashInBegin(a)
  PROVE  RootInv'
  <1>1. /\ a = RootAgent /\ op[a].pc = "begin"
        /\ op' = RestartOps /\ pending' = NoRoute /\ ws' = saved /\ saved' = saved /\ rust' = rust
    BY DEF Alone, CrashInBegin, NoCapture
  <1>2. ~ Held(saved)
    BY <1>1, RootBusy DEF Waits, Waiting
  <1>3. /\ Waits' /\ ~ RouteLocked' /\ Placed' /\ OnOwnNode' /\ PassIsCurrent'
        /\ op'[RootAgent].pc = "idle"
    BY <1>1, RestartPlaces
  <1>4. OnRecord'
    BY <1>1, <1>2, <1>3 DEF RootInv, OnRecord, Reported
  <1> QED
    BY <1>1, <1>2, <1>3, <1>4 DEF RootInv, RootStays, RouteIsCurrent

LEMMA ProceedRoot ==
  ASSUME Alone, RootInv, HoldInv', Types, Types', PassInv, NEW a \in Agents, Proceed(a)
  PROVE  RootInv'
  <1>1. op[a].pc # "units" /\ UnitCounts = {}
    BY DEF Alone, RootInv, Placed
  <1>2. ~ RouteParent(a)
    BY <1>1 DEF RouteParent
  <1>3. ASSUME NEW used, NEW ok
        PROVE  ~ RunUnit(a, used, ok)
    BY <1>1 DEF RunUnit
  <1>4. ASSUME NEW why \in {"passed", "failed", "boundary"},
               \/ record_compile_result(a, why) \/ record_test_result(a, why)
               \/ record_verify_result(a, why)
        PROVE  RootInv'
    BY <1>4, RecordRoot
    DEF record_compile_result, record_test_result, record_verify_result, Judging
  <1> QED
    BY <1>1, <1>2, <1>3, <1>4, ProceedPlain, BeginRoot, PrepareRoot, LegacyVerdictRoot, LegacyRoot,
       RollbackRoot, DispatchRoot DEF Proceed

\* The hold, its route, its report and its verdicts stay about one node and attempt.
LEMMA RootStep ==
  ASSUME Alone, RootInv, HoldInv', Types, Types', PassInv, Next
  PROVE  RootInv'
  <1>1. ASSUME NEW a \in Agents, Drop(a)
        PROVE  RootInv'
    <2>1. a \in Actors /\ Plain /\ Goto(a, Idle)
      BY <1>1 DEF Actors, Drop, Plain, Finish, session_vars
    <2> QED
      BY <2>1, IdleSuits, PlainKeeps
  <1>2. ASSUME NEW c \in Children, AbortChild(c)
        PROVE  RootInv'
    <2>1. c \in Actors /\ Plain /\ Goto(c, At("done"))
      BY <1>2 DEF Actors, AbortChild, Plain, session_vars
    <2> QED
      BY <2>1, IdleSuits, PlainKeeps
  <1>3. Verdicts = {}
    BY DEF Alone
  <1> QED
    BY <1>1, <1>2, <1>3, AdmissionRoot, ProceedRoot, SettleRoot, LaunchRoot, RecoveredRoot,
       ReportRoot, ChildEndsRoot, CrashRoot, RestartRoot, StepIs

LEMMA RootInit ==
  ASSUME Alone, Init
  PROVE  RootInv
  <1>1. /\ ws = DefaultWorkState /\ saved = DefaultWorkState /\ pending = NoRoute
        /\ \A a \in Actors : op[a] = Idle
    BY DEF Init
  <1>2. /\ DefaultWorkState.units = <<>> /\ DefaultWorkState.budget.left = 0
        /\ DefaultWorkState.report = NoPass
    BY DEF DefaultWorkState, NoBudget
  <1>3. ~ Held(DefaultWorkState)
    BY <1>2, NothingLeft, Constants
  <1>4. Idle.pc = "idle" /\ Idle.units = 0
    BY DEF Idle
  <1>5. /\ Actors = {RootAgent, Human, Daemon} \cup Children
    BY ActorsApart
  <1>6. HoldInv /\ RootStays /\ RouteIsCurrent
    BY <1>1, <1>2, <1>3, <1>4, <1>5 DEF HoldInv, Unlent, RootStays, Waits, Waiting, RouteIsCurrent
  <1>7. OnRecord /\ OnOwnNode /\ Placed /\ PassIsCurrent
    BY <1>1, <1>2, <1>3, <1>4, <1>5
    DEF OnRecord, Reported, OnOwnNode, VerdictPlaces, Placed, ChildPlaces, PassIsCurrent, Judging
  <1> QED
    BY <1>1, <1>3, <1>6, <1>7 DEF RootInv

\* What the runs check follows.
LEMMA RootHeld ==
  ASSUME RootInv, InChain
  PROVE  HeldForADiagnosis
  BY DEF RootInv, HoldInv, OnRecord, Diagnosable, InChain, HasCurrent, HeldForADiagnosis,
         GateSurvivesRestart, HeldOnlyForANode, Held

LEMMA RootVerdicts ==
  ASSUME Alone, RootInv
  PROVE  VerdictsAreAboutTheirNode
  <1>1. ReportIsForThisFailure
    <2> SUFFICES ASSUME ws.report # NoPass
                 PROVE  \E r \in {ws.compile, ws.test, ws.verify} :
                          Present(r) /\ r.pass = ws.report /\ (~ r.ok \/ ws.review = "reject")
      BY DEF ReportIsForThisFailure
    <2>1. Failure(ws, ws.report)
      BY DEF RootInv, OnRecord, Reported
    <2>2. CASE Bad(ws, ws.compile, ws.report)
      <3> WITNESS ws.compile \in {ws.compile, ws.test, ws.verify}
      <3> QED
        BY <2>2 DEF Bad
    <2>3. CASE Bad(ws, ws.test, ws.report)
      <3> WITNESS ws.test \in {ws.compile, ws.test, ws.verify}
      <3> QED
        BY <2>3 DEF Bad
    <2>4. CASE Bad(ws, ws.verify, ws.report)
      <3> WITNESS ws.verify \in {ws.compile, ws.test, ws.verify}
      <3> QED
        BY <2>4 DEF Bad
    <2> QED
      BY <2>1, <2>2, <2>3, <2>4 DEF Failure
  <1>2. VerdictOnOwnNode
    BY ActorsApart DEF RootInv, OnOwnNode, Placed, VerdictPlaces, VerdictOnOwnNode
  <1> QED
    BY <1>1, <1>2 DEF VerdictsAreAboutTheirNode

\* While the root is held back only a child or a restart changes the work state.
LEMMA HeldStep ==
  ASSUME Alone, RootInv, Types, Next, Held(ws)
  PROVE  Held(ws') \/ ws'.report # NoPass \/ ws'.budget.left = 0
  <1>1. Waits
    BY DEF RootInv, RootStays
  <1>2. CASE Restart
    BY <1>2 DEF Restart, NoCapture, RootInv, HoldInv
  <1>3. ASSUME NEW c \in Children, record_specialist_report(c)
        PROVE  ws'.report # NoPass
    <2>1. HasCurrent
      BY <1>3 DEF record_specialist_report, ReportMatches
    <2>2. ws'.report = <<pending.node, pending.attempt>> /\ ReportMatches(c)
      BY <1>3, <2>1, ReportRoute
    <2>3. pending.node # NoNode
      BY <2>1, <2>2, CurrentIsNode, Constants DEF ReportMatches
    <2> QED
      BY <2>2, <2>3 DEF NoPass
  <1>4. ASSUME NEW c \in Children, ChildEnds(c)
        PROVE  ws' = ws \/ ws'.budget.left = 0
    BY <1>4, ChildEndsRoute DEF ChildEnds
  <1>5. ASSUME NEW a \in Agents, Proceed(a)
        PROVE  ws' = ws
    <2>1. op[a].pc \in Waiting /\ UnitCounts = {}
      BY <1>1 DEF Alone, Waits
    <2>2. /\ ~ verify_current_node(a) /\ ~ run_decomposed_units(a) /\ ~ RouteParent(a)
          /\ ~ prepare_work_graph_pass(a)
      BY <2>1 DEF Waiting, verify_current_node, run_decomposed_units, RouteParent, prepare_work_graph_pass
    <2>3. /\ ~ LegacyRead(a) /\ ~ LegacyVerifying(a) /\ ~ LegacyFinish(a) /\ ~ rollback_node(a)
          /\ ~ RollbackRefused(a)
      BY <2>1 DEF Waiting, LegacyRead, LegacyVerifying, LegacyFinish, rollback_node, RollbackRefused
    <2>4. ASSUME NEW r
          PROVE  ~ BeginNode(a, r)
      BY <2>1 DEF Waiting, BeginNode
    <2>5. ASSUME NEW used, NEW ok
          PROVE  ~ RunUnit(a, used, ok)
      BY <2>1 DEF Waiting, RunUnit
    <2>6. ASSUME NEW why
          PROVE  /\ ~ record_compile_result(a, why) /\ ~ record_test_result(a, why)
                 /\ ~ record_verify_result(a, why) /\ ~ verify_and_complete(a, why)
      BY <2>1 DEF Waiting, record_compile_result, record_test_result, record_verify_result,
                  verify_and_complete
    <2>7. prepare_root_cause_dispatch(a)
      BY <1>5, <2>1, <2>2, <2>3, <2>4, <2>5, <2>6 DEF Proceed
    <2> QED
      BY <2>7 DEF prepare_root_cause_dispatch
  <1>6. ASSUME NEW a \in Agents
        PROVE  ~ CrashInBegin(a)
    BY <1>1 DEF CrashInBegin, Alone, Waits, Waiting
  <1>7. CASE \/ \E a \in Agents, tool \in Tools : execute_with_context(a, tool)
             \/ \E a \in Actors : Settle(a)
             \/ \E a \in Agents \cup {Daemon} : Launch(a) \/ DropLaunch(a)
             \/ prepare_recovered_root_cause_dispatch
             \/ \E a \in Agents : Drop(a)
             \/ \E c \in Children : AbortChild(c)
    BY <1>7 DEF execute_with_context, Settle, mark_completed, MarkVerified, mark_failed, MarkFailed,
                MarkFailedAgain, LockError, Launch, try_bind_root_cause_child,
                cancel_root_cause_dispatch, DropLaunch, prepare_recovered_root_cause_dispatch,
                Drop, AbortChild
  <1>8. Verdicts = {}
    BY DEF Alone
  <1> QED
    BY <1>2, <1>3, <1>4, <1>5, <1>6, <1>7, <1>8, StepIs

\* The whole invariant of a root on its own
AloneInv == SessionInv /\ RootInv

LEMMA AloneStep ==
  ASSUME Alone
  PROVE  /\ Init => AloneInv
         /\ AloneInv /\ [Next]_vars => AloneInv'
  <1>1. AloneInv /\ Next => HoldInv'
    BY HoldStep DEF Alone, AloneInv, SessionInv, JudgedInv, PassInv, RootInv
  <1>2. AloneInv /\ [Next]_vars => SessionInv'
    BY SessionStep DEF AloneInv
  <1>3. AloneInv /\ Next => RootInv'
    BY <1>1, <1>2, RootStep DEF AloneInv, SessionInv, JudgedInv
  <1>4. AloneInv /\ UNCHANGED vars => RootInv'
    BY DEF AloneInv, vars, RootInv, HoldInv, RootStays, Waits, RouteLocked, OnRecord, Diagnosable,
           Reported, RouteIsCurrent, OnOwnNode, Placed, PassIsCurrent
  <1> QED
    BY <1>2, <1>3, <1>4, SessionInit, RootInit DEF AloneInv

\* The root is held back only where a specialist can be asked, and after a restart as
\* before: whatever specialists, nodes, crashes and cancelled runs there are.
THEOREM HeldForADiagnosisTheorem ==
  ASSUME Alone
  PROVE  Spec => []HeldForADiagnosis
  <1>1. AloneInv => HeldForADiagnosis
    BY RootHeld DEF AloneInv, SessionInv, ChainInv
  <1> QED
    BY <1>1, AloneStep, PTL DEF Spec

\* A report and a verdict are about the node and the attempt they are applied to.
THEOREM VerdictsTheorem ==
  ASSUME Alone
  PROVE  Spec => []VerdictsAreAboutTheirNode
  <1>1. AloneInv => VerdictsAreAboutTheirNode
    BY RootVerdicts DEF AloneInv
  <1> QED
    BY <1>1, AloneStep, PTL DEF Spec

\* Nothing the root does, and no restart, takes it around the specialist.
THEOREM NotBypassedTheorem ==
  ASSUME Alone
  PROVE  Spec => DiagnosisIsNotBypassed
  <1>1. AloneInv /\ [Next]_vars =>
          [next_step(ws) = "RootCause" =>
             next_step(ws') = "RootCause" \/ ws'.report # NoPass \/ ws'.budget.left = 0]_vars
    BY HeldStep DEF AloneInv, SessionInv, JudgedInv, Held
  <1> QED
    BY <1>1, AloneStep, PTL DEF Spec, DiagnosisIsNotBypassed
=============================================================================
