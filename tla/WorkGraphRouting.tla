-------------------------- MODULE WorkGraphRouting --------------------------
(***************************************************************************)
(* The pure part of the work graph: the products one node keeps            *)
(* (src/src/org_graph/work_state.rs), the bounded plan it runs under       *)
(* (src/src/org_graph/work_graph_plan.rs), the code-owned router           *)
(* (src/src/exec_session/work_graph.rs) and the split of the iteration     *)
(* budget (src/src/exec_session/decompose.rs).                             *)
(*                                                                         *)
(* A budget is the number of iterations left: the code only ever compares  *)
(* iter_used with max_iter or subtracts them, saturating at zero.          *)
(***************************************************************************)
EXTENDS Naturals, Sequences, FiniteSets

CONSTANTS MaxNodes,        \* bound: node ids of one session
          AutoRetryMax     \* exec_session.auto_retry_max

ASSUME NodesAssumption == MaxNodes \in Nat \ {0}
ASSUME RetryAssumption == AutoRetryMax \in Nat

NodeIds == 1 .. MaxNodes

\* Distinguished absent values (Option::None).
NoNode   == 0
NoPass   == <<NoNode, 0>>
NoResult == [ok |-> FALSE, why |-> "none", pass |-> NoPass]
NoBudget == [has |-> FALSE, left |-> 0]
NoPlan   == [has |-> FALSE, diagnose |-> TRUE, review |-> FALSE, revision |-> 0]

Budget(n) == [has |-> TRUE, left |-> n]

\* A result of an external anchor; `pass` is the node and attempt whose commands
\* produced it.  `why` tells a failed command from a boundary violation.
Result(why, pass) == [ok |-> why = "passed", why |-> why, pass |-> pass]
Present(r) == r # NoResult

MAX_PLAN_ADAPTATIONS == 2

\* compose_work_graph: low risk or no specialists strip the diagnose stage, high
\* risk forces the review gate.
compose_work_graph(risk, specialists, requiresReview) ==
  [has |-> TRUE, revision |-> 1,
   diagnose |-> ~ (risk = "low" \/ specialists = 0),
   review |-> requiresReview \/ risk = "high"]

-----------------------------------------------------------------------------
(* The work state                                                          *)

\* What the router and the runtime read back from the append-only graph_audit:
\* the ids it names, the greatest attempt of an anchor, route or decomposition
\* event, the attempt of the latest RootCause route, the run of failed test anchors.
NoAudit == [n \in NodeIds |-> [known |-> FALSE, attempt |-> 0, rootCause |-> 0,
                               testFailures |-> 0]]

\* `report` is the node and attempt the specialist was asked about; a unit of a
\* decomposition is its allocation and its outcome.
DefaultWorkState ==
  [compile |-> NoResult, test |-> NoResult, verify |-> NoResult, review |-> "none",
   report |-> NoPass, budget |-> NoBudget, plan |-> NoPlan, units |-> <<>>,
   before |-> NoBudget, audit |-> NoAudit]

reset_for_new_node(w) == [DefaultWorkState EXCEPT !.audit = w.audit]

\* Wrong variants: a result, or the report, of the previous pass survives.
ResetKeepsVerify(w) ==
  [w EXCEPT !.compile = NoResult, !.test = NoResult, !.review = "none", !.report = NoPass]
ResetKeepsReport(w) ==
  [w EXCEPT !.compile = NoResult, !.test = NoResult, !.verify = NoResult, !.review = "none"]

reset_for_work_graph_pass(w) ==
  [w EXCEPT !.compile = NoResult, !.test = NoResult, !.verify = NoResult,
            !.review = "none", !.report = NoPass]

clear_decomposition(w) == [w EXCEPT !.units = <<>>, !.before = NoBudget]

Greater(m, n) == IF m >= n THEN m ELSE n

\* An audit event of node n with this attempt, other than the profile event.
Noted(w, n, attempt) ==
  [w EXCEPT !.audit[n].attempt = Greater(@, attempt)]

consume_iteration_budget(w) ==
  [w EXCEPT !.budget.left = IF @ > 0 THEN @ - 1 ELSE 0]

-----------------------------------------------------------------------------
(* The router                                                              *)

retry_or_escalate(w) ==
  IF w.budget.left = 0 THEN "Escalate"
  ELSE IF w.report # NoPass THEN "Implement"
  ELSE IF w.plan.diagnose THEN "RootCause"
  ELSE "Implement"

next_step(w) ==
  IF ~ Present(w.compile) THEN "CompileAnchor"
  ELSE IF ~ w.compile.ok THEN retry_or_escalate(w)
  ELSE IF ~ Present(w.test) THEN "TestAnchor"
  ELSE IF ~ w.test.ok THEN retry_or_escalate(w)
  ELSE IF ~ Present(w.verify) THEN "VerifyGate"
  ELSE IF w.verify.why = "boundary" THEN "Escalate"
  ELSE IF ~ w.verify.ok THEN retry_or_escalate(w)
  ELSE IF ~ w.plan.review \/ w.review = "approve" THEN "Complete"
  ELSE IF w.review = "none" THEN "AwaitHumanReview"
  ELSE retry_or_escalate(w)

\* Wrong variant: the route is taken and not audited.
RoutedSilently(w, n, k, step) == Noted(w, n, k)

\* The route event of attempt k of node n.
Routed(w, n, k, step) ==
  LET v == Noted(w, n, k) IN
  IF step = "RootCause" THEN [v EXCEPT !.audit[n].rootCause = k] ELSE v

\* adapt_work_graph after a failed test anchor of node n.
adapt_work_graph(w, n) ==
  IF \/ ~ w.plan.has \/ w.test.ok \/ w.budget.left = 0 \/ w.plan.diagnose
     \/ w.audit[n].testFailures < 2
  THEN "Unchanged"
  ELSE IF w.plan.revision - 1 >= MAX_PLAN_ADAPTATIONS THEN "Escalate"
  ELSE "Splice"

apply_adaptation(w) ==
  [w EXCEPT !.plan.diagnose = TRUE, !.plan.revision = @ + 1]

-----------------------------------------------------------------------------
(* The split of the budget among the units of a decomposition              *)

MAX_DECOMPOSE_UNITS == 4

Lesser(m, n) == IF m <= n THEN m ELSE n

\* Iterations each of `count` units gets out of `left` > 0.
child_max_iter(left, count) == Lesser(Greater(2, left \div count), left - 1)

Affordable(left, count) == left > child_max_iter(left, count) * count

\* Wrong variant: the parent lends iterations it keeps.
RetainedAll(left, count) == left

Retained(left, count) == left - child_max_iter(left, count) * count

\* What a pass that is still to come starts from.
Remaining(w) == IF w.budget.has THEN w.budget.left ELSE AutoRetryMax

\* All iterations a work state can still spend, its open units' included.
Spendable(w) ==
  LET open == {i \in 1 .. Len(w.units) : w.units[i].outcome = "none"} IN
  Remaining(w) + (IF open = {} THEN 0
                  ELSE Cardinality(open) * w.units[CHOOSE i \in open : TRUE].allocation)
=============================================================================
