--------------------------- MODULE TaskGroupStore ---------------------------
(***************************************************************************)
(* The task-group store of the agent coordinator                           *)
(* (src/src/agent/task_group.rs).  A task group collects the terminal      *)
(* results of the direct children that one owner spawned in one turn; a    *)
(* claim removes the whole group and hands its results to the owner.       *)
(*                                                                         *)
(* Every public method of the store takes the store's write lock for its   *)
(* whole body, so each is one atomic operator here.  The coordinator       *)
(* (AgentCoordinator) calls these operators from its own critical          *)
(* sections; MCTaskGroupStore checks the store under arbitrary callers.    *)
(***************************************************************************)
EXTENDS Integers, FiniteSets

CONSTANTS Sessions,       \* session identifiers
          Owners,         \* agents that own groups (roots and parents)
          Turns,          \* turn identifiers a root group may originate in
          Children,       \* agent identifiers that may be registered
          GroupIds,       \* group identifiers the store may mint
          NoTurn,         \* origin_turn_id of a non-root parent's group
          MaxGeneration   \* bound on the generations a session goes through

ASSUME NoTurnAssumption == NoTurn \notin Turns
ASSUME ChildrenAssumption == IsFiniteSet(Children)
ASSUME MaxGenerationAssumption == MaxGeneration \in Nat

VARIABLES generations,    \* session -> generation, for the sessions seen so far
          groups,         \* group id -> record, for the unclaimed groups
          minted,         \* ids handed out so far: a uuid never repeats
          overdue         \* groups whose deadline_at has passed

storeVars == <<generations, groups, minted, overdue>>

\* What a group records for a child.  "timeout" is the Failed result with
\* error code "timeout" that the sweep writes for an unfinished child.
Terminals == {"completed", "failed", "cancelled"}
Results   == Terminals \cup {"timeout"}
Unreported == "unreported"    \* no entry in the group's result map

GroupRecord ==
  [session    : Sessions,
   owner      : Owners,
   turn       : Turns \cup {NoTurn},
   generation : Nat,
   children   : SUBSET Children,
   results    : [Children -> Results \cup {Unreported}],
   lifecycle  : {"Active", "Expired"}]

-----------------------------------------------------------------------------
(* State functions                                                         *)

Unclaimed == DOMAIN groups

CurrentGeneration(s) == IF s \in DOMAIN generations THEN generations[s] ELSE 0

\* The children a group holds a result for.
ReportedIn(r) == {c \in Children : r.results[c] # Unreported}
Reported(g) == ReportedIn(groups[g])

\* is_ready, of a group record
Complete(r) ==
  /\ r.children # {}
  /\ Cardinality(r.children) = Cardinality(ReportedIn(r))

IsReady(g) == Complete(groups[g])

EnsureGroupCurrent(g) ==
  /\ g \in Unclaimed
  /\ groups[g].generation = CurrentGeneration(groups[g].session)

\* Membership and results change only while the group is current and Active.
Accepts(g) == EnsureGroupCurrent(g) /\ groups[g].lifecycle = "Active"

CanAddChild(g, c) == Accepts(g) /\ c \notin groups[g].children

\* Wrong variant for the mutation runs: a second report overwrites the first.
CanRecordTwice(g, c) == Accepts(g) /\ c \in groups[g].children

CanRecord(g, c) ==
  Accepts(g) /\ c \in groups[g].children /\ c \notin Reported(g)

AlreadyRecorded(g, c) ==
  Accepts(g) /\ c \in groups[g].children /\ c \in Reported(g)

GroupsFor(s, o, t, gen) ==
  {g \in Unclaimed : /\ groups[g].session = s
                     /\ groups[g].owner = o
                     /\ groups[g].turn = t
                     /\ groups[g].generation = gen}

ReadyFor(s, o, gen) ==
  {g \in Unclaimed : /\ groups[g].session = s
                     /\ groups[g].owner = o
                     /\ groups[g].generation = gen
                     /\ gen = CurrentGeneration(s)
                     /\ IsReady(g)}

Without(removed) == [g \in Unclaimed \ removed |-> groups[g]]

-----------------------------------------------------------------------------
(* Operations on the groups, each one critical section of the store        *)

NewGroup(s, o, t, gen) ==
  [session |-> s, owner |-> o, turn |-> t, generation |-> gen,
   children |-> {}, results |-> [c \in Children |-> Unreported],
   lifecycle |-> "Active"]

\* A session's first group fixes its generation; afterwards a caller with
\* another generation is refused (StaleGeneration).
InitializeOrValidateGeneration(s, gen) ==
  /\ s \in DOMAIN generations => generations[s] = gen
  /\ generations' = [x \in DOMAIN generations \cup {s} |->
                       IF x = s THEN gen ELSE generations[x]]

InsertGroup(g, s, o, t, gen) ==
  /\ g \in GroupIds \ minted
  /\ groups' = [x \in Unclaimed \cup {g} |->
                  IF x = g THEN NewGroup(s, o, t, gen) ELSE groups[x]]
  /\ minted' = minted \cup {g}

(* Deliberately wrong variants of operations below, one per property: each *)
(* is a slip a change to task_group.rs could make.  Nothing uses them      *)
(* except the mutation runs listed in PROJECT.json.                        *)

\* A second spawn of the turn does not look for the group of the first.
CreateGroupNoReuse(g, s, o, t, gen) ==
  /\ InitializeOrValidateGeneration(s, gen)
  /\ InsertGroup(g, s, o, t, gen)
  /\ UNCHANGED overdue

\* A claim reads the group and leaves it in the store.
RemoveDeliveryPeeks(g) == g \in Unclaimed /\ UNCHANGED storeVars

\* A reset keeps the generation that has just ended.
AdvanceGenerationKeepsLast(s) ==
  LET next == CurrentGeneration(s) + 1
  IN  /\ generations' = [x \in DOMAIN generations \cup {s} |->
                           IF x = s THEN next ELSE generations[x]]
      /\ groups' = Without({g \in Unclaimed : /\ groups[g].session = s
                                              /\ groups[g].generation < next - 1})
      /\ UNCHANGED <<minted, overdue>>

\* create_for_root_turn (t a turn) and create_for_parent (t = NoTurn)
CreateGroup(g, s, o, t, gen) ==
  /\ InitializeOrValidateGeneration(s, gen)
  /\ \/ /\ g \in GroupsFor(s, o, t, gen)
        /\ UNCHANGED <<groups, minted>>
     \/ /\ GroupsFor(s, o, t, gen) = {}
        /\ InsertGroup(g, s, o, t, gen)
  /\ UNCHANGED overdue

AddChild(g, c) ==
  /\ CanAddChild(g, c)
  /\ groups' = [groups EXCEPT ![g].children = @ \cup {c}]
  /\ UNCHANGED <<generations, minted, overdue>>

RecordResult(g, c, r) ==
  /\ CanRecord(g, c)
  /\ groups' = [groups EXCEPT ![g].results[c] = r]
  /\ UNCHANGED <<generations, minted, overdue>>

\* Wrong variant: the sweep closes the group without the timeout results.
SweptNoTimeouts(g) ==
  IF g \in overdue THEN [groups[g] EXCEPT !.lifecycle = "Expired"] ELSE groups[g]

\* expire_due_groups: every unfinished child of an overdue Active group gets a
\* timeout result; an expired group without children is dropped.
Swept(g) ==
  IF g \in overdue /\ groups[g].lifecycle = "Active"
  THEN [groups[g] EXCEPT
          !.results = [c \in Children |->
                         IF c \in groups[g].children \ Reported(g)
                         THEN "timeout" ELSE groups[g].results[c]],
          !.lifecycle = "Expired"]
  ELSE groups[g]

SweptGroups ==
  [g \in {x \in Unclaimed : \/ Swept(x).lifecycle # "Expired"
                            \/ Swept(x).children # {}} |-> Swept(g)]

ExpireDueGroups ==
  /\ groups' = SweptGroups
  /\ UNCHANGED <<generations, minted, overdue>>

\* remove_delivery
RemoveDelivery(g) ==
  /\ groups' = Without({g})
  /\ UNCHANGED <<generations, minted, overdue>>

AdvanceGeneration(s) ==
  LET next == CurrentGeneration(s) + 1
  IN  /\ generations' = [x \in DOMAIN generations \cup {s} |->
                           IF x = s THEN next ELSE generations[x]]
      /\ groups' = Without({g \in Unclaimed : /\ groups[g].session = s
                                              /\ groups[g].generation < next})
      /\ UNCHANGED <<minted, overdue>>

CancelGeneration(s, gen) ==
  /\ groups' = Without({g \in Unclaimed : /\ groups[g].session = s
                                          /\ groups[g].generation = gen})
  /\ UNCHANGED <<generations, minted, overdue>>

\* Time passes the deadline of g.
DeadlinePasses(g) ==
  /\ g \in Unclaimed \ overdue
  /\ overdue' = overdue \cup {g}
  /\ UNCHANGED <<generations, groups, minted>>

StoreInit ==
  /\ generations = [s \in {} |-> 0]
  /\ groups = [g \in {} |-> NewGroup(g, g, NoTurn, 0)]
  /\ minted = {}
  /\ overdue = {}

=============================================================================
