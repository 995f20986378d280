-------------------------- MODULE TaskGroupDelivery --------------------------
(***************************************************************************)
(* The task-group store under arbitrary concurrent callers: owners create  *)
(* groups, register children they have just spawned, children report       *)
(* results in any order and more than once, several consumers race to      *)
(* claim, deadlines pass, and the session is reset at any moment.          *)
(*                                                                         *)
(* inbox is a history variable: the results a claim has handed out for     *)
(* each child.  It is what "exactly-once delivery" (the doc comment of     *)
(* TaskGroupDelivery in src/src/agent/task_group.rs) is about.             *)
(***************************************************************************)
EXTENDS TaskGroupStore, Sequences

CONSTANT None              \* the abstract value of an unsettled child

ASSUME NoneAssumption == None \notin Results

VARIABLES registered,      \* children ever added: their ids are fresh uuids
          inbox            \* child -> results handed to its owner, in order

vars == <<storeVars, registered, inbox>>

TypeOK ==
  /\ DOMAIN generations \subseteq Sessions
  /\ generations \in [DOMAIN generations -> Nat]
  /\ Unclaimed \subseteq minted
  /\ groups \in [Unclaimed -> GroupRecord]
  /\ minted \subseteq GroupIds
  /\ overdue \subseteq GroupIds
  /\ registered \subseteq Children
  /\ inbox \in [Children -> Seq(Results)]

Init ==
  /\ StoreInit
  /\ registered = {}
  /\ inbox = [c \in Children |-> <<>>]

-----------------------------------------------------------------------------
(* The callers                                                             *)

Generations == 0 .. MaxGeneration

CreateForOwner(g) ==
  /\ \E s \in Sessions, o \in Owners, t \in Turns \cup {NoTurn},
        gen \in Generations : CreateGroup(g, s, o, t, gen)
  /\ UNCHANGED <<registered, inbox>>

\* reserve_child_in_group registers a child under an id it has just minted.
Register(g, c) ==
  /\ c \notin registered
  /\ AddChild(g, c)
  /\ registered' = registered \cup {c}
  /\ UNCHANGED inbox

Report(g, c) ==
  /\ \E r \in Terminals : RecordResult(g, c, r)
  /\ UNCHANGED <<registered, inbox>>

Sweep == ExpireDueGroups /\ UNCHANGED <<registered, inbox>>

\* The batch of a claim reaches the owner's inbox.
HandOver(g) ==
  /\ RemoveDelivery(g)
  /\ inbox' = [c \in Children |->
                 IF c \in Reported(g)
                 THEN Append(inbox[c], groups[g].results[c])
                 ELSE inbox[c]]
  /\ UNCHANGED registered

\* claim_ready: the smallest ready id of the session.  Ids are random, so any
\* ready group may be the smallest.
ClaimReady(s, gen) == \E o \in Owners : \E g \in ReadyFor(s, o, gen) : HandOver(g)

ClaimReadyForOwner(s, o, gen) == \E g \in ReadyFor(s, o, gen) : HandOver(g)

ClaimSpecific(g, s, o, gen) == g \in ReadyFor(s, o, gen) /\ HandOver(g)

Reset(s) ==
  /\ CurrentGeneration(s) < MaxGeneration
  /\ AdvanceGeneration(s)
  /\ UNCHANGED <<registered, inbox>>

Cancel(s, gen) == CancelGeneration(s, gen) /\ UNCHANGED <<registered, inbox>>

Deadline(g) == DeadlinePasses(g) /\ UNCHANGED <<registered, inbox>>

Next ==
  \/ \E g \in GroupIds : CreateForOwner(g) \/ Deadline(g)
  \/ \E g \in GroupIds, c \in Children : Register(g, c) \/ Report(g, c)
  \/ Sweep
  \/ \E s \in Sessions : Reset(s)
  \/ \E s \in Sessions, gen \in Generations :
       \/ ClaimReady(s, gen)
       \/ Cancel(s, gen)
       \/ \E o \in Owners :
            \/ ClaimReadyForOwner(s, o, gen)
            \/ \E g \in GroupIds : ClaimSpecific(g, s, o, gen)

Spec == Init /\ [][Next]_vars

-----------------------------------------------------------------------------
(* Properties                                                              *)

GroupOf(c) == {g \in Unclaimed : c \in groups[g].children}

\* A child's result reaches its owner at most once, whichever of the three
\* claim methods race for its group, and even when the sweep wrote a timeout
\* for a child that reports later.
DeliveredAtMostOnce == \A c \in Children : Len(inbox[c]) <= 1

\* A reset leaves no group of an earlier generation behind, so nothing of a
\* cleared conversation can be claimed or can still accept a late result.
OnlyCurrentGroups == \A g \in Unclaimed : EnsureGroupCurrent(g)

\* An owner has one unclaimed group per turn: a second lookup finds the group
\* of the first, never a competitor that would split the batch.
OneGroupPerTurn ==
  \A g, h \in Unclaimed :
    (/\ groups[g].session = groups[h].session
     /\ groups[g].owner = groups[h].owner
     /\ groups[g].turn = groups[h].turn) => g = h

\* The children still owed to the owner of g in the turn of g.
OwedWith(g) ==
  UNION {groups[h].children :
           h \in {x \in Unclaimed : /\ groups[x].session = groups[g].session
                                   /\ groups[x].owner = groups[g].owner
                                   /\ groups[x].turn = groups[g].turn}}

Handed(c) == inbox'[c] # inbox[c]

\* A batch is whole: the claim that hands an owner the first result of a turn
\* hands over, in that step, the results of all the children the owner still has
\* out in that turn.  However create_for_root_turn and create_for_parent, late
\* reports, the sweep and the three claim methods interleave, the synthesis an
\* owner makes of a batch misses none of them.
BatchesWhole ==
  [][\A g \in Unclaimed :
       (\E c \in groups[g].children : Handed(c)) => \A c \in OwedWith(g) : Handed(c)]_vars

\* The parts of the inductive invariant behind these properties: results come
\* from members only, a child is a member of one group, a delivered child is a
\* member of none, and a group's session has a recorded generation.
ResultsFromMembers == \A g \in Unclaimed : Reported(g) \subseteq groups[g].children

MemberOfOneGroup ==
  \A g, h \in Unclaimed : \A c \in Children :
    (c \in groups[g].children /\ c \in groups[h].children) => g = h

MembersRegistered == \A g \in Unclaimed : groups[g].children \subseteq registered

DeliveredIsGone ==
  \A c \in Children : inbox[c] # <<>> => c \in registered /\ GroupOf(c) = {}

SessionsKnown == \A g \in Unclaimed : groups[g].session \in DOMAIN generations

\* The inductive invariant of TaskGroupDelivery_proofs.
DeliveryInv ==
  /\ TypeOK
  /\ ResultsFromMembers
  /\ MemberOfOneGroup
  /\ MembersRegistered
  /\ DeliveredIsGone
  /\ DeliveredAtMostOnce
  /\ SessionsKnown
  /\ OnlyCurrentGroups
  /\ OneGroupPerTurn

Settled(c) == \E g \in GroupOf(c) : c \in Reported(g)

statusOf ==
  [c \in Children |->
     IF inbox[c] # <<>> THEN "delivered"
     ELSE IF Settled(c) THEN "settled"
     ELSE IF GroupOf(c) # {} THEN "awaiting"
     ELSE IF c \in registered THEN "discarded" ELSE "idle"]

valueOf ==
  [c \in Children |->
     IF inbox[c] # <<>> THEN inbox[c][1]
     ELSE IF Settled(c) THEN groups[CHOOSE g \in GroupOf(c) : TRUE].results[c]
     ELSE None]

Abstract == INSTANCE ResultDelivery WITH status <- statusOf, value <- valueOf

\* The store implements the promise of ResultDelivery: a child settles once,
\* is delivered at most once and with the result it settled on, and a
\* discarded child is never delivered.
ImplementsResultDelivery == Abstract!Spec
=============================================================================
