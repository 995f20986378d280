---------------------- MODULE TaskGroupDelivery_proofs ----------------------
(***************************************************************************)
(* Exactly-once delivery of task-group results, for every set of sessions, *)
(* owners, turns, children and group ids.                                  *)
(***************************************************************************)
EXTENDS TaskGroupDelivery, FiniteSetTheorems, TLAPS

USE DEF Terminals, Results, Unreported, GroupRecord, Unclaimed, Generations

\* An empty store satisfies the invariant.
LEMMA InitInv == Init => DeliveryInv
  BY DEF Init, StoreInit, DeliveryInv, TypeOK, ResultsFromMembers,
         MemberOfOneGroup, MembersRegistered, DeliveredIsGone,
         DeliveredAtMostOnce, SessionsKnown, OnlyCurrentGroups,
         OneGroupPerTurn, GroupOf

\* A step that keeps every group and who owns it, the registrations it is
\* given and the deliveries, keeps the parts of the invariant about ownership.
LEMMA SameOwners ==
  ASSUME DeliveryInv, TypeOK', UNCHANGED generations,
         Unclaimed' \subseteq Unclaimed,
         \A h \in Unclaimed' :
           /\ groups'[h].session = groups[h].session
           /\ groups'[h].owner = groups[h].owner
           /\ groups'[h].turn = groups[h].turn
           /\ groups'[h].generation = groups[h].generation
  PROVE  SessionsKnown' /\ OnlyCurrentGroups' /\ OneGroupPerTurn'
  BY DEF DeliveryInv, TypeOK, SessionsKnown, OnlyCurrentGroups,
         OneGroupPerTurn, EnsureGroupCurrent, CurrentGeneration

\* A report fills an empty slot of a member.
LEMMA ReportInv ==
  ASSUME DeliveryInv, NEW g \in GroupIds, NEW c \in Children, Report(g, c)
  PROVE  DeliveryInv'
  <1>1. PICK r \in Terminals : RecordResult(g, c, r)
    BY DEF Report
  <1>2. g \in Unclaimed /\ c \in groups[g].children
    BY <1>1 DEF RecordResult, CanRecord, Accepts, EnsureGroupCurrent
  <1>3. TypeOK'
    <2>1. groups[g] \in GroupRecord /\ r \in Results
      BY <1>2 DEF DeliveryInv, TypeOK
    <2> DEFINE filled == [groups[g] EXCEPT !.results[c] = r]
    <2>2. filled \in GroupRecord
      BY <2>1
    <2>3. groups' = [groups EXCEPT ![g] = filled]
      BY <1>1, <1>2 DEF RecordResult, DeliveryInv, TypeOK
    <2> HIDE DEF filled, GroupRecord
    <2>4. groups' \in [Unclaimed -> GroupRecord]
      BY <1>2, <2>2, <2>3 DEF DeliveryInv, TypeOK
    <2>5. QED
      BY <1>1, <2>4 DEF RecordResult, Report, DeliveryInv, TypeOK
  <1>4. /\ Unclaimed' = Unclaimed /\ UNCHANGED <<generations, registered, inbox>>
        /\ \A h \in Unclaimed :
             /\ groups'[h].session = groups[h].session
             /\ groups'[h].owner = groups[h].owner
             /\ groups'[h].turn = groups[h].turn
             /\ groups'[h].generation = groups[h].generation
             /\ groups'[h].children = groups[h].children
    BY <1>1, <1>2 DEF RecordResult, Report, DeliveryInv, TypeOK
  <1>5. \A h \in Unclaimed : \A d \in Children :
          groups'[h].results[d] = IF h = g /\ d = c THEN r ELSE groups[h].results[d]
    BY <1>1, <1>2 DEF RecordResult, DeliveryInv, TypeOK
  <1>6. ResultsFromMembers'
    BY <1>2, <1>4, <1>5 DEF ResultsFromMembers, Reported, ReportedIn, DeliveryInv
  <1>7. MemberOfOneGroup' /\ MembersRegistered'
    BY <1>4 DEF MemberOfOneGroup, MembersRegistered, DeliveryInv
  <1>8. DeliveredIsGone' /\ DeliveredAtMostOnce'
    BY <1>4 DEF DeliveredIsGone, DeliveredAtMostOnce, GroupOf, DeliveryInv
  <1>9. QED
    BY <1>3, <1>4, <1>6, <1>7, <1>8, SameOwners DEF DeliveryInv

\* A new member is registered nowhere else.
LEMMA RegisterInv ==
  ASSUME DeliveryInv, NEW g \in GroupIds, NEW c \in Children, Register(g, c)
  PROVE  DeliveryInv'
  <1>1. g \in Unclaimed /\ c \notin registered
    BY DEF Register, AddChild, CanAddChild, Accepts, EnsureGroupCurrent
  <1>2. TypeOK'
    <2>1. groups[g] \in GroupRecord
      BY <1>1 DEF DeliveryInv, TypeOK
    <2> DEFINE joined == [groups[g] EXCEPT !.children = groups[g].children \cup {c}]
    <2>2. joined \in GroupRecord
      BY <2>1
    <2>3. groups' = [groups EXCEPT ![g] = joined]
      BY <1>1 DEF Register, AddChild, DeliveryInv, TypeOK
    <2> HIDE DEF joined, GroupRecord
    <2>4. groups' \in [Unclaimed -> GroupRecord]
      BY <1>1, <2>2, <2>3 DEF DeliveryInv, TypeOK
    <2>5. QED
      BY <2>4 DEF Register, AddChild, DeliveryInv, TypeOK
  <1>3. /\ Unclaimed' = Unclaimed /\ UNCHANGED <<generations, inbox>>
        /\ registered' = registered \cup {c}
        /\ \A h \in Unclaimed :
             /\ groups'[h].session = groups[h].session
             /\ groups'[h].owner = groups[h].owner
             /\ groups'[h].turn = groups[h].turn
             /\ groups'[h].generation = groups[h].generation
             /\ groups'[h].results = groups[h].results
             /\ groups'[h].children =
                  groups[h].children \cup (IF h = g THEN {c} ELSE {})
    BY <1>1 DEF Register, AddChild, DeliveryInv, TypeOK
  <1>4. \A h \in Unclaimed : c \notin groups[h].children
    BY <1>1 DEF DeliveryInv, MembersRegistered
  <1>5. ResultsFromMembers' /\ MembersRegistered'
    BY <1>3 DEF ResultsFromMembers, MembersRegistered, Reported, ReportedIn, DeliveryInv
  <1>6. MemberOfOneGroup'
    BY <1>3, <1>4 DEF MemberOfOneGroup, DeliveryInv
  <1>7. DeliveredIsGone' /\ DeliveredAtMostOnce'
    BY <1>1, <1>3 DEF DeliveredIsGone, DeliveredAtMostOnce, GroupOf, DeliveryInv
  <1>8. QED
    BY <1>2, <1>3, <1>5, <1>6, <1>7, SameOwners DEF DeliveryInv

\* A new group is empty and the only one of its owner and turn.
LEMMA CreateInv ==
  ASSUME DeliveryInv, NEW g \in GroupIds, CreateForOwner(g)
  PROVE  DeliveryInv'
  <1>1. PICK s \in Sessions, o \in Owners, t \in Turns \cup {NoTurn},
             gen \in Generations : CreateGroup(g, s, o, t, gen)
    BY DEF CreateForOwner
  <1>2. /\ DOMAIN generations' = DOMAIN generations \cup {s}
        /\ generations'[s] = gen
        /\ \A x \in DOMAIN generations : generations'[x] = generations[x]
    BY <1>1 DEF CreateGroup, InitializeOrValidateGeneration
  <1>3. UNCHANGED <<overdue, registered, inbox>>
    BY <1>1 DEF CreateGroup, CreateForOwner
  <1>4. CASE UNCHANGED <<groups, minted>>
    <2>1. TypeOK'
      BY <1>1, <1>2, <1>3, <1>4, MaxGenerationAssumption
         DEF CreateGroup, InitializeOrValidateGeneration, DeliveryInv, TypeOK
    <2>2. ResultsFromMembers' /\ MemberOfOneGroup' /\ MembersRegistered'
            /\ DeliveredIsGone' /\ DeliveredAtMostOnce'
      BY <1>3, <1>4 DEF ResultsFromMembers, MemberOfOneGroup, Reported, ReportedIn, GroupOf,
         MembersRegistered, DeliveredIsGone, DeliveredAtMostOnce, DeliveryInv
    <2>3. SessionsKnown' /\ OnlyCurrentGroups' /\ OneGroupPerTurn'
      BY <1>2, <1>4 DEF SessionsKnown, OnlyCurrentGroups, OneGroupPerTurn,
         EnsureGroupCurrent, CurrentGeneration, DeliveryInv
    <2>4. QED BY <2>1, <2>2, <2>3 DEF DeliveryInv
  <1>5. CASE GroupsFor(s, o, t, gen) = {} /\ InsertGroup(g, s, o, t, gen)
    <2>1. /\ Unclaimed' = Unclaimed \cup {g} /\ g \notin Unclaimed
          /\ groups'[g] = NewGroup(s, o, t, gen)
          /\ \A h \in Unclaimed : groups'[h] = groups[h]
      BY <1>5 DEF InsertGroup, DeliveryInv, TypeOK
    <2>2. NewGroup(s, o, t, gen) \in GroupRecord
      BY MaxGenerationAssumption DEF NewGroup
    <2>3. TypeOK'
      BY <1>1, <1>2, <1>3, <1>5, <2>2, MaxGenerationAssumption
         DEF CreateGroup, InitializeOrValidateGeneration, InsertGroup,
             DeliveryInv, TypeOK
    <2>4. groups'[g].children = {} /\ Reported(g)' = {}
      BY <2>1 DEF NewGroup, Reported, ReportedIn
    <2>5. ResultsFromMembers' /\ MemberOfOneGroup' /\ MembersRegistered'
      BY <1>3, <2>1, <2>4 DEF ResultsFromMembers, MemberOfOneGroup, Reported, ReportedIn,
         MembersRegistered, DeliveryInv
    <2>6. DeliveredIsGone' /\ DeliveredAtMostOnce'
      BY <1>3, <2>1, <2>4 DEF DeliveredIsGone, DeliveredAtMostOnce, GroupOf,
         DeliveryInv
    <2>7. SessionsKnown' /\ OnlyCurrentGroups'
      BY <1>2, <2>1 DEF SessionsKnown, OnlyCurrentGroups, NewGroup,
         EnsureGroupCurrent, CurrentGeneration, DeliveryInv
    <2>8. \A h \in Unclaimed :
            ~ (groups[h].session = s /\ groups[h].owner = o /\ groups[h].turn = t)
      <3> SUFFICES ASSUME NEW h \in Unclaimed, groups[h].session = s,
                          groups[h].owner = o, groups[h].turn = t
                   PROVE  FALSE
        OBVIOUS
      <3>1. s \in DOMAIN generations /\ groups[h].generation = generations[s]
        BY DEF DeliveryInv, SessionsKnown, OnlyCurrentGroups,
               EnsureGroupCurrent, CurrentGeneration
      <3>2. groups[h].generation = gen
        BY <1>1, <3>1 DEF CreateGroup, InitializeOrValidateGeneration
      <3>3. QED BY <1>5, <3>2 DEF GroupsFor
    <2>9. OneGroupPerTurn'
      BY <2>1, <2>8 DEF OneGroupPerTurn, NewGroup, DeliveryInv
    <2>10. QED BY <2>3, <2>5, <2>6, <2>7, <2>9 DEF DeliveryInv
  <1>6. QED BY <1>1, <1>4, <1>5 DEF CreateGroup

\* The sweep fills the slots of members only.
LEMMA SweepInv ==
  ASSUME DeliveryInv, Sweep
  PROVE  DeliveryInv'
  <1>1. /\ Unclaimed' \subseteq Unclaimed
        /\ \A h \in Unclaimed' : groups'[h] = Swept(h)
        /\ UNCHANGED <<generations, minted, overdue, registered, inbox>>
    BY DEF Sweep, ExpireDueGroups, SweptGroups
  <1>2. \A h \in Unclaimed :
          /\ Swept(h) \in GroupRecord
          /\ Swept(h).session = groups[h].session
          /\ Swept(h).owner = groups[h].owner
          /\ Swept(h).turn = groups[h].turn
          /\ Swept(h).generation = groups[h].generation
          /\ Swept(h).children = groups[h].children
          /\ \A c \in Children : Swept(h).results[c] # groups[h].results[c]
                                   => c \in groups[h].children
    BY DEF Swept, DeliveryInv, TypeOK, Reported, ReportedIn
  <1>3. TypeOK'
    BY <1>1, <1>2 DEF Sweep, ExpireDueGroups, SweptGroups, DeliveryInv, TypeOK
  <1>4. ResultsFromMembers'
    BY <1>1, <1>2 DEF ResultsFromMembers, Reported, ReportedIn, DeliveryInv
  <1>5. MemberOfOneGroup' /\ MembersRegistered'
    BY <1>1, <1>2 DEF MemberOfOneGroup, MembersRegistered, DeliveryInv
  <1>6. DeliveredIsGone' /\ DeliveredAtMostOnce'
    BY <1>1, <1>2 DEF DeliveredIsGone, DeliveredAtMostOnce, GroupOf, DeliveryInv
  <1>7. QED
    BY <1>1, <1>2, <1>3, <1>4, <1>5, <1>6, SameOwners DEF DeliveryInv

\* A claim removes the group whose members it delivers.
LEMMA HandOverInv ==
  ASSUME DeliveryInv, NEW g \in Unclaimed, HandOver(g)
  PROVE  DeliveryInv'
  BY DEF HandOver, RemoveDelivery, Without,
         DeliveryInv, TypeOK, ResultsFromMembers, MemberOfOneGroup,
         MembersRegistered, DeliveredIsGone, DeliveredAtMostOnce, SessionsKnown,
         OnlyCurrentGroups, OneGroupPerTurn, GroupOf, Reported, ReportedIn,
         EnsureGroupCurrent, CurrentGeneration

\* A reset removes every group of the session.
LEMMA ResetInv ==
  ASSUME DeliveryInv, NEW s \in Sessions, Reset(s)
  PROVE  DeliveryInv'
  BY DEF Reset, AdvanceGeneration, Without,
         DeliveryInv, TypeOK, ResultsFromMembers, MemberOfOneGroup,
         MembersRegistered, DeliveredIsGone, DeliveredAtMostOnce, SessionsKnown,
         OnlyCurrentGroups, OneGroupPerTurn, GroupOf, Reported, ReportedIn,
         EnsureGroupCurrent, CurrentGeneration

\* Cancelling a generation only removes groups.
LEMMA CancelInv ==
  ASSUME DeliveryInv, NEW s \in Sessions, NEW gen \in Generations, Cancel(s, gen)
  PROVE  DeliveryInv'
  BY DEF Cancel, CancelGeneration, Without,
         DeliveryInv, TypeOK, ResultsFromMembers, MemberOfOneGroup,
         MembersRegistered, DeliveredIsGone, DeliveredAtMostOnce, SessionsKnown,
         OnlyCurrentGroups, OneGroupPerTurn, GroupOf, Reported, ReportedIn,
         EnsureGroupCurrent, CurrentGeneration

\* A deadline changes no group.
LEMMA DeadlineInv ==
  ASSUME DeliveryInv, NEW g \in GroupIds, Deadline(g)
  PROVE  DeliveryInv'
  BY DEF Deadline, DeadlinePasses,
         DeliveryInv, TypeOK, ResultsFromMembers, MemberOfOneGroup,
         MembersRegistered, DeliveredIsGone, DeliveredAtMostOnce, SessionsKnown,
         OnlyCurrentGroups, OneGroupPerTurn, GroupOf, Reported, ReportedIn,
         EnsureGroupCurrent, CurrentGeneration

\* Every step of every caller preserves the invariant.
LEMMA NextInv == DeliveryInv /\ [Next]_vars => DeliveryInv'
  <1> SUFFICES ASSUME DeliveryInv, [Next]_vars PROVE DeliveryInv'
    OBVIOUS
  <1>1. ASSUME NEW g \in GroupIds, CreateForOwner(g) PROVE DeliveryInv'
    BY <1>1, CreateInv
  <1>2. ASSUME NEW g \in GroupIds, Deadline(g) PROVE DeliveryInv'
    BY <1>2, DeadlineInv
  <1>3. ASSUME NEW g \in GroupIds, NEW c \in Children, Register(g, c)
        PROVE  DeliveryInv'
    BY <1>3, RegisterInv
  <1>4. ASSUME NEW g \in GroupIds, NEW c \in Children, Report(g, c)
        PROVE  DeliveryInv'
    BY <1>4, ReportInv
  <1>5. CASE Sweep
    BY <1>5, SweepInv
  <1>6. ASSUME NEW s \in Sessions, Reset(s) PROVE DeliveryInv'
    BY <1>6, ResetInv
  <1>7. ASSUME NEW s \in Sessions, NEW gen \in Generations, Cancel(s, gen)
        PROVE  DeliveryInv'
    BY <1>7, CancelInv
  <1>8. ASSUME NEW s \in Sessions, NEW gen \in Generations,
               \/ ClaimReady(s, gen)
               \/ \E o \in Owners :
                    \/ ClaimReadyForOwner(s, o, gen)
                    \/ \E g \in GroupIds : ClaimSpecific(g, s, o, gen)
        PROVE  DeliveryInv'
    <2>1. PICK g \in Unclaimed : HandOver(g)
      BY <1>8 DEF ClaimReady, ClaimReadyForOwner, ClaimSpecific, ReadyFor
    <2>2. QED BY <2>1, HandOverInv
  <1>9. CASE UNCHANGED vars
    BY <1>9 DEF vars, storeVars, DeliveryInv, TypeOK, ResultsFromMembers,
       MemberOfOneGroup, MembersRegistered, DeliveredIsGone, GroupOf, Reported, ReportedIn,
       DeliveredAtMostOnce, SessionsKnown, OnlyCurrentGroups, OneGroupPerTurn,
       EnsureGroupCurrent, CurrentGeneration
  <1>10. QED
    BY <1>1, <1>2, <1>3, <1>4, <1>5, <1>6, <1>7, <1>8, <1>9 DEF Next

\* Exactly-once delivery: whatever the interleaving of creation, registration,
\* reports, sweeps, racing claims and resets, a child's result is handed out
\* at most once (the "claimed for exactly-once delivery" of TaskGroupDelivery).
THEOREM DeliveredAtMostOnceTheorem == Spec => []DeliveredAtMostOnce
  <1>1. DeliveryInv => DeliveredAtMostOnce
    BY DEF DeliveryInv
  <1>2. QED BY <1>1, InitInv, NextInv, PTL DEF Spec

\* No group of an obsolete generation survives a reset, and an owner never has
\* two open groups for one turn (create_for_root_turn, create_for_parent,
\* advance_generation, cancel_generation).
THEOREM GroupsCurrentTheorem ==
  Spec => [](TypeOK /\ OnlyCurrentGroups /\ OneGroupPerTurn)
  <1>1. DeliveryInv => TypeOK /\ OnlyCurrentGroups /\ OneGroupPerTurn
    BY DEF DeliveryInv
  <1>2. QED BY <1>1, InitInv, NextInv, PTL DEF Spec

-----------------------------------------------------------------------------
(* A batch is handed over whole                                            *)

\* In a ready group every member has reported: is_ready compares two counts.
LEMMA ReadyIsReported ==
  ASSUME DeliveryInv, NEW g \in Unclaimed, IsReady(g)
  PROVE  groups[g].children = Reported(g) /\ Reported(g) # {}
  <1>1. /\ Reported(g) \subseteq groups[g].children
        /\ groups[g].children \subseteq Children
    BY DEF DeliveryInv, ResultsFromMembers, TypeOK
  <1>2. IsFiniteSet(groups[g].children)
    BY <1>1, ChildrenAssumption, FS_Subset
  <1>3. Cardinality(groups[g].children) = Cardinality(Reported(g)) /\ groups[g].children # {}
    BY DEF IsReady, Complete, Reported
  <1>4. groups[g].children = Reported(g)
    BY <1>1, <1>2, <1>3, FS_Subset
  <1>5. QED BY <1>3, <1>4

\* What is appended to is no longer what it was.
LEMMA AppendChanges ==
  ASSUME NEW S, NEW q \in Seq(S), NEW x \in S
  PROVE  Append(q, x) # q
  <1>1. Len(Append(q, x)) = Len(q) + 1 /\ Len(q) \in Nat
    OBVIOUS
  <1>2. QED BY <1>1

\* Only a claim changes an inbox, and it changes those of the group's reported members.
LEMMA HandOverIsWhole ==
  ASSUME DeliveryInv, NEW h \in Unclaimed, IsReady(h), HandOver(h)
  PROVE  \A c \in Children : Handed(c) <=> c \in groups[h].children
  <1>1. groups[h].children = Reported(h)
    BY ReadyIsReported
  <1>2. ASSUME NEW c \in Reported(h) PROVE Handed(c)
    <2>1. c \in Children /\ groups[h].results[c] \in Results /\ inbox[c] \in Seq(Results)
      BY DEF Reported, ReportedIn, DeliveryInv, TypeOK
    <2>2. inbox'[c] = Append(inbox[c], groups[h].results[c])
      BY <2>1 DEF HandOver
    <2> HIDE DEF Results
    <2>3. QED BY <2>1, <2>2, AppendChanges DEF Handed
  <1>3. ASSUME NEW c \in Children \ Reported(h) PROVE ~Handed(c)
    BY DEF HandOver, Handed
  <1>4. QED BY <1>1, <1>2, <1>3

\* A claim that reaches a child reaches all that its owner has out in that turn: the
\* group of the child is the one claimed, and the only one of its owner and turn.
LEMMA ClaimIsWhole ==
  ASSUME DeliveryInv, NEW h \in Unclaimed, IsReady(h), HandOver(h),
         NEW g \in Unclaimed, NEW c \in groups[g].children, Handed(c)
  PROVE  \A d \in OwedWith(g) : Handed(d)
  <1>1. \A x \in Unclaimed : groups[x].children \subseteq Children
    BY DEF DeliveryInv, TypeOK
  <1>2. c \in groups[h].children
    BY <1>1, HandOverIsWhole
  <1>3. g = h
    BY <1>1, <1>2 DEF DeliveryInv, MemberOfOneGroup
  <1>4. OwedWith(g) = groups[h].children
    BY <1>3 DEF OwedWith, DeliveryInv, OneGroupPerTurn
  <1>5. QED BY <1>1, <1>4, HandOverIsWhole

\* The steps that are no claim leave every inbox alone.
LEMMA OthersHandNothing ==
  ASSUME [Next]_vars,
         ~ \E h \in Unclaimed : IsReady(h) /\ HandOver(h)
  PROVE  \A c \in Children : ~Handed(c)
  BY DEF Next, vars, CreateForOwner, Deadline, Register, Report, Sweep, Reset, Cancel,
         ClaimReady, ClaimReadyForOwner, ClaimSpecific, ReadyFor, Handed

\* A synthesis misses no child: with any number of owners, groups and children, a claim
\* that hands over one result of an owner's turn hands over those of all its outstanding
\* children of that turn, since lookups never split a turn over two groups, a group is
\* ready only when all members have reported, and a member has one group.
THEOREM BatchesWholeTheorem == Spec => BatchesWhole
  <1> DEFINE Whole ==
        \A g \in Unclaimed :
          (\E c \in groups[g].children : Handed(c)) => \A c \in OwedWith(g) : Handed(c)
  <1>1. DeliveryInv /\ [Next]_vars => [Whole]_vars
    <2> SUFFICES ASSUME DeliveryInv, [Next]_vars PROVE Whole
      OBVIOUS
    <2>1. CASE \E h \in Unclaimed : IsReady(h) /\ HandOver(h)
      BY <2>1, ClaimIsWhole
    <2>2. CASE ~ \E h \in Unclaimed : IsReady(h) /\ HandOver(h)
      <3>1. \A x \in Unclaimed : groups[x].children \subseteq Children
        BY DEF DeliveryInv, TypeOK
      <3>2. QED BY <2>2, <3>1, OthersHandNothing
    <2>3. QED BY <2>1, <2>2
  <1>2. QED BY <1>1, InitInv, NextInv, PTL DEF Spec, BatchesWhole

-----------------------------------------------------------------------------
(* The store implements ResultDelivery                                     *)

\* Where a child stands, read off the store.
Placed(c) ==
  /\ inbox[c] # <<>> => statusOf[c] = "delivered" /\ valueOf[c] = inbox[c][1]
  /\ \A g \in Unclaimed : c \in groups[g].children =>
       /\ inbox[c] = <<>> /\ c \in registered
       /\ c \in Reported(g) => statusOf[c] = "settled" /\ valueOf[c] = groups[g].results[c]
       /\ c \notin Reported(g) => statusOf[c] = "awaiting" /\ valueOf[c] = None
  /\ (inbox[c] = <<>> /\ \A g \in Unclaimed : c \notin groups[g].children) =>
       /\ valueOf[c] = None
       /\ statusOf[c] = IF c \in registered THEN "discarded" ELSE "idle"

\* The mapping in terms of the one group a child is in.
LEMMA MappingPlaces == DeliveryInv => \A c \in Children : Placed(c)
  <1> SUFFICES ASSUME DeliveryInv, NEW c \in Children PROVE Placed(c)
    OBVIOUS
  <1>1. ASSUME inbox[c] # <<>>
        PROVE  statusOf[c] = "delivered" /\ valueOf[c] = inbox[c][1]
    BY <1>1 DEF statusOf, valueOf
  <1>2. ASSUME NEW g \in Unclaimed, c \in groups[g].children
        PROVE  /\ inbox[c] = <<>> /\ c \in registered
               /\ c \in Reported(g) =>
                    statusOf[c] = "settled" /\ valueOf[c] = groups[g].results[c]
               /\ c \notin Reported(g) => statusOf[c] = "awaiting" /\ valueOf[c] = None
    <2>1. inbox[c] = <<>> /\ c \in registered
      BY <1>2 DEF DeliveryInv, DeliveredIsGone, MembersRegistered, GroupOf
    <2>2. GroupOf(c) = {g}
      BY <1>2 DEF DeliveryInv, MemberOfOneGroup, GroupOf
    <2>3. (CHOOSE x \in GroupOf(c) : TRUE) = g
      BY <2>2
    <2>4. Settled(c) <=> c \in Reported(g)
      BY <2>2 DEF Settled
    <2>5. QED
      BY <2>1, <2>2, <2>3, <2>4 DEF statusOf, valueOf
  <1>3. ASSUME inbox[c] = <<>>, \A g \in Unclaimed : c \notin groups[g].children
        PROVE  /\ valueOf[c] = None
               /\ statusOf[c] = IF c \in registered THEN "discarded" ELSE "idle"
    <2>1. GroupOf(c) = {} /\ ~ Settled(c)
      BY <1>3 DEF GroupOf, Settled
    <2>2. QED BY <1>3, <2>1 DEF statusOf, valueOf
  <1>4. QED BY <1>1, <1>2, <1>3 DEF Placed

\* A child that no step of the store touches keeps its place.
LEMMA PlaceKept ==
  ASSUME DeliveryInv, DeliveryInv', NEW c \in Children, Placed(c), Placed(c)',
         inbox'[c] = inbox[c], c \in registered' <=> c \in registered,
         \A g \in Unclaimed : c \in groups[g].children =>
           /\ g \in Unclaimed' /\ c \in groups'[g].children
           /\ groups'[g].results[c] = groups[g].results[c],
         \A g \in Unclaimed' : c \in groups'[g].children =>
           g \in Unclaimed /\ c \in groups[g].children
  PROVE  statusOf'[c] = statusOf[c] /\ valueOf'[c] = valueOf[c]
  <1>1. CASE inbox[c] # <<>>
    BY <1>1 DEF Placed
  <1>2. ASSUME NEW g \in Unclaimed, c \in groups[g].children
        PROVE  statusOf'[c] = statusOf[c] /\ valueOf'[c] = valueOf[c]
    <2>1. c \in Reported(g)' <=> c \in Reported(g)
      BY <1>2 DEF Reported, ReportedIn
    <2>2. QED BY <1>2, <2>1 DEF Placed
  <1>3. CASE inbox[c] = <<>> /\ \A g \in Unclaimed : c \notin groups[g].children
    BY <1>3 DEF Placed
  <1>4. QED BY <1>1, <1>2, <1>3

\* What a step does to the mapped variables, given what it does to each child.
LEMMA MappedStep ==
  ASSUME NEW B, NEW to, NEW v,
         \A c \in Children : statusOf'[c] = IF c \in B THEN to ELSE statusOf[c],
         \A c \in Children : valueOf'[c] = IF c \in B THEN v[c] ELSE valueOf[c]
  PROVE  /\ statusOf' = [c \in Children |-> IF c \in B THEN to ELSE statusOf[c]]
         /\ valueOf' = [c \in Children |-> IF c \in B THEN v[c] ELSE valueOf[c]]
  <1>1. /\ statusOf' = [c \in Children |-> statusOf'[c]]
        /\ valueOf' = [c \in Children |-> valueOf'[c]]
    BY DEF statusOf, valueOf
  <1>2. QED BY <1>1

LEMMA MappedStutter ==
  ASSUME \A c \in Children : statusOf'[c] = statusOf[c] /\ valueOf'[c] = valueOf[c]
  PROVE  UNCHANGED Abstract!vars
  <1>1. /\ statusOf' = [c \in Children |-> statusOf'[c]]
        /\ valueOf' = [c \in Children |-> valueOf'[c]]
        /\ statusOf = [c \in Children |-> statusOf[c]]
        /\ valueOf = [c \in Children |-> valueOf[c]]
    BY DEF statusOf, valueOf
  <1>2. statusOf' = statusOf /\ valueOf' = valueOf
    BY <1>1
  <1>3. QED BY <1>2 DEF Abstract!vars

Everywhere == DeliveryInv /\ \A c \in Children : Placed(c)

\* A registration is the abstract one.
LEMMA RegisterMaps ==
  ASSUME Everywhere, Everywhere', NEW g \in GroupIds, NEW c \in Children, Register(g, c)
  PROVE  Abstract!Register(c)
  <1>1. g \in Unclaimed /\ c \notin registered /\ c \notin groups[g].children
    BY DEF Register, AddChild, CanAddChild, Accepts, EnsureGroupCurrent
  <1>2. /\ Unclaimed' = Unclaimed /\ UNCHANGED inbox
        /\ registered' = registered \cup {c}
        /\ \A h \in Unclaimed :
             /\ groups'[h].results = groups[h].results
             /\ groups'[h].children =
                  groups[h].children \cup (IF h = g THEN {c} ELSE {})
    BY <1>1 DEF Register, AddChild, Everywhere, DeliveryInv, TypeOK
  <1>3. statusOf[c] = "idle" /\ valueOf[c] = None
    BY <1>1 DEF Everywhere, Placed, DeliveryInv, DeliveredIsGone, MembersRegistered
  <1>4. c \notin Reported(g)'
    <2>1. c \notin Reported(g)
      BY <1>1 DEF Everywhere, DeliveryInv, ResultsFromMembers
    <2>2. QED BY <1>1, <1>2, <2>1 DEF Reported, ReportedIn
  <1>5. statusOf'[c] = "awaiting" /\ valueOf'[c] = None
    BY <1>1, <1>2, <1>4 DEF Everywhere, Placed
  <1>6. \A d \in Children \ {c} : statusOf'[d] = statusOf[d] /\ valueOf'[d] = valueOf[d]
    BY <1>2, PlaceKept DEF Everywhere
  <1>7. /\ statusOf' = [d \in Children |-> IF d \in {c} THEN "awaiting" ELSE statusOf[d]]
        /\ valueOf' = [d \in Children |-> IF d \in {c} THEN valueOf[d] ELSE valueOf[d]]
    BY <1>3, <1>5, <1>6, MappedStep
  <1>8. valueOf' = valueOf
    BY <1>7 DEF valueOf
  <1>9. QED
    BY <1>3, <1>7, <1>8 DEF Abstract!Register, Abstract!Move

\* The first report settles a child.
LEMMA ReportMaps ==
  ASSUME Everywhere, Everywhere', NEW g \in GroupIds, NEW c \in Children, Report(g, c)
  PROVE  Abstract!Settle({c})
  <1>1. PICK r \in Terminals : RecordResult(g, c, r)
    BY DEF Report
  <1>2. g \in Unclaimed /\ c \in groups[g].children /\ c \notin Reported(g)
    BY <1>1 DEF RecordResult, CanRecord, Accepts, EnsureGroupCurrent
  <1>3. /\ Unclaimed' = Unclaimed /\ UNCHANGED <<inbox, registered>>
        /\ \A h \in Unclaimed :
             /\ groups'[h].children = groups[h].children
             /\ \A d \in Children : groups'[h].results[d] =
                  IF h = g /\ d = c THEN r ELSE groups[h].results[d]
    BY <1>1, <1>2 DEF Report, RecordResult, Everywhere, DeliveryInv, TypeOK
  <1>4. statusOf[c] = "awaiting"
    BY <1>2 DEF Everywhere, Placed
  <1>5. c \in Reported(g)' /\ groups'[g].results[c] = r
    BY <1>2, <1>3 DEF Reported, ReportedIn
  <1>6. statusOf'[c] = "settled" /\ valueOf'[c] = r
    BY <1>2, <1>3, <1>5 DEF Everywhere, Placed
  <1>7. \A d \in Children \ {c} : statusOf'[d] = statusOf[d] /\ valueOf'[d] = valueOf[d]
    BY <1>3, PlaceKept DEF Everywhere
  <1> DEFINE v == [d \in Children |-> r]
  <1>8. v \in [Children -> Results]
    OBVIOUS
  <1>9. /\ statusOf' = [d \in Children |-> IF d \in {c} THEN "settled" ELSE statusOf[d]]
        /\ valueOf' = [d \in Children |-> IF d \in {c} THEN v[d] ELSE valueOf[d]]
    BY <1>6, <1>7, MappedStep
  <1> HIDE DEF v
  <1>10. QED
    BY <1>4, <1>8, <1>9 DEF Abstract!Settle, Abstract!Move

\* The sweep settles, at once, every member of an overdue group that has not reported.
LEMMA SweepMaps ==
  ASSUME Everywhere, Everywhere', Sweep
  PROVE  \/ \E B \in SUBSET Children : Abstract!Settle(B)
         \/ UNCHANGED Abstract!vars
  <1> DEFINE late(h) == h \in overdue /\ groups[h].lifecycle = "Active"
             B == {c \in Children : \E h \in Unclaimed :
                     late(h) /\ c \in groups[h].children \ Reported(h)}
             v == [c \in Children |-> "timeout"]
  <1>1. /\ Unclaimed' \subseteq Unclaimed
        /\ \A h \in Unclaimed : h \notin Unclaimed' => groups[h].children = {}
        /\ \A h \in Unclaimed' :
             /\ groups'[h].children = groups[h].children
             /\ \A c \in Children : groups'[h].results[c] =
                  IF late(h) /\ c \in groups[h].children \ Reported(h)
                  THEN "timeout" ELSE groups[h].results[c]
        /\ UNCHANGED <<registered, inbox>>
    <2>1. /\ Unclaimed' = {x \in Unclaimed : \/ Swept(x).lifecycle # "Expired"
                                             \/ Swept(x).children # {}}
          /\ \A h \in Unclaimed' : groups'[h] = Swept(h)
          /\ UNCHANGED <<registered, inbox>>
      BY DEF Sweep, ExpireDueGroups, SweptGroups
    <2>2. \A h \in Unclaimed :
            /\ Swept(h).children = groups[h].children
            /\ \A c \in Children : Swept(h).results[c] =
                 IF late(h) /\ c \in groups[h].children \ Reported(h)
                 THEN "timeout" ELSE groups[h].results[c]
      BY DEF Swept, Everywhere, DeliveryInv, TypeOK
    <2>3. QED BY <2>1, <2>2
  <1>2. \A c \in B : statusOf[c] = "awaiting"
    BY DEF Everywhere, Placed
  <1>3. \A c \in B : statusOf'[c] = "settled" /\ valueOf'[c] = "timeout"
    <2> SUFFICES ASSUME NEW c \in B
                 PROVE  statusOf'[c] = "settled" /\ valueOf'[c] = "timeout"
      OBVIOUS
    <2>1. PICK h \in Unclaimed : late(h) /\ c \in groups[h].children \ Reported(h)
      OBVIOUS
    <2>2. h \in Unclaimed' /\ c \in groups'[h].children
            /\ groups'[h].results[c] = "timeout"
      BY <1>1, <2>1
    <2>3. c \in Reported(h)'
      BY <2>2 DEF Reported, ReportedIn
    <2>4. QED BY <2>2, <2>3 DEF Everywhere, Placed
  <1>4. \A c \in Children \ B : statusOf'[c] = statusOf[c] /\ valueOf'[c] = valueOf[c]
    BY <1>1, PlaceKept DEF Everywhere
  <1>5. CASE B = {}
    BY <1>4, <1>5, MappedStutter
  <1>6. CASE B # {}
    <2>1. v \in [Children -> Results] /\ \A c \in Children : v[c] = "timeout"
      OBVIOUS
    <2> HIDE DEF v
    <2>2. /\ statusOf' = [c \in Children |-> IF c \in B THEN "settled" ELSE statusOf[c]]
          /\ valueOf' = [c \in Children |-> IF c \in B THEN v[c] ELSE valueOf[c]]
      <3> HIDE DEF B
      <3> QED BY <1>3, <1>4, <2>1, MappedStep
    <2>3. B \in SUBSET Children
      OBVIOUS
    <2> HIDE DEF B
    <2>4. Abstract!Settle(B)
      BY <1>2, <1>6, <2>1, <2>2 DEF Abstract!Settle, Abstract!Move
    <2>5. QED BY <2>3, <2>4
  <1>7. QED BY <1>5, <1>6

\* The first delivery of a child is the only entry of its inbox.
LEMMA AppendToEmpty ==
  ASSUME NEW x
  PROVE  Append(<<>>, x) # <<>> /\ Append(<<>>, x)[1] = x
  <1>1. <<>> \in Seq({x}) /\ x \in {x}
    OBVIOUS
  <1>2. Len(Append(<<>>, x)) = 1 /\ Append(<<>>, x)[1] = x
    BY <1>1
  <1>3. QED BY <1>2

\* A claim delivers exactly the members of the group, each with the result it settled on.
LEMMA HandOverMaps ==
  ASSUME Everywhere, Everywhere', NEW g \in Unclaimed, IsReady(g), HandOver(g)
  PROVE  Reported(g) \in SUBSET Children /\ Abstract!Deliver(Reported(g))
  <1>1. groups[g].children = Reported(g) /\ Reported(g) # {}
    BY ReadyIsReported DEF Everywhere
  <1>2. /\ Unclaimed' = Unclaimed \ {g}
        /\ \A h \in Unclaimed' : groups'[h] = groups[h]
        /\ UNCHANGED registered
        /\ \A c \in Children :
             inbox'[c] = IF c \in Reported(g) THEN Append(inbox[c], groups[g].results[c])
                         ELSE inbox[c]
    BY DEF HandOver, RemoveDelivery, Without
  <1>3. Reported(g) \subseteq Children
    BY DEF Reported, ReportedIn
  <1>4. ASSUME NEW c \in Reported(g)
        PROVE  /\ statusOf[c] = "settled" /\ statusOf'[c] = "delivered"
               /\ valueOf'[c] = valueOf[c]
    <2>1. /\ statusOf[c] = "settled" /\ valueOf[c] = groups[g].results[c]
          /\ inbox[c] = <<>>
      BY <1>1, <1>3 DEF Everywhere, Placed
    <2>2. inbox'[c] = Append(<<>>, groups[g].results[c])
      BY <1>2, <1>3, <2>1
    <2>3. inbox'[c] # <<>> /\ inbox'[c][1] = groups[g].results[c]
      BY <2>2, AppendToEmpty
    <2>4. QED BY <1>3, <2>1, <2>3 DEF Everywhere, Placed
  <1>5. \A c \in Children \ Reported(g) :
          statusOf'[c] = statusOf[c] /\ valueOf'[c] = valueOf[c]
    BY <1>1, <1>2, PlaceKept DEF Everywhere
  <1>6. /\ statusOf' = [c \in Children |-> IF c \in Reported(g) THEN "delivered"
                                                                ELSE statusOf[c]]
        /\ valueOf' = [c \in Children |-> IF c \in Reported(g) THEN valueOf[c]
                                                               ELSE valueOf[c]]
    BY <1>3, <1>4, <1>5, MappedStep
  <1>7. valueOf' = valueOf
    BY <1>6 DEF valueOf
  <1>8. QED BY <1>1, <1>3, <1>4, <1>6, <1>7 DEF Abstract!Deliver, Abstract!Move

\* Removing groups discards their members.
LEMMA RemovalMaps ==
  ASSUME Everywhere, Everywhere', NEW gone \in SUBSET Unclaimed,
         groups' = Without(gone), UNCHANGED <<registered, inbox>>
  PROVE  \/ \E B \in SUBSET Children : Abstract!Discard(B)
         \/ UNCHANGED Abstract!vars
  <1> DEFINE B == {c \in Children : \E g \in gone : c \in groups[g].children}
             v == [c \in Children |-> None]
  <1>1. Unclaimed' = Unclaimed \ gone /\ \A h \in Unclaimed' : groups'[h] = groups[h]
    BY DEF Without
  <1>2. ASSUME NEW c \in B
        PROVE  /\ statusOf[c] \in {"awaiting", "settled"}
               /\ statusOf'[c] = "discarded" /\ valueOf'[c] = None
    <2>1. PICK g \in gone : c \in groups[g].children
      OBVIOUS
    <2>2. statusOf[c] \in {"awaiting", "settled"} /\ inbox[c] = <<>> /\ c \in registered
      BY <2>1 DEF Everywhere, Placed
    <2>3. \A h \in Unclaimed' : c \notin groups'[h].children
      BY <1>1, <2>1 DEF Everywhere, DeliveryInv, MemberOfOneGroup
    <2>4. QED BY <2>2, <2>3 DEF Everywhere, Placed
  <1>3. \A c \in Children \ B : statusOf'[c] = statusOf[c] /\ valueOf'[c] = valueOf[c]
    BY <1>1, PlaceKept DEF Everywhere
  <1>4. CASE B = {}
    BY <1>3, <1>4, MappedStutter
  <1>5. CASE B # {}
    <2>1. \A c \in Children : v[c] = None
      OBVIOUS
    <2>2. B \in SUBSET Children
      OBVIOUS
    <2> HIDE DEF v, B
    <2>3. /\ statusOf' = [c \in Children |-> IF c \in B THEN "discarded" ELSE statusOf[c]]
          /\ valueOf' = [c \in Children |-> IF c \in B THEN v[c] ELSE valueOf[c]]
      BY <1>2, <1>3, <2>1, MappedStep
    <2>4. valueOf' = [c \in Children |-> IF c \in B THEN None ELSE valueOf[c]]
      BY <2>1, <2>3
    <2>5. Abstract!Discard(B)
      BY <1>2, <1>5, <2>3, <2>4 DEF Abstract!Discard, Abstract!Move
    <2>6. QED BY <2>2, <2>5
  <1>6. QED BY <1>4, <1>5

\* A step that leaves members, results and deliveries alone is invisible.
LEMMA NothingSeen ==
  ASSUME Everywhere, Everywhere', UNCHANGED <<registered, inbox>>,
         Unclaimed \subseteq Unclaimed',
         \A h \in Unclaimed : groups'[h] = groups[h],
         \A h \in Unclaimed' \ Unclaimed : groups'[h].children = {}
  PROVE  UNCHANGED Abstract!vars
  <1>1. \A c \in Children : statusOf'[c] = statusOf[c] /\ valueOf'[c] = valueOf[c]
    BY PlaceKept DEF Everywhere
  <1>2. QED BY <1>1, MappedStutter

LEMMA CreateMaps ==
  ASSUME Everywhere, Everywhere', NEW g \in GroupIds, CreateForOwner(g)
  PROVE  UNCHANGED Abstract!vars
  <1>1. PICK s \in Sessions, o \in Owners, t \in Turns \cup {NoTurn},
             gen \in Generations : CreateGroup(g, s, o, t, gen)
    BY DEF CreateForOwner
  <1>2. UNCHANGED <<registered, inbox>>
    BY DEF CreateForOwner
  <1>3. CASE UNCHANGED <<groups, minted>>
    BY <1>2, <1>3, NothingSeen
  <1>4. CASE InsertGroup(g, s, o, t, gen)
    <2>1. /\ Unclaimed' = Unclaimed \cup {g} /\ g \notin Unclaimed
          /\ groups'[g].children = {}
          /\ \A h \in Unclaimed : groups'[h] = groups[h]
      BY <1>4 DEF InsertGroup, NewGroup, Everywhere, DeliveryInv, TypeOK
    <2>2. QED BY <1>2, <2>1, NothingSeen
  <1>5. QED BY <1>1, <1>3, <1>4 DEF CreateGroup

\* The initial state is the abstract one.
LEMMA InitMaps == Init => Abstract!Init
  BY DEF Init, StoreInit, Abstract!Init, statusOf, valueOf, GroupOf, Settled

\* Every step of every caller is a step of ResultDelivery or changes nothing there.
LEMMA NextMaps ==
  ASSUME Everywhere, Everywhere', [Next]_vars
  PROVE  [Abstract!Next]_(Abstract!vars)
  <1>1. ASSUME NEW g \in GroupIds, CreateForOwner(g) PROVE UNCHANGED Abstract!vars
    BY <1>1, CreateMaps
  <1>2. ASSUME NEW g \in GroupIds, Deadline(g) PROVE UNCHANGED Abstract!vars
    BY <1>2, NothingSeen DEF Deadline, DeadlinePasses
  <1>3. ASSUME NEW g \in GroupIds, NEW c \in Children, Register(g, c)
        PROVE  Abstract!Next
    BY <1>3, RegisterMaps DEF Abstract!Next
  <1>4. ASSUME NEW g \in GroupIds, NEW c \in Children, Report(g, c)
        PROVE  Abstract!Next
    BY <1>4, ReportMaps DEF Abstract!Next
  <1>5. CASE Sweep
    BY <1>5, SweepMaps DEF Abstract!Next
  <1>6. ASSUME NEW s \in Sessions, Reset(s)
        PROVE  [Abstract!Next]_(Abstract!vars)
    <2> DEFINE gone == {g \in Unclaimed : /\ groups[g].session = s
                                          /\ groups[g].generation < CurrentGeneration(s) + 1}
    <2>1. gone \in SUBSET Unclaimed /\ groups' = Without(gone) /\ UNCHANGED <<registered, inbox>>
      BY <1>6 DEF Reset, AdvanceGeneration
    <2> HIDE DEF gone
    <2>2. QED BY <2>1, RemovalMaps DEF Abstract!Next
  <1>7. ASSUME NEW s \in Sessions, NEW gen \in Generations, Cancel(s, gen)
        PROVE  [Abstract!Next]_(Abstract!vars)
    <2> DEFINE gone == {g \in Unclaimed : /\ groups[g].session = s
                                          /\ groups[g].generation = gen}
    <2>1. gone \in SUBSET Unclaimed /\ groups' = Without(gone) /\ UNCHANGED <<registered, inbox>>
      BY <1>7 DEF Cancel, CancelGeneration
    <2> HIDE DEF gone
    <2>2. QED BY <2>1, RemovalMaps DEF Abstract!Next
  <1>8. ASSUME NEW s \in Sessions, NEW gen \in Generations,
               \/ ClaimReady(s, gen)
               \/ \E o \in Owners :
                    \/ ClaimReadyForOwner(s, o, gen)
                    \/ \E g \in GroupIds : ClaimSpecific(g, s, o, gen)
        PROVE  Abstract!Next
    <2>1. PICK g \in Unclaimed : IsReady(g) /\ HandOver(g)
      BY <1>8 DEF ClaimReady, ClaimReadyForOwner, ClaimSpecific, ReadyFor
    <2>2. QED BY <2>1, HandOverMaps DEF Abstract!Next
  <1>9. CASE UNCHANGED vars
    BY <1>9, NothingSeen DEF vars, storeVars
  <1>10. QED
    BY <1>1, <1>2, <1>3, <1>4, <1>5, <1>6, <1>7, <1>8, <1>9 DEF Next

\* TaskGroupStore keeps the promise of ResultDelivery for every instance: whatever the
\* groups, generations, deadlines and racing claims behind it, each child settles once, is
\* delivered at most once and with the result it settled on, and never after a reset has
\* discarded it.
THEOREM ImplementsResultDeliveryTheorem == Spec => ImplementsResultDelivery
  <1>1. DeliveryInv => Everywhere
    BY MappingPlaces DEF Everywhere
  <1>2. Everywhere /\ Everywhere' /\ [Next]_vars => [Abstract!Next]_(Abstract!vars)
    BY NextMaps
  <1>3. QED
    BY <1>1, <1>2, InitInv, NextInv, InitMaps, PTL
       DEF Spec, ImplementsResultDelivery, Abstract!Spec
=============================================================================
