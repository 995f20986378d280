---------------------- MODULE AgentCoordinator_proofs ----------------------
(***************************************************************************)
(* The coordinator, for any number of children, permits, groups, cancel    *)
(* requests, interrupts and resets.  Four arguments meet in CoordinatorInv:*)
(* every permit is counted in one place (PermitsConserved); the place of a *)
(* call or a future says what its scope and record may be (Reservation);   *)
(* every step that touches the store is one TaskGroupDelivery allows, so   *)
(* what is proved there holds here; and an agent passes its synthesis      *)
(* barrier only with all children over and used (BarrierSound).            *)
(***************************************************************************)
EXTENDS AgentCoordinator, FiniteSetTheorems, SequenceTheorems, TLAPS

USE DEF Terminals, Results, Unclaimed, storeVars, callVars, futVars, scopeVars, mapVars,
        cancelVars, histVars, Statuses, Alive, Terminal, CallPlaces, InCall,
        LoopPlaces, FinishPlaces, FutPlaces

-----------------------------------------------------------------------------
(* Types                                                                   *)

\* The types of the variables of the calls, the scopes and the futures.
PlaceTypes ==
  /\ scope \in [Children -> Statuses \cup {"absent"}]
  /\ record \in [Children -> Statuses \cup {"absent"}]
  /\ parent \in [Children -> Owners]
  /\ holds \subseteq Children /\ permits \in Nat
  /\ handle \in [Children -> {"none", "held", "joiner", "canceller"}]
  /\ call \in [Children -> CallPlaces]
  /\ callGroup \in [Children -> GroupIds \cup {NoGroup}]
  /\ fut \in [Children -> FutPlaces]
  /\ verdict \in [Children -> Terminals]
  /\ awaiting \in [Children -> SUBSET Children]
  /\ batch \in [Children -> SUBSET Children]
  /\ synthesized \in [Children -> SUBSET Children]
  /\ sweeper \in {"idle", "swept"}
  /\ torn \subseteq Children

\* The types of the maps to groups and of the counters.
MapTypes ==
  /\ DOMAIN ownerGroups \subseteq Owners \X Nat \X (Turns \cup {NoTurn})
  /\ ownerGroups \in [DOMAIN ownerGroups -> GroupIds]
  /\ childGroups \in [Children -> GroupIds \cup {NoGroup}]

\* The bounds of the counters.
CounterTypes == cancels \in 0 .. MaxCancels /\ interrupts \in 0 .. MaxInterrupts

\* The generation is a number.
LEMMA GenerationIsNat ==
  ASSUME TypeOK PROVE CurrentGeneration(Session) \in Nat
  BY DEF TypeOK, CurrentGeneration

\* The type invariant, in the parts the lemmas below need.
LEMMA TypesSplit ==
  ASSUME TypeOK PROVE PlaceTypes /\ MapTypes /\ CounterTypes
  <1>1. permits \in Nat
    BY LimitsAssumption DEF TypeOK
  <1>2. QED BY <1>1 DEF TypeOK, PlaceTypes, MapTypes, CounterTypes

\* The calls that have a permit in their hands.
Carrying == {c \in Children : call[c] \in {"permitted", "stored"}}

\* A dropped call returns the permit it carries.
LEMMA DropCallsOfReturns ==
  ASSUME NEW p, DropCallsOf(p)
  PROVE  permits' = permits + Cardinality({c \in Carrying : parent[c] = p})
  <1> DEFINE dropped == {c \in Children : parent[c] = p /\ call[c] \in InCall}
  <1>1. permits' = permits + Cardinality({c \in dropped : call[c] \in {"permitted", "stored"}})
    BY Zenon DEF DropCallsOf
  <1>2. {c \in dropped : call[c] \in {"permitted", "stored"}} = {c \in Carrying : parent[c] = p}
    BY DEF Carrying
  <1>3. QED BY <1>1, <1>2, Zenon

\* Dropping calls keeps places and permits well typed.
LEMMA DropCallsOfTypes ==
  ASSUME PlaceTypes, NEW p, DropCallsOf(p)
  PROVE  call' \in [Children -> CallPlaces] /\ permits' \in Nat
  <1> DEFINE carried == {c \in Carrying : parent[c] = p}
  <1>1. Cardinality(carried) \in Nat
    <2>1. carried \subseteq Children
      BY DEF Carrying
    <2>2. QED BY <2>1, ChildrenAssumption, FS_Subset, FS_CardinalityType
  <1>2. permits' = permits + Cardinality(carried)
    BY DropCallsOfReturns
  <1>3. permits \in Nat
    BY DEF PlaceTypes
  <1> HIDE DEF carried
  <1>4. permits' \in Nat
    BY <1>1, <1>2, <1>3
  <1>5. call' \in [Children -> CallPlaces]
    BY DEF DropCallsOf, PlaceTypes
  <1>6. QED BY <1>4, <1>5

\* The steps of a `task` call keep the types.
LEMMA CallTypes ==
  ASSUME PlaceTypes, NEW c \in Children,
         \/ CallNext(c)
         \/ \E p \in Owners, t \in Turns \cup {NoTurn}, g \in GroupIds : LookUpGroup(c, p, t, g)
  PROVE  PlaceTypes'
  <1>1. CASE CallNext(c)
    BY <1>1
    DEF PlaceTypes, CallNext, Admit, AcquirePermit, InsertRecord,
        InsertScope, MarkRunning, JoinGroup, Spawn, RegisterTask, RejectSettle,
        RejectPersist, RejectRecord, CallStep, SettleScope, AfterSettle
  <1>2. ASSUME NEW p \in Owners, NEW t \in Turns \cup {NoTurn}, NEW g \in GroupIds,
               LookUpGroup(c, p, t, g)
        PROVE  PlaceTypes'
    BY <1>2 DEF PlaceTypes, LookUpGroup
  <1>3. QED BY <1>1, <1>2

\* The steps of a future keep the types.
LEMMA FutureTypes ==
  ASSUME PlaceTypes, NEW c \in Children,
         LoopFails(c) \/ CandidateFinal(c) \/ CollectNext(c) \/ FinishNext(c)
  PROVE  PlaceTypes'
  <1>1. CASE LoopFails(c)
    BY <1>1, DropCallsOfTypes DEF PlaceTypes, LoopFails
  <1>2. CASE CandidateFinal(c)
    BY <1>2 DEF PlaceTypes, CandidateFinal, FutStep, ChildrenOf
  <1>3. ASSUME NEW d \in Children, TakeHandle(c, d) \/ JoinChild(c, d) \/ JoinHandle(c, d)
        PROVE  PlaceTypes'
    BY <1>3 DEF PlaceTypes, TakeHandle, JoinChild, JoinHandle
  <1>4. CASE ClaimOwn(c)
    BY <1>4 DEF PlaceTypes, ClaimOwn, FutStep, ChildrenOf, Reported, ReportedIn
  <1>5. CASE Joined(c) \/ Resume(c) \/ BeginFinalizing(c) \/ Conclude(c)
    BY <1>5 DEF PlaceTypes, Joined, Resume, BeginFinalizing, Conclude, FutStep
  <1>6. CASE FinishNext(c)
    BY <1>6 DEF PlaceTypes, FinishNext, Finish, Persist, Record, ForceRecord, FutStep,
        SettleScope, AfterSettle
  <1>7. QED BY <1>1, <1>2, <1>3, <1>4, <1>5, <1>6 DEF CollectNext

\* Interrupts, claims of the root's groups and deadlines keep the types.
LEMMA RootTypes ==
  ASSUME PlaceTypes,
         \/ InterruptRoot \/ RootSweep
         \/ \E gen \in 0 .. MaxGeneration : RootPick(gen)
         \/ \E g \in GroupIds : Deadline(g)
  PROVE  PlaceTypes'
  <1>1. CASE InterruptRoot
    BY <1>1, DropCallsOfTypes DEF PlaceTypes, InterruptRoot
  <1>2. CASE RootSweep
    BY <1>2 DEF PlaceTypes, RootSweep
  <1>3. ASSUME NEW gen, RootPick(gen) PROVE PlaceTypes'
    BY <1>3 DEF PlaceTypes, RootPick
  <1>4. ASSUME NEW g, Deadline(g) PROVE PlaceTypes'
    BY <1>4 DEF PlaceTypes, Deadline
  <1>5. QED BY <1>1, <1>2, <1>3, <1>4

\* The steps of a cancel or reset request keep the types.
LEMMA CancelTypes ==
  ASSUME PlaceTypes, CancellerSound,
         CancelChild \/ CancelSession \/ ResetSession \/ CancelNext
  PROVE  PlaceTypes'
  <1>1. CASE CancelChild \/ CancelSession \/ ResetSession
    BY <1>1
    DEF PlaceTypes, CancelChild, CancelSession, ResetSession, Request, StartCancel
  <1>2. ASSUME NEW c \in Children, PickTarget(c) \/ Signal(c) \/ AwaitCancelled(c)
        PROVE  PlaceTypes'
    BY <1>2
    DEF PlaceTypes, PickTarget, Signal, AwaitCancelled, CancelStep, MarkCancelling, Tear
  <1>3. CASE Snapshot \/ CancelJoined \/ Return \/ CancelDone
    BY <1>3
    DEF PlaceTypes, Snapshot, CancelJoined, Return, CancelDone, CancelStep
  <1>4. CASE CancelTimeout
    BY <1>4, DropCallsOfTypes DEF PlaceTypes, CancelTimeout, CancelStep
  <1>5. CASE CancelSettle \/ CancelPersist \/ CancelRecord
    <2>1. canceller.child \in Children /\ canceller.terminal \in Terminals
      BY <1>5 DEF CancellerSound, CancellerRecord, CancelSettle, CancelPersist, CancelRecord, CancelStep, Recorded
    <2>3. QED
      BY <1>5, <2>1
      DEF PlaceTypes, CancelSettle, CancelPersist, CancelRecord, CancelStep,
          SettleScope, Tear
  <1>6. CASE ResetCancels \/ ResetAdvances
    BY <1>6
      DEF PlaceTypes, ResetCancels, ResetAdvances, CancelStep
  <1>7. QED BY <1>1, <1>2, <1>3, <1>4, <1>5, <1>6 DEF CancelNext


\* Requests and interrupts stay within their bounds.
LEMMA CountersTyped ==
  ASSUME CounterTypes, Next
  PROVE  CounterTypes'
  <1>1. ASSUME UNCHANGED <<cancels, interrupts>> PROVE CounterTypes'
    BY <1>1 DEF CounterTypes
  <1>2. ASSUME NEW c \in Children, CallNext(c) PROVE CounterTypes'
    BY <1>1, <1>2 DEF CallNext, Admit, AcquirePermit, InsertRecord, InsertScope,
       MarkRunning, JoinGroup, Spawn, RegisterTask, RejectSettle, RejectPersist,
       RejectRecord, CallStep
  <1>3. ASSUME NEW c \in Children, NEW p, NEW t, NEW g, LookUpGroup(c, p, t, g)
        PROVE  CounterTypes'
    BY <1>1, <1>3 DEF LookUpGroup
  <1>4. ASSUME NEW c \in Children,
               LoopFails(c) \/ CandidateFinal(c) \/ CollectNext(c) \/ FinishNext(c)
        PROVE  CounterTypes'
    BY <1>1, <1>4 DEF LoopFails, CandidateFinal, CollectNext, TakeHandle, JoinChild,
       JoinHandle, Joined, ClaimOwn, Resume, BeginFinalizing, Conclude, FinishNext,
       Finish, Persist, Record, ForceRecord, FutStep
  <1>5. ASSUME InterruptRoot PROVE CounterTypes'
    BY <1>5, LimitsAssumption DEF InterruptRoot, CounterTypes
  <1>6. ASSUME \/ RootSweep \/ \E gen \in 0 .. MaxGeneration : RootPick(gen)
               \/ \E g \in GroupIds : Deadline(g)
        PROVE  CounterTypes'
    BY <1>1, <1>6 DEF RootSweep, RootPick, Deadline
  <1>7. ASSUME CancelChild \/ CancelSession \/ ResetSession PROVE CounterTypes'
    <2>1. ASSUME NEW targets, Request(targets) PROVE CounterTypes'
      BY <2>1, LimitsAssumption DEF Request, StartCancel, CounterTypes
    <2>2. ResetSession => CounterTypes'
      BY <1>1 DEF ResetSession, StartCancel
    <2>3. QED BY <1>7, <2>1, <2>2 DEF CancelChild, CancelSession
  <1>8. ASSUME CancelNext PROVE CounterTypes'
    BY <1>1, <1>8
    DEF CancelNext, PickTarget, Signal, AwaitCancelled, Snapshot, CancelJoined,
        CancelTimeout, Return, CancelSettle, CancelPersist, CancelRecord, CancelDone,
        ResetCancels, ResetAdvances, CancelStep
  <1>9. QED BY <1>2, <1>3, <1>4, <1>5, <1>6, <1>7, <1>8 DEF Next

-----------------------------------------------------------------------------
(* Permits                                                                 *)

\* The sets the permits are counted over are finite.
LEMMA PermitSets ==
  ASSUME PlaceTypes
  PROVE  /\ IsFiniteSet(holds) /\ IsFiniteSet(Carrying)
         /\ Cardinality(holds) \in Nat /\ Cardinality(Carrying) \in Nat
  BY ChildrenAssumption, FS_Subset, FS_CardinalityType DEF PlaceTypes, Carrying

\* PermitsConserved, with the calls that carry a permit named.
LEMMA PermitSum ==
  PermitsConserved <=> permits + Cardinality(holds) + Cardinality(Carrying) = MaxConcurrent
  BY DEF PermitsConserved, Carrying

\* Where no permit moves, the account stays right.
LEMMA PermitsKept ==
  ASSUME PermitsConserved, UNCHANGED <<permits, holds>>, Carrying' = Carrying
  PROVE  PermitsConserved'
  BY PermitSum DEF PermitsConserved, Carrying

\* Settling a scope returns its permit, once.
LEMMA PermitsSettle ==
  ASSUME PermitsConserved, PlaceTypes, NEW c \in Children, NEW t, SettleScope(c, t),
         Carrying' = Carrying
  PROVE  PermitsConserved'
  <1>1. CASE UNCHANGED <<permits, holds>>
    BY <1>1, PermitsKept
  <1>2. CASE c \in holds /\ holds' = holds \ {c} /\ permits' = permits + 1
    <2>1. Cardinality(holds') = Cardinality(holds) - 1
      BY <1>2, PermitSets, FS_RemoveElement
    <2>2. permits + Cardinality(holds) + Cardinality(Carrying) = MaxConcurrent
      BY PermitSum
    <2>3. permits' + Cardinality(holds') + Cardinality(Carrying') = MaxConcurrent
      BY <1>2, <2>1, <2>2, PermitSets DEF PlaceTypes
    <2>4. QED BY <2>3 DEF PermitsConserved, Carrying
  <1>3. CASE c \notin holds /\ holds' = holds \ {c} /\ permits' = permits + 0
    <2>1. UNCHANGED <<permits, holds>>
      BY <1>3 DEF PlaceTypes
    <2>2. QED BY <2>1, PermitsKept
  <1>4. \/ UNCHANGED <<permits, holds>>
        \/ holds' = holds \ {c} /\ permits' = permits + (IF c \in holds THEN 1 ELSE 0)
    BY DEF SettleScope
  <1>5. QED BY <1>1, <1>2, <1>3, <1>4, SMT

\* A dropped call returns the permit it carries.
LEMMA PermitsDrop ==
  ASSUME PermitsConserved, PlaceTypes, NEW p, DropCallsOf(p), UNCHANGED holds
  PROVE  PermitsConserved'
  <1> DEFINE carried == {c \in Carrying : parent[c] = p}
  <1>1. permits' = permits + Cardinality(carried)
    BY DropCallsOfReturns
  <1>2. Carrying' = Carrying \ carried
    BY DEF Carrying, DropCallsOf, PlaceTypes
  <1>3. carried \subseteq Carrying
    OBVIOUS
  <1> HIDE DEF carried
  <1>4. IsFiniteSet(carried) /\ Cardinality(carried) \in Nat
    BY <1>3, PermitSets, FS_Subset, FS_CardinalityType
  <1>5. Cardinality(Carrying') = Cardinality(Carrying) - Cardinality(carried)
    <2>1. Carrying \cap carried = carried
      BY <1>3
    <2>2. Cardinality(Carrying \ carried)
            = Cardinality(Carrying) - Cardinality(Carrying \cap carried)
      BY PermitSets, FS_Difference
    <2>3. QED BY <1>2, <2>1, <2>2
  <1>6. permits + Cardinality(holds) + Cardinality(Carrying) = MaxConcurrent
    BY PermitSum
  <1>7. permits' + Cardinality(holds') + Cardinality(Carrying') = MaxConcurrent
    BY <1>1, <1>4, <1>5, <1>6, PermitSets DEF PlaceTypes
  <1>8. QED BY <1>7 DEF PermitsConserved, Carrying

\* A permit moves from the pool to a call, and from the call to the scope.
LEMMA PermitsCall ==
  ASSUME PermitsConserved, PlaceTypes, NEW c \in Children, Reservation(c),
         \/ CallNext(c)
         \/ \E p \in Owners, t \in Turns \cup {NoTurn}, g \in GroupIds : LookUpGroup(c, p, t, g)
  PROVE  PermitsConserved'
  <1>1. CASE AcquirePermit(c)
    <2>1. Carrying' = Carrying \cup {c} /\ c \notin Carrying /\ holds' = holds
      BY <1>1 DEF Carrying, AcquirePermit, CallStep, PlaceTypes
    <2>2. Cardinality(Carrying') = Cardinality(Carrying) + 1
      BY <2>1, PermitSets, FS_AddElement
    <2>3. permits' = permits - 1
      BY <1>1 DEF AcquirePermit
    <2>4. permits + Cardinality(holds) + Cardinality(Carrying) = MaxConcurrent
      BY PermitSum
    <2>5. permits' + Cardinality(holds') + Cardinality(Carrying') = MaxConcurrent
      BY <2>1, <2>2, <2>3, <2>4, PermitSets DEF PlaceTypes
    <2>6. QED BY <2>5 DEF PermitsConserved, Carrying
  <1>2. CASE InsertScope(c)
    <2>1. Carrying' = Carrying \ {c} /\ c \in Carrying
      BY <1>2 DEF Carrying, InsertScope, CallStep, PlaceTypes
    <2>2. holds' = holds \cup {c} /\ c \notin holds /\ permits' = permits
      BY <1>2 DEF InsertScope, CallStep, Reservation, BeforeScope
    <2>3. Cardinality(Carrying') = Cardinality(Carrying) - 1
      BY <2>1, PermitSets, FS_RemoveElement
    <2>4. Cardinality(holds') = Cardinality(holds) + 1
      BY <2>2, PermitSets, FS_AddElement
    <2>5. permits + Cardinality(holds) + Cardinality(Carrying) = MaxConcurrent
      BY PermitSum
    <2>6. permits' + Cardinality(holds') + Cardinality(Carrying') = MaxConcurrent
      BY <2>2, <2>3, <2>4, <2>5, PermitSets DEF PlaceTypes
    <2>7. QED BY <2>6 DEF PermitsConserved, Carrying
  <1>3. CASE RejectSettle(c)
    <2>1. Carrying' = Carrying
      BY <1>3 DEF Carrying, RejectSettle, CallStep, AfterSettle, PlaceTypes
    <2>2. QED BY <1>3, <2>1, PermitsSettle DEF RejectSettle
  <1>4. CASE \/ Admit(c) \/ InsertRecord(c) \/ MarkRunning(c) \/ JoinGroup(c) \/ Spawn(c)
             \/ RegisterTask(c) \/ RejectPersist(c) \/ RejectRecord(c)
    <2>1. Carrying' = Carrying /\ UNCHANGED <<permits, holds>>
      BY <1>4
      DEF Carrying, Admit, InsertRecord, MarkRunning, JoinGroup, Spawn, RegisterTask,
          RejectPersist, RejectRecord, CallStep, PlaceTypes
    <2>2. QED BY <2>1, PermitsKept
  <1>5. ASSUME NEW p, NEW t, NEW g, LookUpGroup(c, p, t, g)
        PROVE  PermitsConserved'
    <2>1. Carrying' = Carrying /\ UNCHANGED <<permits, holds>>
      BY <1>5 DEF Carrying, LookUpGroup, PlaceTypes
    <2>2. QED BY <2>1, PermitsKept
  <1>6. QED BY <1>1, <1>2, <1>3, <1>4, <1>5 DEF CallNext

\* No step loses or doubles a permit.
LEMMA PermitsStep ==
  ASSUME PermitsConserved, PlaceTypes, CancellerSound,
         \A c \in Children : Reservation(c), Next
  PROVE  PermitsConserved'
  <1>1. ASSUME UNCHANGED <<permits, holds, call>> PROVE PermitsConserved'
    BY <1>1, PermitsKept DEF Carrying
  <1>2. ASSUME NEW c \in Children, LoopFails(c) PROVE PermitsConserved'
    BY <1>2, PermitsDrop DEF LoopFails
  <1>3. ASSUME NEW c \in Children, CandidateFinal(c) \/ CollectNext(c) PROVE PermitsConserved'
    BY <1>1, <1>3 DEF CandidateFinal, CollectNext, TakeHandle, JoinChild, JoinHandle,
       Joined, ClaimOwn, Resume, BeginFinalizing, Conclude
  <1>4. ASSUME NEW c \in Children, FinishNext(c) PROVE PermitsConserved'
    <2>1. Finish(c) => PermitsConserved'
      BY PermitsSettle DEF Finish, Carrying
    <2>2. QED BY <1>1, <1>4, <2>1 DEF FinishNext, Persist, Record, ForceRecord
  <1>5. ASSUME InterruptRoot PROVE PermitsConserved'
    BY <1>5, PermitsDrop DEF InterruptRoot
  <1>6. ASSUME \/ RootSweep \/ \E gen \in 0 .. MaxGeneration : RootPick(gen)
               \/ \E g \in GroupIds : Deadline(g)
               \/ CancelChild \/ CancelSession \/ ResetSession
        PROVE  PermitsConserved'
    BY <1>1, <1>6 DEF RootSweep, RootPick, Deadline, CancelChild, CancelSession,
       ResetSession, Request, StartCancel
  <1>7. ASSUME CancelNext PROVE PermitsConserved'
    <2>1. CancelTimeout => PermitsConserved'
      BY PermitsDrop DEF CancelTimeout
    <2>2. ASSUME CancelSettle PROVE PermitsConserved'
      <3>1. canceller.child \in Children
        BY <2>2 DEF CancelSettle, CancelStep, CancellerSound, Recorded
      <3>2. QED BY <2>2, <3>1, PermitsSettle DEF CancelSettle, Carrying
    <2>3. QED
      BY <1>1, <1>7, <2>1, <2>2
      DEF CancelNext, PickTarget, Signal, AwaitCancelled, Snapshot, CancelJoined, Return,
          CancelPersist, CancelRecord, CancelDone, ResetCancels, ResetAdvances
  <1>8. QED
    BY <1>2, <1>3, <1>4, <1>5, <1>6, <1>7, PermitsCall DEF Next

-----------------------------------------------------------------------------
(* The store: every step is one TaskGroupDelivery allows                    *)

\* The theorems about the store, with the coordinator's constants and variables.
Stored == INSTANCE TaskGroupDelivery_proofs WITH None <- NoGroup

\* The assumptions under which the store's own proofs hold.
LEMMA StoreAssumptions ==
  /\ NoTurn \notin Turns
  /\ Stored!IsFiniteSet(Children)
  /\ MaxGeneration \in Nat
  /\ NoGroup \notin Stored!Results
  <1>1. Stored!IsFiniteSet(Children)
    BY ChildrenAssumption DEF IsFiniteSet, Stored!IsFiniteSet
  <1>2. QED
    BY <1>1, NoTurnAssumption, MaxGenerationAssumption, NoGroupAssumption
    DEF Stored!Results, Stored!Terminals

\* The store's invariant is the same through either instance.
LEMMA SameInvariant == Stored!DeliveryInv <=> Delivery!DeliveryInv
  BY DEF Stored!DeliveryInv, Stored!TypeOK, Stored!ResultsFromMembers,
         Stored!MemberOfOneGroup, Stored!MembersRegistered, Stored!DeliveredIsGone,
         Stored!DeliveredAtMostOnce, Stored!SessionsKnown, Stored!OnlyCurrentGroups,
         Stored!OneGroupPerTurn, Stored!GroupOf, Stored!Reported, Stored!ReportedIn,
         Stored!EnsureGroupCurrent, Stored!CurrentGeneration, Stored!Unclaimed,
         Stored!GroupRecord, Stored!Results, Stored!Terminals, Stored!Unreported,
         Delivery!DeliveryInv, Delivery!TypeOK, Delivery!ResultsFromMembers,
         Delivery!MemberOfOneGroup, Delivery!MembersRegistered, Delivery!DeliveredIsGone,
         Delivery!DeliveredAtMostOnce, Delivery!SessionsKnown, Delivery!OnlyCurrentGroups,
         Delivery!OneGroupPerTurn, Delivery!GroupOf, Delivery!Reported, Delivery!ReportedIn,
         Delivery!EnsureGroupCurrent, Delivery!CurrentGeneration, Delivery!Unclaimed,
         Delivery!GroupRecord, Delivery!Results, Delivery!Terminals, Delivery!Unreported

\* Counting is the same through either instance.
LEMMA SameCardinality ==
  ASSUME NEW S
  PROVE  Stored!Cardinality(S) = Cardinality(S) /\ Delivery!Cardinality(S) = Cardinality(S)
  BY DEF Cardinality, Stored!Cardinality, Delivery!Cardinality

\* The store's next-state relation is the same through either instance.
LEMMA SameNext == Stored!Next <=> Delivery!Next
  <1>1. ASSUME NEW g PROVE Stored!CreateForOwner(g) <=> Delivery!CreateForOwner(g)
    BY DEF Stored!CreateForOwner, Stored!CreateGroup,
       Stored!InitializeOrValidateGeneration, Stored!InsertGroup, Stored!NewGroup,
       Stored!GroupsFor, Stored!Unclaimed, Stored!Unreported, Stored!Generations,
       Delivery!CreateForOwner, Delivery!CreateGroup,
       Delivery!InitializeOrValidateGeneration, Delivery!InsertGroup, Delivery!NewGroup,
       Delivery!GroupsFor, Delivery!Unclaimed, Delivery!Unreported, Delivery!Generations
  <1>2. ASSUME NEW g PROVE Stored!Deadline(g) <=> Delivery!Deadline(g)
    BY DEF Stored!Deadline, Stored!DeadlinePasses, Stored!Unclaimed, Delivery!Deadline,
       Delivery!DeadlinePasses, Delivery!Unclaimed
  <1>3. ASSUME NEW g, NEW c PROVE Stored!Register(g, c) <=> Delivery!Register(g, c)
    BY DEF Stored!Register, Stored!AddChild, Stored!CanAddChild, Stored!Accepts,
       Stored!EnsureGroupCurrent, Stored!CurrentGeneration, Stored!Unclaimed,
       Delivery!Register, Delivery!AddChild, Delivery!CanAddChild, Delivery!Accepts,
       Delivery!EnsureGroupCurrent, Delivery!CurrentGeneration, Delivery!Unclaimed
  <1>4. ASSUME NEW g, NEW c PROVE Stored!Report(g, c) <=> Delivery!Report(g, c)
    BY DEF Stored!Report, Stored!RecordResult, Stored!CanRecord, Stored!Accepts,
       Stored!EnsureGroupCurrent, Stored!CurrentGeneration, Stored!Reported,
       Stored!ReportedIn, Stored!Unclaimed, Stored!Terminals, Stored!Unreported,
       Delivery!Report, Delivery!RecordResult, Delivery!CanRecord, Delivery!Accepts,
       Delivery!EnsureGroupCurrent, Delivery!CurrentGeneration, Delivery!Reported,
       Delivery!ReportedIn, Delivery!Unclaimed, Delivery!Terminals, Delivery!Unreported
  <1>5. Stored!Sweep <=> Delivery!Sweep
    BY DEF Stored!Sweep, Stored!ExpireDueGroups, Stored!SweptGroups, Stored!Swept,
       Stored!Reported, Stored!ReportedIn, Stored!Unclaimed, Stored!Unreported,
       Delivery!Sweep, Delivery!ExpireDueGroups, Delivery!SweptGroups, Delivery!Swept,
       Delivery!Reported, Delivery!ReportedIn, Delivery!Unclaimed, Delivery!Unreported
  <1>6. ASSUME NEW s PROVE Stored!Reset(s) <=> Delivery!Reset(s)
    BY DEF Stored!Reset, Stored!AdvanceGeneration, Stored!CurrentGeneration,
       Stored!Without, Stored!Unclaimed, Delivery!Reset, Delivery!AdvanceGeneration,
       Delivery!CurrentGeneration, Delivery!Without, Delivery!Unclaimed
  <1>7. ASSUME NEW s, NEW gen PROVE Stored!Cancel(s, gen) <=> Delivery!Cancel(s, gen)
    BY DEF Stored!Cancel, Stored!CancelGeneration, Stored!Without, Stored!Unclaimed,
       Delivery!Cancel, Delivery!CancelGeneration, Delivery!Without, Delivery!Unclaimed
  <1>8. ASSUME NEW g PROVE Stored!HandOver(g) <=> Delivery!HandOver(g)
    BY DEF Stored!HandOver, Stored!RemoveDelivery, Stored!Without, Stored!Reported,
       Stored!ReportedIn, Stored!Unclaimed, Stored!Unreported, Delivery!HandOver,
       Delivery!RemoveDelivery, Delivery!Without, Delivery!Reported,
       Delivery!ReportedIn, Delivery!Unclaimed, Delivery!Unreported
  <1>9. ASSUME NEW s, NEW o, NEW gen PROVE Stored!ReadyFor(s, o, gen) = Delivery!ReadyFor(s, o, gen)
    BY SameCardinality
    DEF Stored!ReadyFor, Stored!IsReady, Stored!Complete, Stored!CurrentGeneration,
       Stored!ReportedIn, Stored!Unclaimed, Stored!Unreported, Delivery!ReadyFor,
       Delivery!IsReady, Delivery!Complete, Delivery!CurrentGeneration,
       Delivery!ReportedIn, Delivery!Unclaimed, Delivery!Unreported
  <1>10. ASSUME NEW s, NEW gen, NEW o, NEW g
         PROVE  /\ Stored!ClaimReady(s, gen) <=> Delivery!ClaimReady(s, gen)
                /\ Stored!ClaimReadyForOwner(s, o, gen) <=> Delivery!ClaimReadyForOwner(s, o, gen)
                /\ Stored!ClaimSpecific(g, s, o, gen) <=> Delivery!ClaimSpecific(g, s, o, gen)
    <2>1. Stored!ClaimReadyForOwner(s, o, gen) <=> Delivery!ClaimReadyForOwner(s, o, gen)
      BY <1>8, <1>9 DEF Stored!ClaimReadyForOwner, Delivery!ClaimReadyForOwner
    <2>2. Stored!ClaimSpecific(g, s, o, gen) <=> Delivery!ClaimSpecific(g, s, o, gen)
      BY <1>8, <1>9 DEF Stored!ClaimSpecific, Delivery!ClaimSpecific
    <2>3. Stored!ClaimReady(s, gen) <=> Delivery!ClaimReady(s, gen)
      BY <1>8, <1>9 DEF Stored!ClaimReady, Delivery!ClaimReady
    <2>4. QED BY <2>1, <2>2, <2>3
  <1>11. QED
    BY <1>1, <1>2, <1>3, <1>4, <1>5, <1>6, <1>7, <1>10, Zenon
    DEF Stored!Next, Stored!Generations, Delivery!Next, Delivery!Generations

\* What TaskGroupDelivery_proofs shows of the store holds of it here.
LEMMA StoreKeepsInvariant ==
  ASSUME Delivery!DeliveryInv, Delivery!Next \/ UNCHANGED Delivery!vars
  PROVE  Delivery!DeliveryInv'
  <1>1. Stored!DeliveryInv /\ [Stored!Next]_(Stored!vars) => Stored!DeliveryInv'
    BY StoreAssumptions, Stored!NextInv, Zenon
  <1>2. Stored!DeliveryInv
    BY SameInvariant
  <1>3. [Stored!Next]_(Stored!vars)
    BY SameNext DEF Stored!vars, Stored!storeVars, Delivery!vars, Delivery!storeVars
  <1>4. Stored!DeliveryInv'
    BY <1>1, <1>2, <1>3
  <1>5. QED BY <1>4, SameInvariant, PTL

\* The coordinator's store operators are those of the Delivery instance.
LEMMA SameStore ==
  /\ \A g, s, o, t, gen : CreateGroup(g, s, o, t, gen) => Delivery!CreateGroup(g, s, o, t, gen)
  /\ \A g : DeadlinePasses(g) => Delivery!DeadlinePasses(g)
  /\ \A g, c : AddChild(g, c) => Delivery!AddChild(g, c)
  /\ \A g, c, r : RecordResult(g, c, r) => Delivery!RecordResult(g, c, r)
  /\ ExpireDueGroups => Delivery!ExpireDueGroups
  /\ \A s : AdvanceGeneration(s) => Delivery!AdvanceGeneration(s)
  /\ \A s, gen : CancelGeneration(s, gen) => Delivery!CancelGeneration(s, gen)
  /\ \A g : RemoveDelivery(g) => Delivery!RemoveDelivery(g)
  /\ \A s, o, gen : Delivery!ReadyFor(s, o, gen) = ReadyFor(s, o, gen)
  /\ \A g : Delivery!Reported(g) = Reported(g)
  /\ \A s : Delivery!CurrentGeneration(s) = CurrentGeneration(s)
  <1>1. ASSUME NEW g, NEW s, NEW o, NEW t, NEW gen PROVE CreateGroup(g, s, o, t, gen) => Delivery!CreateGroup(g, s, o, t, gen)
    BY DEF CreateGroup, InitializeOrValidateGeneration, InsertGroup, NewGroup,
       GroupsFor, Unreported, Delivery!CreateGroup,
       Delivery!InitializeOrValidateGeneration, Delivery!InsertGroup, Delivery!NewGroup,
       Delivery!GroupsFor, Delivery!Unreported, Delivery!Unclaimed
  <1>2. ASSUME NEW g PROVE DeadlinePasses(g) => Delivery!DeadlinePasses(g)
    BY DEF DeadlinePasses, Delivery!DeadlinePasses, Delivery!Unclaimed
  <1>3. ASSUME NEW g, NEW c PROVE AddChild(g, c) => Delivery!AddChild(g, c)
    BY DEF AddChild, CanAddChild, Accepts, EnsureGroupCurrent, CurrentGeneration,
       Delivery!AddChild, Delivery!CanAddChild, Delivery!Accepts,
       Delivery!EnsureGroupCurrent, Delivery!CurrentGeneration, Delivery!Unclaimed
  <1>4. ASSUME NEW g, NEW c, NEW r PROVE RecordResult(g, c, r) => Delivery!RecordResult(g, c, r)
    BY DEF RecordResult, CanRecord, Accepts, EnsureGroupCurrent, CurrentGeneration,
       Reported, ReportedIn, Unreported, Delivery!RecordResult, Delivery!CanRecord,
       Delivery!Accepts, Delivery!EnsureGroupCurrent, Delivery!CurrentGeneration,
       Delivery!Reported, Delivery!ReportedIn, Delivery!Unreported, Delivery!Unclaimed
  <1>5. ExpireDueGroups => Delivery!ExpireDueGroups
    BY DEF ExpireDueGroups, SweptGroups, Swept, Reported, ReportedIn, Unreported,
       Delivery!ExpireDueGroups, Delivery!SweptGroups, Delivery!Swept,
       Delivery!Reported, Delivery!ReportedIn, Delivery!Unreported, Delivery!Unclaimed
  <1>6. ASSUME NEW s PROVE AdvanceGeneration(s) => Delivery!AdvanceGeneration(s)
    BY DEF AdvanceGeneration, CurrentGeneration, Without, Delivery!AdvanceGeneration,
       Delivery!CurrentGeneration, Delivery!Without, Delivery!Unclaimed
  <1>7. ASSUME NEW s, NEW gen PROVE CancelGeneration(s, gen) => Delivery!CancelGeneration(s, gen)
    BY DEF CancelGeneration, Without, Delivery!CancelGeneration, Delivery!Without,
       Delivery!Unclaimed
  <1>8. ASSUME NEW g PROVE RemoveDelivery(g) => Delivery!RemoveDelivery(g)
    BY DEF RemoveDelivery, Without, Delivery!RemoveDelivery, Delivery!Without,
       Delivery!Unclaimed
  <1>9. ASSUME NEW s, NEW o, NEW gen PROVE Delivery!ReadyFor(s, o, gen) = ReadyFor(s, o, gen)
    BY SameCardinality DEF ReadyFor, IsReady, Complete, CurrentGeneration, ReportedIn,
       Unreported, Delivery!ReadyFor, Delivery!IsReady, Delivery!Complete,
       Delivery!CurrentGeneration, Delivery!ReportedIn, Delivery!Unreported,
       Delivery!Unclaimed
  <1>10. ASSUME NEW g PROVE Delivery!Reported(g) = Reported(g)
    BY DEF Reported, ReportedIn, Unreported, Delivery!Reported, Delivery!ReportedIn,
       Delivery!Unreported, Delivery!Unclaimed
  <1>11. ASSUME NEW s PROVE Delivery!CurrentGeneration(s) = CurrentGeneration(s)
    BY DEF CurrentGeneration, Delivery!CurrentGeneration, Delivery!Unclaimed
  <1>12. QED BY <1>1, <1>2, <1>3, <1>4, <1>5, <1>6, <1>7, <1>8, <1>9, <1>10, <1>11

\* A result that RecordMapped writes is a report, if it is a terminal.
LEMMA RecordMappedUse ==
  ASSUME PlaceTypes, MapTypes, NEW c \in Children, NEW t \in Terminals, RecordMapped(c, t),
         UNCHANGED <<registered, inbox>>
  PROVE  Delivery!Next \/ UNCHANGED Delivery!vars
  <1>1. CASE childGroups[c] # NoGroup /\ CanRecord(childGroups[c], c)
    <2>1. childGroups[c] \in GroupIds /\ RecordResult(childGroups[c], c, t)
      BY <1>1 DEF RecordMapped, MapTypes
    <2>2. Delivery!RecordResult(childGroups[c], c, t)
      BY <2>1, SameStore
    <2>3. Delivery!Report(childGroups[c], c)
      BY <2>2 DEF Delivery!Report, Delivery!Terminals
    <2>4. QED BY <2>1, <2>3 DEF Delivery!Next
  <1>2. CASE ~ (childGroups[c] # NoGroup /\ CanRecord(childGroups[c], c))
    BY <1>2 DEF RecordMapped, Delivery!vars, Delivery!storeVars
  <1>3. QED BY <1>1, <1>2

\* A claim of a ready group is one of the store's claims.
LEMMA HandOverUse ==
  ASSUME NEW o \in Owners, NEW gen \in 0 .. MaxGeneration,
         NEW g \in ReadyFor(Session, o, gen), HandOver(g), UNCHANGED registered
  PROVE  Delivery!Next
  <1>1. Delivery!HandOver(g)
    BY SameStore DEF HandOver, Delivery!HandOver
  <1>2. Delivery!ClaimReadyForOwner(Session, o, gen)
    BY <1>1, SameStore DEF Delivery!ClaimReadyForOwner
  <1>3. QED BY <1>2, SessionAssumption DEF Delivery!Next, Delivery!Generations

\* A step that leaves the store and its histories alone is no step of the store.
LEMMA StoreUntouched ==
  ASSUME UNCHANGED <<storeVars, registered, inbox>>
  PROVE  UNCHANGED Delivery!vars
  BY DEF Delivery!vars, Delivery!storeVars

\* A `task` call creates groups and adds members as the store allows.
LEMMA CallUse ==
  ASSUME PlaceTypes, MapTypes, TypeOK, ResetBounded, NEW c \in Children, Reservation(c),
         \/ CallNext(c)
         \/ \E p \in Owners, t \in Turns \cup {NoTurn}, g \in GroupIds : LookUpGroup(c, p, t, g)
  PROVE  Delivery!Next \/ UNCHANGED Delivery!vars
  <1>1. ASSUME NEW p \in Owners, NEW t \in Turns \cup {NoTurn}, NEW g \in GroupIds,
               LookUpGroup(c, p, t, g)
        PROVE  Delivery!Next \/ UNCHANGED Delivery!vars
    <2>1. CurrentGeneration(Session) \in 0 .. MaxGeneration
      BY GenerationIsNat, MaxGenerationAssumption DEF ResetBounded
    <2>2. ASSUME CreateGroup(g, Session, p, t, CurrentGeneration(Session)),
                 UNCHANGED <<registered, inbox>>
          PROVE  Delivery!Next
      <3>1. Delivery!CreateGroup(g, Session, p, t, CurrentGeneration(Session))
        BY <2>2, SameStore
      <3>2. Delivery!CreateForOwner(g)
        BY <2>1, <2>2, <3>1, SessionAssumption DEF Delivery!CreateForOwner, Delivery!Generations
      <3>3. QED BY <3>2 DEF Delivery!Next
    <2>3. QED BY <1>1, <2>2, StoreUntouched DEF LookUpGroup
  <1>2. ASSUME JoinGroup(c) PROVE Delivery!Next \/ UNCHANGED Delivery!vars
    <2>1. ASSUME CanAddChild(callGroup[c], c), AddChild(callGroup[c], c), call[c] = "reserved",
                 registered' = registered \cup {c}, UNCHANGED inbox
          PROVE  Delivery!Next
      <3>1. callGroup[c] \in GroupIds
        BY <2>1 DEF CanAddChild, Accepts, EnsureGroupCurrent, TypeOK
      <3>2. c \notin registered
        BY <2>1 DEF Reservation, BeforeJoin, BeforeScope
      <3>3. Delivery!Register(callGroup[c], c)
        BY <2>1, <3>2, SameStore DEF Delivery!Register
      <3>4. QED BY <3>1, <3>3 DEF Delivery!Next
    <2>2. QED BY <1>2, <2>1, StoreUntouched DEF JoinGroup, CallStep
  <1>3. ASSUME RejectRecord(c) PROVE Delivery!Next \/ UNCHANGED Delivery!vars
    <2>1. scope[c] \in Terminals
      BY <1>3 DEF RejectRecord, CallStep, Reservation
    <2>2. QED BY <1>3, <2>1, RecordMappedUse DEF RejectRecord
  <1>4. QED
    BY <1>1, <1>2, <1>3, StoreUntouched
    DEF CallNext, Admit, AcquirePermit, InsertRecord, InsertScope, MarkRunning, Spawn,
        RegisterTask, RejectSettle, RejectPersist

\* A future records results and claims groups as the store allows.
LEMMA FutureUse ==
  ASSUME PlaceTypes, MapTypes, TypeOK, ResetBounded, \A c \in Children : Reservation(c),
         NEW c \in Children,
         LoopFails(c) \/ CandidateFinal(c) \/ CollectNext(c) \/ FinishNext(c)
  PROVE  Delivery!Next \/ UNCHANGED Delivery!vars
  <1>1. ASSUME NEW d \in Children, JoinHandle(c, d)
        PROVE  Delivery!Next \/ UNCHANGED Delivery!vars
    <2>1. scope[d] \in Terminals
      BY <1>1 DEF JoinHandle, Reservation, Settled
    <2>2. QED BY <1>1, <2>1, RecordMappedUse DEF JoinHandle
  <1>2. ASSUME ClaimOwn(c) PROVE Delivery!Next \/ UNCHANGED Delivery!vars
    <2>1. CurrentGeneration(Session) \in 0 .. MaxGeneration /\ c \in Owners
      BY GenerationIsNat, MaxGenerationAssumption, RootAssumption DEF ResetBounded
    <2>2. QED BY <1>2, <2>1, HandOverUse, StoreUntouched DEF ClaimOwn
  <1>3. ASSUME Record(c) \/ ForceRecord(c) PROVE Delivery!Next \/ UNCHANGED Delivery!vars
    <2>1. Record(c) => scope[c] \in Terminals
      BY DEF Record, FutStep, Reservation, Settled
    <2>2. verdict[c] \in Terminals
      BY DEF PlaceTypes
    <2>3. QED BY <1>3, <2>1, <2>2, RecordMappedUse DEF Record, ForceRecord
  <1>4. QED
    BY <1>1, <1>2, <1>3, StoreUntouched
    DEF LoopFails, CandidateFinal, CollectNext, TakeHandle, JoinChild, Joined, Resume,
        BeginFinalizing, Conclude, FinishNext, Finish, Persist

\* Sweeps, claims and deadlines of the root's groups are steps of the store.
LEMMA RootUse ==
  ASSUME \/ InterruptRoot \/ RootSweep
         \/ \E gen \in 0 .. MaxGeneration : RootPick(gen)
         \/ \E g \in GroupIds : Deadline(g)
  PROVE  Delivery!Next \/ UNCHANGED Delivery!vars
  <1>1. ASSUME RootSweep PROVE Delivery!Next
    BY <1>1, SameStore DEF RootSweep, Delivery!Sweep, Delivery!Next
  <1>2. ASSUME NEW gen \in 0 .. MaxGeneration, RootPick(gen)
        PROVE  Delivery!Next \/ UNCHANGED Delivery!vars
    BY <1>2, RootAssumption, HandOverUse, StoreUntouched DEF RootPick
  <1>3. ASSUME NEW g \in GroupIds, Deadline(g) PROVE Delivery!Next
    <2>1. Delivery!Deadline(g)
      BY <1>3, SameStore DEF Deadline, Delivery!Deadline
    <2>2. QED BY <2>1 DEF Delivery!Next
  <1>4. QED BY <1>1, <1>2, <1>3, StoreUntouched DEF InterruptRoot

\* A cancel records results, and a reset ends a generation, as the store allows.
LEMMA CancelUse ==
  ASSUME PlaceTypes, MapTypes, TypeOK, ResetBounded, CancellerSound,
         CancelChild \/ CancelSession \/ ResetSession \/ CancelNext
  PROVE  Delivery!Next \/ UNCHANGED Delivery!vars
  <1>1. ASSUME CancelRecord PROVE Delivery!Next \/ UNCHANGED Delivery!vars
    <2>1. canceller.child \in Children /\ canceller.terminal \in Terminals
      BY <1>1 DEF CancelRecord, CancelStep, CancellerSound, CancellerRecord, Recorded
    <2>2. QED BY <1>1, <2>1, RecordMappedUse DEF CancelRecord
  <1>2. ASSUME ResetCancels PROVE Delivery!Next
    <2>1. CurrentGeneration(Session) \in 0 .. MaxGeneration
      BY GenerationIsNat, MaxGenerationAssumption DEF ResetBounded
    <2>2. Delivery!Cancel(Session, CurrentGeneration(Session))
      BY <1>2, SameStore DEF ResetCancels, Delivery!Cancel
    <2>3. QED BY <2>1, <2>2, SessionAssumption DEF Delivery!Next, Delivery!Generations
  <1>3. ASSUME ResetAdvances PROVE Delivery!Next
    <2>1. CurrentGeneration(Session) < MaxGeneration
      BY <1>3 DEF ResetAdvances, CancelStep, ResetBounded
    <2>2. Delivery!Reset(Session)
      BY <1>3, <2>1, SameStore DEF ResetAdvances, Delivery!Reset
    <2>3. QED BY <2>2, SessionAssumption DEF Delivery!Next
  <1>4. CASE CancelChild \/ CancelSession \/ ResetSession
    BY <1>4, StoreUntouched DEF CancelChild, CancelSession, ResetSession, Request, StartCancel
  <1>5. CASE CancelNext
    BY <1>1, <1>2, <1>3, <1>5, StoreUntouched
    DEF CancelNext, PickTarget, Signal, AwaitCancelled, Snapshot, CancelJoined,
        CancelTimeout, Return, CancelSettle, CancelPersist, CancelDone
  <1>6. QED BY <1>4, <1>5

-----------------------------------------------------------------------------
(* What only grows                                                         *)

\* A store record and a scope stay, an ended future stays ended, and the histories
\* only grow.
Grows ==
  /\ Recorded \subseteq Recorded'
  /\ \A c \in Children : scope[c] # "absent" => scope'[c] # "absent"
  /\ \A c \in Children : fut[c] # "none" => fut'[c] # "none"
  /\ \A c \in Children : fut[c] = "ended" => fut'[c] = "ended"
  /\ torn \subseteq torn'
  /\ registered \subseteq registered'

\* A `task` call removes nothing.
LEMMA CallGrows ==
  ASSUME PlaceTypes, NEW c \in Children, Reservation(c),
         \/ CallNext(c)
         \/ \E p \in Owners, t \in Turns \cup {NoTurn}, g \in GroupIds : LookUpGroup(c, p, t, g)
  PROVE  Grows
  <1>1. CASE Admit(c) \/ AcquirePermit(c) \/ InsertRecord(c) \/ InsertScope(c) \/ MarkRunning(c)
    BY <1>1 DEF Grows, Recorded, PlaceTypes, Admit, AcquirePermit, InsertRecord,
       InsertScope, MarkRunning, CallStep
  <1>2. CASE JoinGroup(c) \/ Spawn(c) \/ RegisterTask(c)
    BY <1>2 DEF Grows, Recorded, PlaceTypes, Reservation, JoinGroup, Spawn, RegisterTask, CallStep
  <1>3. CASE RejectSettle(c) \/ RejectPersist(c) \/ RejectRecord(c)
    BY <1>3 DEF Grows, Recorded, PlaceTypes, RejectSettle, RejectPersist, RejectRecord,
       CallStep, SettleScope
  <1>4. ASSUME NEW p, NEW t, NEW g, LookUpGroup(c, p, t, g) PROVE Grows
    BY <1>4 DEF Grows, Recorded, LookUpGroup
  <1>5. QED BY <1>1, <1>2, <1>3, <1>4 DEF CallNext

\* A future removes nothing.
LEMMA FutureGrows ==
  ASSUME PlaceTypes, NEW c \in Children,
         LoopFails(c) \/ CandidateFinal(c) \/ CollectNext(c) \/ FinishNext(c)
  PROVE  Grows
  <1>1. CASE LoopFails(c) \/ CandidateFinal(c)
    BY <1>1 DEF Grows, Recorded, PlaceTypes, LoopFails, CandidateFinal, FutStep
  <1>2. ASSUME NEW d \in Children, TakeHandle(c, d) \/ JoinChild(c, d) \/ JoinHandle(c, d)
        PROVE  Grows
    BY <1>2 DEF Grows, Recorded, PlaceTypes, TakeHandle, JoinChild, JoinHandle
  <1>3. CASE Joined(c) \/ ClaimOwn(c) \/ Resume(c) \/ BeginFinalizing(c) \/ Conclude(c)
    BY <1>3 DEF Grows, Recorded, PlaceTypes, Joined, ClaimOwn, Resume, BeginFinalizing,
       Conclude, FutStep
  <1>4. CASE FinishNext(c)
    BY <1>4 DEF Grows, Recorded, PlaceTypes, FinishNext, Finish, Persist, Record, ForceRecord,
       FutStep, SettleScope, AfterSettle
  <1>5. QED BY <1>1, <1>2, <1>3, <1>4 DEF CollectNext

\* A cancel or reset request removes no record and no scope.
LEMMA CancelGrows ==
  ASSUME PlaceTypes, CancellerSound,
         CancelChild \/ CancelSession \/ ResetSession \/ CancelNext
  PROVE  Grows
  <1>1. CASE CancelChild \/ CancelSession \/ ResetSession
    BY <1>1 DEF Grows, Recorded, CancelChild, CancelSession, ResetSession, Request, StartCancel
  <1>2. ASSUME NEW c \in Children, PickTarget(c) \/ Signal(c) \/ AwaitCancelled(c)
        PROVE  Grows
    BY <1>2 DEF Grows, Recorded, PlaceTypes, PickTarget, Signal, AwaitCancelled, MarkCancelling,
       Marks, Tear
  <1>3. CASE Snapshot \/ CancelJoined \/ CancelTimeout \/ Return \/ CancelDone
    BY <1>3 DEF Grows, Recorded, PlaceTypes, Snapshot, CancelJoined, CancelTimeout, Return, CancelDone
  <1>4. CASE CancelSettle \/ CancelPersist \/ CancelRecord
    <2>1. canceller.child \in Children /\ canceller.terminal \in Terminals
      BY <1>4 DEF CancellerSound, CancellerRecord, CancelSettle, CancelPersist, CancelRecord, CancelStep, Recorded
    <2>2. QED
      BY <1>4, <2>1 DEF Grows, Recorded, PlaceTypes, CancelSettle, CancelPersist, CancelRecord,
         SettleScope, Tear
  <1>5. CASE ResetCancels \/ ResetAdvances
    BY <1>5 DEF Grows, Recorded, ResetCancels, ResetAdvances
  <1>6. QED BY <1>1, <1>2, <1>3, <1>4, <1>5 DEF CancelNext

\* No step removes a record or a scope, or forgets history.
LEMMA StepGrows ==
  ASSUME PlaceTypes, CancellerSound, \A c \in Children : Reservation(c), Next
  PROVE  Grows
  <1>1. ASSUME \/ InterruptRoot \/ RootSweep
               \/ \E gen \in 0 .. MaxGeneration : RootPick(gen)
               \/ \E g \in GroupIds : Deadline(g)
        PROVE  Grows
    BY <1>1 DEF Grows, Recorded, InterruptRoot, RootSweep, RootPick, Deadline
  <1>2. QED BY <1>1, CallGrows, FutureGrows, CancelGrows DEF Next

-----------------------------------------------------------------------------
(* The canceller                                                           *)

\* A sequence over a set is one over any larger set.
LEMMA SeqMonotone ==
  ASSUME NEW S, NEW T, S \subseteq T, NEW s \in Seq(S)
  PROVE  s \in Seq(T)
  OBVIOUS

\* The canceller's frames stay frames while records only appear.
LEMMA FramesGrow ==
  ASSUME Recorded \subseteq Recorded'
  PROVE  Frames \subseteq Frames'
  BY DEF Frames

\* A step that is not the canceller's leaves its bookkeeping valid.
LEMMA CancellerUntouched ==
  ASSUME CancellerSound, Grows, UNCHANGED canceller
  PROVE  CancellerSound'
  <1>1. canceller.stack \in Seq(Frames')
    BY FramesGrow, SeqMonotone DEF CancellerRecord, CancellerSound, Grows
  <1>2. canceller.pc \in {"join", "finish", "persist", "record"} =>
          canceller.child \in Recorded' /\ canceller.child \in Children
    BY DEF CancellerRecord, CancellerSound, Grows, Recorded
  <1>3. canceller.todo \subseteq Recorded'
    BY DEF CancellerRecord, CancellerSound, Grows
  <1>4. QED BY <1>1, <1>2, <1>3 DEF CancellerSound, CancellerRecord, Grows

\* What a canceller's step writes is judged in the state it starts from.
LEMMA CancellerLift ==
  ASSUME Grows, canceller' \in CancellerRecord,
         canceller'.todo \subseteq canceller'.targets,
         canceller'.pc = "walk" => canceller'.stack # <<>>,
         canceller'.pc \in {"join", "finish", "persist", "record"} =>
           canceller'.child \in Recorded,
         canceller'.pc = "join" => fut[canceller'.child] # "none",
         canceller'.pc \in {"join", "finish"} =>
           canceller'.terminal = "cancelled" \/ fut[canceller'.child] = "ended"
  PROVE  CancellerSound'
  <1>1. canceller'.stack \in Seq(Frames')
    <2>1. canceller'.stack \in Seq(Frames)
      BY DEF CancellerRecord
    <2>2. QED BY <2>1, FramesGrow, SeqMonotone DEF Grows
  <1>2. canceller'.todo \subseteq Recorded'
    BY DEF CancellerRecord, Grows
  <1>3. canceller' \in CancellerRecord'
    BY <1>1, <1>2 DEF CancellerRecord
  <1>4. canceller'.pc \in {"join", "finish", "persist", "record"} =>
          canceller'.child \in Recorded' /\ canceller'.child \in Children
    BY DEF Grows, Recorded
  <1>5. QED BY <1>3, <1>4 DEF CancellerSound, Grows

\* While the canceller walks, its stack has a top frame, and replacing or popping
\* it leaves a stack.
LEMMA TopFrame ==
  ASSUME CancellerSound, canceller.pc = "walk"
  PROVE  /\ Top \in Frames /\ Len(canceller.stack) \in Nat \ {0}
         /\ \A f \in Frames : SetTop(f) \in Seq(Frames) /\ SetTop(f) # <<>>
         /\ SubSeq(canceller.stack, 1, Len(canceller.stack) - 1) \in Seq(Frames)
  <1>1. canceller.stack \in Seq(Frames) /\ canceller.stack # <<>>
    BY DEF CancellerSound, CancellerRecord
  <1>2. Len(canceller.stack) \in Nat \ {0}
    BY <1>1, EmptySeq, LenProperties
  <1>3. Top \in Frames
    BY <1>1, <1>2, ElementOfSeq DEF Top
  <1>4. ASSUME NEW f \in Frames PROVE SetTop(f) \in Seq(Frames) /\ SetTop(f) # <<>>
    <2>1. SetTop(f) \in Seq(Frames) /\ Len(SetTop(f)) = Len(canceller.stack)
      BY <1>1, <1>2, ExceptSeq DEF SetTop
    <2>2. QED BY <1>2, <2>1
  <1>5. SubSeq(canceller.stack, 1, Len(canceller.stack) - 1) \in Seq(Frames)
    BY <1>1, <1>2, SubSeqProperties
  <1>6. QED BY <1>2, <1>3, <1>4, <1>5

\* A new request starts with sound bookkeeping.
LEMMA CancelStarts ==
  ASSUME CancellerSound, Grows, CancelChild \/ CancelSession \/ ResetSession
  PROVE  CancellerSound'
  <1>1. ASSUME NEW targets \in SUBSET Recorded, NEW reset \in BOOLEAN, StartCancel(targets, reset)
        PROVE  CancellerSound'
    <2>1. targets \subseteq Children
      BY DEF Recorded
    <2>2. QED BY <1>1, <2>1, CancellerLift DEF CancellerSound, StartCancel, CancellerRecord, CancelPlaces
  <1>2. Unfinished \subseteq Recorded /\ \A c \in ChildrenOf(Root) : c \in Recorded
    BY DEF Unfinished, ChildrenOf, Recorded
  <1>3. QED BY <1>1, <1>2 DEF CancelChild, CancelSession, ResetSession, Request

\* Picking, signalling and awaiting keep the canceller's bookkeeping sound.
LEMMA CancelWalks ==
  ASSUME CancellerSound, Grows, NEW c \in Children, Reservation(c),
         PickTarget(c) \/ Signal(c) \/ AwaitCancelled(c)
  PROVE  CancellerSound'
  <1>1. ASSUME PickTarget(c) PROVE CancellerSound'
    <2>1. c \in Recorded /\ c \in Owners
      BY <1>1, RootAssumption DEF PickTarget, CancellerSound, CancellerRecord
    <2>2. Frame(c) \in Frames
      BY <2>1 DEF Frame, Frames
    <2>3. <<Frame(c)>> \in Seq(Frames) /\ <<Frame(c)>> # <<>> /\ <<>> \in Seq(Frames)
      BY <2>2
    <2>4. QED
      BY <1>1, <2>1, <2>3, CancellerLift
      DEF CancellerSound, PickTarget, CancelStep, CancellerRecord, CancelPlaces
  <1>2. ASSUME Signal(c) PROVE CancellerSound'
    <2>1. canceller.pc = "walk" /\ c \in Top.signal
      BY <1>2 DEF Signal
    <2>2. c \in Recorded /\ Frame(c) \in Frames
      BY <2>1, TopFrame DEF Frame, Frames
    <2> DEFINE rest == SetTop([Top EXCEPT !.signal = @ \ {c}])
               next == IF Marks(c) THEN Append(rest, Frame(c)) ELSE rest
    <2>3. [Top EXCEPT !.signal = @ \ {c}] \in Frames
      BY <2>1, TopFrame DEF Frames
    <2>4. rest \in Seq(Frames) /\ rest # <<>>
      BY <2>1, <2>3, TopFrame
    <2> HIDE DEF rest
    <2>5. Append(rest, Frame(c)) \in Seq(Frames) /\ Append(rest, Frame(c)) # <<>>
      BY <2>2, <2>4, AppendProperties
    <2>6. next \in Seq(Frames) /\ next # <<>>
      BY <2>4, <2>5
    <2>7. canceller' = [canceller EXCEPT !.stack = next]
      BY <1>2 DEF Signal, CancelStep, rest
    <2> HIDE DEF next
    <2>8. QED
      BY <2>1, <2>6, <2>7, CancellerLift DEF CancellerSound, CancellerRecord, CancelPlaces
  <1>3. ASSUME AwaitCancelled(c) PROVE CancellerSound'
    <2>1. canceller.pc = "walk" /\ c \in Top.wait
      BY <1>3 DEF AwaitCancelled
    <2>2. c \in Recorded /\ c \in Owners
      BY <2>1, TopFrame, RootAssumption DEF Frames
    <2> DEFINE rest == SetTop([Top EXCEPT !.wait = @ \ {c}])
    <2>3. [Top EXCEPT !.wait = @ \ {c}] \in Frames
      BY <2>1, TopFrame DEF Frames
    <2>4. rest \in Seq(Frames) /\ rest # <<>>
      BY <2>1, <2>3, TopFrame
    <2>5. canceller' = [canceller EXCEPT !.stack = rest, !.child = c, !.terminal = "cancelled",
                           !.pc = IF Terminal(scope[c]) THEN "walk"
                                  ELSE IF handle[c] = "held" THEN "join" ELSE "finish"]
      BY <1>3 DEF AwaitCancelled, CancelStep
    <2>6. handle[c] = "held" => fut[c] # "none"
      BY DEF Reservation
    <2> HIDE DEF rest
    <2>7. QED
      BY <2>2, <2>4, <2>5, <2>6, CancellerLift DEF CancellerSound, CancellerRecord, CancelPlaces
  <1>4. QED BY <1>1, <1>2, <1>3

\* Listing children, joining a handle and returning to the parent's frame keep it
\* sound.
LEMMA CancelMoves ==
  ASSUME CancellerSound, PlaceTypes, Grows,
         Snapshot \/ CancelJoined \/ CancelTimeout \/ Return \/ CancelDone
  PROVE  CancellerSound'
  <1>1. ASSUME Snapshot PROVE CancellerSound'
    <2>1. canceller.pc = "walk"
      BY <1>1 DEF Snapshot
    <2> DEFINE live == LiveChildren(Top.scope)
               frame == [Top EXCEPT !.snapped = TRUE, !.signal = live, !.wait = live]
    <2>2. live \subseteq Recorded
      BY DEF LiveChildren, ChildrenOf, Recorded
    <2> HIDE DEF live
    <2>3. frame \in Frames
      BY <2>1, <2>2, TopFrame DEF Frames
    <2>4. canceller' = [canceller EXCEPT !.stack = SetTop(frame)]
      BY <1>1 DEF Snapshot, CancelStep, live
    <2> HIDE DEF frame
    <2>5. SetTop(frame) \in Seq(Frames) /\ SetTop(frame) # <<>>
      BY <2>1, <2>3, TopFrame
    <2>6. QED
      BY <2>1, <2>4, <2>5, CancellerLift DEF CancellerSound, CancellerRecord, CancelPlaces
  <1>2. ASSUME Return PROVE CancellerSound'
    <2>1. canceller.pc = "walk"
      BY <1>2 DEF Return
    <2> DEFINE rest == SubSeq(canceller.stack, 1, Len(canceller.stack) - 1)
    <2>2. rest \in Seq(Frames)
      BY <2>1, TopFrame
    <2>3. Top.scope \in Recorded /\ Top.scope \in Owners
      BY <2>1, TopFrame, RootAssumption DEF Frames, Recorded
    <2>4. canceller' = [canceller EXCEPT !.stack = rest,
                             !.pc = IF rest = <<>> THEN "finish" ELSE "walk",
                             !.child = Top.scope, !.terminal = "cancelled"]
      BY <1>2 DEF Return, CancelStep
    <2> HIDE DEF rest
    <2>5. QED
      BY <2>2, <2>3, <2>4, CancellerLift DEF CancellerSound, CancellerRecord, CancelPlaces
  <1>3. ASSUME CancelJoined \/ CancelTimeout PROVE CancellerSound'
    <2>1. canceller.child \in Children
      BY <1>3 DEF CancelJoined, CancelTimeout, CancelStep, CancellerSound, Recorded
    <2>2. CASE CancelTimeout
      BY <2>1, <2>2, CancellerLift
      DEF CancelTimeout, CancelStep, CancellerSound, CancellerRecord, CancelPlaces
    <2>3. CASE CancelJoined
      <3>1. verdict[canceller.child] \in Terminals
        BY <2>1 DEF PlaceTypes
      <3>2. QED
        BY <2>1, <2>3, <3>1, CancellerLift
        DEF CancelJoined, CancelStep, CancellerSound, CancellerRecord, CancelPlaces
    <2>4. QED BY <1>3, <2>2, <2>3
  <1>4. ASSUME CancelDone PROVE CancellerSound'
    BY <1>4, CancellerLift DEF CancelDone, CancelStep, CancellerSound, CancellerRecord, CancelPlaces
  <1>5. QED BY <1>1, <1>2, <1>3, <1>4

\* Finishing a child and ending a generation keep it sound.
LEMMA CancelFinishes ==
  ASSUME CancellerSound, PlaceTypes, Grows,
         \/ CancelSettle \/ CancelPersist \/ CancelRecord \/ ResetCancels \/ ResetAdvances
  PROVE  CancellerSound'
  <1>1. ASSUME CancelSettle PROVE CancellerSound'
    <2>1. canceller.child \in Children
      BY <1>1 DEF CancelSettle, CancelStep, CancellerSound, Recorded
    <2>2. QED
      BY <1>1, <2>1, CancellerLift DEF CancelSettle, CancelStep, AfterSettle, CancellerSound, CancellerRecord,
         CancelPlaces
  <1>2. ASSUME CancelPersist \/ ResetCancels \/ ResetAdvances PROVE CancellerSound'
    BY <1>2, CancellerLift
    DEF CancelPersist, ResetCancels, ResetAdvances, CancelStep, CancellerSound, CancellerRecord,
        CancelPlaces
  <1>3. ASSUME CancelRecord PROVE CancellerSound'
    <2>1. <<>> \in Seq(Frames)
      OBVIOUS
    <2>2. QED
      BY <1>3, <2>1, CancellerLift
      DEF CancelRecord, CancelStep, CancellerSound, CancellerRecord, CancelPlaces
  <1>4. QED BY <1>1, <1>2, <1>3

\* Everybody else leaves the canceller's bookkeeping alone.
LEMMA OthersLeaveCanceller ==
  ASSUME \/ \E c \in Children :
              \/ CallNext(c)
              \/ \E p \in Owners, t \in Turns \cup {NoTurn}, g \in GroupIds :
                   LookUpGroup(c, p, t, g)
              \/ LoopFails(c) \/ CandidateFinal(c) \/ CollectNext(c) \/ FinishNext(c)
         \/ InterruptRoot \/ RootSweep
         \/ \E gen \in 0 .. MaxGeneration : RootPick(gen)
         \/ \E g \in GroupIds : Deadline(g)
  PROVE  UNCHANGED canceller
  <1>1. ASSUME NEW c \in Children,
               \/ CallNext(c)
               \/ \E p \in Owners, t \in Turns \cup {NoTurn}, g \in GroupIds : LookUpGroup(c, p, t, g)
        PROVE  UNCHANGED canceller
    BY <1>1 DEF CallNext, Admit, AcquirePermit, InsertRecord, InsertScope, MarkRunning,
       JoinGroup, Spawn, RegisterTask, RejectSettle, RejectPersist, RejectRecord, CallStep,
       LookUpGroup
  <1>2. ASSUME NEW c \in Children,
               LoopFails(c) \/ CandidateFinal(c) \/ CollectNext(c) \/ FinishNext(c)
        PROVE  UNCHANGED canceller
    BY <1>2 DEF LoopFails, CandidateFinal, CollectNext, TakeHandle, JoinChild,
       JoinHandle, Joined, ClaimOwn, Resume, BeginFinalizing, Conclude, FinishNext,
       Finish, Persist, Record, ForceRecord, FutStep
  <1>3. ASSUME \/ InterruptRoot \/ RootSweep
               \/ \E gen \in 0 .. MaxGeneration : RootPick(gen)
               \/ \E g \in GroupIds : Deadline(g)
        PROVE  UNCHANGED canceller
    BY <1>3 DEF InterruptRoot, RootSweep, RootPick, Deadline
  <1>4. QED BY <1>1, <1>2, <1>3

\* The canceller's bookkeeping is sound after every step.
LEMMA CancellerStep ==
  ASSUME CancellerSound, PlaceTypes, Grows, \A c \in Children : Reservation(c), Next
  PROVE  CancellerSound'
  <1>1. ASSUME CancelNext PROVE CancellerSound'
    BY <1>1, CancelWalks, CancelMoves, CancelFinishes DEF CancelNext
  <1>2. QED BY <1>1, OthersLeaveCanceller, CancellerUntouched, CancelStarts DEF Next


-----------------------------------------------------------------------------
(* The generation and the maps to groups                                   *)

\* Only the second half of a reset advances the generation.
LEMMA GenerationStep ==
  ASSUME Next
  PROVE  \/ CurrentGeneration(Session)' = CurrentGeneration(Session)
         \/ ResetAdvances /\ CurrentGeneration(Session)' = CurrentGeneration(Session) + 1
  <1> DEFINE Same == CurrentGeneration(Session)' = CurrentGeneration(Session)
  <1>1. UNCHANGED generations => Same
    BY DEF CurrentGeneration
  <1>2. ASSUME NEW c, NEW t, RecordMapped(c, t) PROVE UNCHANGED generations
    BY <1>2 DEF RecordMapped, RecordResult
  <1>3. ASSUME NEW c \in Children, CallNext(c) PROVE UNCHANGED generations
    BY <1>2, <1>3 DEF CallNext, Admit, AcquirePermit, InsertRecord, InsertScope, MarkRunning,
       JoinGroup, AddChild, Spawn, RegisterTask, RejectSettle, RejectPersist, RejectRecord
  <1>4. ASSUME NEW c \in Children, NEW p, NEW t, NEW g, LookUpGroup(c, p, t, g) PROVE Same
    BY <1>4 DEF LookUpGroup, CreateGroup, InitializeOrValidateGeneration, CurrentGeneration
  <1>5. ASSUME NEW c \in Children,
               LoopFails(c) \/ CandidateFinal(c) \/ CollectNext(c) \/ FinishNext(c)
        PROVE  UNCHANGED generations
    BY <1>2, <1>5 DEF LoopFails, CandidateFinal, CollectNext, TakeHandle, JoinChild,
       JoinHandle, Joined, ClaimOwn, HandOver, RemoveDelivery, Resume, BeginFinalizing,
       Conclude, FinishNext, Finish, Persist, Record, ForceRecord
  <1>6. ASSUME \/ InterruptRoot \/ RootSweep
               \/ \E gen \in 0 .. MaxGeneration : RootPick(gen)
               \/ \E g \in GroupIds : Deadline(g)
        PROVE  UNCHANGED generations
    BY <1>6 DEF InterruptRoot, RootSweep, ExpireDueGroups, RootPick, HandOver,
       RemoveDelivery, Deadline, DeadlinePasses
  <1>7. ASSUME CancelChild \/ CancelSession \/ ResetSession PROVE UNCHANGED generations
    BY <1>7 DEF CancelChild, CancelSession, ResetSession, Request, StartCancel
  <1>8. ASSUME ResetAdvances PROVE CurrentGeneration(Session)' = CurrentGeneration(Session) + 1
    BY <1>8 DEF ResetAdvances, AdvanceGeneration, CurrentGeneration
  <1>9. ASSUME CancelNext PROVE UNCHANGED generations \/ ResetAdvances
    BY <1>2, <1>9 DEF CancelNext, PickTarget, Signal, AwaitCancelled, Snapshot, CancelJoined,
       CancelTimeout, Return, CancelSettle, CancelPersist, CancelRecord, CancelDone,
       ResetCancels, CancelGeneration
  <1>10. QED BY <1>1, <1>3, <1>4, <1>5, <1>6, <1>7, <1>8, <1>9 DEF Next

\* A reset that is under way still has a generation to advance to.
LEMMA ResetStep ==
  ASSUME TypeOK, CancellerSound, ResetBounded, Next
  PROVE  ResetBounded'
  <1>1. CurrentGeneration(Session) \in Nat
    BY GenerationIsNat
  <1>2. CASE ResetAdvances /\ CurrentGeneration(Session)' = CurrentGeneration(Session) + 1
    <2>1. canceller.pc = "advance" /\ canceller'.pc = "idle"
      BY <1>2 DEF ResetAdvances, CancelStep, CancellerSound, CancellerRecord
    <2>2. QED BY <1>1, <1>2, <2>1, MaxGenerationAssumption DEF ResetBounded
  <1>3. CASE CurrentGeneration(Session)' = CurrentGeneration(Session)
    <2>1. ASSUME UNCHANGED canceller PROVE ResetBounded'
      BY <1>3, <2>1 DEF ResetBounded
    <2>2. ASSUME canceller'.reset = canceller.reset, canceller.pc # "idle",
                 canceller'.pc \in {"cancelGeneration", "advance"} => canceller.reset
          PROVE  ResetBounded'
      BY <1>3, <2>2 DEF ResetBounded
    <2>3. ASSUME CancelNext PROVE ResetBounded'
      <3> DEFINE Goes == /\ canceller'.reset = canceller.reset /\ canceller.pc # "idle"
                         /\ canceller'.pc \in {"cancelGeneration", "advance"} =>
                              canceller.reset \/ canceller.pc \in {"cancelGeneration", "advance"}
      <3> USE DEF CancellerSound, CancellerRecord, CancelStep
      <3>1. ASSUME NEW c \in Children, PickTarget(c) PROVE Goes
        BY <3>1 DEF PickTarget
      <3>2. ASSUME (\E c \in Children : Signal(c)) \/ Snapshot PROVE Goes
        BY <3>2 DEF Signal, Snapshot
      <3>3. ASSUME NEW c \in Children, AwaitCancelled(c) PROVE Goes
        BY <3>3 DEF AwaitCancelled
      <3>4. ASSUME CancelJoined \/ CancelTimeout PROVE Goes
        BY <3>4 DEF CancelJoined, CancelTimeout
      <3>5. ASSUME Return PROVE Goes
        BY <3>5 DEF Return
      <3>6. ASSUME CancelSettle \/ CancelPersist PROVE Goes
        BY <3>6 DEF CancelSettle, AfterSettle, CancelPersist
      <3>7. ASSUME CancelRecord \/ CancelDone PROVE Goes
        BY <3>7 DEF CancelRecord, CancelDone
      <3>8. ASSUME ResetCancels \/ ResetAdvances PROVE Goes
        BY <3>8 DEF ResetCancels, ResetAdvances
      <3>9. Goes
        <4> HIDE DEF Goes
        <4>1. QED BY <2>3, <3>1, <3>2, <3>3, <3>4, <3>5, <3>6, <3>7, <3>8 DEF CancelNext
      <3>10. QED BY <2>2, <3>9 DEF ResetBounded
    <2>4. ASSUME CancelChild \/ CancelSession \/ ResetSession PROVE ResetBounded'
      <3>1. ASSUME NEW targets, NEW reset \in BOOLEAN, StartCancel(targets, reset),
                   reset => CurrentGeneration(Session) < MaxGeneration
            PROVE  ResetBounded'
        <4>1. canceller'.pc = "pick" /\ canceller'.reset = reset
          BY <3>1 DEF StartCancel, CancellerSound, CancellerRecord
        <4>2. QED BY <1>3, <3>1, <4>1 DEF ResetBounded
      <3>2. QED BY <2>4, <3>1 DEF CancelChild, CancelSession, ResetSession, Request
    <2>5. ASSUME NEW c \in Children,
               \/ CallNext(c)
               \/ \E p \in Owners, t \in Turns \cup {NoTurn}, g \in GroupIds : LookUpGroup(c, p, t, g)
               \/ LoopFails(c) \/ CandidateFinal(c) \/ CollectNext(c) \/ FinishNext(c)
          PROVE  UNCHANGED canceller
      BY <2>5, OthersLeaveCanceller
    <2>6. ASSUME \/ InterruptRoot \/ RootSweep
                 \/ \E gen \in 0 .. MaxGeneration : RootPick(gen)
                 \/ \E g \in GroupIds : Deadline(g)
          PROVE  UNCHANGED canceller
      BY <2>6, OthersLeaveCanceller
    <2>7. QED BY <2>1, <2>3, <2>4, <2>5, <2>6 DEF Next
  <1>4. QED BY <1>2, <1>3, GenerationStep

\* The maps to groups stay well typed.
LEMMA MapsTyped ==
  ASSUME TypeOK, MapTypes, CancellerSound, Next
  PROVE  MapTypes'
  <1>1. ASSUME NEW keys, DropOwnerKeys(keys), UNCHANGED childGroups PROVE MapTypes'
    BY <1>1 DEF MapTypes, DropOwnerKeys
  <1>2. ASSUME NEW c \in Children, NEW t, RecordMapped(c, t), UNCHANGED ownerGroups
        PROVE  MapTypes'
    BY <1>2 DEF MapTypes, RecordMapped
  <1>3. ASSUME UNCHANGED mapVars PROVE MapTypes'
    BY <1>3 DEF MapTypes
  <1>4. ASSUME NEW c \in Children, NEW p \in Owners, NEW t \in Turns \cup {NoTurn},
               NEW g \in GroupIds, LookUpGroup(c, p, t, g)
        PROVE  MapTypes'
    <2> DEFINE key == <<p, CurrentGeneration(Session), t>>
    <2>1. key \in Owners \X Nat \X (Turns \cup {NoTurn})
      BY GenerationIsNat
    <2>2. \/ UNCHANGED mapVars
          \/ /\ ownerGroups' = [k \in DOMAIN ownerGroups \cup {key} |->
                                   IF k = key THEN g ELSE ownerGroups[k]]
             /\ UNCHANGED childGroups
      BY <1>4 DEF LookUpGroup
    <2> HIDE DEF key
    <2>3. QED BY <2>1, <2>2 DEF MapTypes
  <1>5. ASSUME NEW c \in Children, JoinGroup(c) PROVE MapTypes'
    <2>1. CanAddChild(callGroup[c], c) => callGroup[c] \in GroupIds
      BY DEF CanAddChild, Accepts, EnsureGroupCurrent, TypeOK
    <2>2. QED BY <1>5, <2>1 DEF JoinGroup, MapTypes
  <1>6. ASSUME NEW c \in Children, CallNext(c) PROVE MapTypes'
    BY <1>2, <1>3, <1>5, <1>6
    DEF CallNext, Admit, AcquirePermit, InsertRecord, InsertScope, MarkRunning, Spawn,
        RegisterTask, RejectSettle, RejectPersist, RejectRecord
  <1>7. ASSUME NEW c \in Children,
               LoopFails(c) \/ CandidateFinal(c) \/ CollectNext(c) \/ FinishNext(c)
        PROVE  MapTypes'
    BY <1>1, <1>2, <1>3, <1>7 DEF LoopFails, CandidateFinal, CollectNext, TakeHandle, JoinChild,
       JoinHandle, Joined, ClaimOwn, HandOver, Resume, BeginFinalizing,
       Conclude, FinishNext, Finish, Persist, Record, ForceRecord
  <1>8. ASSUME \/ InterruptRoot \/ RootSweep
               \/ \E gen \in 0 .. MaxGeneration : RootPick(gen)
               \/ \E g \in GroupIds : Deadline(g)
               \/ CancelChild \/ CancelSession \/ ResetSession
        PROVE  MapTypes'
    BY <1>1, <1>3, <1>8 DEF InterruptRoot, RootSweep, RootPick, HandOver, Deadline,
       CancelChild, CancelSession, ResetSession, Request, StartCancel
  <1>9. ASSUME NEW stale, CleanMappings(stale) PROVE MapTypes'
    BY <1>9 DEF CleanMappings, DropOwnerKeys, MapTypes
  <1>10. ASSUME CancelNext PROVE MapTypes'
    <2>1. CancelRecord => canceller.child \in Children
      BY DEF CancelRecord, CancelStep, CancellerSound, Recorded
    <2>2. QED
      BY <1>2, <1>3, <1>9, <1>10, <2>1 DEF CancelNext, PickTarget, Signal, AwaitCancelled, Snapshot, CancelJoined,
       CancelTimeout, Return, CancelSettle, CancelPersist, CancelRecord, CancelDone,
       ResetCancels, ResetAdvances
  <1>11. QED BY <1>4, <1>6, <1>7, <1>8, <1>10 DEF Next

-----------------------------------------------------------------------------
(* Reservations: the place of a call and of a future against the scope      *)

\* What the places of every child's call and future say about it.
Reservations == \A c \in Children : Reservation(c)

\* The steps of a `task` call keep its place and its scope in agreement.
LEMMA CallReserves ==
  ASSUME PlaceTypes, Reservations, LiveHoldsPermit, NEW c \in Children,
         \/ CallNext(c)
         \/ \E p \in Owners, t \in Turns \cup {NoTurn}, g \in GroupIds : LookUpGroup(c, p, t, g)
  PROVE  Reservations' /\ LiveHoldsPermit'
  <1> USE DEF Reservations, Reservation, LiveHoldsPermit, PlaceTypes, BeforeScope, BeforeJoin,
              Rejecting, Settled
  <1>1. CASE Admit(c) \/ AcquirePermit(c)
    BY <1>1 DEF Admit, AcquirePermit, CallStep
  <1>2. CASE InsertRecord(c)
    BY <1>2 DEF InsertRecord, CallStep
  <1>3. CASE InsertScope(c)
    BY <1>3 DEF InsertScope, CallStep
  <1>4. CASE MarkRunning(c)
    BY <1>4 DEF MarkRunning, CallStep
  <1>5. CASE JoinGroup(c)
    BY <1>5 DEF JoinGroup, CallStep
  <1>6. CASE Spawn(c)
    BY <1>6 DEF Spawn
  <1>7. CASE RegisterTask(c)
    BY <1>7 DEF RegisterTask, CallStep
  <1>8. CASE RejectSettle(c)
    BY <1>8 DEF RejectSettle, CallStep, SettleScope, AfterSettle
  <1>9. CASE RejectPersist(c) \/ RejectRecord(c)
    BY <1>9 DEF RejectPersist, RejectRecord, CallStep
  <1>10. ASSUME NEW p, NEW t, NEW g, LookUpGroup(c, p, t, g)
         PROVE  Reservations' /\ LiveHoldsPermit'
    BY <1>10 DEF LookUpGroup
  <1>11. QED
    BY <1>1, <1>2, <1>3, <1>4, <1>5, <1>6, <1>7, <1>8, <1>9, <1>10 DEF CallNext

\* So do the steps of a future.
LEMMA FutureReserves ==
  ASSUME PlaceTypes, Reservations, LiveHoldsPermit, NEW c \in Children,
         LoopFails(c) \/ CandidateFinal(c) \/ CollectNext(c) \/ FinishNext(c)
  PROVE  Reservations' /\ LiveHoldsPermit'
  <1> USE DEF Reservations, Reservation, LiveHoldsPermit, PlaceTypes, BeforeScope, BeforeJoin,
              Rejecting, Settled
  <1>1. CASE LoopFails(c)
    BY <1>1 DEF LoopFails, DropCallsOf
  <1>2. CASE CandidateFinal(c)
    BY <1>2 DEF CandidateFinal, FutStep
  <1>3. ASSUME NEW d \in Children, TakeHandle(c, d) \/ JoinChild(c, d)
        PROVE  Reservations' /\ LiveHoldsPermit'
    BY <1>3 DEF TakeHandle, JoinChild
  <1>4. ASSUME NEW d \in Children, JoinHandle(c, d)
        PROVE  Reservations' /\ LiveHoldsPermit'
    BY <1>4 DEF JoinHandle
  <1>5. CASE Joined(c) \/ ClaimOwn(c) \/ Conclude(c)
    BY <1>5 DEF Joined, ClaimOwn, Conclude, FutStep
  <1>6. CASE Resume(c) \/ BeginFinalizing(c)
    BY <1>6 DEF Resume, BeginFinalizing, FutStep
  <1>7. CASE Finish(c)
    BY <1>7 DEF Finish, FutStep, SettleScope, AfterSettle
  <1>8. CASE Persist(c) \/ Record(c) \/ ForceRecord(c)
    BY <1>8 DEF Persist, Record, ForceRecord, FutStep
  <1>9. QED
    BY <1>1, <1>2, <1>3, <1>4, <1>5, <1>6, <1>7, <1>8 DEF CollectNext, FinishNext

\* So do interrupts, claims of the root's groups and deadlines.
LEMMA RootReserves ==
  ASSUME PlaceTypes, Reservations, LiveHoldsPermit,
         \/ InterruptRoot \/ RootSweep
         \/ \E gen \in 0 .. MaxGeneration : RootPick(gen)
         \/ \E g \in GroupIds : Deadline(g)
         \/ CancelChild \/ CancelSession \/ ResetSession
  PROVE  Reservations' /\ LiveHoldsPermit'
  <1> USE DEF Reservations, Reservation, LiveHoldsPermit
  <1>1. CASE InterruptRoot
    BY <1>1 DEF InterruptRoot, DropCallsOf, PlaceTypes, BeforeScope, BeforeJoin, Rejecting
  <1>2. CASE ~ InterruptRoot
    <2>1. UNCHANGED <<scope, record, holds, handle, call, fut, torn, registered>>
      BY <1>2 DEF RootSweep, RootPick, Deadline, CancelChild, CancelSession, ResetSession,
         Request, StartCancel
    <2>2. QED BY <2>1
  <1>3. QED BY <1>1, <1>2

\* So does the canceller, which may overwrite a scope at any of them.
LEMMA CancelReserves ==
  ASSUME PlaceTypes, Reservations, LiveHoldsPermit, CancellerSound, CancelNext
  PROVE  Reservations' /\ LiveHoldsPermit'
  <1> USE DEF Reservations, Reservation, LiveHoldsPermit
  <1>1. ASSUME NEW c \in Children, PickTarget(c) \/ Signal(c)
        PROVE  Reservations' /\ LiveHoldsPermit'
    BY <1>1 DEF PickTarget, Signal, MarkCancelling, Marks, Tear, PlaceTypes, CancelStep,
       BeforeScope
  <1>2. ASSUME NEW c \in Children, AwaitCancelled(c)
        PROVE  Reservations' /\ LiveHoldsPermit'
    BY <1>2 DEF AwaitCancelled
  <1>3. CASE Snapshot \/ CancelJoined \/ Return \/ CancelDone
    BY <1>3 DEF Snapshot, CancelJoined, Return, CancelDone
  <1>4. CASE CancelTimeout \/ CancelSettle \/ CancelPersist \/ CancelRecord
    <2>1. canceller.child \in Recorded /\ canceller.terminal \in Terminals
      BY <1>4 DEF CancelTimeout, CancelSettle, CancelPersist, CancelRecord, CancelStep, CancellerSound,
         CancellerRecord
    <2>2. CASE CancelTimeout
      <3>1. fut[canceller.child] # "none"
        BY <2>2 DEF CancelTimeout, CancelStep, CancellerSound
      <3>2. QED
        BY <2>1, <2>2, <3>1 DEF CancelTimeout, DropCallsOf, PlaceTypes, BeforeScope, BeforeJoin, Rejecting, Settled,
           Recorded
    <2>3. CASE CancelSettle
      BY <2>1, <2>3 DEF CancelSettle, SettleScope, Tear, PlaceTypes, BeforeScope, Recorded
    <2>4. CASE CancelPersist
      BY <2>1, <2>4 DEF CancelPersist, PlaceTypes, Recorded
    <2>5. CASE CancelRecord
      BY <2>5 DEF CancelRecord
    <2>6. QED BY <1>4, <2>2, <2>3, <2>4, <2>5
  <1>5. CASE ResetCancels \/ ResetAdvances
    BY <1>5 DEF ResetCancels, ResetAdvances
  <1>6. QED BY <1>1, <1>2, <1>3, <1>4, <1>5 DEF CancelNext

\* Every step keeps places, scopes and permits of live children in agreement.
LEMMA ReservationStep ==
  ASSUME PlaceTypes, Reservations, LiveHoldsPermit, CancellerSound, Next
  PROVE  Reservations' /\ LiveHoldsPermit'
  BY CallReserves, FutureReserves, RootReserves, CancelReserves DEF Next

\* A terminal status stays, outside the window of the reservation.
LEMMA TerminalStays ==
  ASSUME PlaceTypes, Reservations, CancellerSound, Next, NEW d \in Children,
         Terminal(scope[d]), call[d] # "pending"
  PROVE  scope'[d] = scope[d]
  <1>1. call[d] # "stored"
    BY DEF Reservations, Reservation, BeforeScope
  <1>2. ASSUME NEW c \in Children, NEW t, SettleScope(c, t) PROVE scope'[d] = scope[d]
    BY <1>2 DEF SettleScope, PlaceTypes
  <1>3. ASSUME NEW c \in Children, MarkCancelling(c) PROVE scope'[d] = scope[d]
    BY <1>3 DEF MarkCancelling, Marks, PlaceTypes
  <1>4. ASSUME NEW c \in Children, CallNext(c) PROVE scope'[d] = scope[d]
    <2>1. CASE InsertScope(c) \/ MarkRunning(c)
      BY <1>1, <2>1 DEF InsertScope, MarkRunning, CallStep, PlaceTypes
    <2>2. QED
      BY <1>2, <1>4, <2>1 DEF CallNext, Admit, AcquirePermit, InsertRecord, JoinGroup, Spawn,
         RegisterTask, RejectSettle, RejectPersist, RejectRecord
  <1>5. ASSUME NEW c \in Children, NEW p, NEW t, NEW g, LookUpGroup(c, p, t, g)
        PROVE  scope'[d] = scope[d]
    BY <1>5 DEF LookUpGroup
  <1>6. ASSUME NEW c \in Children, CandidateFinal(c) \/ Resume(c) \/ BeginFinalizing(c)
        PROVE  scope'[d] = scope[d]
    BY <1>6 DEF CandidateFinal, Resume, BeginFinalizing, PlaceTypes
  <1>7. ASSUME NEW c \in Children, NEW e \in Children, JoinHandle(c, e)
        PROVE  scope'[d] = scope[d]
    BY <1>7 DEF JoinHandle, PlaceTypes
  <1>8. ASSUME NEW c \in Children, LoopFails(c) \/ CollectNext(c) \/ FinishNext(c)
        PROVE  scope'[d] = scope[d]
    BY <1>2, <1>6, <1>7, <1>8 DEF LoopFails, CollectNext, TakeHandle, JoinChild, Joined,
       ClaimOwn, Conclude, FinishNext, Finish, Persist, Record, ForceRecord
  <1>9. ASSUME \/ InterruptRoot \/ RootSweep
               \/ \E gen \in 0 .. MaxGeneration : RootPick(gen)
               \/ \E g \in GroupIds : Deadline(g)
               \/ CancelChild \/ CancelSession \/ ResetSession
        PROVE  scope'[d] = scope[d]
    BY <1>9 DEF InterruptRoot, RootSweep, RootPick, Deadline, CancelChild, CancelSession,
       ResetSession, Request, StartCancel
  <1>10. ASSUME CancelNext PROVE scope'[d] = scope[d]
    <2>1. CancelSettle => canceller.child \in Children
      BY DEF CancelSettle, CancelStep, CancellerSound, Recorded
    <2>2. QED
      BY <1>2, <1>3, <1>10, <2>1 DEF CancelNext, PickTarget, Signal, AwaitCancelled, Snapshot,
         CancelJoined, CancelTimeout, Return, CancelSettle, CancelPersist, CancelRecord,
         CancelDone, ResetCancels, ResetAdvances
  <1>11. QED BY <1>4, <1>5, <1>6, <1>8, <1>9, <1>10 DEF Next

\* A call that is past the insertion of its scope, or was dropped before it, inserts
\* none any more.
LEMMA AbsentStays ==
  ASSUME PlaceTypes, Reservations, CancellerSound, Next, NEW d \in Children,
         call[d] \notin BeforeScope
  PROVE  /\ call'[d] \notin BeforeScope
         /\ scope[d] = "absent" => scope'[d] = "absent"
  <1> DEFINE Stays == /\ call'[d] \notin BeforeScope
                      /\ scope[d] = "absent" => scope'[d] = "absent"
  <1>1. scope[d] = "absent" => call[d] # "pending"
    BY DEF Reservations, Reservation
  <1>2. ASSUME NEW c \in Children, NEW t, SettleScope(c, t)
        PROVE  scope[d] = "absent" => scope'[d] = "absent"
    BY <1>2 DEF SettleScope, PlaceTypes
  <1>3. ASSUME NEW c \in Children, MarkCancelling(c)
        PROVE  scope[d] = "absent" => scope'[d] = "absent"
    BY <1>3 DEF MarkCancelling, Marks, PlaceTypes
  <1>4. ASSUME NEW p, DropCallsOf(p) PROVE call'[d] \notin BeforeScope
    BY <1>4 DEF DropCallsOf, PlaceTypes, BeforeScope
  <1>5. ASSUME NEW c \in Children, CallNext(c) PROVE Stays
    <2>1. CASE InsertScope(c) \/ MarkRunning(c)
      BY <1>1, <2>1 DEF InsertScope, MarkRunning, CallStep, PlaceTypes, BeforeScope
    <2>2. CASE RejectSettle(c)
      BY <1>2, <2>2 DEF RejectSettle, CallStep, AfterSettle, PlaceTypes, BeforeScope
    <2>3. CASE Admit(c) \/ AcquirePermit(c) \/ InsertRecord(c) \/ JoinGroup(c)
      BY <2>3 DEF Admit, AcquirePermit, InsertRecord, JoinGroup, CallStep, PlaceTypes, BeforeScope
    <2>4. CASE Spawn(c) \/ RegisterTask(c) \/ RejectPersist(c) \/ RejectRecord(c)
      BY <2>4 DEF Spawn, RegisterTask, RejectPersist, RejectRecord, CallStep, PlaceTypes,
         BeforeScope
    <2>5. QED BY <1>5, <2>1, <2>2, <2>3, <2>4 DEF CallNext
  <1>6. ASSUME NEW c \in Children, NEW p, NEW t, NEW g, LookUpGroup(c, p, t, g) PROVE Stays
    BY <1>6 DEF LookUpGroup, PlaceTypes, BeforeScope
  <1>7. ASSUME NEW c \in Children, CandidateFinal(c) \/ Resume(c) \/ BeginFinalizing(c)
        PROVE  Stays
    BY <1>7 DEF CandidateFinal, Resume, BeginFinalizing, PlaceTypes
  <1>8. ASSUME NEW c \in Children, NEW e \in Children, JoinHandle(c, e) PROVE Stays
    BY <1>8 DEF JoinHandle, PlaceTypes
  <1>9. ASSUME NEW c \in Children, LoopFails(c) \/ CollectNext(c) \/ FinishNext(c) PROVE Stays
    BY <1>2, <1>4, <1>7, <1>8, <1>9 DEF LoopFails, CollectNext, TakeHandle, JoinChild, Joined,
       ClaimOwn, Conclude, FinishNext, Finish, Persist, Record, ForceRecord
  <1>10. ASSUME \/ InterruptRoot \/ RootSweep
                \/ \E gen \in 0 .. MaxGeneration : RootPick(gen)
                \/ \E g \in GroupIds : Deadline(g)
                \/ CancelChild \/ CancelSession \/ ResetSession
         PROVE  Stays
    BY <1>4, <1>10 DEF InterruptRoot, RootSweep, RootPick, Deadline, CancelChild,
       CancelSession, ResetSession, Request, StartCancel
  <1>11. ASSUME CancelNext PROVE Stays
    <2>1. CancelSettle => canceller.child \in Children
      BY DEF CancelSettle, CancelStep, CancellerSound, Recorded
    <2>2. QED
      BY <1>2, <1>3, <1>4, <1>11, <2>1 DEF CancelNext, PickTarget, Signal, AwaitCancelled,
         Snapshot, CancelJoined, CancelTimeout, Return, CancelSettle, CancelPersist,
         CancelRecord, CancelDone, ResetCancels, ResetAdvances
  <1>12. QED BY <1>5, <1>6, <1>7, <1>9, <1>10, <1>11 DEF Next

-----------------------------------------------------------------------------
(* What the operations on the store leave of a group                       *)

\* Groups only disappear; what is left keeps its owner and its members, and a
\* result it holds.
GroupsKept ==
  /\ minted \subseteq minted'
  /\ Unclaimed' \subseteq Unclaimed
  /\ \A h \in Unclaimed' :
       /\ groups'[h].session = groups[h].session
       /\ groups'[h].owner = groups[h].owner
       /\ groups'[h].turn = groups[h].turn
       /\ groups'[h].children = groups[h].children
       /\ groups[h].lifecycle = "Expired" => groups'[h].lifecycle = "Expired"

\* A result stays, unless the sweep makes up a timeout for a missing one.
ResultsKept ==
  \A h \in Unclaimed' : \A c \in Children :
    groups'[h].results[c] \in {groups[h].results[c], "timeout"}

\* An untouched store keeps its groups.
LEMMA UntouchedKept ==
  ASSUME UNCHANGED storeVars PROVE GroupsKept /\ ResultsKept
  BY DEF GroupsKept, ResultsKept

\* Removing groups keeps the others.
LEMMA RemovalKept ==
  ASSUME NEW gone, groups' = Without(gone), UNCHANGED minted PROVE GroupsKept /\ ResultsKept
  BY DEF GroupsKept, ResultsKept, Without

\* The sweep keeps owners and members of the groups it does not drop.
LEMMA SweepKept ==
  ASSUME TypeOK, ExpireDueGroups PROVE GroupsKept /\ ResultsKept
  <1>1. UNCHANGED minted /\ Unclaimed' \subseteq Unclaimed
        /\ \A h \in Unclaimed' : groups'[h] = Swept(h)
    BY DEF ExpireDueGroups, SweptGroups
  <1>2. \A h \in Unclaimed' : groups[h] \in GroupRecord
    BY <1>1 DEF TypeOK
  <1>3. ASSUME NEW h \in Unclaimed'
        PROVE  /\ Swept(h).session = groups[h].session
               /\ Swept(h).owner = groups[h].owner
               /\ Swept(h).turn = groups[h].turn
               /\ Swept(h).children = groups[h].children
               /\ groups[h].lifecycle = "Expired" => Swept(h).lifecycle = "Expired"
               /\ \A c \in Children : Swept(h).results[c] \in {groups[h].results[c], "timeout"}
    BY <1>2 DEF Swept, GroupRecord
  <1>4. QED BY <1>1, <1>3 DEF GroupsKept, ResultsKept

\* record_mapped_child_result changes one result of one group at most.
LEMMA RecordMappedKept ==
  ASSUME TypeOK, NEW c \in Children, NEW t, RecordMapped(c, t)
  PROVE  /\ GroupsKept
         /\ \A d \in Children : childGroups'[d] \in {childGroups[d], NoGroup}
         /\ \A h \in Unclaimed' : \A d \in Children :
              \/ groups'[h].results[d] = groups[h].results[d]
              \/ d = c /\ h = childGroups[c] /\ CanRecord(h, c) /\ groups'[h].results[d] = t
  <1> DEFINE g == childGroups[c]
  <1>1. \A d \in Children : childGroups'[d] \in {childGroups[d], NoGroup}
    BY DEF RecordMapped, TypeOK
  <1>2. CASE g # NoGroup /\ CanRecord(g, c)
    <2>1. /\ groups' = [groups EXCEPT ![g].results[c] = t]
          /\ UNCHANGED minted
      BY <1>2 DEF RecordMapped, RecordResult
    <2>2. g \in Unclaimed /\ groups[g] \in GroupRecord
      BY <1>2 DEF CanRecord, Accepts, EnsureGroupCurrent, TypeOK
    <2>3. /\ Unclaimed' = Unclaimed
          /\ \A h \in Unclaimed : h # g => groups'[h] = groups[h]
          /\ groups'[g].session = groups[g].session
          /\ groups'[g].owner = groups[g].owner
          /\ groups'[g].turn = groups[g].turn
          /\ groups'[g].children = groups[g].children
          /\ groups'[g].lifecycle = groups[g].lifecycle
          /\ \A d \in Children : d # c => groups'[g].results[d] = groups[g].results[d]
          /\ groups'[g].results[c] = t
      BY <2>1, <2>2 DEF GroupRecord, TypeOK
    <2> HIDE DEF g
    <2>4. GroupsKept
      BY <2>1, <2>3 DEF GroupsKept
    <2>5. \A h \in Unclaimed' : \A d \in Children :
              \/ groups'[h].results[d] = groups[h].results[d]
              \/ d = c /\ h = g /\ CanRecord(h, c) /\ groups'[h].results[d] = t
      BY <1>2, <2>3
    <2>6. QED BY <1>1, <2>4, <2>5 DEF g
  <1>3. CASE ~ (g # NoGroup /\ CanRecord(g, c))
    <2>1. UNCHANGED storeVars
      BY <1>3 DEF RecordMapped
    <2>2. QED BY <1>1, <2>1 DEF GroupsKept
  <1>4. QED BY <1>2, <1>3

\* Owner keys only disappear.
OwnersKept ==
  /\ DOMAIN ownerGroups' \subseteq DOMAIN ownerGroups
  /\ \A k \in DOMAIN ownerGroups' : ownerGroups'[k] = ownerGroups[k]

\* Children are only unmapped.
ChildMapKept == \A c \in Children : childGroups'[c] \in {childGroups[c], NoGroup}

\* No group is mapped and no member added.
MembershipKept == GroupsKept /\ OwnersKept /\ ChildMapKept /\ UNCHANGED registered

\* A claim removes one group and its keys.
LEMMA HandOverKept ==
  ASSUME NEW g, HandOver(g) PROVE GroupsKept /\ ResultsKept /\ OwnersKept
  <1>1. groups' = Without({g}) /\ UNCHANGED minted
    BY DEF HandOver, RemoveDelivery
  <1>2. GroupsKept /\ ResultsKept
    BY <1>1, RemovalKept
  <1>3. OwnersKept
    BY DEF HandOver, DropOwnerKeys, OwnersKept
  <1>4. QED BY <1>2, <1>3

\* clean_generation_mappings only unmaps.
LEMMA CleanKept ==
  ASSUME MapTypes, NEW stale, CleanMappings(stale) PROVE OwnersKept /\ ChildMapKept
  BY DEF CleanMappings, DropOwnerKeys, OwnersKept, ChildMapKept, MapTypes

\* Untouched maps are kept.
LEMMA MapsUntouched ==
  ASSUME UNCHANGED mapVars PROVE OwnersKept /\ ChildMapKept
  BY DEF OwnersKept, ChildMapKept

\* Only a lookup maps a group, and only a join adds a member.
LEMMA MembershipStep ==
  ASSUME TypeOK, MapTypes, CancellerSound, Next
  PROVE  \/ MembershipKept
         \/ \E c \in Children :
              \/ JoinGroup(c)
              \/ \E p \in Owners, t \in Turns \cup {NoTurn}, g \in GroupIds :
                   LookUpGroup(c, p, t, g)
  <1>1. ASSUME UNCHANGED <<storeVars, mapVars, registered>> PROVE MembershipKept
    BY <1>1, UntouchedKept, MapsUntouched DEF MembershipKept
  <1>2. ASSUME NEW c \in Children, NEW t, RecordMapped(c, t), UNCHANGED <<ownerGroups, registered>>
        PROVE  MembershipKept
    BY <1>2, RecordMappedKept DEF MembershipKept, OwnersKept, ChildMapKept
  <1>3. ASSUME NEW g, HandOver(g), UNCHANGED <<childGroups, registered>> PROVE MembershipKept
    BY <1>3, HandOverKept DEF MembershipKept, ChildMapKept
  <1>4. ASSUME NEW c \in Children, CallNext(c) PROVE MembershipKept \/ JoinGroup(c)
    BY <1>1, <1>2, <1>4
    DEF CallNext, Admit, AcquirePermit, InsertRecord, InsertScope, MarkRunning, Spawn,
        RegisterTask, RejectSettle, RejectPersist, RejectRecord
  <1>5. ASSUME NEW c \in Children,
               LoopFails(c) \/ CandidateFinal(c) \/ CollectNext(c) \/ FinishNext(c)
        PROVE  MembershipKept
    BY <1>1, <1>2, <1>3, <1>5 DEF LoopFails, CandidateFinal, CollectNext, TakeHandle, JoinChild,
       JoinHandle, Joined, ClaimOwn, Resume, BeginFinalizing, Conclude, FinishNext,
       Finish, Persist, Record, ForceRecord
  <1>6. ASSUME RootSweep PROVE MembershipKept
    BY <1>6, SweepKept, MapsUntouched DEF RootSweep, MembershipKept
  <1>7. ASSUME \/ InterruptRoot
               \/ \E gen \in 0 .. MaxGeneration : RootPick(gen)
               \/ CancelChild \/ CancelSession \/ ResetSession
        PROVE  MembershipKept
    BY <1>1, <1>3, <1>7 DEF InterruptRoot, RootPick, CancelChild, CancelSession, ResetSession,
       Request, StartCancel
  <1>8. ASSUME NEW g, Deadline(g) PROVE MembershipKept
    <2>1. UNCHANGED <<groups, minted, mapVars, registered>>
      BY <1>8 DEF Deadline, DeadlinePasses
    <2>2. QED BY <2>1, MapsUntouched DEF MembershipKept, GroupsKept
  <1>9. ASSUME ResetCancels \/ ResetAdvances PROVE MembershipKept
    <2>1. GroupsKept
      BY <1>9, RemovalKept DEF ResetCancels, ResetAdvances, CancelGeneration, AdvanceGeneration
    <2>2. OwnersKept /\ ChildMapKept
      BY <1>9, CleanKept DEF ResetCancels, ResetAdvances
    <2>3. QED BY <1>9, <2>1, <2>2 DEF ResetCancels, ResetAdvances, MembershipKept
  <1>10. ASSUME CancelNext PROVE MembershipKept
    <2>1. CancelRecord => canceller.child \in Children
      BY DEF CancelRecord, CancelStep, CancellerSound, Recorded
    <2>2. QED
      BY <1>1, <1>2, <1>9, <1>10, <2>1 DEF CancelNext, PickTarget, Signal, AwaitCancelled,
         Snapshot, CancelJoined, CancelTimeout, Return, CancelSettle, CancelPersist,
         CancelRecord, CancelDone
  <1>11. QED BY <1>4, <1>5, <1>6, <1>7, <1>8, <1>10 DEF Next

\* The effect of a join: the child is a new member of the group its caller owns.
Joins(c) ==
  LET g == callGroup[c]
  IN  /\ Owned(c) /\ CanAddChild(g, c) /\ call[c] = "reserved" /\ g \in Unclaimed
      /\ Unclaimed' = Unclaimed /\ UNCHANGED <<minted, ownerGroups>>
      /\ \A h \in Unclaimed :
           /\ groups'[h].session = groups[h].session
           /\ groups'[h].owner = groups[h].owner
           /\ groups'[h].turn = groups[h].turn
           /\ groups'[h].results = groups[h].results
           /\ groups'[h].lifecycle = groups[h].lifecycle
           /\ groups'[h].children = IF h = g THEN groups[h].children \cup {c}
                                    ELSE groups[h].children
      /\ childGroups' = [childGroups EXCEPT ![c] = g]
      /\ registered' = registered \cup {c}

\* reserve_child_in_group joins, or refuses and changes nothing.
LEMMA JoinEffect ==
  ASSUME TypeOK, NEW c \in Children, JoinGroup(c)
  PROVE  \/ Joins(c)
         \/ UNCHANGED <<storeVars, mapVars>> /\ MembershipKept /\ ResultsKept
  <1>1. CASE Owned(c) /\ CanAddChild(callGroup[c], c)
    <2>1. /\ groups' = [groups EXCEPT ![callGroup[c]].children = @ \cup {c}]
          /\ UNCHANGED <<minted, ownerGroups>> /\ call[c] = "reserved"
          /\ childGroups' = [childGroups EXCEPT ![c] = callGroup[c]]
          /\ registered' = registered \cup {c}
      BY <1>1 DEF JoinGroup, AddChild, CallStep
    <2>2. callGroup[c] \in Unclaimed /\ groups[callGroup[c]] \in GroupRecord
      BY <1>1 DEF CanAddChild, Accepts, EnsureGroupCurrent, TypeOK
    <2>3. /\ Unclaimed' = Unclaimed
          /\ \A h \in Unclaimed : h # callGroup[c] => groups'[h] = groups[h]
          /\ LET r == groups[callGroup[c]] s == groups'[callGroup[c]]
             IN  /\ s.session = r.session /\ s.owner = r.owner /\ s.turn = r.turn
                 /\ s.results = r.results /\ s.lifecycle = r.lifecycle
                 /\ s.children = r.children \cup {c}
      BY <2>1, <2>2 DEF GroupRecord, TypeOK
    <2>4. QED BY <1>1, <2>1, <2>2, <2>3 DEF Joins
  <1>2. CASE ~ (Owned(c) /\ CanAddChild(callGroup[c], c))
    <2>1. UNCHANGED <<storeVars, mapVars, registered>>
      BY <1>2 DEF JoinGroup
    <2>2. QED BY <2>1, UntouchedKept, MapsUntouched DEF MembershipKept
  <1>3. QED BY <1>1, <1>2

\* The effect of a lookup that finds no mapping: the store's group, or a new one, is
\* mapped.
Maps(p, t, g) ==
  LET key == <<p, CurrentGeneration(Session), t>>
  IN  /\ minted \subseteq minted' /\ g \in minted'
      /\ Unclaimed' = Unclaimed \cup {g}
      /\ \A h \in Unclaimed : groups'[h] = groups[h]
      /\ groups'[g].session = Session
      /\ groups'[g].owner = p
      /\ groups'[g].turn = t
      /\ g \notin Unclaimed => /\ g \notin minted
                               /\ groups'[g].children = {}
                               /\ \A d \in Children : groups'[g].results[d] = Unreported
                               /\ groups'[g].lifecycle = "Active"
      /\ key \notin DOMAIN ownerGroups
      /\ DOMAIN ownerGroups' = DOMAIN ownerGroups \cup {key}
      /\ \A k \in DOMAIN ownerGroups' :
           ownerGroups'[k] = IF k = key THEN g ELSE ownerGroups[k]

\* A lookup maps a group, or finds it mapped and changes nothing.
LEMMA LookUpEffect ==
  ASSUME TypeOK, MapTypes, NEW c \in Children, NEW p \in Owners, NEW t \in Turns \cup {NoTurn},
         NEW g \in GroupIds, LookUpGroup(c, p, t, g)
  PROVE  /\ UNCHANGED <<childGroups, registered>>
         /\ p # Root => t = NoTurn
         /\ \/ Maps(p, t, g)
            \/ UNCHANGED <<storeVars, mapVars>> /\ MembershipKept /\ ResultsKept
  <1> DEFINE key == <<p, CurrentGeneration(Session), t>>
  <1>1. UNCHANGED <<childGroups, registered>> /\ (p # Root => t = NoTurn)
    BY DEF LookUpGroup
  <1>2. CASE key \in DOMAIN ownerGroups
    <2>1. UNCHANGED <<storeVars, mapVars>>
      BY <1>1, <1>2 DEF LookUpGroup
    <2>2. QED BY <1>1, <2>1, UntouchedKept, MapsUntouched DEF MembershipKept
  <1>3. CASE key \notin DOMAIN ownerGroups
    <2>1. /\ CreateGroup(g, Session, p, t, CurrentGeneration(Session))
          /\ ownerGroups' = [k \in DOMAIN ownerGroups \cup {key} |->
                               IF k = key THEN g ELSE ownerGroups[k]]
      BY <1>3 DEF LookUpGroup
    <2>2. /\ DOMAIN ownerGroups' = DOMAIN ownerGroups \cup {key}
          /\ \A k \in DOMAIN ownerGroups' :
               ownerGroups'[k] = IF k = key THEN g ELSE ownerGroups[k]
      BY <2>1
    <2>3. CASE g \in GroupsFor(Session, p, t, CurrentGeneration(Session))
               /\ UNCHANGED <<groups, minted>>
      <3>1. Maps(p, t, g)
        BY <1>3, <2>2, <2>3 DEF GroupsFor, TypeOK, Maps
      <3>2. QED BY <1>1, <3>1
    <2>4. CASE InsertGroup(g, Session, p, t, CurrentGeneration(Session))
      <3>1. /\ minted \subseteq minted' /\ g \in minted' /\ g \notin minted
            /\ Unclaimed' = Unclaimed \cup {g} /\ g \notin Unclaimed
            /\ \A h \in Unclaimed : groups'[h] = groups[h]
            /\ groups'[g] = NewGroup(Session, p, t, CurrentGeneration(Session))
        BY <2>4 DEF InsertGroup, TypeOK
      <3>2. Maps(p, t, g)
        BY <1>3, <2>2, <3>1 DEF NewGroup, Maps
      <3>3. QED BY <1>1, <3>2
    <2>5. QED BY <2>1, <2>3, <2>4 DEF CreateGroup
  <1>4. QED BY <1>2, <1>3

\* Every step keeps the maps in agreement with the store and the generation.
LEMMA MapsStep ==
  ASSUME TypeOK, MapTypes, CancellerSound, MapsSound, Reservations, Next
  PROVE  MapsSound'
  <1>1. CASE MembershipKept
    <2>1. \A k \in DOMAIN ownerGroups' : k[2] = CurrentGeneration(Session)'
      <3>1. CASE CurrentGeneration(Session)' = CurrentGeneration(Session)
        BY <1>1, <3>1 DEF MembershipKept, OwnersKept, MapsSound
      <3>2. CASE ResetAdvances
        <4>1. DOMAIN ownerGroups'
                = DOMAIN ownerGroups
                    \ {k \in DOMAIN ownerGroups : k[2] \in 0 .. CurrentGeneration(Session)}
          BY <3>2 DEF ResetAdvances, CleanMappings, DropOwnerKeys
        <4>2. \A k \in DOMAIN ownerGroups : k[2] \in 0 .. CurrentGeneration(Session)
          BY GenerationIsNat DEF MapsSound
        <4>3. QED BY <4>1, <4>2
      <3>3. QED BY <3>1, <3>2, GenerationStep
    <2>2. QED
      BY <1>1, <2>1, NoGroupAssumption
      DEF MembershipKept, OwnersKept, ChildMapKept, GroupsKept, MapsSound
  <1>2. ASSUME NEW c \in Children, JoinGroup(c) PROVE MapsSound'
    <2>1. CASE MembershipKept
      BY <1>1, <2>1
    <2>2. CASE ~ MembershipKept
      <3>1. CurrentGeneration(Session)' = CurrentGeneration(Session)
        <4>1. UNCHANGED canceller
          BY <1>2, OthersLeaveCanceller DEF CallNext
        <4>2. ~ ResetAdvances
          BY <4>1 DEF ResetAdvances, CancelStep, CancellerSound, CancellerRecord
        <4>3. QED BY <4>2, GenerationStep
      <3>2. Joins(c) /\ callGroup[c] \in minted
        BY <1>2, <2>2, JoinEffect DEF TypeOK, Joins
      <3>3. /\ Unclaimed' = Unclaimed /\ UNCHANGED <<minted, ownerGroups>>
            /\ \A h \in Unclaimed :
                 /\ groups'[h].session = groups[h].session
                 /\ groups'[h].owner = groups[h].owner
                 /\ groups'[h].turn = groups[h].turn
                 /\ groups[h].children \subseteq groups'[h].children
            /\ c \in groups'[callGroup[c]].children
            /\ childGroups' = [childGroups EXCEPT ![c] = callGroup[c]]
            /\ registered' = registered \cup {c}
        BY <3>2 DEF Joins
      <3>4. \A k \in DOMAIN ownerGroups' :
              /\ k[2] = CurrentGeneration(Session)'
              /\ ownerGroups'[k] \in minted'
              /\ ownerGroups'[k] \in Unclaimed' => groups'[ownerGroups'[k]].owner = k[1]
        BY <3>1, <3>3 DEF MapsSound
      <3>5. \A g \in Unclaimed' :
              /\ groups'[g].session = Session
              /\ groups'[g].owner # Root => groups'[g].turn = NoTurn
        BY <3>3 DEF MapsSound
      <3>6. \A d \in Children : childGroups'[d] # NoGroup =>
              /\ d \in registered' /\ childGroups'[d] \in minted'
              /\ childGroups'[d] \in Unclaimed' => d \in groups'[childGroups'[d]].children
        BY <3>2, <3>3 DEF MapsSound, MapTypes
      <3>7. QED BY <3>4, <3>5, <3>6 DEF MapsSound
    <2>3. QED BY <2>1, <2>2
  <1>3. ASSUME NEW c \in Children, NEW p \in Owners, NEW t \in Turns \cup {NoTurn},
               NEW g \in GroupIds, LookUpGroup(c, p, t, g)
        PROVE  MapsSound'
    <2>1. CASE MembershipKept
      BY <1>1, <2>1
    <2>2. CASE ~ MembershipKept
      <3>1. CurrentGeneration(Session)' = CurrentGeneration(Session)
        <4>1. UNCHANGED canceller
          BY <1>3 DEF LookUpGroup
        <4>2. ~ ResetAdvances
          BY <4>1 DEF ResetAdvances, CancelStep, CancellerSound, CancellerRecord
        <4>3. QED BY <4>2, GenerationStep
      <3>0. UNCHANGED <<childGroups, registered>> /\ (p # Root => t = NoTurn) /\ Maps(p, t, g)
        BY <1>3, <2>2, LookUpEffect
      <3>2. /\ UNCHANGED <<childGroups, registered>>
            /\ minted \subseteq minted' /\ g \in minted'
            /\ Unclaimed' = Unclaimed \cup {g}
            /\ \A h \in Unclaimed : groups'[h] = groups[h]
            /\ groups'[g].session = Session /\ groups'[g].owner = p /\ groups'[g].turn = t
            /\ g \notin Unclaimed => g \notin minted
            /\ p # Root => t = NoTurn
        BY <3>0 DEF Maps
      <3> DEFINE key == <<p, CurrentGeneration(Session), t>>
      <3>3. /\ DOMAIN ownerGroups' = DOMAIN ownerGroups \cup {key}
            /\ \A k \in DOMAIN ownerGroups' :
                 ownerGroups'[k] = IF k = key THEN g ELSE ownerGroups[k]
        BY <3>0 DEF Maps
      <3>4. key[1] = p /\ key[2] = CurrentGeneration(Session)
        OBVIOUS
      <3> HIDE DEF key
      <3>5. \A k \in DOMAIN ownerGroups' :
              /\ k[2] = CurrentGeneration(Session)'
              /\ ownerGroups'[k] \in minted'
              /\ ownerGroups'[k] \in Unclaimed' => groups'[ownerGroups'[k]].owner = k[1]
        <4>1. ASSUME NEW k \in DOMAIN ownerGroups, k # key
              PROVE  /\ k[2] = CurrentGeneration(Session)'
                     /\ ownerGroups'[k] \in minted'
                     /\ ownerGroups'[k] \in Unclaimed' => groups'[ownerGroups'[k]].owner = k[1]
          BY <3>1, <3>2, <3>3, <4>1 DEF MapsSound
        <4>2. /\ ownerGroups'[key] = g
          BY <3>3
        <4>3. QED BY <3>1, <3>2, <3>3, <3>4, <4>1, <4>2
      <3>6. \A h \in Unclaimed' :
              /\ groups'[h].session = Session
              /\ groups'[h].owner # Root => groups'[h].turn = NoTurn
        BY <3>2 DEF MapsSound
      <3>7. \A d \in Children : childGroups'[d] # NoGroup =>
              /\ d \in registered' /\ childGroups'[d] \in minted'
              /\ childGroups'[d] \in Unclaimed' => d \in groups'[childGroups'[d]].children
        BY <3>2 DEF MapsSound
      <3>8. QED BY <3>5, <3>6, <3>7 DEF MapsSound
    <2>3. QED BY <2>1, <2>2
  <1>4. QED BY <1>1, <1>2, <1>3, MembershipStep

\* What the store's invariant says, in the coordinator's own words.
LEMMA StoreFacts ==
  ASSUME Delivery!DeliveryInv
  PROVE  /\ \A g \in Unclaimed : EnsureGroupCurrent(g)
         /\ \A g \in Unclaimed : Reported(g) \subseteq groups[g].children
         /\ \A g \in Unclaimed : groups[g].children \subseteq registered
         /\ \A g, h \in Unclaimed : \A c \in Children :
              c \in groups[g].children /\ c \in groups[h].children => g = h
         /\ \A g, h \in Unclaimed :
              /\ groups[g].session = groups[h].session
              /\ groups[g].owner = groups[h].owner
              /\ groups[g].turn = groups[h].turn
              => g = h
  <1>1. \A g \in Unclaimed : EnsureGroupCurrent(g)
    BY DEF Delivery!DeliveryInv, Delivery!OnlyCurrentGroups, Delivery!EnsureGroupCurrent,
       Delivery!CurrentGeneration, Delivery!Unclaimed, EnsureGroupCurrent, CurrentGeneration
  <1>2. \A g \in Unclaimed : Reported(g) \subseteq groups[g].children
    BY DEF Delivery!DeliveryInv, Delivery!ResultsFromMembers, Delivery!Reported,
       Delivery!ReportedIn, Delivery!Unreported, Delivery!Unclaimed, Reported, ReportedIn,
       Unreported
  <1>3. \A g \in Unclaimed : groups[g].children \subseteq registered
    BY DEF Delivery!DeliveryInv, Delivery!MembersRegistered, Delivery!Unclaimed
  <1>4. \A g, h \in Unclaimed : \A c \in Children :
              c \in groups[g].children /\ c \in groups[h].children => g = h
    BY DEF Delivery!DeliveryInv, Delivery!MemberOfOneGroup, Delivery!Unclaimed
  <1>5. \A g, h \in Unclaimed :
              /\ groups[g].session = groups[h].session
              /\ groups[g].owner = groups[h].owner
              /\ groups[g].turn = groups[h].turn
              => g = h
    BY DEF Delivery!DeliveryInv, Delivery!OneGroupPerTurn, Delivery!Unclaimed
  <1>6. QED BY <1>1, <1>2, <1>3, <1>4, <1>5

-----------------------------------------------------------------------------
(* Late finishers                                                          *)

\* A future goes to force_record_child_result only from a refused record.
LEMMA ForceStep ==
  ASSUME PlaceTypes, CancellerSound, Next, NEW c \in Children, fut'[c] = "force"
  PROVE  fut[c] = "force" \/ (Record(c) /\ Refuses(c))
  <1> DEFINE Done == fut[c] = "force" \/ (Record(c) /\ Refuses(c))
  <1>1. ASSUME NEW d \in Children, CallNext(d) PROVE Done
    BY <1>1 DEF PlaceTypes, CallNext, Admit, AcquirePermit, InsertRecord, InsertScope,
       MarkRunning, JoinGroup, Spawn, RegisterTask, RejectSettle, RejectPersist, RejectRecord,
       CallStep
  <1>2. ASSUME NEW d, NEW p, NEW t, NEW g, LookUpGroup(d, p, t, g) PROVE Done
    BY <1>2 DEF LookUpGroup
  <1>3. ASSUME NEW d \in Children, LoopFails(d) \/ CandidateFinal(d) \/ CollectNext(d)
        PROVE  Done
    BY <1>3 DEF PlaceTypes, LoopFails, CandidateFinal, CollectNext, TakeHandle, JoinChild,
       JoinHandle, Joined, ClaimOwn, Resume, BeginFinalizing, Conclude, FutStep
  <1>4. ASSUME NEW d \in Children, FinishNext(d) PROVE Done
    BY <1>4 DEF PlaceTypes, FinishNext, Finish, Persist, Record, ForceRecord, FutStep,
       AfterSettle
  <1>5. ASSUME \/ InterruptRoot \/ RootSweep
               \/ \E gen \in 0 .. MaxGeneration : RootPick(gen)
               \/ \E g \in GroupIds : Deadline(g)
               \/ CancelChild \/ CancelSession \/ ResetSession
        PROVE  Done
    BY <1>5 DEF InterruptRoot, RootSweep, RootPick, Deadline, CancelChild, CancelSession,
       ResetSession, Request, StartCancel
  <1>6. ASSUME CancelNext PROVE Done
    BY <1>6 DEF PlaceTypes, CancelNext, PickTarget, Signal, AwaitCancelled, Snapshot,
       CancelJoined, CancelTimeout, Return, CancelSettle, CancelPersist, CancelRecord,
       CancelDone, ResetCancels, ResetAdvances
  <1>7. QED BY <1>1, <1>2, <1>3, <1>4, <1>5, <1>6 DEF Next

\* A refused result that is retried meets an expired group, or none.
LEMMA ForceIsLate ==
  ASSUME TypeOK, MapTypes, PlaceTypes, CancellerSound, MapsSound, Reservations, LateFinishers,
         Delivery!DeliveryInv, Next,
         NEW c \in Children, fut'[c] = "force", childGroups'[c] \in Unclaimed'
  PROVE  groups'[childGroups'[c]].lifecycle = "Expired"
  <1>1. NoGroup \notin Unclaimed
    BY NoGroupAssumption DEF TypeOK
  <1>2. CASE Record(c) /\ Refuses(c)
    <2>1. UNCHANGED <<groups, childGroups>>
      BY <1>2 DEF Record, RecordMapped, Refuses
    <2> DEFINE g == childGroups[c]
    <2>2. g \in Unclaimed /\ groups[g] \in GroupRecord
      BY <2>1 DEF TypeOK
    <2>3. c \in groups[g].children
      BY <1>1, <2>2 DEF MapsSound
    <2>4. EnsureGroupCurrent(g)
      BY <2>2, StoreFacts
    <2>5. ~ Accepts(g)
      BY <1>2, <2>3 DEF Refuses, CanRecord, AlreadyRecorded
    <2>6. QED BY <2>1, <2>2, <2>4, <2>5 DEF Accepts, GroupRecord
  <1>3. CASE fut[c] = "force"
    <2>1. childGroups[c] \in Unclaimed => groups[childGroups[c]].lifecycle = "Expired"
      BY <1>3 DEF LateFinishers
    <2>2. CASE MembershipKept
      BY <1>1, <2>1, <2>2 DEF MembershipKept, GroupsKept, ChildMapKept
    <2>3. ASSUME NEW d \in Children, Joins(d)
          PROVE  groups'[childGroups'[c]].lifecycle = "Expired"
      <3>1. d # c
        BY <1>3, <2>3 DEF Joins, Reservations, Reservation
      <3>2. childGroups'[c] = childGroups[c]
        BY <2>3, <3>1 DEF Joins, MapTypes
      <3>3. QED BY <2>1, <2>3, <3>2 DEF Joins
    <2>4. ASSUME NEW d \in Children, NEW p \in Owners, NEW t \in Turns \cup {NoTurn},
                 NEW g \in GroupIds, LookUpGroup(d, p, t, g), Maps(p, t, g)
          PROVE  groups'[childGroups'[c]].lifecycle = "Expired"
      <3>1. UNCHANGED childGroups
        BY <2>4 DEF LookUpGroup
      <3>2. childGroups[c] # NoGroup
        BY <3>1, <2>4, NoGroupAssumption, <1>1 DEF Maps
      <3>3. childGroups[c] \in minted
        BY <3>2 DEF MapsSound
      <3>4. childGroups[c] \in Unclaimed
        BY <2>4, <3>1, <3>3 DEF Maps
      <3>5. QED BY <2>1, <2>4, <3>1, <3>4 DEF Maps
    <2>5. QED BY <2>2, <2>3, <2>4, MembershipStep, JoinEffect, LookUpEffect
  <1>4. QED BY <1>2, <1>3, ForceStep

\* Where the canceller stands after its child was settled.
CancellerLate ==
  canceller.pc \in {"persist", "record"} =>
       \/ canceller.child \in torn
       \/ scope[canceller.child] = canceller.terminal
       \/ /\ scope[canceller.child] = "absent"
          /\ call[canceller.child] \notin BeforeScope

\* The canceller persists and records what the scope settled on.
LEMMA CancellerIsLate ==
  ASSUME PlaceTypes, CancellerSound, Reservations, CancellerLate, Grows, Next
  PROVE  CancellerLate'
  <1>1. ASSUME UNCHANGED <<canceller>> PROVE CancellerLate'
    <2> SUFFICES ASSUME canceller.pc \in {"persist", "record"}, canceller.child \notin torn'
                 PROVE  \/ scope'[canceller.child] = canceller.terminal
                        \/ /\ scope'[canceller.child] = "absent"
                           /\ call'[canceller.child] \notin BeforeScope
      BY <1>1 DEF CancellerLate
    <2> DEFINE c == canceller.child
    <2>1. c \in Children /\ c \notin torn /\ canceller.terminal \in Terminals
      BY DEF CancellerSound, CancellerRecord, Recorded, Grows
    <2>2. CASE scope[c] = canceller.terminal
      <3>1. call[c] # "pending"
        BY <2>1, <2>2 DEF Reservations, Reservation
      <3>2. QED BY <2>1, <2>2, <3>1, TerminalStays
    <2>3. CASE scope[c] = "absent" /\ call[c] \notin BeforeScope
      BY <2>1, <2>3, AbsentStays
    <2>4. QED BY <2>1, <2>2, <2>3 DEF CancellerLate
  <1>2. ASSUME canceller'.pc \notin {"persist", "record"} PROVE CancellerLate'
    BY <1>2 DEF CancellerLate
  <1>3. ASSUME CancelSettle PROVE CancellerLate'
    <2> DEFINE c == canceller.child
    <2>1. c \in Recorded /\ c \in Children /\ canceller.terminal \in Terminals
      BY <1>3 DEF CancelSettle, CancelStep, CancellerSound, CancellerRecord, Recorded
    <2>2. canceller'.child = c /\ canceller'.terminal = IF Terminal(scope[c]) THEN scope[c] ELSE canceller.terminal
      BY <1>3 DEF CancelSettle, CancelStep, CancellerSound, CancellerRecord
    <2>3. CASE scope[c] = "absent"
      <3>1. call[c] \in BeforeScope => c \in torn'
        BY <1>3, <2>1, <2>3 DEF CancelSettle, Tear, BeforeScope, Reservations, Reservation, Recorded
      <3>2. scope'[c] = "absent" /\ call' = call
        BY <1>3, <2>3 DEF CancelSettle, SettleScope
      <3>3. QED BY <2>2, <3>1, <3>2 DEF CancellerLate
    <2>4. CASE Terminal(scope[c])
      <3>1. scope' = scope
        BY <1>3, <2>4 DEF CancelSettle, SettleScope
      <3>2. QED BY <2>2, <2>4, <3>1 DEF CancellerLate
    <2>5. CASE scope[c] # "absent" /\ ~ Terminal(scope[c])
      <3>1. scope'[c] = canceller.terminal
        BY <1>3, <2>1, <2>5 DEF CancelSettle, SettleScope, PlaceTypes
      <3>2. QED BY <2>2, <2>5, <3>1 DEF CancellerLate
    <2>6. QED BY <2>3, <2>4, <2>5
  <1>4. ASSUME CancelPersist PROVE CancellerLate'
    <2>1. /\ canceller.pc = "persist" /\ canceller'.child = canceller.child
          /\ canceller'.terminal = canceller.terminal
          /\ UNCHANGED <<scope, call, torn>>
      BY <1>4 DEF CancelPersist, CancelStep, CancellerSound, CancellerRecord
    <2>2. QED BY <2>1 DEF CancellerLate
  <1>5. ASSUME CancelNext PROVE CancellerLate'
    <2>1. ASSUME \/ \E c \in Children : PickTarget(c) \/ Signal(c) \/ AwaitCancelled(c)
                 \/ Snapshot \/ CancelJoined \/ CancelTimeout \/ Return
                 \/ CancelRecord \/ CancelDone \/ ResetCancels \/ ResetAdvances
          PROVE  canceller'.pc \notin {"persist", "record"}
      BY <2>1 DEF PickTarget, Signal, AwaitCancelled, Snapshot, CancelJoined, CancelTimeout,
         Return, CancelRecord, CancelDone, ResetCancels, ResetAdvances, CancelStep,
         CancellerSound, CancellerRecord
    <2>2. QED BY <1>2, <1>3, <1>4, <1>5, <2>1 DEF CancelNext
  <1>6. ASSUME CancelChild \/ CancelSession \/ ResetSession
        PROVE  canceller'.pc \notin {"persist", "record"}
    BY <1>6 DEF CancelChild, CancelSession, ResetSession, Request, StartCancel,
       CancellerSound, CancellerRecord
  <1>7. QED BY <1>1, <1>2, <1>5, <1>6, OthersLeaveCanceller DEF Next

\* Every step keeps late finishers harmless.
LEMMA LateStep ==
  ASSUME TypeOK, MapTypes, PlaceTypes, CancellerSound, MapsSound, Reservations, LateFinishers,
         Delivery!DeliveryInv, Grows, Next
  PROVE  LateFinishers'
  <1>1. CancellerLate'
    BY CancellerIsLate DEF LateFinishers, CancellerLate
  <1>2. QED BY <1>1, ForceIsLate DEF LateFinishers, CancellerLate

-----------------------------------------------------------------------------
(* What a group holds for a child                                          *)

\* What a group holds stays what the scope says.
LEMMA RecordedStays ==
  ASSUME TypeOK, PlaceTypes, CancellerSound, Reservations, RecordedIsTerminal, Next,
         NEW g \in Unclaimed, NEW c \in Children, c \notin torn,
         groups[g].results[c] # Unreported
  PROVE  groups[g].results[c] \in {scope'[c], "timeout"}
  <1>1. groups[g].results[c] \in {scope[c], "timeout"}
    BY DEF RecordedIsTerminal, Reported, ReportedIn
  <1>2. groups[g].results[c] \in Results
    BY DEF TypeOK, GroupRecord
  <1>3. CASE groups[g].results[c] = scope[c] /\ Terminal(scope[c])
    <2>1. call[c] # "pending"
      BY <1>3 DEF Reservations, Reservation
    <2>2. QED BY <1>3, <2>1, TerminalStays
  <1>4. QED BY <1>1, <1>2, <1>3

\* Results that are only removed or timed out keep agreeing with the scopes.
LEMMA RecordedKept ==
  ASSUME TypeOK, PlaceTypes, CancellerSound, Reservations, RecordedIsTerminal, Grows, Next,
         GroupsKept, ResultsKept
  PROVE  RecordedIsTerminal'
  <1> SUFFICES ASSUME NEW g \in Unclaimed', NEW c \in Children,
                      groups'[g].results[c] # Unreported, c \notin torn'
               PROVE  groups'[g].results[c] \in {scope'[c], "timeout"}
    BY DEF RecordedIsTerminal, Reported, ReportedIn
  <1>1. g \in Unclaimed /\ c \notin torn
    BY DEF GroupsKept, Grows
  <1>2. groups'[g].results[c] \in {groups[g].results[c], "timeout"}
    BY DEF ResultsKept
  <1>3. QED BY <1>1, <1>2, RecordedStays

\* A report of what the scope settled on.
LEMMA RecordedReport ==
  ASSUME TypeOK, PlaceTypes, CancellerSound, Reservations, RecordedIsTerminal, Grows, Next,
         NEW c \in Children, NEW t, RecordMapped(c, t),
         childGroups[c] # NoGroup /\ CanRecord(childGroups[c], c) => c \in torn \/ scope'[c] = t
  PROVE  RecordedIsTerminal'
  <1> SUFFICES ASSUME NEW g \in Unclaimed', NEW d \in Children,
                      groups'[g].results[d] # Unreported, d \notin torn'
               PROVE  groups'[g].results[d] \in {scope'[d], "timeout"}
    BY DEF RecordedIsTerminal, Reported, ReportedIn
  <1>1. g \in Unclaimed /\ d \notin torn
    BY RecordMappedKept DEF GroupsKept, Grows
  <1>2. \/ groups'[g].results[d] = groups[g].results[d]
        \/ d = c /\ g = childGroups[c] /\ CanRecord(g, c) /\ groups'[g].results[d] = t
    BY RecordMappedKept
  <1>3. g # NoGroup
    BY <1>1, NoGroupAssumption DEF TypeOK
  <1>4. QED BY <1>1, <1>2, <1>3, RecordedStays

\* Every step keeps recorded results and scopes in agreement.
LEMMA RecordedStep ==
  ASSUME TypeOK, MapTypes, PlaceTypes, CancellerSound, MapsSound, Reservations, LateFinishers,
         RecordedIsTerminal, Grows, Next
  PROVE  RecordedIsTerminal'
  <1>1. ASSUME UNCHANGED storeVars PROVE RecordedIsTerminal'
    BY <1>1, UntouchedKept, RecordedKept
  <1>2. ASSUME NEW g, HandOver(g) PROVE RecordedIsTerminal'
    BY <1>2, HandOverKept, RecordedKept
  <1>3. ASSUME NEW c \in Children, JoinGroup(c) PROVE RecordedIsTerminal'
    <2>1. ASSUME Joins(c) PROVE RecordedIsTerminal'
      <3> SUFFICES ASSUME NEW g \in Unclaimed', NEW d \in Children,
                          groups'[g].results[d] # Unreported, d \notin torn'
                   PROVE  groups'[g].results[d] \in {scope'[d], "timeout"}
        BY DEF RecordedIsTerminal, Reported, ReportedIn
      <3>1. g \in Unclaimed /\ groups'[g].results = groups[g].results /\ d \notin torn
        BY <2>1 DEF Joins, Grows
      <3>2. QED BY <3>1, RecordedStays
    <2>2. QED BY <1>3, <2>1, JoinEffect, RecordedKept DEF MembershipKept
  <1>4. ASSUME NEW c \in Children, NEW p \in Owners, NEW t \in Turns \cup {NoTurn},
               NEW g \in GroupIds, LookUpGroup(c, p, t, g)
        PROVE  RecordedIsTerminal'
    <2>1. ASSUME Maps(p, t, g) PROVE RecordedIsTerminal'
      <3> SUFFICES ASSUME NEW h \in Unclaimed', NEW d \in Children,
                          groups'[h].results[d] # Unreported, d \notin torn'
                   PROVE  groups'[h].results[d] \in {scope'[d], "timeout"}
        BY DEF RecordedIsTerminal, Reported, ReportedIn
      <3>1. h \in Unclaimed /\ groups'[h] = groups[h] /\ d \notin torn
        BY <2>1 DEF Maps, Grows
      <3>2. QED BY <3>1, RecordedStays
    <2>2. QED BY <1>4, <2>1, LookUpEffect, RecordedKept DEF MembershipKept
  <1>5. ASSUME NEW c \in Children, RejectRecord(c) \/ Record(c) PROVE RecordedIsTerminal'
    <2>1. RecordMapped(c, scope[c]) /\ UNCHANGED scope
      BY <1>5 DEF RejectRecord, Record
    <2>2. QED BY <2>1, RecordedReport
  <1>6. ASSUME NEW c \in Children, NEW d \in Children, JoinHandle(c, d) PROVE RecordedIsTerminal'
    <2>1. RecordMapped(d, scope[d]) /\ c # d
      BY <1>6 DEF JoinHandle
    <2>2. scope'[d] = scope[d]
      BY <1>6, <2>1 DEF JoinHandle, PlaceTypes
    <2>3. QED BY <2>1, <2>2, RecordedReport
  <1>7. ASSUME NEW c \in Children, ForceRecord(c) PROVE RecordedIsTerminal'
    <2>1. RecordMapped(c, verdict[c]) /\ fut[c] = "force"
      BY <1>7 DEF ForceRecord, FutStep
    <2>2. ~ CanRecord(childGroups[c], c)
      BY <2>1 DEF LateFinishers, CanRecord, Accepts, EnsureGroupCurrent
    <2>3. QED BY <2>1, <2>2, RecordedReport
  <1>8. ASSUME CancelRecord PROVE RecordedIsTerminal'
    <2> DEFINE c == canceller.child
    <2>1. /\ c \in Children /\ RecordMapped(c, canceller.terminal) /\ UNCHANGED scope
          /\ canceller.pc = "record"
      BY <1>8 DEF CancelRecord, CancelStep, CancellerSound, Recorded
    <2>2. childGroups[c] # NoGroup => c \in torn \/ scope[c] = canceller.terminal
      BY <2>1 DEF LateFinishers, MapsSound, Reservations, Reservation
    <2>3. QED BY <2>1, <2>2, RecordedReport
  <1>9. ASSUME NEW c \in Children, CallNext(c) PROVE RecordedIsTerminal'
    BY <1>1, <1>3, <1>5, <1>9
    DEF CallNext, Admit, AcquirePermit, InsertRecord, InsertScope, MarkRunning, Spawn,
        RegisterTask, RejectSettle, RejectPersist
  <1>10. ASSUME NEW c \in Children,
               LoopFails(c) \/ CandidateFinal(c) \/ CollectNext(c) \/ FinishNext(c)
        PROVE  RecordedIsTerminal'
    BY <1>1, <1>2, <1>5, <1>6, <1>7, <1>10 DEF LoopFails, CandidateFinal, CollectNext, TakeHandle, JoinChild,
       Joined, ClaimOwn, Resume, BeginFinalizing, Conclude, FinishNext, Finish, Persist
  <1>11. ASSUME RootSweep PROVE RecordedIsTerminal'
    BY <1>11, SweepKept, RecordedKept DEF RootSweep
  <1>12. ASSUME \/ InterruptRoot
                \/ \E gen \in 0 .. MaxGeneration : RootPick(gen)
                \/ CancelChild \/ CancelSession \/ ResetSession
         PROVE  RecordedIsTerminal'
    BY <1>1, <1>2, <1>12 DEF InterruptRoot, RootPick, CancelChild, CancelSession, ResetSession,
       Request, StartCancel
  <1>13. ASSUME NEW g, Deadline(g) PROVE RecordedIsTerminal'
    <2>1. UNCHANGED <<groups, minted>>
      BY <1>13 DEF Deadline, DeadlinePasses
    <2>2. GroupsKept /\ ResultsKept
      BY <2>1 DEF GroupsKept, ResultsKept
    <2>3. QED BY <2>2, RecordedKept
  <1>14. ASSUME ResetCancels \/ ResetAdvances PROVE RecordedIsTerminal'
    BY <1>14, RemovalKept, RecordedKept DEF ResetCancels, ResetAdvances, CancelGeneration,
       AdvanceGeneration
  <1>15. ASSUME CancelNext PROVE RecordedIsTerminal'
    BY <1>1, <1>8, <1>14, <1>15 DEF CancelNext, PickTarget, Signal, AwaitCancelled,
         Snapshot, CancelJoined, CancelTimeout, Return, CancelSettle, CancelPersist, CancelDone
  <1>16. QED BY <1>4, <1>9, <1>10, <1>11, <1>12, <1>13, <1>15 DEF Next

-----------------------------------------------------------------------------
(* The synthesis barrier                                                   *)

\* Only a lookup starts a call or names its caller; records and registrations are
\* written by calls under way; a call does not go back before its join.
LEMMA CallsStep ==
  ASSUME PlaceTypes, CancellerSound, Reservations, Next, NEW c \in Children
  PROVE  \/ \E p \in Owners, t \in Turns \cup {NoTurn}, g \in GroupIds : LookUpGroup(c, p, t, g)
         \/ /\ parent'[c] = parent[c]
            /\ call'[c] \in InCall => call[c] \in InCall
            /\ record[c] = "absent" /\ call[c] \notin InCall => record'[c] = "absent"
            /\ c \notin registered /\ call[c] \notin InCall => c \notin registered'
            /\ call[c] \notin BeforeJoin => call'[c] \notin BeforeJoin
  <1> DEFINE Kept == /\ parent'[c] = parent[c]
                     /\ call'[c] \in InCall => call[c] \in InCall
                     /\ record[c] = "absent" /\ call[c] \notin InCall => record'[c] = "absent"
                     /\ c \notin registered /\ call[c] \notin InCall => c \notin registered'
                     /\ call[c] \notin BeforeJoin => call'[c] \notin BeforeJoin
             Same == UNCHANGED <<parent, call, record, registered>>
  <1>1. Same => Kept
    OBVIOUS
  <1>2. /\ fut[c] # "none" => record[c] # "absent"
        /\ scope[c] # "absent" => record[c] # "absent"
        /\ call[c] # "rejectPersist" \/ record[c] # "absent"
    BY DEF Reservations, Reservation
  <1>3. ASSUME NEW d, MarkCancelling(d), UNCHANGED <<parent, call, registered>> PROVE Kept
    BY <1>2, <1>3 DEF MarkCancelling, Marks, PlaceTypes
  <1>4. ASSUME NEW p, DropCallsOf(p), UNCHANGED <<parent, record, registered>> PROVE Kept
    BY <1>4 DEF DropCallsOf, PlaceTypes, BeforeScope, BeforeJoin
  <1>5. ASSUME NEW d \in Children, CallNext(d) PROVE Kept
    <2>1. CASE Admit(d) \/ AcquirePermit(d) \/ InsertRecord(d) \/ InsertScope(d) \/ MarkRunning(d)
      BY <2>1 DEF Admit, AcquirePermit, InsertRecord, InsertScope, MarkRunning, CallStep,
         PlaceTypes, BeforeScope, BeforeJoin
    <2>2. CASE JoinGroup(d) \/ Spawn(d) \/ RegisterTask(d)
      BY <2>2 DEF JoinGroup, Spawn, RegisterTask, CallStep, PlaceTypes, BeforeScope, BeforeJoin
    <2>3. CASE RejectSettle(d) \/ RejectPersist(d) \/ RejectRecord(d)
      BY <2>3 DEF RejectSettle, RejectPersist, RejectRecord, CallStep, AfterSettle, PlaceTypes,
         BeforeScope, BeforeJoin
    <2>4. QED BY <1>5, <2>1, <2>2, <2>3 DEF CallNext
  <1>6. ASSUME NEW d \in Children, d # c, NEW p, NEW t, NEW g, LookUpGroup(d, p, t, g) PROVE Kept
    BY <1>6 DEF LookUpGroup, PlaceTypes
  <1>7. ASSUME NEW d \in Children, CandidateFinal(d) \/ Resume(d) \/ BeginFinalizing(d) PROVE Kept
    BY <1>2, <1>7 DEF CandidateFinal, Resume, BeginFinalizing, FutStep, PlaceTypes
  <1>8. ASSUME NEW d \in Children, NEW e \in Children, JoinHandle(d, e) PROVE Kept
    BY <1>2, <1>8 DEF JoinHandle, PlaceTypes
  <1>9. ASSUME NEW d \in Children, Persist(d) PROVE Kept
    BY <1>2, <1>9 DEF Persist, FutStep, PlaceTypes
  <1>10. ASSUME NEW d \in Children, LoopFails(d) \/ CollectNext(d) \/ FinishNext(d) PROVE Kept
    BY <1>1, <1>4, <1>7, <1>8, <1>9, <1>10 DEF LoopFails, CollectNext, TakeHandle, JoinChild,
       Joined, ClaimOwn, Conclude, FinishNext, Finish, Record, ForceRecord
  <1>11. ASSUME \/ InterruptRoot \/ RootSweep
                \/ \E gen \in 0 .. MaxGeneration : RootPick(gen)
                \/ \E g \in GroupIds : Deadline(g)
                \/ CancelChild \/ CancelSession \/ ResetSession
         PROVE  Kept
    BY <1>1, <1>4, <1>11 DEF InterruptRoot, RootSweep, RootPick, Deadline, CancelChild,
       CancelSession, ResetSession, Request, StartCancel
  <1>12. ASSUME CancelPersist PROVE Kept
    <2>1. record[canceller.child] # "absent"
      BY <1>12 DEF CancelPersist, CancelStep, CancellerSound, Recorded
    <2>2. QED BY <1>12, <2>1 DEF CancelPersist, CancelStep, PlaceTypes
  <1>13. ASSUME CancelNext PROVE Kept
    BY <1>1, <1>3, <1>4, <1>12, <1>13 DEF CancelNext, PickTarget, Signal, AwaitCancelled,
         Snapshot, CancelJoined, CancelTimeout, Return, CancelSettle, CancelRecord,
         CancelDone, ResetCancels, ResetAdvances, CancelStep
  <1>14. QED BY <1>5, <1>6, <1>7, <1>10, <1>11, <1>13 DEF Next

\* An agent that is past its loop starts no call: its children stay what they were.
LEMMA QuietStep ==
  ASSUME PlaceTypes, CancellerSound, Reservations, Next, NEW p \in Children, Quiet(p),
         fut[p] # "loop", registered' \subseteq Children
  PROVE  /\ Quiet(p)'
         /\ ChildrenOf(p)' \subseteq ChildrenOf(p)
         /\ Kids(p)' \subseteq Kids(p)
         /\ \A c \in ChildrenOf(p)' : Terminal(scope[c]) => Terminal(scope'[c])
  <1>1. ASSUME NEW c \in Children, parent'[c] = p
        PROVE  /\ parent[c] = p /\ call[c] \notin InCall /\ call'[c] \notin InCall
               /\ record'[c] # "absent" => record[c] # "absent"
               /\ c \in registered' => c \in registered
    <2>1. ASSUME NEW q, NEW t, NEW g, LookUpGroup(c, q, t, g) PROVE FALSE
      BY <1>1, <2>1, RootAssumption DEF LookUpGroup, CanCall, PlaceTypes
    <2>2. QED BY <1>1, <2>1, CallsStep DEF Quiet
  <1>2. Quiet(p)' /\ ChildrenOf(p)' \subseteq ChildrenOf(p)
    BY <1>1 DEF Quiet, ChildrenOf
  <1>3. Kids(p)' \subseteq Kids(p)
    BY <1>1 DEF Kids
  <1>4. ASSUME NEW c \in ChildrenOf(p)', Terminal(scope[c]) PROVE Terminal(scope'[c])
    <2>1. c \in Children /\ call[c] # "pending"
      BY <1>1 DEF ChildrenOf
    <2>2. QED BY <1>4, <2>1, TerminalStays
  <1>5. QED BY <1>2, <1>3, <1>4

\* Only a future that finishes with its own verdict completes its scope.
LEMMA ScopeCompletes ==
  ASSUME PlaceTypes, CancellerSound, Reservations, Next, NEW p \in Children,
         scope'[p] = "completed"
  PROVE  scope[p] = "completed" \/ (Finish(p) /\ verdict[p] = "completed")
  <1> DEFINE Done == scope[p] = "completed" \/ (Finish(p) /\ verdict[p] = "completed")
  <1>1. ASSUME NEW c \in Children, MarkCancelling(c) PROVE Done
    BY <1>1 DEF MarkCancelling, PlaceTypes
  <1>2. ASSUME NEW c \in Children, CallNext(c) PROVE Done
    BY <1>2 DEF CallNext, Admit, AcquirePermit, InsertRecord, InsertScope, MarkRunning, JoinGroup,
       Spawn, RegisterTask, RejectSettle, RejectPersist, RejectRecord, SettleScope, PlaceTypes
  <1>3. ASSUME NEW c, NEW q, NEW t, NEW g, LookUpGroup(c, q, t, g) PROVE Done
    BY <1>3 DEF LookUpGroup
  <1>4. ASSUME NEW c \in Children, LoopFails(c) \/ CandidateFinal(c) \/ CollectNext(c) PROVE Done
    BY <1>4 DEF LoopFails, CandidateFinal, CollectNext, TakeHandle, JoinChild, JoinHandle, Joined,
       ClaimOwn, Resume, BeginFinalizing, Conclude, PlaceTypes
  <1>5. ASSUME NEW c \in Children, FinishNext(c) PROVE Done
    BY <1>5 DEF FinishNext, Finish, Persist, Record, ForceRecord, SettleScope, PlaceTypes
  <1>6. ASSUME \/ InterruptRoot \/ RootSweep
               \/ \E gen \in 0 .. MaxGeneration : RootPick(gen)
               \/ \E g \in GroupIds : Deadline(g)
               \/ CancelChild \/ CancelSession \/ ResetSession
        PROVE  Done
    BY <1>6 DEF InterruptRoot, RootSweep, RootPick, Deadline, CancelChild, CancelSession,
       ResetSession, Request, StartCancel
  <1>7. ASSUME CancelSettle PROVE Done
    <2> DEFINE c == canceller.child
    <2>1. c \in Children /\ (canceller.terminal = "cancelled" \/ fut[c] = "ended")
      BY <1>7 DEF CancelSettle, CancelStep, CancellerSound, Recorded
    <2>2. fut[c] = "ended" => Terminal(scope[c])
      BY <2>1 DEF Reservations, Reservation, Settled
    <2>3. QED BY <1>7, <2>1, <2>2 DEF CancelSettle, SettleScope, PlaceTypes
  <1>8. ASSUME CancelNext PROVE Done
    BY <1>1, <1>7, <1>8 DEF CancelNext, PickTarget, Signal, AwaitCancelled,
         Snapshot, CancelJoined, CancelTimeout, Return, CancelPersist, CancelRecord,
         CancelDone, ResetCancels, ResetAdvances
  <1>9. QED BY <1>2, <1>3, <1>4, <1>5, <1>6, <1>8 DEF Next

\* The steps of p's own future.
OwnStep(p) == LoopFails(p) \/ CandidateFinal(p) \/ CollectNext(p) \/ FinishNext(p)

\* What the others do to p's future: spawn it, abort it, or nothing.
FutureKept(p) ==
  /\ verdict'[p] = verdict[p] /\ awaiting'[p] = awaiting[p]
  /\ batch'[p] = batch[p] /\ synthesized'[p] = synthesized[p]
  /\ \/ fut'[p] = fut[p]
     \/ fut'[p] = "aborted"
     \/ fut[p] = "none" /\ fut'[p] = "loop"

\* Only a spawn, p's own steps and the canceller's abort touch p's future.
LEMMA FutureStep ==
  ASSUME PlaceTypes, Reservations, Next, NEW p \in Children
  PROVE  OwnStep(p) \/ FutureKept(p)
  <1>1. ASSUME NEW c \in Children, CallNext(c) PROVE FutureKept(p)
    <2>1. CASE Spawn(c)
      BY <2>1 DEF Spawn, FutureKept, PlaceTypes, Reservations, Reservation
    <2>2. QED
      BY <1>1, <2>1 DEF CallNext, Admit, AcquirePermit, InsertRecord, InsertScope, MarkRunning,
         JoinGroup, RegisterTask, RejectSettle, RejectPersist, RejectRecord, CallStep, FutureKept
  <1>2. ASSUME NEW c, NEW q, NEW t, NEW g, LookUpGroup(c, q, t, g) PROVE FutureKept(p)
    BY <1>2 DEF LookUpGroup, FutureKept
  <1>3. ASSUME NEW c \in Children, c # p, LoopFails(c) \/ CandidateFinal(c) \/ FinishNext(c)
        PROVE  FutureKept(p)
    BY <1>3 DEF LoopFails, CandidateFinal, FinishNext, Finish, Persist, Record, ForceRecord,
       FutStep, PlaceTypes, FutureKept
  <1>4. ASSUME NEW c \in Children, c # p, CollectNext(c) PROVE FutureKept(p)
    BY <1>4 DEF CollectNext, TakeHandle, JoinChild, JoinHandle, Joined,
       ClaimOwn, Resume, BeginFinalizing, Conclude, FutStep, PlaceTypes, FutureKept
  <1>5. ASSUME \/ InterruptRoot \/ RootSweep
               \/ \E gen \in 0 .. MaxGeneration : RootPick(gen)
               \/ \E g \in GroupIds : Deadline(g)
               \/ CancelChild \/ CancelSession \/ ResetSession
        PROVE  FutureKept(p)
    BY <1>5 DEF InterruptRoot, RootSweep, RootPick, Deadline, CancelChild, CancelSession,
       ResetSession, Request, StartCancel, FutureKept
  <1>6. ASSUME CancelNext PROVE FutureKept(p)
    BY <1>6 DEF CancelNext, PickTarget, Signal, AwaitCancelled,
         Snapshot, CancelJoined, CancelTimeout, Return, CancelSettle, CancelPersist, CancelRecord,
         CancelDone, ResetCancels, ResetAdvances, FutureKept, PlaceTypes
  <1>7. QED BY <1>1, <1>2, <1>3, <1>4, <1>5, <1>6 DEF Next, OwnStep

\* The barrier of an agent that others leave alone.
LEMMA BarrierOthers ==
  ASSUME PlaceTypes, CancellerSound, Reservations, Next, registered' \subseteq Children,
         NEW p \in Children, BarrierSound(p), FutureKept(p)
  PROVE  BarrierSound(p)'
  <1>1. ASSUME Quiet(p), fut[p] # "loop"
        PROVE  /\ Quiet(p)' /\ (AllOver(p) => AllOver(p)') /\ (AllUsed(p) => AllUsed(p)')
               /\ ChildrenOf(p)' \subseteq ChildrenOf(p)
               /\ \A c \in ChildrenOf(p)' : Terminal(scope[c]) => Terminal(scope'[c])
    BY <1>1, QuietStep DEF AllOver, AllUsed, FutureKept
  <1>2. ~ Finish(p)
    BY DEF Finish, FutStep, AfterSettle, FutureKept, PlaceTypes
  <1>3. scope'[p] = "completed" => scope[p] = "completed"
    BY <1>2, ScopeCompletes
  <1>4. fut'[p] \in Barrier \cup {"joining"} \cup FinishPlaces \cup {"ended"} => fut'[p] = fut[p]
    BY DEF FutureKept, Barrier
  <1>5. fut'[p] \in Barrier \cup {"joining"} => Quiet(p)'
    BY <1>1, <1>4 DEF BarrierSound, Barrier
  <1>6. fut'[p] = "joining" => \A c \in ChildrenOf(p)' : c \in awaiting'[p] \/ Terminal(scope'[c])
    BY <1>1, <1>4 DEF BarrierSound, FutureKept
  <1>7. fut'[p] \in Barrier => AllOver(p)'
    BY <1>1, <1>4 DEF BarrierSound, Barrier
  <1>8. fut'[p] = "resuming" /\ batch'[p] \subseteq synthesized'[p] => AllUsed(p)'
    BY <1>1, <1>4 DEF BarrierSound, Barrier, FutureKept
  <1>9. fut'[p] \in {"finalizing", "concluding"} => AllUsed(p)'
    BY <1>1, <1>4 DEF BarrierSound, Barrier
  <1>10. fut'[p] \in FinishPlaces \cup {"ended"} /\ verdict'[p] = "completed" =>
           Quiet(p)' /\ AllOver(p)' /\ AllUsed(p)'
    BY <1>1, <1>4 DEF BarrierSound, FutureKept
  <1>11. scope'[p] = "completed" =>
           /\ fut'[p] \in Settled \cup {"aborted"}
           /\ Quiet(p)' /\ AllOver(p)' /\ AllUsed(p)'
    BY <1>1, <1>3 DEF BarrierSound, FutureKept, Settled
  <1>12. QED BY <1>5, <1>6, <1>7, <1>8, <1>9, <1>10, <1>11 DEF BarrierSound

\* A ready group has a result of every member.
LEMMA ReadyIsReported ==
  ASSUME TypeOK, Delivery!DeliveryInv, NEW o, NEW gen, NEW g \in ReadyFor(Session, o, gen)
  PROVE  /\ g \in Unclaimed /\ groups[g].owner = o
         /\ Reported(g) = groups[g].children /\ Reported(g) # {}
  <1>1. g \in Unclaimed /\ groups[g].owner = o /\ IsReady(g)
    BY DEF ReadyFor
  <1>2. Reported(g) \subseteq groups[g].children
    BY <1>1, StoreFacts
  <1>3. groups[g].children \subseteq Children
    BY <1>1 DEF TypeOK, GroupRecord
  <1>4. IsFiniteSet(groups[g].children)
    BY <1>3, ChildrenAssumption, FS_Subset
  <1>5. /\ groups[g].children # {}
        /\ Cardinality(groups[g].children) = Cardinality(Reported(g))
    BY <1>1 DEF IsReady, Complete, Reported
  <1>6. Reported(g) = groups[g].children
    BY <1>2, <1>4, <1>5, FS_Subset
  <1>7. QED BY <1>1, <1>5, <1>6

\* A registered child has a store record, and its call is past the join.
LEMMA KidsRecorded ==
  ASSUME Reservations, registered \subseteq Children, NEW p
  PROVE  /\ Kids(p) \subseteq ChildrenOf(p)
         /\ \A c \in registered : call[c] \notin BeforeJoin
  BY DEF Kids, ChildrenOf, Reservations, Reservation

\* The barrier of an agent whose own future takes a step.
LEMMA BarrierOwn ==
  ASSUME TypeOK, PlaceTypes, CancellerSound, Reservations, Delivery!DeliveryInv, GroupsUsedWhole,
         Next, registered' \subseteq Children, NEW p \in Children, BarrierSound(p), OwnStep(p)
  PROVE  BarrierSound(p)'
  <1>1. ASSUME Quiet(p), fut[p] # "loop"
        PROVE  /\ Quiet(p)' /\ (AllOver(p) => AllOver(p)')
               /\ AllUsed(p) /\ synthesized[p] \subseteq synthesized'[p] => AllUsed(p)'
               /\ ChildrenOf(p)' \subseteq ChildrenOf(p)
               /\ \A c \in ChildrenOf(p)' : Terminal(scope[c]) => Terminal(scope'[c])
    BY <1>1, QuietStep DEF AllOver, AllUsed
  <1>2. fut[p] \in LoopPlaces => scope'[p] # "completed"
    <2>1. fut[p] \in LoopPlaces => scope[p] # "completed" /\ ~ Finish(p)
      BY DEF BarrierSound, Settled, Finish, FutStep
    <2>2. QED BY <2>1, ScopeCompletes
  <1>3. ASSUME fut'[p] = "loop" \/ (fut'[p] = "finish" /\ verdict'[p] = "failed"),
               scope'[p] # "completed"
        PROVE  BarrierSound(p)'
    BY <1>3 DEF BarrierSound, Barrier
  <1>4. CASE LoopFails(p)
    BY <1>2, <1>3, <1>4 DEF LoopFails, PlaceTypes
  <1>5. CASE CandidateFinal(p)
    <2>1. fut'[p] = "joining" /\ awaiting'[p] = ChildrenOf(p) /\ fut[p] = "loop"
      BY <1>5 DEF CandidateFinal, FutStep, PlaceTypes
    <2>2. Quiet(p)'
      BY <1>5 DEF CandidateFinal, Quiet
    <2>3. record[p] # "absent"
      BY <2>1 DEF Reservations, Reservation
    <2>4. ChildrenOf(p)' \subseteq ChildrenOf(p)
      BY <1>5, <2>3 DEF CandidateFinal, ChildrenOf, PlaceTypes
    <2>5. QED BY <1>2, <2>1, <2>2, <2>4 DEF BarrierSound, Barrier
  <1>6. ASSUME NEW d \in Children, TakeHandle(p, d) PROVE BarrierSound(p)'
    BY <1>6, BarrierOthers DEF TakeHandle, FutureKept
  <1>7. ASSUME fut[p] = "joining", fut'[p] = "joining", NEW d \in Children, Terminal(scope[d]),
               awaiting'[p] = awaiting[p] \ {d}
        PROVE  BarrierSound(p)'
    <2>1. Quiet(p) /\ \A c \in ChildrenOf(p) : c \in awaiting[p] \/ Terminal(scope[c])
      BY <1>7 DEF BarrierSound
    <2>2. \A c \in ChildrenOf(p)' : c \in awaiting'[p] \/ Terminal(scope'[c])
      BY <1>1, <1>7, <2>1
    <2>3. QED BY <1>1, <1>2, <1>7, <2>1, <2>2 DEF BarrierSound, Barrier
  <1>8. ASSUME NEW d \in Children, JoinChild(p, d) PROVE BarrierSound(p)'
    BY <1>7, <1>8 DEF JoinChild, PlaceTypes
  <1>9. ASSUME NEW d \in Children, JoinHandle(p, d) PROVE BarrierSound(p)'
    <2>1. fut[p] = "joining" /\ Terminal(scope[d])
      BY <1>9 DEF JoinHandle, Reservations, Reservation, Settled
    <2>2. CASE Refuses(d)
      BY <1>2, <1>3, <1>9, <2>1, <2>2 DEF JoinHandle, PlaceTypes
    <2>3. CASE ~ Refuses(d)
      BY <1>7, <1>9, <2>1, <2>3 DEF JoinHandle, PlaceTypes
    <2>4. QED BY <2>2, <2>3
  <1>10. CASE Joined(p)
    <2>1. fut[p] = "joining" /\ fut'[p] = "claiming" /\ awaiting[p] = {}
      BY <1>10 DEF Joined, FutStep, PlaceTypes
    <2>2. Quiet(p) /\ AllOver(p)
      BY <2>1 DEF BarrierSound, AllOver
    <2>3. QED BY <1>1, <1>2, <2>1, <2>2 DEF BarrierSound, Barrier
  <1>11. CASE ClaimOwn(p)
    <2>1. fut[p] = "claiming" /\ fut'[p] = "resuming" /\ synthesized'[p] = synthesized[p]
      BY <1>11 DEF ClaimOwn, FutStep, PlaceTypes
    <2>2. Quiet(p) /\ AllOver(p)
      BY <2>1 DEF BarrierSound, Barrier
    <2>3. ASSUME batch'[p] \subseteq synthesized[p] PROVE AllUsed(p)
      <3>1. ASSUME NEW g \in ReadyFor(Session, p, CurrentGeneration(Session)),
                   batch' = [batch EXCEPT ![p] = Reported(g)]
            PROVE  AllUsed(p)
        <4>1. /\ g \in Unclaimed /\ groups[g].owner = p
              /\ Reported(g) = groups[g].children /\ Reported(g) # {}
          BY <3>1, ReadyIsReported
        <4>2. groups[g].children \subseteq synthesized[p]
          BY <2>3, <3>1, <4>1 DEF PlaceTypes
        <4>3. Kids(p) \ synthesized[p] \subseteq groups[g].children
          BY <4>1, <4>2 DEF GroupsUsedWhole
        <4>4. QED BY <4>2, <4>3 DEF AllUsed
      <3>2. ASSUME batch' = [batch EXCEPT ![p] = ChildrenOf(p)] PROVE AllUsed(p)
        <4>1. ChildrenOf(p) \subseteq synthesized[p]
          BY <2>3, <3>2 DEF PlaceTypes
        <4>2. QED BY <4>1, KidsRecorded DEF AllUsed, TypeOK
      <3>3. QED BY <1>11, <3>1, <3>2 DEF ClaimOwn
    <2>4. QED BY <1>1, <1>2, <2>1, <2>2, <2>3 DEF BarrierSound, Barrier
  <1>12. CASE Resume(p)
    <2>1. /\ fut[p] = "resuming"
          /\ synthesized[p] \subseteq synthesized'[p]
          /\ \/ fut'[p] = "loop"
             \/ fut'[p] = "finalizing" /\ batch[p] \subseteq synthesized[p]
      BY <1>12 DEF Resume, FutStep, PlaceTypes
    <2>2. Quiet(p) /\ AllOver(p) /\ (batch[p] \subseteq synthesized[p] => AllUsed(p))
      BY <2>1 DEF BarrierSound, Barrier
    <2>3. QED BY <1>1, <1>2, <1>3, <2>1, <2>2 DEF BarrierSound, Barrier
  <1>13. CASE BeginFinalizing(p)
    <2>1. fut[p] = "finalizing" /\ fut'[p] = "concluding" /\ synthesized' = synthesized
      BY <1>13 DEF BeginFinalizing, FutStep, PlaceTypes
    <2>2. Quiet(p) /\ AllOver(p) /\ AllUsed(p)
      BY <2>1 DEF BarrierSound, Barrier
    <2>3. QED BY <1>1, <1>2, <2>1, <2>2 DEF BarrierSound, Barrier
  <1>14. CASE Conclude(p)
    <2>1. fut[p] = "concluding" /\ fut'[p] = "finish" /\ synthesized' = synthesized
      BY <1>14 DEF Conclude, FutStep, PlaceTypes
    <2>2. Quiet(p) /\ AllOver(p) /\ AllUsed(p)
      BY <2>1 DEF BarrierSound, Barrier
    <2>3. QED BY <1>1, <1>2, <2>1, <2>2 DEF BarrierSound, Barrier
  <1>15. CASE FinishNext(p)
    <2>1. /\ fut[p] \in FinishPlaces /\ fut'[p] \in Settled
          /\ verdict' = verdict /\ synthesized' = synthesized
      BY <1>15 DEF FinishNext, Finish, Persist, Record, ForceRecord, FutStep, AfterSettle,
         Settled, PlaceTypes
    <2>2. ASSUME verdict[p] = "completed" \/ scope[p] = "completed"
          PROVE  Quiet(p) /\ AllOver(p) /\ AllUsed(p)
      BY <2>1, <2>2 DEF BarrierSound
    <2>3. scope'[p] = "completed" => verdict[p] = "completed" \/ scope[p] = "completed"
      BY ScopeCompletes
    <2>4. verdict'[p] = "completed" \/ scope'[p] = "completed" =>
            Quiet(p)' /\ AllOver(p)' /\ AllUsed(p)'
      BY <1>1, <2>1, <2>2, <2>3
    <2>5. QED BY <2>1, <2>4 DEF BarrierSound, Barrier, Settled
  <1>16. QED
    BY <1>4, <1>5, <1>6, <1>8, <1>9, <1>10, <1>11, <1>12, <1>13, <1>14, <1>15
    DEF OwnStep, CollectNext

\* Every step respects the synthesis barrier of every agent.
LEMMA BarrierStep ==
  ASSUME TypeOK, PlaceTypes, CancellerSound, Reservations, Delivery!DeliveryInv, GroupsUsedWhole,
         Next, registered' \subseteq Children, NEW p \in Children, BarrierSound(p)
  PROVE  BarrierSound(p)'
  BY FutureStep, BarrierOwn, BarrierOthers

-----------------------------------------------------------------------------
(* What an agent has used of its groups                                    *)

\* How a step of p's own future changes what it has used.
LEMMA UsedByOwn ==
  ASSUME PlaceTypes, NEW p \in Children, OwnStep(p)
  PROVE  /\ \/ batch'[p] \cup synthesized'[p] \subseteq batch[p] \cup synthesized[p]
            \/ ClaimOwn(p)
         /\ synthesized'[p] = synthesized[p] \/ Resume(p)
         /\ fut'[p] = "resuming" => ClaimOwn(p)
  <1>1. ASSUME LoopFails(p) \/ CandidateFinal(p)
        PROVE  /\ batch'[p] \cup synthesized'[p] \subseteq batch[p] \cup synthesized[p]
               /\ synthesized'[p] = synthesized[p]
               /\ fut'[p] # "resuming"
    BY <1>1 DEF LoopFails, CandidateFinal, FutStep, PlaceTypes
  <1>2. ASSUME NEW d \in Children, TakeHandle(p, d) \/ JoinChild(p, d) \/ JoinHandle(p, d)
        PROVE  /\ batch'[p] \cup synthesized'[p] \subseteq batch[p] \cup synthesized[p]
               /\ synthesized'[p] = synthesized[p]
               /\ fut'[p] # "resuming"
    BY <1>2 DEF TakeHandle, JoinChild, JoinHandle, PlaceTypes
  <1>3. ASSUME Joined(p) \/ BeginFinalizing(p) \/ Conclude(p)
        PROVE  /\ batch'[p] \cup synthesized'[p] \subseteq batch[p] \cup synthesized[p]
               /\ synthesized'[p] = synthesized[p]
               /\ fut'[p] # "resuming"
    BY <1>3 DEF Joined, BeginFinalizing, Conclude, FutStep, PlaceTypes
  <1>4. ASSUME FinishNext(p)
        PROVE  /\ batch'[p] \cup synthesized'[p] \subseteq batch[p] \cup synthesized[p]
               /\ synthesized'[p] = synthesized[p]
               /\ fut'[p] # "resuming"
    BY <1>4 DEF FinishNext, Finish, Persist, Record, ForceRecord, FutStep, AfterSettle, PlaceTypes
  <1>5. ASSUME Resume(p)
        PROVE  /\ batch'[p] \cup synthesized'[p] \subseteq batch[p] \cup synthesized[p]
               /\ fut'[p] # "resuming"
    BY <1>5 DEF Resume, FutStep, PlaceTypes
  <1>6. ASSUME ClaimOwn(p) PROVE synthesized'[p] = synthesized[p]
    BY <1>6 DEF ClaimOwn
  <1>7. QED BY <1>1, <1>2, <1>3, <1>4, <1>5, <1>6 DEF OwnStep, CollectNext

\* A registered child keeps its parent.
LEMMA KidsStep ==
  ASSUME PlaceTypes, CancellerSound, Reservations, Next, registered \subseteq Children,
         NEW c \in registered
  PROVE  parent'[c] = parent[c]
  <1>1. ASSUME NEW p, NEW t, NEW g, LookUpGroup(c, p, t, g) PROVE FALSE
    BY <1>1 DEF LookUpGroup, Reservations, Reservation, BeforeJoin, BeforeScope
  <1>2. QED BY <1>1, CallsStep

\* What an agent holds in its hands or has used was joined.
LEMMA UsedWasJoined ==
  ASSUME TypeOK, PlaceTypes, CancellerSound, Reservations, Delivery!DeliveryInv, GroupsUsedWhole,
         Next, NEW p \in Children, BarrierSound(p), NEW c \in batch'[p] \cup synthesized'[p],
         c \in Children
  PROVE  call'[c] \notin BeforeJoin
  <1>1. ASSUME call[c] \notin BeforeJoin PROVE call'[c] \notin BeforeJoin
    <2>1. ASSUME NEW q, NEW t, NEW g, LookUpGroup(c, q, t, g) PROVE FALSE
      BY <1>1, <2>1 DEF LookUpGroup, BeforeJoin, BeforeScope
    <2>2. QED BY <1>1, <2>1, CallsStep
  <1>2. ASSUME c \in batch[p] \cup synthesized[p] PROVE call[c] \notin BeforeJoin
    BY <1>2 DEF GroupsUsedWhole
  <1>3. ASSUME ClaimOwn(p), c \notin synthesized[p] PROVE call[c] \notin BeforeJoin
    <2>1. fut[p] = "claiming" /\ c \in batch'[p]
      BY <1>3 DEF ClaimOwn, FutStep
    <2>2. Quiet(p)
      BY <2>1 DEF BarrierSound, Barrier
    <2>3. ASSUME NEW g \in ReadyFor(Session, p, CurrentGeneration(Session)),
                 batch' = [batch EXCEPT ![p] = Reported(g)]
          PROVE  call[c] \notin BeforeJoin
      <3>1. g \in Unclaimed /\ c \in groups[g].children
        BY <2>1, <2>3, ReadyIsReported DEF PlaceTypes
      <3>2. c \in registered
        BY <3>1, StoreFacts
      <3>3. QED BY <3>2, KidsRecorded DEF TypeOK
    <2>4. ASSUME batch' = [batch EXCEPT ![p] = ChildrenOf(p)] PROVE call[c] \notin BeforeJoin
      <3>1. record[c] # "absent" /\ parent[c] = p
        BY <2>1, <2>4 DEF PlaceTypes, ChildrenOf
      <3>2. call[c] \notin InCall /\ call[c] # "idle"
        BY <2>2, <3>1 DEF Quiet, Reservations, Reservation
      <3>3. QED BY <3>2 DEF BeforeJoin, BeforeScope
    <2>5. QED BY <1>3, <2>3, <2>4 DEF ClaimOwn
  <1>4. QED BY <1>1, <1>2, <1>3, UsedByOwn, FutureStep DEF FutureKept

\* The group an agent claims is its only one.
LEMMA ClaimWasOnly ==
  ASSUME TypeOK, PlaceTypes, CancellerSound, Reservations, MapsSound, Delivery!DeliveryInv,
         Next, NEW p \in Children, ClaimOwn(p)
  PROVE  Kids(p)' \subseteq batch'[p] \/ \A g \in Unclaimed' : groups'[g].owner # p
  <1>1. ASSUME NEW g \in ReadyFor(Session, p, CurrentGeneration(Session)), HandOver(g)
        PROVE  \A h \in Unclaimed' : groups'[h].owner # p
    <2>1. g \in Unclaimed /\ groups[g].owner = p
      BY <1>1, ReadyIsReported
    <2>2. Unclaimed' = Unclaimed \ {g} /\ \A h \in Unclaimed' : groups'[h] = groups[h]
      BY <1>1 DEF HandOver, RemoveDelivery, Without
    <2>3. ASSUME NEW h \in Unclaimed, groups[h].owner = p PROVE h = g
      <3>1. /\ groups[h].session = groups[g].session /\ groups[h].turn = groups[g].turn
        BY <2>1, <2>3, RootAssumption DEF MapsSound
      <3>2. QED BY <2>1, <2>3, <3>1, StoreFacts
    <2>4. QED BY <2>2, <2>3
  <1>2. ASSUME batch' = [batch EXCEPT ![p] = ChildrenOf(p)] PROVE Kids(p)' \subseteq batch'[p]
    <2>1. Kids(p)' = Kids(p)
      BY DEF ClaimOwn, Kids
    <2>2. QED BY <1>2, <2>1, KidsRecorded DEF PlaceTypes, TypeOK
  <1>3. QED BY <1>1, <1>2 DEF ClaimOwn

\* An agent that resumes is about to use everything, or claimed its only group.
LEMMA ResumesWhole ==
  ASSUME TypeOK, MapTypes, PlaceTypes, CancellerSound, Reservations, MapsSound,
         Delivery!DeliveryInv, GroupsUsedWhole, Next, registered' \subseteq Children,
         NEW p \in Children, BarrierSound(p), fut'[p] = "resuming"
  PROVE  Kids(p)' \subseteq batch'[p] \/ \A g \in Unclaimed' : groups'[g].owner # p
  <1>1. CASE ClaimOwn(p)
    BY <1>1, ClaimWasOnly
  <1>2. CASE FutureKept(p)
    <2>1. fut[p] = "resuming" /\ batch'[p] = batch[p]
      BY <1>2 DEF FutureKept
    <2>2. Quiet(p)
      BY <2>1 DEF BarrierSound, Barrier
    <2>3. Kids(p)' \subseteq Kids(p)
      BY <2>1, <2>2, QuietStep
    <2>4. ASSUME \A g \in Unclaimed : groups[g].owner # p
          PROVE  \A g \in Unclaimed' : groups'[g].owner # p
      <3>1. CASE MembershipKept
        BY <2>4, <3>1 DEF MembershipKept, GroupsKept
      <3>2. ASSUME NEW c \in Children, Joins(c) PROVE \A g \in Unclaimed' : groups'[g].owner # p
        BY <2>4, <3>2 DEF Joins
      <3>3. ASSUME NEW c \in Children, NEW q \in Owners, NEW t \in Turns \cup {NoTurn},
                   NEW g \in GroupIds, LookUpGroup(c, q, t, g), Maps(q, t, g)
            PROVE  \A h \in Unclaimed' : groups'[h].owner # p
        <4>1. q # p
          BY <2>1, <3>3, RootAssumption DEF LookUpGroup, CanCall
        <4>2. QED BY <2>4, <3>3, <4>1 DEF Maps
      <3>4. QED BY <3>1, <3>2, <3>3, MembershipStep, JoinEffect, LookUpEffect
    <2>5. QED BY <2>1, <2>3, <2>4 DEF GroupsUsedWhole
  <1>3. QED BY <1>1, <1>2, FutureStep, UsedByOwn

\* The members of a group are used together.
LEMMA UsedTogether ==
  ASSUME TypeOK, MapTypes, PlaceTypes, CancellerSound, Reservations, MapsSound,
         Delivery!DeliveryInv, GroupsUsedWhole, Next, NEW g \in Unclaimed',
         NEW p \in Children, groups'[g].owner = p
  PROVE  \/ groups'[g].children \cap synthesized'[p] = {}
         \/ Kids(p)' \ synthesized'[p] \subseteq groups'[g].children
  <1>0. registered \subseteq Children
    BY DEF TypeOK
  <1>1. CASE Resume(p)
    <2>1. UNCHANGED <<groups, registered, parent>> /\ fut[p] = "resuming"
          /\ batch[p] \subseteq synthesized'[p]
      BY <1>1 DEF Resume, FutStep, PlaceTypes
    <2>2. Kids(p) \subseteq batch[p]
      BY <2>1 DEF GroupsUsedWhole
    <2>3. Kids(p)' = Kids(p)
      BY <2>1 DEF Kids
    <2>4. QED BY <2>1, <2>2, <2>3
  <1>2. CASE synthesized'[p] = synthesized[p]
    <2>1. ASSUME NEW h \in Unclaimed, groups[h].owner = p
          PROVE  \/ groups[h].children \cap synthesized[p] = {}
                 \/ Kids(p) \ synthesized[p] \subseteq groups[h].children
      BY <2>1 DEF GroupsUsedWhole
    <2>2. registered' = registered => Kids(p)' = Kids(p)
      BY <1>0, KidsStep DEF Kids
    <2>3. CASE MembershipKept
      <3>1. /\ g \in Unclaimed /\ groups[g].owner = p /\ groups'[g].children = groups[g].children
            /\ Kids(p)' = Kids(p)
        BY <2>2, <2>3 DEF MembershipKept, GroupsKept
      <3>2. QED BY <1>2, <2>1, <3>1
    <2>4. ASSUME NEW c \in Children, Joins(c)
          PROVE  \/ groups'[g].children \cap synthesized'[p] = {}
                 \/ Kids(p)' \ synthesized'[p] \subseteq groups'[g].children
      <3>1. g \in Unclaimed /\ groups[g].owner = p
        BY <2>4 DEF Joins
      <3>2. callGroup[c] \in Unclaimed /\ groups[callGroup[c]].owner = parent[c]
        BY <2>4 DEF Joins, Owned, OwnerGroupsOf, MapsSound
      <3>3. parent'[c] = parent[c]
        <4>1. ASSUME NEW q, NEW t, NEW h, LookUpGroup(c, q, t, h) PROVE FALSE
          BY <2>4, <4>1 DEF LookUpGroup, Joins
        <4>2. QED BY <4>1, CallsStep
      <3>4. Kids(p)' = IF parent[c] = p THEN Kids(p) \cup {c} ELSE Kids(p)
        BY <1>0, <2>4, <3>3, KidsStep DEF Kids, Joins
      <3>5. CASE g = callGroup[c]
        <4>1. groups'[g].children = groups[g].children \cup {c} /\ parent[c] = p
          BY <2>4, <3>1, <3>2, <3>5 DEF Joins
        <4>2. c \notin synthesized[p]
          BY <2>4 DEF GroupsUsedWhole, Joins, BeforeJoin
        <4>3. QED BY <1>2, <2>1, <3>1, <3>4, <4>1, <4>2
      <3>6. CASE g # callGroup[c]
        <4>1. groups'[g].children = groups[g].children
          BY <2>4, <3>1, <3>6 DEF Joins
        <4>2. parent[c] # p
          <5>1. ASSUME parent[c] = p PROVE g = callGroup[c]
            <6>1. /\ groups[g].session = groups[callGroup[c]].session
                  /\ groups[g].turn = groups[callGroup[c]].turn
              BY <3>1, <3>2, <5>1, RootAssumption DEF MapsSound
            <6>2. QED BY <3>1, <3>2, <5>1, <6>1, StoreFacts
          <5>2. QED BY <3>6, <5>1
        <4>3. QED BY <1>2, <2>1, <3>1, <3>4, <4>1, <4>2
      <3>7. QED BY <3>5, <3>6
    <2>5. ASSUME NEW c \in Children, NEW q \in Owners, NEW t \in Turns \cup {NoTurn},
                 NEW h \in GroupIds, LookUpGroup(c, q, t, h), Maps(q, t, h)
          PROVE  \/ groups'[g].children \cap synthesized'[p] = {}
                 \/ Kids(p)' \ synthesized'[p] \subseteq groups'[g].children
      <3>1. Kids(p)' = Kids(p)
        BY <2>2, <2>5 DEF LookUpGroup
      <3>2. CASE g \in Unclaimed
        <4>1. groups'[g] = groups[g]
          BY <2>5, <3>2 DEF Maps
        <4>2. QED BY <1>2, <2>1, <3>1, <3>2, <4>1
      <3>3. CASE g \notin Unclaimed
        BY <2>5, <3>3 DEF Maps
      <3>4. QED BY <3>2, <3>3
    <2>6. QED BY <2>3, <2>4, <2>5, MembershipStep, JoinEffect, LookUpEffect
  <1>3. QED BY <1>1, <1>2, FutureStep, UsedByOwn DEF FutureKept

\* Every step keeps what agents have used of their groups whole.
LEMMA UsedStep ==
  ASSUME TypeOK, MapTypes, PlaceTypes, PlaceTypes', CancellerSound, Reservations, MapsSound,
         Delivery!DeliveryInv, GroupsUsedWhole, Next, registered' \subseteq Children,
         \A p \in Children : BarrierSound(p)
  PROVE  GroupsUsedWhole'
  <1>1. \A p \in Children : \A c \in batch'[p] \cup synthesized'[p] : call'[c] \notin BeforeJoin
    <2> SUFFICES ASSUME NEW p \in Children, NEW c \in batch'[p] \cup synthesized'[p]
                 PROVE  call'[c] \notin BeforeJoin
      OBVIOUS
    <2>1. c \in Children
      BY DEF PlaceTypes
    <2>2. QED BY <2>1, UsedWasJoined
  <1>2. \A g \in Unclaimed' : \A p \in Children : groups'[g].owner = p =>
          \/ groups'[g].children \cap synthesized'[p] = {}
          \/ Kids(p)' \ synthesized'[p] \subseteq groups'[g].children
    BY UsedTogether
  <1>3. \A p \in Children : fut'[p] = "resuming" =>
          Kids(p)' \subseteq batch'[p] \/ \A g \in Unclaimed' : groups'[g].owner # p
    BY ResumesWhole
  <1>4. QED BY <1>1, <1>2, <1>3 DEF GroupsUsedWhole, Kids

-----------------------------------------------------------------------------
(* The invariant and the theorems                                          *)

\* Every step uses the store as its callers may.
LEMMA StoreStep ==
  ASSUME TypeOK, PlaceTypes, MapTypes, ResetBounded, CancellerSound, Reservations, Next
  PROVE  Delivery!Next \/ UNCHANGED Delivery!vars
  BY CallUse, FutureUse, RootUse, CancelUse DEF Next, Reservations

\* Every step keeps the types of calls, scopes and futures.
LEMMA PlacesStep ==
  ASSUME PlaceTypes, CancellerSound, Next
  PROVE  PlaceTypes'
  BY CallTypes, FutureTypes, RootTypes, CancelTypes DEF Next

\* The types follow from the types of the parts, and the size of the pool from the
\* account of the permits.
LEMMA TypesJoin ==
  Delivery!DeliveryInv /\ PlaceTypes /\ MapTypes /\ CounterTypes /\ CancellerSound
    /\ PermitsConserved => TypeOK
  <1> SUFFICES ASSUME Delivery!DeliveryInv, PlaceTypes, MapTypes, CounterTypes, CancellerSound,
                      PermitsConserved
               PROVE  TypeOK
    OBVIOUS
  <1>1. permits \in 0 .. MaxConcurrent
    <2>1. permits + Cardinality(holds) + Cardinality(Carrying) = MaxConcurrent
      BY PermitSum
    <2>2. permits \in Nat
      BY DEF PlaceTypes
    <2>3. QED BY <2>1, <2>2, PermitSets, LimitsAssumption
  <1>2. /\ DOMAIN generations \subseteq Sessions
        /\ generations \in [DOMAIN generations -> Nat]
        /\ Unclaimed \subseteq minted
        /\ groups \in [Unclaimed -> GroupRecord]
        /\ minted \subseteq GroupIds /\ overdue \subseteq GroupIds
        /\ registered \subseteq Children
        /\ inbox \in [Children -> Seq(Results)]
    BY DEF Delivery!DeliveryInv, Delivery!TypeOK, Delivery!Unclaimed, Delivery!GroupRecord,
       Delivery!Results, Delivery!Terminals, Delivery!Unreported, GroupRecord, Unreported
  <1>3. /\ canceller.todo \subseteq canceller.targets /\ canceller.targets \subseteq Children
        /\ canceller.child \in Owners
        /\ canceller.terminal \in Terminals
    BY DEF CancellerSound, CancellerRecord
  <1>4. QED BY <1>1, <1>2, <1>3 DEF TypeOK, PlaceTypes, MapTypes, CounterTypes

\* The coordinator starts with the store the store's own proofs start with.
LEMMA InitStore ==
  ASSUME Init PROVE Delivery!Init /\ Delivery!DeliveryInv
  <1>1. Delivery!Init
    BY DEF Init, StoreInit, NewGroup, Delivery!Init, Delivery!StoreInit, Delivery!NewGroup,
       Delivery!Unreported, Unreported
  <1>2. Stored!Init
    BY <1>1 DEF Delivery!Init, Delivery!StoreInit, Delivery!NewGroup, Delivery!Unreported,
       Stored!Init, Stored!StoreInit, Stored!NewGroup, Stored!Unreported
  <1>3. Stored!DeliveryInv
    BY <1>2, StoreAssumptions, Stored!InitInv
  <1>4. QED BY <1>1, <1>3, SameInvariant

\* The invariant holds at the start.
LEMMA InitInv == Init => CoordinatorInv
  <1> SUFFICES ASSUME Init PROVE CoordinatorInv
    OBVIOUS
  <1>1. Delivery!DeliveryInv
    BY InitStore
  <1>2. PlaceTypes /\ MapTypes /\ CounterTypes
    BY LimitsAssumption, RootAssumption DEF Init, PlaceTypes, MapTypes, CounterTypes
  <1>3. CancellerSound
    <2>1. <<>> \in Seq(Frames)
      OBVIOUS
    <2>2. QED
      BY <2>1, RootAssumption DEF Init, CancellerSound, CancellerRecord, CancelPlaces
  <1>4. PermitsConserved
    <2>1. holds = {} /\ Carrying = {} /\ permits = MaxConcurrent
      BY DEF Init, Carrying
    <2>2. Cardinality({}) = 0
      BY FS_EmptySet
    <2>3. QED BY <2>1, <2>2, PermitSum, LimitsAssumption
  <1>5. TypeOK
    BY <1>1, <1>2, <1>3, <1>4, TypesJoin
  <1>6. ResetBounded
    BY MaxGenerationAssumption DEF Init, StoreInit, CurrentGeneration, ResetBounded
  <1>7. Reservations /\ LiveHoldsPermit
    BY DEF Init, Reservations, Reservation, LiveHoldsPermit, BeforeScope, BeforeJoin, Rejecting,
       Settled
  <1>8. MapsSound /\ LateFinishers /\ RecordedIsTerminal /\ GroupsUsedWhole
    BY DEF Init, StoreInit, MapsSound, LateFinishers, RecordedIsTerminal, GroupsUsedWhole
  <1>9. \A p \in Children : BarrierSound(p)
    BY DEF Init, BarrierSound, Barrier
  <1>10. QED
    BY <1>1, <1>3, <1>4, <1>5, <1>6, <1>7, <1>8, <1>9 DEF CoordinatorInv, Reservations

\* Every step preserves the invariant.
LEMMA StepInv == CoordinatorInv /\ Next => CoordinatorInv'
  <1> SUFFICES ASSUME CoordinatorInv, Next PROVE CoordinatorInv'
    OBVIOUS
  <1>1. /\ TypeOK /\ Delivery!DeliveryInv /\ CancellerSound /\ ResetBounded /\ Reservations
        /\ PermitsConserved /\ LiveHoldsPermit /\ MapsSound /\ LateFinishers
        /\ RecordedIsTerminal /\ (\A p \in Children : BarrierSound(p)) /\ GroupsUsedWhole
    BY DEF CoordinatorInv, Reservations
  <1>2. PlaceTypes /\ MapTypes /\ CounterTypes
    BY <1>1, TypesSplit
  <1>3. PlaceTypes'
    BY <1>1, <1>2, PlacesStep
  <1>4. MapTypes' /\ CounterTypes'
    BY <1>1, <1>2, MapsTyped, CountersTyped
  <1>5. Grows
    BY <1>1, <1>2, StepGrows DEF Reservations
  <1>6. CancellerSound' /\ ResetBounded'
    BY <1>1, <1>2, <1>5, CancellerStep, ResetStep DEF Reservations
  <1>7. PermitsConserved'
    BY <1>1, <1>2, PermitsStep DEF Reservations
  <1>8. Reservations' /\ LiveHoldsPermit'
    BY <1>1, <1>2, ReservationStep
  <1>9. Delivery!DeliveryInv'
    BY <1>1, <1>2, StoreStep, StoreKeepsInvariant
  <1>10. TypeOK'
    BY <1>3, <1>4, <1>6, <1>7, <1>9, TypesJoin, PTL
  <1>11. registered' \subseteq Children
    BY <1>10 DEF TypeOK
  <1>12. MapsSound'
    BY <1>1, <1>2, MapsStep
  <1>13. LateFinishers'
    BY <1>1, <1>2, <1>5, LateStep
  <1>14. RecordedIsTerminal'
    BY <1>1, <1>2, <1>5, RecordedStep
  <1>15. \A p \in Children : BarrierSound(p)'
    BY <1>1, <1>2, <1>11, BarrierStep
  <1>16. GroupsUsedWhole'
    BY <1>1, <1>2, <1>3, <1>11, UsedStep
  <1>17. QED
    BY <1>6, <1>7, <1>8, <1>9, <1>10, <1>12, <1>13, <1>14, <1>15, <1>16
    DEF CoordinatorInv, Reservations

\* A step that changes nothing keeps everything.
LEMMA StutterInv == CoordinatorInv /\ UNCHANGED vars => CoordinatorInv'
  <1> SUFFICES ASSUME CoordinatorInv, UNCHANGED vars PROVE CoordinatorInv'
    OBVIOUS
  <1> USE DEF vars
  <1>1. TypeOK' /\ ResetBounded' /\ PermitsConserved' /\ LiveHoldsPermit' /\ MapsSound'
    BY DEF CoordinatorInv, TypeOK, ResetBounded, CurrentGeneration, PermitsConserved,
       LiveHoldsPermit, MapsSound, GroupRecord
  <1>2. Delivery!DeliveryInv'
    BY StoreUntouched, StoreKeepsInvariant DEF CoordinatorInv
  <1>3. CancellerSound'
    <2>1. Grows
      BY DEF Grows, Recorded
    <2>2. QED BY <2>1, CancellerUntouched DEF CoordinatorInv
  <1>4. \A c \in Children : Reservation(c)'
    BY DEF CoordinatorInv, Reservation
  <1>5. LateFinishers' /\ RecordedIsTerminal' /\ GroupsUsedWhole'
    BY DEF CoordinatorInv, LateFinishers, RecordedIsTerminal, Reported, ReportedIn,
       GroupsUsedWhole, Kids
  <1>6. \A p \in Children : BarrierSound(p)'
    BY DEF CoordinatorInv, BarrierSound, Quiet, AllOver, AllUsed, ChildrenOf, Kids
  <1>7. QED BY <1>1, <1>2, <1>3, <1>4, <1>5, <1>6 DEF CoordinatorInv

\* The inductive invariant holds in every reachable state.
THEOREM CoordinatorInvTheorem == Spec => []CoordinatorInv
  <1>1. CoordinatorInv /\ [Next]_vars => CoordinatorInv'
    BY StepInv, StutterInv
  <1>2. QED BY InitInv, <1>1, PTL DEF Spec

\* Every permit of the subagent semaphore is free, in the hands of a `task` call or in
\* exactly one scope, and a live child keeps its own until it is terminal: for any
\* number of children, permits, cancel requests and interrupts.
THEOREM PermitsTheorem == Spec => []PermitsAccounted
  <1>1. CoordinatorInv => PermitsAccounted
    BY DEF CoordinatorInv, PermitsAccounted
  <1>2. QED BY CoordinatorInvTheorem, <1>1, PTL

\* Racing finishers leave one version of a result, and an agent that completes has no
\* live child and has used the result of every child it spawned.
THEOREM TerminalsTheorem == Spec => []TerminalsInOrder
  <1>1. CoordinatorInv => TerminalsInOrder
    BY DEF CoordinatorInv, TerminalsInOrder, CompletesAfterChildren, BarrierSound, AllOver,
       AllUsed, Kids, ChildrenOf
  <1>2. QED BY CoordinatorInvTheorem, <1>1, PTL

\* What the coordinator maps belongs to the current generation, after any number of
\* resets.
THEOREM MappingsTheorem == Spec => []MappingsFollowGeneration
  <1>1. ASSUME CoordinatorInv PROVE MappingsFollowGeneration
    <2>1. \A k \in DOMAIN ownerGroups : k[2] = CurrentGeneration(Session)
      BY <1>1 DEF CoordinatorInv, MapsSound
    <2>2. \A g \in Unclaimed : EnsureGroupCurrent(g) /\ groups[g].session = Session
      BY <1>1, StoreFacts DEF CoordinatorInv, MapsSound
    <2>3. QED BY <2>1, <2>2 DEF MappingsFollowGeneration, EnsureGroupCurrent
  <1>2. QED BY CoordinatorInvTheorem, <1>1, PTL

\* A terminal status is final, whoever races to finish the child, except where a
\* canceller met the reservation half-way.
THEOREM TerminalKeptTheorem == Spec => TerminalKept
  <1>1. ASSUME CoordinatorInv, [Next]_vars
        PROVE  [\A c \in Children : Terminal(scope[c]) /\ c \notin torn => scope'[c] = scope[c]]_vars
    <2> SUFFICES ASSUME NEW c \in Children, Terminal(scope[c]), c \notin torn, Next
                 PROVE  scope'[c] = scope[c]
      BY <1>1
    <2>1. PlaceTypes /\ CancellerSound /\ Reservations
      BY <1>1, TypesSplit DEF CoordinatorInv, Reservations
    <2>2. call[c] # "pending"
      BY <2>1 DEF Reservations, Reservation
    <2>3. QED BY <2>1, <2>2, TerminalStays
  <1>2. QED BY CoordinatorInvTheorem, <1>1, PTL DEF Spec, TerminalKept

\* The coordinator implements the store's contract: whatever is proved of
\* TaskGroupDelivery holds of the group store under the coordinator.
THEOREM StoreUseTheorem == Spec => UsesStoreAsPromised
  <1>1. ASSUME CoordinatorInv, [Next]_vars
        PROVE  [Delivery!vars' # Delivery!vars => Delivery!Next]_vars
    <2>1. CASE UNCHANGED vars
      BY <2>1
    <2>2. CASE Next
      <3>1. TypeOK /\ ResetBounded /\ CancellerSound /\ Reservations
        BY <1>1 DEF CoordinatorInv, Reservations
      <3>2. QED BY <2>2, <3>1, TypesSplit, StoreStep
    <2>3. QED BY <1>1, <2>1, <2>2
  <1>2. Init => Delivery!Init
    BY InitStore
  <1>3. QED BY CoordinatorInvTheorem, <1>1, <1>2, PTL DEF Spec, UsesStoreAsPromised

\* The coordinator delivers a child's result at most once, whoever claims its group.
THEOREM DeliveredOnceTheorem == Spec => []Delivery!DeliveredAtMostOnce
  <1>1. CoordinatorInv => Delivery!DeliveredAtMostOnce
    BY DEF CoordinatorInv, Delivery!DeliveryInv
  <1>2. QED BY CoordinatorInvTheorem, <1>1, PTL

-----------------------------------------------------------------------------
(* What a cancel request leaves                                            *)

\* A deadline that has passed stays passed.
LEMMA OverdueGrows ==
  ASSUME Next PROVE overdue \subseteq overdue'
  <1>1. ASSUME NEW c, NEW t, RecordMapped(c, t) PROVE UNCHANGED overdue
    BY <1>1 DEF RecordMapped, RecordResult
  <1>2. ASSUME NEW g, HandOver(g) PROVE UNCHANGED overdue
    BY <1>2 DEF HandOver, RemoveDelivery
  <1>3. ASSUME NEW c \in Children, CallNext(c) PROVE UNCHANGED overdue
    BY <1>1, <1>3
    DEF CallNext, Admit, AcquirePermit, InsertRecord, InsertScope, MarkRunning, JoinGroup,
        AddChild, Spawn, RegisterTask, RejectSettle, RejectPersist, RejectRecord
  <1>4. ASSUME NEW c, NEW p, NEW t, NEW g, LookUpGroup(c, p, t, g) PROVE UNCHANGED overdue
    BY <1>4 DEF LookUpGroup, CreateGroup
  <1>5. ASSUME NEW c \in Children,
               LoopFails(c) \/ CandidateFinal(c) \/ CollectNext(c) \/ FinishNext(c)
        PROVE  UNCHANGED overdue
    BY <1>1, <1>2, <1>5 DEF LoopFails, CandidateFinal, CollectNext, TakeHandle, JoinChild,
       JoinHandle, Joined, ClaimOwn, Resume, BeginFinalizing, Conclude, FinishNext,
       Finish, Persist, Record, ForceRecord
  <1>6. ASSUME \/ InterruptRoot \/ RootSweep
               \/ \E gen \in 0 .. MaxGeneration : RootPick(gen)
               \/ CancelChild \/ CancelSession \/ ResetSession
        PROVE  UNCHANGED overdue
    BY <1>2, <1>6 DEF InterruptRoot, RootSweep, ExpireDueGroups, RootPick, CancelChild,
       CancelSession, ResetSession, Request, StartCancel
  <1>7. ASSUME NEW g, Deadline(g) PROVE overdue \subseteq overdue'
    BY <1>7 DEF Deadline, DeadlinePasses
  <1>8. ASSUME CancelNext PROVE UNCHANGED overdue
    BY <1>1, <1>8 DEF CancelNext, PickTarget, Signal, AwaitCancelled,
       Snapshot, CancelJoined, CancelTimeout, Return, CancelSettle, CancelPersist,
       CancelRecord, CancelDone, ResetCancels, ResetAdvances, CancelGeneration, AdvanceGeneration
  <1>9. QED BY <1>3, <1>4, <1>5, <1>6, <1>7, <1>8 DEF Next

\* While no deadline has passed, no result is refused.
LEMMA NoneRefused ==
  ASSUME MapsSound, Delivery!DeliveryInv, MappedIsOpen, NEW c \in Children
  PROVE  ~ Refuses(c)
  <1> DEFINE g == childGroups[c]
  <1>1. CASE g = NoGroup
    BY <1>1 DEF Refuses
  <1>2. CASE g # NoGroup
    <2>1. /\ g \in Unclaimed /\ groups[g].lifecycle = "Active" /\ c \notin Reported(g)
          /\ c \in groups[g].children
      BY <1>2 DEF MappedIsOpen, MapsSound
    <2>2. EnsureGroupCurrent(g)
      BY <2>1, StoreFacts
    <2>3. QED BY <2>1, <2>2 DEF Refuses, CanRecord, Accepts
  <1>3. QED BY <1>1, <1>2

\* A report closes the mapping and leaves the other groups' members as they are.
LEMMA OpenAfterReport ==
  ASSUME TypeOK, MapTypes, MapsSound, Delivery!DeliveryInv, MappedIsOpen,
         NEW c \in Children, NEW t, RecordMapped(c, t), UNCHANGED ownerGroups
  PROVE  MappedIsOpen'
  <1>1. ~ Refuses(c)
    BY NoneRefused
  <1>2. childGroups' = [childGroups EXCEPT ![c] = NoGroup]
    BY <1>1 DEF RecordMapped
  <1>3. /\ Unclaimed' = Unclaimed
        /\ \A h \in Unclaimed :
             /\ groups'[h].lifecycle = groups[h].lifecycle
             /\ \A d \in Children : d # c => groups'[h].results[d] = groups[h].results[d]
    <2>1. CASE childGroups[c] # NoGroup /\ CanRecord(childGroups[c], c)
      <3> DEFINE g == childGroups[c]
      <3>1. groups' = [groups EXCEPT ![g].results[c] = t]
        BY <2>1 DEF RecordMapped, RecordResult
      <3>2. g \in Unclaimed /\ groups[g] \in GroupRecord
        BY <2>1 DEF CanRecord, Accepts, EnsureGroupCurrent, TypeOK
      <3> HIDE DEF g
      <3>3. QED BY <3>1, <3>2 DEF GroupRecord, TypeOK
    <2>2. CASE ~ (childGroups[c] # NoGroup /\ CanRecord(childGroups[c], c))
      BY <2>2 DEF RecordMapped
    <2>3. QED BY <2>1, <2>2
  <1>4. \A g \in Unclaimed' : groups'[g].lifecycle = "Active"
    BY <1>3 DEF MappedIsOpen
  <1>5. ASSUME NEW d \in Children, childGroups'[d] # NoGroup
        PROVE  /\ childGroups'[d] \in Unclaimed' /\ d \notin Reported(childGroups[d])'
               /\ OwnerGroupsOf(childGroups[d])' # {}
    <2>1. d # c /\ childGroups'[d] = childGroups[d]
      BY <1>2, <1>5 DEF MapTypes
    <2>2. /\ childGroups[d] \in Unclaimed /\ d \notin Reported(childGroups[d])
          /\ OwnerGroupsOf(childGroups[d]) # {}
      BY <1>5, <2>1 DEF MappedIsOpen
    <2>3. QED BY <1>3, <2>1, <2>2 DEF Reported, ReportedIn, OwnerGroupsOf
  <1>6. QED BY <1>4, <1>5 DEF MappedIsOpen

\* A claim takes a group whose members have all reported, so no mapping leads to it.
LEMMA OpenAfterClaim ==
  ASSUME TypeOK, MapTypes, MapsSound, Delivery!DeliveryInv, MappedIsOpen, NEW o, NEW gen,
         NEW g \in ReadyFor(Session, o, gen), HandOver(g), UNCHANGED childGroups
  PROVE  MappedIsOpen'
  <1>1. g \in Unclaimed /\ Reported(g) = groups[g].children
    BY ReadyIsReported
  <1>2. Unclaimed' = Unclaimed \ {g} /\ \A h \in Unclaimed' : groups'[h] = groups[h]
    BY DEF HandOver, RemoveDelivery, Without
  <1>3. /\ DOMAIN ownerGroups' = DOMAIN ownerGroups \ OwnerGroupsOf(g)
        /\ \A k \in DOMAIN ownerGroups' : ownerGroups'[k] = ownerGroups[k]
    BY DEF HandOver, DropOwnerKeys
  <1>4. \A h \in Unclaimed' : groups'[h].lifecycle = "Active"
    BY <1>2 DEF MappedIsOpen
  <1>5. ASSUME NEW d \in Children, childGroups[d] # NoGroup
        PROVE  /\ childGroups[d] \in Unclaimed' /\ d \notin Reported(childGroups[d])'
               /\ OwnerGroupsOf(childGroups[d])' # {}
    <2>1. /\ childGroups[d] \in Unclaimed /\ d \notin Reported(childGroups[d])
          /\ OwnerGroupsOf(childGroups[d]) # {}
      BY <1>5 DEF MappedIsOpen
    <2>2. d \in groups[childGroups[d]].children
      BY <1>5, <2>1 DEF MapsSound
    <2>3. childGroups[d] # g
      BY <1>1, <2>1, <2>2
    <2>4. QED BY <1>2, <1>3, <2>1, <2>3 DEF Reported, ReportedIn, OwnerGroupsOf
  <1>6. QED BY <1>4, <1>5 DEF MappedIsOpen

\* A child that joins is mapped to an open group its caller owns.
LEMMA OpenAfterJoin ==
  ASSUME TypeOK, MapTypes, Delivery!DeliveryInv, MappedIsOpen, NEW c \in Children, Joins(c)
  PROVE  MappedIsOpen'
  <1> DEFINE g == callGroup[c]
  <1>1. /\ Owned(c) /\ c \notin groups[g].children /\ g \in Unclaimed
        /\ Unclaimed' = Unclaimed /\ UNCHANGED ownerGroups
        /\ \A h \in Unclaimed : /\ groups'[h].results = groups[h].results
                                /\ groups'[h].lifecycle = groups[h].lifecycle
        /\ childGroups' = [childGroups EXCEPT ![c] = g]
    BY DEF Joins, CanAddChild
  <1>2. c \notin Reported(g)
    BY <1>1, StoreFacts
  <1>3. OwnerGroupsOf(g) # {}
    BY <1>1 DEF Owned
  <1> HIDE DEF g
  <1>4. \A h \in Unclaimed' : groups'[h].lifecycle = "Active"
    BY <1>1 DEF MappedIsOpen
  <1>5. ASSUME NEW d \in Children, childGroups'[d] # NoGroup
        PROVE  /\ childGroups'[d] \in Unclaimed' /\ d \notin Reported(childGroups[d])'
               /\ OwnerGroupsOf(childGroups[d])' # {}
    <2>1. /\ childGroups'[d] \in Unclaimed /\ d \notin Reported(childGroups'[d])
          /\ OwnerGroupsOf(childGroups'[d]) # {}
      BY <1>1, <1>2, <1>3, <1>5 DEF MappedIsOpen, MapTypes
    <2>2. QED BY <1>1, <2>1 DEF Reported, ReportedIn, OwnerGroupsOf
  <1>6. QED BY <1>4, <1>5 DEF MappedIsOpen

\* A lookup maps a group that was not mapped for its key, and an open one.
LEMMA OpenAfterLookUp ==
  ASSUME TypeOK, MapTypes, MappedIsOpen, NEW p, NEW t, NEW g, Maps(p, t, g),
         UNCHANGED childGroups
  PROVE  MappedIsOpen'
  <1> DEFINE key == <<p, CurrentGeneration(Session), t>>
  <1>1. /\ Unclaimed' = Unclaimed \cup {g}
        /\ \A h \in Unclaimed : groups'[h] = groups[h]
        /\ g \notin Unclaimed => groups'[g].lifecycle = "Active"
        /\ key \notin DOMAIN ownerGroups
        /\ DOMAIN ownerGroups' = DOMAIN ownerGroups \cup {key}
        /\ \A k \in DOMAIN ownerGroups' :
             ownerGroups'[k] = IF k = key THEN g ELSE ownerGroups[k]
    BY DEF Maps
  <1> HIDE DEF key
  <1>2. \A h \in Unclaimed' : groups'[h].lifecycle = "Active"
    BY <1>1 DEF MappedIsOpen
  <1>3. ASSUME NEW d \in Children, childGroups[d] # NoGroup
        PROVE  /\ childGroups[d] \in Unclaimed' /\ d \notin Reported(childGroups[d])'
               /\ OwnerGroupsOf(childGroups[d])' # {}
    <2>1. /\ childGroups[d] \in Unclaimed /\ d \notin Reported(childGroups[d])
          /\ OwnerGroupsOf(childGroups[d]) # {}
      BY <1>3 DEF MappedIsOpen
    <2>2. QED BY <1>1, <2>1 DEF Reported, ReportedIn, OwnerGroupsOf
  <1>4. QED BY <1>2, <1>3 DEF MappedIsOpen

\* A reset unmaps every child: all keys are of the generation it ends.
LEMMA OpenAfterReset ==
  ASSUME TypeOK, MapTypes, MapsSound, MappedIsOpen, ResetCancels \/ ResetAdvances
  PROVE  MappedIsOpen'
  <1>1. PICK stale : CleanMappings(stale) /\ CurrentGeneration(Session) \in stale
    <2>1. CurrentGeneration(Session) \in 0 .. CurrentGeneration(Session)
      BY GenerationIsNat
    <2>2. QED BY <2>1 DEF ResetCancels, ResetAdvances
  <1>2. Unclaimed' \subseteq Unclaimed /\ \A h \in Unclaimed' : groups'[h] = groups[h]
    BY DEF ResetCancels, ResetAdvances, CancelGeneration, AdvanceGeneration, Without
  <1>3. \A h \in Unclaimed' : groups'[h].lifecycle = "Active"
    BY <1>2 DEF MappedIsOpen
  <1> DEFINE gone == {ownerGroups[k] : k \in {x \in DOMAIN ownerGroups : x[2] \in stale}}
  <1>4. childGroups' = [c \in Children |-> IF childGroups[c] \in gone THEN NoGroup ELSE childGroups[c]]
    BY <1>1 DEF CleanMappings
  <1>5. ASSUME NEW d \in Children PROVE childGroups'[d] = NoGroup
    <2>1. CASE childGroups[d] = NoGroup
      BY <1>4, <2>1
    <2>2. CASE childGroups[d] # NoGroup
      <3>1. PICK k \in DOMAIN ownerGroups : ownerGroups[k] = childGroups[d]
        BY <2>2 DEF MappedIsOpen, OwnerGroupsOf
      <3>2. k[2] \in stale
        BY <1>1 DEF MapsSound
      <3>3. QED BY <1>4, <3>1, <3>2
    <2>3. QED BY <2>1, <2>2
  <1>6. QED BY <1>3, <1>5 DEF MappedIsOpen

\* Mappings stay open until a deadline passes.
LEMMA OpenStep ==
  ASSUME TypeOK, MapTypes, PlaceTypes, CancellerSound, MapsSound, Delivery!DeliveryInv, Next,
         MappedIsOpen, overdue = {}, overdue' = {}
  PROVE  MappedIsOpen'
  <1>1. ASSUME UNCHANGED <<storeVars, mapVars>> PROVE MappedIsOpen'
    BY <1>1 DEF MappedIsOpen, Reported, ReportedIn, OwnerGroupsOf
  <1>2. ASSUME NEW c \in Children, CallNext(c) PROVE MappedIsOpen'
    <2>1. CASE JoinGroup(c)
      BY <1>1, <2>1, JoinEffect, OpenAfterJoin
    <2>2. CASE RejectRecord(c)
      BY <2>2, OpenAfterReport DEF RejectRecord
    <2>3. QED
      BY <1>1, <1>2, <2>1, <2>2
      DEF CallNext, Admit, AcquirePermit, InsertRecord, InsertScope, MarkRunning, Spawn,
          RegisterTask, RejectSettle, RejectPersist
  <1>3. ASSUME NEW c \in Children, NEW p \in Owners, NEW t \in Turns \cup {NoTurn},
               NEW g \in GroupIds, LookUpGroup(c, p, t, g)
        PROVE  MappedIsOpen'
    <2>1. UNCHANGED childGroups /\ (Maps(p, t, g) \/ UNCHANGED <<storeVars, mapVars>>)
      BY <1>3, LookUpEffect
    <2>2. QED BY <1>1, <2>1, OpenAfterLookUp
  <1>4. ASSUME NEW c \in Children,
               LoopFails(c) \/ CandidateFinal(c) \/ CollectNext(c) \/ FinishNext(c)
        PROVE  MappedIsOpen'
    <2>1. ASSUME NEW d \in Children, JoinHandle(c, d) PROVE MappedIsOpen'
      BY <2>1, OpenAfterReport DEF JoinHandle
    <2>2. ASSUME ClaimOwn(c) PROVE MappedIsOpen'
      BY <1>1, <2>2, OpenAfterClaim DEF ClaimOwn
    <2>3. ASSUME Record(c) \/ ForceRecord(c) PROVE MappedIsOpen'
      BY <2>3, OpenAfterReport DEF Record, ForceRecord
    <2>4. QED
      BY <1>1, <1>4, <2>1, <2>2, <2>3 DEF LoopFails, CandidateFinal, CollectNext, TakeHandle,
         JoinChild, Joined, Resume, BeginFinalizing, Conclude, FinishNext, Finish, Persist
  <1>5. ASSUME RootSweep PROVE MappedIsOpen'
    <2>1. groups' = SweptGroups /\ UNCHANGED mapVars
      BY <1>5 DEF RootSweep, ExpireDueGroups
    <2>2. \A g \in Unclaimed : Swept(g) = groups[g] /\ groups[g].lifecycle # "Expired"
      BY DEF Swept, MappedIsOpen
    <2>3. Unclaimed' = Unclaimed /\ \A g \in Unclaimed : groups'[g] = groups[g]
      BY <2>1, <2>2 DEF SweptGroups
    <2>4. QED BY <2>1, <2>3 DEF MappedIsOpen, Reported, ReportedIn, OwnerGroupsOf
  <1>6. ASSUME NEW gen, RootPick(gen) PROVE MappedIsOpen'
    BY <1>1, <1>6, OpenAfterClaim DEF RootPick
  <1>7. ASSUME InterruptRoot \/ CancelChild \/ CancelSession \/ ResetSession
        PROVE  MappedIsOpen'
    BY <1>1, <1>7 DEF InterruptRoot, CancelChild, CancelSession, ResetSession, Request, StartCancel
  <1>8. ASSUME NEW g, Deadline(g) PROVE FALSE
    BY <1>8 DEF Deadline, DeadlinePasses
  <1>9. ASSUME CancelNext PROVE MappedIsOpen'
    <2>1. ASSUME CancelRecord PROVE MappedIsOpen'
      <3>1. canceller.child \in Children
        BY <2>1 DEF CancelRecord, CancelStep, CancellerSound, Recorded
      <3>2. QED BY <2>1, <3>1, OpenAfterReport DEF CancelRecord
    <2>2. QED
      BY <1>1, <1>9, <2>1, OpenAfterReset DEF CancelNext, PickTarget, Signal, AwaitCancelled,
         Snapshot, CancelJoined, CancelTimeout, Return, CancelSettle, CancelPersist, CancelDone
  <1>10. QED BY <1>2, <1>3, <1>4, <1>5, <1>6, <1>7, <1>8, <1>9 DEF Next

\* What a step writes to the record of a child without a scope: its first entry, or a
\* terminal when no scope will come any more.
LEMMA RecordStep ==
  ASSUME PlaceTypes, Reservations, CancellerSound, CancellerLate, Next, NEW d \in Children,
         scope[d] = "absent"
  PROVE  \/ record'[d] = record[d]
         \/ call[d] = "permitted" /\ ~ Terminal(record'[d])
         \/ Terminal(record'[d]) /\ (call[d] \notin BeforeScope \/ d \in torn)
  <1> DEFINE Kept == record'[d] = record[d]
             Late == Terminal(record'[d]) /\ (call[d] \notin BeforeScope \/ d \in torn)
  <1>1. ASSUME NEW c \in Children, MarkCancelling(c) PROVE Kept
    BY <1>1 DEF MarkCancelling, Marks, PlaceTypes
  <1>2. ASSUME NEW c \in Children, CallNext(c)
        PROVE  Kept \/ (call[d] = "permitted" /\ ~ Terminal(record'[d])) \/ Late
    <2>1. CASE InsertRecord(c)
      BY <2>1 DEF InsertRecord, CallStep, PlaceTypes
    <2>2. CASE RejectPersist(c)
      BY <2>2 DEF RejectPersist, CallStep, PlaceTypes, BeforeScope
    <2>3. QED
      BY <1>2, <2>1, <2>2 DEF CallNext, Admit, AcquirePermit, InsertScope, MarkRunning, JoinGroup,
         Spawn, RegisterTask, RejectSettle, RejectRecord
  <1>3. ASSUME NEW c \in Children, NEW p, NEW t, NEW g, LookUpGroup(c, p, t, g) PROVE Kept
    BY <1>3 DEF LookUpGroup
  <1>4. ASSUME NEW c \in Children, CandidateFinal(c) \/ Resume(c) \/ BeginFinalizing(c)
        PROVE  Kept
    BY <1>4 DEF CandidateFinal, Resume, BeginFinalizing, PlaceTypes
  <1>5. ASSUME NEW c \in Children, NEW e \in Children, JoinHandle(c, e) PROVE Kept
    BY <1>5 DEF JoinHandle, PlaceTypes
  <1>6. ASSUME NEW c \in Children, Persist(c) PROVE Kept \/ Late
    <2>1. fut[c] = "persist" /\ record' = [record EXCEPT ![c] = verdict[c]]
      BY <1>6 DEF Persist, FutStep
    <2>2. call[c] \notin BeforeScope
      BY <2>1 DEF Reservations, Reservation, BeforeScope
    <2>3. QED BY <2>1, <2>2 DEF PlaceTypes
  <1>7. ASSUME NEW c \in Children, LoopFails(c) \/ CollectNext(c) \/ FinishNext(c)
        PROVE  Kept \/ Late
    BY <1>4, <1>5, <1>6, <1>7 DEF LoopFails, CollectNext, TakeHandle, JoinChild, Joined,
       ClaimOwn, Conclude, FinishNext, Finish, Record, ForceRecord
  <1>8. ASSUME \/ InterruptRoot \/ RootSweep
               \/ \E gen \in 0 .. MaxGeneration : RootPick(gen)
               \/ \E g \in GroupIds : Deadline(g)
               \/ CancelChild \/ CancelSession \/ ResetSession
        PROVE  Kept
    BY <1>8 DEF InterruptRoot, RootSweep, RootPick, Deadline, CancelChild, CancelSession,
       ResetSession, Request, StartCancel
  <1>9. ASSUME CancelPersist PROVE Kept \/ Late
    <2>1. /\ canceller.pc = "persist" /\ canceller.child \in Children
          /\ canceller.terminal \in Terminals
          /\ record' = [record EXCEPT ![canceller.child] = canceller.terminal]
      BY <1>9 DEF CancelPersist, CancelStep, CancellerSound, CancellerRecord, Recorded
    <2>2. CASE canceller.child = d
      BY <2>1, <2>2 DEF CancellerLate, PlaceTypes
    <2>3. CASE canceller.child # d
      BY <2>1, <2>3 DEF PlaceTypes
    <2>4. QED BY <2>2, <2>3
  <1>10. ASSUME CancelNext PROVE Kept \/ Late
    BY <1>1, <1>9, <1>10 DEF CancelNext, PickTarget, Signal, AwaitCancelled, Snapshot,
       CancelJoined, CancelTimeout, Return, CancelSettle, CancelRecord, CancelDone,
       ResetCancels, ResetAdvances
  <1>11. QED BY <1>2, <1>3, <1>4, <1>7, <1>8, <1>10 DEF Next

\* A record that is terminal without a scope gets no scope later.
LEMMA InsertedOnceStep ==
  ASSUME PlaceTypes, Reservations, CancellerSound, CancellerLate, Grows, InsertedOnce, Next
  PROVE  InsertedOnce'
  <1> SUFFICES ASSUME NEW c \in Children, c \notin torn', scope'[c] = "absent",
                      Terminal(record'[c])
               PROVE  call'[c] \notin BeforeScope
    BY DEF InsertedOnce
  <1>1. c \notin torn /\ scope[c] = "absent"
    BY DEF Grows
  <1>2. CASE call[c] \notin BeforeScope
    BY <1>2, AbsentStays
  <1>3. CASE call[c] \in BeforeScope
    BY <1>1, <1>3, RecordStep DEF InsertedOnce
  <1>4. QED BY <1>2, <1>3

\* A child that is over, in its scope or without one in the store, stays over.
LEMMA OverStays ==
  ASSUME PlaceTypes, Reservations, CancellerSound, CancellerLate, InsertedOnce, Next,
         NEW c \in Children, c \notin torn, Terminal(StatusOf(c))
  PROVE  Terminal(StatusOf(c))'
  <1>1. CASE scope[c] = "absent"
    <2>1. Terminal(record[c]) /\ call[c] \notin BeforeScope
      BY <1>1 DEF StatusOf, InsertedOnce
    <2>2. scope'[c] = "absent" /\ call[c] # "permitted"
      BY <1>1, <2>1, AbsentStays DEF BeforeScope
    <2>3. QED BY <1>1, <2>1, <2>2, RecordStep DEF StatusOf
  <1>2. CASE scope[c] # "absent"
    <2>1. Terminal(scope[c])
      BY <1>2 DEF StatusOf
    <2>2. call[c] # "pending"
      BY <2>1 DEF Reservations, Reservation
    <2>3. scope'[c] = scope[c]
      BY <2>1, <2>2, TerminalStays
    <2>4. QED BY <1>2, <2>1, <2>3 DEF StatusOf
  <1>3. QED BY <1>1, <1>2

\* Walking a subtree leaves the target at the bottom of the stack.
LEMMA BottomStays ==
  ASSUME CancellerSound, canceller.pc = "walk"
  PROVE  /\ \A f \in Frames : f.scope = Top.scope =>
              /\ SetTop(f) # <<>> /\ SetTop(f)[1].scope = canceller.stack[1].scope
              /\ \A e \in Frames : /\ Append(SetTop(f), e) # <<>>
                                   /\ Append(SetTop(f), e)[1].scope = canceller.stack[1].scope
         /\ LET rest == SubSeq(canceller.stack, 1, Len(canceller.stack) - 1)
            IN  IF rest = <<>> THEN Top.scope = canceller.stack[1].scope
                ELSE rest[1] = canceller.stack[1]
  <1> DEFINE s == canceller.stack  n == Len(s)
  <1>1. s \in Seq(Frames) /\ n \in Nat \ {0} /\ Top = s[n]
    BY TopFrame DEF CancellerSound, CancellerRecord, Top
  <1>2. ASSUME NEW f \in Frames, f.scope = Top.scope
        PROVE  /\ SetTop(f) \in Seq(Frames) /\ Len(SetTop(f)) = n
               /\ SetTop(f)[1].scope = s[1].scope
    <2>1. SetTop(f) = [s EXCEPT ![n] = f]
      BY DEF SetTop
    <2>2. SetTop(f) \in Seq(Frames) /\ Len(SetTop(f)) = n
          /\ \A i \in 1 .. n : SetTop(f)[i] = IF i = n THEN f ELSE s[i]
      BY <1>1, <2>1, ExceptSeq
    <2>3. 1 \in 1 .. n
      BY <1>1
    <2>4. SetTop(f)[1] = IF 1 = n THEN f ELSE s[1]
      BY <2>2, <2>3
    <2>5. QED BY <1>1, <1>2, <2>2, <2>4
  <1>3. ASSUME NEW f \in Frames, f.scope = Top.scope, NEW e \in Frames
        PROVE  /\ Append(SetTop(f), e) # <<>>
               /\ Append(SetTop(f), e)[1] = SetTop(f)[1]
    <2>1. SetTop(f) \in Seq(Frames) /\ Len(SetTop(f)) = n /\ 1 \in 1 .. n
      BY <1>1, <1>2, <1>3
    <2>2. QED BY <2>1, AppendProperties
  <1>4. LET rest == SubSeq(s, 1, n - 1)
        IN  IF rest = <<>> THEN Top = s[1] ELSE rest[1] = s[1]
    <2> DEFINE rest == SubSeq(s, 1, n - 1)
    <2>1. rest \in Seq(Frames) /\ Len(rest) = n - 1 /\ \A i \in 1 .. (n - 1) : rest[i] = s[i]
      BY <1>1, SubSeqProperties
    <2>2. CASE n = 1
      BY <1>1, <2>1, <2>2, EmptySeq
    <2>3. CASE n # 1
      <3>1. n - 1 \in Nat \ {0}
        BY <1>1, <2>3
      <3>2. 1 \in 1 .. (n - 1)
        <4>1. \A m \in Nat \ {0} : 1 \in 1 .. m
          OBVIOUS
        <4>2. QED BY <3>1, <4>1, Zenon
      <3>3. rest # <<>>
        <4> HIDE DEF rest, n
        <4>1. QED BY <2>1, <3>1
      <3>4. QED BY <2>1, <3>2, <3>3
    <2>4. QED BY <2>2, <2>3
  <1>5. QED BY <1>1, <1>2, <1>3, <1>4

\* The request's own steps lose no target: it is waiting, being worked off, or over.
LEMMA RequestStep ==
  ASSUME PlaceTypes, MapsSound, Delivery!DeliveryInv, Reservations, CancellerSound, CancellerLate,
         Grows, InsertedOnce, MappedIsOpen, RequestTracked, Next
  PROVE  RequestTracked'
  <1> DEFINE Over(c) == Terminal(StatusOf(c))
             Tracked(c) == Over(c) \/ c \in canceller.todo \/ Target(c)
  <1>1. \A c \in Children \ torn' : Over(c) => Over(c)'
    BY OverStays DEF Grows
  <1>2. \A c \in canceller.targets \ torn' : c \in Children /\ c \notin torn /\ Tracked(c)
    BY DEF RequestTracked, Grows, CancellerSound, CancellerRecord
  <1> HIDE DEF Over
  <1>3. ASSUME canceller'.targets = canceller.targets,
               canceller'.pc \in {"idle", "cancelGeneration", "advance"} => canceller'.todo = {},
               \A c \in Children \ torn' :
                 (c \in canceller.todo \/ Target(c)) /\ ~ Over(c)' =>
                   c \in canceller'.todo \/ Target(c)'
        PROVE  RequestTracked'
    BY <1>1, <1>2, <1>3 DEF RequestTracked, Over
  <1>4. ASSUME UNCHANGED canceller PROVE RequestTracked'
    BY <1>3, <1>4 DEF Target, RequestTracked
  <1>5. ASSUME CancelChild \/ CancelSession \/ ResetSession PROVE RequestTracked'
    <2>1. ASSUME NEW targets, NEW reset, StartCancel(targets, reset)
          PROVE  canceller'.pc = "pick" /\ canceller'.todo = canceller'.targets
      BY <2>1 DEF StartCancel, CancellerSound, CancellerRecord
    <2>2. \E targets, reset : StartCancel(targets, reset)
      BY <1>5 DEF CancelChild, CancelSession, ResetSession, Request
    <2>3. QED BY <2>1, <2>2 DEF RequestTracked
  <1>6. ASSUME NEW c \in Children, PickTarget(c) PROVE RequestTracked'
    <2>1. /\ canceller.pc = "pick" /\ canceller'.targets = canceller.targets
          /\ canceller'.todo = canceller.todo \ {c} /\ canceller'.child = c
          /\ canceller'.pc = IF Marks(c) THEN "walk" ELSE "finish"
          /\ canceller'.stack = IF Marks(c) THEN <<Frame(c)>> ELSE <<>>
      BY <1>6 DEF PickTarget, CancelStep, CancellerSound, CancellerRecord
    <2>2. <<Frame(c)>> # <<>> /\ <<Frame(c)>>[1].scope = c
      BY DEF Frame
    <2>3. Target(c)' /\ \A d \in Children : ~ Target(d)
      BY <2>1, <2>2 DEF Target
    <2>4. QED BY <1>3, <2>1, <2>3
  <1>7. ASSUME canceller.pc = "walk", canceller'.targets = canceller.targets,
               canceller'.todo = canceller.todo, canceller'.pc \in {"walk", "join", "finish"},
               canceller'.stack # <<>>,
               canceller'.stack[1].scope = canceller.stack[1].scope
        PROVE  RequestTracked'
    BY <1>3, <1>7 DEF Target
  <1>8. ASSUME Snapshot PROVE RequestTracked'
    <2> DEFINE live == LiveChildren(Top.scope)
               frame == [Top EXCEPT !.snapped = TRUE, !.signal = live, !.wait = live]
    <2>1. /\ canceller.pc = "walk"
          /\ canceller' = [canceller EXCEPT !.stack = SetTop(frame)]
      BY <1>8 DEF Snapshot, CancelStep
    <2>2. live \subseteq Recorded
      BY DEF LiveChildren, ChildrenOf, Recorded
    <2> HIDE DEF live
    <2>3. frame \in Frames /\ frame.scope = Top.scope
      BY <2>1, <2>2, TopFrame DEF Frames
    <2> HIDE DEF frame
    <2>4. SetTop(frame) # <<>> /\ SetTop(frame)[1].scope = canceller.stack[1].scope
      BY <2>1, <2>3, BottomStays
    <2>5. QED BY <1>7, <2>1, <2>4 DEF CancellerSound, CancellerRecord
  <1>9. ASSUME NEW c \in Children, Signal(c) PROVE RequestTracked'
    <2> DEFINE frame == [Top EXCEPT !.signal = @ \ {c}]
               next == IF Marks(c) THEN Append(SetTop(frame), Frame(c)) ELSE SetTop(frame)
    <2>1. /\ canceller.pc = "walk" /\ c \in Top.signal
          /\ canceller' = [canceller EXCEPT !.stack = next]
      BY <1>9 DEF Signal, CancelStep
    <2>2. frame \in Frames /\ frame.scope = Top.scope
      BY <2>1, TopFrame DEF Frames
    <2>3. Frame(c) \in Frames
      BY <2>1, TopFrame DEF Frame, Frames
    <2> HIDE DEF frame
    <2>4. next # <<>> /\ next[1].scope = canceller.stack[1].scope
      BY <2>1, <2>2, <2>3, BottomStays
    <2> HIDE DEF next
    <2>5. QED BY <1>7, <2>1, <2>4 DEF CancellerSound, CancellerRecord
  <1>10. ASSUME NEW c \in Children, AwaitCancelled(c) PROVE RequestTracked'
    <2> DEFINE frame == [Top EXCEPT !.wait = @ \ {c}]
    <2>1. /\ canceller.pc = "walk"
          /\ canceller' = [canceller EXCEPT !.stack = SetTop(frame), !.child = c,
                             !.terminal = "cancelled",
                             !.pc = IF Terminal(scope[c]) THEN "walk"
                                    ELSE IF handle[c] = "held" THEN "join" ELSE "finish"]
      BY <1>10 DEF AwaitCancelled, CancelStep
    <2>2. frame \in Frames /\ frame.scope = Top.scope
      BY <2>1, TopFrame DEF Frames
    <2> HIDE DEF frame
    <2>3. SetTop(frame) # <<>> /\ SetTop(frame)[1].scope = canceller.stack[1].scope
      BY <2>1, <2>2, BottomStays
    <2>4. QED BY <1>7, <2>1, <2>3 DEF CancellerSound, CancellerRecord
  <1>11. ASSUME CancelJoined \/ CancelTimeout PROVE RequestTracked'
    <2>1. /\ canceller.pc = "join" /\ canceller'.targets = canceller.targets
          /\ canceller'.pc = "finish" /\ canceller'.todo = canceller.todo
          /\ canceller'.stack = canceller.stack
      BY <1>11 DEF CancelJoined, CancelTimeout, CancelStep, CancellerSound, CancellerRecord
    <2>2. QED BY <1>3, <2>1 DEF Target
  <1>12. ASSUME Return PROVE RequestTracked'
    <2> DEFINE rest == SubSeq(canceller.stack, 1, Len(canceller.stack) - 1)
    <2>1. /\ canceller.pc = "walk"
          /\ canceller' = [canceller EXCEPT !.stack = rest,
                             !.pc = IF rest = <<>> THEN "finish" ELSE "walk",
                             !.child = Top.scope, !.terminal = "cancelled"]
      BY <1>12 DEF Return, CancelStep
    <2>2. IF rest = <<>> THEN Top.scope = canceller.stack[1].scope
          ELSE rest[1] = canceller.stack[1]
      BY <2>1, BottomStays
    <2> HIDE DEF rest
    <2>3. /\ canceller'.stack = rest /\ canceller'.child = Top.scope
          /\ canceller'.pc = IF rest = <<>> THEN "finish" ELSE "walk"
          /\ canceller'.targets = canceller.targets /\ canceller'.todo = canceller.todo
      BY <2>1 DEF CancellerSound, CancellerRecord
    <2>4. QED BY <1>3, <2>1, <2>2, <2>3 DEF Target
  <1>13. ASSUME CancelSettle PROVE RequestTracked'
    <2> DEFINE e == canceller.child
    <2>1. /\ canceller.pc = "finish" /\ canceller'.targets = canceller.targets
          /\ canceller'.pc = AfterSettle(e, "persist", "record")
          /\ canceller'.todo = canceller.todo
          /\ canceller'.stack = canceller.stack /\ canceller'.child = e
      BY <1>13 DEF CancelSettle, CancelStep, CancellerSound, CancellerRecord
    <2>2. Terminal(scope[e]) => Over(e)
      BY DEF Over, StatusOf
    <2>3. \A c \in Children \ torn' :
            (c \in canceller.todo \/ Target(c)) /\ ~ Over(c)' =>
              c \in canceller'.todo \/ Target(c)'
      BY <1>1, <2>1, <2>2 DEF Target, AfterSettle
    <2>4. QED BY <1>3, <2>1, <2>3 DEF AfterSettle
  <1>14. ASSUME CancelPersist, NEW e, e = canceller.child PROVE RequestTracked'
    <2>1. /\ canceller.pc = "persist" /\ canceller'.targets = canceller.targets
          /\ canceller'.pc = "record" /\ canceller'.todo = canceller.todo
          /\ canceller'.stack = canceller.stack
          /\ canceller.terminal \in Terminals /\ e \in Children
          /\ record' = [record EXCEPT ![e] = canceller.terminal]
          /\ UNCHANGED <<scope, torn>>
      BY <1>14 DEF CancelPersist, CancelStep, CancellerSound, CancellerRecord, Recorded
    <2>2. e \notin torn => Over(e)'
      <3>1. record'[e] = canceller.terminal /\ scope'[e] = scope[e]
        BY <2>1 DEF PlaceTypes
      <3>2. e \notin torn => scope[e] = canceller.terminal \/ scope[e] = "absent"
        BY <1>14, <2>1 DEF CancellerLate
      <3>3. QED BY <2>1, <3>1, <3>2 DEF Over, StatusOf
    <2>3. \A c \in Children \ torn' : Target(c) /\ ~ Over(c)' => Target(c)'
      <3>1. \A c \in Children : Target(c) => c = e \/ Target(c)'
        BY <1>14, <2>1 DEF Target
      <3>2. QED BY <2>1, <2>2, <3>1
    <2>4. QED BY <1>3, <2>1, <2>3
  <1>15. ASSUME CancelRecord PROVE RequestTracked'
    <2>1. canceller.pc = "record" /\ canceller.child \in Children
      BY <1>15 DEF CancelRecord, CancelStep, CancellerSound, Recorded
    <2>2. ~ Refuses(canceller.child)
      BY <2>1, NoneRefused
    <2>3. /\ canceller'.targets = canceller.targets /\ canceller'.todo = canceller.todo
          /\ canceller'.stack = canceller.stack
          /\ canceller'.pc = IF canceller.stack = <<>> THEN "pick" ELSE "walk"
      BY <1>15, <2>2 DEF CancelRecord, CancelStep, CancellerSound, CancellerRecord
    <2>4. QED BY <1>3, <2>1, <2>3 DEF Target
  <1>16. ASSUME CancelDone \/ ResetCancels \/ ResetAdvances PROVE RequestTracked'
    <2>1. /\ canceller.pc \in {"pick", "cancelGeneration", "advance"} /\ canceller.todo = {}
          /\ canceller'.targets = canceller.targets /\ canceller'.todo = canceller.todo
      BY <1>16 DEF CancelDone, ResetCancels, ResetAdvances, CancelStep, CancellerSound,
         CancellerRecord, RequestTracked
    <2>2. QED BY <1>3, <2>1 DEF Target
  <1>17. ASSUME CancelNext PROVE RequestTracked'
    BY <1>6, <1>8, <1>9, <1>10, <1>11, <1>12, <1>13, <1>14, <1>15, <1>16, <1>17 DEF CancelNext
  <1>18. QED BY <1>4, <1>5, <1>17, OthersLeaveCanceller DEF Next

\* What holds of a request as long as no deadline has passed is inductive.
LEMMA CancelStepInv == CoordinatorInv /\ CancelInv /\ Next => CancelInv'
  <1> SUFFICES ASSUME CoordinatorInv, CancelInv, Next PROVE CancelInv'
    OBVIOUS
  <1>1. /\ TypeOK /\ Delivery!DeliveryInv /\ CancellerSound /\ Reservations /\ MapsSound
        /\ CancellerLate
    BY DEF CoordinatorInv, Reservations, LateFinishers, CancellerLate
  <1>2. PlaceTypes /\ MapTypes
    BY <1>1, TypesSplit
  <1>3. Grows
    BY <1>1, <1>2, StepGrows DEF Reservations
  <1>4. InsertedOnce'
    BY <1>1, <1>2, <1>3, InsertedOnceStep DEF CancelInv
  <1>5. ASSUME overdue' = {} PROVE MappedIsOpen' /\ RequestTracked'
    <2>1. overdue = {}
      BY <1>5, OverdueGrows
    <2>2. InsertedOnce /\ MappedIsOpen /\ RequestTracked
      BY <2>1 DEF CancelInv
    <2>3. MappedIsOpen'
      BY <1>1, <1>2, <1>5, <2>1, <2>2, OpenStep
    <2>4. RequestTracked'
      BY <1>1, <1>2, <1>3, <2>2, RequestStep
    <2>5. QED BY <2>3, <2>4
  <1>6. QED BY <1>4, <1>5 DEF CancelInv

\* When a cancel request is over, every child it was for is terminal, however its
\* steps interleave with the children's own, as long as no group's deadline has passed.
THEOREM CancelTheorem == Spec => []CancelSettlesTargets
  <1>1. Init => CancelInv
    BY DEF Init, StoreInit, CancelInv, InsertedOnce, MappedIsOpen, RequestTracked
  <1>2. CancelInv /\ UNCHANGED vars => CancelInv'
    BY DEF vars, CancelInv, InsertedOnce, MappedIsOpen, RequestTracked, Target, StatusOf,
       Reported, ReportedIn, OwnerGroupsOf
  <1>3. CoordinatorInv /\ CancelInv /\ [Next]_vars => CancelInv'
    BY <1>2, CancelStepInv
  <1>4. CancelInv => CancelSettlesTargets
    BY DEF CancelInv, RequestTracked, CancelSettlesTargets, Target
  <1>5. QED BY CoordinatorInvTheorem, <1>1, <1>3, <1>4, PTL DEF Spec

=============================================================================
