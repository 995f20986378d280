------------------------ MODULE RunScheduler_proofs ------------------------
(***************************************************************************)
(* One turn at a time, and no leaked slot, for any number of messages,     *)
(* results, groups and runs.  The argument: at every moment the slot has   *)
(* at most one holder, which is a turn, a RunFinished event in the         *)
(* scheduler's channel, or the scheduler itself, and each step of run_loop *)
(* passes that one hold on or gives it back.                               *)
(***************************************************************************)
EXTENDS RunScheduler, SequenceTheorems, FiniteSetTheorems, TLAPS

Entry == [msg : Messages, run : RunIds]
Hint == [kind : {"result", "group"}]
Finished == [kind : {"finished"}, run : RunIds, ok : BOOLEAN]
Places == {"recv", "gate", "requeue", "block", "allow", "release", "check", "take",
           "claim", "groups", "takeGroup", "claimGroup", "message", "peek",
           "takeMessage", "claimHead"}
SchedulerState ==
  [pc : Places, run : RunIds \cup {None}, ok : BOOLEAN, next : RunIds \cup {None}]

SlotTypes ==
  /\ slot \in RunIds \cup {None}
  /\ runs = [r \in RunIds |-> runs[r]]
  /\ \A r \in RunIds : /\ runs[r] = [x \in {"phase", "items"} |-> runs[r][x]]
                       /\ runs[r].phase \in Phases
  /\ queue \in Seq(Entry)
  /\ msgClaim # None => msgClaim.entry \in Entry
  /\ events \in Seq(Hint \cup Finished)
  /\ pings = [k \in {"result", "group"} |-> pings[k]]
  /\ sched \in SchedulerState

ClaimPlaces == {"claim", "claimGroup", "claimHead"}
SchedulerHolds == sched.run # None \/ sched.pc \in ClaimPlaces
NoneFinished == \A i \in DOMAIN events : events[i].kind # "finished"

FinishedOwns == \A i \in DOMAIN events : events[i].kind = "finished" => events[i].run = slot

OneFinished ==
  \A i, j \in DOMAIN events :
    events[i].kind = "finished" /\ events[j].kind = "finished" => i = j

SchedulerOwns ==
  /\ sched.run # None => sched.run = slot /\ sched.pc \notin ClaimPlaces
  /\ sched.pc \in ClaimPlaces => sched.next = slot /\ slot # None
  /\ sched.pc \in {"requeue", "block", "allow", "release"} => sched.run # None
  /\ sched.pc \in {"recv", "gate", "groups", "takeGroup", "message", "peek", "takeMessage"} =>
       sched.run = None
  /\ sched.pc = "takeMessage" => sched.next # None

OneHolder ==
  /\ SchedulerHolds => NoneFinished
  /\ SchedulerHolds \/ ~ NoneFinished => \A r \in RunIds : ~ Active(r)

Accounted == slot # None => Active(slot) \/ ~ NoneFinished \/ SchedulerHolds

\* The inductive invariant
SlotInv ==
  /\ SlotTypes /\ RunOwnsSlot /\ FinishedOwns /\ OneFinished /\ SchedulerOwns
  /\ OneHolder /\ Accounted

-----------------------------------------------------------------------------

\* Init is such a state: the slot is free and nothing is in the channel.
LEMMA InitSlot == Init => SlotInv
  BY NoneAssumption
  DEF Init, SlotInv, SlotTypes, RunOwnsSlot, FinishedOwns, OneFinished, SchedulerOwns,
      OneHolder, Accounted, SchedulerHolds, NoneFinished, ClaimPlaces, Active, Unused,
      Phases, SchedulerState, Places

\* A run id the daemon mints belongs to nobody.
LEMMA MintIsFresh ==
  ASSUME Fresh # {}
  PROVE  Mint \in RunIds /\ Mint # slot /\ runs[Mint] = Unused
  <1>1. Mint \in Fresh
    BY DEF Mint
  <1> QED
    BY <1>1 DEF Fresh

\* A step that touches neither the slot, the turns, the channel nor the
\* scheduler keeps the invariant, whatever it does to the queue's contents.
LEMMA Elsewhere ==
  ASSUME SlotInv, UNCHANGED <<slot, runs, events, sched>>,
         queue' \in Seq(Entry), msgClaim' # None => msgClaim'.entry \in Entry,
         pings' = [k \in {"result", "group"} |-> pings'[k]]
  PROVE  SlotInv'
  BY DEF SlotInv, SlotTypes, RunOwnsSlot, FinishedOwns, OneFinished, SchedulerOwns,
         OneHolder, Accounted, SchedulerHolds, NoneFinished, Active

\* A scheduler step that only moves on, holding what it held.
LEMMA MovesOn ==
  ASSUME SlotInv, UNCHANGED <<slot, runs, events, queue, pings>>,
         msgClaim' = msgClaim, sched' \in SchedulerState,
         sched'.run = sched.run, SchedulerOwns', SchedulerHolds' <=> SchedulerHolds
  PROVE  SlotInv'
  BY DEF SlotInv, SlotTypes, RunOwnsSlot, FinishedOwns, OneFinished,
         OneHolder, Accounted, NoneFinished, Active

-----------------------------------------------------------------------------
(* Clients and arrivals                                                    *)

\* POST /run claims a free slot for a new turn.
LEMMA PostKeepsSlot == ASSUME SlotInv, NEW m \in Messages, PostStarts(m) PROVE SlotInv'
  <1> USE DEF PostStarts, RegistryClaim, SpawnTurn, queueVars, chanVars
  <1>1. Mint \in RunIds /\ runs[Mint] = Unused
    BY MintIsFresh
  <1>2. SlotTypes'
    BY <1>1 DEF SlotInv, SlotTypes, Phases
  <1>3. NoneFinished /\ ~ SchedulerHolds /\ sched.pc \notin ClaimPlaces
    <2>1. slot = None
      OBVIOUS
    <2>2. ASSUME NEW i \in DOMAIN events, events[i].kind = "finished" PROVE FALSE
      <3>1. events[i] \in Finished
        <4>1. events[i] \in Hint \cup Finished
          BY ElementOfSeq DEF SlotInv, SlotTypes
        <4> QED BY <2>2, <4>1 DEF Hint
      <3>2. events[i].run = None
        BY <2>1, <2>2 DEF SlotInv, FinishedOwns
      <3> QED BY <3>1, <3>2, NoneAssumption DEF Finished
    <2>3. sched.run = None /\ sched.pc \notin ClaimPlaces
      <3>1. sched.run \in RunIds \cup {None} /\ SchedulerOwns
        BY DEF SlotInv, SlotTypes, SchedulerState
      <3> QED BY <2>1, <3>1, NoneAssumption DEF SchedulerOwns
    <2> QED BY <2>2, <2>3 DEF NoneFinished, SchedulerHolds
  <1>4. NoneFinished' /\ ~ SchedulerHolds'
    BY <1>3 DEF NoneFinished, SchedulerHolds
  <1>5. \A r \in RunIds : Active(r)' <=> r = Mint
    BY <1>1, NoneAssumption DEF SlotInv, SlotTypes, RunOwnsSlot, Active
  <1> QED
    BY <1>1, <1>2, <1>3, <1>4, <1>5
    DEF SlotInv, RunOwnsSlot, FinishedOwns, OneFinished, SchedulerOwns, OneHolder,
        Accounted, NoneFinished, SchedulerHolds, ClaimPlaces

\* What the other requests do to the queue leaves it a queue.
LEMMA ClientsKeepSlot == ASSUME SlotInv, Clients PROVE SlotInv'
  <1> USE DEF slotVars, queueVars, chanVars
  <1>0. queue \in Seq(Entry) /\ pings = [k \in {"result", "group"} |-> pings[k]]
    BY DEF SlotInv, SlotTypes
  <1>1. ASSUME NEW m \in Messages, PostEnqueue(m) PROVE SlotInv'
    <2>1. Mint \in RunIds
      BY <1>1, MintIsFresh DEF PostEnqueue
    <2>2. [msg |-> m, run |-> Mint] \in Entry
      BY <2>1 DEF Entry
    <2>3. queue' = queue \/ queue' = Append(queue, [msg |-> m, run |-> Mint])
      BY <1>1 DEF PostEnqueue
    <2>4. queue' \in Seq(Entry)
      BY <1>0, <2>2, <2>3, AppendProperties
    <2> QED
      BY <1>0, <1>1, <2>4, Elsewhere DEF PostEnqueue, SlotInv, SlotTypes
  <1>2. ASSUME NEW m \in Messages, RetractOne(m) PROVE SlotInv'
    <2>1. PICK i \in DOMAIN queue : Retract({m}, FirstN(queue, i - 1) \o DropN(queue, i))
      BY <1>2 DEF RetractOne
    <2>2. i \in 1 .. Len(queue)
      BY <1>0
    <2>3. FirstN(queue, i - 1) \in Seq(Entry)
      BY <1>0, <2>2, SubSeqProperties DEF FirstN
    <2>4. DropN(queue, i) \in Seq(Entry)
      BY <1>0, <2>2, SubSeqProperties DEF DropN
    <2>5. queue' \in Seq(Entry)
      BY <2>1, <2>3, <2>4, ConcatProperties DEF Retract
    <2> QED
      BY <1>0, <2>1, <2>5, Elsewhere DEF Retract, SlotInv, SlotTypes
  <1>3. CASE RetractAll
    <2>1. queue' \in Seq(Entry)
      BY <1>3 DEF RetractAll, Retract
    <2> QED
      BY <1>0, <1>3, <2>1, Elsewhere DEF RetractAll, Retract, SlotInv, SlotTypes
  <1>4. ASSUME NEW m \in Messages, NEW wait \in BOOLEAN, PostBusy(m, wait) PROVE SlotInv'
    BY <1>0, <1>4, Elsewhere DEF PostBusy, SlotInv, SlotTypes
  <1>5. ASSUME NEW g \in Groups, ClientClaims(g) PROVE SlotInv'
    BY <1>0, <1>5, Elsewhere DEF ClientClaims, SlotInv, SlotTypes
  <1> QED
    BY <1>1, <1>2, <1>3, <1>4, <1>5, PostKeepsSlot DEF Clients

\* A result or a ready group changes its store and counts a hint.
LEMMA ArrivalsKeepSlot == ASSUME SlotInv, Arrivals PROVE SlotInv'
  <1> USE DEF slotVars, queueVars
  <1>0. pings = [k \in {"result", "group"} |-> pings[k]]
    BY DEF SlotInv, SlotTypes
  <1>1. ASSUME NEW t \in Tasks, Report(t) PROVE SlotInv'
    BY <1>0, <1>1, Elsewhere DEF Report, SlotInv, SlotTypes
  <1>2. ASSUME NEW g \in Groups, GroupReady(g) PROVE SlotInv'
    BY <1>0, <1>2, Elsewhere DEF GroupReady, SlotInv, SlotTypes
  <1> QED
    BY <1>1, <1>2 DEF Arrivals

\* A hint at the end of the channel is not a finished turn.
LEMMA HintsKeepSlot == ASSUME SlotInv, Pinger PROVE SlotInv'
  <1> PICK kind \in DOMAIN pings : Ping(kind)
    BY DEF Pinger
  <1> USE DEF Ping, slotVars, queueVars
  <1>1. kind \in {"result", "group"} /\ events \in Seq(Hint \cup Finished)
    BY DEF SlotInv, SlotTypes
  <1>2. events' = Append(events, [kind |-> kind]) /\ [kind |-> kind] \in Hint
    BY <1>1 DEF Hint
  <1>3. /\ events' \in Seq(Hint \cup Finished)
        /\ DOMAIN events' = 1 .. Len(events) + 1 /\ DOMAIN events = 1 .. Len(events)
        /\ \A i \in DOMAIN events : events'[i] = events[i]
        /\ events'[Len(events) + 1].kind # "finished"
    BY <1>1, <1>2
  <1>4. \A i \in DOMAIN events' : events'[i].kind = "finished" =>
           i \in DOMAIN events /\ events[i].kind = "finished" /\ events'[i] = events[i]
    BY <1>3
  <1>5. NoneFinished' <=> NoneFinished
    BY <1>3, <1>4 DEF NoneFinished
  <1>6. FinishedOwns' /\ OneFinished'
    BY <1>4 DEF SlotInv, FinishedOwns, OneFinished
  <1>7. pings' = [k \in {"result", "group"} |-> pings'[k]]
    BY DEF SlotInv, SlotTypes
  <1> QED
    BY <1>3, <1>5, <1>6, <1>7
    DEF SlotInv, SlotTypes, RunOwnsSlot, SchedulerOwns, OneHolder, Accounted,
        SchedulerHolds, Active

-----------------------------------------------------------------------------
(* The turn                                                                *)

\* An active turn is alone: nothing is finished and the scheduler holds nothing.
LEMMA TurnIsAlone ==
  ASSUME SlotInv, NEW r \in RunIds, Active(r)
  PROVE  slot = r /\ NoneFinished /\ ~ SchedulerHolds
  BY DEF SlotInv, RunOwnsSlot, OneHolder

\* The start save and the acknowledgement move the turn on; it still owns the slot.
LEMMA TurnGoesOn ==
  ASSUME SlotInv, NEW r \in RunIds, Active(r), NEW p \in Phases \ {"unused", "ended"},
         SetPhase(r, p), UNCHANGED <<slot, events, sched, queue, pings>>,
         msgClaim' # None => msgClaim'.entry \in Entry
  PROVE  SlotInv'
  <1> USE DEF SetPhase
  <1>1. slot = r /\ NoneFinished /\ ~ SchedulerHolds
    BY TurnIsAlone
  <1>2. SlotTypes'
    BY DEF SlotInv, SlotTypes
  <1>3. \A x \in RunIds : Active(x)' <=> x = r
    BY <1>1 DEF SlotInv, SlotTypes, RunOwnsSlot, Active
  <1> QED
    BY <1>1, <1>2, <1>3
    DEF SlotInv, RunOwnsSlot, FinishedOwns, OneFinished, SchedulerOwns, OneHolder,
        Accounted, NoneFinished, SchedulerHolds

\* When it ends, the hold goes with the RunFinished event.
LEMMA TurnEnds ==
  ASSUME SlotInv, NEW r \in RunIds, Active(r), NEW ok \in BOOLEAN,
         EndTurn(r, ok), UNCHANGED <<slot, sched, pings>>,
         queue' \in Seq(Entry), msgClaim' # None => msgClaim'.entry \in Entry
  PROVE  SlotInv'
  <1> DEFINE e == [kind |-> "finished", run |-> r, ok |-> ok]
  <1> USE DEF EndTurn, SetPhase
  <1>1. slot = r /\ NoneFinished /\ ~ SchedulerHolds
    BY TurnIsAlone
  <1>2. e \in Finished /\ e.kind = "finished" /\ e.run = r
    BY DEF Finished
  <1>3. events \in Seq(Hint \cup Finished) /\ events' = Append(events, e)
    BY DEF SlotInv, SlotTypes
  <1> HIDE DEF e
  <1>4. /\ events' \in Seq(Hint \cup Finished)
        /\ DOMAIN events' = 1 .. Len(events) + 1 /\ DOMAIN events = 1 .. Len(events)
        /\ \A i \in DOMAIN events : events'[i] = events[i]
        /\ Len(events) \in Nat /\ events'[Len(events) + 1] = e
    BY <1>2, <1>3
  <1>5. \A i \in DOMAIN events' : events'[i].kind = "finished" => i = Len(events) + 1
    BY <1>1, <1>4 DEF NoneFinished
  <1>6. FinishedOwns' /\ OneFinished' /\ ~ NoneFinished'
    <2>1. Len(events) + 1 \in DOMAIN events'
      BY <1>4
    <2>2. /\ events'[Len(events) + 1].kind = "finished"
          /\ events'[Len(events) + 1].run = slot'
      BY <1>1, <1>2, <1>4
    <2>3. FinishedOwns'
      BY <1>5, <2>2 DEF FinishedOwns
    <2>4. OneFinished'
      BY <1>5 DEF OneFinished
    <2> QED
      BY <2>1, <2>2, <2>3, <2>4 DEF NoneFinished
  <1>7. SlotTypes'
    BY <1>4 DEF SlotInv, SlotTypes, Phases
  <1>8. \A x \in RunIds : ~ Active(x)'
    BY <1>1 DEF SlotInv, SlotTypes, RunOwnsSlot, Active
  <1> QED
    BY <1>1, <1>6, <1>7, <1>8
    DEF SlotInv, RunOwnsSlot, SchedulerOwns, OneHolder, Accounted, SchedulerHolds

\* Every step of run_session_turn
LEMMA TurnKeepsSlot == ASSUME SlotInv, NEW r \in RunIds, Turn(r) PROVE SlotInv'
  <1> USE DEF queueVars, chanVars
  <1>0. queue \in Seq(Entry) /\ (msgClaim # None => msgClaim.entry \in Entry)
    BY DEF SlotInv, SlotTypes
  <1>1. ASSUME NEW ok \in BOOLEAN, StartSave(r, ok) PROVE SlotInv'
    <2>1. Active(r)
      BY <1>1 DEF StartSave, Active
    <2>2. (IF ok THEN "saved" ELSE "unstarted") \in Phases \ {"unused", "ended"}
      BY DEF Phases
    <2> QED
      BY <1>0, <1>1, <2>1, <2>2, TurnGoesOn DEF StartSave
  <1>2. CASE AckClaims(r)
    <2>1. Active(r)
      BY <1>2 DEF AckClaims, Active
    <2>2. "running" \in Phases \ {"unused", "ended"}
      BY DEF Phases
    <2>3. msgClaim' # None => msgClaim'.entry \in Entry
      BY <1>0, <1>2 DEF AckClaims, AckMessage
    <2> QED
      BY <1>2, <2>1, <2>2, <2>3, TurnGoesOn DEF AckClaims
  <1>3. CASE GiveUpStart(r)
    <2>1. Active(r)
      BY <1>3 DEF GiveUpStart, Active
    <2>2. queue' \in Seq(Entry) /\ (msgClaim' # None => msgClaim'.entry \in Entry)
      <3>1. CASE msgClaim # None /\ msgClaim.run = r
        BY <1>0, <1>3, <3>1, ConcatProperties DEF GiveUpStart, RequeueMessage
      <3>2. CASE ~ (msgClaim # None /\ msgClaim.run = r)
        BY <1>0, <1>3, <3>2 DEF GiveUpStart, RequeueMessage
      <3> QED
        BY <3>1, <3>2
    <2> QED
      BY <1>3, <2>1, <2>2, TurnEnds DEF GiveUpStart
  <1>4. CASE Dies(r)
    <2>1. Active(r)
      BY <1>4 DEF Dies, Active
    <2> QED
      BY <1>0, <1>4, <2>1, TurnEnds DEF Dies
  <1>5. ASSUME NEW ok \in BOOLEAN, FinalSave(r, ok) PROVE SlotInv'
    <2>1. Active(r)
      BY <1>5 DEF FinalSave, Active
    <2> QED
      BY <1>0, <1>5, <2>1, TurnEnds DEF FinalSave
  <1> QED
    BY <1>1, <1>2, <1>3, <1>4, <1>5 DEF Turn

-----------------------------------------------------------------------------
(* The scheduler                                                           *)

\* Taking an event off the channel: a finished turn's hold becomes the
\* scheduler's.
LEMMA RecvKeepsSlot == ASSUME SlotInv, Recv PROVE SlotInv'
  <1> DEFINE e == Head(events)
  <1> USE DEF Recv, SchedKeeps, slotVars, queueVars
  <1>1. /\ events \in Seq(Hint \cup Finished) /\ events # <<>> /\ sched.pc = "recv"
        /\ sched.run = None
    BY DEF SlotInv, SlotTypes, SchedulerOwns
  <1>2. /\ events' \in Seq(Hint \cup Finished) /\ Len(events) \in Nat
        /\ DOMAIN events = 1 .. Len(events) /\ DOMAIN events' = 1 .. Len(events) - 1
        /\ \A i \in DOMAIN events' : i + 1 \in DOMAIN events /\ events'[i] = events[i + 1]
        /\ 1 \in DOMAIN events /\ e = events[1] /\ e \in Hint \cup Finished
    BY <1>1
  <1>3. FinishedOwns' /\ OneFinished'
    <2>1. FinishedOwns'
      BY <1>2 DEF SlotInv, FinishedOwns
    <2>2. OneFinished'
      BY <1>2 DEF SlotInv, OneFinished
    <2> QED
      BY <2>1, <2>2
  <1>4. UNCHANGED <<slot, runs, queue, pings, msgClaim>>
    OBVIOUS
  <1>5. CASE e.kind = "finished"
    <2>1. e \in Finished
      BY <1>2, <1>5 DEF Hint
    <2>2. sched' = [pc |-> "requeue", run |-> e.run, ok |-> e.ok, next |-> None]
      BY <1>5
    <2>3. e.run \in RunIds /\ e.ok \in BOOLEAN /\ e.run = slot
      BY <1>2, <1>5, <2>1 DEF SlotInv, FinishedOwns, Finished
    <2>4. sched' \in SchedulerState
      BY <2>2, <2>3 DEF SchedulerState, Places
    <2>5. sched'.pc = "requeue" /\ sched'.run = slot' /\ sched'.run # None
      BY <2>2, <2>3, NoneAssumption
    <2>6. SchedulerOwns' /\ SchedulerHolds'
      BY <2>5 DEF SchedulerOwns, SchedulerHolds, ClaimPlaces
    <2>7. NoneFinished'
      BY <1>2, <1>5 DEF SlotInv, OneFinished, NoneFinished
    <2>8. \A r \in RunIds : ~ Active(r)'
      BY <1>2, <1>5 DEF SlotInv, OneHolder, NoneFinished, Active
    <2> QED
      BY <1>2, <1>3, <2>4, <2>6, <2>7, <2>8
      DEF SlotInv, SlotTypes, RunOwnsSlot, OneHolder, Accounted
  <1>6. CASE e.kind # "finished"
    <2>1. sched' = [pc |-> IF e.kind = "result" THEN "gate" ELSE "groups",
                    run |-> None, ok |-> TRUE, next |-> None]
      BY <1>6
    <2>2. sched' \in SchedulerState /\ sched'.run = None /\ sched'.pc \in {"gate", "groups"}
      BY <2>1 DEF SchedulerState, Places
    <2>3. SchedulerOwns' /\ ~ SchedulerHolds' /\ ~ SchedulerHolds
      BY <1>1, <2>2 DEF SchedulerOwns, SchedulerHolds, ClaimPlaces
    <2>4. NoneFinished' <=> NoneFinished
      <3>1. NoneFinished => NoneFinished'
        BY <1>2 DEF NoneFinished
      <3>2. ASSUME NoneFinished', NEW i \in DOMAIN events PROVE events[i].kind # "finished"
        <4>1. CASE i = 1
          BY <1>2, <1>6, <4>1
        <4>2. CASE i # 1
          <5>1. i - 1 \in DOMAIN events' /\ events'[i - 1] = events[(i - 1) + 1]
            BY <1>2, <4>2
          <5>2. (i - 1) + 1 = i
            BY <1>2
          <5> QED
            BY <3>2, <5>1, <5>2 DEF NoneFinished
        <4> QED
          BY <4>1, <4>2
      <3> QED
        BY <3>1, <3>2 DEF NoneFinished
    <2> QED
      BY <1>2, <1>3, <2>2, <2>3, <2>4
      DEF SlotInv, SlotTypes, RunOwnsSlot, OneHolder, Accounted, Active
  <1> QED
    BY <1>5, <1>6

\* Steps that only look at something and go to the next place
LEMMA LooksKeepSlot ==
  ASSUME SlotInv, \/ ResultGate \/ RequeueUnacked \/ Block \/ Allow \/ CheckPending
                  \/ GroupGate \/ MessageGate
  PROVE  SlotInv'
  <1> USE DEF SchedKeeps, slotVars, queueVars
  <1>0. sched \in SchedulerState
    BY DEF SlotInv, SlotTypes
  <1>1. PICK p \in Places \ ClaimPlaces :
          /\ Goto(p)
          /\ sched.pc \notin ClaimPlaces
          /\ p \in {"block", "allow", "release"} => sched.run # None
          /\ p \in {"recv", "groups", "takeGroup", "message", "peek"} => sched.run = None
          /\ p \notin {"requeue", "gate", "takeMessage"}
    <2> USE DEF Places, ClaimPlaces
    <2>1. CASE ResultGate
      BY <2>1 DEF ResultGate, SlotInv, SchedulerOwns
    <2>2. CASE RequeueUnacked
      BY <2>2 DEF RequeueUnacked, SlotInv, SchedulerOwns
    <2>3. CASE Block \/ Allow
      BY <2>3 DEF Block, Allow, SlotInv, SchedulerOwns
    <2>4. CASE CheckPending
      BY <2>4 DEF CheckPending, SlotInv, SchedulerOwns
    <2>5. CASE GroupGate \/ MessageGate
      BY <2>5 DEF GroupGate, MessageGate, SlotInv, SchedulerOwns
    <2> QED
      BY <2>1, <2>2, <2>3, <2>4, <2>5
  <1>2. UNCHANGED <<slot, runs, events, queue, pings, msgClaim>>
    BY DEF ResultGate, RequeueUnacked, Block, Allow, CheckPending, GroupGate, MessageGate
  <1>3. sched' \in SchedulerState /\ sched'.pc = p /\ sched'.run = sched.run
    BY <1>0, <1>1 DEF Goto, SchedulerState
  <1>4. SchedulerOwns' /\ (SchedulerHolds' <=> SchedulerHolds)
    BY <1>1, <1>2, <1>3 DEF SlotInv, SchedulerOwns, SchedulerHolds, ClaimPlaces
  <1> QED
    BY <1>2, <1>3, <1>4, MovesOn

\* The scheduler comes to hold the slot for the run it is about to start.
LEMMA TakesSlot ==
  ASSUME SlotInv, NoneFinished, \A r \in RunIds : ~ Active(r),
         UNCHANGED <<runs, events, queue, pings, msgClaim>>,
         slot' \in RunIds, sched' \in SchedulerState, sched'.run = None,
         sched'.pc \in ClaimPlaces, sched'.next = slot'
  PROVE  SlotInv'
  BY NoneAssumption
  DEF SlotInv, SlotTypes, RunOwnsSlot, FinishedOwns, OneFinished, SchedulerOwns, OneHolder,
      Accounted, NoneFinished, SchedulerHolds, ClaimPlaces, Active

\* It gives the slot back without having started a run.
LEMMA GivesBack ==
  ASSUME SlotInv, SchedulerHolds, slot' = None,
         UNCHANGED <<runs, events, queue, pings, msgClaim>>,
         sched' \in SchedulerState, sched'.run = None,
         sched'.pc \in {"recv", "groups", "message"}
  PROVE  SlotInv'
  BY NoneAssumption
  DEF SlotInv, SlotTypes, RunOwnsSlot, FinishedOwns, OneFinished, SchedulerOwns, OneHolder,
      Accounted, NoneFinished, SchedulerHolds, ClaimPlaces, Active

\* It starts the run, which takes the hold over.
LEMMA StartsRun ==
  ASSUME SlotInv, sched.pc \in ClaimPlaces, NEW items, SpawnTurn(sched.next, items),
         Goto("recv"), UNCHANGED <<slot, events, pings>>,
         queue' \in Seq(Entry), msgClaim' # None => msgClaim'.entry \in Entry
  PROVE  SlotInv'
  <1> USE DEF SpawnTurn, Goto
  <1>1. /\ sched \in SchedulerState /\ sched.run = None
        /\ slot \in RunIds /\ slot = sched.next
        /\ NoneFinished /\ \A r \in RunIds : ~ Active(r)
    BY DEF SlotInv, SlotTypes, SchedulerOwns, OneHolder, SchedulerHolds
  <1>2. sched' \in SchedulerState /\ sched'.pc = "recv" /\ sched'.run = None
    BY <1>1 DEF SchedulerState, Places
  <1>3. \A r \in RunIds : Active(r)' <=> r = slot
    BY <1>1 DEF SlotInv, SlotTypes, Active
  <1>4. SlotTypes'
    BY <1>1, <1>2 DEF SlotInv, SlotTypes, Phases
  <1>5. SchedulerOwns' /\ ~ SchedulerHolds'
    BY <1>2 DEF SchedulerOwns, SchedulerHolds, ClaimPlaces
  <1>6. NoneFinished' /\ FinishedOwns' /\ OneFinished'
    BY <1>1 DEF NoneFinished, FinishedOwns, OneFinished
  <1> QED
    BY <1>1, <1>3, <1>4, <1>5, <1>6 DEF SlotInv, RunOwnsSlot, OneHolder, Accounted

\* A free slot has no holder of any kind.
LEMMA FreeSlot ==
  ASSUME SlotInv, slot = None
  PROVE  /\ NoneFinished /\ ~ SchedulerHolds
         /\ \A r \in RunIds : ~ Active(r)
  BY NoneAssumption
  DEF SlotInv, SlotTypes, RunOwnsSlot, FinishedOwns, SchedulerOwns, NoneFinished,
      SchedulerHolds, Finished, Hint

\* The scheduler's remaining steps: each takes, passes on or gives back the slot.
LEMMA SchedulerKeepsSlot == ASSUME SlotInv, Scheduler PROVE SlotInv'
  <1> USE DEF SchedKeeps, slotVars, queueVars, chanVars
  <1>0. /\ sched \in SchedulerState /\ queue \in Seq(Entry) /\ SchedulerOwns
        /\ msgClaim # None => msgClaim.entry \in Entry
    BY DEF SlotInv, SlotTypes
  <1>1. CASE Peek
    <2>1. queue # <<>> => Head(queue).run \in RunIds
      <3>1. queue # <<>> => Head(queue) \in Entry
        BY <1>0
      <3> QED
        BY <3>1 DEF Entry
    <2>2. /\ sched' \in SchedulerState /\ sched'.run = sched.run
          /\ \/ sched'.pc = "recv"
             \/ sched'.pc = "takeMessage" /\ sched'.next \in RunIds
      BY <1>0, <1>1, <2>1 DEF Peek, SchedulerState, Places
    <2>3. SchedulerOwns' /\ (SchedulerHolds' <=> SchedulerHolds)
      BY <1>0, <1>1, <2>2, NoneAssumption DEF Peek, SchedulerOwns, SchedulerHolds, ClaimPlaces
    <2> QED
      BY <1>1, <2>2, <2>3, MovesOn DEF Peek
  <1>2. CASE Release
    <2>1. sched.run = slot /\ sched.run # None
      BY <1>0, <1>2 DEF Release, SchedulerOwns
    <2>2. sched' \in SchedulerState /\ sched'.run = None /\ sched'.pc = "groups"
      BY <1>0, <1>2 DEF Release, SchedulerState, Places
    <2> QED
      BY <1>2, <2>1, <2>2, GivesBack DEF Release, RegistryFinish, SchedulerHolds
  <1>3. CASE TakeForResults
    <2>1. CASE /\ Fresh # {}
               /\ IF sched.run # None THEN RegistryHandoff(sched.run, Mint)
                                      ELSE RegistryClaim(Mint)
               /\ sched' = [sched EXCEPT !.pc = "claim", !.run = None, !.next = Mint]
      <3>1. Mint \in RunIds /\ slot' = Mint
        BY <2>1, MintIsFresh DEF RegistryHandoff, RegistryClaim
      <3>2. NoneFinished /\ \A r \in RunIds : ~ Active(r)
        <4>1. CASE sched.run # None
          BY <4>1 DEF SlotInv, OneHolder, SchedulerHolds
        <4>2. CASE sched.run = None
          BY <2>1, <4>2, FreeSlot DEF RegistryClaim
        <4> QED
          BY <4>1, <4>2
      <3>3. /\ sched' \in SchedulerState /\ sched'.run = None
            /\ sched'.pc \in ClaimPlaces /\ sched'.next = Mint
        BY <1>0, <2>1, <3>1 DEF SchedulerState, Places, ClaimPlaces
      <3> QED
        BY <1>3, <3>1, <3>2, <3>3, TakesSlot DEF TakeForResults
    <2>2. CASE /\ slot # sched.run
               /\ sched' = [sched EXCEPT !.pc = "groups", !.run = None]
               /\ UNCHANGED slot
      <3>1. sched.run = None /\ sched.pc = "take"
        BY <1>0, <1>3, <2>2 DEF TakeForResults, SchedulerOwns
      <3>2. sched' \in SchedulerState /\ sched'.run = None /\ sched'.pc = "groups"
        BY <1>0, <2>2 DEF SchedulerState, Places
      <3>3. SchedulerOwns' /\ (SchedulerHolds' <=> SchedulerHolds)
        BY <3>1, <3>2 DEF SchedulerOwns, SchedulerHolds, ClaimPlaces
      <3> QED
        BY <1>3, <2>2, <3>1, <3>2, <3>3, MovesOn DEF TakeForResults
    <2> QED
      BY <1>3, <2>1, <2>2 DEF TakeForResults
  <1>4. CASE ClaimResults
    <2>1. sched.pc \in ClaimPlaces /\ sched.next = slot /\ sched.run = None /\ SchedulerHolds
      BY <1>0, <1>4 DEF ClaimResults, SchedulerOwns, SchedulerHolds, ClaimPlaces
    <2>2. CASE bgClaim = None /\ HasPending
      BY <1>0, <1>4, <2>1, <2>2, StartsRun DEF ClaimResults
    <2>3. CASE ~ (bgClaim = None /\ HasPending)
      <3>1. slot' = None /\ sched' = [sched EXCEPT !.pc = "groups"]
        BY <1>4, <2>1, <2>3 DEF ClaimResults, RegistryFinish, Goto
      <3>2. sched' \in SchedulerState /\ sched'.run = None /\ sched'.pc = "groups"
        BY <1>0, <2>1, <3>1 DEF SchedulerState, Places
      <3> QED
        BY <1>4, <2>1, <2>3, <3>1, <3>2, GivesBack DEF ClaimResults
    <2> QED
      BY <2>2, <2>3
  <1>5. CASE TakeForGroup
    <2>0. sched.run = None
      BY <1>0, <1>5 DEF TakeForGroup, SchedulerOwns
    <2>1. CASE /\ Fresh # {} /\ RegistryClaim(Mint)
               /\ sched' = [sched EXCEPT !.pc = "claimGroup", !.next = Mint]
      <3>1. Mint \in RunIds /\ slot' = Mint /\ slot = None
        BY <2>1, MintIsFresh DEF RegistryClaim
      <3>2. /\ sched' \in SchedulerState /\ sched'.run = None
            /\ sched'.pc \in ClaimPlaces /\ sched'.next = Mint
        BY <1>0, <2>0, <2>1, <3>1 DEF SchedulerState, Places, ClaimPlaces
      <3> QED
        BY <1>5, <3>1, <3>2, FreeSlot, TakesSlot DEF TakeForGroup
    <2>2. CASE slot # None /\ Goto("message") /\ UNCHANGED slot
      <3>1. sched' \in SchedulerState /\ sched'.run = None /\ sched'.pc = "message"
        BY <1>0, <2>0, <2>2 DEF Goto, SchedulerState, Places
      <3>2. SchedulerOwns' /\ (SchedulerHolds' <=> SchedulerHolds)
        BY <1>5, <2>0, <3>1 DEF TakeForGroup, SchedulerOwns, SchedulerHolds, ClaimPlaces
      <3> QED
        BY <1>5, <2>0, <2>2, <3>1, <3>2, MovesOn DEF TakeForGroup
    <2> QED
      BY <1>5, <2>1, <2>2 DEF TakeForGroup
  <1>6. CASE ClaimGroup
    <2>1. sched.pc \in ClaimPlaces /\ sched.next = slot /\ sched.run = None /\ SchedulerHolds
      BY <1>0, <1>6 DEF ClaimGroup, SchedulerOwns, SchedulerHolds, ClaimPlaces
    <2>2. ASSUME NEW g \in Groups, SpawnTurn(sched.next, <<g>>), Goto("recv"), UNCHANGED slot
          PROVE  SlotInv'
      BY <1>0, <1>6, <2>1, <2>2, StartsRun DEF ClaimGroup
    <2>3. CASE RegistryFinish(sched.next) /\ Goto("message") /\ UNCHANGED runs
      <3>1. slot' = None /\ sched' = [sched EXCEPT !.pc = "message"]
        BY <2>1, <2>3 DEF RegistryFinish, Goto
      <3>2. sched' \in SchedulerState /\ sched'.run = None /\ sched'.pc = "message"
        BY <1>0, <2>1, <3>1 DEF SchedulerState, Places
      <3> QED
        BY <1>6, <2>1, <2>3, <3>1, <3>2, GivesBack DEF ClaimGroup
    <2> QED
      BY <1>6, <2>2, <2>3 DEF ClaimGroup
  <1>7. CASE TakeForMessage
    <2>0. sched.run = None /\ sched.next \in RunIds
      BY <1>0, <1>7 DEF TakeForMessage, SchedulerOwns, SchedulerState
    <2>1. CASE RegistryClaim(sched.next) /\ Goto("claimHead")
      <3>1. slot' = sched.next /\ slot = None
        BY <2>1 DEF RegistryClaim
      <3>2. /\ sched' \in SchedulerState /\ sched'.run = None
            /\ sched'.pc \in ClaimPlaces /\ sched'.next = sched.next
        BY <1>0, <2>0, <2>1 DEF Goto, SchedulerState, Places, ClaimPlaces
      <3> QED
        BY <1>7, <2>0, <3>1, <3>2, FreeSlot, TakesSlot DEF TakeForMessage
    <2>2. CASE slot # None /\ Goto("recv") /\ UNCHANGED slot
      <3>1. sched' \in SchedulerState /\ sched'.run = None /\ sched'.pc = "recv"
        BY <1>0, <2>0, <2>2 DEF Goto, SchedulerState, Places
      <3>2. SchedulerOwns' /\ (SchedulerHolds' <=> SchedulerHolds)
        BY <1>7, <2>0, <3>1 DEF TakeForMessage, SchedulerOwns, SchedulerHolds, ClaimPlaces
      <3> QED
        BY <1>7, <2>0, <2>2, <3>1, <3>2, MovesOn DEF TakeForMessage
    <2> QED
      BY <1>7, <2>1, <2>2 DEF TakeForMessage
  <1>8. CASE ClaimHead
    <2>1. sched.pc \in ClaimPlaces /\ sched.next = slot /\ sched.run = None /\ SchedulerHolds
      BY <1>0, <1>8 DEF ClaimHead, SchedulerOwns, SchedulerHolds, ClaimPlaces
    <2>2. CASE msgClaim = None /\ queue # <<>>
      <3>1. queue' = Tail(queue) /\ msgClaim' = [run |-> sched.next, entry |-> Head(queue)]
        BY <1>8, <2>2 DEF ClaimHead, Rest
      <3>2. queue' \in Seq(Entry) /\ msgClaim'.entry \in Entry
        BY <1>0, <2>2, <3>1
      <3> QED
        BY <1>8, <2>1, <2>2, <3>2, StartsRun DEF ClaimHead
    <2>3. CASE ~ (msgClaim = None /\ queue # <<>>)
      <3>1. slot' = None /\ sched' = [sched EXCEPT !.pc = "recv"]
        BY <1>8, <2>1, <2>3 DEF ClaimHead, RegistryFinish, Goto
      <3>2. sched' \in SchedulerState /\ sched'.run = None /\ sched'.pc = "recv"
        BY <1>0, <2>1, <3>1 DEF SchedulerState, Places
      <3> QED
        BY <1>8, <2>1, <2>3, <3>1, <3>2, GivesBack DEF ClaimHead
    <2> QED
      BY <2>2, <2>3
  <1> QED
    BY <1>1, <1>2, <1>3, <1>4, <1>5, <1>6, <1>7, <1>8, RecvKeepsSlot, LooksKeepSlot
    DEF Scheduler

-----------------------------------------------------------------------------

\* Every step keeps the invariant.
LEMMA SlotInvariant == Spec => []SlotInv
  <1>1. ASSUME SlotInv, [Next]_vars PROVE SlotInv'
    <2>1. CASE Next
      BY <1>1, <2>1, SchedulerKeepsSlot, TurnKeepsSlot, ClientsKeepSlot, ArrivalsKeepSlot,
         HintsKeepSlot DEF Next
    <2>2. CASE UNCHANGED vars
      BY <1>1, <2>2, Elsewhere
      DEF vars, slotVars, queueVars, chanVars, SlotInv, SlotTypes
    <2> QED
      BY <1>1, <2>1, <2>2
  <1> QED
    BY <1>1, InitSlot, PTL DEF Spec

\* A session never has two turns at once, whatever clients, background tasks,
\* failing saves and the scheduler do in between (RunRegistry).
THEOREM RunOwnsSlotTheorem == Spec => []RunOwnsSlot
  <1>1. SlotInv => RunOwnsSlot
    BY DEF SlotInv
  <1> QED
    BY <1>1, SlotInvariant, PTL

\* The slot is never left claimed by nobody: a turn, a RunFinished event or the
\* scheduler will release it (RunClaimGuard and the scheduler's finish calls).
THEOREM SlotHasHolderTheorem == Spec => []SlotHasHolder
  <1>1. SlotInv => SlotHasHolder
    BY DEF SlotInv, Accounted, SlotHasHolder, FinishedPending, FinishedOwns, NoneFinished,
           SchedulerOwns, SchedulerHolds, ClaimPlaces
  <1> QED
    BY <1>1, SlotInvariant, PTL

-----------------------------------------------------------------------------
(***************************************************************************)
(* What the turns of a session carry, for any number of messages, results, *)
(* groups and runs: the failed-save barrier, the background results from   *)
(* their acceptance to the persisted history, and the order of the message *)
(* queue.  All three rest on the invariant above that the slot has one     *)
(* holder: whoever settles a claim does it alone.                          *)
(***************************************************************************)

(* Sequences                                                               *)

Distinct(s) == \A i, j \in DOMAIN s : s[i] = s[j] => i = j

\* A sequence that begins as one and goes on as another is their concatenation.
LEMMA ConcatIs ==
  ASSUME NEW S, NEW s \in Seq(S), NEW u \in Seq(S), NEW v \in Seq(S),
         Len(s) = Len(u) + Len(v), \A i \in 1 .. Len(u) : u[i] = s[i],
         \A i \in 1 .. Len(v) : v[i] = s[Len(u) + i]
  PROVE  u \o v = s
  <1>1. Len(u) \in Nat /\ Len(v) \in Nat
    OBVIOUS
  <1>2. /\ u \o v \in Seq(S) /\ Len(u \o v) = Len(s)
        /\ \A i \in 1 .. Len(u) + Len(v) :
              (u \o v)[i] = IF i <= Len(u) THEN u[i] ELSE v[i - Len(u)]
    BY ConcatProperties
  <1>3. ASSUME NEW i \in 1 .. Len(u \o v) PROVE (u \o v)[i] = s[i]
    <2>1. CASE i <= Len(u)
      <3>1. i \in 1 .. Len(u)
        BY <1>1, <1>2, <2>1
      <3> QED
        BY <1>2, <2>1, <3>1
    <2>2. CASE ~ (i <= Len(u))
      <3>1. i - Len(u) \in 1 .. Len(v) /\ Len(u) + (i - Len(u)) = i
        BY <1>1, <1>2, <2>2
      <3>2. (u \o v)[i] = v[i - Len(u)]
        BY <1>2, <2>2
      <3> QED
        BY <3>1, <3>2
    <2> QED
      BY <2>1, <2>2
  <1> QED
    BY <1>2, <1>3, SeqEqual

\* What follows the first k elements
LEMMA RestOf ==
  ASSUME NEW S, NEW s \in Seq(S), NEW k \in 0 .. Len(s)
  PROVE  /\ DropN(s, k) \in Seq(S) /\ Len(DropN(s, k)) = Len(s) - k
         /\ \A i \in 1 .. Len(s) - k : DropN(s, k)[i] = s[k + i]
  <1>1. k \in Int /\ Len(s) \in Nat /\ k + 1 \in Int /\ Len(s) \in Int
    OBVIOUS
  <1>2. \A i \in k + 1 .. Len(s) : s[i] \in S
    BY <1>1
  <1>3. /\ SubSeq(s, k + 1, Len(s)) \in Seq(S)
        /\ Len(SubSeq(s, k + 1, Len(s))) =
             IF k + 1 <= Len(s) THEN Len(s) - (k + 1) + 1 ELSE 0
        /\ \A i \in 1 .. Len(s) - (k + 1) + 1 :
              SubSeq(s, k + 1, Len(s))[i] = s[(k + 1) + i - 1]
    BY <1>1, <1>2, SubSeqProperties
  <1>4. (IF k + 1 <= Len(s) THEN Len(s) - (k + 1) + 1 ELSE 0) = Len(s) - k
    BY <1>1
  <1>5. ASSUME NEW i \in 1 .. Len(s) - k PROVE SubSeq(s, k + 1, Len(s))[i] = s[k + i]
    <2>1. i \in 1 .. Len(s) - (k + 1) + 1 /\ (k + 1) + i - 1 = k + i
      BY <1>1
    <2> QED
      BY <1>3, <2>1
  <1> QED
    BY <1>3, <1>4, <1>5 DEF DropN

\* A prefix and the rest of a sequence, as claim_for_session splits its queues
LEMMA SplitAt ==
  ASSUME NEW S, NEW s \in Seq(S), NEW n \in Nat
  PROVE  /\ FirstN(s, n) \in Seq(S)
         /\ Len(FirstN(s, n)) = IF n < Len(s) THEN n ELSE Len(s)
         /\ DropN(s, Len(FirstN(s, n))) \in Seq(S)
         /\ s = FirstN(s, n) \o DropN(s, Len(FirstN(s, n)))
  <1> DEFINE k == IF n < Len(s) THEN n ELSE Len(s)
  <1>1. k \in 0 .. Len(s) /\ Len(s) \in Nat
    OBVIOUS
  <1>2. \A i \in 1 .. Len(s) : s[i] \in S
    OBVIOUS
  <1> HIDE DEF k
  <1>3. /\ SubSeq(s, 1, k) \in Seq(S) /\ Len(SubSeq(s, 1, k)) = k
        /\ \A i \in 1 .. k : SubSeq(s, 1, k)[i] = s[i]
    BY <1>1, <1>2, SubSeqProperties
  <1>4. /\ SubSeq(s, k + 1, Len(s)) \in Seq(S) /\ Len(SubSeq(s, k + 1, Len(s))) = Len(s) - k
        /\ \A i \in 1 .. Len(s) - k : SubSeq(s, k + 1, Len(s))[i] = s[k + i]
    BY <1>1, RestOf DEF DropN
  <1>5. s = SubSeq(s, 1, k) \o SubSeq(s, k + 1, Len(s))
    <2> DEFINE u == SubSeq(s, 1, k)  v == SubSeq(s, k + 1, Len(s))
    <2>1. u \in Seq(S) /\ v \in Seq(S) /\ Len(u) = k /\ Len(v) = Len(s) - k
      BY <1>3, <1>4
    <2>3. \A i \in 1 .. Len(u) : u[i] = s[i]
      BY <1>3
    <2>4. \A i \in 1 .. Len(s) - k : v[i] = s[k + i]
      BY <1>4
    <2> HIDE DEF u, v
    <2>2. Len(s) = Len(u) + Len(v)
      BY <1>1, <2>1
    <2>6. \A i \in 1 .. Len(v) : v[i] = s[Len(u) + i]
      BY <2>1, <2>4
    <2>5. u \o v = s
      BY <2>1, <2>2, <2>3, <2>6, ConcatIs
    <2> QED
      BY <2>5 DEF u, v
  <1>6. FirstN(s, n) = SubSeq(s, 1, k) /\ DropN(s, k) = SubSeq(s, k + 1, Len(s))
    BY DEF FirstN, DropN, k
  <1> QED
    BY <1>3, <1>4, <1>5, <1>6 DEF k

\* What a concatenation holds, and when it repeats nothing
LEMMA ConcatElems ==
  ASSUME NEW S, NEW s \in Seq(S), NEW t \in Seq(S)
  PROVE  /\ s \o t \in Seq(S) /\ Len(s \o t) = Len(s) + Len(t)
         /\ Elems(s \o t) = Elems(s) \cup Elems(t)
         /\ Distinct(s \o t) <=> Distinct(s) /\ Distinct(t) /\ Elems(s) \cap Elems(t) = {}
  <1> DEFINE u == s \o t
  <1>1. /\ Len(s) \in Nat /\ Len(t) \in Nat
        /\ DOMAIN s = 1 .. Len(s) /\ DOMAIN t = 1 .. Len(t)
    OBVIOUS
  <1>2. /\ u \in Seq(S) /\ Len(u) = Len(s) + Len(t) /\ DOMAIN u = 1 .. Len(s) + Len(t)
        /\ \A i \in 1 .. Len(s) + Len(t) : u[i] = IF i <= Len(s) THEN s[i] ELSE t[i - Len(s)]
    BY ConcatProperties, LenProperties
  <1> HIDE DEF u
  <1>3. /\ \A i \in DOMAIN s : i \in DOMAIN u /\ u[i] = s[i]
        /\ \A i \in DOMAIN t : i + Len(s) \in DOMAIN u /\ u[i + Len(s)] = t[i]
        /\ \A i \in DOMAIN u : \/ i \in DOMAIN s /\ u[i] = s[i]
                               \/ i - Len(s) \in DOMAIN t /\ u[i] = t[i - Len(s)]
    BY <1>1, <1>2
  <1>4. Elems(u) = Elems(s) \cup Elems(t)
    BY <1>3 DEF Elems
  <1>5. ASSUME Distinct(u)
        PROVE  Distinct(s) /\ Distinct(t) /\ Elems(s) \cap Elems(t) = {}
    <2>1. Distinct(s)
      BY <1>3, <1>5 DEF Distinct
    <2>2. Distinct(t)
      <3> SUFFICES ASSUME NEW i \in DOMAIN t, NEW j \in DOMAIN t, t[i] = t[j] PROVE i = j
        BY DEF Distinct
      <3>1. i + Len(s) = j + Len(s)
        BY <1>3, <1>5 DEF Distinct
      <3> QED
        BY <1>1, <3>1
    <2>3. ASSUME NEW i \in DOMAIN s, NEW j \in DOMAIN t, s[i] = t[j] PROVE FALSE
      <3>1. i = j + Len(s)
        BY <1>3, <1>5, <2>3 DEF Distinct
      <3> QED
        BY <1>1, <3>1
    <2> QED
      BY <2>1, <2>2, <2>3 DEF Elems
  <1>6. ASSUME Distinct(s), Distinct(t), Elems(s) \cap Elems(t) = {}
        PROVE  Distinct(u)
    <2> SUFFICES ASSUME NEW i \in DOMAIN u, NEW j \in DOMAIN u, u[i] = u[j] PROVE i = j
      BY DEF Distinct
    <2>1. \A x \in DOMAIN s, y \in DOMAIN t : s[x] # t[y]
      BY <1>6 DEF Elems
    <2>2. CASE i \in DOMAIN s /\ j \in DOMAIN s
      BY <1>3, <1>6, <2>2 DEF Distinct
    <2>3. CASE i \notin DOMAIN s /\ j \notin DOMAIN s
      <3>1. i - Len(s) = j - Len(s)
        BY <1>3, <1>6, <2>3 DEF Distinct
      <3> QED
        BY <1>1, <1>2, <3>1
    <2>4. CASE i \in DOMAIN s /\ j \notin DOMAIN s
      BY <1>3, <2>1, <2>4
    <2>5. CASE i \notin DOMAIN s /\ j \in DOMAIN s
      BY <1>3, <2>1, <2>5
    <2> QED
      BY <2>2, <2>3, <2>4, <2>5
  <1> QED
    BY <1>2, <1>4, <1>5, <1>6 DEF u

\* One more element at the end
LEMMA AppendElems ==
  ASSUME NEW S, NEW s \in Seq(S), NEW x \in S
  PROVE  /\ Append(s, x) \in Seq(S) /\ Len(Append(s, x)) = Len(s) + 1
         /\ Elems(Append(s, x)) = Elems(s) \cup {x}
         /\ Distinct(Append(s, x)) <=> Distinct(s) /\ x \notin Elems(s)
  <1>1. <<x>> \in Seq(S) /\ Elems(<<x>>) = {x} /\ Distinct(<<x>>)
    BY DEF Elems, Distinct
  <1>2. Append(s, x) = s \o <<x>>
    BY AppendIsConcat
  <1>3. /\ Elems(s \o <<x>>) = Elems(s) \cup {x}
        /\ Distinct(s \o <<x>>) <=> Distinct(s) /\ Elems(s) \cap {x} = {}
    BY <1>1, ConcatElems
  <1>4. Append(s, x) \in Seq(S) /\ Len(Append(s, x)) = Len(s) + 1
    BY AppendProperties
  <1> QED
    BY <1>2, <1>3, <1>4

\* A sequence that is not empty is its head and its tail.
LEMMA HeadAndTail ==
  ASSUME NEW S, NEW s \in Seq(S), s # <<>>
  PROVE  /\ Head(s) \in S /\ Tail(s) \in Seq(S) /\ Len(s) = Len(Tail(s)) + 1
         /\ Elems(s) = {Head(s)} \cup Elems(Tail(s))
         /\ Distinct(s) <=> Distinct(Tail(s)) /\ Head(s) \notin Elems(Tail(s))
  <1>1. /\ Head(s) \in S /\ Tail(s) \in Seq(S) /\ Len(Tail(s)) = Len(s) - 1
        /\ \A i \in 1 .. Len(Tail(s)) : Tail(s)[i] = s[i + 1]
        /\ Len(s) \in Nat \ {0} /\ Head(s) = s[1]
    BY HeadTailProperties, EmptySeq
  <1>2. <<Head(s)>> \in Seq(S) /\ Elems(<<Head(s)>>) = {Head(s)} /\ Distinct(<<Head(s)>>)
    BY <1>1 DEF Elems, Distinct
  <1>3. <<Head(s)>> \o Tail(s) = s
    <2> DEFINE h == <<Head(s)>>
    <2>1. h \in Seq(S) /\ Len(h) = 1 /\ h[1] = s[1]
      BY <1>1
    <2> HIDE DEF h
    <2>2. Len(s) = Len(h) + Len(Tail(s))
      BY <1>1, <2>1
    <2>3. \A i \in 1 .. Len(h) : h[i] = s[i]
      BY <2>1
    <2>4. \A i \in 1 .. Len(Tail(s)) : Tail(s)[i] = s[Len(h) + i]
      <3>1. \A i \in 1 .. Len(Tail(s)) : i + 1 = Len(h) + i
        BY <2>1
      <3> QED
        BY <1>1, <3>1
    <2>5. h \o Tail(s) = s
      BY <1>1, <2>1, <2>2, <2>3, <2>4, ConcatIs
    <2> QED
      BY <2>5 DEF h
  <1>4. /\ Elems(<<Head(s)>> \o Tail(s)) = {Head(s)} \cup Elems(Tail(s))
        /\ Distinct(<<Head(s)>> \o Tail(s)) <=>
             Distinct(Tail(s)) /\ {Head(s)} \cap Elems(Tail(s)) = {}
    BY <1>1, <1>2, ConcatElems
  <1>5. /\ Elems(s) = {Head(s)} \cup Elems(Tail(s))
        /\ Distinct(s) <=> Distinct(Tail(s)) /\ {Head(s)} \cap Elems(Tail(s)) = {}
    BY <1>3, <1>4
  <1> QED
    BY <1>1, <1>5

\* A sequence without repetition is no longer than its set.
LEMMA DistinctBounded ==
  ASSUME NEW S, IsFiniteSet(S), NEW s \in Seq(S), Distinct(s)
  PROVE  Len(s) <= Cardinality(S)
  <1>1. Len(s) \in Nat /\ s \in [1 .. Len(s) -> S] /\ Cardinality(S) \in Nat
    BY FS_CardinalityType
  <1>2. IsFiniteSet(1 .. Len(s)) /\ Cardinality(1 .. Len(s)) = Len(s)
    <2>1. 1 \in Int /\ Len(s) \in Int
      BY <1>1
    <2>2. /\ IsFiniteSet(1 .. Len(s))
          /\ Cardinality(1 .. Len(s)) = IF 1 > Len(s) THEN 0 ELSE Len(s) - 1 + 1
      BY <2>1, FS_Interval
    <2> QED
      BY <1>1, <2>2
  <1>3. ASSUME Len(s) > Cardinality(S) PROVE FALSE
    <2>1. PICK x \in 1 .. Len(s), y \in 1 .. Len(s) : x # y /\ s[x] = s[y]
      BY <1>1, <1>2, <1>3, FS_PigeonHole
    <2> QED
      BY <2>1 DEF Distinct
  <1> QED
    BY <1>1, <1>3

-----------------------------------------------------------------------------
(* Which step touches what                                                 *)

\* The inbox of background results
LEMMA ResultSteps ==
  ASSUME [Next]_vars
  PROVE  \/ UNCHANGED bgVars \/ RequeueUnacked \/ ClaimResults
         \/ \E t \in Tasks : Report(t)
         \/ \E r \in RunIds : AckClaims(r) \/ GiveUpStart(r)
  <1> USE DEF SchedKeeps
  <1>1. CASE Scheduler
    BY <1>1 DEF Scheduler, Recv, ResultGate, Block, Allow, Release, CheckPending,
       TakeForResults, GroupGate, TakeForGroup, ClaimGroup, MessageGate, Peek, TakeForMessage,
       ClaimHead
  <1>2. ASSUME NEW r \in RunIds, Turn(r)
        PROVE  UNCHANGED bgVars \/ AckClaims(r) \/ GiveUpStart(r)
    BY <1>2 DEF Turn, StartSave, FinalSave, Dies
  <1>3. CASE Clients
    BY <1>3 DEF Clients, PostStarts, PostEnqueue, RetractOne, RetractAll, Retract, PostBusy,
       ClientClaims
  <1>4. CASE Arrivals
    BY <1>4 DEF Arrivals, GroupReady
  <1>5. CASE Pinger \/ UNCHANGED vars
    BY <1>5 DEF Pinger, Ping, vars
  <1> QED
    BY <1>1, <1>2, <1>3, <1>4, <1>5 DEF Next

\* The message queue and its claim
LEMMA QueueSteps ==
  ASSUME [Next]_vars
  PROVE  \/ UNCHANGED queueVars \/ ClaimHead \/ RetractAll
         \/ \E m \in Messages : PostEnqueue(m) \/ RetractOne(m)
         \/ \E r \in RunIds : AckClaims(r) \/ GiveUpStart(r)
  <1> USE DEF SchedKeeps
  <1>1. CASE Scheduler
    BY <1>1 DEF Scheduler, Recv, ResultGate, RequeueUnacked, Block, Allow, Release,
       CheckPending, TakeForResults, ClaimResults, GroupGate, TakeForGroup, ClaimGroup,
       MessageGate, Peek, TakeForMessage
  <1>2. ASSUME NEW r \in RunIds, Turn(r)
        PROVE  UNCHANGED queueVars \/ AckClaims(r) \/ GiveUpStart(r)
    BY <1>2 DEF Turn, StartSave, FinalSave, Dies
  <1>3. CASE Clients
    BY <1>3 DEF Clients, PostStarts, PostBusy, ClientClaims
  <1>4. CASE Arrivals \/ Pinger \/ UNCHANGED vars
    BY <1>4 DEF Arrivals, Report, GroupReady, Pinger, Ping, vars
  <1> QED
    BY <1>1, <1>2, <1>3, <1>4 DEF Next

\* What the requests of clients know about each message
LEMMA PostSteps ==
  ASSUME [Next]_vars
  PROVE  \/ UNCHANGED postVars \/ RetractAll
         \/ \E m \in Messages : \/ PostStarts(m) \/ PostEnqueue(m) \/ RetractOne(m)
                                \/ \E wait \in BOOLEAN : PostBusy(m, wait)
  <1> USE DEF SchedKeeps
  <1>1. CASE Scheduler
    BY <1>1 DEF Scheduler, Recv, ResultGate, RequeueUnacked, Block, Allow, Release,
       CheckPending, TakeForResults, ClaimResults, GroupGate, TakeForGroup, ClaimGroup,
       MessageGate, Peek, TakeForMessage, ClaimHead
  <1>2. ASSUME NEW r \in RunIds, Turn(r) PROVE UNCHANGED postVars
    BY <1>2 DEF Turn, StartSave, FinalSave, AckClaims, GiveUpStart, Dies
  <1>3. CASE Clients
    BY <1>3 DEF Clients, ClientClaims
  <1>4. CASE Arrivals \/ Pinger \/ UNCHANGED vars
    BY <1>4 DEF Arrivals, Report, GroupReady, Pinger, Ping, vars
  <1> QED
    BY <1>1, <1>2, <1>3, <1>4 DEF Next

\* The persisted history
LEMMA HistorySteps ==
  ASSUME [Next]_vars
  PROVE  \/ UNCHANGED history
         \/ \E r \in RunIds : StartSave(r, TRUE)
  <1> USE DEF SchedKeeps
  <1>1. CASE Scheduler
    BY <1>1 DEF Scheduler, Recv, ResultGate, RequeueUnacked, Block, Allow, Release,
       CheckPending, TakeForResults, ClaimResults, GroupGate, TakeForGroup, ClaimGroup,
       MessageGate, Peek, TakeForMessage, ClaimHead
  <1>2. ASSUME NEW r \in RunIds, Turn(r) PROVE UNCHANGED history \/ StartSave(r, TRUE)
    <2>1. ASSUME NEW ok \in BOOLEAN, StartSave(r, ok)
          PROVE  UNCHANGED history \/ StartSave(r, TRUE)
      <3>1. CASE ok = TRUE
        BY <2>1, <3>1
      <3>2. CASE ok = FALSE
        BY <2>1, <3>2 DEF StartSave
      <3> QED
        BY <3>1, <3>2
    <2> QED
      BY <1>2, <2>1 DEF Turn, FinalSave, AckClaims, GiveUpStart, Dies
  <1>3. CASE Clients
    BY <1>3 DEF Clients, PostStarts, PostEnqueue, RetractOne, RetractAll, Retract, PostBusy,
       ClientClaims
  <1>4. CASE Arrivals \/ Pinger \/ UNCHANGED vars
    BY <1>4 DEF Arrivals, Report, GroupReady, Pinger, Ping, vars
  <1> QED
    BY <1>1, <1>2, <1>3, <1>4 DEF Next

\* The turns: one is spawned, or an active one goes on to another phase.
Spawns == (\E m \in Messages : PostStarts(m)) \/ ClaimResults \/ ClaimGroup \/ ClaimHead
LEMMA RunSteps ==
  ASSUME SlotInv, [Next]_vars
  PROVE  \/ UNCHANGED runs \/ Spawns
         \/ \E r \in RunIds, p \in Phases : Turn(r) /\ Active(r) /\ SetPhase(r, p)
  <1> USE DEF slotVars, SchedKeeps
  <1>1. CASE Scheduler
    BY <1>1 DEF Scheduler, Spawns, Recv, ResultGate, RequeueUnacked, Block, Allow, Release,
       CheckPending, TakeForResults, GroupGate, TakeForGroup, MessageGate, Peek,
       TakeForMessage
  <1>2. ASSUME NEW r \in RunIds, Turn(r)
        PROVE  \E p \in Phases : Turn(r) /\ Active(r) /\ SetPhase(r, p)
    <2>1. Active(r)
      BY <1>2 DEF Turn, StartSave, FinalSave, AckClaims, GiveUpStart, Dies, Active
    <2>2. \E p \in Phases : SetPhase(r, p)
      BY <1>2 DEF Turn, StartSave, FinalSave, AckClaims, GiveUpStart, Dies, EndTurn, Phases
    <2> QED
      BY <1>2, <2>1, <2>2
  <1>3. CASE Clients
    BY <1>3 DEF Clients, Spawns, PostEnqueue, RetractOne, RetractAll, Retract, PostBusy,
       ClientClaims
  <1>4. CASE Arrivals \/ Pinger \/ UNCHANGED vars
    BY <1>4 DEF Arrivals, Report, GroupReady, Pinger, Ping, vars
  <1> QED
    BY <1>1, <1>2, <1>3, <1>4 DEF Next

\* A step that spawns no turn begins none.
LEMMA BeginsNone ==
  ASSUME SlotInv, [Next]_vars, ~ Spawns
  PROVE  \A r \in RunIds : Active(r)' => Active(r)
  <1>1. CASE UNCHANGED runs
    BY <1>1 DEF Active
  <1>2. ASSUME NEW r \in RunIds, NEW p \in Phases, Active(r), SetPhase(r, p)
        PROVE  \A x \in RunIds : Active(x)' => Active(x)
    BY <1>2 DEF SetPhase, Active, SlotInv, SlotTypes
  <1> QED
    BY <1>1, <1>2, RunSteps

-----------------------------------------------------------------------------
(* Types                                                                   *)

Item == Messages \cup Tasks \cup Groups
Batches == [run : RunIds, tasks : Seq(Tasks)]
MessageClaims == [run : RunIds, entry : Entry]

PostTypes ==
  /\ post \in [Messages -> {"idle", "started", "busy", "queued", "refused", "retracted"}]
  /\ promised \in [Messages -> RunIds \cup {None}]
  /\ parked \in Seq(Messages)

\* requeue_claim may exceed the depth by the one message it had taken out.
QueueTypes ==
  /\ Len(queue) <= MaxQueue + 1
  /\ msgClaim # None => msgClaim \in MessageClaims /\ Len(queue) <= MaxQueue

InboxTypes ==
  /\ pending \in Seq(Tasks) /\ recovery \in Seq(Tasks) /\ consumed \in Seq(Tasks)
  /\ Len(pending) <= BgCapacity /\ Len(consumed) <= MaxTombstones
  /\ bgClaim # None => bgClaim \in Batches /\ Len(bgClaim.tasks) \in 1 .. BgCapacity
  /\ group \in [Groups -> {"open", "ready", "claimed"}]

TurnTypes ==
  /\ history \in Seq(Item)
  /\ \A r \in RunIds : runs[r].items \in Seq(Item)

Types == PostTypes /\ QueueTypes /\ InboxTypes /\ TurnTypes

\* Requests
LEMMA PostTypesKept == ASSUME PostTypes, [Next]_vars PROVE PostTypes'
  <1> USE DEF PostTypes
  <1>1. ASSUME NEW m \in Messages, PostStarts(m) PROVE PostTypes'
    BY <1>1, MintIsFresh DEF PostStarts
  <1>2. ASSUME NEW m \in Messages, PostEnqueue(m) PROVE PostTypes'
    <2>1. parked' = parked \/ parked' = Append(parked, m)
      BY <1>2 DEF PostEnqueue
    <2>2. parked' \in Seq(Messages)
      BY <2>1, AppendElems
    <2> QED
      BY <1>2, <2>2, MintIsFresh DEF PostEnqueue
  <1>3. ASSUME NEW gone, NEW rest, Retract(gone, rest) PROVE PostTypes'
    BY <1>3 DEF Retract
  <1>4. ASSUME NEW m \in Messages, NEW wait \in BOOLEAN, PostBusy(m, wait) PROVE PostTypes'
    BY <1>4 DEF PostBusy
  <1>5. CASE UNCHANGED postVars
    BY <1>5 DEF postVars
  <1> QED
    BY <1>1, <1>2, <1>3, <1>4, <1>5, PostSteps DEF RetractOne, RetractAll

\* The message queue
LEMMA QueueTypesKept == ASSUME SlotInv, QueueTypes, [Next]_vars PROVE QueueTypes'
  <1>0. queue \in Seq(Entry) /\ Len(queue) \in Nat /\ MaxQueue \in Nat /\ sched \in SchedulerState
    BY CapacityAssumption DEF SlotInv, SlotTypes
  <1> USE DEF QueueTypes, queueVars
  <1>1. CASE UNCHANGED queueVars
    BY <1>1
  <1>2. CASE ClaimHead
    <2>1. CASE msgClaim = None /\ queue # <<>>
      <3>1. /\ queue' = Tail(queue)
            /\ msgClaim' = [run |-> sched.next, entry |-> Head(queue)]
        BY <1>2, <2>1 DEF ClaimHead, Rest
      <3>2. Len(queue') = Len(queue) - 1 /\ Head(queue) \in Entry /\ Len(queue') \in Nat
        BY <1>0, <2>1, <3>1, HeadTailProperties, LenProperties
      <3>3. sched.next \in RunIds
        BY <1>2 DEF ClaimHead, SlotInv, SlotTypes, SchedulerOwns, ClaimPlaces
      <3>4. msgClaim' \in MessageClaims
        BY <3>1, <3>2, <3>3 DEF MessageClaims
      <3> QED
        BY <1>0, <3>2, <3>4
    <2>2. CASE ~ (msgClaim = None /\ queue # <<>>)
      BY <1>2, <2>2 DEF ClaimHead
    <2> QED
      BY <2>1, <2>2
  <1>3. CASE RetractAll
    BY <1>0, <1>3 DEF RetractAll, Retract
  <1>4. ASSUME NEW m \in Messages, PostEnqueue(m) PROVE QueueTypes'
    <2>1. CASE Len(queue) < MaxQueue
      <3>1. queue' = Append(queue, [msg |-> m, run |-> Mint]) /\ msgClaim' = msgClaim
        BY <1>4, <2>1 DEF PostEnqueue
      <3>2. Len(queue') = Len(queue) + 1
        BY <1>0, <3>1
      <3> QED
        BY <1>0, <2>1, <3>1, <3>2
    <2>2. CASE ~ (Len(queue) < MaxQueue)
      BY <1>4, <2>2 DEF PostEnqueue
    <2> QED
      BY <2>1, <2>2
  <1>5. ASSUME NEW m \in Messages, RetractOne(m) PROVE QueueTypes'
    <2>1. PICK i \in DOMAIN queue : Retract({m}, FirstN(queue, i - 1) \o DropN(queue, i))
      BY <1>5 DEF RetractOne
    <2>2. i \in 1 .. Len(queue)
      BY <1>0
    <2>3. FirstN(queue, i - 1) \in Seq(Entry) /\ Len(FirstN(queue, i - 1)) = i - 1
      BY <1>0, <2>2, SubSeqProperties DEF FirstN
    <2>4. DropN(queue, i) \in Seq(Entry) /\ Len(DropN(queue, i)) = Len(queue) - i
      BY <1>0, <2>2, SubSeqProperties DEF DropN
    <2>5. Len(queue') = Len(queue) - 1 /\ msgClaim' = msgClaim
      BY <1>0, <2>1, <2>2, <2>3, <2>4, ConcatElems DEF Retract
    <2> QED
      BY <1>0, <2>5
  <1>6. ASSUME NEW r \in RunIds, AckClaims(r) PROVE QueueTypes'
    BY <1>6 DEF AckClaims, AckMessage
  <1>7. ASSUME NEW r \in RunIds, GiveUpStart(r) PROVE QueueTypes'
    <2>1. CASE msgClaim # None /\ msgClaim.run = r
      <3>1. queue' = <<msgClaim.entry>> \o queue /\ msgClaim' = None
        BY <1>7, <2>1 DEF GiveUpStart, RequeueMessage
      <3>2. <<msgClaim.entry>> \in Seq(Entry) /\ Len(<<msgClaim.entry>>) = 1
        BY <2>1 DEF MessageClaims
      <3>3. Len(queue') = 1 + Len(queue)
        BY <1>0, <3>1, <3>2, ConcatElems
      <3> QED
        BY <1>0, <2>1, <3>1, <3>3
    <2>2. CASE ~ (msgClaim # None /\ msgClaim.run = r)
      BY <1>7, <2>2 DEF GiveUpStart, RequeueMessage
    <2> QED
      BY <2>1, <2>2
  <1> QED
    BY <1>1, <1>2, <1>3, <1>4, <1>5, <1>6, <1>7, QueueSteps

\* What claim_for_session takes of each queue, and what it leaves
Taken == FirstN(pending, BgCapacity - Len(Recovered))
LEMMA BatchParts ==
  ASSUME InboxTypes
  PROVE  /\ Recovered \in Seq(Tasks) /\ Taken \in Seq(Tasks)
         /\ Batch = Recovered \o Taken /\ Batch \in Seq(Tasks)
         /\ Len(Batch) - Len(Recovered) = Len(Taken) /\ Len(Batch) <= BgCapacity
         /\ HasPending => Len(Batch) \in 1 .. BgCapacity
         /\ DropN(recovery, Len(Recovered)) \in Seq(Tasks)
         /\ DropN(pending, Len(Taken)) \in Seq(Tasks)
         /\ recovery = Recovered \o DropN(recovery, Len(Recovered))
         /\ pending = Taken \o DropN(pending, Len(Taken))
         /\ Len(DropN(pending, Len(Taken))) <= Len(pending)
  <1>0. /\ recovery \in Seq(Tasks) /\ pending \in Seq(Tasks) /\ BgCapacity \in Nat \ {0}
        /\ Len(recovery) \in Nat /\ Len(pending) \in Nat
    BY CapacityAssumption DEF InboxTypes
  <1>1. /\ Recovered \in Seq(Tasks)
        /\ Len(Recovered) = IF BgCapacity < Len(recovery) THEN BgCapacity ELSE Len(recovery)
        /\ DropN(recovery, Len(Recovered)) \in Seq(Tasks)
        /\ recovery = Recovered \o DropN(recovery, Len(Recovered))
    BY <1>0, SplitAt DEF Recovered
  <1> DEFINE n == BgCapacity - Len(Recovered)
  <1>2. n \in Nat
    BY <1>0, <1>1
  <1>3. /\ Taken \in Seq(Tasks)
        /\ Len(Taken) = IF n < Len(pending) THEN n ELSE Len(pending)
        /\ DropN(pending, Len(Taken)) \in Seq(Tasks)
        /\ pending = Taken \o DropN(pending, Len(Taken))
    BY <1>0, <1>2, SplitAt DEF Taken
  <1>4. Batch = Recovered \o Taken
    BY DEF Batch, Taken
  <1>5. Batch \in Seq(Tasks) /\ Len(Batch) = Len(Recovered) + Len(Taken)
    <2>1. Recovered \in Seq(Tasks) /\ Taken \in Seq(Tasks)
      BY <1>1, <1>3
    <2>2. /\ Recovered \o Taken \in Seq(Tasks)
          /\ Len(Recovered \o Taken) = Len(Recovered) + Len(Taken)
      BY <2>1, ConcatElems
    <2> QED
      BY <1>4, <2>2
  <1>6. Len(pending) = Len(Taken) + Len(DropN(pending, Len(Taken)))
    BY <1>3, ConcatElems
  <1>7. HasPending => Len(recovery) # 0 \/ Len(pending) # 0
    BY <1>0, EmptySeq DEF HasPending
  <1>8. Len(Recovered) \in Nat /\ Len(Taken) \in Nat /\ Len(DropN(pending, Len(Taken))) \in Nat
    BY <1>1, <1>3, LenProperties
  <1>9. Len(Batch) <= BgCapacity /\ (HasPending => Len(Batch) \in 1 .. BgCapacity)
    <2>1. Len(Recovered) = IF BgCapacity < Len(recovery) THEN BgCapacity ELSE Len(recovery)
      BY <1>1
    <2>2. Len(Taken) = IF n < Len(pending) THEN n ELSE Len(pending)
      BY <1>3
    <2>3. Len(Batch) = Len(Recovered) + Len(Taken)
      BY <1>5
    <2>4. Len(Batch) <= BgCapacity /\ Len(Batch) \in Nat
      <3>1. Len(Taken) <= BgCapacity - Len(Recovered)
        BY <1>0, <1>2, <1>8, <2>2
      <3> QED
        BY <1>0, <1>8, <2>3, <3>1
    <2>5. Len(recovery) # 0 \/ Len(pending) # 0 => Len(Batch) # 0
      <3>1. CASE Len(Recovered) = 0
        <4>1. Len(recovery) = 0
          BY <1>0, <2>1, <3>1
        <4>2. n = BgCapacity
          BY <1>0, <3>1
        <4>3. Len(pending) # 0 => Len(Taken) # 0
          BY <1>0, <2>2, <4>2
        <4> QED
          BY <1>8, <2>3, <3>1, <4>1, <4>3
      <3>2. CASE Len(Recovered) # 0
        BY <1>8, <2>3, <3>2
      <3> QED
        BY <3>1, <3>2
    <2> QED
      BY <1>0, <1>7, <2>4, <2>5
  <1>10. Len(Batch) - Len(Recovered) = Len(Taken)
    <2>1. Len(Batch) = Len(Recovered) + Len(Taken)
      BY <1>5
    <2> QED
      BY <1>8, <2>1
  <1>11. Len(DropN(pending, Len(Taken))) <= Len(pending)
    BY <1>6, <1>8
  <1> QED
    BY <1>1, <1>3, <1>4, <1>5, <1>9, <1>10, <1>11

\* The end of a sequence, as ack_claim keeps its tombstones
LEMMA LastPart ==
  ASSUME NEW S, NEW s \in Seq(S), NEW n \in Nat
  PROVE  /\ LastN(s, n) \in Seq(S) /\ Len(LastN(s, n)) <= n
         /\ Elems(LastN(s, n)) \subseteq Elems(s)
         /\ Len(s) <= n => LastN(s, n) = s
  <1> DEFINE k == IF n < Len(s) THEN Len(s) - n ELSE 0
  <1>1. k \in 0 .. Len(s) /\ Len(s) \in Nat /\ DOMAIN s = 1 .. Len(s)
    OBVIOUS
  <1>2. \A i \in 1 .. Len(s) : s[i] \in S
    OBVIOUS
  <1>3. LastN(s, n) = SubSeq(s, k + 1, Len(s))
    BY DEF LastN, DropN
  <1>4. Len(s) - k <= n /\ (Len(s) <= n => k = 0)
    <2>1. CASE n < Len(s)
      <3>1. k = Len(s) - n
        BY <2>1
      <3>2. Len(s) - (Len(s) - n) <= n /\ ~ (Len(s) <= n)
        BY <1>1, <2>1
      <3> QED
        BY <3>1, <3>2
    <2>2. CASE ~ (n < Len(s))
      <3>1. k = 0
        BY <2>2
      <3>2. Len(s) - 0 <= n
        BY <1>1, <2>2
      <3> QED
        BY <3>1, <3>2
    <2> QED
      BY <2>1, <2>2
  <1> HIDE DEF k
  <1>5. /\ SubSeq(s, k + 1, Len(s)) \in Seq(S) /\ Len(SubSeq(s, k + 1, Len(s))) = Len(s) - k
        /\ \A i \in 1 .. Len(s) - k : SubSeq(s, k + 1, Len(s))[i] = s[k + i]
    BY <1>1, RestOf DEF DropN
  <1>6. Elems(SubSeq(s, k + 1, Len(s))) \subseteq Elems(s)
    <2>1. DOMAIN SubSeq(s, k + 1, Len(s)) = 1 .. Len(s) - k
      BY <1>5, LenProperties
    <2>2. \A i \in 1 .. Len(s) - k : k + i \in DOMAIN s
      BY <1>1
    <2> QED
      BY <1>5, <2>1, <2>2 DEF Elems
  <1>7. k = 0 => SubSeq(s, k + 1, Len(s)) = s
    <2> HAVE k = 0
    <2>1. \A i \in 1 .. Len(s) : SubSeq(s, k + 1, Len(s))[i] = s[i]
      BY <1>1, <1>5
    <2> QED
      BY <1>1, <1>5, <2>1, SeqEqual
  <1> QED
    BY <1>3, <1>4, <1>5, <1>6, <1>7

\* The inbox of background results
LEMMA InboxTypesKept == ASSUME SlotInv, InboxTypes, [Next]_vars PROVE InboxTypes'
  <1>0. /\ pending \in Seq(Tasks) /\ recovery \in Seq(Tasks) /\ consumed \in Seq(Tasks)
        /\ BgCapacity \in Nat \ {0} /\ MaxTombstones \in Nat /\ Len(pending) \in Nat
        /\ bgClaim # None => bgClaim.run \in RunIds /\ bgClaim.tasks \in Seq(Tasks)
    BY CapacityAssumption DEF InboxTypes, Batches
  <1>1. group' \in [Groups -> {"open", "ready", "claimed"}]
    <2>1. UNCHANGED group \/ \E g \in Groups, x \in {"ready", "claimed"} :
                               group' = [group EXCEPT ![g] = x]
      <3> USE DEF SchedKeeps
      <3>1. CASE Scheduler
        BY <3>1 DEF Scheduler, Recv, ResultGate, RequeueUnacked, Block, Allow, Release,
           CheckPending, TakeForResults, ClaimResults, GroupGate, TakeForGroup, ClaimGroup,
           MessageGate, Peek, TakeForMessage, ClaimHead
      <3>2. ASSUME NEW r \in RunIds, Turn(r) PROVE UNCHANGED group
        BY <3>2 DEF Turn, StartSave, FinalSave, AckClaims, GiveUpStart, Dies
      <3>3. CASE Clients
        BY <3>3 DEF Clients, PostStarts, PostEnqueue, RetractOne, RetractAll, Retract,
           PostBusy, ClientClaims
      <3>4. CASE Arrivals \/ Pinger \/ UNCHANGED vars
        BY <3>4 DEF Arrivals, Report, GroupReady, Pinger, Ping, vars
      <3> QED
        BY <3>1, <3>2, <3>3, <3>4 DEF Next
    <2> QED
      BY <2>1 DEF InboxTypes
  <1>2. CASE UNCHANGED bgVars
    BY <1>1, <1>2 DEF InboxTypes, bgVars
  <1>3. ASSUME NEW r, RequeueResults(r), UNCHANGED <<pending, consumed>> PROVE InboxTypes'
    <2>1. CASE bgClaim # None /\ bgClaim.run = r
      <3>1. recovery' = bgClaim.tasks \o recovery /\ bgClaim' = None
        BY <1>3, <2>1 DEF RequeueResults
      <3>2. recovery' \in Seq(Tasks)
        BY <1>0, <2>1, <3>1, ConcatElems
      <3> QED
        BY <1>1, <1>3, <3>1, <3>2 DEF InboxTypes
    <2>2. CASE ~ (bgClaim # None /\ bgClaim.run = r)
      BY <1>1, <1>3, <2>2 DEF InboxTypes, RequeueResults
    <2> QED
      BY <2>1, <2>2
  <1>4. CASE RequeueUnacked
    BY <1>3, <1>4 DEF RequeueUnacked
  <1>5. ASSUME NEW r \in RunIds, GiveUpStart(r) PROVE InboxTypes'
    BY <1>3, <1>5 DEF GiveUpStart
  <1>6. CASE ClaimResults
    <2>1. CASE bgClaim = None /\ HasPending
      <3>1. /\ bgClaim' = [run |-> sched.next, tasks |-> Batch]
            /\ recovery' = DropN(recovery, Len(Recovered))
            /\ pending' = DropN(pending, Len(Batch) - Len(Recovered)) /\ consumed' = consumed
        BY <1>6, <2>1 DEF ClaimResults, ClaimForSession
      <3>2. sched.next \in RunIds
        BY <1>6 DEF ClaimResults, SlotInv, SlotTypes, SchedulerOwns, ClaimPlaces
      <3>3. /\ Batch \in Seq(Tasks) /\ Len(Batch) \in 1 .. BgCapacity
            /\ recovery' \in Seq(Tasks) /\ pending' \in Seq(Tasks)
            /\ Len(pending') <= Len(pending)
        BY <2>1, <3>1, BatchParts
      <3>4. Len(pending') \in Nat
        BY <3>3
      <3>5. bgClaim' \in Batches /\ Len(bgClaim'.tasks) \in 1 .. BgCapacity
        BY <3>1, <3>2, <3>3 DEF Batches
      <3> QED
        BY <1>0, <1>1, <3>1, <3>3, <3>4, <3>5 DEF InboxTypes
    <2>2. CASE ~ (bgClaim = None /\ HasPending)
      BY <1>1, <1>6, <2>2 DEF ClaimResults, InboxTypes
    <2> QED
      BY <2>1, <2>2
  <1>7. ASSUME NEW t \in Tasks, Report(t) PROVE InboxTypes'
    <2>1. CASE Accepts(t)
      <3>1. pending' = Append(IF PendingFull THEN Tail(pending) ELSE pending, t)
        BY <1>7, <2>1 DEF Report, Enqueue
      <3>2. pending' \in Seq(Tasks) /\ Len(pending') <= BgCapacity
        <4>1. CASE PendingFull
          <5>1. pending # <<>>
            BY <1>0, <4>1 DEF PendingFull
          <5>2. Tail(pending) \in Seq(Tasks) /\ Len(pending) = Len(Tail(pending)) + 1
            BY <1>0, <5>1, HeadAndTail
          <5>3. pending' = Append(Tail(pending), t)
            BY <3>1, <4>1
          <5>4. pending' \in Seq(Tasks) /\ Len(pending') = Len(Tail(pending)) + 1
            BY <5>2, <5>3, AppendElems
          <5> QED
            BY <5>2, <5>4 DEF InboxTypes
        <4>2. CASE ~ PendingFull
          <5>1. pending' = Append(pending, t)
            BY <3>1, <4>2
          <5>2. pending' \in Seq(Tasks) /\ Len(pending') = Len(pending) + 1
            BY <1>0, <5>1, AppendElems
          <5> QED
            BY <1>0, <4>2, <5>2 DEF PendingFull
        <4> QED
          BY <4>1, <4>2
      <3> QED
        BY <1>1, <1>7, <3>2 DEF InboxTypes, Report
    <2>2. CASE ~ Accepts(t)
      BY <1>1, <1>7, <2>2 DEF InboxTypes, Report
    <2> QED
      BY <2>1, <2>2
  <1>8. ASSUME NEW r \in RunIds, AckClaims(r) PROVE InboxTypes'
    <2>1. CASE bgClaim # None /\ bgClaim.run = r
      <3>1. bgClaim' = None /\ consumed' = LastN(consumed \o bgClaim.tasks, MaxTombstones)
        BY <1>8, <2>1 DEF AckClaims, AckResults
      <3>2. consumed \o bgClaim.tasks \in Seq(Tasks)
        BY <1>0, <2>1, ConcatElems
      <3>3. consumed' \in Seq(Tasks) /\ Len(consumed') <= MaxTombstones
        BY <1>0, <3>1, <3>2, LastPart
      <3> QED
        BY <1>1, <1>8, <3>1, <3>3 DEF InboxTypes, AckClaims
    <2>2. CASE ~ (bgClaim # None /\ bgClaim.run = r)
      BY <1>1, <1>8, <2>2 DEF InboxTypes, AckClaims, AckResults
    <2> QED
      BY <2>1, <2>2
  <1> QED
    BY <1>2, <1>4, <1>5, <1>6, <1>7, <1>8, ResultSteps

\* What the turns carry, and what they have persisted
LEMMA TurnTypesKept ==
  ASSUME SlotInv, QueueTypes, InboxTypes, TurnTypes, [Next]_vars
  PROVE  TurnTypes'
  <1>0. runs = [r \in RunIds |-> runs[r]] /\ history \in Seq(Item)
    BY DEF SlotInv, SlotTypes, TurnTypes
  <1>1. history' \in Seq(Item)
    <2>1. ASSUME NEW r \in RunIds, StartSave(r, TRUE) PROVE history' \in Seq(Item)
      <3>1. history' = history \o runs[r].items
        BY <2>1 DEF StartSave
      <3> QED
        BY <1>0, <3>1, ConcatElems DEF TurnTypes
    <2> QED
      BY <1>0, <2>1, HistorySteps
  <1>2. ASSUME NEW r \in RunIds, NEW items \in Seq(Item), SpawnTurn(r, items)
        PROVE  \A x \in RunIds : runs'[x].items \in Seq(Item)
    BY <1>0, <1>2 DEF SpawnTurn, TurnTypes
  <1>3. CASE UNCHANGED runs
    BY <1>1, <1>3 DEF TurnTypes
  <1>4. ASSUME NEW r \in RunIds, NEW p \in Phases, SetPhase(r, p) PROVE TurnTypes'
    BY <1>0, <1>1, <1>4 DEF SetPhase, TurnTypes, SlotInv, SlotTypes
  <1>5. ASSUME NEW m \in Messages, PostStarts(m) PROVE TurnTypes'
    <2>1. Mint \in RunIds /\ <<m>> \in Seq(Item) /\ SpawnTurn(Mint, <<m>>)
      BY <1>5, MintIsFresh DEF PostStarts, Item
    <2> QED
      BY <1>1, <1>2, <2>1 DEF TurnTypes
  <1>6. CASE ClaimResults \/ ClaimGroup \/ ClaimHead
    <2>1. sched.next \in RunIds
      BY <1>6 DEF ClaimResults, ClaimGroup, ClaimHead, SlotInv, SlotTypes, SchedulerOwns,
         ClaimPlaces
    <2>2. UNCHANGED runs \/ \E items \in Seq(Item) : SpawnTurn(sched.next, items)
      <3>1. CASE ClaimResults
        <4>1. Batch \in Seq(Tasks)
          BY BatchParts
        <4>2. Batch \in Seq(Item)
          BY <4>1, SeqMonotonic DEF Item
        <4> QED
          BY <3>1, <4>2 DEF ClaimResults
      <3>2. CASE ClaimGroup
        <4>1. \A g \in Groups : <<g>> \in Seq(Item)
          BY DEF Item
        <4> QED
          BY <3>2, <4>1 DEF ClaimGroup
      <3>3. CASE ClaimHead
        <4>1. queue # <<>> => Head(queue) \in Entry
          BY HeadTailProperties DEF SlotInv, SlotTypes
        <4>2. queue # <<>> => <<Head(queue).msg>> \in Seq(Item)
          BY <4>1 DEF Entry, Item
        <4> QED
          BY <3>3, <4>2 DEF ClaimHead
      <3> QED
        BY <1>6, <3>1, <3>2, <3>3
    <2> QED
      BY <1>1, <1>2, <1>3, <2>1, <2>2 DEF TurnTypes
  <1> QED
    BY <1>3, <1>4, <1>5, <1>6, RunSteps DEF Spawns

\* Every variable keeps its type and every queue its bound.
LEMMA TypesInvariant == Spec => []Types
  <1>1. Init => Types
    <2> SUFFICES ASSUME Init PROVE Types
      OBVIOUS
    <2>1. PostTypes
      BY DEF Init, PostTypes
    <2>2. QueueTypes
      BY CapacityAssumption DEF Init, QueueTypes
    <2>3. InboxTypes
      BY CapacityAssumption DEF Init, InboxTypes
    <2>4. TurnTypes
      <3>1. <<>> \in Seq(Item)
        BY EmptySeq
      <3>2. history = <<>> /\ \A r \in RunIds : runs[r].items = <<>>
        BY DEF Init, Unused
      <3> QED
        BY <3>1, <3>2 DEF TurnTypes
    <2> QED
      BY <2>1, <2>2, <2>3, <2>4 DEF Types
  <1>2. SlotInv /\ Types /\ [Next]_vars => Types'
    BY PostTypesKept, QueueTypesKept, InboxTypesKept, TurnTypesKept DEF Types
  <1> QED
    BY <1>1, <1>2, SlotInvariant, PTL DEF Spec

-----------------------------------------------------------------------------
(* The failed-save barrier                                                 *)

\* The scheduler's places behind a look at the barrier that found it down
PastGate == {"check", "take", "claim", "takeGroup", "claimGroup", "peek", "takeMessage",
             "claimHead"}
SavedInChannel == \E i \in DOMAIN events : events[i].kind = "finished" /\ events[i].ok = TRUE
UnsavedInChannel ==
  \E i \in DOMAIN events : events[i].kind = "finished" /\ events[i].ok = FALSE

\* An unsaved end is behind the barrier, in the channel, or in the scheduler's
\* hands on its way to the barrier.
BarrierInv ==
  /\ blocked \in BOOLEAN /\ unsaved \in BOOLEAN
  /\ sched.pc \in PastGate => ~ blocked
  /\ SavedInChannel => ~ unsaved
  /\ UnsavedInChannel => unsaved
  /\ sched.pc = "requeue" => (unsaved <=> ~ sched.ok)
  /\ sched.pc = "block" => unsaved
  /\ sched.pc = "allow" => ~ unsaved
  /\ unsaved => blocked \/ UnsavedInChannel \/ sched.pc \in {"requeue", "block"}

\* A step that changes neither the barrier, the channel nor the scheduler's place
LEMMA BarrierElsewhere ==
  ASSUME BarrierInv, UNCHANGED <<blocked, unsaved, events, sched>>
  PROVE  BarrierInv'
  BY DEF BarrierInv, SavedInChannel, UnsavedInChannel

\* A turn that ends puts into the channel whether it saved.
LEMMA BarrierEnd ==
  ASSUME SlotInv, BarrierInv, NEW r \in RunIds, Active(r), NEW ok \in BOOLEAN,
         EndTurn(r, ok), UNCHANGED <<blocked, sched>>
  PROVE  BarrierInv'
  <1> DEFINE e == [kind |-> "finished", run |-> r, ok |-> ok]
  <1>1. NoneFinished /\ ~ SchedulerHolds
    BY TurnIsAlone
  <1>2. sched.pc \notin {"requeue", "block", "allow"}
    BY <1>1 DEF SlotInv, SchedulerOwns, SchedulerHolds
  <1>3. events \in Seq(Hint \cup Finished) /\ events' = Append(events, e) /\ unsaved' = ~ ok
    BY DEF SlotInv, SlotTypes, EndTurn
  <1>4. e.kind = "finished" /\ e.ok = ok
    OBVIOUS
  <1> HIDE DEF e
  <1>5. /\ Len(events) \in Nat
        /\ DOMAIN events' = 1 .. Len(events) + 1 /\ DOMAIN events = 1 .. Len(events)
        /\ \A i \in DOMAIN events : events'[i] = events[i]
        /\ events'[Len(events) + 1] = e
    BY <1>3
  <1>6. CASE ok = TRUE
    <2>1. unsaved' = FALSE
      BY <1>3, <1>6
    <2>2. e.ok = TRUE
      BY <1>4, <1>6
    <2>3. ~ UnsavedInChannel'
      BY <1>1, <1>5, <2>2 DEF UnsavedInChannel, NoneFinished
    <2> QED
      BY <1>2, <2>1, <2>3 DEF BarrierInv
  <1>7. CASE ok = FALSE
    <2>1. unsaved' = TRUE
      BY <1>3, <1>7
    <2>2. e.ok = FALSE
      BY <1>4, <1>7
    <2>3. ~ SavedInChannel'
      BY <1>1, <1>5, <2>2 DEF SavedInChannel, NoneFinished
    <2>4. UnsavedInChannel'
      BY <1>4, <1>5, <2>2 DEF UnsavedInChannel
    <2> QED
      BY <1>2, <2>1, <2>3, <2>4 DEF BarrierInv
  <1> QED
    BY <1>6, <1>7

\* A hint says nothing about a turn.
LEMMA BarrierHint ==
  ASSUME SlotInv, BarrierInv, Pinger
  PROVE  BarrierInv'
  <1> PICK kind \in DOMAIN pings : Ping(kind)
    BY DEF Pinger
  <1>1. kind \in {"result", "group"} /\ events \in Seq(Hint \cup Finished)
    BY DEF SlotInv, SlotTypes
  <1>2. /\ Len(events) \in Nat
        /\ DOMAIN events' = 1 .. Len(events) + 1 /\ DOMAIN events = 1 .. Len(events)
        /\ \A i \in DOMAIN events : events'[i] = events[i]
        /\ events'[Len(events) + 1].kind # "finished"
    BY <1>1 DEF Ping
  <1>3. (SavedInChannel' <=> SavedInChannel) /\ (UnsavedInChannel' <=> UnsavedInChannel)
    BY <1>2 DEF SavedInChannel, UnsavedInChannel
  <1> QED
    BY <1>3 DEF BarrierInv, Ping

\* The scheduler takes an event: how the turn ended goes from the channel to it.
LEMMA BarrierRecv ==
  ASSUME SlotInv, BarrierInv, Recv
  PROVE  BarrierInv'
  <1> DEFINE e == Head(events)
  <1> USE DEF Recv, SchedKeeps
  <1>1. /\ events \in Seq(Hint \cup Finished) /\ events # <<>> /\ sched.pc = "recv"
        /\ UNCHANGED <<blocked, unsaved>>
    BY DEF SlotInv, SlotTypes
  <1>2. /\ Len(events) \in Nat
        /\ DOMAIN events = 1 .. Len(events) /\ DOMAIN events' = 1 .. Len(events) - 1
        /\ \A i \in DOMAIN events' : i + 1 \in DOMAIN events /\ events'[i] = events[i + 1]
        /\ 1 \in DOMAIN events /\ e = events[1] /\ e \in Hint \cup Finished
    BY <1>1
  <1>3. CASE e.kind = "finished"
    <2>1. sched' = [pc |-> "requeue", run |-> e.run, ok |-> e.ok, next |-> None]
      BY <1>3
    <2>2. e.ok \in BOOLEAN
      BY <1>2, <1>3 DEF Hint, Finished
    <2>3. ~ SavedInChannel' /\ ~ UnsavedInChannel'
      BY <1>2, <1>3 DEF SavedInChannel, UnsavedInChannel, SlotInv, OneFinished
    <2>4. CASE e.ok = TRUE
      <3>1. SavedInChannel
        BY <1>2, <1>3, <2>4 DEF SavedInChannel
      <3>2. sched'.pc = "requeue" /\ sched'.ok = TRUE
        BY <2>1, <2>4
      <3> QED
        BY <1>1, <2>3, <3>1, <3>2 DEF BarrierInv, PastGate
    <2>5. CASE e.ok = FALSE
      <3>1. UnsavedInChannel
        BY <1>2, <1>3, <2>5 DEF UnsavedInChannel
      <3>2. sched'.pc = "requeue" /\ sched'.ok = FALSE
        BY <2>1, <2>5
      <3> QED
        BY <1>1, <2>3, <3>1, <3>2 DEF BarrierInv, PastGate
    <2> QED
      BY <2>2, <2>4, <2>5
  <1>4. CASE e.kind # "finished"
    <2>1. sched'.pc \in {"gate", "groups"}
      BY <1>4
    <2>2. \A i \in DOMAIN events : events[i].kind = "finished" =>
             i - 1 \in DOMAIN events' /\ events'[i - 1] = events[i]
      <3> SUFFICES ASSUME NEW i \in DOMAIN events, events[i].kind = "finished"
                   PROVE  i - 1 \in DOMAIN events' /\ events'[i - 1] = events[i]
        OBVIOUS
      <3>1. i # 1
        BY <1>2, <1>4
      <3>2. i - 1 \in DOMAIN events' /\ (i - 1) + 1 = i
        BY <1>2, <3>1
      <3> QED
        BY <1>2, <3>2
    <2>3. (SavedInChannel' <=> SavedInChannel) /\ (UnsavedInChannel' <=> UnsavedInChannel)
      BY <1>2, <2>2 DEF SavedInChannel, UnsavedInChannel
    <2> QED
      BY <1>1, <2>1, <2>3 DEF BarrierInv, PastGate
  <1> QED
    BY <1>3, <1>4

\* The scheduler's other steps: the barrier is raised before an unsaved turn's
\* claim is released, lowered only after a saved turn, and looked at on the way
\* to every continuation.
LEMMA BarrierScheduler ==
  ASSUME SlotInv, BarrierInv, Scheduler
  PROVE  BarrierInv'
  <1> USE DEF SchedKeeps
  <1>0. sched \in SchedulerState
    BY DEF SlotInv, SlotTypes
  <1>1. ASSUME NEW p \in Places, Goto(p), UNCHANGED <<unsaved, events, blocked>>,
               p \notin {"requeue", "block", "allow"}, p \in PastGate => ~ blocked,
               sched.pc \notin {"requeue", "block"}
        PROVE  BarrierInv'
    <2>1. sched'.pc = p
      BY <1>0, <1>1 DEF Goto, SchedulerState
    <2> QED
      BY <1>1, <2>1 DEF BarrierInv, SavedInChannel, UnsavedInChannel
  <1>2. CASE RequeueUnacked
    <2>1. sched' = [sched EXCEPT !.pc = IF sched.ok THEN "allow" ELSE "block"]
      BY <1>2 DEF RequeueUnacked, Goto
    <2>2. UNCHANGED <<unsaved, events, blocked>> /\ sched.pc = "requeue" /\ sched.ok \in BOOLEAN
      BY <1>0, <1>2 DEF RequeueUnacked, SchedulerState
    <2>3. CASE sched.ok = TRUE
      <3>1. sched'.pc = "allow" /\ unsaved = FALSE
        BY <1>0, <2>1, <2>2, <2>3 DEF SchedulerState, BarrierInv
      <3> QED
        BY <2>2, <3>1 DEF BarrierInv, PastGate, SavedInChannel, UnsavedInChannel
    <2>4. CASE sched.ok = FALSE
      <3>1. sched'.pc = "block" /\ unsaved = TRUE
        BY <1>0, <2>1, <2>2, <2>4 DEF SchedulerState, BarrierInv
      <3> QED
        BY <2>2, <3>1 DEF BarrierInv, PastGate, SavedInChannel, UnsavedInChannel
    <2> QED
      BY <2>2, <2>3, <2>4
  <1>3. CASE Block
    <2>1. sched'.pc = "release" /\ blocked' = TRUE /\ UNCHANGED <<unsaved, events>>
      BY <1>0, <1>3 DEF Block, Goto, SchedulerState
    <2> QED
      BY <2>1 DEF BarrierInv, PastGate, SavedInChannel, UnsavedInChannel
  <1>4. CASE Allow
    <2>1. sched'.pc = "check" /\ blocked' = FALSE /\ UNCHANGED <<unsaved, events>>
      BY <1>0, <1>4 DEF Allow, Goto, SchedulerState
    <2>2. unsaved = FALSE
      BY <1>4 DEF Allow, BarrierInv
    <2> QED
      BY <2>1, <2>2 DEF BarrierInv, PastGate, SavedInChannel, UnsavedInChannel
  <1>5. CASE ResultGate \/ GroupGate \/ MessageGate
    <2>1. CASE ResultGate
      BY <1>1, <2>1 DEF ResultGate, Places, PastGate
    <2>2. CASE GroupGate
      BY <1>1, <2>2 DEF GroupGate, Places, PastGate
    <2>3. CASE MessageGate
      BY <1>1, <2>3 DEF MessageGate, Places, PastGate
    <2> QED
      BY <1>5, <2>1, <2>2, <2>3
  <1>6. ASSUME UNCHANGED <<unsaved, events, blocked>>, sched.pc \notin {"requeue", "block"},
               sched'.pc \notin {"requeue", "block", "allow"},
               sched'.pc \in PastGate => sched.pc \in PastGate
        PROVE  BarrierInv'
    BY <1>6 DEF BarrierInv, SavedInChannel, UnsavedInChannel
  <1>7. CASE Release
    BY <1>0, <1>6, <1>7 DEF Release, SchedulerState, PastGate
  <1>8. CASE CheckPending
    BY <1>0, <1>6, <1>8 DEF CheckPending, Goto, SchedulerState, PastGate
  <1>9. CASE TakeForResults
    BY <1>0, <1>6, <1>9 DEF TakeForResults, SchedulerState, PastGate
  <1>10. CASE ClaimResults
    BY <1>0, <1>6, <1>10 DEF ClaimResults, Goto, SchedulerState, PastGate
  <1>11. CASE TakeForGroup
    BY <1>0, <1>6, <1>11 DEF TakeForGroup, Goto, SchedulerState, PastGate
  <1>12. CASE ClaimGroup
    BY <1>0, <1>6, <1>12 DEF ClaimGroup, Goto, SchedulerState, PastGate, chanVars
  <1>13. CASE Peek
    BY <1>0, <1>6, <1>13 DEF Peek, SchedulerState, PastGate
  <1>14. CASE TakeForMessage
    BY <1>0, <1>6, <1>14 DEF TakeForMessage, Goto, SchedulerState, PastGate
  <1>15. CASE ClaimHead
    BY <1>0, <1>6, <1>15 DEF ClaimHead, Goto, SchedulerState, PastGate
  <1> QED
    BY <1>2, <1>3, <1>4, <1>5, <1>7, <1>8, <1>9, <1>10, <1>11, <1>12, <1>13, <1>14, <1>15,
       BarrierRecv DEF Scheduler

\* Every step keeps the barrier's invariant.
LEMMA BarrierStep ==
  ASSUME SlotInv, BarrierInv, [Next]_vars
  PROVE  BarrierInv'
  <1> USE DEF chanVars
  <1>1. ASSUME NEW r \in RunIds, Turn(r) PROVE BarrierInv'
    <2>1. ASSUME NEW ok \in BOOLEAN, StartSave(r, ok) PROVE BarrierInv'
      BY <2>1, BarrierElsewhere DEF StartSave
    <2>2. CASE AckClaims(r)
      BY <2>2, BarrierElsewhere DEF AckClaims
    <2>3. CASE GiveUpStart(r)
      BY <2>3, BarrierEnd DEF GiveUpStart, Active
    <2>4. CASE Dies(r)
      BY <2>4, BarrierEnd DEF Dies, Active
    <2>5. ASSUME NEW ok \in BOOLEAN, FinalSave(r, ok) PROVE BarrierInv'
      BY <2>5, BarrierEnd DEF FinalSave, Active
    <2> QED
      BY <1>1, <2>1, <2>2, <2>3, <2>4, <2>5 DEF Turn
  <1>2. CASE Clients
    <2>1. UNCHANGED <<blocked, unsaved, events, sched>>
      BY <1>2 DEF Clients, PostStarts, PostEnqueue, RetractOne, RetractAll, Retract,
         PostBusy, ClientClaims
    <2> QED
      BY <2>1, BarrierElsewhere
  <1>3. CASE Arrivals
    BY <1>3, BarrierElsewhere DEF Arrivals, Report, GroupReady
  <1>4. CASE UNCHANGED vars
    BY <1>4, BarrierElsewhere DEF vars
  <1> QED
    BY <1>1, <1>2, <1>3, <1>4, BarrierScheduler, BarrierHint DEF Next

\* With nothing saved behind it the scheduler spawns no turn: at a place where it
\* could, the barrier is down, no end is in the channel, and none is in its hands.
LEMMA SchedulerSpawnsOverSaved ==
  ASSUME SlotInv, BarrierInv, sched.pc \in ClaimPlaces
  PROVE  ~ unsaved
  <1>1. NoneFinished
    BY DEF SlotInv, OneHolder, SchedulerHolds
  <1>2. ~ UnsavedInChannel
    BY <1>1 DEF UnsavedInChannel, NoneFinished
  <1> QED
    BY <1>2 DEF BarrierInv, ClaimPlaces, PastGate

\* The barrier's invariant
LEMMA BarrierInvariant == Spec => []BarrierInv
  <1>1. Init => BarrierInv
    <2> SUFFICES ASSUME Init PROVE BarrierInv
      OBVIOUS
    <2>1. ~ SavedInChannel /\ ~ UnsavedInChannel
      BY DEF Init, SavedInChannel, UnsavedInChannel
    <2>2. sched.pc = "recv" /\ unsaved = FALSE /\ blocked = FALSE
      BY DEF Init
    <2> QED
      BY <2>1, <2>2 DEF BarrierInv, PastGate
  <1>2. BarrierInv /\ SlotInv /\ [Next]_vars => BarrierInv'
    BY BarrierStep
  <1> QED
    BY <1>1, <1>2, SlotInvariant, PTL DEF Spec

\* The scheduler starts no turn on top of a turn whose history was not saved, for
\* any number of runs, failures and hints: only a client's own run gets past the
\* failed-save barrier (block_background_continuation and its three checks).
THEOREM BarrierTheorem == Spec => NoContinuationOverUnsaved
  <1> DEFINE A == \A r \in RunIds : ~ Active(r) /\ Active(r)' /\ unsaved => Direct(r)'
  <1>2. ASSUME SlotInv, Types, BarrierInv, [Next]_vars PROVE A
    <2>1. ASSUME NEW m \in Messages, PostStarts(m) PROVE A
      <3>1. Mint \in RunIds
        BY <2>1, MintIsFresh DEF PostStarts
      <3>2. /\ runs = [r \in RunIds |-> runs[r]]
            /\ runs' = [runs EXCEPT ![Mint] = [phase |-> "starting", items |-> <<m>>]]
        BY <1>2, <2>1 DEF PostStarts, SpawnTurn, SlotInv, SlotTypes
      <3>3. \A r \in RunIds : ~ Active(r) /\ Active(r)' => r = Mint
        BY <3>2 DEF Active
      <3>4. runs'[Mint].items = <<m>>
        BY <3>1, <3>2
      <3>5. post'[m] = "started"
        BY <1>2, <2>1 DEF PostStarts, Types, PostTypes
      <3> QED
        BY <3>3, <3>4, <3>5 DEF Direct
    <2>2. CASE ClaimResults \/ ClaimGroup \/ ClaimHead
      <3>1. sched.pc \in ClaimPlaces
        BY <2>2 DEF ClaimResults, ClaimGroup, ClaimHead, ClaimPlaces
      <3> QED
        BY <1>2, <3>1, SchedulerSpawnsOverSaved
    <2> QED
      BY <1>2, <2>1, <2>2, BeginsNone DEF Spawns
  <1>3. SlotInv /\ Types /\ BarrierInv /\ [Next]_vars => A
    BY <1>2
  <1> QED
    BY <1>3, SlotInvariant, TypesInvariant, BarrierInvariant, PTL
    DEF Spec, NoContinuationOverUnsaved

-----------------------------------------------------------------------------
(* Background results                                                      *)

\* A claimed batch is held with the slot: by its turn, by that turn's end in the
\* channel, or by the scheduler before it has requeued what was not acknowledged.
BatchHeld ==
  bgClaim # None => slot = bgClaim.run /\ (SchedulerHolds => sched.pc = "requeue")

\* The batch is what its turn carries; once acknowledged it is no claim any more.
BatchCarried ==
  bgClaim # None /\ Active(bgClaim.run) =>
    runs[bgClaim.run].items = bgClaim.tasks /\ runs[bgClaim.run].phase # "running"

BatchSaved == bgClaim # None /\ runs[bgClaim.run].phase = "saved"
SavedIsDurable == BatchSaved => Elems(bgClaim.tasks) \subseteq Elems(history)

ResultInv == BatchHeld /\ BatchCarried /\ SavedIsDurable /\ NoResultLost

\* Whoever is about to spawn a turn finds no batch claimed.
LEMMA NoBatchBehind ==
  ASSUME SlotInv, InboxTypes, BatchHeld, slot = None \/ sched.pc \in ClaimPlaces
  PROVE  bgClaim = None
  BY NoneAssumption
  DEF BatchHeld, InboxTypes, Batches, SchedulerHolds, ClaimPlaces

\* No step lets go of a claimed batch's slot.
LEMMA BatchHeldKept ==
  ASSUME SlotInv, InboxTypes, BatchHeld, [Next]_vars
  PROVE  BatchHeld'
  <1>0. sched \in SchedulerState /\ SchedulerOwns
    BY DEF SlotInv, SlotTypes
  <1> USE DEF SchedKeeps, slotVars, bgVars
  <1>1. ASSUME bgClaim' = None PROVE BatchHeld'
    BY <1>1 DEF BatchHeld
  <1>2. ASSUME UNCHANGED <<bgClaim, slot, sched>> PROVE BatchHeld'
    BY <1>2 DEF BatchHeld, SchedulerHolds
  <1>3. ASSUME UNCHANGED <<bgClaim, slot>>, SchedulerHolds' => SchedulerHolds,
               sched.pc # "requeue"
        PROVE  BatchHeld'
    BY <1>3 DEF BatchHeld
  <1>4. ASSUME UNCHANGED bgClaim, slot = None \/ (SchedulerHolds /\ sched.pc # "requeue")
        PROVE  BatchHeld'
    BY <1>4, NoneAssumption DEF BatchHeld, InboxTypes, Batches
  <1>5. ASSUME NEW r \in RunIds, Turn(r) PROVE BatchHeld'
    <2>1. UNCHANGED <<slot, sched>> /\ (bgClaim' = bgClaim \/ bgClaim' = None)
      BY <1>5 DEF Turn, StartSave, FinalSave, AckClaims, GiveUpStart, Dies, AckResults,
         RequeueResults
    <2> QED
      BY <1>1, <1>2, <2>1
  <1>6. CASE Clients
    <2>1. ASSUME NEW m \in Messages, PostStarts(m) PROVE BatchHeld'
      BY <1>4, <2>1 DEF PostStarts, RegistryClaim
    <2> QED
      BY <1>2, <1>6, <2>1 DEF Clients, PostEnqueue, RetractOne, RetractAll, Retract, PostBusy,
         ClientClaims
  <1>7. CASE Arrivals \/ Pinger \/ UNCHANGED vars
    BY <1>2, <1>7 DEF Arrivals, Report, GroupReady, Pinger, Ping, vars
  <1>8. CASE Recv
    <2>1. UNCHANGED <<bgClaim, slot>>
      BY <1>8 DEF Recv
    <2>2. SchedulerHolds' => sched'.pc = "requeue"
      BY <1>8 DEF Recv, SchedulerHolds, ClaimPlaces
    <2> QED
      BY <2>1, <2>2 DEF BatchHeld
  <1>9. CASE RequeueUnacked
    <2>1. sched.run = slot /\ sched.pc = "requeue"
      BY <1>0, <1>9 DEF RequeueUnacked, SchedulerOwns
    <2>2. bgClaim # None => bgClaim.run = sched.run
      BY <2>1 DEF BatchHeld
    <2>3. bgClaim' = None
      BY <1>9, <2>2 DEF RequeueUnacked, RequeueResults
    <2> QED
      BY <1>1, <2>3
  <1>10. CASE Block \/ Allow \/ Release
    <2>1. SchedulerHolds /\ sched.pc # "requeue" /\ UNCHANGED bgClaim
      BY <1>0, <1>10 DEF Block, Allow, Release, SchedulerOwns, SchedulerHolds
    <2> QED
      BY <1>4, <2>1
  <1>11. CASE ResultGate \/ CheckPending \/ GroupGate \/ MessageGate \/ Peek
    <2>1. UNCHANGED <<bgClaim, slot>> /\ sched.pc # "requeue" /\ sched'.run = sched.run
          /\ sched'.pc \notin ClaimPlaces
      BY <1>0, <1>11 DEF ResultGate, CheckPending, GroupGate, MessageGate, Peek, Goto,
         SchedulerState, ClaimPlaces
    <2> QED
      BY <1>3, <2>1 DEF SchedulerHolds
  <1>12. CASE TakeForResults
    <2>1. CASE sched.run # None
      BY <1>4, <1>12, <2>1 DEF TakeForResults, SchedulerHolds
    <2>2. CASE sched.run = None /\ UNCHANGED slot
      <3>1. SchedulerHolds' => SchedulerHolds
        BY <1>0, <1>12, <2>2, MintIsFresh, NoneAssumption
        DEF TakeForResults, SchedulerHolds, ClaimPlaces, SchedulerState, RegistryClaim
      <3> QED
        BY <1>3, <1>12, <2>2, <3>1 DEF TakeForResults
    <2>3. CASE sched.run = None /\ slot' # slot
      BY <1>4, <1>12, <2>3 DEF TakeForResults, RegistryClaim
    <2> QED
      BY <2>1, <2>2, <2>3
  <1>13. CASE TakeForGroup
    <2>1. CASE RegistryClaim(Mint)
      BY <1>4, <1>13, <2>1 DEF TakeForGroup, RegistryClaim
    <2>2. CASE Goto("message") /\ UNCHANGED slot
      <3>1. SchedulerHolds' => SchedulerHolds
        BY <1>0, <2>2 DEF Goto, SchedulerHolds, ClaimPlaces, SchedulerState
      <3> QED
        BY <1>3, <1>13, <2>2, <3>1 DEF TakeForGroup
    <2> QED
      BY <1>13, <2>1, <2>2 DEF TakeForGroup
  <1>14. CASE TakeForMessage
    <2>1. CASE RegistryClaim(sched.next)
      BY <1>4, <1>14, <2>1 DEF TakeForMessage, RegistryClaim
    <2>2. CASE Goto("recv") /\ UNCHANGED slot
      <3>1. SchedulerHolds' => SchedulerHolds
        BY <1>0, <2>2 DEF Goto, SchedulerHolds, ClaimPlaces, SchedulerState
      <3> QED
        BY <1>3, <1>14, <2>2, <3>1 DEF TakeForMessage
    <2> QED
      BY <1>14, <2>1, <2>2 DEF TakeForMessage
  <1>15. CASE ClaimGroup \/ ClaimHead
    <2>1. SchedulerHolds /\ sched.pc # "requeue" /\ UNCHANGED bgClaim
      BY <1>15 DEF ClaimGroup, ClaimHead, SchedulerHolds, ClaimPlaces
    <2> QED
      BY <1>4, <2>1
  <1>16. CASE ClaimResults
    <2>0. sched.pc = "claim" /\ sched.next = slot /\ sched.run = None
      BY <1>0, <1>16 DEF ClaimResults, SchedulerOwns, ClaimPlaces
    <2>1. CASE bgClaim = None /\ HasPending
      <3>1. bgClaim' = [run |-> sched.next, tasks |-> Batch] /\ slot' = slot /\ Goto("recv")
        BY <1>16, <2>1 DEF ClaimResults, ClaimForSession
      <3>2. ~ SchedulerHolds'
        BY <1>0, <2>0, <3>1 DEF Goto, SchedulerHolds, ClaimPlaces, SchedulerState
      <3> QED
        BY <2>0, <3>1, <3>2 DEF BatchHeld
    <2>2. CASE ~ (bgClaim = None /\ HasPending)
      BY <1>4, <1>16, <2>0, <2>2 DEF ClaimResults, SchedulerHolds, ClaimPlaces
    <2> QED
      BY <2>1, <2>2
  <1> QED
    BY <1>5, <1>6, <1>7, <1>8, <1>9, <1>10, <1>11, <1>12, <1>13, <1>14, <1>15, <1>16
    DEF Next, Scheduler

\* The persisted history only grows.
LEMMA HistoryGrows ==
  ASSUME Types, [Next]_vars
  PROVE  Elems(history) \subseteq Elems(history)'
  <1>1. ASSUME NEW r \in RunIds, StartSave(r, TRUE)
        PROVE  Elems(history) \subseteq Elems(history)'
    <2>1. history' = history \o runs[r].items
      BY <1>1 DEF StartSave
    <2>2. history \in Seq(Item) /\ runs[r].items \in Seq(Item)
      BY DEF Types, TurnTypes
    <2>3. Elems(history \o runs[r].items) = Elems(history) \cup Elems(runs[r].items)
      BY <2>2, ConcatElems
    <2> QED
      BY <2>1, <2>3
  <1> QED
    BY <1>1, HistorySteps

\* A turn carries the batch it holds, and its start save makes the batch durable.
LEMMA BatchFollowed ==
  ASSUME SlotInv, Types, BatchHeld, BatchCarried, SavedIsDurable, [Next]_vars
  PROVE  BatchCarried' /\ SavedIsDurable'
  <1>0. /\ runs = [r \in RunIds |-> runs[r]] /\ sched \in SchedulerState
        /\ \A r \in RunIds : runs[r] = [x \in {"phase", "items"} |-> runs[r][x]]
        /\ bgClaim # None => bgClaim.run \in RunIds
        /\ Elems(history) \subseteq Elems(history)'
    BY HistoryGrows DEF SlotInv, SlotTypes, Types, InboxTypes, Batches
  <1>1. ASSUME bgClaim' = None PROVE BatchCarried' /\ SavedIsDurable'
    BY <1>1 DEF BatchCarried, SavedIsDurable, BatchSaved
  <1>2. ASSUME UNCHANGED <<bgClaim, runs>> PROVE BatchCarried' /\ SavedIsDurable'
    BY <1>0, <1>2 DEF BatchCarried, SavedIsDurable, BatchSaved, Active
  <1>3. ASSUME NEW m \in Messages, PostStarts(m) PROVE BatchCarried' /\ SavedIsDurable'
    <2>1. bgClaim = None /\ bgClaim' = bgClaim
      BY <1>3, NoBatchBehind DEF PostStarts, RegistryClaim, bgVars, Types
    <2> QED
      BY <1>1, <2>1
  <1>4. CASE ClaimGroup \/ ClaimHead
    <2>1. bgClaim = None /\ bgClaim' = bgClaim
      BY <1>4, NoBatchBehind DEF ClaimGroup, ClaimHead, ClaimPlaces, bgVars, Types
    <2> QED
      BY <1>1, <2>1
  <1>5. CASE ClaimResults
    <2>1. CASE bgClaim = None /\ HasPending
      <3>1. sched.next \in RunIds
        BY <1>5 DEF ClaimResults, SlotInv, SlotTypes, SchedulerOwns, ClaimPlaces
      <3>2. /\ bgClaim' = [run |-> sched.next, tasks |-> Batch]
            /\ runs' = [runs EXCEPT ![sched.next] = [phase |-> "starting", items |-> Batch]]
        BY <1>5, <2>1 DEF ClaimResults, ClaimForSession, SpawnTurn
      <3>3. /\ bgClaim'.run = sched.next /\ bgClaim'.tasks = Batch
            /\ runs'[sched.next].items = Batch /\ runs'[sched.next].phase = "starting"
        BY <1>0, <3>1, <3>2
      <3> QED
        BY <3>3 DEF BatchCarried, SavedIsDurable, BatchSaved
    <2>2. CASE ~ (bgClaim = None /\ HasPending)
      BY <1>2, <1>5, <2>2 DEF ClaimResults
    <2> QED
      BY <2>1, <2>2
  <1>6. ASSUME NEW r \in RunIds, Turn(r) PROVE BatchCarried' /\ SavedIsDurable'
    <2>0. Active(r)
      BY <1>6 DEF Turn, StartSave, FinalSave, AckClaims, GiveUpStart, Dies, Active
    <2>1. bgClaim # None => bgClaim.run = r
      BY <2>0, TurnIsAlone DEF BatchHeld
    <2>2. ASSUME NEW ok \in BOOLEAN, StartSave(r, ok) PROVE BatchCarried' /\ SavedIsDurable'
      <3>1. /\ bgClaim' = bgClaim /\ runs[r].phase = "starting"
            /\ runs' = [runs EXCEPT ![r].phase = IF ok THEN "saved" ELSE "unstarted"]
        BY <2>2 DEF StartSave, SetPhase, bgVars
      <3>2. /\ runs'[r].items = runs[r].items
            /\ runs'[r].phase = IF ok THEN "saved" ELSE "unstarted"
        BY <1>0, <3>1
      <3>3. BatchCarried'
        BY <2>0, <2>1, <3>1, <3>2 DEF BatchCarried
      <3>4. CASE ok = TRUE
        <4>1. history' = history \o runs[r].items
          BY <2>2, <3>4 DEF StartSave
        <4>2. history \in Seq(Item) /\ runs[r].items \in Seq(Item)
          BY DEF Types, TurnTypes
        <4>3. Elems(history') = Elems(history) \cup Elems(runs[r].items)
          BY <4>1, <4>2, ConcatElems
        <4>4. bgClaim # None => runs[r].items = bgClaim.tasks
          BY <2>0, <2>1 DEF BatchCarried
        <4> QED
          BY <3>1, <3>3, <4>3, <4>4 DEF SavedIsDurable, BatchSaved
      <3>5. CASE ok = FALSE
        BY <2>1, <3>1, <3>2, <3>3, <3>5 DEF SavedIsDurable, BatchSaved
      <3> QED
        BY <3>4, <3>5
    <2>3. CASE AckClaims(r) \/ GiveUpStart(r)
      <3>1. bgClaim' = None
        BY <2>1, <2>3 DEF AckClaims, GiveUpStart, AckResults, RequeueResults
      <3> QED
        BY <1>1, <3>1
    <2>4. ASSUME NEW ok \in BOOLEAN, Dies(r) \/ FinalSave(r, ok)
          PROVE  BatchCarried' /\ SavedIsDurable'
      <3>1. bgClaim' = bgClaim /\ runs' = [runs EXCEPT ![r].phase = "ended"]
        BY <2>4 DEF Dies, FinalSave, EndTurn, SetPhase, bgVars
      <3>2. runs'[r].phase = "ended"
        BY <1>0, <3>1
      <3> QED
        BY <2>1, <3>1, <3>2 DEF BatchCarried, SavedIsDurable, BatchSaved, Active
    <2> QED
      BY <1>6, <2>2, <2>3, <2>4 DEF Turn
  <1>7. CASE RequeueUnacked
    <2>1. UNCHANGED runs /\ (bgClaim' = bgClaim \/ bgClaim' = None)
      BY <1>7 DEF RequeueUnacked, RequeueResults, slotVars
    <2> QED
      BY <1>1, <1>2, <2>1
  <1>8. ASSUME UNCHANGED runs, UNCHANGED bgVars PROVE BatchCarried' /\ SavedIsDurable'
    BY <1>2, <1>8 DEF bgVars
  <1>9. ASSUME NEW t \in Tasks, Report(t) PROVE BatchCarried' /\ SavedIsDurable'
    BY <1>2, <1>9 DEF Report, slotVars
  <1>10. UNCHANGED runs \/ Spawns \/ \E r \in RunIds : Turn(r)
    BY RunSteps
  <1>11. \/ UNCHANGED bgVars \/ RequeueUnacked \/ ClaimResults \/ \E t \in Tasks : Report(t)
         \/ \E r \in RunIds : Turn(r)
    BY ResultSteps DEF Turn
  <1> QED
    BY <1>3, <1>4, <1>5, <1>6, <1>7, <1>8, <1>9, <1>10, <1>11 DEF Spawns

\* Requeueing a batch moves it within the inbox.
LEMMA RequeueKeepsLive ==
  ASSUME InboxTypes, NEW r, RequeueResults(r), UNCHANGED pending
  PROVE  Live' = Live
  <1>1. CASE bgClaim # None /\ bgClaim.run = r
    <2>1. recovery' = bgClaim.tasks \o recovery /\ bgClaim' = None
      BY <1>1 DEF RequeueResults
    <2>2. Claimed = bgClaim.tasks /\ Claimed' = <<>>
      BY <1>1, <2>1 DEF Claimed
    <2>3. bgClaim.tasks \in Seq(Tasks) /\ recovery \in Seq(Tasks)
      BY <1>1 DEF InboxTypes, Batches
    <2>4. Elems(bgClaim.tasks \o recovery) = Elems(bgClaim.tasks) \cup Elems(recovery)
      BY <2>3, ConcatElems
    <2>5. Elems(recovery') = Elems(bgClaim.tasks) \cup Elems(recovery)
      BY <2>1, <2>4
    <2>6. Elems(<<>>) = {}
      BY DEF Elems
    <2> QED
      BY <2>2, <2>5, <2>6 DEF Live
  <1>2. CASE ~ (bgClaim # None /\ bgClaim.run = r)
    BY <1>2 DEF RequeueResults, Live, Claimed
  <1> QED
    BY <1>1, <1>2

\* Claiming a batch moves it within the inbox.
LEMMA ClaimKeepsLive ==
  ASSUME InboxTypes, NEW r \in RunIds, bgClaim = None, ClaimForSession(r)
  PROVE  /\ Live' = Live /\ Claimed' = Batch
         /\ Elems(Batch) = Elems(Recovered) \cup Elems(Taken)
         /\ Elems(recovery) = Elems(Recovered) \cup Elems(recovery')
         /\ Elems(pending) = Elems(Taken) \cup Elems(pending')
  <1>1. /\ bgClaim' = [run |-> r, tasks |-> Batch]
        /\ recovery' = DropN(recovery, Len(Recovered))
        /\ pending' = DropN(pending, Len(Taken))
    BY BatchParts DEF ClaimForSession
  <1>2. /\ Recovered \in Seq(Tasks) /\ Taken \in Seq(Tasks) /\ Batch \in Seq(Tasks)
        /\ recovery' \in Seq(Tasks) /\ pending' \in Seq(Tasks)
        /\ Batch = Recovered \o Taken /\ recovery = Recovered \o recovery'
        /\ pending = Taken \o pending'
    BY <1>1, BatchParts
  <1>3. bgClaim' # None
    <2>1. bgClaim' \in [run : RunIds, tasks : Seq(Tasks)]
      BY <1>1, <1>2
    <2> QED
      BY <2>1, KindsAssumption
  <1>4. Claimed' = Batch /\ Claimed = <<>>
    BY <1>1, <1>3 DEF Claimed
  <1>5. /\ Elems(Batch) = Elems(Recovered) \cup Elems(Taken)
        /\ Elems(recovery) = Elems(Recovered) \cup Elems(recovery')
        /\ Elems(pending) = Elems(Taken) \cup Elems(pending')
    BY <1>2, ConcatElems
  <1>6. Elems(<<>>) = {}
    BY DEF Elems
  <1> QED
    BY <1>4, <1>5, <1>6 DEF Live

\* No result is lost: a result leaves the inbox when it is durable, or at capacity.
LEMMA NoResultLostKept ==
  ASSUME SlotInv, Types, BatchHeld, SavedIsDurable, NoResultLost, [Next]_vars
  PROVE  NoResultLost'
  <1>0. Elems(history) \subseteq Elems(history)' /\ InboxTypes
    BY HistoryGrows DEF Types
  <1>1. ASSUME Live' = Live, UNCHANGED <<accepted, evicted>> PROVE NoResultLost'
    BY <1>0, <1>1 DEF NoResultLost
  <1>2. CASE UNCHANGED bgVars
    BY <1>1, <1>2 DEF bgVars, Live, Claimed
  <1>3. CASE RequeueUnacked
    BY <1>0, <1>1, <1>3, RequeueKeepsLive DEF RequeueUnacked
  <1>4. ASSUME NEW r \in RunIds, GiveUpStart(r) PROVE NoResultLost'
    BY <1>0, <1>1, <1>4, RequeueKeepsLive DEF GiveUpStart
  <1>5. CASE ClaimResults
    <2>1. CASE bgClaim = None /\ HasPending
      <3>1. sched.next \in RunIds
        BY <1>5 DEF ClaimResults, SlotInv, SlotTypes, SchedulerOwns, ClaimPlaces
      <3>2. Live' = Live
        BY <1>0, <1>5, <2>1, <3>1, ClaimKeepsLive DEF ClaimResults
      <3> QED
        BY <1>1, <1>5, <3>2 DEF ClaimResults
    <2>2. CASE ~ (bgClaim = None /\ HasPending)
      BY <1>1, <1>5, <2>2 DEF ClaimResults, Live, Claimed
    <2> QED
      BY <2>1, <2>2
  <1>6. ASSUME NEW t \in Tasks, Report(t) PROVE NoResultLost'
    <2>1. CASE Accepts(t)
      <3>1. Live \cup {t} \cup evicted \subseteq Live' \cup evicted'
        <4>1. pending \in Seq(Tasks)
          BY <1>0 DEF InboxTypes
        <4>2. recovery' = recovery /\ Claimed' = Claimed
          BY <1>6 DEF Report, Claimed
        <4>3. CASE PendingFull
          <5>1. pending # <<>>
            BY <4>1, <4>3, CapacityAssumption DEF PendingFull
          <5>2. pending' = Append(Tail(pending), t) /\ evicted' = evicted \cup {Head(pending)}
            BY <1>6, <2>1, <4>3 DEF Report, Enqueue
          <5>3. /\ Elems(pending) = {Head(pending)} \cup Elems(Tail(pending))
                /\ Tail(pending) \in Seq(Tasks)
            BY <4>1, <5>1, HeadAndTail
          <5>4. Elems(pending') = Elems(Tail(pending)) \cup {t}
            BY <5>2, <5>3, AppendElems
          <5> QED
            BY <4>2, <5>2, <5>3, <5>4 DEF Live
        <4>4. CASE ~ PendingFull
          <5>1. pending' = Append(pending, t) /\ evicted' = evicted
            BY <1>6, <2>1, <4>4 DEF Report, Enqueue
          <5>2. Elems(pending') = Elems(pending) \cup {t}
            BY <4>1, <5>1, AppendElems
          <5> QED
            BY <4>2, <5>1, <5>2 DEF Live
        <4> QED
          BY <4>3, <4>4
      <3>2. accepted' = accepted \cup {t}
        BY <1>6, <2>1 DEF Report, Enqueue
      <3> QED
        BY <1>0, <3>1, <3>2 DEF NoResultLost
    <2>2. CASE ~ Accepts(t)
      BY <1>1, <1>6, <2>2 DEF Report, Live, Claimed
    <2> QED
      BY <2>1, <2>2
  <1>7. ASSUME NEW r \in RunIds, AckClaims(r) PROVE NoResultLost'
    <2>1. UNCHANGED <<pending, recovery, accepted, evicted, history>> /\ runs[r].phase = "saved"
      BY <1>7 DEF AckClaims
    <2>2. CASE bgClaim # None /\ bgClaim.run = r
      <3>1. Elems(Claimed) \subseteq Elems(history)
        BY <2>1, <2>2 DEF SavedIsDurable, BatchSaved, Claimed
      <3>2. Live \subseteq Live' \cup Elems(Claimed)
        BY <2>1 DEF Live
      <3> QED
        BY <1>0, <2>1, <3>1, <3>2 DEF NoResultLost
    <2>3. CASE ~ (bgClaim # None /\ bgClaim.run = r)
      BY <1>1, <1>7, <2>1, <2>3 DEF AckClaims, AckResults, Live, Claimed
    <2> QED
      BY <2>2, <2>3
  <1> QED
    BY <1>2, <1>3, <1>4, <1>5, <1>6, <1>7, ResultSteps

\* The inbox's invariant, without a bound on anything
LEMMA ResultInvariant == Spec => []ResultInv
  <1>1. Init => ResultInv
    BY DEF Init, ResultInv, BatchHeld, BatchCarried, SavedIsDurable, BatchSaved, NoResultLost
  <1>2. SlotInv /\ Types /\ ResultInv /\ [Next]_vars => ResultInv'
    BY BatchHeldKept, BatchFollowed, NoResultLostKept DEF ResultInv, Types
  <1> QED
    BY <1>1, <1>2, SlotInvariant, TypesInvariant, PTL DEF Spec

\* Every variable has its type: the queue, the inbox and its batches keep their
\* capacities, requeues included.
LEMMA TypesGiveTypeOK ==
  ASSUME SlotInv, Types, BarrierInv
  PROVE  TypeOK
  <1>1. /\ slot \in RunIds \cup {None} /\ DOMAIN runs = RunIds
        /\ \A r \in RunIds : runs[r].phase \in Phases
    BY DEF SlotInv, SlotTypes
  <1>2. \A e \in Entry : IsQueued(e)
    BY DEF Entry, IsQueued
  <1>3. \A i \in DOMAIN queue : IsQueued(queue[i])
    <2>1. queue \in Seq(Entry)
      BY DEF SlotInv, SlotTypes
    <2> QED
      BY <1>2, <2>1
  <1>4. Len(queue) <= MaxQueue + 1
    BY DEF Types, QueueTypes
  <1>5. msgClaim # None => msgClaim.run \in RunIds /\ IsQueued(msgClaim.entry)
    BY <1>2 DEF Types, QueueTypes, MessageClaims
  <1>6. Elems(pending) \cup Elems(recovery) \cup Elems(consumed) \subseteq Tasks
    <2>1. \A q \in Seq(Tasks) : Elems(q) \subseteq Tasks
      BY DEF Elems
    <2> QED
      BY <2>1 DEF Types, InboxTypes
  <1>7. /\ Len(pending) <= BgCapacity /\ Len(consumed) <= MaxTombstones
        /\ bgClaim # None => bgClaim.run \in RunIds /\ Len(bgClaim.tasks) \in 1 .. BgCapacity
    BY DEF Types, InboxTypes, Batches
  <1>8. sched.run # None => sched.pc \in {"requeue", "block", "allow", "release", "check", "take"}
    BY DEF SlotInv, SlotTypes, SchedulerState, Places, SchedulerOwns, ClaimPlaces
  <1>9. blocked \in BOOLEAN /\ unsaved \in BOOLEAN
    BY DEF BarrierInv
  <1> QED
    BY <1>1, <1>3, <1>4, <1>5, <1>6, <1>7, <1>8, <1>9 DEF TypeOK, Types, PostTypes, InboxTypes

\* Whoever holds the slot of a claimed batch will settle the batch.
LEMMA HeldBatchHasOwner ==
  ASSUME SlotInv, Types, BatchHeld
  PROVE  BatchHasOwner
  <1> SUFFICES ASSUME bgClaim # None
               PROVE  \/ Active(bgClaim.run) \/ FinishedPending(bgClaim.run)
                      \/ sched.pc = "requeue" /\ sched.run = bgClaim.run
    BY DEF BatchHasOwner
  <1>1. slot = bgClaim.run /\ slot # None
    BY NoneAssumption DEF BatchHeld, Types, InboxTypes, Batches
  <1>2. CASE Active(slot)
    BY <1>1, <1>2
  <1>3. CASE ~ NoneFinished
    BY <1>1, <1>3 DEF SlotInv, FinishedOwns, NoneFinished, FinishedPending
  <1>4. CASE SchedulerHolds
    BY <1>1, <1>4 DEF BatchHeld, SlotInv, SchedulerOwns
  <1> QED
    BY <1>1, <1>2, <1>3, <1>4 DEF SlotInv, Accounted

-----------------------------------------------------------------------------
(* Durable once                                                            *)

\* The tombstones suffice for the results of the session.
TombstonesSuffice == IsFiniteSet(Tasks) /\ Cardinality(Tasks) <= MaxTombstones

Durable == IF BatchSaved THEN Elems(bgClaim.tasks) ELSE {}

\* Each result is in one place of the inbox, once, and nowhere else.
InboxOnce ==
  /\ Distinct(pending) /\ Distinct(recovery) /\ Distinct(Claimed) /\ Distinct(consumed)
  /\ Elems(pending) \cap Elems(recovery) = {}
  /\ Elems(pending) \cap Elems(Claimed) = {}
  /\ Elems(recovery) \cap Elems(Claimed) = {}
  /\ Live \cap Elems(consumed) = {}

\* The durable results are the consumed ones and those about to be acknowledged.
HistoryKnown == Elems(history) \cap Tasks = Elems(consumed) \cup Durable

\* A turn that has no batch carries no result to its start save.
NoStrayResults ==
  \A r \in RunIds : runs[r].phase = "starting" /\ ~ (bgClaim # None /\ bgClaim.run = r) =>
    Elems(runs[r].items) \cap Tasks = {}

OnceInv == InboxOnce /\ HistoryKnown /\ NoStrayResults /\ ResultDurableOnce

OnceIn(s, T) == \A i, j \in DOMAIN s : s[i] = s[j] /\ s[i] \in T => i = j

\* What a history holds once, it holds once with new elements behind it.
LEMMA OnceConcat ==
  ASSUME NEW S, NEW T, NEW s \in Seq(S), NEW t \in Seq(S),
         OnceIn(s, T),
         Distinct(t) \/ Elems(t) \cap T = {}, Elems(s) \cap Elems(t) \cap T = {}
  PROVE  OnceIn(s \o t, T)
  <1> DEFINE u == s \o t
  <1>1. /\ Len(s) \in Nat /\ Len(t) \in Nat
        /\ DOMAIN s = 1 .. Len(s) /\ DOMAIN t = 1 .. Len(t)
    OBVIOUS
  <1>2. /\ DOMAIN u = 1 .. Len(s) + Len(t)
        /\ \A i \in 1 .. Len(s) + Len(t) : u[i] = IF i <= Len(s) THEN s[i] ELSE t[i - Len(s)]
    BY ConcatProperties, LenProperties
  <1> HIDE DEF u
  <1>3. \A i \in DOMAIN u : \/ i \in DOMAIN s /\ u[i] = s[i]
                            \/ i \notin DOMAIN s /\ i - Len(s) \in DOMAIN t /\ u[i] = t[i - Len(s)]
    BY <1>1, <1>2
  <1>4. /\ \A x \in DOMAIN s, y \in DOMAIN t : s[x] \in T => s[x] # t[y]
        /\ \A x, y \in DOMAIN t : t[x] = t[y] /\ t[x] \in T => x = y
    BY DEF Elems, Distinct
  <1> SUFFICES ASSUME NEW i \in DOMAIN u, NEW j \in DOMAIN u, u[i] = u[j], u[i] \in T
               PROVE  i = j
    BY DEF u, OnceIn
  <1>5. CASE i \in DOMAIN s /\ j \in DOMAIN s
    BY <1>3, <1>5 DEF OnceIn
  <1>6. CASE i \notin DOMAIN s /\ j \notin DOMAIN s
    <2>1. i - Len(s) = j - Len(s)
      BY <1>3, <1>4, <1>6
    <2> QED
      BY <1>1, <1>2, <2>1
  <1>7. CASE i \in DOMAIN s /\ j \notin DOMAIN s
    BY <1>3, <1>4, <1>7
  <1>8. CASE i \notin DOMAIN s /\ j \in DOMAIN s
    BY <1>3, <1>4, <1>8
  <1> QED
    BY <1>5, <1>6, <1>7, <1>8

\* While tombstones suffice, ack_claim forgets none of them.
LEMMA NothingForgotten ==
  ASSUME TombstonesSuffice, InboxTypes, InboxOnce, bgClaim # None
  PROVE  /\ LastN(consumed \o bgClaim.tasks, MaxTombstones) = consumed \o bgClaim.tasks
         /\ Elems(consumed \o bgClaim.tasks) = Elems(consumed) \cup Elems(bgClaim.tasks)
         /\ Distinct(consumed \o bgClaim.tasks)
  <1>1. bgClaim.tasks \in Seq(Tasks) /\ consumed \in Seq(Tasks) /\ Claimed = bgClaim.tasks
    BY DEF InboxTypes, Batches, Claimed
  <1>2. /\ Distinct(consumed) /\ Distinct(bgClaim.tasks)
        /\ Elems(consumed) \cap Elems(bgClaim.tasks) = {}
    BY <1>1 DEF InboxOnce, Live
  <1>3. /\ consumed \o bgClaim.tasks \in Seq(Tasks) /\ Distinct(consumed \o bgClaim.tasks)
        /\ Elems(consumed \o bgClaim.tasks) = Elems(consumed) \cup Elems(bgClaim.tasks)
    BY <1>1, <1>2, ConcatElems
  <1>4. Len(consumed \o bgClaim.tasks) <= Cardinality(Tasks)
    BY <1>3, DistinctBounded DEF TombstonesSuffice
  <1>5. Len(consumed \o bgClaim.tasks) <= MaxTombstones
    <2>1. Len(consumed \o bgClaim.tasks) \in Nat /\ Cardinality(Tasks) \in Nat
      BY <1>3, FS_CardinalityType DEF TombstonesSuffice
    <2> QED
      BY <1>4, <2>1, CapacityAssumption DEF TombstonesSuffice
  <1> QED
    BY <1>3, <1>5, LastPart, CapacityAssumption

\* No step puts a result into the inbox twice.
LEMMA InboxOnceKept ==
  ASSUME TombstonesSuffice, SlotInv, Types, InboxOnce, [Next]_vars
  PROVE  InboxOnce'
  <1>0. /\ InboxTypes /\ pending \in Seq(Tasks) /\ recovery \in Seq(Tasks)
        /\ Elems(<<>>) = {} /\ Distinct(<<>>)
    BY DEF Types, InboxTypes, Elems, Distinct
  <1>1. ASSUME UNCHANGED <<pending, recovery, bgClaim, consumed>> PROVE InboxOnce'
    BY <1>1 DEF InboxOnce, Live, Claimed
  <1>2. CASE UNCHANGED bgVars
    BY <1>1, <1>2 DEF bgVars
  <1>3. ASSUME NEW r, RequeueResults(r), UNCHANGED <<pending, consumed>> PROVE InboxOnce'
    <2>1. CASE bgClaim # None /\ bgClaim.run = r
      <3>1. recovery' = Claimed \o recovery /\ Claimed' = <<>> /\ Claimed \in Seq(Tasks)
        BY <1>0, <1>3, <2>1 DEF RequeueResults, Claimed, InboxTypes, Batches
      <3>2. /\ Elems(recovery') = Elems(Claimed) \cup Elems(recovery)
            /\ Distinct(recovery')
        <4>1. /\ Elems(Claimed \o recovery) = Elems(Claimed) \cup Elems(recovery)
              /\ Distinct(Claimed \o recovery)
          BY <1>0, <3>1, ConcatElems DEF InboxOnce
        <4> QED
          BY <3>1, <4>1
      <3>3. Live' = Live
        BY <1>0, <1>3, RequeueKeepsLive
      <3> QED
        BY <1>0, <1>3, <3>1, <3>2, <3>3 DEF InboxOnce
    <2>2. CASE ~ (bgClaim # None /\ bgClaim.run = r)
      BY <1>1, <1>3, <2>2 DEF RequeueResults
    <2> QED
      BY <2>1, <2>2
  <1>4. CASE RequeueUnacked
    BY <1>3, <1>4 DEF RequeueUnacked
  <1>5. ASSUME NEW r \in RunIds, GiveUpStart(r) PROVE InboxOnce'
    BY <1>3, <1>5 DEF GiveUpStart
  <1>6. CASE ClaimResults
    <2>1. CASE bgClaim = None /\ HasPending
      <3>1. sched.next \in RunIds
        BY <1>6 DEF ClaimResults, SlotInv, SlotTypes, SchedulerOwns, ClaimPlaces
      <3>2. ClaimForSession(sched.next) /\ consumed' = consumed
        BY <1>6, <2>1 DEF ClaimResults
      <3>3. /\ Live' = Live /\ Claimed' = Batch
            /\ Elems(Batch) = Elems(Recovered) \cup Elems(Taken)
            /\ Elems(recovery) = Elems(Recovered) \cup Elems(recovery')
            /\ Elems(pending) = Elems(Taken) \cup Elems(pending')
        BY <1>0, <2>1, <3>1, <3>2, ClaimKeepsLive
      <3>4. /\ Recovered \in Seq(Tasks) /\ Taken \in Seq(Tasks)
            /\ recovery' \in Seq(Tasks) /\ pending' \in Seq(Tasks)
            /\ Batch = Recovered \o Taken /\ recovery = Recovered \o recovery'
            /\ pending = Taken \o pending'
        BY <1>0, <3>2, BatchParts DEF ClaimForSession
      <3>5. /\ Distinct(Recovered) /\ Distinct(recovery')
            /\ Elems(Recovered) \cap Elems(recovery') = {}
        BY <3>4, ConcatElems DEF InboxOnce
      <3>6. Distinct(Taken) /\ Distinct(pending') /\ Elems(Taken) \cap Elems(pending') = {}
        BY <3>4, ConcatElems DEF InboxOnce
      <3>7. Elems(Recovered) \cap Elems(Taken) = {}
        BY <3>3 DEF InboxOnce
      <3>8. Distinct(Batch)
        BY <3>4, <3>5, <3>6, <3>7, ConcatElems
      <3> QED
        BY <3>2, <3>3, <3>5, <3>6, <3>8 DEF InboxOnce
    <2>2. CASE ~ (bgClaim = None /\ HasPending)
      BY <1>1, <1>6, <2>2 DEF ClaimResults
    <2> QED
      BY <2>1, <2>2
  <1>7. ASSUME NEW t \in Tasks, Report(t) PROVE InboxOnce'
    <2>1. CASE Accepts(t)
      <3>1. /\ recovery' = recovery /\ Claimed' = Claimed /\ consumed' = consumed
            /\ t \notin Live /\ t \notin Elems(consumed)
        BY <1>7, <2>1 DEF Report, Claimed, Accepts
      <3>2. Elems(pending') \subseteq Elems(pending) \cup {t} /\ Distinct(pending')
        <4>1. t \notin Elems(pending) /\ Distinct(pending)
          BY <3>1 DEF Live, InboxOnce
        <4>2. CASE PendingFull
          <5>1. pending # <<>>
            BY <1>0, <4>2, CapacityAssumption DEF PendingFull
          <5>2. pending' = Append(Tail(pending), t)
            BY <1>7, <2>1, <4>2 DEF Report, Enqueue
          <5>3. /\ Elems(pending) = {Head(pending)} \cup Elems(Tail(pending))
                /\ Tail(pending) \in Seq(Tasks) /\ Distinct(Tail(pending))
            BY <1>0, <4>1, <5>1, HeadAndTail
          <5>4. /\ Elems(Append(Tail(pending), t)) = Elems(Tail(pending)) \cup {t}
                /\ Distinct(Append(Tail(pending), t))
            BY <4>1, <5>3, AppendElems
          <5> QED
            BY <5>2, <5>3, <5>4
        <4>3. CASE ~ PendingFull
          <5>1. pending' = Append(pending, t)
            BY <1>7, <2>1, <4>3 DEF Report, Enqueue
          <5>2. /\ Elems(Append(pending, t)) = Elems(pending) \cup {t}
                /\ Distinct(Append(pending, t))
            BY <1>0, <4>1, AppendElems
          <5> QED
            BY <5>1, <5>2
        <4> QED
          BY <4>2, <4>3
      <3> QED
        BY <3>1, <3>2 DEF InboxOnce, Live
    <2>2. CASE ~ Accepts(t)
      BY <1>1, <1>7, <2>2 DEF Report
    <2> QED
      BY <2>1, <2>2
  <1>8. ASSUME NEW r \in RunIds, AckClaims(r) PROVE InboxOnce'
    <2>1. CASE bgClaim # None /\ bgClaim.run = r
      <3>1. /\ bgClaim' = None /\ consumed' = consumed \o bgClaim.tasks
            /\ Claimed = bgClaim.tasks /\ Claimed' = <<>>
            /\ UNCHANGED <<pending, recovery>>
        BY <1>0, <1>8, <2>1, NothingForgotten DEF AckClaims, AckResults, Claimed
      <3>2. /\ Elems(consumed') = Elems(consumed) \cup Elems(Claimed)
            /\ Distinct(consumed')
        BY <1>0, <2>1, <3>1, NothingForgotten
      <3> QED
        BY <1>0, <3>1, <3>2 DEF InboxOnce, Live
    <2>2. CASE ~ (bgClaim # None /\ bgClaim.run = r)
      BY <1>1, <1>8, <2>2 DEF AckClaims, AckResults
    <2> QED
      BY <2>1, <2>2
  <1> QED
    BY <1>2, <1>4, <1>5, <1>6, <1>7, <1>8, ResultSteps

\* Results become durable with the start save of the turn that carries them, and
\* are consumed with its acknowledgement.
LEMMA HistoryFollowed ==
  ASSUME TombstonesSuffice, SlotInv, Types, BatchHeld, BatchCarried, OnceInv, [Next]_vars
  PROVE  HistoryKnown' /\ ResultDurableOnce'
  <1>0. /\ runs = [r \in RunIds |-> runs[r]]
        /\ \A r \in RunIds : runs[r] = [x \in {"phase", "items"} |-> runs[r][x]]
        /\ bgClaim # None => /\ bgClaim.run \in RunIds /\ Claimed = bgClaim.tasks
                             /\ bgClaim.tasks \in Seq(Tasks)
        /\ InboxOnce /\ HistoryKnown /\ ResultDurableOnce /\ InboxTypes
    BY DEF SlotInv, SlotTypes, Types, InboxTypes, Batches, OnceInv, Claimed
  <1>1. ASSUME UNCHANGED history PROVE ResultDurableOnce'
    BY <1>0, <1>1 DEF ResultDurableOnce
  <1>2. ASSUME UNCHANGED <<history, consumed>>, Durable' = Durable
        PROVE  HistoryKnown' /\ ResultDurableOnce'
    BY <1>0, <1>1, <1>2 DEF HistoryKnown
  <1>3. CASE Spawns
    <2>1. bgClaim = None
      <3>1. slot = None \/ sched.pc \in ClaimPlaces
        BY <1>3 DEF Spawns, PostStarts, RegistryClaim, ClaimResults, ClaimGroup, ClaimHead,
           ClaimPlaces
      <3> QED
        BY <1>0, <3>1, NoBatchBehind
    <2>2. Durable = {}
      BY <2>1 DEF Durable, BatchSaved
    <2>3. UNCHANGED <<history, consumed>>
      BY <1>3 DEF Spawns, PostStarts, ClaimResults, ClaimGroup, ClaimHead, bgVars, SchedKeeps
    <2>4. bgClaim' = None \/ runs'[bgClaim'.run].phase # "saved"
      <3>1. CASE bgClaim' = bgClaim
        BY <2>1, <3>1
      <3>2. CASE ClaimResults /\ bgClaim' # bgClaim
        <4>1. sched.next \in RunIds
          BY <3>2 DEF ClaimResults, SlotInv, SlotTypes, SchedulerOwns, ClaimPlaces
        <4>2. /\ bgClaim' = [run |-> sched.next, tasks |-> Batch]
              /\ runs' = [runs EXCEPT ![sched.next] = [phase |-> "starting", items |-> Batch]]
          BY <3>2 DEF ClaimResults, ClaimForSession, SpawnTurn
        <4> QED
          BY <1>0, <4>1, <4>2
      <3> QED
        BY <1>3, <3>1, <3>2 DEF Spawns, PostStarts, ClaimGroup, ClaimHead, bgVars
    <2>5. Durable' = {}
      BY <2>4 DEF Durable, BatchSaved
    <2> QED
      BY <1>2, <2>2, <2>3, <2>5
  <1>4. ASSUME NEW r \in RunIds, Turn(r) PROVE HistoryKnown' /\ ResultDurableOnce'
    <2>0. Active(r)
      BY <1>4 DEF Turn, StartSave, FinalSave, AckClaims, GiveUpStart, Dies, Active
    <2>1. bgClaim # None => bgClaim.run = r
      BY <2>0, TurnIsAlone DEF BatchHeld
    <2>2. CASE StartSave(r, TRUE)
      <3>1. /\ history' = history \o runs[r].items /\ UNCHANGED <<consumed, bgClaim>>
            /\ runs[r].phase = "starting" /\ runs' = [runs EXCEPT ![r].phase = "saved"]
        BY <2>2 DEF StartSave, SetPhase, bgVars
      <3>2. history \in Seq(Item) /\ runs[r].items \in Seq(Item)
        BY DEF Types, TurnTypes
      <3>3. Elems(history') = Elems(history) \cup Elems(runs[r].items)
        BY <3>1, <3>2, ConcatElems
      <3>4. Durable = {} /\ runs'[r].phase = "saved"
        BY <1>0, <2>1, <3>1 DEF Durable, BatchSaved
      <3>5. Elems(history) \cap Tasks = Elems(consumed)
        BY <1>0, <3>4 DEF HistoryKnown
      <3>6. OnceIn(history, Tasks)
        BY <1>0 DEF ResultDurableOnce, OnceIn
      <3>7. CASE bgClaim # None
        <4>1. runs[r].items = bgClaim.tasks
          BY <2>0, <2>1, <3>7 DEF BatchCarried
        <4>2. Durable' = Elems(bgClaim.tasks)
          BY <2>1, <3>1, <3>4, <3>7 DEF Durable, BatchSaved
        <4>3. Elems(bgClaim.tasks) \subseteq Tasks
          BY <1>0, <3>7 DEF Elems
        <4>4. HistoryKnown'
          BY <3>1, <3>3, <3>5, <4>1, <4>2, <4>3 DEF HistoryKnown
        <4>5. Distinct(runs[r].items) /\ Elems(history) \cap Elems(runs[r].items) \cap Tasks = {}
          BY <1>0, <3>5, <3>7, <4>1 DEF InboxOnce, Live
        <4>6. ResultDurableOnce'
          <5>1. OnceIn(history \o runs[r].items, Tasks)
            BY <3>2, <3>6, <4>5, OnceConcat
          <5> QED
            BY <3>1, <5>1 DEF ResultDurableOnce, OnceIn
        <4> QED
          BY <4>4, <4>6
      <3>8. CASE bgClaim = None
        <4>1. Elems(runs[r].items) \cap Tasks = {}
          BY <3>1, <3>8 DEF OnceInv, NoStrayResults
        <4>2. Durable' = {}
          BY <3>1, <3>8 DEF Durable, BatchSaved
        <4>3. HistoryKnown'
          BY <3>1, <3>3, <3>5, <4>1, <4>2 DEF HistoryKnown
        <4>4. ResultDurableOnce'
          <5>1. OnceIn(history \o runs[r].items, Tasks)
            <6>1. Elems(history) \cap Elems(runs[r].items) \cap Tasks = {}
              BY <4>1
            <6> QED
              BY <3>2, <3>6, <4>1, <6>1, OnceConcat
          <5> QED
            BY <3>1, <5>1 DEF ResultDurableOnce, OnceIn
        <4> QED
          BY <4>3, <4>4
      <3> QED
        BY <3>7, <3>8
    <2>3. CASE StartSave(r, FALSE)
      <3>1. /\ UNCHANGED <<history, consumed, bgClaim>> /\ runs[r].phase = "starting"
            /\ runs' = [runs EXCEPT ![r].phase = "unstarted"]
        BY <2>3 DEF StartSave, SetPhase, bgVars
      <3>2. runs'[r].phase = "unstarted"
        BY <1>0, <3>1
      <3>3. Durable = {} /\ Durable' = {}
        BY <2>1, <3>1, <3>2 DEF Durable, BatchSaved
      <3> QED
        BY <1>2, <3>1, <3>3
    <2>4. CASE AckClaims(r)
      <3>1. runs[r].phase = "saved" /\ UNCHANGED history
        BY <2>4 DEF AckClaims
      <3>2. CASE bgClaim # None
        <4>1. bgClaim' = None /\ consumed' = consumed \o bgClaim.tasks
          BY <1>0, <2>1, <2>4, <3>2, NothingForgotten DEF AckClaims, AckResults
        <4>2. Elems(consumed') = Elems(consumed) \cup Elems(bgClaim.tasks)
          BY <1>0, <3>2, <4>1, NothingForgotten
        <4>3. Durable = Elems(bgClaim.tasks) /\ Durable' = {}
          BY <2>1, <3>1, <3>2, <4>1 DEF Durable, BatchSaved
        <4> QED
          BY <1>0, <1>1, <3>1, <4>2, <4>3 DEF HistoryKnown
      <3>3. CASE bgClaim = None
        <4>1. bgClaim' = None /\ consumed' = consumed
          BY <2>4, <3>3 DEF AckClaims, AckResults
        <4>2. Durable = {} /\ Durable' = {}
          BY <3>3, <4>1 DEF Durable, BatchSaved
        <4> QED
          BY <1>2, <3>1, <4>1, <4>2
      <3> QED
        BY <3>2, <3>3
    <2>5. CASE GiveUpStart(r)
      <3>1. /\ runs[r].phase = "unstarted" /\ UNCHANGED <<history, consumed>>
            /\ bgClaim' = None
        BY <2>1, <2>5 DEF GiveUpStart, RequeueResults
      <3>2. Durable = {} /\ Durable' = {}
        BY <2>1, <3>1 DEF Durable, BatchSaved
      <3> QED
        BY <1>2, <3>1, <3>2
    <2>6. ASSUME NEW ok \in BOOLEAN, Dies(r) \/ FinalSave(r, ok)
          PROVE  HistoryKnown' /\ ResultDurableOnce'
      <3>1. /\ runs[r].phase \in {"starting", "running"} /\ UNCHANGED <<history, consumed, bgClaim>>
            /\ runs' = [runs EXCEPT ![r].phase = "ended"]
        BY <2>6 DEF Dies, FinalSave, EndTurn, SetPhase, bgVars
      <3>2. runs'[r].phase = "ended"
        BY <1>0, <3>1
      <3>3. Durable = {} /\ Durable' = {}
        BY <2>1, <3>1, <3>2 DEF Durable, BatchSaved
      <3> QED
        BY <1>2, <3>1, <3>3
    <2>7. ASSUME NEW ok \in BOOLEAN, StartSave(r, ok) PROVE HistoryKnown' /\ ResultDurableOnce'
      <3>1. CASE ok = TRUE
        BY <2>2, <2>7, <3>1
      <3>2. CASE ok = FALSE
        BY <2>3, <2>7, <3>2
      <3> QED
        BY <3>1, <3>2
    <2> QED
      BY <1>4, <2>4, <2>5, <2>6, <2>7 DEF Turn
  <1>5. CASE UNCHANGED runs /\ RequeueUnacked
    <2>1. sched.run = slot /\ sched.run \in RunIds /\ ~ Active(sched.run)
      BY <1>5 DEF RequeueUnacked, SlotInv, SlotTypes, SchedulerOwns, OneHolder, SchedulerHolds
    <2>2. bgClaim # None => bgClaim.run = sched.run
      BY <2>1 DEF BatchHeld
    <2>3. Durable = {}
      BY <2>1, <2>2 DEF Durable, BatchSaved, Active
    <2>4. bgClaim' = None /\ UNCHANGED <<history, consumed>>
      BY <1>5, <2>2 DEF RequeueUnacked, RequeueResults, SchedKeeps
    <2>5. Durable' = {}
      BY <2>4 DEF Durable, BatchSaved
    <2> QED
      BY <1>2, <2>3, <2>4, <2>5
  <1>6. ASSUME UNCHANGED <<runs, history, consumed, bgClaim>>
        PROVE  HistoryKnown' /\ ResultDurableOnce'
    BY <1>2, <1>6 DEF Durable, BatchSaved
  <1>7. UNCHANGED runs \/ Spawns \/ \E r \in RunIds : Turn(r)
    BY RunSteps
  <1>8. UNCHANGED history \/ \E r \in RunIds : Turn(r)
    BY HistorySteps DEF Turn
  <1>9. \/ UNCHANGED <<consumed, bgClaim>> \/ RequeueUnacked \/ Spawns
        \/ \E r \in RunIds : Turn(r)
    BY ResultSteps DEF Turn, bgVars, Report, Spawns
  <1> QED
    BY <1>3, <1>4, <1>5, <1>6, <1>7, <1>8, <1>9

\* Only a batch brings results into a turn.
LEMMA NoStrayKept ==
  ASSUME SlotInv, Types, BatchHeld, NoStrayResults, [Next]_vars
  PROVE  NoStrayResults'
  <1>0. /\ runs = [r \in RunIds |-> runs[r]]
        /\ \A r \in RunIds : runs[r] = [x \in {"phase", "items"} |-> runs[r][x]]
        /\ InboxTypes
    BY DEF SlotInv, SlotTypes, Types
  <1>1. ASSUME NEW r \in RunIds, NEW x \in Messages \cup Groups, SpawnTurn(r, <<x>>),
               bgClaim = None
        PROVE  NoStrayResults'
    <2>1. Elems(<<x>>) \cap Tasks = {}
      BY KindsAssumption DEF Elems
    <2>2. runs'[r].items = <<x>> /\ \A y \in RunIds \ {r} : runs'[y] = runs[y]
      BY <1>0, <1>1 DEF SpawnTurn
    <2> QED
      BY <1>1, <2>1, <2>2 DEF NoStrayResults
  <1>2. CASE Spawns
    <2>0. bgClaim = None
      <3>1. slot = None \/ sched.pc \in ClaimPlaces
        BY <1>2 DEF Spawns, PostStarts, RegistryClaim, ClaimResults, ClaimGroup, ClaimHead,
           ClaimPlaces
      <3> QED
        BY <1>0, <3>1, NoBatchBehind
    <2>1. ASSUME UNCHANGED <<runs, bgClaim>> PROVE NoStrayResults'
      BY <2>1 DEF NoStrayResults
    <2>2. ASSUME NEW m \in Messages, PostStarts(m) PROVE NoStrayResults'
      BY <1>1, <2>0, <2>2, MintIsFresh DEF PostStarts
    <2>3. (ClaimResults \/ ClaimGroup \/ ClaimHead) => sched.next \in RunIds
      BY DEF ClaimResults, ClaimGroup, ClaimHead, SlotInv, SlotTypes, SchedulerOwns,
         ClaimPlaces
    <2>4. CASE ClaimGroup
      BY <1>1, <2>0, <2>1, <2>3, <2>4 DEF ClaimGroup, bgVars
    <2>5. CASE ClaimHead
      <3>1. queue # <<>> => Head(queue) \in Entry
        BY HeadTailProperties DEF SlotInv, SlotTypes
      <3>2. queue # <<>> => Head(queue).msg \in Messages
        BY <3>1 DEF Entry
      <3> QED
        BY <1>1, <2>0, <2>1, <2>3, <2>5, <3>2 DEF ClaimHead, bgVars
    <2>6. CASE ClaimResults
      <3>1. CASE HasPending
        <4>1. /\ bgClaim' = [run |-> sched.next, tasks |-> Batch]
              /\ runs' = [runs EXCEPT ![sched.next] = [phase |-> "starting", items |-> Batch]]
          BY <2>0, <2>6, <3>1 DEF ClaimResults, ClaimForSession, SpawnTurn
        <4>2. bgClaim' # None
          <5>1. bgClaim' \in [run : RunIds, tasks : Seq(Tasks)]
            BY <1>0, <2>3, <2>6, <4>1, BatchParts
          <5> QED
            BY <5>1, KindsAssumption
        <4>3. bgClaim'.run = sched.next /\ \A y \in RunIds \ {sched.next} : runs'[y] = runs[y]
          BY <1>0, <4>1
        <4> QED
          BY <2>0, <4>2, <4>3 DEF NoStrayResults
      <3>2. CASE ~ HasPending
        BY <2>1, <2>6, <3>2 DEF ClaimResults
      <3> QED
        BY <3>1, <3>2
    <2> QED
      BY <1>2, <2>2, <2>4, <2>5, <2>6 DEF Spawns
  <1>3. ASSUME NEW r \in RunIds, Turn(r) PROVE NoStrayResults'
    <2>1. Active(r)
      BY <1>3 DEF Turn, StartSave, FinalSave, AckClaims, GiveUpStart, Dies, Active
    <2>2. \A x \in RunIds \ {r} : ~ Active(x)
      BY <2>1, TurnIsAlone DEF SlotInv, RunOwnsSlot
    <2>3. PICK p \in Phases \ {"starting"} : SetPhase(r, p)
      BY <1>3 DEF Turn, StartSave, FinalSave, AckClaims, GiveUpStart, Dies, EndTurn, Phases
    <2>4. runs'[r].phase # "starting" /\ \A x \in RunIds \ {r} : runs'[x] = runs[x]
      BY <1>0, <2>3 DEF SetPhase
    <2>5. \A x \in RunIds : runs'[x].phase # "starting"
      BY <2>2, <2>4 DEF Active
    <2> QED
      BY <2>5 DEF NoStrayResults
  <1>4. CASE UNCHANGED runs /\ RequeueUnacked
    <2>1. \A x \in RunIds : ~ Active(x)
      BY <1>4 DEF RequeueUnacked, SlotInv, SchedulerOwns, OneHolder, SchedulerHolds
    <2> QED
      BY <1>4, <2>1 DEF NoStrayResults, Active
  <1>5. ASSUME UNCHANGED <<runs, bgClaim>> PROVE NoStrayResults'
    BY <1>5 DEF NoStrayResults
  <1>6. UNCHANGED runs \/ Spawns \/ \E r \in RunIds : Turn(r)
    BY RunSteps
  <1>7. UNCHANGED bgClaim \/ RequeueUnacked \/ Spawns \/ \E r \in RunIds : Turn(r)
    BY ResultSteps DEF Turn, bgVars, Report, Spawns
  <1> QED
    BY <1>2, <1>3, <1>4, <1>5, <1>6, <1>7

\* Background results are accounted for, for any number of messages, groups, runs,
\* reports and failures, and any capacity: every queue keeps its bound, no accepted
\* result is lost, and a claimed batch always has somebody who will settle it.
THEOREM ResultsKeptTheorem == Spec => [](TypeOK /\ NoResultLost /\ BatchHasOwner)
  <1>1. SlotInv /\ Types /\ BarrierInv /\ ResultInv => TypeOK /\ NoResultLost /\ BatchHasOwner
    BY TypesGiveTypeOK, HeldBatchHasOwner DEF ResultInv
  <1> QED
    BY <1>1, SlotInvariant, TypesInvariant, BarrierInvariant, ResultInvariant, PTL

\* As long as the tombstones suffice for the session's results, none of them becomes
\* durable twice, however often it is reported and its turn retried (enqueue, ack_claim).
THEOREM ResultsAccountedTheorem ==
  ASSUME TombstonesSuffice
  PROVE  Spec => []ResultsAccounted
  <1>1. Init => OnceInv
    <2> SUFFICES ASSUME Init PROVE OnceInv
      OBVIOUS
    <2>1. Elems(<<>>) = {} /\ Distinct(<<>>)
      BY DEF Elems, Distinct
    <2>2. InboxOnce
      BY <2>1 DEF Init, InboxOnce, Live, Claimed
    <2>3. HistoryKnown
      BY <2>1 DEF Init, HistoryKnown, Durable, BatchSaved
    <2>4. NoStrayResults /\ ResultDurableOnce
      BY DEF Init, NoStrayResults, ResultDurableOnce, Unused
    <2> QED
      BY <2>2, <2>3, <2>4 DEF OnceInv
  <1>2. SlotInv /\ Types /\ ResultInv /\ OnceInv /\ [Next]_vars => OnceInv'
    <2> SUFFICES ASSUME SlotInv, Types, ResultInv, OnceInv, [Next]_vars PROVE OnceInv'
      OBVIOUS
    <2>1. InboxOnce'
      BY InboxOnceKept DEF OnceInv
    <2>2. HistoryKnown' /\ ResultDurableOnce'
      BY HistoryFollowed DEF ResultInv
    <2>3. NoStrayResults'
      BY NoStrayKept DEF ResultInv, OnceInv
    <2> QED
      BY <2>1, <2>2, <2>3 DEF OnceInv
  <1>3. OnceInv => ResultDurableOnce
    BY DEF OnceInv
  <1> QED
    BY <1>1, <1>2, <1>3, SlotInvariant, TypesInvariant, ResultInvariant, ResultsKeptTheorem, PTL
    DEF Spec, ResultsAccounted

-----------------------------------------------------------------------------
(* The order of the message queue                                          *)

\* x was queued before y.
Before(x, y) == \E i, j \in DOMAIN parked : i < j /\ parked[i] = x /\ parked[j] = y

\* The message of the claim, until the start save of its turn has made it durable
Starter == IF msgClaim # None /\ runs[msgClaim.run].phase # "saved"
           THEN {msgClaim.entry.msg} ELSE {}
Waiting == Queued \cup Starter

\* A message is queued once; it then waits, was started, or was retracted.
ParkedOnce ==
  /\ Distinct(parked)
  /\ \A m \in Messages : m \in Elems(parked) <=> post[m] \in {"queued", "retracted"}

\* The queue keeps the order, and the claimed message is ahead of it.
QueueOrdered ==
  /\ \A i, j \in DOMAIN queue : i < j => Before(queue[i].msg, queue[j].msg)
  /\ msgClaim # None => \A m \in Queued : Before(msgClaim.entry.msg, m)

\* What waits was queued and not retracted; what was queued waits or is durable.
WaitingIsQueued ==
  /\ \A m \in Queued : post[m] = "queued"
  /\ msgClaim # None => post[msgClaim.entry.msg] = "queued"
  /\ \A m \in Messages : post[m] = "queued" => m \in Waiting \cup Elems(history)

DurableWasPosted ==
  \A m \in Messages : m \in Elems(history) => post[m] \in {"started", "queued"}

\* The durable messages are ahead of those that wait, and in their order.
HistoryAhead ==
  \A i \in DOMAIN history, m \in Waiting : history[i] \in Elems(parked) => Before(history[i], m)
HistoryOrdered ==
  \A i, j \in DOMAIN history :
    i < j /\ history[i] \in Elems(parked) /\ history[j] \in Elems(parked) =>
      Before(history[i], history[j])

LineInv ==
  /\ ParkedOnce /\ QueueOrdered /\ WaitingIsQueued /\ DurableWasPosted
  /\ HistoryAhead /\ HistoryOrdered

\* A claimed message is carried by the turn it was claimed for, which is not past
\* its acknowledgement.
ClaimCarried ==
  msgClaim # None =>
    /\ runs[msgClaim.run].phase \notin {"unused", "running"}
    /\ Active(msgClaim.run) => runs[msgClaim.run].items = <<msgClaim.entry.msg>>

\* The run ids that the scheduler minted are not used by the time it spawns a turn.
ClaimsForUnused == sched.pc \in {"claim", "claimGroup"} => runs[sched.next] = Unused

\* A message that a turn carries and has not made durable was posted to an idle
\* session, or is the claimed one; a turn past its start save made its items durable.
ItemsKnown ==
  \A r \in RunIds : runs[r].phase \in {"starting", "unstarted"} =>
    \A m \in Messages : m \in Elems(runs[r].items) =>
      post[m] = "started" \/ (msgClaim # None /\ msgClaim.run = r)
ItemsDurable ==
  \A r \in RunIds :
    runs[r].phase \in {"saved", "running"} => Elems(runs[r].items) \subseteq Elems(history)

CarryInv == ClaimCarried /\ ClaimsForUnused /\ ItemsKnown /\ ItemsDurable

\* The order in which messages were queued is a strict one.
LEMMA BeforeIsStrict ==
  ASSUME PostTypes, Distinct(parked), NEW x, NEW y, Before(x, y)
  PROVE  x # y /\ ~ Before(y, x)
  <1>1. parked \in Seq(Messages) /\ DOMAIN parked = 1 .. Len(parked) /\ Len(parked) \in Nat
    BY DEF PostTypes
  <1>2. PICK i \in DOMAIN parked, j \in DOMAIN parked : i < j /\ parked[i] = x /\ parked[j] = y
    BY DEF Before
  <1>3. x # y
    BY <1>1, <1>2 DEF Distinct
  <1>4. ASSUME NEW k \in DOMAIN parked, NEW l \in DOMAIN parked, k < l, parked[k] = y, parked[l] = x
        PROVE  FALSE
    <2>1. k = j /\ l = i
      BY <1>2, <1>4 DEF Distinct
    <2> QED
      BY <1>1, <1>2, <1>4, <2>1
  <1> QED
    BY <1>3, <1>4 DEF Before

\* A step that leaves the line of messages alone, whatever else the requests do
LEMMA LineElsewhere ==
  ASSUME LineInv, UNCHANGED <<parked, queue, msgClaim, history>>, Starter' = Starter,
         \A m \in Messages :
           /\ post[m] \in {"started", "queued", "retracted"} => post'[m] = post[m]
           /\ post'[m] \in {"queued", "retracted"} => post'[m] = post[m],
         \A m \in Queued : m \in Messages,
         msgClaim # None => msgClaim.entry.msg \in Messages
  PROVE  LineInv'
  <1>0. /\ Queued' = Queued /\ Waiting' = Waiting /\ Elems(parked)' = Elems(parked)
        /\ Elems(history)' = Elems(history) /\ \A x, y : Before(x, y)' <=> Before(x, y)
    BY DEF Queued, Waiting, Elems, Before
  <1>1. ParkedOnce'
    BY <1>0 DEF LineInv, ParkedOnce
  <1>2. QueueOrdered'
    BY <1>0 DEF LineInv, QueueOrdered
  <1>3. WaitingIsQueued'
    BY <1>0 DEF LineInv, WaitingIsQueued
  <1>4. DurableWasPosted'
    BY <1>0 DEF LineInv, DurableWasPosted
  <1>5. HistoryAhead' /\ HistoryOrdered'
    BY <1>0 DEF LineInv, HistoryAhead, HistoryOrdered
  <1> QED
    BY <1>1, <1>2, <1>3, <1>4, <1>5 DEF LineInv

\* POST /run puts a message behind all that were queued before.
LEMMA LineEnqueue ==
  ASSUME SlotInv, Types, LineInv, NEW m \in Messages, PostEnqueue(m), Len(queue) < MaxQueue
  PROVE  LineInv'
  <1> DEFINE e == [msg |-> m, run |-> Mint]
  <1>1. /\ queue' = Append(queue, e) /\ parked' = Append(parked, m)
        /\ post' = [post EXCEPT ![m] = "queued"] /\ post[m] = "busy"
        /\ UNCHANGED <<msgClaim, history, runs>>
    BY DEF PostEnqueue, slotVars
  <1>2. /\ queue \in Seq(Entry) /\ parked \in Seq(Messages) /\ e \in Entry /\ e.msg = m
        /\ post = [x \in Messages |-> post[x]] /\ Len(queue) \in Nat /\ Len(parked) \in Nat
        /\ DOMAIN queue = 1 .. Len(queue) /\ DOMAIN parked = 1 .. Len(parked)
    BY MintIsFresh DEF SlotInv, SlotTypes, Types, PostTypes, PostEnqueue, Entry
  <1> HIDE DEF e
  <1>3. /\ DOMAIN parked' = 1 .. Len(parked) + 1 /\ parked'[Len(parked) + 1] = m
        /\ \A i \in DOMAIN parked : i \in DOMAIN parked' /\ parked'[i] = parked[i]
        /\ Elems(parked') = Elems(parked) \cup {m}
        /\ Distinct(parked') <=> Distinct(parked) /\ m \notin Elems(parked)
    <2>1. /\ Len(Append(parked, m)) = Len(parked) + 1
          /\ \A i \in 1 .. Len(parked) : Append(parked, m)[i] = parked[i]
          /\ Append(parked, m)[Len(parked) + 1] = m
          /\ Append(parked, m) \in Seq(Messages)
      BY <1>2, AppendProperties
    <2>2. /\ Elems(Append(parked, m)) = Elems(parked) \cup {m}
          /\ Distinct(Append(parked, m)) <=> Distinct(parked) /\ m \notin Elems(parked)
      BY <1>2, AppendElems
    <2>3. DOMAIN Append(parked, m) = 1 .. Len(parked) + 1
      BY <2>1, LenProperties
    <2>4. \A i \in DOMAIN parked : i \in 1 .. Len(parked) + 1
      BY <1>2
    <2>5. parked' = Append(parked, m)
      BY <1>1
    <2> QED
      BY <1>2, <2>1, <2>2, <2>3, <2>4, <2>5
  <1>4. /\ DOMAIN queue' = 1 .. Len(queue) + 1 /\ queue'[Len(queue) + 1] = e
        /\ \A i \in DOMAIN queue : i \in DOMAIN queue' /\ queue'[i] = queue[i]
    <2>1. /\ Len(Append(queue, e)) = Len(queue) + 1
          /\ \A i \in 1 .. Len(queue) : Append(queue, e)[i] = queue[i]
          /\ Append(queue, e)[Len(queue) + 1] = e
          /\ Append(queue, e) \in Seq(Entry)
      BY <1>2, AppendProperties
    <2>2. DOMAIN Append(queue, e) = 1 .. Len(queue) + 1
      BY <2>1, LenProperties
    <2>3. \A i \in DOMAIN queue : i \in 1 .. Len(queue) + 1
      BY <1>2
    <2>4. queue' = Append(queue, e)
      BY <1>1
    <2> QED
      BY <1>2, <2>1, <2>2, <2>3, <2>4
  <1>5. m \notin Elems(parked) /\ m \notin Elems(history)
    BY <1>1 DEF LineInv, ParkedOnce, DurableWasPosted
  <1>6. /\ \A x, y : Before(x, y) => Before(x, y)'
        /\ \A x \in Elems(parked) : Before(x, m)'
    <2>1. \A x, y : Before(x, y) => Before(x, y)'
      BY <1>3 DEF Before
    <2>2. ASSUME NEW x \in Elems(parked) PROVE Before(x, m)'
      <3>1. PICK i \in DOMAIN parked : parked[i] = x
        BY DEF Elems
      <3>2. i < Len(parked) + 1 /\ Len(parked) + 1 \in DOMAIN parked' /\ i \in DOMAIN parked'
        BY <1>2, <1>3
      <3>3. parked'[i] = x /\ parked'[Len(parked) + 1] = m
        BY <1>3, <3>1
      <3> QED
        BY <3>2, <3>3 DEF Before
    <2> QED
      BY <2>1, <2>2
  <1>7. Queued' = Queued \cup {m} /\ Starter' = Starter /\ Waiting' = Waiting \cup {m}
    <2>1. Queued' = Queued \cup {m}
      BY <1>2, <1>4 DEF Queued
    <2> QED
      BY <1>1, <2>1 DEF Starter, Waiting
  <1>8. /\ \A x \in Queued : x \in Messages /\ x \in Elems(parked)
        /\ msgClaim # None => /\ msgClaim.entry.msg \in Messages
                              /\ msgClaim.entry.msg \in Elems(parked)
    <2>1. \A x \in Queued : x \in Messages
      <3>1. \A i \in DOMAIN queue : queue[i] \in Entry
        BY <1>2
      <3> QED
        BY <3>1 DEF Queued, Entry
    <2>2. msgClaim # None => msgClaim.entry.msg \in Messages
      BY DEF Types, QueueTypes, MessageClaims, Entry
    <2> QED
      BY <2>1, <2>2 DEF LineInv, ParkedOnce, WaitingIsQueued
  <1>9. ParkedOnce'
    BY <1>1, <1>2, <1>3, <1>5 DEF LineInv, ParkedOnce
  <1>10. QueueOrdered'
    <2>1. ASSUME NEW i \in DOMAIN queue', NEW j \in DOMAIN queue', i < j
          PROVE  Before(queue[i].msg, queue[j].msg)'
      <3>1. i \in DOMAIN queue /\ queue'[i] = queue[i]
        BY <1>2, <1>4, <2>1
      <3>2. CASE j \in DOMAIN queue
        BY <1>4, <1>6, <2>1, <3>1, <3>2 DEF LineInv, QueueOrdered
      <3>3. CASE j \notin DOMAIN queue
        <4>1. queue'[j] = e
          BY <1>2, <1>4, <3>3
        <4>2. queue[i].msg \in Elems(parked)
          BY <1>8, <3>1 DEF Queued
        <4> QED
          BY <1>2, <1>6, <3>1, <4>1, <4>2
      <3> QED
        BY <3>2, <3>3
    <2>2. ASSUME msgClaim' # None, NEW x \in Queued' PROVE Before(msgClaim.entry.msg, x)'
      BY <1>1, <1>6, <1>7, <1>8, <2>2 DEF LineInv, QueueOrdered
    <2> QED
      BY <2>1, <2>2 DEF QueueOrdered
  <1>11. WaitingIsQueued'
    BY <1>1, <1>2, <1>7, <1>8 DEF LineInv, WaitingIsQueued
  <1>12. DurableWasPosted'
    BY <1>1, <1>2, <1>5 DEF LineInv, DurableWasPosted
  <1>13. HistoryAhead'
    BY <1>1, <1>3, <1>5, <1>6, <1>7 DEF LineInv, HistoryAhead, Elems
  <1>14. HistoryOrdered'
    BY <1>1, <1>3, <1>5, <1>6 DEF LineInv, HistoryOrdered, Elems
  <1> QED
    BY <1>9, <1>10, <1>11, <1>12, <1>13, <1>14 DEF LineInv

\* What the line holds are messages that were queued, each at one place.
LEMMA LineMembers ==
  ASSUME SlotInv, Types, LineInv
  PROVE  /\ \A i \in DOMAIN queue : queue[i] \in Entry
         /\ \A x \in Queued : x \in Messages /\ x \in Elems(parked) /\ x \notin Elems(history)
         /\ msgClaim # None =>
              /\ msgClaim.run \in RunIds /\ msgClaim.entry \in Entry
              /\ msgClaim.entry.msg \in Messages /\ msgClaim.entry.msg \in Elems(parked)
              /\ msgClaim.entry.msg \notin Queued
         /\ \A i, j \in DOMAIN queue : queue[i].msg = queue[j].msg => i = j
  <1>1. \A i \in DOMAIN queue : queue[i] \in Entry
    BY DEF SlotInv, SlotTypes
  <1>2. \A x \in Queued : x \in Messages
    BY <1>1 DEF Queued, Entry
  <1>3. msgClaim # None => /\ msgClaim.run \in RunIds /\ msgClaim.entry \in Entry
                           /\ msgClaim.entry.msg \in Messages
    BY DEF Types, QueueTypes, MessageClaims, Entry
  <1>4. /\ \A x \in Queued : x \in Elems(parked)
        /\ msgClaim # None => msgClaim.entry.msg \in Elems(parked)
    BY <1>2, <1>3 DEF LineInv, ParkedOnce, WaitingIsQueued
  <1>5. \A x, y : Before(x, y) => x # y
    <2>1. PostTypes /\ Distinct(parked)
      BY DEF LineInv, ParkedOnce, Types
    <2> QED
      BY <2>1, BeforeIsStrict
  <1>6. ASSUME NEW x \in Queued, x \in Elems(history) PROVE FALSE
    <2>1. PICK i \in DOMAIN history : history[i] = x
      BY <1>6 DEF Elems
    <2>2. Before(x, x)
      BY <1>4, <2>1 DEF LineInv, HistoryAhead, Waiting
    <2> QED
      BY <1>5, <2>2
  <1>7. msgClaim # None => msgClaim.entry.msg \notin Queued
    BY <1>5 DEF LineInv, QueueOrdered
  <1>8. ASSUME NEW i \in DOMAIN queue, NEW j \in DOMAIN queue, queue[i].msg = queue[j].msg
        PROVE  i = j
    <2>1. i \in Int /\ j \in Int
      BY DEF SlotInv, SlotTypes
    <2>2. ~ (i < j) /\ ~ (j < i)
      BY <1>5, <1>8 DEF LineInv, QueueOrdered
    <2> QED
      BY <2>1, <2>2
  <1> QED
    BY <1>1, <1>2, <1>3, <1>4, <1>6, <1>7, <1>8

\* DELETE takes messages out and leaves the others in their order.
LEMMA LineRetract ==
  ASSUME SlotInv, Types, LineInv, NEW gone, NEW rest, gone \subseteq Queued, Retract(gone, rest),
         \A i, j \in DOMAIN rest : i < j =>
           \E k, l \in DOMAIN queue : k < l /\ queue[k] = rest[i] /\ queue[l] = rest[j],
         {rest[i].msg : i \in DOMAIN rest} = Queued \ gone
  PROVE  LineInv'
  <1>1. /\ queue' = rest /\ UNCHANGED <<msgClaim, history, runs, parked>>
        /\ post' = [m \in Messages |-> IF m \in gone THEN "retracted" ELSE post[m]]
    BY DEF Retract, slotVars
  <1>2. /\ \A x \in Queued : x \in Messages /\ x \in Elems(parked) /\ x \notin Elems(history)
        /\ msgClaim # None => /\ msgClaim.entry.msg \in Messages
                              /\ msgClaim.entry.msg \notin Queued
    BY LineMembers
  <1>3. /\ Queued' = Queued \ gone /\ Starter' = Starter /\ Elems(parked)' = Elems(parked)
        /\ Elems(history)' = Elems(history) /\ \A x, y : Before(x, y)' <=> Before(x, y)
    <2>1. Queued' = Queued \ gone
      <3>1. Queued' = {rest[i].msg : i \in DOMAIN rest}
        BY <1>1, Zenon DEF Queued
      <3> QED
        BY <3>1
    <2>2. Starter' = Starter
      BY <1>1 DEF Starter
    <2> QED
      BY <1>1, <2>1, <2>2 DEF Elems, Before
  <1>4. Waiting' \subseteq Waiting /\ Waiting \subseteq Waiting' \cup gone
    BY <1>3 DEF Waiting
  <1>5. ParkedOnce'
    BY <1>1, <1>2, <1>3 DEF LineInv, ParkedOnce, WaitingIsQueued
  <1>6. QueueOrdered'
    <2>1. ASSUME NEW i \in DOMAIN queue', NEW j \in DOMAIN queue', i < j
          PROVE  Before(queue'[i].msg, queue'[j].msg)
      BY <1>1, <2>1 DEF LineInv, QueueOrdered
    <2> QED
      BY <1>1, <1>3, <2>1 DEF LineInv, QueueOrdered
  <1>7. WaitingIsQueued'
    BY <1>1, <1>2, <1>3, <1>4 DEF LineInv, WaitingIsQueued
  <1>8. DurableWasPosted'
    BY <1>1, <1>2, <1>3 DEF LineInv, DurableWasPosted
  <1>9. HistoryAhead' /\ HistoryOrdered'
    BY <1>1, <1>3, <1>4 DEF LineInv, HistoryAhead, HistoryOrdered
  <1> QED
    BY <1>5, <1>6, <1>7, <1>8, <1>9 DEF LineInv

\* DELETE /queue
LEMMA LineRetractAll == ASSUME SlotInv, Types, LineInv, RetractAll PROVE LineInv'
  <1>1. Retract(Queued, <<>>)
    BY DEF RetractAll
  <1>2. DOMAIN <<>> = {}
    OBVIOUS
  <1>3. {<<>>[i].msg : i \in DOMAIN <<>>} = Queued \ Queued
    BY <1>2
  <1> QED
    BY <1>1, <1>2, <1>3, LineRetract

\* DELETE /queue/:message_id
LEMMA LineRetractOne ==
  ASSUME SlotInv, Types, LineInv, NEW m \in Messages, RetractOne(m)
  PROVE  LineInv'
  <1>1. PICK n \in DOMAIN queue :
          queue[n].msg = m /\ Retract({m}, FirstN(queue, n - 1) \o DropN(queue, n))
    BY DEF RetractOne
  <1> DEFINE u == FirstN(queue, n - 1)  v == DropN(queue, n)  rest == u \o v
             at(i) == IF i < n THEN i ELSE i + 1
  <1>2. /\ queue \in Seq(Entry) /\ Len(queue) \in Nat /\ DOMAIN queue = 1 .. Len(queue)
        /\ n \in 1 .. Len(queue) /\ n - 1 \in Nat /\ n - 1 < Len(queue)
    BY DEF SlotInv, SlotTypes
  <1>3. u \in Seq(Entry) /\ Len(u) = n - 1 /\ \A i \in 1 .. n - 1 : u[i] = queue[i]
    <2>1. u = SubSeq(queue, 1, n - 1)
      BY <1>2 DEF FirstN
    <2>2. \A i \in 1 .. n - 1 : queue[i] \in Entry
      BY <1>2
    <2>3. /\ SubSeq(queue, 1, n - 1) \in Seq(Entry)
          /\ Len(SubSeq(queue, 1, n - 1)) = IF 1 <= n - 1 THEN (n - 1) - 1 + 1 ELSE 0
          /\ \A i \in 1 .. (n - 1) - 1 + 1 : SubSeq(queue, 1, n - 1)[i] = queue[1 + i - 1]
      BY <1>2, <2>2, SubSeqProperties
    <2>4. \A i \in 1 .. n - 1 : i \in 1 .. (n - 1) - 1 + 1 /\ 1 + i - 1 = i
      BY <1>2
    <2>5. (IF 1 <= n - 1 THEN (n - 1) - 1 + 1 ELSE 0) = n - 1
      BY <1>2
    <2> QED
      BY <2>1, <2>3, <2>4, <2>5
  <1>4. /\ v \in Seq(Entry) /\ Len(v) = Len(queue) - n
        /\ \A i \in 1 .. Len(queue) - n : v[i] = queue[n + i]
    <2>1. n \in 0 .. Len(queue)
      BY <1>2
    <2> QED
      BY <1>2, <2>1, RestOf
  <1> HIDE DEF u, v
  <1>5. /\ DOMAIN rest = 1 .. Len(queue) - 1
        /\ \A i \in DOMAIN rest : rest[i] = IF i <= n - 1 THEN u[i] ELSE v[i - (n - 1)]
    <2>1. /\ Len(u \o v) = Len(u) + Len(v) /\ u \o v \in Seq(Entry)
          /\ \A i \in 1 .. Len(u) + Len(v) :
               (u \o v)[i] = IF i <= Len(u) THEN u[i] ELSE v[i - Len(u)]
      BY <1>3, <1>4, ConcatProperties
    <2>2. Len(u) + Len(v) = Len(queue) - 1
      BY <1>2, <1>3, <1>4
    <2>3. DOMAIN (u \o v) = 1 .. Len(queue) - 1
      BY <2>1, <2>2, LenProperties
    <2> QED
      BY <1>3, <2>1, <2>2, <2>3
  <1>7. Retract({m}, rest)
    BY <1>1 DEF u, v
  <1> HIDE DEF rest
  <1>6. ASSUME NEW i \in DOMAIN rest
        PROVE  at(i) \in DOMAIN queue /\ at(i) # n /\ rest[i] = queue[at(i)]
    <2>1. i \in 1 .. Len(queue) - 1
      BY <1>5
    <2>2. CASE i < n
      <3>1. i \in 1 .. n - 1 /\ i \in 1 .. Len(queue) /\ i # n
        BY <1>2, <2>1, <2>2
      <3> QED
        BY <1>2, <1>3, <1>5, <2>2, <3>1
    <2>3. CASE ~ (i < n)
      <3>1. /\ ~ (i <= n - 1) /\ i - (n - 1) \in 1 .. Len(queue) - n
            /\ n + (i - (n - 1)) = i + 1 /\ i + 1 \in 1 .. Len(queue) /\ i + 1 # n
        BY <1>2, <2>1, <2>3
      <3>2. rest[i] = v[i - (n - 1)]
        BY <1>5, <3>1
      <3>3. v[i - (n - 1)] = queue[i + 1]
        BY <1>4, <3>1
      <3> QED
        BY <1>2, <2>3, <3>1, <3>2, <3>3
    <2> QED
      BY <2>2, <2>3
  <1>8. \A i, j \in DOMAIN rest : i < j => at(i) < at(j)
    BY <1>2, <1>5
  <1>9. \A k \in DOMAIN queue : k # n => \E i \in DOMAIN rest : at(i) = k
    <2> SUFFICES ASSUME NEW k \in DOMAIN queue, k # n PROVE \E i \in DOMAIN rest : at(i) = k
      OBVIOUS
    <2>1. CASE k < n
      <3>1. k \in DOMAIN rest
        BY <1>2, <1>5, <2>1
      <3> QED
        BY <2>1, <3>1
    <2>2. CASE ~ (k < n)
      <3>1. k - 1 \in DOMAIN rest /\ ~ (k - 1 < n) /\ (k - 1) + 1 = k
        BY <1>2, <1>5, <2>2
      <3> QED
        BY <3>1
    <2> QED
      BY <2>1, <2>2
  <1> HIDE DEF at
  <1>10. {rest[i].msg : i \in DOMAIN rest} = Queued \ {m}
    <2>1. \A k \in DOMAIN queue : k # n => queue[k].msg # m
      BY <1>1, LineMembers
    <2> QED
      BY <1>1, <1>6, <1>9, <2>1 DEF Queued
  <1>11. \A i, j \in DOMAIN rest : i < j =>
           \E k, l \in DOMAIN queue : k < l /\ queue[k] = rest[i] /\ queue[l] = rest[j]
    BY <1>6, <1>8
  <1>12. {m} \subseteq Queued
    BY <1>1 DEF Queued
  <1> QED
    BY <1>7, <1>10, <1>11, <1>12, LineRetract

\* The claim of the head takes it from the queue and makes it the starter.
LEMMA LineClaim ==
  ASSUME SlotInv, Types, LineInv, ClaimHead, msgClaim = None, queue # <<>>
  PROVE  LineInv'
  <1>1. /\ queue' = Tail(queue) /\ msgClaim' = [run |-> sched.next, entry |-> Head(queue)]
        /\ runs' = [runs EXCEPT ![sched.next] =
                      [phase |-> "starting", items |-> <<Head(queue).msg>>]]
        /\ UNCHANGED <<history, parked, post>>
    BY DEF ClaimHead, Rest, SpawnTurn, SchedKeeps, postVars
  <1>2. /\ queue \in Seq(Entry) /\ Len(queue) \in Nat /\ DOMAIN queue = 1 .. Len(queue)
        /\ runs = [r \in RunIds |-> runs[r]] /\ sched.next \in RunIds
    <2>1. sched.next \in RunIds
      BY NoneAssumption DEF ClaimHead, SlotInv, SlotTypes, SchedulerOwns, ClaimPlaces
    <2> QED
      BY <2>1 DEF SlotInv, SlotTypes
  <1>3. /\ Head(queue) = queue[1] /\ 1 \in DOMAIN queue
        /\ Tail(queue) \in Seq(Entry) /\ Len(Tail(queue)) = Len(queue) - 1
        /\ \A i \in 1 .. Len(Tail(queue)) : Tail(queue)[i] = queue[i + 1]
    BY <1>2, HeadTailProperties, EmptySeq
  <1>4. DOMAIN queue' = 1 .. Len(queue) - 1
    BY <1>1, <1>3, LenProperties
  <1>5. \A i \in DOMAIN queue' : i + 1 \in DOMAIN queue /\ 1 < i + 1 /\ queue'[i] = queue[i + 1]
    BY <1>1, <1>2, <1>3, <1>4
  <1>6. \A k \in DOMAIN queue : k = 1 \/ (k - 1 \in DOMAIN queue' /\ (k - 1) + 1 = k)
    BY <1>2, <1>4
  <1>7. Queued = Queued' \cup {queue[1].msg}
    BY <1>3, <1>5, <1>6 DEF Queued
  <1>8. Starter = {} /\ Starter' = {queue[1].msg}
    <2>1. runs'[sched.next].phase = "starting"
      BY <1>1, <1>2
    <2>2. /\ msgClaim' # None /\ msgClaim'.run = sched.next /\ msgClaim'.entry.msg = queue[1].msg
      <3>1. Head(queue) \in Entry
        BY <1>2, <1>3
      <3>2. msgClaim' \in MessageClaims
        BY <1>1, <1>2, <3>1 DEF MessageClaims
      <3> QED
        BY <1>1, <1>3, <3>2, KindsAssumption DEF MessageClaims, Entry
    <2> QED
      BY <2>1, <2>2 DEF Starter
  <1>9. /\ Waiting' = Waiting /\ Elems(parked)' = Elems(parked) /\ Elems(history)' = Elems(history)
        /\ \A x, y : Before(x, y)' <=> Before(x, y)
    BY <1>1, <1>7, <1>8 DEF Waiting, Elems, Before
  <1>10. msgClaim'.entry.msg = queue[1].msg
    BY <1>1, <1>3
  <1>11. QueueOrdered'
    <2>1. ASSUME NEW i \in DOMAIN queue', NEW j \in DOMAIN queue', i < j
          PROVE  Before(queue'[i].msg, queue'[j].msg)
      <3>1. i + 1 < j + 1
        BY <1>2, <1>4, <2>1
      <3> QED
        BY <1>5, <3>1 DEF LineInv, QueueOrdered
    <2>2. \A i \in DOMAIN queue' : Before(queue[1].msg, queue'[i].msg)
      BY <1>3, <1>5 DEF LineInv, QueueOrdered
    <2>3. \A m \in Queued' : Before(msgClaim'.entry.msg, m)
      BY <1>10, <2>2 DEF Queued
    <2> QED
      BY <1>9, <2>1, <2>3 DEF QueueOrdered
  <1>12. WaitingIsQueued'
    BY <1>1, <1>7, <1>9, <1>10 DEF LineInv, WaitingIsQueued
  <1>13. ParkedOnce' /\ DurableWasPosted'
    BY <1>1, <1>9 DEF LineInv, ParkedOnce, DurableWasPosted
  <1>14. HistoryAhead' /\ HistoryOrdered'
    BY <1>1, <1>9 DEF LineInv, HistoryAhead, HistoryOrdered
  <1> QED
    BY <1>11, <1>12, <1>13, <1>14 DEF LineInv

\* A failed start puts the claimed message back ahead of all that wait.
LEMMA LineRequeue ==
  ASSUME SlotInv, Types, LineInv, NEW r \in RunIds, GiveUpStart(r),
         msgClaim # None, msgClaim.run = r
  PROVE  LineInv'
  <1> DEFINE h == <<msgClaim.entry>>
  <1>1. /\ queue' = h \o queue /\ msgClaim' = None /\ runs[r].phase = "unstarted"
        /\ UNCHANGED <<history, parked, post>>
    BY DEF GiveUpStart, RequeueMessage, postVars
  <1>2. /\ queue \in Seq(Entry) /\ Len(queue) \in Nat /\ DOMAIN queue = 1 .. Len(queue)
        /\ msgClaim.entry \in Entry
    BY LineMembers DEF SlotInv, SlotTypes
  <1>3. h \in Seq(Entry) /\ Len(h) = 1 /\ h[1] = msgClaim.entry
    BY <1>2
  <1> HIDE DEF h
  <1>4. /\ DOMAIN queue' = 1 .. Len(queue) + 1
        /\ \A i \in 1 .. Len(queue) + 1 : queue'[i] = IF i <= 1 THEN h[i] ELSE queue[i - 1]
    <2>1. /\ h \o queue \in Seq(Entry) /\ Len(h \o queue) = Len(h) + Len(queue)
          /\ \A i \in 1 .. Len(h) + Len(queue) :
               (h \o queue)[i] = IF i <= Len(h) THEN h[i] ELSE queue[i - Len(h)]
      BY <1>2, <1>3, ConcatProperties
    <2>2. Len(h) + Len(queue) = Len(queue) + 1
      BY <1>2, <1>3
    <2>3. DOMAIN (h \o queue) = 1 .. Len(queue) + 1
      BY <2>1, <2>2, LenProperties
    <2> QED
      BY <1>1, <1>3, <2>1, <2>2, <2>3
  <1>5. /\ 1 \in DOMAIN queue' /\ queue'[1] = msgClaim.entry
        /\ \A i \in DOMAIN queue : i + 1 \in DOMAIN queue' /\ queue'[i + 1] = queue[i]
        /\ \A i \in DOMAIN queue' : i = 1 \/ (i - 1 \in DOMAIN queue /\ queue'[i] = queue[i - 1])
    <2>1. 1 \in DOMAIN queue' /\ queue'[1] = msgClaim.entry
      BY <1>2, <1>3, <1>4
    <2>2. ASSUME NEW i \in DOMAIN queue PROVE i + 1 \in DOMAIN queue' /\ queue'[i + 1] = queue[i]
      <3>1. i + 1 \in 1 .. Len(queue) + 1 /\ ~ (i + 1 <= 1) /\ (i + 1) - 1 = i
        BY <1>2
      <3> QED
        BY <1>4, <3>1
    <2>3. ASSUME NEW i \in DOMAIN queue', i # 1
          PROVE  i - 1 \in DOMAIN queue /\ queue'[i] = queue[i - 1]
      <3>1. i \in 1 .. Len(queue) + 1 /\ ~ (i <= 1) /\ i - 1 \in 1 .. Len(queue)
        BY <1>2, <1>4, <2>3
      <3> QED
        BY <1>2, <1>4, <3>1
    <2> QED
      BY <2>1, <2>2, <2>3
  <1>6. Queued' = Queued \cup {msgClaim.entry.msg}
    BY <1>5 DEF Queued
  <1>7. Starter = {msgClaim.entry.msg} /\ Starter' = {}
    BY <1>1 DEF Starter
  <1>8. /\ Waiting' = Waiting /\ Elems(parked)' = Elems(parked) /\ Elems(history)' = Elems(history)
        /\ \A x, y : Before(x, y)' <=> Before(x, y)
    BY <1>1, <1>6, <1>7 DEF Waiting, Elems, Before
  <1>9. QueueOrdered'
    <2>1. ASSUME NEW i \in DOMAIN queue', NEW j \in DOMAIN queue', i < j
          PROVE  Before(queue'[i].msg, queue'[j].msg)
      <3>1. j # 1 /\ j - 1 \in DOMAIN queue /\ queue'[j] = queue[j - 1]
        BY <1>4, <1>5, <2>1
      <3>2. CASE i = 1
        BY <1>5, <3>1, <3>2 DEF LineInv, QueueOrdered, Queued
      <3>3. CASE i # 1
        <4>1. i - 1 \in DOMAIN queue /\ queue'[i] = queue[i - 1]
          BY <1>5, <3>3
        <4>2. i - 1 < j - 1
          BY <1>4, <2>1
        <4> QED
          BY <3>1, <4>1, <4>2 DEF LineInv, QueueOrdered
      <3> QED
        BY <3>2, <3>3
    <2> QED
      BY <1>1, <1>8, <2>1 DEF QueueOrdered
  <1>10. WaitingIsQueued'
    BY <1>1, <1>6, <1>8 DEF LineInv, WaitingIsQueued
  <1>11. ParkedOnce' /\ DurableWasPosted'
    BY <1>1, <1>8 DEF LineInv, ParkedOnce, DurableWasPosted
  <1>12. HistoryAhead' /\ HistoryOrdered'
    BY <1>1, <1>8 DEF LineInv, HistoryAhead, HistoryOrdered
  <1> QED
    BY <1>9, <1>10, <1>11, <1>12 DEF LineInv

\* The starter, and with it the line, changes with the start save of its turn.
LEMMA StarterKept ==
  ASSUME UNCHANGED msgClaim,
         msgClaim # None => (runs'[msgClaim.run].phase = "saved" <=> runs[msgClaim.run].phase = "saved")
  PROVE  Starter' = Starter
  BY DEF Starter

\* An acknowledged message is durable, so that the line does not lose it.
LEMMA LineAck ==
  ASSUME SlotInv, Types, LineInv, NEW r \in RunIds, AckClaims(r)
  PROVE  LineInv'
  <1>1. /\ runs[r].phase = "saved" /\ UNCHANGED <<queue, history, parked, post>>
        /\ runs' = [runs EXCEPT ![r].phase = "running"]
    BY DEF AckClaims, SetPhase, postVars
  <1>2. runs = [x \in RunIds |-> runs[x]] /\ (msgClaim # None => msgClaim.run \in RunIds)
    BY LineMembers DEF SlotInv, SlotTypes
  <1>3. CASE msgClaim # None /\ msgClaim.run = r
    <2>1. msgClaim' = None
      BY <1>3 DEF AckClaims, AckMessage
    <2>2. Starter = {} /\ Starter' = {} /\ Queued' = Queued
      BY <1>1, <1>3, <2>1 DEF Starter, Queued
    <2>3. /\ Waiting' = Waiting /\ Elems(parked)' = Elems(parked)
          /\ Elems(history)' = Elems(history) /\ \A x, y : Before(x, y)' <=> Before(x, y)
      BY <1>1, <2>2 DEF Waiting, Elems, Before
    <2>4. ParkedOnce' /\ DurableWasPosted'
      BY <1>1, <2>3 DEF LineInv, ParkedOnce, DurableWasPosted
    <2>5. QueueOrdered'
      BY <1>1, <2>1, <2>3 DEF LineInv, QueueOrdered
    <2>6. WaitingIsQueued'
      BY <1>1, <2>1, <2>2, <2>3 DEF LineInv, WaitingIsQueued
    <2>7. HistoryAhead' /\ HistoryOrdered'
      BY <1>1, <2>3 DEF LineInv, HistoryAhead, HistoryOrdered
    <2> QED
      BY <2>4, <2>5, <2>6, <2>7 DEF LineInv
  <1>4. CASE ~ (msgClaim # None /\ msgClaim.run = r)
    <2>1. msgClaim' = msgClaim
      BY <1>4 DEF AckClaims, AckMessage
    <2>2. msgClaim # None => runs'[msgClaim.run] = runs[msgClaim.run]
      BY <1>1, <1>2, <1>4
    <2>3. Starter' = Starter
      BY <2>1, <2>2, StarterKept
    <2> QED
      BY <1>1, <2>1, <2>3, LineElsewhere, LineMembers
  <1> QED
    BY <1>3, <1>4

\* What a start save makes durable: the starter, or nothing that was ever queued
LEMMA LineSave ==
  ASSUME SlotInv, Types, LineInv, CarryInv, NEW r \in RunIds, StartSave(r, TRUE)
  PROVE  LineInv'
  <1> DEFINE s == runs[r].items
  <1>1. /\ runs[r].phase = "starting" /\ UNCHANGED <<queue, msgClaim, parked, post>>
        /\ history' = history \o s
        /\ runs' = [runs EXCEPT ![r].phase = "saved"]
    BY DEF StartSave, SetPhase, postVars, queueVars
  <1>2. /\ runs = [x \in RunIds |-> runs[x]] /\ (msgClaim # None => msgClaim.run \in RunIds)
        /\ runs[r] = [x \in {"phase", "items"} |-> runs[r][x]]
    BY LineMembers DEF SlotInv, SlotTypes
  <1>3. history \in Seq(Item) /\ s \in Seq(Item)
    BY DEF Types, TurnTypes
  <1> DEFINE n == Len(history)
  <1>4. /\ n \in Nat /\ Len(s) \in Nat /\ DOMAIN history = 1 .. n /\ DOMAIN s = 1 .. Len(s)
    BY <1>3
  <1> HIDE DEF s, n
  <1>5. /\ DOMAIN history' = 1 .. n + Len(s)
        /\ \A i \in 1 .. n + Len(s) : history'[i] = IF i <= n THEN history[i] ELSE s[i - n]
    BY <1>1, <1>3, ConcatProperties, LenProperties DEF n
  <1>6. \A i \in DOMAIN history' : \/ i \in DOMAIN history /\ history'[i] = history[i]
                                   \/ i > n /\ i - n \in DOMAIN s /\ history'[i] = s[i - n]
    BY <1>4, <1>5
  <1>7. Elems(history') = Elems(history) \cup Elems(s)
    BY <1>1, <1>3, ConcatElems
  <1>8. Queued' = Queued /\ Elems(parked)' = Elems(parked) /\ \A x, y : Before(x, y)' <=> Before(x, y)
    BY <1>1 DEF Queued, Elems, Before
  <1>9. CASE msgClaim # None /\ msgClaim.run = r
    <2> DEFINE x == msgClaim.entry.msg
    <2>1. s = <<x>>
      BY <1>1, <1>9 DEF CarryInv, ClaimCarried, Active, s
    <2>2. x \in Messages /\ x \in Elems(parked) /\ x \notin Queued /\ post[x] = "queued"
      BY <1>9, LineMembers DEF LineInv, WaitingIsQueued
    <2>3. Starter = {x} /\ Starter' = {}
      BY <1>1, <1>2, <1>9 DEF Starter
    <2>4. Waiting = Queued \cup {x} /\ Waiting' = Queued
      BY <1>8, <2>3 DEF Waiting
    <2>5. \A m \in Queued : Before(x, m)
      BY <1>9 DEF LineInv, QueueOrdered
    <2> HIDE DEF x
    <2>6. Len(s) = 1 /\ Elems(s) = {x} /\ s[1] = x
      BY <2>1 DEF Elems
    <2>7. \A i \in DOMAIN history' : \/ i \in DOMAIN history /\ history'[i] = history[i]
                                     \/ i = n + 1 /\ history'[i] = x
      <3>1. \A i \in DOMAIN history' : i - n \in DOMAIN s => i = n + 1 /\ i - n = 1
        BY <1>4, <1>5, <2>6
      <3> QED
        BY <1>6, <2>6, <3>1
    <2>8. ParkedOnce' /\ DurableWasPosted'
      BY <1>1, <1>7, <1>8, <2>2, <2>6 DEF LineInv, ParkedOnce, DurableWasPosted
    <2>9. QueueOrdered'
      BY <1>1, <1>8 DEF LineInv, QueueOrdered
    <2>10. WaitingIsQueued'
      BY <1>1, <1>7, <1>8, <2>4, <2>6 DEF LineInv, WaitingIsQueued
    <2>11. HistoryAhead'
      BY <1>8, <2>4, <2>5, <2>7 DEF LineInv, HistoryAhead
    <2>12. HistoryOrdered'
      <3> SUFFICES ASSUME NEW i \in DOMAIN history', NEW j \in DOMAIN history', i < j,
                          history'[i] \in Elems(parked), history'[j] \in Elems(parked)
                   PROVE  Before(history'[i], history'[j])
        BY <1>8 DEF HistoryOrdered
      <3>1. i \in DOMAIN history /\ history'[i] = history[i]
        BY <1>4, <1>5, <2>6, <2>7
      <3>2. CASE j \in DOMAIN history /\ history'[j] = history[j]
        BY <3>1, <3>2 DEF LineInv, HistoryOrdered
      <3>3. CASE history'[j] = x
        BY <2>4, <3>1, <3>3 DEF LineInv, HistoryAhead
      <3> QED
        BY <2>7, <3>2, <3>3
    <2> QED
      BY <2>8, <2>9, <2>10, <2>11, <2>12 DEF LineInv
  <1>10. CASE ~ (msgClaim # None /\ msgClaim.run = r)
    <2>1. \A m \in Messages : m \in Elems(s) => post[m] = "started"
      BY <1>1, <1>10 DEF CarryInv, ItemsKnown, s
    <2>2. \A i \in DOMAIN s : s[i] \notin Elems(parked)
      <3>1. \A y \in Elems(parked) : y \in Messages
        BY DEF Types, PostTypes, Elems
      <3> QED
        BY <2>1, <3>1 DEF LineInv, ParkedOnce, Elems
    <2>3. msgClaim # None => runs'[msgClaim.run] = runs[msgClaim.run]
      BY <1>1, <1>2, <1>10
    <2>4. Starter' = Starter /\ Waiting' = Waiting
      <3>1. Starter' = Starter
        BY <1>1, <2>3, StarterKept
      <3> QED
        BY <1>8, <3>1 DEF Waiting
    <2>5. \A i \in DOMAIN history' : history'[i] \in Elems(parked) =>
            i \in DOMAIN history /\ history'[i] = history[i]
      BY <1>6, <2>2
    <2>6. ParkedOnce' /\ DurableWasPosted'
      BY <1>1, <1>7, <1>8, <2>1 DEF LineInv, ParkedOnce, DurableWasPosted
    <2>7. QueueOrdered'
      BY <1>1, <1>8 DEF LineInv, QueueOrdered
    <2>8. WaitingIsQueued'
      BY <1>1, <1>7, <1>8, <2>4 DEF LineInv, WaitingIsQueued
    <2>9. HistoryAhead' /\ HistoryOrdered'
      BY <1>8, <2>4, <2>5 DEF LineInv, HistoryAhead, HistoryOrdered
    <2> QED
      BY <2>6, <2>7, <2>8, <2>9 DEF LineInv
  <1> QED
    BY <1>9, <1>10

\* Only a message that is not posted yet changes how it was posted, or one that waits.
LEMMA PostsSettle ==
  ASSUME SlotInv, Types, LineInv, [Next]_vars
  PROVE  \A m \in Messages : post[m] = "started" => post'[m] = "started"
  <1>0. post = [m \in Messages |-> post[m]]
    BY DEF Types, PostTypes
  <1>1. ASSUME NEW m \in Messages, PostStarts(m) \/ PostEnqueue(m)
        PROVE  \A x \in Messages : post[x] = "started" => post'[x] = "started"
    BY <1>0, <1>1 DEF PostStarts, PostEnqueue
  <1>2. ASSUME NEW m \in Messages, NEW wait \in BOOLEAN, PostBusy(m, wait)
        PROVE  \A x \in Messages : post[x] = "started" => post'[x] = "started"
    BY <1>0, <1>2 DEF PostBusy
  <1>3. ASSUME NEW gone, NEW rest, Retract(gone, rest), gone \subseteq Queued
        PROVE  \A x \in Messages : post[x] = "started" => post'[x] = "started"
    BY <1>3 DEF Retract, LineInv, WaitingIsQueued
  <1>4. ASSUME NEW m \in Messages, RetractOne(m)
        PROVE  \A x \in Messages : post[x] = "started" => post'[x] = "started"
    <2>1. PICK i \in DOMAIN queue :
            queue[i].msg = m /\ Retract({m}, FirstN(queue, i - 1) \o DropN(queue, i))
      BY <1>4 DEF RetractOne
    <2>2. {m} \subseteq Queued
      BY <2>1 DEF Queued
    <2> QED
      BY <1>3, <2>1, <2>2
  <1>5. CASE UNCHANGED postVars
    BY <1>5 DEF postVars
  <1> QED
    BY <1>1, <1>2, <1>3, <1>4, <1>5, PostSteps DEF RetractAll

\* A turn that is spawned, on an id that was not used
LEMMA SpawnsUnused ==
  ASSUME SlotInv, Types, CarryInv, Spawns, ~ UNCHANGED runs
  PROVE  \E r \in RunIds :
           /\ ~ Active(r) /\ runs'[r].phase = "starting"
           /\ \A x \in RunIds : x # r => runs'[x] = runs[x]
           /\ UNCHANGED history
           /\ ClaimHead \/ (runs[r] = Unused /\ UNCHANGED msgClaim)
  <1> USE DEF SpawnTurn, SchedKeeps
  <1>0. runs = [r \in RunIds |-> runs[r]] /\ (sched.pc \in ClaimPlaces => sched.next \in RunIds)
    BY NoneAssumption DEF SlotInv, SlotTypes, SchedulerOwns
  <1>1. ASSUME NEW m \in Messages, PostStarts(m)
        PROVE  \E r \in RunIds :
                 /\ ~ Active(r) /\ runs'[r].phase = "starting"
                 /\ \A x \in RunIds : x # r => runs'[x] = runs[x]
                 /\ UNCHANGED history /\ runs[r] = Unused /\ UNCHANGED msgClaim
    <2>1. Mint \in RunIds /\ runs[Mint] = Unused
      BY <1>1, MintIsFresh DEF PostStarts
    <2>2. runs' = [runs EXCEPT ![Mint] = [phase |-> "starting", items |-> <<m>>]]
      BY <1>1 DEF PostStarts
    <2>3. UNCHANGED history /\ UNCHANGED msgClaim
      BY <1>1 DEF PostStarts, queueVars
    <2>4. /\ ~ Active(Mint) /\ runs'[Mint].phase = "starting"
          /\ \A x \in RunIds : x # Mint => runs'[x] = runs[x]
      BY <1>0, <2>1, <2>2 DEF Active, Unused
    <2> QED
      BY <2>1, <2>3, <2>4
  <1>2. CASE ClaimResults
    <2>1. sched.next \in RunIds /\ runs[sched.next] = Unused
      BY <1>0, <1>2 DEF ClaimResults, ClaimPlaces, CarryInv, ClaimsForUnused
    <2>2. runs' = [runs EXCEPT ![sched.next] = [phase |-> "starting", items |-> Batch]]
      BY <1>2 DEF ClaimResults
    <2> QED
      BY <1>0, <1>2, <2>1, <2>2 DEF ClaimResults, Active, Unused, queueVars
  <1>3. CASE ClaimGroup
    <2>1. sched.next \in RunIds /\ runs[sched.next] = Unused
      BY <1>0, <1>3 DEF ClaimGroup, ClaimPlaces, CarryInv, ClaimsForUnused
    <2>2. PICK g \in Groups :
            runs' = [runs EXCEPT ![sched.next] = [phase |-> "starting", items |-> <<g>>]]
      BY <1>3 DEF ClaimGroup
    <2> QED
      BY <1>0, <1>3, <2>1, <2>2 DEF ClaimGroup, Active, Unused, queueVars
  <1>4. CASE ClaimHead
    <2>1. sched.next \in RunIds /\ sched.pc \in ClaimPlaces
      BY <1>0, <1>4 DEF ClaimHead, ClaimPlaces
    <2>2. runs' = [runs EXCEPT ![sched.next] = [phase |-> "starting", items |-> <<Head(queue).msg>>]]
      BY <1>4 DEF ClaimHead
    <2>3. ~ Active(sched.next)
      BY <2>1 DEF SlotInv, OneHolder, SchedulerHolds
    <2> QED
      BY <1>0, <1>4, <2>1, <2>2, <2>3 DEF ClaimHead
  <1> QED
    BY <1>1, <1>2, <1>3, <1>4 DEF Spawns

\* A step of a turn that is neither its start save nor its acknowledgement
LEMMA TurnGoesElsewhere ==
  ASSUME SlotInv, NEW r \in RunIds, Turn(r), ~ StartSave(r, TRUE), ~ AckClaims(r)
  PROVE  \E p \in Phases \ {"saved"} : SetPhase(r, p) /\ runs[r].phase # "saved"
  <1>1. ASSUME NEW ok \in BOOLEAN, StartSave(r, ok)
        PROVE  SetPhase(r, "unstarted") /\ runs[r].phase # "saved"
    <2>1. ok = FALSE
      BY <1>1
    <2> QED
      BY <1>1, <2>1 DEF StartSave
  <1>2. ASSUME NEW ok \in BOOLEAN, FinalSave(r, ok)
        PROVE  SetPhase(r, "ended") /\ runs[r].phase # "saved"
    BY <1>2 DEF FinalSave, EndTurn
  <1>3. GiveUpStart(r) \/ Dies(r) => SetPhase(r, "ended") /\ runs[r].phase # "saved"
    BY DEF GiveUpStart, Dies, EndTurn
  <1> QED
    BY <1>1, <1>2, <1>3 DEF Turn, Phases

\* Nothing but a start save and an acknowledgement changes what the turn of the
\* claim has made durable.
LEMMA StarterSteps ==
  ASSUME SlotInv, Types, CarryInv, LineInv, [Next]_vars, UNCHANGED msgClaim,
         \A r \in RunIds : ~ StartSave(r, TRUE) /\ ~ AckClaims(r)
  PROVE  Starter' = Starter
  <1>0. /\ runs = [r \in RunIds |-> runs[r]] /\ (msgClaim # None => msgClaim.run \in RunIds)
        /\ \A r \in RunIds : runs[r] = [x \in {"phase", "items"} |-> runs[r][x]]
    BY LineMembers DEF SlotInv, SlotTypes
  <1> DEFINE Same == msgClaim # None =>
               (runs'[msgClaim.run].phase = "saved" <=> runs[msgClaim.run].phase = "saved")
  <1>1. CASE UNCHANGED runs
    BY <1>1, StarterKept
  <1>2. CASE Spawns /\ ~ UNCHANGED runs
    <2>1. PICK r \in RunIds :
            /\ ~ Active(r) /\ runs'[r].phase = "starting"
            /\ \A x \in RunIds : x # r => runs'[x] = runs[x]
      BY <1>2, SpawnsUnused
    <2>2. Same
      BY <1>0, <2>1 DEF Active
    <2> QED
      BY <2>2, StarterKept
  <1>3. ASSUME NEW r \in RunIds, Turn(r) PROVE Starter' = Starter
    <2>1. PICK p \in Phases \ {"saved"} : SetPhase(r, p) /\ runs[r].phase # "saved"
      BY <1>3, TurnGoesElsewhere
    <2>2. runs'[r].phase # "saved" /\ \A x \in RunIds : x # r => runs'[x] = runs[x]
      BY <1>0, <2>1 DEF SetPhase
    <2>3. Same
      BY <1>0, <2>1, <2>2
    <2> QED
      BY <2>3, StarterKept
  <1> QED
    BY <1>1, <1>2, <1>3, RunSteps

\* Every step keeps the line.
LEMMA LineStep ==
  ASSUME SlotInv, Types, CarryInv, LineInv, [Next]_vars
  PROVE  LineInv'
  <1>1. ASSUME NEW r \in RunIds, StartSave(r, TRUE) PROVE LineInv'
    BY <1>1, LineSave
  <1>2. ASSUME NEW r \in RunIds, AckClaims(r) PROVE LineInv'
    BY <1>2, LineAck
  <1>3. CASE RetractAll
    BY <1>3, LineRetractAll
  <1>4. ASSUME NEW m \in Messages, RetractOne(m) PROVE LineInv'
    BY <1>4, LineRetractOne
  <1>5. CASE /\ \A r \in RunIds : ~ StartSave(r, TRUE) /\ ~ AckClaims(r)
             /\ ~ RetractAll /\ \A m \in Messages : ~ RetractOne(m)
    <2>0. /\ UNCHANGED history /\ (UNCHANGED msgClaim => Starter' = Starter)
          /\ post = [m \in Messages |-> post[m]]
      BY <1>5, HistorySteps, StarterSteps DEF Types, PostTypes
    <2>1. ASSUME NEW m \in Messages, PostEnqueue(m) PROVE LineInv'
      <3>1. CASE Len(queue) < MaxQueue
        BY <2>1, <3>1, LineEnqueue
      <3>2. CASE ~ (Len(queue) < MaxQueue)
        <4>1. /\ UNCHANGED <<parked, queue, msgClaim>> /\ post[m] = "busy"
              /\ post' = [post EXCEPT ![m] = "refused"]
          BY <2>1, <3>2 DEF PostEnqueue
        <4>2. \A x \in Messages :
                /\ post[x] \in {"started", "queued", "retracted"} => post'[x] = post[x]
                /\ post'[x] \in {"queued", "retracted"} => post'[x] = post[x]
          BY <2>0, <4>1
        <4> QED
          BY <2>0, <4>1, <4>2, LineElsewhere, LineMembers
      <3> QED
        BY <3>1, <3>2
    <2>2. ASSUME NEW r \in RunIds, GiveUpStart(r) PROVE LineInv'
      <3>1. CASE msgClaim # None /\ msgClaim.run = r
        BY <2>2, <3>1, LineRequeue
      <3>2. CASE ~ (msgClaim # None /\ msgClaim.run = r)
        <4>1. UNCHANGED <<parked, queue, msgClaim, post>>
          BY <2>2, <3>2 DEF GiveUpStart, RequeueMessage, postVars
        <4> QED
          BY <2>0, <4>1, LineElsewhere, LineMembers
      <3> QED
        BY <3>1, <3>2
    <2>3. CASE ClaimHead
      <3>1. CASE msgClaim = None /\ queue # <<>>
        BY <2>3, <3>1, LineClaim
      <3>2. CASE ~ (msgClaim = None /\ queue # <<>>)
        <4>1. UNCHANGED <<parked, queue, msgClaim, post>>
          BY <2>3, <3>2 DEF ClaimHead, SchedKeeps, postVars, queueVars
        <4> QED
          BY <2>0, <4>1, LineElsewhere, LineMembers
      <3> QED
        BY <3>1, <3>2
    <2>4. CASE UNCHANGED queueVars /\ \A m \in Messages : ~ PostEnqueue(m)
      <3>1. UNCHANGED parked /\ \A x \in Messages :
              /\ post[x] \in {"started", "queued", "retracted"} => post'[x] = post[x]
              /\ post'[x] \in {"queued", "retracted"} => post'[x] = post[x]
        <4>1. ASSUME NEW m \in Messages, PostStarts(m)
              PROVE  /\ UNCHANGED parked /\ post[m] = "idle"
                     /\ post' = [post EXCEPT ![m] = "started"]
          BY <4>1 DEF PostStarts
        <4>2. ASSUME NEW m \in Messages, NEW wait \in BOOLEAN, PostBusy(m, wait)
              PROVE  /\ UNCHANGED parked /\ post[m] = "idle"
                     /\ post' = [post EXCEPT ![m] = IF wait THEN "busy" ELSE "refused"]
          BY <4>2 DEF PostBusy
        <4>3. ASSUME NEW m \in Messages, NEW p \in {"started", "busy", "refused"},
                     post[m] = "idle", post' = [post EXCEPT ![m] = p]
              PROVE  \A x \in Messages :
                       /\ post[x] \in {"started", "queued", "retracted"} => post'[x] = post[x]
                       /\ post'[x] \in {"queued", "retracted"} => post'[x] = post[x]
          BY <2>0, <4>3
        <4>4. UNCHANGED postVars \/ \E m \in Messages :
                PostStarts(m) \/ \E wait \in BOOLEAN : PostBusy(m, wait)
          BY <1>5, <2>4, PostSteps
        <4>5. CASE UNCHANGED postVars
          BY <4>5 DEF postVars
        <4> QED
          BY <4>1, <4>2, <4>3, <4>4, <4>5
      <3> QED
        BY <2>0, <2>4, <3>1, LineElsewhere, LineMembers DEF queueVars
    <2> QED
      BY <1>5, <2>1, <2>2, <2>3, <2>4, QueueSteps
  <1> QED
    BY <1>1, <1>2, <1>3, <1>4, <1>5

\* The turn of a claim holds on to its message until it has settled the claim.
LEMMA ClaimCarriedKept ==
  ASSUME SlotInv, Types, CarryInv, LineInv, [Next]_vars
  PROVE  ClaimCarried'
  <1>0. /\ runs = [r \in RunIds |-> runs[r]] /\ (msgClaim # None => msgClaim.run \in RunIds)
        /\ \A r \in RunIds : runs[r] = [x \in {"phase", "items"} |-> runs[r][x]]
    BY LineMembers DEF SlotInv, SlotTypes
  <1>1. CASE ClaimHead /\ msgClaim = None /\ queue # <<>>
    <2>1. /\ msgClaim' = [run |-> sched.next, entry |-> Head(queue)] /\ sched.next \in RunIds
          /\ runs' = [runs EXCEPT ![sched.next] =
                        [phase |-> "starting", items |-> <<Head(queue).msg>>]]
      BY <1>1, NoneAssumption
      DEF ClaimHead, SpawnTurn, SlotInv, SlotTypes, SchedulerOwns, ClaimPlaces
    <2>2. runs'[sched.next].phase = "starting" /\ runs'[sched.next].items = <<Head(queue).msg>>
      BY <1>0, <2>1
    <2>3. msgClaim'.run = sched.next /\ msgClaim'.entry = Head(queue)
      BY <2>1
    <2> QED
      BY <2>2, <2>3 DEF ClaimCarried
  <1>2. CASE msgClaim' = None
    BY <1>2 DEF ClaimCarried
  <1>3. ASSUME msgClaim' = msgClaim, msgClaim # None, runs'[msgClaim.run] = runs[msgClaim.run]
        PROVE  ClaimCarried'
    BY <1>3 DEF CarryInv, ClaimCarried, Active
  <1>4. CASE msgClaim' = msgClaim /\ msgClaim # None
    <2>1. CASE UNCHANGED runs
      BY <1>3, <1>4, <2>1
    <2>2. CASE Spawns /\ ~ UNCHANGED runs
      <3>1. ~ ClaimHead
        BY <1>4, <2>2 DEF ClaimHead
      <3>2. PICK r \in RunIds :
              runs[r] = Unused /\ \A x \in RunIds : x # r => runs'[x] = runs[x]
        BY <2>2, <3>1, SpawnsUnused
      <3>3. msgClaim.run # r
        BY <1>4, <3>2 DEF CarryInv, ClaimCarried, Unused
      <3> QED
        BY <1>0, <1>3, <1>4, <3>2, <3>3
    <2>3. ASSUME NEW r \in RunIds, Turn(r) PROVE ClaimCarried'
      <3>1. PICK p \in Phases : SetPhase(r, p)
        BY <2>3 DEF Turn, StartSave, FinalSave, AckClaims, GiveUpStart, Dies, EndTurn, Phases
      <3>2. CASE msgClaim.run # r
        <4>1. runs'[msgClaim.run] = runs[msgClaim.run]
          BY <1>0, <1>4, <3>1, <3>2 DEF SetPhase
        <4> QED
          BY <1>3, <1>4, <4>1
      <3>3. CASE msgClaim.run = r
        <4>1. ~ AckClaims(r) /\ ~ GiveUpStart(r)
          BY <1>4, <3>3 DEF AckClaims, AckMessage, GiveUpStart, RequeueMessage
        <4>2. runs[r].phase # "running" /\ runs[r].phase # "unused"
          BY <1>4, <3>3 DEF CarryInv, ClaimCarried
        <4>3. runs[r].phase = "starting" /\ \E q \in {"saved", "unstarted", "ended"} : SetPhase(r, q)
          BY <2>3, <4>1, <4>2 DEF Turn, StartSave, FinalSave, Dies, EndTurn
        <4>4. runs'[r].phase \in {"saved", "unstarted", "ended"} /\ runs'[r].items = runs[r].items
          BY <1>0, <4>3 DEF SetPhase
        <4>5. runs[r].items = <<msgClaim.entry.msg>>
          BY <1>4, <3>3, <4>3 DEF CarryInv, ClaimCarried, Active
        <4> QED
          BY <1>4, <3>3, <4>4, <4>5 DEF ClaimCarried
      <3> QED
        BY <3>2, <3>3
    <2> QED
      BY <2>1, <2>2, <2>3, RunSteps
  <1>5. \/ ClaimHead /\ msgClaim = None /\ queue # <<>>
        \/ msgClaim' = None \/ msgClaim' = msgClaim
    <2>1. ClaimHead => (msgClaim = None /\ queue # <<>>) \/ msgClaim' = msgClaim
      BY DEF ClaimHead, queueVars
    <2>2. RetractAll => msgClaim' = msgClaim
      BY DEF RetractAll, Retract
    <2>3. \A m \in Messages : PostEnqueue(m) \/ RetractOne(m) => msgClaim' = msgClaim
      BY DEF PostEnqueue, RetractOne, Retract
    <2>4. \A r \in RunIds : AckClaims(r) \/ GiveUpStart(r) => msgClaim' \in {None, msgClaim}
      BY DEF AckClaims, AckMessage, GiveUpStart, RequeueMessage
    <2> QED
      BY <2>1, <2>2, <2>3, <2>4, QueueSteps DEF queueVars
  <1> QED
    BY <1>1, <1>2, <1>4, <1>5

\* While the scheduler holds the slot for a minted id, nobody uses that id.
LEMMA ClaimsForUnusedKept ==
  ASSUME SlotInv, Types, CarryInv, [Next]_vars
  PROVE  ClaimsForUnused'
  <1> SUFFICES ASSUME sched'.pc \in {"claim", "claimGroup"} PROVE runs'[sched'.next] = Unused
    BY DEF ClaimsForUnused
  <1>0. runs = [r \in RunIds |-> runs[r]] /\ sched \in SchedulerState
    BY DEF SlotInv, SlotTypes
  <1>1. CASE Scheduler
    <2> USE DEF Goto, SchedulerState, SchedKeeps
    <2>1. CASE TakeForResults
      <3>1. Fresh # {} /\ sched'.next = Mint /\ runs' = runs
        BY <1>0, <2>1 DEF TakeForResults
      <3> QED
        BY <3>1, MintIsFresh
    <2>2. CASE TakeForGroup
      <3>1. Fresh # {} /\ sched'.next = Mint /\ runs' = runs
        BY <1>0, <2>2 DEF TakeForGroup
      <3> QED
        BY <3>1, MintIsFresh
    <2>3. CASE Recv
      BY <1>0, <2>3 DEF Recv
    <2>4. ASSUME ~ TakeForResults, ~ TakeForGroup, ~ Recv PROVE FALSE
      BY <1>0, <1>1, <2>4 DEF Scheduler, ResultGate, RequeueUnacked, Block, Allow, Release,
         CheckPending, ClaimResults, GroupGate, ClaimGroup, MessageGate, Peek,
         TakeForMessage, ClaimHead
    <2> QED
      BY <2>1, <2>2, <2>3, <2>4
  <1>2. CASE UNCHANGED sched
    <2>1. /\ runs[sched.next] = Unused /\ sched.next \in RunIds /\ slot # None
          /\ \A r \in RunIds : ~ Active(r)
      BY <1>2, NoneAssumption
      DEF CarryInv, ClaimsForUnused, SlotInv, SlotTypes, SchedulerOwns, ClaimPlaces, OneHolder,
          SchedulerHolds
    <2>2. runs' = runs
      <3>1. \A r \in RunIds : ~ Turn(r)
        BY <2>1 DEF Turn, StartSave, FinalSave, AckClaims, GiveUpStart, Dies, Active
      <3>2. ~ Spawns
        <4>1. \A m \in Messages : ~ PostStarts(m)
          BY <2>1 DEF PostStarts, RegistryClaim
        <4>2. ~ ClaimResults
          BY <1>0, <1>2 DEF ClaimResults, Goto, SchedulerState
        <4>3. ~ ClaimGroup
          BY <1>0, <1>2 DEF ClaimGroup, Goto, SchedulerState
        <4>4. ~ ClaimHead
          BY <1>0, <1>2 DEF ClaimHead, Goto, SchedulerState
        <4> QED
          BY <4>1, <4>2, <4>3, <4>4 DEF Spawns
      <3> QED
        BY <3>1, <3>2, RunSteps
    <2> QED
      BY <1>2, <2>1, <2>2
  <1>3. Scheduler \/ UNCHANGED sched
    BY DEF Next, Turn, StartSave, FinalSave, AckClaims, GiveUpStart, Dies, Clients, PostStarts,
       PostEnqueue, RetractOne, RetractAll, Retract, PostBusy, ClientClaims, Arrivals, Report,
       GroupReady, Pinger, Ping, vars
  <1> QED
    BY <1>1, <1>2, <1>3

\* What a turn is spawned with: a posted message, the claimed one, or no message
LEMMA SpawnedItems ==
  ASSUME SlotInv, Types, Spawns, ~ UNCHANGED runs,
         NEW r \in RunIds, runs'[r] # runs[r], NEW m \in Messages, m \in Elems(runs'[r].items)
  PROVE  post'[m] = "started" \/ (msgClaim' # None /\ msgClaim'.run = r)
  <1> USE DEF SpawnTurn, SchedKeeps
  <1>0. /\ runs = [x \in RunIds |-> runs[x]] /\ post = [x \in Messages |-> post[x]]
        /\ (sched.pc \in ClaimPlaces => sched.next \in RunIds)
    BY NoneAssumption DEF SlotInv, SlotTypes, SchedulerOwns, Types, PostTypes
  <1>1. ASSUME NEW x \in Messages, PostStarts(x) PROVE post'[m] = "started"
    <2>1. /\ runs' = [runs EXCEPT ![Mint] = [phase |-> "starting", items |-> <<x>>]]
          /\ post' = [post EXCEPT ![x] = "started"]
      BY <1>1 DEF PostStarts
    <2>2. runs'[r].items = <<x>>
      BY <1>0, <2>1
    <2>3. m = x
      BY <2>2 DEF Elems
    <2> QED
      BY <1>0, <2>1, <2>3
  <1>2. CASE ClaimResults
    <2>1. runs' = [runs EXCEPT ![sched.next] = [phase |-> "starting", items |-> Batch]]
      BY <1>2 DEF ClaimResults
    <2>2. runs'[r].items = Batch
      BY <1>0, <2>1
    <2>3. Batch \in Seq(Tasks)
      BY BatchParts DEF Types
    <2>4. m \in Tasks
      BY <2>2, <2>3 DEF Elems
    <2> QED
      BY <2>4, KindsAssumption
  <1>3. CASE ClaimGroup
    <2>1. PICK g \in Groups :
            runs' = [runs EXCEPT ![sched.next] = [phase |-> "starting", items |-> <<g>>]]
      BY <1>3 DEF ClaimGroup
    <2>2. runs'[r].items = <<g>>
      BY <1>0, <2>1
    <2>3. m = g
      BY <2>2 DEF Elems
    <2> QED
      BY <2>3, KindsAssumption
  <1>4. CASE ClaimHead
    <2>1. /\ runs' = [runs EXCEPT ![sched.next] = [phase |-> "starting", items |-> <<Head(queue).msg>>]]
          /\ msgClaim' = [run |-> sched.next, entry |-> Head(queue)]
          /\ queue # <<>> /\ sched.next \in RunIds
      BY <1>0, <1>4 DEF ClaimHead, ClaimPlaces
    <2>2. r = sched.next
      BY <1>0, <2>1
    <2>3. Head(queue) \in Entry
      BY <2>1, HeadAndTail DEF SlotInv, SlotTypes
    <2>4. msgClaim' \in MessageClaims
      BY <2>1, <2>3 DEF MessageClaims
    <2>5. msgClaim' # None
      BY <2>4, KindsAssumption DEF MessageClaims, Entry
    <2> QED
      BY <2>1, <2>2, <2>5
  <1> QED
    BY <1>1, <1>2, <1>3, <1>4 DEF Spawns

\* A claim is dropped by its own turn, and taken only when there was none.
LEMMA ClaimStays ==
  ASSUME SlotInv, Types, [Next]_vars, msgClaim # None, msgClaim' # msgClaim
  PROVE  /\ msgClaim.run \in RunIds /\ msgClaim' = None
         /\ AckClaims(msgClaim.run) \/ GiveUpStart(msgClaim.run)
  <1>1. msgClaim.run \in RunIds
    BY DEF Types, QueueTypes, MessageClaims
  <1>2. ~ ClaimHead /\ ~ RetractAll /\ \A m \in Messages : ~ PostEnqueue(m) /\ ~ RetractOne(m)
    BY DEF ClaimHead, queueVars, RetractAll, Retract, PostEnqueue, RetractOne
  <1>3. PICK r \in RunIds : AckClaims(r) \/ GiveUpStart(r)
    BY <1>2, QueueSteps DEF queueVars
  <1>4. msgClaim.run = r /\ msgClaim' = None
    BY <1>3 DEF AckClaims, AckMessage, GiveUpStart, RequeueMessage
  <1> QED
    BY <1>1, <1>3, <1>4

\* Where the messages of a turn come from, and that its start save keeps them
LEMMA ItemsKept ==
  ASSUME SlotInv, Types, CarryInv, LineInv, [Next]_vars
  PROVE  ItemsKnown' /\ ItemsDurable'
  <1>0. /\ runs = [r \in RunIds |-> runs[r]]
        /\ \A r \in RunIds : runs[r] = [x \in {"phase", "items"} |-> runs[r][x]]
    BY DEF SlotInv, SlotTypes
  <1>1. /\ Elems(history) \subseteq Elems(history)'
        /\ \A m \in Messages : post[m] = "started" => post'[m] = "started"
    BY HistoryGrows, PostsSettle
  <1>2. ASSUME NEW r \in RunIds, runs'[r].phase \in {"starting", "unstarted"},
               NEW m \in Messages, m \in Elems(runs'[r].items)
        PROVE  post'[m] = "started" \/ (msgClaim' # None /\ msgClaim'.run = r)
    <2>1. CASE Spawns /\ runs'[r] # runs[r]
      BY <1>2, <2>1, SpawnedItems
    <2>2. CASE /\ runs[r].phase \in {"starting", "unstarted"} /\ runs'[r].items = runs[r].items
      <3>1. post[m] = "started" \/ (msgClaim # None /\ msgClaim.run = r)
        BY <1>2, <2>2 DEF CarryInv, ItemsKnown
      <3>2. ASSUME msgClaim # None, msgClaim.run = r, msgClaim' # msgClaim PROVE FALSE
        <4>1. AckClaims(r) \/ GiveUpStart(r)
          BY <3>2, ClaimStays
        <4>2. SetPhase(r, "running") \/ SetPhase(r, "ended")
          BY <4>1 DEF AckClaims, GiveUpStart, EndTurn
        <4> QED
          BY <1>0, <1>2, <4>2 DEF SetPhase
      <3> QED
        BY <1>1, <3>1, <3>2
    <2>3. ASSUME NEW x \in RunIds, Turn(x), runs'[r] # runs[r]
          PROVE  runs[r].phase \in {"starting", "unstarted"} /\ runs'[r].items = runs[r].items
      <3>1. PICK p \in Phases : SetPhase(x, p)
        BY <2>3 DEF Turn, StartSave, FinalSave, AckClaims, GiveUpStart, Dies, EndTurn, Phases
      <3>2. r = x /\ runs'[r].items = runs[r].items /\ runs'[r].phase = p
        BY <1>0, <2>3, <3>1 DEF SetPhase
      <3>3. runs[r].phase = "starting" \/ SetPhase(x, "running") \/ SetPhase(x, "ended")
        BY <2>3, <3>2 DEF Turn, StartSave, FinalSave, AckClaims, GiveUpStart, Dies, EndTurn
      <3>4. ~ SetPhase(x, "running") /\ ~ SetPhase(x, "ended")
        BY <1>0, <1>2, <3>2 DEF SetPhase
      <3> QED
        BY <3>2, <3>3, <3>4
    <2> QED
      BY <1>2, <2>1, <2>2, <2>3, RunSteps
  <1>3. ASSUME NEW r \in RunIds, runs'[r].phase \in {"saved", "running"}
        PROVE  Elems(runs'[r].items) \subseteq Elems(history')
    <2>1. CASE runs[r].phase \in {"saved", "running"} /\ runs'[r].items = runs[r].items
      BY <1>1, <2>1 DEF CarryInv, ItemsDurable
    <2>2. CASE StartSave(r, TRUE)
      <3>1. /\ history' = history \o runs[r].items
            /\ runs' = [runs EXCEPT ![r].phase = "saved"]
        BY <2>2 DEF StartSave, SetPhase
      <3>2. runs'[r].items = runs[r].items
        BY <1>0, <3>1
      <3>3. Elems(history') = Elems(history) \cup Elems(runs[r].items)
        BY <3>1, ConcatElems DEF Types, TurnTypes
      <3> QED
        BY <3>2, <3>3
    <2>3. CASE Spawns /\ ~ UNCHANGED runs
      <3>1. PICK x \in RunIds : runs'[x].phase = "starting" /\ \A y \in RunIds : y # x => runs'[y] = runs[y]
        BY <2>3, SpawnsUnused
      <3>2. runs'[r] = runs[r]
        BY <1>3, <3>1
      <3> QED
        BY <1>3, <2>1, <3>2
    <2>4. ASSUME NEW x \in RunIds, Turn(x), ~ StartSave(r, TRUE)
          PROVE  runs[r].phase \in {"saved", "running"} /\ runs'[r].items = runs[r].items
      <3>1. PICK p \in Phases : SetPhase(x, p)
        BY <2>4 DEF Turn, StartSave, FinalSave, AckClaims, GiveUpStart, Dies, EndTurn, Phases
      <3>2. CASE x # r
        BY <1>0, <1>3, <3>1, <3>2 DEF SetPhase
      <3>3. CASE x = r
        <4>1. runs'[r].items = runs[r].items
          BY <1>0, <3>1, <3>3 DEF SetPhase
        <4>2. CASE AckClaims(r)
          BY <4>1, <4>2 DEF AckClaims
        <4>3. CASE ~ AckClaims(r)
          <5>1. ASSUME NEW ok \in BOOLEAN, StartSave(r, ok) PROVE SetPhase(r, "unstarted")
            <6>1. ok = FALSE
              BY <2>4, <5>1
            <6> QED
              BY <5>1, <6>1 DEF StartSave
          <5>2. SetPhase(r, "unstarted") \/ SetPhase(r, "ended")
            BY <2>4, <3>3, <4>3, <5>1 DEF Turn, FinalSave, GiveUpStart, Dies, EndTurn
          <5> QED
            BY <1>0, <1>3, <5>2 DEF SetPhase
        <4> QED
          BY <4>2, <4>3
      <3> QED
        BY <3>2, <3>3
    <2> QED
      BY <1>3, <2>1, <2>2, <2>3, <2>4, RunSteps
  <1> QED
    BY <1>2, <1>3 DEF ItemsKnown, ItemsDurable

\* The two invariants together
LEMMA LineInvariant == Spec => [](LineInv /\ CarryInv)
  <1>1. Init => LineInv /\ CarryInv
    <2>1. Init => LineInv
      BY DEF Init, LineInv, ParkedOnce, QueueOrdered, WaitingIsQueued, DurableWasPosted,
         HistoryAhead, HistoryOrdered, Distinct, Elems, Queued, Starter, Waiting
    <2>2. Init => CarryInv
      BY DEF Init, CarryInv, ClaimCarried, ClaimsForUnused, ItemsKnown, ItemsDurable, Unused
    <2> QED
      BY <2>1, <2>2
  <1>2. LineInv /\ CarryInv /\ SlotInv /\ Types /\ [Next]_vars => (LineInv /\ CarryInv)'
    <2> SUFFICES ASSUME LineInv, CarryInv, SlotInv, Types, [Next]_vars
                 PROVE  LineInv' /\ CarryInv'
      OBVIOUS
    <2>1. LineInv'
      BY LineStep
    <2>2. ClaimCarried' /\ ClaimsForUnused' /\ ItemsKnown' /\ ItemsDurable'
      BY ClaimCarriedKept, ClaimsForUnusedKept, ItemsKept
    <2> QED
      BY <2>1, <2>2 DEF CarryInv
  <1> QED
    BY <1>1, <1>2, SlotInvariant, TypesInvariant, PTL DEF Spec

\* The line gives the order of the history.
LEMMA LineIsFifo ==
  ASSUME Types, LineInv
  PROVE  QueueIsFifo
  <1> SUFFICES ASSUME NEW i \in DOMAIN parked, NEW j \in DOMAIN parked, i < j,
                      parked[j] \in Elems(history), post[parked[i]] # "retracted"
               PROVE  /\ parked[i] \in Elems(history)
                      /\ At(history, parked[i]) < At(history, parked[j])
    BY DEF QueueIsFifo
  <1> DEFINE x == parked[i]  y == parked[j]
  <1>1. Before(x, y)
    BY DEF Before
  <1>2. x # y /\ ~ Before(y, x)
    BY <1>1, BeforeIsStrict DEF Types, LineInv, ParkedOnce
  <1>3. x \in Messages /\ x \in Elems(parked) /\ y \in Elems(parked)
    BY DEF Types, PostTypes, Elems
  <1> HIDE DEF x, y
  <1>4. post[x] = "queued"
    BY <1>3 DEF LineInv, ParkedOnce, x
  <1>5. x \notin Waiting
    <2>1. PICK k \in DOMAIN history : history[k] = y
      BY DEF Elems, y
    <2> QED
      BY <1>2, <1>3, <2>1 DEF LineInv, HistoryAhead
  <1>6. x \in Elems(history) /\ y \in Elems(history)
    BY <1>3, <1>4, <1>5 DEF LineInv, WaitingIsQueued, y
  <1>7. ASSUME NEW z \in Elems(history)
        PROVE  /\ At(history, z) \in DOMAIN history /\ history[At(history, z)] = z
               /\ At(history, z) \in Int
    <2>1. \E k \in DOMAIN history : history[k] = z
      BY DEF Elems
    <2>2. At(history, z) \in DOMAIN history /\ history[At(history, z)] = z
      BY <2>1 DEF At
    <2>3. history \in Seq(Item)
      BY DEF Types, TurnTypes
    <2> QED
      BY <2>2, <2>3
  <1>8. ~ (At(history, y) < At(history, x))
    BY <1>2, <1>3, <1>6, <1>7 DEF LineInv, HistoryOrdered
  <1>9. At(history, x) # At(history, y)
    BY <1>2, <1>6, <1>7
  <1>10. At(history, x) < At(history, y)
    BY <1>6, <1>7, <1>8, <1>9
  <1> QED
    BY <1>6, <1>10 DEF x, y

\* A retracted message is in nothing that a turn carries or has made durable.
LEMMA LineHoldsRetracted ==
  ASSUME SlotInv, Types, LineInv, CarryInv
  PROVE  RetractedNeverRuns
  <1> SUFFICES ASSUME NEW m \in Messages, post[m] = "retracted"
               PROVE  /\ m \notin Elems(history)
                      /\ \A r \in RunIds : Active(r) => m \notin Elems(runs[r].items)
    BY DEF RetractedNeverRuns
  <1>1. m \notin Elems(history)
    BY DEF LineInv, DurableWasPosted
  <1>2. ASSUME NEW r \in RunIds, Active(r), m \in Elems(runs[r].items) PROVE FALSE
    <2>1. runs[r].phase \in {"starting", "saved", "unstarted", "running"}
      BY <1>2 DEF Active, SlotInv, SlotTypes, Phases
    <2>2. CASE runs[r].phase \in {"saved", "running"}
      BY <1>1, <1>2, <2>2 DEF CarryInv, ItemsDurable
    <2>3. CASE runs[r].phase \in {"starting", "unstarted"}
      <3>1. msgClaim # None /\ msgClaim.run = r
        BY <1>2, <2>3 DEF CarryInv, ItemsKnown
      <3>2. runs[r].items = <<msgClaim.entry.msg>>
        BY <1>2, <3>1 DEF CarryInv, ClaimCarried
      <3>3. m = msgClaim.entry.msg
        BY <1>2, <3>2 DEF Elems
      <3>4. post[msgClaim.entry.msg] = "queued"
        BY <3>1 DEF LineInv, WaitingIsQueued
      <3> QED
        BY <3>3, <3>4
    <2> QED
      BY <2>1, <2>2, <2>3
  <1> QED
    BY <1>1, <1>2

\* Messages that waited become durable in the order they were queued, through failed
\* starts, requeues and retractions; a message whose DELETE was answered with 204 is
\* carried by no turn and never reaches the history (MessageInbox: enqueue, claim_head,
\* requeue_claim, ack_claim, remove, clear).
THEOREM QueueOrderTheorem == Spec => []QueueOrderKept
  <1>1. SlotInv /\ Types /\ LineInv /\ CarryInv => QueueOrderKept
    BY LineIsFifo, LineHoldsRetracted DEF QueueOrderKept
  <1> QED
    BY <1>1, SlotInvariant, TypesInvariant, LineInvariant, PTL

=============================================================================
