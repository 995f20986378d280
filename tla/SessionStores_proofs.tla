------------------------ MODULE SessionStores_proofs ------------------------
EXTENDS SessionEvents, SessionSaves, TaskList, ConsolidationLock, SequenceTheorems,
        FiniteSetTheorems, TLAPS

(***************************************************************************)
(* Saves. What a run has saved stands, for any number of runs, snapshot    *)
(* tasks, changes and PUTs. SavesStand and NoStaleOverwrite are about what *)
(* is on disk when a save writes, and the save made up its mind long       *)
(* before: it copied the history, took the lock and compared generations.  *)
(* The invariant says what that buys. A save that passed its check, or     *)
(* still can (Current), has every change of its run that is on disk or in  *)
(* a save ahead of it (Newer): a copy is of a history that only grows, and *)
(* only the newest generation passes. One save of a run is under way       *)
(* (Locks), so nothing else of that run is written between its check and   *)
(* its write. The final save takes a generation no task can have           *)
(* (Generations), so that once it is over no task passes. The next run is  *)
(* seeded from the file, so its saves contain what earlier runs left there *)
(* (Finals), unless somebody meddled. Of the PUTs, each holds the update   *)
(* lock from its read to its write, above all versions landed (Updates).   *)
(***************************************************************************)

\* The saves alone: MCSessionStores checks them as one of its parts.
SavesSpec == SavesInit /\ [][SavesNext]_saveVars

-----------------------------------------------------------------------------
(* The invariant                                                           *)

\* The places of run_session_turn, and the types of the state.
RunPlaces == {"none", "claimed", "starting", "titling", "loop", "waiting", "ending", "final",
              "saving", "settled"}
Run == [at : RunPlaces, history : SUBSET Changes, count : Nat, ok : BOOLEAN]
Job == [at : JobStates, gen : Nat, snap : SUBSET Changes, next : Sessions \cup {Gone}]

\* The type of every variable; who meddled with a run can only be known once it began.
SaveTypes ==
  /\ disk \in Sessions \cup {Gone} /\ index \in Sessions \cup {Gone}
  /\ run \in [Runs -> Run] /\ job \in [Runs -> [Jobs -> Job]]
  /\ save_gen \in [Runs -> Nat] /\ save_lock \in [Runs -> SUBSET Jobs]
  /\ put \in [Puts -> Job] /\ update_lock \subseteq Puts
  /\ landed \subseteq Puts /\ meddled \subseteq Begun /\ died \subseteq Runs

\* Between its check and the end of its save.
Writing == {"checked", "got", "persisted"}

\* Before it: a task, or the final save, that has a generation and no lock.
Waits == {"spawned", "queued", "snapped"}

\* Runs follow each other.
OneRun ==
  /\ \A q, r \in Runs : q < r /\ run[r].at # "none" => run[q].at = "settled"
  /\ \A r \in died : run[r].at = "settled"
  /\ \A r \in Runs : run[r].ok => run[r].at = "settled"

\* What the run's own save may be at.
Own(r) ==
  CASE run[r].at = "starting" -> {"checked", "got", "persisted", "saved", "failed"}
    [] run[r].at = "titling"  -> {"got", "persisted", "saved", "failed"}
    [] run[r].at = "saving"   -> {"snapped", "checked", "got", "persisted", "saved", "failed", "skipped"}
    [] OTHER                  -> {"none", "saved", "failed", "skipped"}

\* No generation can be claimed over the final one.
Closed(r) == run[r].at = "saving" \/ (run[r].at = "settled" /\ r \notin died)

\* The generations of run r: its own save is where the run is, the newest
\* generation is a task's or the final save's, and a task is named by its own.
GenerationsOf(r) ==
  /\ run[r].at \in {"none", "claimed", "starting", "titling"} => save_gen[r] = 0
  /\ save_gen[r] <= MaxSaves + (IF run[r].at \in {"saving", "settled"} THEN 1 ELSE 0)
  /\ job[r][0].at \in Own(r)
  /\ run[r].at = "saving" /\ job[r][0].at = "snapped" => job[r][0].gen = save_gen[r]
  /\ \A g \in Tasks :
       /\ job[r][g].at # "none" => g <= save_gen[r]
       /\ job[r][g].at \in Waits \cup Writing =>
            job[r][g].gen = g /\ (Closed(r) => g < save_gen[r])
Generations == \A r \in Runs : GenerationsOf(r)

\* Who has the save lock: the start save and the title's take no lock.
Holders(r) == {g \in Jobs : job[r][g].at \in Writing /\ (g = 0 => run[r].at = "saving")}

\* save_lock has one holder, and none once the final save is over.
LockOf(r) ==
  /\ save_lock[r] = Holders(r)
  /\ \A g, h \in save_lock[r] : g = h
  /\ run[r].at = "saving" /\ job[r][0].at \in {"saved", "failed", "skipped"} => save_lock[r] = {}
  /\ run[r].at = "settled" /\ r \notin died => save_lock[r] = {}
Locks == \A r \in Runs : LockOf(r)

\* All the changes there are; and those a run can know.
All == {c \in Changes : c[1] = 0 \/ (c[1] \in Runs /\ c \in run[c[1]].history)}
UpTo(r) == {c \in All : c[1] <= r}
Part(S, r) == {c \in S : c[1] = r}

\* What a save is about to write.
Body(j) == IF j.at \in {"got", "persisted"} THEN j.next.msgs ELSE j.snap

\* A run's history and what its saves carry are changes it can know; the final save
\* carries the whole history.
ContentsOf(r) ==
  /\ run[r].history \subseteq UpTo(r)
  /\ run[r].at \in {"none", "claimed"} => run[r].history = {}
  /\ \A g \in Jobs :
       /\ job[r][g].at \in {"got", "persisted"} => job[r][g].next # Gone
       /\ Body(job[r][g]) \subseteq UpTo(r)
  /\ run[r].at = "saving" /\ job[r][0].at \in {"snapped"} \cup Writing =>
       Body(job[r][0]) = run[r].history
Contents ==
  /\ disk # Gone => disk.msgs \subseteq All
  /\ \A r \in Runs : ContentsOf(r)

\* A copy that can still pass its check.
Current(r, g) == job[r][g].at = "snapped" /\ job[r][g].gen = save_gen[r]

\* A save of run r that may still write has every change of the run that is on disk, or
\* that a save ahead of it will put there.
NewerOf(r) ==
  \A g \in Jobs :
    /\ disk # Gone /\ (job[r][g].at \in {"checked", "got"} \/ Current(r, g)) =>
         Part(disk.msgs, r) \subseteq Body(job[r][g])
    /\ Current(r, g) => \A h \in Jobs :
         job[r][h].at \in {"checked", "got"} => Part(Body(job[r][h]), r) \subseteq Body(job[r][g])
Newer == \A r \in Runs : Active(r) => NewerOf(r)

\* The histories of the runs that settled and that nobody meddled with.
Standing(q) == run[q].at = "settled" /\ run[q].ok /\ q \notin meddled

\* They are on disk, and in every history and save that may still be written.
Finals ==
  /\ \A q \in Runs : Standing(q) => disk # Gone /\ run[q].history \subseteq disk.msgs
  /\ \A q \in Runs :
       run[q].at = "saving" /\ job[q][0].at \in {"persisted", "saved"} /\ q \notin meddled =>
         disk # Gone /\ run[q].history \subseteq disk.msgs
  /\ \A q, r \in Runs : Standing(q) /\ Active(r) =>
       /\ run[r].at # "claimed" => run[q].history \subseteq run[r].history
       /\ \A g \in Jobs : job[r][g].at \in {"snapped", "checked", "got"} =>
            run[q].history \subseteq Body(job[r][g])

\* The PUTs that hold the update lock.
UnderWay == {p \in Puts : put[p].at \in {"locked", "got", "persisted"}}

\* One does, and the version it writes is above all those that have landed.
Updates ==
  /\ update_lock = UnderWay /\ \A p, q \in update_lock : p = q
  /\ \A p \in landed : put[p].at \in {"persisted", "ok"} /\ disk # Gone /\ put[p].gen < disk.ver
  /\ \A p \in Puts : put[p].at \in {"got", "persisted"} =>
       put[p].next = [ver |-> put[p].gen + 1, msgs |-> {<<0, p>>}]
  /\ \A p \in Puts : put[p].at = "got" => \A q \in landed : put[q].gen < put[p].gen
  /\ OnePutPerVersion

\* The inductive invariant.
SavesInv ==
  SaveTypes /\ OneRun /\ Generations /\ Locks /\ Contents /\ Newer /\ Finals /\ Updates

-----------------------------------------------------------------------------
(* Frames                                                                  *)

\* The save of a run is its own (0) or a task's.
LEMMA Kinds ==
  /\ 0 \in Jobs /\ Tasks \subseteq Jobs /\ Jobs \subseteq Nat /\ MaxSaves \in Nat
  /\ \A g \in Jobs : g = 0 \/ g \in Tasks
  /\ \A g \in Tasks : g # 0
  /\ Runs \subseteq Nat /\ 0 \notin Runs
  BY SavesAssumption DEF Jobs, Tasks, Runs

\* What one run does leaves the others alone.
Elsewhere(r) ==
  /\ DOMAIN run' = Runs /\ DOMAIN job' = Runs /\ DOMAIN save_gen' = Runs /\ DOMAIN save_lock' = Runs
  /\ \A q \in Runs : q # r =>
       /\ run'[q] = run[q] /\ job'[q] = job[q]
       /\ save_gen'[q] = save_gen[q] /\ save_lock'[q] = save_lock[q]
       /\ q \in died' <=> q \in died

\* One save of one run changes.
LEMMA JobMoves ==
  ASSUME SaveTypes, NEW r \in Runs, NEW g \in Jobs, NEW x \in Job, job' = [job EXCEPT ![r][g] = x]
  PROVE  /\ job' \in [Runs -> [Jobs -> Job]] /\ job'[r][g] = x
         /\ \A h \in Jobs : h # g => job'[r][h] = job[r][h]
         /\ \A q \in Runs : q # r => job'[q] = job[q]
  BY DEF SaveTypes

\* One run changes.
LEMMA RunMoves ==
  ASSUME SaveTypes, NEW r \in Runs, NEW x \in Run, run' = [run EXCEPT ![r] = x]
  PROVE  /\ run' \in [Runs -> Run] /\ run'[r] = x
         /\ \A q \in Runs : q # r => run'[q] = run[q]
  BY DEF SaveTypes

\* One save lock changes.
LEMMA LockMoves ==
  ASSUME SaveTypes, NEW r \in Runs, NEW L \in SUBSET Jobs, save_lock' = [save_lock EXCEPT ![r] = L]
  PROVE  /\ save_lock' \in [Runs -> SUBSET Jobs] /\ save_lock'[r] = L
         /\ \A q \in Runs : q # r => save_lock'[q] = save_lock[q]
  BY DEF SaveTypes

\* Each part of the invariant follows from what it says of the run that moved.
LEMMA GenerationsFrame ==
  ASSUME Generations, NEW r \in Runs, Elsewhere(r), GenerationsOf(r)'
  PROVE  Generations'
  <1>1. ASSUME NEW q \in Runs, q # r
        PROVE  GenerationsOf(q)'
    <2>1. GenerationsOf(q)
      BY DEF Generations
    <2>2. /\ run'[q] = run[q] /\ job'[q] = job[q] /\ save_gen'[q] = save_gen[q]
          /\ q \in died' <=> q \in died
      BY <1>1 DEF Elsewhere
    <2>3. Own(q)' = Own(q) /\ (Closed(q)' <=> Closed(q))
      BY <2>2 DEF Own, Closed
    <2> QED
      BY <2>1, <2>2, <2>3 DEF GenerationsOf
  <1> QED
    BY <1>1 DEF Generations

LEMMA LocksFrame ==
  ASSUME Locks, NEW r \in Runs, Elsewhere(r), LockOf(r)'
  PROVE  Locks'
  <1>1. ASSUME NEW q \in Runs, q # r
        PROVE  LockOf(q)'
    <2>1. LockOf(q)
      BY DEF Locks
    <2>2. /\ run'[q] = run[q] /\ job'[q] = job[q] /\ save_lock'[q] = save_lock[q]
          /\ q \in died' <=> q \in died
      BY <1>1 DEF Elsewhere
    <2> QED
      BY <2>1, <2>2 DEF LockOf, Holders
  <1> QED
    BY <1>1 DEF Locks

\* Histories only grow, so what was a known change stays one.
LEMMA AllGrows ==
  ASSUME \A q \in Runs : run[q].history \subseteq run'[q].history
  PROVE  All \subseteq All' /\ \A q \in Runs : UpTo(q) \subseteq UpTo(q)'
  BY DEF All, UpTo

LEMMA ContentsFrame ==
  ASSUME Contents, NEW r \in Runs, Elsewhere(r), run[r].history \subseteq run'[r].history,
         ContentsOf(r)', disk' # Gone => disk'.msgs \subseteq All'
  PROVE  Contents'
  <1>1. \A q \in Runs : UpTo(q) \subseteq UpTo(q)'
    BY AllGrows DEF Elsewhere
  <1>2. ASSUME NEW q \in Runs, q # r
        PROVE  ContentsOf(q)'
    <2>1. ContentsOf(q)
      BY DEF Contents
    <2>2. run'[q] = run[q] /\ job'[q] = job[q]
      BY <1>2 DEF Elsewhere
    <2> QED
      BY <1>1, <2>1, <2>2 DEF ContentsOf
  <1> QED
    BY <1>2 DEF Contents

LEMMA NewerFrame ==
  ASSUME Newer, NEW r \in Runs, Elsewhere(r), disk' = disk, Active(r)' => NewerOf(r)'
  PROVE  Newer'
  <1>1. ASSUME NEW q \in Runs, q # r, Active(q)'
        PROVE  NewerOf(q)'
    <2>1. run'[q] = run[q] /\ job'[q] = job[q] /\ save_gen'[q] = save_gen[q]
      BY <1>1 DEF Elsewhere
    <2>2. NewerOf(q)
      BY <1>1, <2>1 DEF Newer, Active
    <2> QED
      BY <2>1, <2>2 DEF NewerOf, Current
  <1> QED
    BY <1>1 DEF Newer

\* What Finals says of run r as one that settled, and as one that is active.
FinalsOf(r) ==
  /\ Standing(r) \/ (run[r].at = "saving" /\ job[r][0].at \in {"persisted", "saved"} /\ r \notin meddled) =>
       disk # Gone /\ run[r].history \subseteq disk.msgs
  /\ Active(r) => \A q \in Runs : Standing(q) =>
       /\ run[r].at # "claimed" => run[q].history \subseteq run[r].history
       /\ \A g \in Jobs : job[r][g].at \in {"snapped", "checked", "got"} =>
            run[q].history \subseteq Body(job[r][g])

\* It says all of it.
LEMMA FinalsIs == Finals <=> \A r \in Runs : FinalsOf(r)
  BY DEF Finals, FinalsOf

\* When run r settles no other run is active, so nothing else need contain its history.
LEMMA FinalsFrame ==
  ASSUME Finals, NEW r \in Runs, Elsewhere(r), disk' = disk, meddled' = meddled, FinalsOf(r)',
         \/ Standing(r)' => Standing(r) /\ run'[r].history = run[r].history
         \/ \A q \in Runs : q # r => ~ Active(q)
  PROVE  Finals'
  <1>1. ASSUME NEW q \in Runs, q # r
        PROVE  FinalsOf(q)'
    <2>1. FinalsOf(q)
      BY FinalsIs
    <2>2. run'[q] = run[q] /\ job'[q] = job[q]
      BY <1>1 DEF Elsewhere
    <2>3. CASE \A p \in Runs : p # r => ~ Active(p)
      BY <1>1, <2>1, <2>2, <2>3 DEF FinalsOf, Active, Standing
    <2>4. CASE Standing(r)' => Standing(r) /\ run'[r].history = run[r].history
      <3>1. ASSUME NEW p \in Runs, Standing(p)'
            PROVE  Standing(p) /\ run'[p].history = run[p].history
        BY <2>4, <3>1 DEF Elsewhere, Standing
      <3> QED
        BY <2>1, <2>2, <3>1 DEF FinalsOf, Active, Standing
    <2> QED
      BY <2>3, <2>4
  <1>2. \A q \in Runs : FinalsOf(q)'
    BY <1>1
  <1> QED
    BY <1>2 DEF Finals, FinalsOf

\* All the frames together.
LEMMA SavesFrame ==
  ASSUME SavesInv, NEW r \in Runs, Elsewhere(r), SaveTypes', OneRun', GenerationsOf(r)', LockOf(r)',
         run[r].history \subseteq run'[r].history, ContentsOf(r)', disk' = disk, meddled' = meddled,
         Active(r)' => NewerOf(r)', FinalsOf(r)',
         \/ Standing(r)' => Standing(r) /\ run'[r].history = run[r].history
         \/ \A q \in Runs : q # r => ~ Active(q),
         UNCHANGED <<put, update_lock, landed>>
  PROVE  SavesInv'
  <1>1. Generations' /\ Locks' /\ Newer' /\ Finals'
    BY GenerationsFrame, LocksFrame, NewerFrame, FinalsFrame DEF SavesInv
  <1>2. All \subseteq All'
    BY AllGrows DEF Elsewhere
  <1>3. Contents'
    BY <1>2, ContentsFrame DEF SavesInv, Contents
  <1>4. Updates'
    BY DEF SavesInv, Updates, UnderWay, OnePutPerVersion
  <1> QED
    BY <1>1, <1>3, <1>4 DEF SavesInv

-----------------------------------------------------------------------------
(* Steps of one save                                                       *)

\* A step of one save touches the save, its lock and the index.
SaveOnly ==
  /\ index' \in Sessions \cup {Gone}
  /\ UNCHANGED <<disk, run, save_gen, put, update_lock, landed, meddled, died>>

\* What the invariant says of one run and one of its saves.
LEMMA JobIs ==
  ASSUME SavesInv, NEW r \in Runs, NEW g \in Jobs
  PROVE  /\ job[r][g] \in Job /\ run[r] \in Run /\ save_lock[r] \in SUBSET Jobs /\ save_gen[r] \in Nat
         /\ GenerationsOf(r) /\ LockOf(r) /\ ContentsOf(r) /\ FinalsOf(r) /\ (Active(r) => NewerOf(r))
  <1>1. Finals
    BY DEF SavesInv
  <1>2. FinalsOf(r)
    BY <1>1, FinalsIs
  <1> QED
    BY <1>2 DEF SavesInv, SaveTypes, Generations, Locks, Contents, Newer

\* A save is over: saved, failed or skipped.
LEMMA SaveOver ==
  ASSUME SavesInv, NEW r \in Runs, NEW g \in Jobs, NEW outcome \in {"saved", "failed", "skipped"},
         job[r][g].at \in Writing \cup {"snapped"},
         outcome = "saved" => job[r][g].at = "persisted",
         outcome = "skipped" => job[r][g].at = "snapped" /\ save_lock[r] = {},
         outcome = "failed" => job[r][g].at # "snapped",
         job' = [job EXCEPT ![r][g] = Over(outcome)],
         save_lock' = [save_lock EXCEPT ![r] = @ \ {g}], SaveOnly
  PROVE  SavesInv'
  <1> DEFINE x == Over(outcome)
  <1>1. /\ x \in Job /\ x.at = outcome /\ x.snap = {} /\ Body(x) = {}
    BY DEF Over, NoJob, Job, JobStates, Body, Sessions
  <1> HIDE DEF x
  <1>2. /\ job' \in [Runs -> [Jobs -> Job]] /\ job'[r][g] = x
        /\ \A h \in Jobs : h # g => job'[r][h] = job[r][h]
        /\ \A q \in Runs : q # r => job'[q] = job[q]
    BY <1>1, JobMoves DEF SavesInv, x
  <1>3. /\ save_lock' \in [Runs -> SUBSET Jobs] /\ save_lock'[r] = save_lock[r] \ {g}
        /\ \A q \in Runs : q # r => save_lock'[q] = save_lock[q]
    BY DEF SavesInv, SaveTypes
  <1>4. SaveTypes' /\ Elsewhere(r)
    BY <1>2, <1>3 DEF SavesInv, SaveTypes, SaveOnly, Elsewhere, Begun
  <1>5. OneRun'
    BY DEF SavesInv, OneRun, SaveOnly
  <1>6. run' = run /\ save_gen' = save_gen /\ disk' = disk /\ meddled' = meddled /\ died' = died
    BY DEF SaveOnly
  <1>7. GenerationsOf(r)'
    BY <1>1, <1>2, <1>6, JobIs, Kinds DEF GenerationsOf, Own, Closed, Waits, Writing
  <1>8. LockOf(r)'
    <2>1. LockOf(r) /\ GenerationsOf(r)
      BY JobIs
    <2>2. save_lock'[r] = Holders(r)'
      BY <1>1, <1>2, <1>3, <1>6, <2>1 DEF LockOf, Holders, Writing
    <2>3. g = 0 /\ run[r].at = "saving" => save_lock'[r] = {}
      BY <1>3, <2>1 DEF LockOf, Holders
    <2> QED
      BY <1>1, <1>2, <1>3, <1>6, <2>1, <2>2, <2>3, Kinds DEF LockOf
  <1>9. ContentsOf(r)'
    BY <1>1, <1>2, <1>6, JobIs, Kinds DEF ContentsOf, UpTo, All, Writing
  <1>10. Active(r)' => NewerOf(r)'
    <2> SUFFICES ASSUME Active(r) PROVE NewerOf(r)'
      BY <1>6 DEF Active
    <2>1. NewerOf(r)
      BY JobIs, Kinds
    <2>2. \A h \in Jobs : job'[r][h].at \in {"checked", "got", "snapped"} =>
            h # g /\ job'[r][h] = job[r][h]
      BY <1>1, <1>2
    <2> QED
      BY <1>6, <2>1, <2>2 DEF NewerOf, Current
  <1>11. FinalsOf(r)' /\ (Standing(r)' => Standing(r) /\ run'[r].history = run[r].history)
    BY <1>1, <1>2, <1>6, JobIs, Kinds DEF FinalsOf, Standing, Active
  <1> QED
    BY <1>4, <1>5, <1>6, <1>7, <1>8, <1>9, <1>10, <1>11, SavesFrame DEF SaveOnly

\* One save moves.
LEMMA SaveMoves ==
  ASSUME SavesInv, NEW r \in Runs, NEW g \in Jobs, NEW x \in Job, job' = [job EXCEPT ![r][g] = x],
         NEW L \in SUBSET Jobs, save_lock' = [save_lock EXCEPT ![r] = L], SaveOnly
  PROVE  /\ job'[r][g] = x /\ (\A h \in Jobs : h # g => job'[r][h] = job[r][h])
         /\ save_lock'[r] = L
         /\ run' = run /\ save_gen' = save_gen /\ disk' = disk /\ meddled' = meddled /\ died' = died
         /\ GenerationsOf(r)' /\ LockOf(r)' /\ ContentsOf(r)' /\ (Active(r) => NewerOf(r)') /\ FinalsOf(r)'
              => SavesInv'
  <1>1. /\ job' \in [Runs -> [Jobs -> Job]] /\ job'[r][g] = x
        /\ \A h \in Jobs : h # g => job'[r][h] = job[r][h]
        /\ \A q \in Runs : q # r => job'[q] = job[q]
    BY JobMoves DEF SavesInv
  <1>2. /\ save_lock' \in [Runs -> SUBSET Jobs] /\ save_lock'[r] = L
        /\ \A q \in Runs : q # r => save_lock'[q] = save_lock[q]
    BY LockMoves DEF SavesInv
  <1>3. SaveTypes' /\ Elsewhere(r)
    BY <1>1, <1>2 DEF SavesInv, SaveTypes, SaveOnly, Elsewhere, Begun
  <1>4. OneRun'
    BY DEF SavesInv, OneRun, SaveOnly
  <1>5. run' = run /\ save_gen' = save_gen /\ disk' = disk /\ meddled' = meddled /\ died' = died
    BY DEF SaveOnly
  <1>6. (Active(r)' <=> Active(r)) /\ (Standing(r)' => Standing(r) /\ run'[r].history = run[r].history)
    BY <1>5 DEF Active, Standing
  <1>7. ASSUME GenerationsOf(r)', LockOf(r)', ContentsOf(r)', Active(r) => NewerOf(r)', FinalsOf(r)'
        PROVE  SavesInv'
    BY <1>3, <1>4, <1>5, <1>6, <1>7, SavesFrame DEF SaveOnly
  <1> QED
    BY <1>1, <1>2, <1>5, <1>7

\* A save that has begun is of a task, or the run's own.
LEMMA OwnPlaces ==
  ASSUME SavesInv, NEW r \in Runs
  PROVE  job[r][0].at \in {"none", "snapped", "saved", "failed", "skipped"} \cup Writing
  BY JobIs, Kinds DEF GenerationsOf, Own, Writing

\* TaskQueues: a task gets in line for the history.
LEMMA QueuesKeeps ==
  ASSUME SavesInv, NEW r \in Runs, NEW g \in Tasks, TaskQueues(r, g)
  PROVE  SavesInv'
  <1> DEFINE x == [job[r][g] EXCEPT !.at = "queued"]
  <1>1. g \in Jobs /\ g # 0 /\ 0 \in Jobs
    BY Kinds
  <1>2. x \in Job /\ x.at = "queued" /\ x.gen = job[r][g].gen /\ Body(x) = Body(job[r][g])
        /\ job[r][g].at = "spawned"
    BY <1>1, JobIs DEF Job, JobStates, TaskQueues, Body
  <1>3. job' = [job EXCEPT ![r][g] = x]
    BY DEF TaskQueues, SavesInv, SaveTypes
  <1> HIDE DEF x
  <1>4. save_lock' = [save_lock EXCEPT ![r] = save_lock[r]] /\ save_lock[r] \in SUBSET Jobs
    BY DEF TaskQueues, SavesInv, SaveTypes
  <1>5. SaveOnly
    BY DEF TaskQueues, SaveOnly, clients, quiet, SavesInv, SaveTypes
  <1>6. /\ job'[r][g] = x /\ (\A h \in Jobs : h # g => job'[r][h] = job[r][h])
        /\ save_lock'[r] = save_lock[r]
        /\ run' = run /\ save_gen' = save_gen /\ disk' = disk /\ meddled' = meddled /\ died' = died
        /\ GenerationsOf(r)' /\ LockOf(r)' /\ ContentsOf(r)' /\ (Active(r) => NewerOf(r)') /\ FinalsOf(r)'
             => SavesInv'
    BY <1>1, <1>2, <1>3, <1>4, <1>5, SaveMoves
  <1>7. GenerationsOf(r)'
    BY <1>1, <1>2, <1>6, JobIs, Kinds DEF GenerationsOf, Own, Closed, Waits, Writing
  <1>8. LockOf(r)'
    <2>1. LockOf(r) /\ Holders(r)' = Holders(r)
      BY <1>1, <1>2, <1>6, JobIs DEF Holders, Writing
    <2> QED
      BY <1>1, <1>6, <2>1 DEF LockOf
  <1>9. ContentsOf(r)'
    BY <1>1, <1>2, <1>6, JobIs DEF ContentsOf, UpTo, All, Writing
  <1>10. Active(r) => NewerOf(r)'
    BY <1>1, <1>2, <1>6, JobIs DEF NewerOf, Current
  <1>11. FinalsOf(r)'
    BY <1>1, <1>2, <1>6, JobIs DEF FinalsOf, Standing, Active
  <1> QED
    BY <1>6, <1>7, <1>8, <1>9, <1>10, <1>11

\* A task's copy of the history has everything of the run there is.
LEMMA CopiesKeeps ==
  ASSUME SavesInv, NEW r \in Runs, NEW g \in Tasks, TaskCopies(r, g)
  PROVE  SavesInv'
  <1> DEFINE x == [job[r][g] EXCEPT !.at = "snapped", !.snap = run[r].history]
  <1>1. g \in Jobs /\ g # 0 /\ 0 \in Jobs
    BY Kinds
  <1>2. run[r].history \subseteq Changes /\ job[r][g] \in Job /\ job[r][g].at = "queued"
    BY <1>1, JobIs DEF Run, TaskCopies
  <1>3. x \in Job /\ x.at = "snapped" /\ x.gen = job[r][g].gen /\ Body(x) = run[r].history
    BY <1>2 DEF Job, JobStates, Body
  <1>4. job' = [job EXCEPT ![r][g] = x]
    BY DEF TaskCopies, SavesInv, SaveTypes
  <1> HIDE DEF x
  <1>5. save_lock' = [save_lock EXCEPT ![r] = save_lock[r]] /\ save_lock[r] \in SUBSET Jobs
    BY DEF TaskCopies, SavesInv, SaveTypes
  <1>6. SaveOnly
    BY DEF TaskCopies, SaveOnly, clients, quiet, SavesInv, SaveTypes
  <1>7. /\ job'[r][g] = x /\ (\A h \in Jobs : h # g => job'[r][h] = job[r][h])
        /\ save_lock'[r] = save_lock[r]
        /\ run' = run /\ save_gen' = save_gen /\ disk' = disk /\ meddled' = meddled /\ died' = died
        /\ GenerationsOf(r)' /\ LockOf(r)' /\ ContentsOf(r)' /\ (Active(r) => NewerOf(r)') /\ FinalsOf(r)'
             => SavesInv'
    BY <1>1, <1>3, <1>4, <1>5, <1>6, SaveMoves
  <1>8. GenerationsOf(r)'
    BY <1>1, <1>2, <1>3, <1>7, JobIs, Kinds DEF GenerationsOf, Own, Closed, Waits, Writing
  <1>9. LockOf(r)'
    <2>1. LockOf(r) /\ Holders(r)' = Holders(r)
      BY <1>1, <1>2, <1>3, <1>7, JobIs DEF Holders, Writing
    <2> QED
      BY <1>1, <1>7, <2>1 DEF LockOf
  <1>10. ContentsOf(r)'
    BY <1>1, <1>2, <1>3, <1>7, JobIs DEF ContentsOf, UpTo, All, Writing
  <1>11. Active(r) => NewerOf(r)'
    <2> SUFFICES ASSUME Active(r) PROVE NewerOf(r)'
      OBVIOUS
    <2>1. \A S : S \subseteq All => Part(S, r) \subseteq run[r].history
      BY Kinds DEF Part, All
    <2>2. /\ disk # Gone => disk.msgs \subseteq All
          /\ \A h \in Jobs : Body(job[r][h]) \subseteq All
      BY JobIs DEF SavesInv, Contents, ContentsOf, UpTo
    <2>3. NewerOf(r)
      BY <1>1, JobIs
    <2> QED
      BY <1>1, <1>2, <1>3, <1>7, <2>1, <2>2, <2>3 DEF NewerOf, Current
  <1>12. FinalsOf(r)'
    <2>1. run[r].at = "claimed" => g > save_gen[r]
      BY <1>1, JobIs, Kinds DEF GenerationsOf
    <2>2. run[r].at # "claimed"
      BY <1>1, <1>2, <2>1, JobIs, Kinds DEF GenerationsOf
    <2> QED
      BY <1>1, <1>2, <1>3, <1>7, <2>2, JobIs DEF FinalsOf, Standing, Active
  <1> QED
    BY <1>7, <1>8, <1>9, <1>10, <1>11, <1>12

\* No two saves have the newest generation.
LEMMA OneCurrent ==
  ASSUME SavesInv, NEW r \in Runs, NEW g \in Jobs, NEW h \in Jobs, Current(r, g), Current(r, h)
  PROVE  g = h
  <1>1. ASSUME NEW f \in Tasks, Current(r, f)
        PROVE  f = save_gen[r] /\ ~ Closed(r)
    <2>1. GenerationsOf(r) /\ save_gen[r] \in Nat
      BY <1>1, Kinds, JobIs
    <2>2. job[r][f].at \in Waits
      BY <1>1 DEF Current, Waits
    <2>3. job[r][f].gen = f /\ (Closed(r) => f < save_gen[r])
      BY <2>1, <2>2 DEF GenerationsOf
    <2> QED
      BY <1>1, <2>1, <2>3, Kinds DEF Current
  <1>2. Current(r, 0) => Closed(r)
    BY Kinds, JobIs DEF GenerationsOf, Own, Current, Closed
  <1> QED
    BY <1>1, <1>2, Kinds

\* The lock is taken by the save of the newest generation only.
LEMMA GuardedKeeps ==
  ASSUME SavesInv, NEW r \in Runs, NEW g \in Jobs, GuardedSave(r, g)
  PROVE  SavesInv'
  <1> DEFINE x == [job[r][g] EXCEPT !.at = "checked"]
  <1>1. 0 \in Jobs /\ job[r][g].at = "snapped" /\ save_lock[r] = {} /\ job[r][g] \in Job
    BY Kinds, JobIs DEF GuardedSave
  <1>2. SaveOnly
    BY DEF GuardedSave, SaveOnly, clients, quiet, SavesInv, SaveTypes
  <1>3. CASE Superseded(r, g)
    <2>1. job' = [job EXCEPT ![r][g] = Over("skipped")]
      BY <1>3 DEF GuardedSave
    <2>2. save_lock' = [save_lock EXCEPT ![r] = @ \ {g}]
      BY <1>1, <1>3 DEF GuardedSave, SavesInv, SaveTypes
    <2> QED
      BY <1>1, <1>2, <2>1, <2>2, SaveOver
  <1>4. CASE ~ Superseded(r, g)
    <2>1. x \in Job /\ x.at = "checked" /\ x.gen = job[r][g].gen /\ Body(x) = Body(job[r][g])
          /\ job[r][g].gen = save_gen[r]
      BY <1>1, <1>4 DEF Job, JobStates, Body, Superseded
    <2>2. job' = [job EXCEPT ![r][g] = x]
      BY <1>4 DEF GuardedSave, SavesInv, SaveTypes
    <2> HIDE DEF x
    <2>3. save_lock' = [save_lock EXCEPT ![r] = {g}] /\ {g} \in SUBSET Jobs
      BY <1>4 DEF GuardedSave
    <2>4. /\ job'[r][g] = x /\ (\A h \in Jobs : h # g => job'[r][h] = job[r][h])
          /\ save_lock'[r] = {g}
          /\ run' = run /\ save_gen' = save_gen /\ disk' = disk /\ meddled' = meddled /\ died' = died
          /\ GenerationsOf(r)' /\ LockOf(r)' /\ ContentsOf(r)' /\ (Active(r) => NewerOf(r)') /\ FinalsOf(r)'
               => SavesInv'
      BY <2>1, <2>2, <2>3, <1>2, SaveMoves
    <2>5. GenerationsOf(r)
      BY <1>1, JobIs
    <2>6. g = 0 => run[r].at = "saving"
      BY <1>1, <2>5 DEF GenerationsOf, Own
    <2>7. \A h \in Jobs : h # g => ~ Current(r, h)
      BY <1>1, <2>1, OneCurrent DEF Current
    <2>8. GenerationsOf(r)'
      BY <1>1, <2>1, <2>4, <2>5, <2>6, Kinds DEF GenerationsOf, Own, Closed, Waits, Writing
    <2>9. LockOf(r)'
      <3>1. LockOf(r)
        BY <1>1, JobIs
      <3>2. Holders(r)' = {g}
        BY <1>1, <2>1, <2>4, <2>6, <3>1 DEF LockOf, Holders, Writing
      <3>3. run[r].at = "settled" => r \in died
        BY <1>1, <2>1, <2>5, <2>6, Kinds, JobIs DEF GenerationsOf, Closed, Waits
      <3>4. run[r].at = "saving" => g = 0
        BY <1>1, <2>1, <2>5, Kinds, JobIs DEF GenerationsOf, Closed, Waits
      <3> QED
        BY <1>1, <2>1, <2>4, <3>2, <3>3, <3>4 DEF LockOf
    <2>10. ContentsOf(r)'
      BY <1>1, <2>1, <2>4, JobIs DEF ContentsOf, UpTo, All, Writing
    <2>11. Active(r) => NewerOf(r)'
      <3> SUFFICES ASSUME Active(r) PROVE NewerOf(r)'
        OBVIOUS
      <3>1. NewerOf(r)
        BY <1>1, JobIs
      <3>2. \A h \in Jobs : ~ Current(r, h)'
        BY <2>1, <2>4, <2>7 DEF Current
      <3>3. Current(r, g)
        BY <1>1, <2>1 DEF Current
      <3> QED
        BY <2>1, <2>4, <3>1, <3>2, <3>3 DEF NewerOf
    <2>12. FinalsOf(r)'
      BY <1>1, <2>1, <2>4, JobIs DEF FinalsOf, Standing, Active
    <2> QED
      BY <2>4, <2>8, <2>9, <2>10, <2>11, <2>12
  <1> QED
    BY <1>3, <1>4

\* Reading the index decides the version, not the contents.
LEMMA GetKeeps ==
  ASSUME SavesInv, NEW r \in Runs, NEW g \in Jobs, SaveGet(r, g)
  PROVE  SavesInv'
  <1> DEFINE n == [ver |-> index.ver + 1, msgs |-> job[r][g].snap]
             x == [job[r][g] EXCEPT !.at = "got", !.next = n]
  <1>1. 0 \in Jobs /\ job[r][g].at = "checked" /\ job[r][g] \in Job
    BY Kinds, JobIs DEF SaveGet
  <1>2. SaveOnly
    BY DEF SaveGet, SaveOnly, clients, quiet, SavesInv, SaveTypes
  <1>3. CASE index = Gone
    <2>1. /\ job' = [job EXCEPT ![r][g] = Over("failed")]
          /\ save_lock' = [save_lock EXCEPT ![r] = @ \ {g}]
      BY <1>3 DEF SaveGet
    <2> QED
      BY <1>1, <1>2, <2>1, SaveOver DEF Writing
  <1>4. CASE index # Gone
    <2>1. n \in Sessions /\ n # Gone
      <3>1. index \in Sessions
        BY <1>4 DEF SavesInv, SaveTypes
      <3> QED
        BY <1>1, <3>1, GoneAssumption DEF Sessions, Job
    <2>2. x \in Job /\ x.at = "got" /\ x.gen = job[r][g].gen /\ Body(x) = Body(job[r][g]) /\ x.next # Gone
      BY <1>1, <2>1 DEF Job, JobStates, Body
    <2>3. job' = [job EXCEPT ![r][g] = x]
      BY <1>4 DEF SaveGet, SavesInv, SaveTypes
    <2> HIDE DEF x
    <2>4. save_lock' = [save_lock EXCEPT ![r] = save_lock[r]] /\ save_lock[r] \in SUBSET Jobs
      BY <1>4 DEF SaveGet, SavesInv, SaveTypes
    <2>5. /\ job'[r][g] = x /\ (\A h \in Jobs : h # g => job'[r][h] = job[r][h])
          /\ save_lock'[r] = save_lock[r]
          /\ run' = run /\ save_gen' = save_gen /\ disk' = disk /\ meddled' = meddled /\ died' = died
          /\ GenerationsOf(r)' /\ LockOf(r)' /\ ContentsOf(r)' /\ (Active(r) => NewerOf(r)') /\ FinalsOf(r)'
               => SavesInv'
      BY <2>2, <2>3, <2>4, <1>2, SaveMoves
    <2>6. GenerationsOf(r)'
      BY <1>1, <2>2, <2>5, Kinds, JobIs DEF GenerationsOf, Own, Closed, Waits, Writing
    <2>7. LockOf(r)'
      <3>1. LockOf(r) /\ Holders(r)' = Holders(r)
        BY <1>1, <2>2, <2>5, JobIs DEF Holders, Writing
      <3> QED
        BY <1>1, <2>2, <2>5, <3>1 DEF LockOf
    <2>8. ContentsOf(r)'
      BY <1>1, <2>2, <2>5, JobIs DEF ContentsOf, UpTo, All, Writing
    <2>9. Active(r) => NewerOf(r)'
      BY <1>1, <2>2, <2>5, JobIs DEF NewerOf, Current
    <2>10. FinalsOf(r)'
      BY <1>1, <2>2, <2>5, JobIs DEF FinalsOf, Standing, Active
    <2> QED
      BY <2>5, <2>6, <2>7, <2>8, <2>9, <2>10
  <1> QED
    BY <1>3, <1>4

\* SaveIndex: the index follows the file and the lock is given up.
LEMMA IndexKeeps ==
  ASSUME SavesInv, NEW r \in Runs, NEW g \in Jobs, SaveIndex(r, g)
  PROVE  SavesInv'
  <1>1. job[r][g] \in Job /\ job[r][g].at = "persisted"
    BY JobIs DEF SaveIndex
  <1>2. SaveOnly
    BY <1>1 DEF SaveIndex, SaveOnly, clients, quiet, Job
  <1>3. /\ job' = [job EXCEPT ![r][g] = Over("saved")]
        /\ save_lock' = [save_lock EXCEPT ![r] = @ \ {g}]
    BY DEF SaveIndex
  <1> QED
    BY <1>1, <1>2, <1>3, SaveOver DEF Writing

\* SaveFails: the file is as it was and the lock is given up.
LEMMA FailsKeeps ==
  ASSUME SavesInv, NEW r \in Runs, NEW g \in Jobs, SaveFails(r, g)
  PROVE  SavesInv'
  <1>1. job[r][g].at = "got"
    BY DEF SaveFails
  <1>2. SaveOnly
    BY DEF SaveFails, SaveOnly, clients, quiet, SavesInv, SaveTypes
  <1>3. /\ job' = [job EXCEPT ![r][g] = Over("failed")]
        /\ save_lock' = [save_lock EXCEPT ![r] = @ \ {g}]
    BY DEF SaveFails
  <1> QED
    BY <1>1, <1>2, <1>3, SaveOver DEF Writing

\* Only one run is active, and only its saves and those of runs that panicked are under way.
LEMMA OneActive ==
  ASSUME SavesInv, NEW q \in Runs, NEW r \in Runs, Active(q), run[r].at # "none", q # r
  PROVE  run[r].at = "settled" /\ r < q
  <1>1. q \in Nat /\ r \in Nat
    BY Kinds
  <1>2. q < r \/ r < q
    BY <1>1
  <1> QED
    BY <1>2 DEF SavesInv, OneRun, Active

\* A run has one save under way, and only while it is active or after it panicked.
LEMMA BusyRun ==
  ASSUME SavesInv, NEW r \in Runs, NEW g \in Jobs, job[r][g].at \in Writing
  PROVE  /\ run[r].at \notin {"none", "claimed"}
         /\ Active(r) \/ r \in died
         /\ \A h \in Jobs : job[r][h].at \in Writing => h = g
  <1>1. GenerationsOf(r) /\ LockOf(r) /\ save_gen[r] \in Nat
    BY JobIs
  <1>2. ASSUME NEW f \in Tasks, job[r][f].at \in Writing
        PROVE  save_gen[r] # 0
    <2>1. f \in Jobs /\ f # 0 /\ f \in Nat /\ f <= save_gen[r]
      BY <1>1, <1>2, Kinds DEF GenerationsOf, Writing
    <2> QED
      BY <2>1
  <1>3. job[r][0].at \in Writing => run[r].at \in {"starting", "titling", "saving"}
    BY <1>1 DEF GenerationsOf, Own, Writing
  <1>4. run[r].at \notin {"none", "claimed"}
    BY <1>1, <1>2, <1>3, Kinds DEF GenerationsOf
  <1>5. Active(r) \/ r \in died
    <2> SUFFICES ASSUME run[r].at = "settled", r \notin died PROVE FALSE
      BY <1>4 DEF Active
    <2>1. g # 0
      BY <1>3
    <2>2. g \in save_lock[r]
      BY <1>1, <2>1 DEF LockOf, Holders
    <2> QED
      BY <1>1, <2>2 DEF LockOf
  <1>6. ASSUME NEW h \in Jobs, job[r][h].at \in Writing
        PROVE  h = g
    <2>1. CASE run[r].at \in {"starting", "titling"}
      BY <1>1, <1>2, <1>6, <2>1, Kinds DEF GenerationsOf
    <2>2. CASE run[r].at \notin {"starting", "titling"}
      <3>1. g \in save_lock[r] /\ h \in save_lock[r]
        BY <1>1, <1>3, <1>6, <2>2 DEF LockOf, Holders
      <3> QED
        BY <1>1, <3>1 DEF LockOf
    <2> QED
      BY <2>1, <2>2
  <1> QED
    BY <1>4, <1>5, <1>6

\* What is written is no older than what the run has on disk.
LEMMA PersistKeeps ==
  ASSUME SavesInv, NEW r \in Runs, NEW g \in Jobs, SavePersist(r, g)
  PROVE  SavesInv'
  <1> DEFINE x == [job[r][g] EXCEPT !.at = "persisted"]
  <1>1. 0 \in Jobs /\ job[r][g].at = "got" /\ job[r][g] \in Job
    BY Kinds, JobIs DEF SavePersist
  <1>2. x \in Job /\ x.at = "persisted" /\ x.gen = job[r][g].gen /\ x.next = job[r][g].next
        /\ Body(x) = Body(job[r][g])
    BY <1>1 DEF Job, JobStates, Body
  <1>3. job' = [job EXCEPT ![r][g] = x]
    BY DEF SavePersist, SavesInv, SaveTypes
  <1> HIDE DEF x
  <1>4. /\ job' \in [Runs -> [Jobs -> Job]] /\ job'[r][g] = x
        /\ \A h \in Jobs : h # g => job'[r][h] = job[r][h]
        /\ \A q \in Runs : q # r => job'[q] = job[q]
    BY <1>2, <1>3, JobMoves DEF SavesInv
  <1>5. /\ run' = run /\ save_gen' = save_gen /\ save_lock' = save_lock /\ died' = died
        /\ put' = put /\ update_lock' = update_lock /\ index' = index
    BY DEF SavePersist, clients
  <1>6. /\ disk' = job[r][g].next /\ disk' # Gone /\ disk' \in Sessions
        /\ disk'.msgs = Body(job[r][g]) /\ disk'.msgs \subseteq UpTo(r)
    BY <1>1, JobIs DEF SavePersist, ContentsOf, Job, Body
  <1>7. /\ run[r].at \notin {"none", "claimed"}
        /\ Active(r) \/ r \in died
        /\ \A h \in Jobs : job[r][h].at \in Writing => h = g
    BY <1>1, BusyRun DEF Writing
  <1>8. meddled' = IF r \in died THEN Begun ELSE meddled
    BY DEF SavePersist
  <1>9. SaveTypes' /\ Elsewhere(r)
    <2>1. meddled' \subseteq Begun' /\ landed' \subseteq Puts
      BY <1>5, <1>8 DEF SavePersist, SavesInv, SaveTypes, Begun
    <2> QED
      BY <1>4, <1>5, <1>6, <2>1 DEF SavesInv, SaveTypes, Elsewhere
  <1>10. OneRun'
    BY <1>5 DEF SavesInv, OneRun
  <1>11. Generations'
    <2>1. GenerationsOf(r)
      BY <1>1, JobIs
    <2>2. Own(r)' = Own(r) /\ (Closed(r)' <=> Closed(r))
      BY <1>5 DEF Own, Closed
    <2>3. job'[r][0].at \in Own(r)
      BY <1>1, <1>2, <1>4, <2>1 DEF GenerationsOf, Own
    <2>4. GenerationsOf(r)'
      BY <1>1, <1>2, <1>4, <1>5, <2>1, <2>2, <2>3, Kinds DEF GenerationsOf, Waits, Writing
    <2> QED
      BY <1>9, <2>4, GenerationsFrame DEF SavesInv
  <1>12. Locks'
    <2>1. LockOf(r) /\ Holders(r)' = Holders(r)
      BY <1>1, <1>2, <1>4, <1>5, JobIs DEF Holders, Writing
    <2>2. LockOf(r)'
      BY <1>1, <1>2, <1>4, <1>5, <2>1 DEF LockOf
    <2> QED
      BY <1>9, <2>2, LocksFrame DEF SavesInv
  <1>13. Contents'
    <2>1. ContentsOf(r)'
      BY <1>1, <1>2, <1>4, <1>5, JobIs DEF ContentsOf, UpTo, All, Writing
    <2>2. disk'.msgs \subseteq All'
      BY <1>5, <1>6 DEF UpTo, All
    <2> QED
      BY <1>5, <1>9, <2>1, <2>2, ContentsFrame DEF SavesInv
  <1>14. Newer'
    <2> SUFFICES ASSUME NEW q \in Runs, Active(q)' PROVE NewerOf(q)'
      BY DEF Newer
    <2>1. Active(q)
      BY <1>5 DEF Active
    <2>2. NewerOf(q)
      BY <1>1, <2>1, JobIs
    <2>3. CASE q = r
      <3>1. \A h \in Jobs : job'[r][h].at \notin {"checked", "got"}
        BY <1>2, <1>4, <1>7 DEF Writing
      <3>2. \A h \in Jobs : Current(r, h)' => Current(r, h) /\ job'[r][h] = job[r][h]
        BY <1>2, <1>4, <1>5 DEF Current
      <3>3. \A h \in Jobs : Current(r, h)' => Part(disk'.msgs, r) \subseteq Body(job'[r][h])
        BY <1>1, <1>6, <2>2, <2>3, <3>2 DEF NewerOf
      <3> QED
        BY <2>3, <3>1, <3>3 DEF NewerOf
    <2>4. CASE q # r
      <3>1. r < q
        BY <1>7, <2>1, <2>4, OneActive
      <3>2. Part(disk'.msgs, q) = {}
        <4> SUFFICES ASSUME NEW c \in disk'.msgs, c[1] = q PROVE FALSE
          BY DEF Part
        <4>1. q <= r
          BY <1>6 DEF UpTo
        <4>2. q \in Nat /\ r \in Nat
          BY Kinds
        <4> QED
          BY <3>1, <4>1, <4>2
      <3> QED
        BY <1>4, <1>5, <2>2, <2>4, <3>2 DEF NewerOf, Current
    <2> QED
      BY <2>3, <2>4
  <1>15. Finals'
    <2>1. CASE r \in died
      <3>1. \A q \in Runs : run'[q].at \in {"settled", "saving"} => q \in meddled'
        BY <1>5, <1>8, <2>1 DEF Begun
      <3> QED
        BY <3>1 DEF Finals, Standing
    <2>2. CASE r \notin died
      <3>1. Active(r) /\ meddled' = meddled
        BY <1>7, <1>8, <2>2
      <3>2. \A q \in Runs : (Standing(q)' <=> Standing(q)) /\ (Active(q)' <=> Active(q))
        BY <1>5, <3>1 DEF Standing, Active
      <3>3. \A q \in Runs : Standing(q) => run[q].history \subseteq disk'.msgs
        BY <1>1, <1>6, <3>1, JobIs DEF FinalsOf
      <3>4. ASSUME NEW q \in Runs, q # r PROVE ~ Active(q)
        <4> SUFFICES ASSUME Active(q) PROVE FALSE
          OBVIOUS
        <4>1. run[r].at = "settled"
          BY <1>7, <3>4, OneActive
        <4> QED
          BY <3>1, <4>1 DEF Active
      <3>5. run[r].at = "saving" /\ job'[r][0].at \in {"persisted", "saved"} =>
              run[r].history \subseteq disk'.msgs
        <4> SUFFICES ASSUME run[r].at = "saving", job'[r][0].at \in {"persisted", "saved"}
                     PROVE  run[r].history \subseteq disk'.msgs
          OBVIOUS
        <4>1. g = 0
          <5>1. LockOf(r)
            BY <1>1, JobIs
          <5>2. g \in save_lock[r]
            BY <1>1, <5>1 DEF LockOf, Holders, Writing
          <5> QED
            BY <1>1, <1>4, <1>7, <5>1, <5>2 DEF LockOf, Writing
        <4> QED
          BY <1>1, <1>6, <4>1, JobIs DEF ContentsOf, Writing
      <3>6. FinalsOf(r)
        BY <1>1, JobIs
      <3>7. \A q \in Runs : FinalsOf(q)'
        <4> SUFFICES ASSUME NEW q \in Runs PROVE FinalsOf(q)'
          OBVIOUS
        <4>1. CASE q # r
          <5>1. run[q].at # "saving"
            BY <3>4, <4>1 DEF Active
          <5> QED
            BY <1>5, <1>6, <3>2, <3>3, <3>4, <4>1, <5>1 DEF FinalsOf
        <4>2. CASE q = r
          <5>1. \A h \in Jobs : job'[r][h].at \in {"snapped", "checked", "got"} => job'[r][h] = job[r][h]
            BY <1>2, <1>4
          <5> QED
            BY <1>5, <1>6, <3>1, <3>2, <3>5, <3>6, <4>2, <5>1 DEF FinalsOf, Standing, Active
        <4> QED
          BY <4>1, <4>2
      <3> QED
        BY <3>7 DEF Finals, FinalsOf
    <2> QED
      BY <2>1, <2>2
  <1>16. Updates'
    <2>1. landed' \subseteq landed
          /\ (landed' # {} => ~ (disk # Gone /\ disk'.ver < disk.ver))
      BY <1>6 DEF SavePersist
    <2>2. \A p \in landed' : put[p].gen < disk'.ver
      <3> SUFFICES ASSUME NEW p \in landed' PROVE put[p].gen < disk'.ver
        OBVIOUS
      <3>1. p \in landed /\ p \in Puts /\ disk # Gone /\ put[p].gen < disk.ver
        BY <2>1 DEF SavesInv, Updates, SaveTypes
      <3>2. ~ (disk'.ver < disk.ver)
        BY <2>1, <3>1
      <3>3. disk.ver \in Nat /\ disk'.ver \in Nat /\ put[p].gen \in Nat
        BY <1>6, <3>1 DEF SavesInv, SaveTypes, Sessions, Job
      <3> QED
        BY <3>1, <3>2, <3>3
    <2> QED
      BY <1>5, <1>6, <2>1, <2>2 DEF SavesInv, Updates, UnderWay, OnePutPerVersion
  <1> QED
    BY <1>9, <1>10, <1>11, <1>12, <1>13, <1>14, <1>15, <1>16 DEF SavesInv

-----------------------------------------------------------------------------
(* Steps of the run                                                        *)

\* A step of the run itself leaves the saves and the file alone.
RunOnly ==
  /\ index' \in Sessions \cup {Gone}
  /\ UNCHANGED <<disk, job, save_gen, save_lock, put, update_lock, landed, meddled>>

\* Such a step keeps the types and the other runs.
LEMMA RunOnlyMoves ==
  ASSUME SavesInv, NEW r \in Runs, NEW x \in Run, run' = [run EXCEPT ![r] = x], x.at # "none",
         RunOnly, died' = died \/ died' = died \cup {r}
  PROVE  /\ SaveTypes' /\ Elsewhere(r) /\ run'[r] = x
         /\ \A q \in Runs : q # r => run'[q] = run[q]
         /\ disk' = disk /\ job' = job /\ save_gen' = save_gen /\ save_lock' = save_lock
         /\ meddled' = meddled /\ UNCHANGED <<put, update_lock, landed>>
  <1>1. /\ run' \in [Runs -> Run] /\ run'[r] = x
        /\ \A q \in Runs : q # r => run'[q] = run[q]
    BY RunMoves DEF SavesInv
  <1>2. Begun \subseteq Begun'
    BY <1>1 DEF Begun
  <1>3. SaveTypes'
    BY <1>1, <1>2 DEF SavesInv, SaveTypes, RunOnly
  <1>4. Elsewhere(r)
    BY <1>1 DEF SavesInv, SaveTypes, RunOnly, Elsewhere
  <1> QED
    BY <1>1, <1>3, <1>4 DEF RunOnly

\* The run goes on, its own save being over; its history may have grown.
LEMMA RunGoesOn ==
  ASSUME SavesInv, NEW r \in Runs, NEW x \in Run, run' = [run EXCEPT ![r] = x], RunOnly, died' = died,
         run[r].at \in {"starting", "titling", "loop", "waiting", "ending"},
         run[r].at \in {"starting", "titling"} => job[r][0].at \in {"saved", "failed"},
         x.at \in {"loop", "waiting", "ending", "final"}, x.ok = run[r].ok,
         run[r].history \subseteq x.history,
         \A c \in x.history : c \in run[r].history \/ (c \in Changes /\ c[1] = r)
  PROVE  SavesInv'
  <1>1. /\ SaveTypes' /\ Elsewhere(r) /\ run'[r] = x
        /\ \A q \in Runs : q # r => run'[q] = run[q]
        /\ disk' = disk /\ job' = job /\ save_gen' = save_gen /\ save_lock' = save_lock
        /\ meddled' = meddled /\ UNCHANGED <<put, update_lock, landed>>
    BY RunOnlyMoves
  <1>2. Active(r) /\ 0 \in Jobs
    BY Kinds DEF Active
  <1>3. GenerationsOf(r) /\ LockOf(r) /\ ContentsOf(r) /\ FinalsOf(r) /\ NewerOf(r)
    BY <1>2, JobIs
  <1>4. job[r][0].at \in {"none", "saved", "failed", "skipped"}
    BY <1>3 DEF GenerationsOf, Own
  <1>5. OneRun'
    BY <1>1, <1>2 DEF SavesInv, OneRun, Active
  <1>6. GenerationsOf(r)'
    <2>1. job'[r][0].at \in Own(r)'
      BY <1>1, <1>4 DEF Own
    <2>2. ~ Closed(r)'
      BY <1>1 DEF Closed
    <2>3. save_gen[r] <= MaxSaves + 0
      BY <1>3 DEF GenerationsOf
    <2> QED
      BY <1>1, <1>3, <2>1, <2>2, <2>3 DEF GenerationsOf
  <1>7. LockOf(r)'
    <2>1. Holders(r)' = Holders(r)
      BY <1>1, <1>4 DEF Holders, Writing
    <2> QED
      BY <1>1, <1>3, <2>1 DEF LockOf
  <1>8. ContentsOf(r)'
    <2>1. UpTo(r) \subseteq UpTo(r)'
      <3>1. \A q \in Runs : run[q].history \subseteq run'[q].history
        BY <1>1
      <3> QED
        BY <3>1, AllGrows
    <2>2. x.history \subseteq UpTo(r)'
      <3> SUFFICES ASSUME NEW c \in x.history PROVE c \in UpTo(r)'
        OBVIOUS
      <3>1. CASE c \in run[r].history
        BY <1>3, <2>1, <3>1 DEF ContentsOf
      <3>2. CASE c \in Changes /\ c[1] = r
        <4>1. c \in All'
          BY <1>1, <3>2 DEF All
        <4> QED
          BY <3>2, <4>1, Kinds DEF UpTo
      <3> QED
        BY <3>1, <3>2
    <2> QED
      BY <1>1, <1>3, <2>1, <2>2 DEF ContentsOf
  <1>9. NewerOf(r)'
    BY <1>1, <1>3 DEF NewerOf, Current
  <1>10. FinalsOf(r)' /\ ~ Standing(r)'
    <2>1. ~ Standing(r)'
      BY <1>1 DEF Standing
    <2>2. \A q \in Runs : Standing(q)' => q # r /\ Standing(q) /\ run'[q].history = run[q].history
      BY <1>1, <2>1 DEF Standing
    <2>3. run[r].at # "claimed" /\ run'[r].at # "saving"
      BY <1>1
    <2> QED
      BY <1>1, <1>2, <1>3, <2>1, <2>2, <2>3 DEF FinalsOf
  <1> QED
    BY <1>1, <1>5, <1>6, <1>7, <1>8, <1>9, <1>10, SavesFrame

\* The run is over.
LEMMA RunEnds ==
  ASSUME SavesInv, NEW r \in Runs, NEW x \in Run, run' = [run EXCEPT ![r] = x], RunOnly,
         Active(r), x.at = "settled", x.history = run[r].history,
         died' = died \/ died' = died \cup {r},
         r \notin died' => run[r].at \in {"claimed", "starting", "saving"},
         run[r].at \in {"starting", "saving"} => job[r][0].at \in {"saved", "failed", "skipped"},
         x.ok => run[r].at = "saving" /\ job[r][0].at = "saved",
         run[r].at \notin {"titling", "saving"} \/ r \notin died'
  PROVE  SavesInv'
  <1>1. /\ SaveTypes' /\ Elsewhere(r) /\ run'[r] = x
        /\ \A q \in Runs : q # r => run'[q] = run[q]
        /\ disk' = disk /\ job' = job /\ save_gen' = save_gen /\ save_lock' = save_lock
        /\ meddled' = meddled /\ UNCHANGED <<put, update_lock, landed>>
    BY RunOnlyMoves
  <1>2. 0 \in Jobs
    BY Kinds
  <1>3. GenerationsOf(r) /\ LockOf(r) /\ ContentsOf(r) /\ FinalsOf(r) /\ save_gen[r] \in Nat
    BY <1>2, JobIs
  <1>4. r \notin died /\ (run[r].at = "titling" => r \notin died')
    BY DEF SavesInv, OneRun, Active
  <1>5. job[r][0].at \in {"none", "saved", "failed", "skipped"}
    BY <1>3, <1>4 DEF GenerationsOf, Own
  <1>6. OneRun'
    BY <1>1 DEF SavesInv, OneRun, Active
  <1>7. save_gen[r] = 0 => \A g \in Tasks : job[r][g].at = "none"
    BY <1>3, Kinds DEF GenerationsOf
  <1>8. GenerationsOf(r)'
    <2>1. job'[r][0].at \in Own(r)'
      BY <1>1, <1>5 DEF Own
    <2>2. save_gen[r] <= MaxSaves + 1
      BY <1>3, Kinds DEF GenerationsOf
    <2>3. ASSUME NEW g \in Tasks, job[r][g].at \in Waits \cup Writing, Closed(r)'
          PROVE  g < save_gen[r]
      <3>1. save_gen[r] # 0
        BY <1>7, <2>3 DEF Waits, Writing
      <3>2. run[r].at = "saving"
        BY <1>1, <1>3, <2>3, <3>1 DEF Closed, GenerationsOf
      <3> QED
        BY <1>3, <2>3, <3>2 DEF GenerationsOf, Closed
    <2> QED
      BY <1>1, <1>3, <2>1, <2>2, <2>3 DEF GenerationsOf
  <1>9. LockOf(r)'
    <2>1. Holders(r)' = Holders(r)
      BY <1>1, <1>5 DEF Holders, Writing
    <2>2. r \notin died' => save_lock[r] = {}
      <3>1. run[r].at \in {"claimed", "starting"} => Holders(r) = {}
        <4>1. run[r].at \in {"claimed", "starting"} => \A g \in Jobs : job[r][g].at \notin Writing
          BY <1>3, <1>5, <1>7, Kinds DEF GenerationsOf, Writing
        <4> QED
          BY <4>1 DEF Holders
      <3> QED
        BY <1>3, <3>1 DEF LockOf
    <2> QED
      BY <1>1, <1>3, <2>1, <2>2 DEF LockOf
  <1>10. ContentsOf(r)'
    <2>1. UpTo(r) \subseteq UpTo(r)'
      <3>1. \A q \in Runs : run[q].history \subseteq run'[q].history
        BY <1>1
      <3> QED
        BY <3>1, AllGrows
    <2> QED
      BY <1>1, <1>3, <2>1 DEF ContentsOf
  <1>11. ~ Active(r)'
    BY <1>1 DEF Active
  <1>12. FinalsOf(r)'
    BY <1>1, <1>3, <1>11 DEF FinalsOf, Standing
  <1>13. \A q \in Runs : q # r => ~ Active(q)
    BY OneActive DEF Active
  <1> QED
    BY <1>1, <1>6, <1>8, <1>9, <1>10, <1>11, <1>12, <1>13, SavesFrame

\* A run is claimed when no other is active.
LEMMA ClaimKeeps ==
  ASSUME SavesInv, NEW r \in Runs, Claim(r)
  PROVE  SavesInv'
  <1> DEFINE x == [run[r] EXCEPT !.at = "claimed"]
  <1>1. run[r] \in Run /\ run[r].at = "none" /\ 0 \in Jobs
    BY Kinds, JobIs DEF Claim
  <1>2. x \in Run /\ x.at = "claimed" /\ x.history = run[r].history /\ x.ok = run[r].ok
    BY <1>1 DEF Run, RunPlaces
  <1>3. run' = [run EXCEPT ![r] = x]
    BY DEF Claim, SavesInv, SaveTypes
  <1> HIDE DEF x
  <1>4. RunOnly /\ died' = died
    BY DEF Claim, RunOnly, clients, quiet, SavesInv, SaveTypes
  <1>5. /\ SaveTypes' /\ Elsewhere(r) /\ run'[r] = x
        /\ \A q \in Runs : q # r => run'[q] = run[q]
        /\ disk' = disk /\ job' = job /\ save_gen' = save_gen /\ save_lock' = save_lock
        /\ meddled' = meddled /\ UNCHANGED <<put, update_lock, landed>>
    BY <1>2, <1>3, <1>4, RunOnlyMoves
  <1>6. GenerationsOf(r) /\ LockOf(r) /\ ContentsOf(r) /\ save_gen[r] \in Nat
    BY <1>1, JobIs
  <1>7. \A g \in Jobs : job[r][g].at \notin {"snapped"} \cup Waits \cup Writing
    BY <1>1, <1>6, Kinds DEF GenerationsOf, Own, Writing, Waits
  <1>8. OneRun'
    <2>1. \A q \in Runs : q < r => run[q].at = "settled"
      <3> SUFFICES ASSUME NEW q \in Runs, q < r PROVE run[q].at = "settled"
        OBVIOUS
      <3>1. q \in 1..(r - 1)
        BY SavesAssumption DEF Runs
      <3> QED
        BY <3>1 DEF Claim
    <2>2. ASSUME NEW q \in Runs, NEW t \in Runs, q < t, run'[t].at # "none"
          PROVE  run'[q].at = "settled"
      <3>1. t # r => run[t].at # "none"
        BY <1>5, <2>2
      <3>2. run[q].at = "settled"
        BY <2>1, <2>2, <3>1 DEF SavesInv, OneRun
      <3> QED
        BY <1>1, <1>5, <3>2
    <2>3. ~ run[r].ok /\ r \notin died
      BY <1>1 DEF SavesInv, OneRun
    <2> QED
      BY <1>2, <1>4, <1>5, <2>2, <2>3 DEF SavesInv, OneRun, SaveTypes
  <1>9. GenerationsOf(r)'
    <2>1. job'[r][0].at \in Own(r)'
      BY <1>1, <1>2, <1>5, <1>6 DEF GenerationsOf, Own
    <2> QED
      BY <1>1, <1>2, <1>5, <1>6, <1>7, <2>1, Kinds DEF GenerationsOf
  <1>10. LockOf(r)'
    <2>1. Holders(r)' = Holders(r) /\ Holders(r) = {}
      BY <1>5, <1>7 DEF Holders
    <2> QED
      BY <1>2, <1>5, <1>6, <2>1 DEF LockOf
  <1>11. ContentsOf(r)'
    <2>1. UpTo(r)' = UpTo(r)
      BY <1>2, <1>5 DEF UpTo, All
    <2> QED
      BY <1>1, <1>2, <1>5, <1>6, <2>1 DEF ContentsOf
  <1>12. NewerOf(r)'
    BY <1>5, <1>7 DEF NewerOf, Current, Writing
  <1>13. FinalsOf(r)' /\ ~ Standing(r)'
    BY <1>2, <1>5, <1>7 DEF FinalsOf, Standing, Writing
  <1> QED
    BY <1>2, <1>5, <1>8, <1>9, <1>10, <1>11, <1>12, <1>13, SavesFrame

\* Moving a run on changes nothing else of it.
LEMMA RunIs ==
  ASSUME SavesInv, NEW r \in Runs, NEW p \in RunPlaces
  PROVE  /\ [run[r] EXCEPT !.at = p] \in Run
         /\ [run[r] EXCEPT !.at = p].at = p
         /\ [run[r] EXCEPT !.at = p].ok = run[r].ok
         /\ [run[r] EXCEPT !.at = p].history = run[r].history
         /\ [run EXCEPT ![r].at = p] = [run EXCEPT ![r] = [run[r] EXCEPT !.at = p]]
  BY DEF SavesInv, SaveTypes, Run

\* The steps that only move the run on.
LEMMA PlainStepKeeps ==
  ASSUME SavesInv, NEW r \in Runs, NEW p \in {"loop", "waiting", "ending", "final"},
         run[r].at \in {"starting", "titling", "loop", "waiting", "ending"},
         run[r].at \in {"starting", "titling"} => job[r][0].at \in {"saved", "failed"},
         run' = [run EXCEPT ![r].at = p], RunOnly, died' = died
  PROVE  SavesInv'
  <1> DEFINE x == [run[r] EXCEPT !.at = p]
  <1>1. p \in RunPlaces
    BY DEF RunPlaces
  <1>2. /\ x \in Run /\ x.at = p /\ x.ok = run[r].ok /\ x.history = run[r].history
        /\ run' = [run EXCEPT ![r] = x]
    BY <1>1, RunIs
  <1> HIDE DEF x
  <1> QED
    BY <1>2, RunGoesOn

\* They are the end of the loop, a cancellation, a change or a final save that queues.
LEMMA StepKeeps ==
  ASSUME SavesInv, NEW r \in Runs,
         Titled(r) \/ LoopEnds(r) \/ Cancel(r) \/ ChangeWaits(r) \/ FinalQueues(r)
  PROVE  SavesInv'
  <1>1. CASE Titled(r)
    BY <1>1, PlainStepKeeps DEF Titled, RunOnly, clients, quiet, SavesInv, SaveTypes
  <1>2. CASE LoopEnds(r)
    BY <1>2, PlainStepKeeps DEF LoopEnds, RunOnly, clients, quiet, SavesInv, SaveTypes
  <1>3. CASE Cancel(r)
    BY <1>3, PlainStepKeeps DEF Cancel, RunOnly, clients, SavesInv, SaveTypes
  <1>4. CASE ChangeWaits(r)
    BY <1>4, PlainStepKeeps DEF ChangeWaits, RunOnly, clients, quiet, SavesInv, SaveTypes
  <1>5. CASE FinalQueues(r)
    BY <1>5, PlainStepKeeps DEF FinalQueues, RunOnly, clients, quiet, SavesInv, SaveTypes
  <1> QED
    BY <1>1, <1>2, <1>3, <1>4, <1>5

\* Change: the history grows by a change of the run's own.
LEMMA ChangeKeeps ==
  ASSUME SavesInv, NEW r \in Runs, Change(r)
  PROVE  SavesInv'
  <1> DEFINE n == run[r].count + 1
             H == run[r].history \cup {<<r, n>>}
             x == [run[r] EXCEPT !.at = "loop", !.count = n, !.history = H]
  <1>1. run[r] \in Run /\ run[r].count < MaxChanges /\ run[r].at \in {"loop", "waiting"}
    BY Kinds, JobIs DEF Change
  <1>2. run' = [run EXCEPT ![r] = x]
    BY DEF Change, SavesInv, SaveTypes
  <1>3. n \in 0..MaxChanges /\ n \in Nat
    BY <1>1, SavesAssumption DEF Run
  <1> HIDE DEF n
  <1>4. <<r, n>> \in Changes
    BY <1>3 DEF Changes
  <1>5. /\ H \in SUBSET Changes /\ run[r].history \subseteq H
        /\ \A c \in H : c \in run[r].history \/ (c \in Changes /\ c[1] = r)
    BY <1>1, <1>4 DEF Run
  <1> HIDE DEF H
  <1>6. x \in Run /\ x.at = "loop" /\ x.ok = run[r].ok /\ x.history = H
    BY <1>1, <1>3, <1>5 DEF Run, RunPlaces
  <1> HIDE DEF x
  <1>7. RunOnly /\ died' = died
    BY DEF Change, RunOnly, clients, quiet, SavesInv, SaveTypes
  <1> QED
    BY <1>1, <1>2, <1>5, <1>6, <1>7, RunGoesOn

\* Settle: a run that reports its history saved has it on disk.
LEMMA SettleKeeps ==
  ASSUME SavesInv, NEW r \in Runs, Settle(r)
  PROVE  SavesInv'
  <1> DEFINE x == [run[r] EXCEPT !.at = "settled", !.ok = (job[r][0].at = "saved")]
  <1>1. run[r] \in Run /\ run[r].at = "saving" /\ job[r][0].at \in {"saved", "failed", "skipped"}
    BY Kinds, JobIs DEF Settle
  <1>2. /\ x \in Run /\ x.at = "settled" /\ x.history = run[r].history
        /\ x.ok => job[r][0].at = "saved"
    BY <1>1 DEF Run, RunPlaces
  <1>3. run' = [run EXCEPT ![r] = x]
    BY DEF Settle, SavesInv, SaveTypes
  <1> HIDE DEF x
  <1>4. RunOnly /\ died' = died
    BY DEF Settle, RunOnly, clients, quiet, SavesInv, SaveTypes
  <1>5. r \notin died
    BY <1>1 DEF SavesInv, OneRun
  <1> QED
    BY <1>1, <1>2, <1>3, <1>4, <1>5, RunEnds DEF Active

\* An active run has neither reported nor panicked.
LEMMA NotOk ==
  ASSUME SavesInv, NEW r \in Runs, Active(r)
  PROVE  ~ run[r].ok /\ r \notin died
  BY DEF SavesInv, OneRun, Active

\* Die: the tasks of a run that panicked live on.
LEMMA DieKeeps ==
  ASSUME SavesInv, NEW r \in Runs, Die(r)
  PROVE  SavesInv'
  <1> DEFINE x == [run[r] EXCEPT !.at = "settled"]
  <1>1. "settled" \in RunPlaces /\ run[r].at \in {"loop", "waiting"} /\ Active(r)
    BY DEF RunPlaces, Die, Active
  <1>2. /\ x \in Run /\ x.at = "settled" /\ x.ok = run[r].ok /\ x.history = run[r].history
        /\ run' = [run EXCEPT ![r] = x]
    BY <1>1, RunIs DEF Die
  <1> HIDE DEF x
  <1>3. RunOnly /\ died' = died \cup {r}
    BY DEF Die, RunOnly, clients, SavesInv, SaveTypes
  <1> QED
    BY <1>1, <1>2, <1>3, NotOk, RunEnds

\* The run and one of its saves move together.
Together(r, x, g, y, n) ==
  /\ run' = [run EXCEPT ![r] = x] /\ job' = [job EXCEPT ![r][g] = y]
  /\ save_gen' = [save_gen EXCEPT ![r] = n] /\ index' \in Sessions \cup {Gone}
  /\ UNCHANGED <<disk, save_lock, put, update_lock, landed, meddled, died>>

LEMMA RunAndSaveMove ==
  ASSUME SavesInv, NEW r \in Runs, NEW x \in Run, x.at # "none", NEW g \in Jobs, NEW y \in Job,
         NEW n \in Nat, Together(r, x, g, y, n)
  PROVE  /\ SaveTypes' /\ Elsewhere(r) /\ run'[r] = x
         /\ \A q \in Runs : q # r => run'[q] = run[q]
         /\ job'[r][g] = y /\ \A h \in Jobs : h # g => job'[r][h] = job[r][h]
         /\ save_gen'[r] = n
  <1>1. /\ run' \in [Runs -> Run] /\ run'[r] = x
        /\ \A q \in Runs : q # r => run'[q] = run[q]
    BY RunMoves DEF SavesInv, Together
  <1>2. /\ job' \in [Runs -> [Jobs -> Job]] /\ job'[r][g] = y
        /\ \A h \in Jobs : h # g => job'[r][h] = job[r][h]
        /\ \A q \in Runs : q # r => job'[q] = job[q]
    BY JobMoves DEF SavesInv, Together
  <1>3. /\ save_gen' \in [Runs -> Nat] /\ save_gen'[r] = n
        /\ \A q \in Runs : q # r => save_gen'[q] = save_gen[q]
    BY DEF SavesInv, SaveTypes, Together
  <1>4. Begun \subseteq Begun'
    BY <1>1 DEF Begun
  <1>5. SaveTypes'
    BY <1>1, <1>2, <1>3, <1>4 DEF SavesInv, SaveTypes, Together
  <1>6. Elsewhere(r)
    BY <1>1, <1>2, <1>3 DEF SavesInv, SaveTypes, Elsewhere, Together
  <1> QED
    BY <1>1, <1>2, <1>3, <1>5, <1>6

\* An active run that stays active keeps the order of the runs.
LEMMA OneRunKept ==
  ASSUME SavesInv, NEW r \in Runs, Active(r), NEW x \in Run, run' = [run EXCEPT ![r] = x],
         x.at \notin {"none", "settled"}, x.ok = run[r].ok, died' = died
  PROVE  OneRun' /\ Active(r)' /\ ~ Standing(r)'
  <1>1. /\ run' \in [Runs -> Run] /\ run'[r] = x
        /\ \A q \in Runs : q # r => run'[q] = run[q]
    BY RunMoves DEF SavesInv
  <1> QED
    BY <1>1 DEF SavesInv, OneRun, Active, Standing

\* The file has no changes of runs to come.
LEMMA DiskUpTo ==
  ASSUME SavesInv, NEW r \in Runs, Active(r), disk # Gone
  PROVE  disk.msgs \subseteq UpTo(r)
  <1> SUFFICES ASSUME NEW c \in disk.msgs PROVE c \in UpTo(r)
    OBVIOUS
  <1>1. c \in All
    BY DEF SavesInv, Contents
  <1>2. CASE c[1] = 0
    BY <1>1, <1>2, Kinds DEF UpTo
  <1>3. CASE c[1] \in Runs /\ c \in run[c[1]].history
    <2>1. run[c[1]].at # "none"
      BY <1>3 DEF SavesInv, Contents, ContentsOf
    <2>2. c[1] = r \/ c[1] < r
      BY <1>3, <2>1, OneActive
    <2>3. c[1] \in Nat /\ r \in Nat
      BY <1>3, Kinds
    <2>4. c[1] <= r
      BY <2>2, <2>3
    <2> QED
      BY <1>1, <2>4 DEF UpTo
  <1> QED
    BY <1>1, <1>2, <1>3 DEF All

\* Seed: the new history is what is on disk and the message that starts the run.
LEMMA SeedKeeps ==
  ASSUME SavesInv, NEW r \in Runs, Seed(r)
  PROVE  SavesInv'
  <1>1. 0 \in Jobs /\ run[r] \in Run /\ run[r].at = "claimed" /\ Active(r) /\ save_gen[r] \in Nat
    BY Kinds, JobIs DEF Seed, Active
  <1>2. CASE disk = Gone
    <2> DEFINE x == [run[r] EXCEPT !.at = "settled"]
    <2>1. "settled" \in RunPlaces
      BY DEF RunPlaces
    <2>2. /\ x \in Run /\ x.at = "settled" /\ x.ok = run[r].ok /\ x.history = run[r].history
          /\ run' = [run EXCEPT ![r] = x]
      BY <1>2, <2>1, RunIs DEF Seed
    <2> HIDE DEF x
    <2>3. RunOnly /\ died' = died
      BY <1>2 DEF Seed, RunOnly, clients, quiet, SavesInv, SaveTypes
    <2> QED
      BY <1>1, <2>2, <2>3, NotOk, RunEnds
  <1>3. CASE disk # Gone
    <2> DEFINE H == disk.msgs \cup {<<r, 0>>}
               x == [run[r] EXCEPT !.at = "starting", !.history = H]
               y == [NoJob EXCEPT !.at = "checked", !.snap = H]
    <2>1. run' = [run EXCEPT ![r] = x] /\ job' = [job EXCEPT ![r][0] = y]
      BY <1>3 DEF Seed, SavesInv, SaveTypes
    <2>2. disk \in Sessions /\ <<r, 0>> \in Changes
      BY <1>3, SavesAssumption DEF SavesInv, SaveTypes, Changes
    <2>3. H \in SUBSET Changes /\ disk.msgs \subseteq H /\ \A c \in H : c \in disk.msgs \/ c = <<r, 0>>
      BY <2>2 DEF Sessions
    <2> HIDE DEF H
    <2>4. x \in Run /\ x.at = "starting" /\ x.history = H /\ x.ok = run[r].ok
      BY <1>1, <2>3 DEF Run, RunPlaces
    <2>5. y \in Job /\ y.at = "checked" /\ Body(y) = H
      BY <2>3 DEF NoJob, Job, JobStates, Body
    <2> HIDE DEF x, y
    <2>6. /\ disk' = disk /\ save_lock' = save_lock /\ meddled' = meddled /\ died' = died
          /\ UNCHANGED <<put, update_lock, landed>> /\ index' \in Sessions \cup {Gone}
          /\ Together(r, x, 0, y, save_gen[r])
      BY <1>3, <2>1, <2>2 DEF Seed, Together, clients, quiet, SavesInv, SaveTypes
    <2>7. /\ SaveTypes' /\ Elsewhere(r) /\ run'[r] = x
          /\ \A q \in Runs : q # r => run'[q] = run[q]
          /\ job'[r][0] = y /\ \A h \in Jobs : h # 0 => job'[r][h] = job[r][h]
          /\ save_gen'[r] = save_gen[r]
      BY <1>1, <2>4, <2>5, <2>6, RunAndSaveMove
    <2>8. OneRun' /\ Active(r)' /\ ~ Standing(r)'
      BY <1>1, <2>1, <2>4, <2>6, OneRunKept
    <2>9. GenerationsOf(r) /\ LockOf(r) /\ ContentsOf(r) /\ FinalsOf(r)
      BY <1>1, JobIs
    <2>10. save_gen[r] = 0 /\ \A g \in Tasks : job'[r][g] = job[r][g] /\ job[r][g].at = "none"
      <3>1. save_gen[r] = 0
        BY <1>1, <2>9 DEF GenerationsOf
      <3>2. \A g \in Tasks : g \in Jobs /\ g \in Nat /\ g # 0
        BY Kinds
      <3>3. \A g \in Tasks : job[r][g].at # "none" => g <= save_gen[r]
        BY <2>9 DEF GenerationsOf
      <3> QED BY <2>7, <3>1, <3>2, <3>3
    <2>11. GenerationsOf(r)'
      <3>1. job'[r][0].at \in Own(r)'
        BY <2>4, <2>5, <2>7 DEF Own
      <3>2. \A g \in Tasks : job'[r][g].at = "none"
        BY <2>10
      <3>3. save_gen'[r] = 0 /\ 0 <= MaxSaves + 0
        BY <2>7, <2>10, Kinds
      <3> QED
        BY <2>4, <2>7, <3>1, <3>2, <3>3 DEF GenerationsOf, Waits, Writing
    <2>12. LockOf(r)'
      <3>1. Holders(r) = {} /\ Holders(r)' = {}
        BY <1>1, <2>4, <2>7, <2>9, <2>10, Kinds DEF Holders, GenerationsOf, Own, Writing
      <3> QED
        BY <2>4, <2>6, <2>7, <2>9, <3>1 DEF LockOf
    <2>13. run[r].history \subseteq H
      BY <1>1, <2>9 DEF ContentsOf
    <2>14. ContentsOf(r)'
      <3>1. \A q \in Runs : run[q].history \subseteq run'[q].history
        BY <2>4, <2>7, <2>13
      <3>2. UpTo(r) \subseteq UpTo(r)'
        BY <3>1, AllGrows
      <3>3. <<r, 0>> \in UpTo(r)'
        <4>1. <<r, 0>> \in H
          BY DEF H
        <4> QED
          BY <2>2, <2>4, <2>7, <4>1, Kinds DEF UpTo, All
      <3>4. H \subseteq UpTo(r)'
        BY <1>1, <1>3, <2>3, <3>2, <3>3, DiskUpTo
      <3>5. \A g \in Tasks : Body(job'[r][g]) \subseteq UpTo(r)'
        BY <2>9, <2>10, <3>2, Kinds DEF ContentsOf
      <3> QED
        BY <2>4, <2>5, <2>7, <2>10, <3>4, <3>5, Kinds DEF ContentsOf
    <2>15. NewerOf(r)'
      BY <2>3, <2>5, <2>6, <2>7, <2>10, Kinds DEF NewerOf, Current, Part
    <2>16. FinalsOf(r)'
      <3>1. \A q \in Runs : Standing(q)' => Standing(q) /\ run'[q].history = run[q].history
        BY <2>6, <2>7, <2>8 DEF Standing
      <3>2. \A q \in Runs : Standing(q) => run[q].history \subseteq H
        BY <2>3 DEF SavesInv, Finals
      <3> QED
        BY <2>4, <2>5, <2>7, <2>8, <2>10, <3>1, <3>2, Kinds DEF FinalsOf
    <2> QED
      BY <2>4, <2>6, <2>7, <2>8, <2>11, <2>12, <2>13, <2>14, <2>15, <2>16, SavesFrame
  <1> QED
    BY <1>2, <1>3

\* The title is written back over what was read.
LEMMA StartedKeeps ==
  ASSUME SavesInv, NEW r \in Runs, Started(r)
  PROVE  SavesInv'
  <1>1. /\ 0 \in Jobs /\ run[r] \in Run /\ run[r].at = "starting" /\ Active(r) /\ save_gen[r] \in Nat
        /\ job[r][0] \in Job /\ job[r][0].at \in {"saved", "failed"}
    BY Kinds, JobIs DEF Started, Active
  <1>2. CASE /\ run' = [run EXCEPT ![r].at = IF job[r][0].at = "saved" THEN "loop" ELSE "settled"]
             /\ UNCHANGED <<index, job>>
    <2>1. RunOnly /\ died' = died
      BY <1>2 DEF Started, RunOnly, clients, quiet, SavesInv, SaveTypes
    <2>2. CASE job[r][0].at = "saved"
      BY <1>1, <1>2, <2>1, <2>2, PlainStepKeeps
    <2>3. CASE job[r][0].at # "saved"
      <3> DEFINE x == [run[r] EXCEPT !.at = "settled"]
      <3>1. "settled" \in RunPlaces
        BY DEF RunPlaces
      <3>2. /\ x \in Run /\ x.at = "settled" /\ x.ok = run[r].ok /\ x.history = run[r].history
            /\ run' = [run EXCEPT ![r] = x]
        BY <1>2, <2>3, <3>1, RunIs
      <3> HIDE DEF x
      <3> QED
        BY <1>1, <2>1, <3>2, NotOk, RunEnds
    <2> QED
      BY <2>2, <2>3
  <1>3. CASE /\ disk # Gone /\ index' = disk
             /\ job' = [job EXCEPT ![r][0] = [@ EXCEPT !.at = "got", !.next = disk]]
             /\ run' = [run EXCEPT ![r].at = "titling"]
    <2> DEFINE x == [run[r] EXCEPT !.at = "titling"]
               y == [job[r][0] EXCEPT !.at = "got", !.next = disk]
    <2>1. "titling" \in RunPlaces
      BY DEF RunPlaces
    <2>2. /\ x \in Run /\ x.at = "titling" /\ x.ok = run[r].ok /\ x.history = run[r].history
          /\ run' = [run EXCEPT ![r] = x]
      BY <1>3, <2>1, RunIs
    <2>3. disk \in Sessions
      BY <1>3 DEF SavesInv, SaveTypes
    <2>4. y \in Job /\ y.at = "got" /\ y.next = disk /\ Body(y) = disk.msgs
      BY <1>1, <2>3 DEF Job, JobStates, Body
    <2>5. job' = [job EXCEPT ![r][0] = y]
      BY <1>3 DEF SavesInv, SaveTypes
    <2> HIDE DEF x, y
    <2>6. /\ disk' = disk /\ save_lock' = save_lock /\ meddled' = meddled /\ died' = died
          /\ UNCHANGED <<put, update_lock, landed>> /\ index' \in Sessions \cup {Gone}
          /\ Together(r, x, 0, y, save_gen[r])
      BY <1>3, <2>2, <2>3, <2>5 DEF Started, Together, clients, quiet, SavesInv, SaveTypes
    <2>7. /\ SaveTypes' /\ Elsewhere(r) /\ run'[r] = x
          /\ \A q \in Runs : q # r => run'[q] = run[q]
          /\ job'[r][0] = y /\ \A h \in Jobs : h # 0 => job'[r][h] = job[r][h]
          /\ save_gen'[r] = save_gen[r]
      BY <1>1, <2>2, <2>4, <2>6, RunAndSaveMove
    <2>8. OneRun' /\ Active(r)' /\ ~ Standing(r)'
      BY <1>1, <2>2, <2>6, OneRunKept
    <2>9. GenerationsOf(r) /\ LockOf(r) /\ ContentsOf(r) /\ FinalsOf(r)
      BY <1>1, JobIs
    <2>10. save_gen[r] = 0 /\ \A g \in Tasks : job'[r][g] = job[r][g] /\ job[r][g].at = "none"
      <3>1. save_gen[r] = 0
        BY <1>1, <2>9 DEF GenerationsOf
      <3>2. \A g \in Tasks : g \in Jobs /\ g \in Nat /\ g # 0
        BY Kinds
      <3>3. \A g \in Tasks : job[r][g].at # "none" => g <= save_gen[r]
        BY <2>9 DEF GenerationsOf
      <3> QED BY <2>7, <3>1, <3>2, <3>3
    <2>11. GenerationsOf(r)'
      <3>1. job'[r][0].at \in Own(r)'
        BY <2>2, <2>4, <2>7 DEF Own
      <3>2. \A g \in Tasks : job'[r][g].at = "none"
        BY <2>10
      <3>3. save_gen'[r] = 0 /\ 0 <= MaxSaves + 0
        BY <2>7, <2>10, Kinds
      <3> QED
        BY <2>2, <2>7, <3>1, <3>2, <3>3 DEF GenerationsOf, Waits, Writing
    <2>12. LockOf(r)'
      <3>1. Holders(r) = {} /\ Holders(r)' = {}
        BY <1>1, <2>2, <2>7, <2>10, Kinds DEF Holders, Writing
      <3> QED
        BY <2>2, <2>6, <2>7, <2>9, <3>1 DEF LockOf
    <2>13. ContentsOf(r)'
      <3>1. UpTo(r)' = UpTo(r)
        BY <2>2, <2>7 DEF UpTo, All
      <3>2. disk.msgs \subseteq UpTo(r)
        BY <1>1, <1>3, DiskUpTo
      <3>3. \A g \in Tasks : Body(job'[r][g]) \subseteq UpTo(r)
        BY <2>9, <2>10, Kinds DEF ContentsOf
      <3>4. run'[r].history \subseteq UpTo(r)
        BY <2>2, <2>7, <2>9 DEF ContentsOf
      <3>5. \A g \in Jobs :
              /\ job'[r][g].at \in {"got", "persisted"} => job'[r][g].next # Gone
              /\ Body(job'[r][g]) \subseteq UpTo(r)
        <4>1. job'[r][0].next # Gone /\ Body(job'[r][0]) \subseteq UpTo(r)
          BY <1>3, <2>4, <2>7, <3>2
        <4>2. \A g \in Tasks : job'[r][g].at = "none"
          BY <2>10
        <4> QED
          BY <3>3, <4>1, <4>2, Kinds
      <3> QED
        BY <2>2, <2>7, <3>1, <3>4, <3>5 DEF ContentsOf
    <2>14. NewerOf(r)'
      BY <2>4, <2>6, <2>7, <2>10, Kinds DEF NewerOf, Current, Part
    <2>15. FinalsOf(r)'
      <3>1. \A q \in Runs : Standing(q)' => Standing(q) /\ run'[q].history = run[q].history
        BY <2>2, <2>6, <2>7, <2>8 DEF Standing
      <3>2. \A q \in Runs : Standing(q) =>
              run[q].history \subseteq disk.msgs /\ run[q].history \subseteq run[r].history
        BY <1>1 DEF SavesInv, Finals
      <3>3. ~ Standing(r)' /\ run'[r].at = "titling" /\ run'[r].history = run[r].history
        BY <2>2, <2>7, <2>8
      <3>4. ASSUME NEW g \in Jobs, job'[r][g].at \in {"snapped", "checked", "got"}
            PROVE  Body(job'[r][g]) = disk.msgs
        <4>1. g = 0
          BY <2>10, <3>4, Kinds
        <4> QED
          BY <2>4, <2>7, <4>1
      <3>5. \A q \in Runs : Standing(q)' =>
              /\ run'[q].history \subseteq run'[r].history
              /\ \A g \in Jobs : job'[r][g].at \in {"snapped", "checked", "got"} =>
                   run'[q].history \subseteq Body(job'[r][g])
        BY <3>1, <3>2, <3>3, <3>4
      <3> QED
        BY <3>3, <3>5 DEF FinalsOf, Body
    <2> QED
      BY <2>2, <2>6, <2>7, <2>8, <2>11, <2>12, <2>13, <2>14, <2>15, SavesFrame
  <1> QED
    BY <1>2, <1>3 DEF Started

\* A new generation makes every save that has not passed its check stale.
LEMMA SaveSessionKeeps ==
  ASSUME SavesInv, NEW r \in Runs, SaveSession(r)
  PROVE  SavesInv'
  <1> DEFINE n == save_gen[r] + 1
             y == [NoJob EXCEPT !.at = "spawned", !.gen = n]
  <1>1. /\ 0 \in Jobs /\ run[r] \in Run /\ run[r].at = "loop" /\ Active(r) /\ save_gen[r] \in Nat
        /\ save_gen[r] < MaxSaves
    BY Kinds, JobIs DEF SaveSession, Active
  <1>2. n \in Nat /\ n \in Tasks /\ n \in Jobs /\ n <= MaxSaves /\ n # 0 /\ save_gen[r] < n
        /\ \A g \in Nat : g <= save_gen[r] => g <= n /\ g # n
    BY <1>1, Kinds DEF Tasks, Jobs
  <1>3. job' = [job EXCEPT ![r][n] = y] /\ save_gen' = [save_gen EXCEPT ![r] = n]
    BY DEF SaveSession, claim_save_generation
  <1> HIDE DEF n
  <1>4. y \in Job /\ y.at = "spawned" /\ y.gen = n /\ Body(y) = {}
    BY <1>2 DEF NoJob, Job, JobStates, Body
  <1> HIDE DEF y
  <1>5. /\ disk' = disk /\ save_lock' = save_lock /\ meddled' = meddled /\ died' = died /\ run' = run
        /\ UNCHANGED <<put, update_lock, landed>> /\ index' \in Sessions \cup {Gone}
        /\ run' = [run EXCEPT ![r] = run[r]] /\ Together(r, run[r], n, y, n)
    BY <1>3 DEF SaveSession, Together, clients, quiet, SavesInv, SaveTypes
  <1>6. /\ SaveTypes' /\ Elsewhere(r)
        /\ job'[r][n] = y /\ \A h \in Jobs : h # n => job'[r][h] = job[r][h]
        /\ save_gen'[r] = n
    BY <1>1, <1>2, <1>4, <1>5, RunAndSaveMove
  <1>7. OneRun' /\ Active(r)' /\ ~ Standing(r)'
    BY <1>1, <1>5, OneRunKept
  <1>8. GenerationsOf(r) /\ LockOf(r) /\ ContentsOf(r) /\ FinalsOf(r) /\ NewerOf(r)
    BY <1>1, JobIs
  <1>9. job[r][n].at = "none" /\ \A g \in Tasks : job[r][g].at # "none" => g <= save_gen[r]
    BY <1>1, <1>2, <1>8 DEF GenerationsOf
  <1>10. GenerationsOf(r)'
    <2>1. job'[r][0].at \in Own(r)'
      BY <1>1, <1>2, <1>5, <1>6, <1>8 DEF GenerationsOf, Own
    <2>2. \A g \in Tasks : job'[r][g].at # "none" => g <= n
      <3>1. \A g \in Tasks : g # n => job'[r][g] = job[r][g]
        BY <1>6, Kinds
      <3>2. \A g \in Tasks : g \in Nat /\ (g <= save_gen[r] => g <= n)
        BY <1>2, Kinds
      <3>3. n <= n
        BY <1>2
      <3>4. ASSUME NEW g \in Tasks, job'[r][g].at # "none", g # n
            PROVE  g <= n
        <4>1. job[r][g].at # "none"
          BY <3>1, <3>4
        <4> QED
          BY <1>9, <3>2, <4>1
      <3> QED
        BY <3>3, <3>4
    <2>3. ~ Closed(r)'
      BY <1>1, <1>5 DEF Closed
    <2>4. n <= MaxSaves + 0
      BY <1>2, Kinds
    <2>5. \A g \in Tasks : job'[r][g].at \in Waits \cup Writing => job'[r][g].gen = g
      BY <1>4, <1>6, <1>8, Kinds DEF GenerationsOf
    <2> QED
      BY <1>1, <1>5, <1>6, <2>1, <2>2, <2>3, <2>4, <2>5 DEF GenerationsOf
  <1>11. LockOf(r)'
    <2>1. Holders(r)' = Holders(r)
      BY <1>2, <1>4, <1>5, <1>6, <1>9 DEF Holders, Writing
    <2> QED
      BY <1>1, <1>5, <1>8, <2>1 DEF LockOf
  <1>12. ContentsOf(r)'
    BY <1>1, <1>2, <1>4, <1>5, <1>6, <1>8 DEF ContentsOf, UpTo, All
  <1>13. NewerOf(r)'
    <2>1. \A g \in Jobs : ~ Current(r, g)'
      <3> SUFFICES ASSUME NEW g \in Jobs, Current(r, g)' PROVE FALSE
        OBVIOUS
      <3>1. g # n /\ job'[r][g] = job[r][g] /\ job[r][g].at = "snapped" /\ job[r][g].gen = n
        BY <1>4, <1>6 DEF Current
      <3>2. g # 0
        BY <1>1, <1>8, <3>1 DEF GenerationsOf, Own
      <3>3. g \in Tasks /\ g \in Nat
        BY <3>2, Kinds
      <3>4. job[r][g].gen = g
        BY <1>8, <3>1, <3>3 DEF GenerationsOf, Waits
      <3> QED
        BY <3>1, <3>4
    <2>2. \A g \in Jobs : job'[r][g].at \in {"checked", "got"} => job'[r][g] = job[r][g]
      BY <1>4, <1>6
    <2> QED
      BY <1>5, <1>8, <2>1, <2>2 DEF NewerOf
  <1>14. FinalsOf(r)'
    BY <1>1, <1>2, <1>4, <1>5, <1>6, <1>8 DEF FinalsOf, Standing, Active
  <1> QED
    BY <1>5, <1>6, <1>7, <1>10, <1>11, <1>12, <1>13, <1>14, SavesFrame

\* The final save claims a generation that no task can have, with all of the history.
LEMMA FinalCopiesKeeps ==
  ASSUME SavesInv, NEW r \in Runs, FinalCopies(r)
  PROVE  SavesInv'
  <1> DEFINE n == save_gen[r] + 1
             x == [run[r] EXCEPT !.at = "saving"]
             y == [NoJob EXCEPT !.at = "snapped", !.gen = n, !.snap = run[r].history]
  <1>1. 0 \in Jobs /\ run[r] \in Run /\ run[r].at = "final" /\ Active(r) /\ save_gen[r] \in Nat
    BY Kinds, JobIs DEF FinalCopies, Active
  <1>2. "saving" \in RunPlaces /\ run[r].history \subseteq Changes
    BY <1>1 DEF RunPlaces, Run
  <1>3. /\ x \in Run /\ x.at = "saving" /\ x.ok = run[r].ok /\ x.history = run[r].history
        /\ run' = [run EXCEPT ![r] = x]
    BY <1>2, RunIs DEF FinalCopies
  <1>4. job' = [job EXCEPT ![r][0] = y] /\ save_gen' = [save_gen EXCEPT ![r] = n]
    BY DEF FinalCopies, claim_save_generation
  <1>5. n \in Nat /\ n # 0 /\ \A g \in Nat : g <= save_gen[r] => g < n /\ g # n
    BY <1>1
  <1>6. n <= MaxSaves + 1
    <2>1. save_gen[r] <= MaxSaves + 0
      BY <1>1, JobIs DEF GenerationsOf
    <2> QED
      BY <1>1, <2>1, Kinds
  <1> HIDE DEF n
  <1>7. y \in Job /\ y.at = "snapped" /\ y.gen = n /\ Body(y) = run[r].history
    BY <1>2, <1>5 DEF NoJob, Job, JobStates, Body
  <1> HIDE DEF x, y
  <1>8. /\ disk' = disk /\ save_lock' = save_lock /\ meddled' = meddled /\ died' = died
        /\ UNCHANGED <<put, update_lock, landed>> /\ Together(r, x, 0, y, n)
    BY <1>3, <1>4 DEF FinalCopies, Together, clients, quiet, SavesInv, SaveTypes
  <1>9. /\ SaveTypes' /\ Elsewhere(r) /\ run'[r] = x
        /\ \A q \in Runs : q # r => run'[q] = run[q]
        /\ job'[r][0] = y /\ \A h \in Jobs : h # 0 => job'[r][h] = job[r][h]
        /\ save_gen'[r] = n
    BY <1>1, <1>3, <1>5, <1>7, <1>8, RunAndSaveMove
  <1>10. OneRun' /\ Active(r)' /\ ~ Standing(r)'
    BY <1>1, <1>3, <1>8, OneRunKept
  <1>11. GenerationsOf(r) /\ LockOf(r) /\ ContentsOf(r) /\ FinalsOf(r) /\ NewerOf(r)
    BY <1>1, JobIs
  <1>12. \A g \in Tasks : /\ g \in Jobs /\ g # 0 /\ g \in Nat /\ job'[r][g] = job[r][g]
                          /\ job[r][g].at # "none" => g < n /\ g # n
    BY <1>5, <1>9, <1>11, Kinds DEF GenerationsOf
  <1>13. job[r][0].at \notin Writing
    BY <1>1, <1>11 DEF GenerationsOf, Own, Writing
  <1>14. GenerationsOf(r)'
    <2>1. job'[r][0].at \in Own(r)' /\ job'[r][0].gen = n
      BY <1>3, <1>7, <1>9 DEF Own
    <2>2. \A g \in Tasks : job'[r][g].at # "none" => g <= n /\ g < n
      BY <1>5, <1>12
    <2>3. \A g \in Tasks : job'[r][g].at \in Waits \cup Writing => job'[r][g].gen = g /\ g < n
      BY <1>11, <1>12 DEF GenerationsOf, Waits, Writing
    <2> QED
      BY <1>3, <1>6, <1>9, <2>1, <2>2, <2>3 DEF GenerationsOf
  <1>15. LockOf(r)'
    <2>1. Holders(r)' = Holders(r)
      BY <1>1, <1>3, <1>7, <1>9, <1>13 DEF Holders, Writing
    <2> QED
      BY <1>3, <1>7, <1>8, <1>9, <1>11, <2>1 DEF LockOf
  <1>16. ContentsOf(r)'
    <2>1. UpTo(r)' = UpTo(r)
      BY <1>3, <1>9 DEF UpTo, All
    <2> QED
      BY <1>1, <1>3, <1>7, <1>9, <1>11, <2>1 DEF ContentsOf
  <1>17. NewerOf(r)'
    <2>1. \A S : S \subseteq All => Part(S, r) \subseteq run[r].history
      BY Kinds DEF Part, All
    <2>2. /\ disk # Gone => disk.msgs \subseteq All
          /\ \A h \in Jobs : Body(job[r][h]) \subseteq All
      BY <1>11 DEF SavesInv, Contents, ContentsOf, UpTo
    <2>3. \A g \in Tasks : ~ Current(r, g)'
      BY <1>9, <1>11, <1>12 DEF Current, GenerationsOf, Waits
    <2>4. \A g \in Jobs : job'[r][g].at \in {"checked", "got"} => g \in Tasks /\ job'[r][g] = job[r][g]
      BY <1>7, <1>9, Kinds
    <2>5. \A g \in Jobs : Current(r, g)' => g = 0
      BY <2>3, Kinds
    <2>6. \A g \in Jobs : disk # Gone /\ job'[r][g].at \in {"checked", "got"} =>
            Part(disk.msgs, r) \subseteq Body(job'[r][g])
      BY <1>11, <2>4 DEF NewerOf
    <2>7. disk # Gone => Part(disk.msgs, r) \subseteq Body(job'[r][0])
      BY <1>7, <1>9, <2>1, <2>2
    <2>8. \A h \in Jobs : job'[r][h].at \in {"checked", "got"} =>
            Part(Body(job'[r][h]), r) \subseteq Body(job'[r][0])
      BY <1>7, <1>9, <2>1, <2>2, <2>4
    <2> QED
      BY <1>8, <2>5, <2>6, <2>7, <2>8 DEF NewerOf
  <1>18. FinalsOf(r)'
    <2>1. \A q \in Runs : Standing(q)' => Standing(q) /\ run'[q].history = run[q].history
      BY <1>3, <1>8, <1>9, <1>10 DEF Standing
    <2>2. \A q \in Runs : Standing(q) => run[q].history \subseteq run[r].history
      BY <1>1, <1>11 DEF FinalsOf
    <2>3. \A g \in Jobs : g # 0 => job'[r][g] = job[r][g]
      BY <1>9
    <2> QED
      BY <1>1, <1>3, <1>7, <1>8, <1>9, <1>10, <1>11, <2>1, <2>2, <2>3 DEF FinalsOf
  <1> QED
    BY <1>3, <1>8, <1>9, <1>10, <1>14, <1>15, <1>16, <1>17, <1>18, SavesFrame

-----------------------------------------------------------------------------
(* Steps of the clients                                                    *)

\* A client's step leaves the runs and their saves alone.
RunsKept == UNCHANGED <<run, job, save_gen, save_lock, died>>

\* What is said of the runs alone stays.
LEMMA RunsKeptKeeps ==
  ASSUME SavesInv, RunsKept
  PROVE  OneRun' /\ Generations' /\ Locks'
  <1>1. OneRun'
    BY DEF SavesInv, OneRun, RunsKept
  <1>2. Generations'
    BY DEF SavesInv, Generations, GenerationsOf, Own, Closed, RunsKept
  <1>3. Locks'
    BY DEF SavesInv, Locks, LockOf, Holders, RunsKept
  <1> QED
    BY <1>1, <1>2, <1>3

\* A write that is no run's: what the runs had is no longer promised.
LEMMA Meddling ==
  ASSUME SavesInv, RunsKept, meddled' = Begun,
         disk' # Gone => disk'.msgs \subseteq All /\ \A c \in disk'.msgs : c[1] = 0
  PROVE  Contents' /\ Newer' /\ Finals'
  <1>1. All' = All /\ \A r \in Runs : UpTo(r)' = UpTo(r)
    BY DEF All, UpTo, RunsKept
  <1>2. Contents'
    BY <1>1 DEF SavesInv, Contents, ContentsOf, RunsKept
  <1>3. Newer'
    <2> SUFFICES ASSUME NEW r \in Runs, Active(r)' PROVE NewerOf(r)'
      BY DEF Newer
    <2>1. disk' # Gone => Part(disk'.msgs, r) = {}
      BY Kinds DEF Part
    <2>2. NewerOf(r)
      BY DEF SavesInv, Newer, Active, RunsKept
    <2> QED
      BY <2>1, <2>2 DEF NewerOf, Current, RunsKept
  <1>4. Finals'
    BY DEF Finals, Standing, Begun, RunsKept
  <1> QED
    BY <1>2, <1>3, <1>4

\* A step that leaves the file alone, too.
LEMMA OnlyClients ==
  ASSUME SavesInv, RunsKept, disk' = disk, meddled' = meddled, landed' = landed,
         index' \in Sessions \cup {Gone}, put' \in [Puts -> Job], update_lock' \subseteq Puts, Updates'
  PROVE  SavesInv'
  <1>1. SaveTypes'
    BY DEF SavesInv, SaveTypes, Begun, RunsKept
  <1>2. Contents'
    BY DEF SavesInv, Contents, ContentsOf, UpTo, All, RunsKept
  <1>3. Newer'
    BY DEF SavesInv, Newer, NewerOf, Current, Active, RunsKept
  <1>4. Finals'
    BY DEF SavesInv, Finals, Standing, Active, RunsKept
  <1> QED
    BY <1>1, <1>2, <1>3, <1>4, RunsKeptKeeps DEF SavesInv

\* One PUT changes.
LEMMA PutMoves ==
  ASSUME SavesInv, NEW p \in Puts, NEW x \in Job, put' = [put EXCEPT ![p] = x]
  PROVE  /\ put' \in [Puts -> Job] /\ put'[p] = x
         /\ \A q \in Puts : q # p => put'[q] = put[q]
  BY DEF SavesInv, SaveTypes

\* What the invariant says of one PUT.
LEMMA PutIs ==
  ASSUME SavesInv, NEW p \in Puts
  PROVE  /\ put[p] \in Job /\ Updates /\ landed \subseteq Puts /\ update_lock \subseteq Puts
         /\ disk \in Sessions \cup {Gone} /\ index \in Sessions \cup {Gone}
  BY DEF SavesInv, SaveTypes

\* PutBegins: a PUT enters when no other is under way.
LEMMA PutBeginsKeeps ==
  ASSUME SavesInv, NEW p \in Puts, PutBegins(p)
  PROVE  SavesInv'
  <1> DEFINE a == IF is_active THEN "refused" ELSE "locked"
             x == [put[p] EXCEPT !.at = a]
  <1>1. a \in JobStates /\ a \in {"refused", "locked"}
    BY DEF JobStates
  <1>2. put' = [put EXCEPT ![p] = x] /\ update_lock' = IF a = "locked" THEN {p} ELSE {}
    BY DEF PutBegins, UpdateLockFree, SavesInv, SaveTypes
  <1> HIDE DEF a
  <1>3. put[p] \in Job /\ put[p].at = "none" /\ update_lock = {} /\ Updates
    BY PutIs DEF PutBegins, UpdateLockFree
  <1>4. x \in Job /\ x.at = a
    BY <1>1, <1>3 DEF Job
  <1> HIDE DEF x
  <1>5. /\ RunsKept /\ disk' = disk /\ meddled' = meddled /\ landed' = landed
        /\ index' \in Sessions \cup {Gone}
    BY PutIs DEF PutBegins, RunsKept, quiet
  <1>6. /\ put' \in [Puts -> Job] /\ put'[p] = x
        /\ \A q \in Puts : q # p => put'[q] = put[q]
    BY <1>2, <1>4, PutMoves
  <1>7. p \notin landed /\ \A q \in Puts : put[q].at \notin {"locked", "got", "persisted"}
    BY <1>3 DEF Updates, UnderWay
  <1>8. update_lock' = UnderWay'
    BY <1>1, <1>2, <1>4, <1>6, <1>7 DEF UnderWay
  <1>9. \A q \in Puts : put'[q].at \notin {"got", "persisted"}
    BY <1>1, <1>4, <1>6, <1>7
  <1>10. \A q \in landed : q \in Puts /\ put'[q] = put[q]
    BY <1>6, <1>7, PutIs
  <1>11. Updates'
    BY <1>2, <1>3, <1>5, <1>8, <1>9, <1>10 DEF Updates, OnePutPerVersion
  <1> QED
    BY <1>2, <1>5, <1>6, <1>11, OnlyClients

\* The version that is compared is the one on disk.
LEMMA PutLoadsKeeps ==
  ASSUME SavesInv, NEW p \in Puts, PutLoads(p)
  PROVE  SavesInv'
  <1> DEFINE v == IF disk = Gone THEN 0 ELSE disk.ver
  <1>1. v \in Nat /\ \A q \in landed : put[q].gen < v
    BY PutIs DEF Sessions, Updates
  <1>2. put[p] \in Job /\ put[p].at = "locked" /\ Updates /\ p \in update_lock
    BY PutIs DEF PutLoads, Updates, UnderWay
  <1>3. /\ RunsKept /\ disk' = disk /\ meddled' = meddled /\ landed' = landed
        /\ index' \in Sessions \cup {Gone}
    BY PutIs DEF PutLoads, RunsKept, quiet
  <1>4. p \notin landed
    BY <1>2 DEF Updates
  <1>5. CASE put' = [put EXCEPT ![p].at = "refused"] /\ update_lock' = update_lock \ {p}
    <2> DEFINE x == [put[p] EXCEPT !.at = "refused"]
    <2>1. x \in Job /\ x.at = "refused"
      BY <1>2 DEF Job, JobStates
    <2>2. put' = [put EXCEPT ![p] = x]
      BY <1>5 DEF SavesInv, SaveTypes
    <2> HIDE DEF x
    <2>3. /\ put' \in [Puts -> Job] /\ put'[p] = x
          /\ \A q \in Puts : q # p => put'[q] = put[q]
      BY <2>1, <2>2, PutMoves
    <2>4. update_lock' = UnderWay'
      BY <1>2, <1>5, <2>1, <2>3 DEF Updates, UnderWay
    <2>5. Updates'
      BY <1>2, <1>3, <1>4, <1>5, <2>1, <2>3, <2>4, PutIs DEF Updates, OnePutPerVersion
    <2> QED
      BY <1>3, <1>5, <2>3, <2>5, PutIs, OnlyClients
  <1>6. CASE /\ put' = [put EXCEPT ![p] = [@ EXCEPT !.at = "got", !.gen = v,
                           !.next = [ver |-> v + 1, msgs |-> {<<0, p>>}]]]
             /\ update_lock' = update_lock
    <2> DEFINE n == [ver |-> v + 1, msgs |-> {<<0, p>>}]
               x == [put[p] EXCEPT !.at = "got", !.gen = v, !.next = n]
    <2>1. put' = [put EXCEPT ![p] = x]
      BY <1>6 DEF SavesInv, SaveTypes
    <2> HIDE DEF v
    <2>2. n \in Sessions
      <3>1. <<0, p>> \in Changes
        BY DEF Changes
      <3> QED
        BY <1>1, <3>1 DEF Sessions
    <2>3. x \in Job /\ x.at = "got" /\ x.gen = v /\ x.next = [ver |-> v + 1, msgs |-> {<<0, p>>}]
      BY <1>1, <1>2, <2>2 DEF Job, JobStates
    <2> HIDE DEF x
    <2>4. /\ put' \in [Puts -> Job] /\ put'[p] = x
          /\ \A q \in Puts : q # p => put'[q] = put[q]
      BY <2>1, <2>3, PutMoves
    <2>5. update_lock' = UnderWay'
      BY <1>2, <1>6, <2>3, <2>4 DEF Updates, UnderWay
    <2>6. \A q \in landed : q \in Puts /\ q # p /\ put'[q] = put[q]
      BY <1>4, <2>4, PutIs
    <2>7. \A q \in Puts : put'[q].at \in {"got", "persisted"} =>
            put'[q].next = [ver |-> put'[q].gen + 1, msgs |-> {<<0, q>>}]
      BY <1>2, <2>3, <2>4 DEF Updates
    <2>8. \A q \in Puts : put'[q].at = "got" => \A t \in landed : put[t].gen < put'[q].gen
      BY <1>1, <1>2, <2>3, <2>4 DEF Updates
    <2>9. Updates'
      BY <1>2, <1>3, <1>6, <2>5, <2>6, <2>7, <2>8 DEF Updates, OnePutPerVersion
    <2> QED
      BY <1>3, <1>6, <2>4, <2>9, PutIs, OnlyClients
  <1>7. ~ (put' = [put EXCEPT ![p].at = "refused"] /\ update_lock' = update_lock \ {p}) =>
          /\ put' = [put EXCEPT ![p] = [@ EXCEPT !.at = "got", !.gen = v,
                        !.next = [ver |-> v + 1, msgs |-> {<<0, p>>}]]]
          /\ update_lock' = update_lock
    <2>1. v = (IF disk = Gone THEN [ver |-> 0, msgs |-> {}] ELSE disk).ver
      OBVIOUS
    <2> HIDE DEF v
    <2> QED
      BY <2>1 DEF PutLoads
  <1> QED
    BY <1>5, <1>6, <1>7

\* No version is below the one a PUT has written.
LEMMA PutPersistsKeeps ==
  ASSUME SavesInv, NEW p \in Puts, PutPersists(p)
  PROVE  SavesInv'
  <1> DEFINE x == [put[p] EXCEPT !.at = "persisted"]
  <1>1. put[p] \in Job /\ put[p].at = "got" /\ Updates /\ put[p].gen \in Nat
    BY PutIs DEF PutPersists, Job
  <1>2. x \in Job /\ x.at = "persisted" /\ x.gen = put[p].gen /\ x.next = put[p].next
    BY <1>1 DEF Job, JobStates
  <1>3. put' = [put EXCEPT ![p] = x]
    BY DEF PutPersists, SavesInv, SaveTypes
  <1> HIDE DEF x
  <1>4. /\ put' \in [Puts -> Job] /\ put'[p] = x
        /\ \A q \in Puts : q # p => put'[q] = put[q]
    BY <1>2, <1>3, PutMoves
  <1>5. /\ RunsKept /\ meddled' = Begun /\ landed' = landed \cup {p} /\ index' = index
        /\ update_lock' = update_lock
    BY DEF PutPersists, RunsKept
  <1>6. put[p].next = [ver |-> put[p].gen + 1, msgs |-> {<<0, p>>}]
    BY <1>1 DEF Updates
  <1>7. put[p].next \in Sessions
    <2>1. <<0, p>> \in Changes
      BY DEF Changes
    <2> QED
      BY <1>1, <1>6, <2>1 DEF Sessions
  <1>8. /\ disk' # Gone /\ disk' \in Sessions /\ disk'.ver = put[p].gen + 1
        /\ disk'.msgs = {<<0, p>>}
    <2>1. disk' = put[p].next
      BY DEF PutPersists
    <2>2. disk'.ver = put[p].gen + 1 /\ disk'.msgs = {<<0, p>>}
      BY <1>6, <2>1
    <2> QED
      BY <1>7, <2>1, <2>2, GoneAssumption
  <1>9. disk'.msgs \subseteq All /\ \A c \in disk'.msgs : c[1] = 0
    BY <1>8 DEF All, Changes
  <1>10. SaveTypes'
    BY <1>4, <1>5, <1>8 DEF SavesInv, SaveTypes, Begun, RunsKept
  <1>11. update_lock' = UnderWay' /\ \A q \in update_lock : q = p
    BY <1>1, <1>2, <1>4, <1>5 DEF Updates, UnderWay
  <1>12. \A q \in landed : q \in Puts /\ q # p /\ put'[q] = put[q] /\ put[q].gen < put[p].gen
                             /\ put[q].gen \in Nat /\ put[q].at \in {"persisted", "ok"}
    <2>1. \A q \in landed : q \in Puts /\ put[q].gen < put[p].gen /\ put[q].at \in {"persisted", "ok"}
      BY <1>1, PutIs DEF Updates
    <2>2. \A q \in Puts : put[q].gen \in Nat
      BY PutIs DEF Job
    <2> QED
      BY <1>1, <1>4, <2>1, <2>2
  <1>13. \A q \in Puts : put'[q].at # "got"
    BY <1>2, <1>4, <1>5, <1>11 DEF UnderWay
  <1>14. \A q \in Puts : put'[q].at = "persisted" =>
            put'[q].next = [ver |-> put'[q].gen + 1, msgs |-> {<<0, q>>}]
    BY <1>1, <1>2, <1>4, <1>6 DEF Updates
  <1>15. \A q \in landed' : /\ put'[q].at \in {"persisted", "ok"}
                              /\ put'[q].gen < disk'.ver
    BY <1>1, <1>2, <1>4, <1>5, <1>8, <1>12
  <1>16. OnePutPerVersion'
    <2>1. \A q \in landed : put'[q].gen # put'[p].gen
      BY <1>1, <1>2, <1>4, <1>12
    <2>2. \A q, t \in landed : put'[q].gen = put'[t].gen => q = t
      BY <1>1, <1>12 DEF Updates, OnePutPerVersion
    <2> QED
      BY <1>5, <2>1, <2>2 DEF OnePutPerVersion
  <1>17. Updates'
    BY <1>5, <1>8, <1>11, <1>13, <1>14, <1>15, <1>16 DEF Updates
  <1> QED
    BY <1>5, <1>8, <1>9, <1>10, <1>17, RunsKeptKeeps, Meddling DEF SavesInv

\* PutAnswers: the index follows and the update lock is given up.
LEMMA PutAnswersKeeps ==
  ASSUME SavesInv, NEW p \in Puts, PutAnswers(p)
  PROVE  SavesInv'
  <1> DEFINE x == [Over("ok") EXCEPT !.gen = put[p].gen]
  <1>1. put[p] \in Job /\ put[p].at = "persisted" /\ Updates
    BY PutIs DEF PutAnswers
  <1>2. x \in Job /\ x.at = "ok" /\ x.gen = put[p].gen
    BY <1>1 DEF Over, NoJob, Job, JobStates
  <1>3. put' = [put EXCEPT ![p] = x]
    BY DEF PutAnswers
  <1> HIDE DEF x
  <1>4. /\ put' \in [Puts -> Job] /\ put'[p] = x
        /\ \A q \in Puts : q # p => put'[q] = put[q]
    BY <1>2, <1>3, PutMoves
  <1>5. /\ RunsKept /\ disk' = disk /\ meddled' = meddled /\ landed' = landed
        /\ update_lock' = update_lock \ {p}
    BY DEF PutAnswers, RunsKept, quiet
  <1>6. index' \in Sessions \cup {Gone}
    BY <1>1 DEF PutAnswers, Job
  <1>7. update_lock' = UnderWay'
    BY <1>1, <1>2, <1>4, <1>5 DEF Updates, UnderWay
  <1>8. \A q \in Puts : put'[q].gen = put[q].gen /\ (put'[q].at \in {"got", "persisted"} => put'[q] = put[q])
    BY <1>2, <1>4
  <1>9. \A q \in landed : q \in Puts /\ put'[q].at \in {"persisted", "ok"}
    BY <1>1, <1>2, <1>4, PutIs DEF Updates
  <1>10. Updates'
    BY <1>1, <1>5, <1>7, <1>8, <1>9 DEF Updates, OnePutPerVersion
  <1> QED
    BY <1>4, <1>5, <1>6, <1>10, PutIs, OnlyClients

\* DeleteFile and DeleteIndex: without a file no version has landed.
LEMMA DeleteKeeps ==
  ASSUME SavesInv, DeleteFile \/ DeleteIndex
  PROVE  SavesInv'
  <1>1. CASE DeleteFile
    <2>1. /\ RunsKept /\ meddled' = Begun /\ landed' = {} /\ disk' = Gone
          /\ put' = put /\ update_lock' = update_lock /\ index' = index
      BY <1>1 DEF DeleteFile, RunsKept, clients
    <2>2. SaveTypes'
      BY <2>1 DEF SavesInv, SaveTypes, Begun, RunsKept
    <2>3. Updates'
      BY <2>1 DEF SavesInv, Updates, UnderWay, OnePutPerVersion
    <2> QED
      BY <2>1, <2>2, <2>3, RunsKeptKeeps, Meddling DEF SavesInv
  <1>2. CASE DeleteIndex
    <2>1. /\ RunsKept /\ disk' = disk /\ meddled' = meddled /\ landed' = landed
          /\ put' = put /\ update_lock' = update_lock /\ index' = Gone
      BY <1>2 DEF DeleteIndex, RunsKept, clients, quiet
    <2>2. Updates'
      BY <2>1 DEF SavesInv, Updates, UnderWay, OnePutPerVersion
    <2>3. put' \in [Puts -> Job] /\ update_lock' \subseteq Puts
      BY <2>1 DEF SavesInv, SaveTypes
    <2> QED
      BY <2>1, <2>2, <2>3, OnlyClients
  <1> QED
    BY <1>1, <1>2

-----------------------------------------------------------------------------
(* The theorems                                                            *)

\* The invariant holds at the start.
LEMMA InitHolds == SavesInit => SavesInv
  <1> SUFFICES ASSUME SavesInit PROVE SavesInv
    OBVIOUS
  <1>1. NoRun \in Run /\ NoRun.at = "none" /\ NoRun.history = {} /\ ~ NoRun.ok
    BY DEF NoRun, Run, RunPlaces
  <1>2. NoJob \in Job /\ NoJob.at = "none" /\ Body(NoJob) = {}
    BY DEF NoJob, Job, JobStates, Body
  <1>3. /\ \A r \in Runs : run[r] = NoRun /\ save_gen[r] = 0 /\ save_lock[r] = {}
        /\ \A r \in Runs, g \in Jobs : job[r][g] = NoJob
        /\ \A p \in Puts : put[p] = NoJob
        /\ update_lock = {} /\ landed = {} /\ meddled = {} /\ died = {}
        /\ disk \in Sessions /\ disk.msgs = {}
    BY DEF SavesInit, Sessions
  <1>4. SaveTypes
    <2>1. run \in [Runs -> Run] /\ job \in [Runs -> [Jobs -> Job]] /\ put \in [Puts -> Job]
      BY <1>1, <1>2 DEF SavesInit
    <2>2. save_gen \in [Runs -> Nat] /\ save_lock \in [Runs -> SUBSET Jobs] /\ index = disk
      BY DEF SavesInit
    <2> QED
      BY <1>3, <2>1, <2>2 DEF SaveTypes
  <1>5. OneRun
    BY <1>1, <1>3 DEF OneRun
  <1>6. Generations
    <2> SUFFICES ASSUME NEW r \in Runs PROVE GenerationsOf(r)
      BY DEF Generations
    <2>1. job[r][0].at \in Own(r)
      BY <1>1, <1>2, <1>3, Kinds DEF Own
    <2>2. \A g \in Tasks : job[r][g].at = "none"
      BY <1>2, <1>3, Kinds
    <2> QED
      BY <1>1, <1>3, <2>1, <2>2, Kinds DEF GenerationsOf, Waits, Writing
  <1>7. Locks
    BY <1>1, <1>2, <1>3 DEF Locks, LockOf, Holders, Writing
  <1>8. Contents
    BY <1>1, <1>2, <1>3, Kinds DEF Contents, ContentsOf
  <1>9. Newer
    BY <1>1, <1>3 DEF Newer, Active
  <1>10. Finals
    BY <1>1, <1>3 DEF Finals, Standing
  <1>11. Updates
    BY <1>2, <1>3 DEF Updates, UnderWay, OnePutPerVersion
  <1> QED
    BY <1>4, <1>5, <1>6, <1>7, <1>8, <1>9, <1>10, <1>11 DEF SavesInv

\* A snapshot task, a run and every other step keep the invariant.
LEMMA TaskKeeps ==
  ASSUME SavesInv, NEW r \in Runs, NEW g \in Tasks, TaskStep(r, g)
  PROVE  SavesInv'
  <1>1. g \in Jobs
    BY Kinds
  <1> QED
    BY <1>1, QueuesKeeps, CopiesKeeps, GuardedKeeps, GetKeeps, PersistKeeps, IndexKeeps
    DEF TaskStep, Saving

LEMMA RunKeeps ==
  ASSUME SavesInv, NEW r \in Runs, RunStep(r)
  PROVE  SavesInv'
  <1>1. 0 \in Jobs
    BY Kinds
  <1> QED
    BY <1>1, SeedKeeps, StartedKeeps, StepKeeps, ChangeKeeps, FinalCopiesKeeps, GuardedKeeps,
       GetKeeps, PersistKeeps, IndexKeeps, SettleKeeps
    DEF RunStep, Saving

LEMMA NextKeeps ==
  ASSUME SavesInv, [SavesNext]_saveVars
  PROVE  SavesInv'
  <1>1. CASE UNCHANGED saveVars
    <2>1. RunsKept /\ disk' = disk /\ meddled' = meddled /\ landed' = landed
          /\ put' = put /\ update_lock' = update_lock /\ index' = index
      BY <1>1 DEF saveVars, RunsKept
    <2>2. Updates'
      BY <2>1 DEF SavesInv, Updates, UnderWay, OnePutPerVersion
    <2>3. /\ put' \in [Puts -> Job] /\ update_lock' \subseteq Puts /\ index' \in Sessions \cup {Gone}
      BY <2>1 DEF SavesInv, SaveTypes
    <2> QED
      BY <2>1, <2>2, <2>3, OnlyClients
  <1>2. CASE \E r \in Runs :
                \/ Claim(r) \/ RunStep(r) \/ Change(r) \/ ChangeWaits(r) \/ SaveSession(r)
                \/ Cancel(r) \/ Die(r)
                \/ \E g \in Tasks : TaskStep(r, g)
                \/ \E g \in Jobs : SaveFails(r, g)
    BY <1>2, ClaimKeeps, RunKeeps, ChangeKeeps, StepKeeps, SaveSessionKeeps, DieKeeps, TaskKeeps,
       FailsKeeps
  <1>3. CASE \E p \in Puts : PutBegins(p) \/ PutStep(p)
    BY <1>3, PutBeginsKeeps, PutLoadsKeeps, PutPersistsKeeps, PutAnswersKeeps DEF PutStep
  <1>4. CASE DeleteFile \/ DeleteIndex
    BY <1>4, DeleteKeeps
  <1> QED
    BY <1>1, <1>2, <1>3, <1>4 DEF SavesNext

\* The invariant holds throughout, for any number of runs, saves, changes and PUTs.
THEOREM SavesInductive == SavesSpec => []SavesInv
  <1>1. SavesInv /\ [SavesNext]_saveVars => SavesInv'
    BY NextKeeps
  <1> QED
    BY <1>1, InitHolds, PTL DEF SavesSpec

\* The invariant says that what was saved stands.
LEMMA StandFollows == SavesInv => SavesStand
  <1> SUFFICES ASSUME SavesInv PROVE SavesStand
    OBVIOUS
  <1>1. SavesTypeOK
    <2>1. /\ disk \in Sessions \cup {Gone} /\ index \in Sessions \cup {Gone}
          /\ update_lock = {p \in Puts : put[p].at \in {"locked", "got", "persisted"}}
      BY DEF SavesInv, SaveTypes, Updates, UnderWay
    <2>2. ASSUME NEW r \in Runs
          PROVE  /\ run[r].history \subseteq Changes /\ save_gen[r] \in 0..(MaxSaves + 1)
                 /\ Cardinality(save_lock[r]) <= 1
                 /\ \A g \in Jobs : job[r][g].at \in JobStates
                 /\ \A g \in Tasks :
                      job[r][g].at \in {"checked", "got", "persisted"} <=> save_lock[r] = {g}
      <3>1. run[r] \in Run /\ save_gen[r] \in Nat /\ GenerationsOf(r) /\ LockOf(r)
            /\ save_lock[r] \subseteq Jobs
        BY Kinds, JobIs
      <3>2. save_gen[r] \in 0..(MaxSaves + 1)
        <4>1. save_gen[r] <= MaxSaves + 1
          BY <3>1, Kinds DEF GenerationsOf
        <4> QED
          BY <3>1, <4>1, Kinds
      <3>3. Cardinality(save_lock[r]) <= 1
        <4>1. CASE save_lock[r] = {}
          BY <4>1, FS_EmptySet
        <4>2. CASE save_lock[r] # {}
          <5>1. PICK g \in save_lock[r] : TRUE
            BY <4>2
          <5>2. save_lock[r] = {g}
            BY <3>1, <5>1 DEF LockOf
          <5>3. Cardinality({g}) = 1
            BY FS_Singleton
          <5> QED
            BY <5>2, <5>3
        <4> QED
          BY <4>1, <4>2
      <3>4. \A g \in Jobs : job[r][g].at \in JobStates
        BY JobIs DEF Job
      <3>5. ASSUME NEW g \in Tasks
            PROVE  job[r][g].at \in {"checked", "got", "persisted"} <=> save_lock[r] = {g}
        <4>1. g \in Jobs /\ g # 0
          BY Kinds
        <4>2. g \in save_lock[r] <=> job[r][g].at \in Writing
          BY <3>1, <4>1 DEF LockOf, Holders
        <4>3. g \in save_lock[r] <=> save_lock[r] = {g}
          BY <3>1 DEF LockOf
        <4> QED
          BY <4>2, <4>3 DEF Writing
      <3> QED
        BY <3>1, <3>2, <3>3, <3>4, <3>5 DEF Run
    <2> QED
      BY <2>1, <2>2 DEF SavesTypeOK
  <1>2. FinalSaveStands
    BY DEF SavesInv, Finals, Standing, FinalSaveStands
  <1>3. OnePutPerVersion
    BY DEF SavesInv, Updates
  <1> QED
    BY <1>1, <1>2, <1>3 DEF SavesStand

\* What was saved stands (guarded_save, run_session_turn, update_session): the save lock
\* of a run has one holder, between its check and the end of its save; once a run has
\* settled with its history saved that history is on disk until a client, or a task of a
\* run that panicked, writes; of the PUTs that expect one version one is written.
THEOREM SavesStandTheorem == SavesSpec => []SavesStand
  BY SavesInductive, StandFollows, PTL

\* Only the write itself takes a save from got to persisted.
LEMMA NotPersisted ==
  ASSUME SavesInv, NEW q \in Runs, NEW h \in Jobs, NEW y, y.at # "persisted",
         job' = [job EXCEPT ![q][h] = y], NEW r \in Runs, NEW g \in Jobs, job[r][g].at = "got"
  PROVE  job'[r][g].at # "persisted"
  BY DEF SavesInv, SaveTypes

LEMMA OnlyPersists ==
  ASSUME SavesInv, SavesNext, NEW r \in Runs, NEW g \in Jobs,
         job[r][g].at = "got", job'[r][g].at = "persisted"
  PROVE  SavePersist(r, g)
  <1>1. job \in [Runs -> [Jobs -> Job]] /\ 0 \in Jobs /\ Tasks \subseteq Jobs
    BY Kinds DEF SavesInv, SaveTypes
  <1>2. \A outcome \in {"saved", "failed", "skipped"} : Over(outcome).at # "persisted"
    BY DEF Over, NoJob
  <1>3. ASSUME NEW q \in Runs, NEW h \in Jobs
        PROVE  /\ ~ TaskQueues(q, h) /\ ~ TaskCopies(q, h) /\ ~ GuardedSave(q, h)
               /\ ~ SaveGet(q, h) /\ ~ SaveIndex(q, h) /\ ~ SaveFails(q, h)
               /\ SavePersist(q, h) => q = r /\ h = g
    <2>1. ~ TaskQueues(q, h)
      <3> SUFFICES ASSUME TaskQueues(q, h) PROVE FALSE
        OBVIOUS
      <3> DEFINE y == [job[q][h] EXCEPT !.at = "queued"]
      <3>1. y.at # "persisted"
        BY <1>1 DEF Job
      <3>2. job' = [job EXCEPT ![q][h] = y]
        BY <1>1 DEF TaskQueues
      <3> HIDE DEF y
      <3> QED
        BY <1>1, <3>1, <3>2, NotPersisted
    <2>2. ~ TaskCopies(q, h)
      <3> SUFFICES ASSUME TaskCopies(q, h) PROVE FALSE
        OBVIOUS
      <3> DEFINE y == [job[q][h] EXCEPT !.at = "snapped", !.snap = run[q].history]
      <3>1. y.at # "persisted"
        BY <1>1 DEF Job
      <3>2. job' = [job EXCEPT ![q][h] = y]
        BY <1>1 DEF TaskCopies
      <3> HIDE DEF y
      <3> QED
        BY <1>1, <3>1, <3>2, NotPersisted
    <2>3. ~ GuardedSave(q, h)
      <3> SUFFICES ASSUME GuardedSave(q, h) PROVE FALSE
        OBVIOUS
      <3>1. CASE Superseded(q, h)
        BY <1>1, <1>2, <3>1 DEF GuardedSave
      <3>2. CASE ~ Superseded(q, h)
        <4>1. job' = [job EXCEPT ![q][h].at = "checked"]
          BY <3>2 DEF GuardedSave
        <4> QED
          BY <1>1, <4>1 DEF Job
      <3> QED
        BY <3>1, <3>2
    <2>4. ~ SaveGet(q, h)
      BY <1>1, <1>2 DEF SaveGet, Job
    <2>5. ~ SaveIndex(q, h)
      BY <1>1, <1>2 DEF SaveIndex
    <2>6. ~ SaveFails(q, h)
      BY <1>1, <1>2 DEF SaveFails
    <2>7. SavePersist(q, h) => q = r /\ h = g
      BY <1>1 DEF SavePersist
    <2> QED
      BY <2>1, <2>2, <2>3, <2>4, <2>5, <2>6, <2>7
  <1>4. ASSUME NEW q \in Runs
        PROVE  /\ ~ Claim(q) /\ ~ Titled(q) /\ ~ LoopEnds(q) /\ ~ Change(q) /\ ~ ChangeWaits(q)
               /\ ~ Cancel(q) /\ ~ Die(q) /\ ~ FinalQueues(q) /\ ~ Settle(q)
    BY DEF Claim, Titled, LoopEnds, Change, ChangeWaits, Cancel, Die, FinalQueues, Settle
  <1>5. ASSUME NEW q \in Runs
        PROVE  ~ Seed(q) /\ ~ Started(q) /\ ~ FinalCopies(q) /\ ~ SaveSession(q)
    <2>1. ~ Seed(q)
      <3> SUFFICES ASSUME Seed(q) PROVE FALSE
        OBVIOUS
      <3> DEFINE y == [NoJob EXCEPT !.at = "checked", !.snap = disk.msgs \cup {<<q, 0>>}]
      <3>1. y.at # "persisted"
        BY DEF NoJob
      <3>2. job' = job \/ job' = [job EXCEPT ![q][0] = y]
        BY DEF Seed
      <3> HIDE DEF y
      <3> QED
        BY <1>1, <3>1, <3>2, NotPersisted
    <2>2. ~ Started(q)
      <3> SUFFICES ASSUME Started(q) PROVE FALSE
        OBVIOUS
      <3> DEFINE y == [job[q][0] EXCEPT !.at = "got", !.next = disk]
      <3>1. y.at # "persisted"
        BY <1>1 DEF Job
      <3>2. job' = job \/ job' = [job EXCEPT ![q][0] = y]
        BY <1>1 DEF Started
      <3> HIDE DEF y
      <3> QED
        BY <1>1, <3>1, <3>2, NotPersisted
    <2>3. ~ FinalCopies(q)
      <3> SUFFICES ASSUME FinalCopies(q) PROVE FALSE
        OBVIOUS
      <3> DEFINE y == [NoJob EXCEPT !.at = "snapped", !.gen = claim_save_generation(q),
                                    !.snap = run[q].history]
      <3>1. y.at # "persisted"
        BY DEF NoJob
      <3>2. job' = [job EXCEPT ![q][0] = y]
        BY DEF FinalCopies
      <3> HIDE DEF y
      <3> QED
        BY <1>1, <3>1, <3>2, NotPersisted
    <2>4. ~ SaveSession(q)
      <3> SUFFICES ASSUME SaveSession(q) PROVE FALSE
        OBVIOUS
      <3> DEFINE n == save_gen[q] + 1
                 y == [NoJob EXCEPT !.at = "spawned", !.gen = claim_save_generation(q)]
      <3>1. y.at # "persisted"
        BY DEF NoJob
      <3>2. job' = [job EXCEPT ![q][n] = y]
        BY DEF SaveSession
      <3>3. n \in Jobs
        BY SavesAssumption DEF SaveSession, Jobs, SavesInv, SaveTypes
      <3> HIDE DEF y, n
      <3> QED
        BY <1>1, <3>1, <3>2, <3>3, NotPersisted
    <2> QED
      BY <2>1, <2>2, <2>3, <2>4
  <1>6. ASSUME NEW p \in Puts
        PROVE  ~ PutBegins(p) /\ ~ PutStep(p)
    BY DEF PutBegins, PutStep, PutLoads, PutPersists, PutAnswers
  <1>7. ~ DeleteFile /\ ~ DeleteIndex
    BY DEF DeleteFile, DeleteIndex
  <1> QED
    BY <1>1, <1>3, <1>4, <1>5, <1>6, <1>7 DEF SavesNext, RunStep, TaskStep, Saving

\* No save takes back what its own run, or a later one, has on disk (guarded_save): the
\* write leaves out no change of that run or after it. Tasks of a run that panicked are
\* excepted, since no final save claims a generation over theirs.
THEOREM NoStaleOverwriteTheorem == SavesSpec => NoStaleOverwrite
  <1> DEFINE Kept == \A r \in Runs \ died, g \in Jobs :
          (job[r][g].at = "got" /\ job'[r][g].at = "persisted" /\ disk # Gone) =>
              {c \in disk.msgs : c[1] >= r} \subseteq disk'.msgs
  <1>1. SavesInv /\ [SavesNext]_saveVars => [Kept]_saveVars
    <2> SUFFICES ASSUME SavesInv, SavesNext PROVE Kept
      BY DEF saveVars
    <2> SUFFICES ASSUME NEW r \in Runs \ died, NEW g \in Jobs, disk # Gone,
                        job[r][g].at = "got", job'[r][g].at = "persisted"
                 PROVE  {c \in disk.msgs : c[1] >= r} \subseteq disk'.msgs
      OBVIOUS
    <2>1. SavePersist(r, g)
      BY OnlyPersists
    <2>2. disk' = job[r][g].next /\ disk'.msgs = Body(job[r][g])
      BY <2>1 DEF SavePersist, Body
    <2>3. Active(r)
      BY BusyRun DEF Writing
    <2>4. NewerOf(r) /\ disk.msgs \subseteq UpTo(r)
      BY <2>3, JobIs, DiskUpTo
    <2>5. \A c \in disk.msgs : c[1] >= r => c[1] = r
      <3> SUFFICES ASSUME NEW c \in disk.msgs, c[1] >= r PROVE c[1] = r
        OBVIOUS
      <3>1. c \in UpTo(r)
        BY <2>4
      <3>2. c[1] <= r /\ c[1] \in Nat /\ r \in Nat
        BY <3>1, Kinds DEF UpTo, All
      <3> QED
        BY <3>2
    <2>6. Part(disk.msgs, r) \subseteq disk'.msgs
      BY <2>2, <2>4 DEF NewerOf
    <2> QED
      BY <2>5, <2>6 DEF Part
  <1> QED
    BY <1>1, SavesInductive, PTL DEF SavesSpec, NoStaleOverwrite

(***************************************************************************)
(* The consolidation lock.  For any number of processes the lock file of   *)
(* context/lock.rs keeps consolidations apart as long as no file is taken  *)
(* from under its owner.  Mutual exclusion is not inductive: a holder is   *)
(* safe because the file is its own, so the invariant follows the file.    *)
(***************************************************************************)

\* The lock alone: MCSessionStores checks it as one of its parts.
LockSpec == LockInit /\ [][LockNext]_lockVars

\* Where a process can be, and the type of every variable of the lock.
Places == {"idle", "created", "held", "judged", "crashed"}

LockTypeOK ==
    /\ lockFile \in [owner : Processes \cup {Nobody}, signed : BOOLEAN, old : BOOLEAN]
    /\ seen \subseteq Processes
    /\ lockAt \in [Processes -> Places]
    /\ stolen \in BOOLEAN

\* The file a process is writing, or holds, is the file there is, and is its own.
OwnersHaveTheFile ==
    \A p \in Processes : lockAt[p] \in {"created", "held"} => lockFile.owner = p /\ p \in seen

\* A holder has written its pid.
HoldersSigned ==
    \A p \in Processes : lockAt[p] = "held" => lockFile.signed

\* Who is about to remove the file there is has found that nobody works under it.
JudgedIsAbandoned ==
    \A p \in seen : lockAt[p] = "judged" =>
        \A q \in Processes : lockAt[q] \notin {"created", "held"}

LockInv ==
    /\ LockTypeOK
    /\ ~ stolen => OwnersHaveTheFile /\ HoldersSigned /\ JudgedIsAbandoned

\* The invariant holds when no process has started (LockInit).
LEMMA LockInitInv == LockInit => LockInv
<1> SUFFICES ASSUME LockInit PROVE LockInv
    OBVIOUS
<1>1. LockTypeOK
    BY DEF LockInit, LockTypeOK, NoFile, Places
<1>2. OwnersHaveTheFile /\ HoldersSigned /\ JudgedIsAbandoned
    BY DEF LockInit, OwnersHaveTheFile, HoldersSigned, JudgedIsAbandoned
<1> QED BY <1>1, <1>2 DEF LockInv

\* Every step of acquire, of the guard's Drop, of a crash and of time keeps it.
LEMMA LockNextInv == LockInv /\ [LockNext]_lockVars => LockInv'
<1> SUFFICES ASSUME LockInv, [LockNext]_lockVars PROVE LockInv'
    OBVIOUS
<1> USE ConsolidationLockAssumption
<1>1. ASSUME NEW p \in Processes, Create(p) PROVE LockInv'
    BY <1>1 DEF Create, LockInv, LockTypeOK, OwnersHaveTheFile, HoldersSigned,
                JudgedIsAbandoned, Moves, NoFile, Places
<1>2. ASSUME NEW p \in Processes, Sign(p) PROVE LockInv'
    BY <1>2 DEF Sign, LockInv, LockTypeOK, OwnersHaveTheFile, HoldersSigned,
                JudgedIsAbandoned, Moves, Places
<1>3. ASSUME NEW p \in Processes, SignFails(p) PROVE LockInv'
    BY <1>3 DEF SignFails, LockInv, LockTypeOK, OwnersHaveTheFile, HoldersSigned,
                JudgedIsAbandoned, Moves, Places
<1>4. ASSUME NEW p \in Processes, Judge(p) PROVE LockInv'
    BY <1>4 DEF Judge, is_stale, pid_alive, BeingWritten, LockInv, LockTypeOK,
                OwnersHaveTheFile, HoldersSigned, JudgedIsAbandoned, Moves, Places
<1>5. ASSUME NEW p \in Processes, Reclaim(p) PROVE LockInv'
  <2>1. LockTypeOK'
    BY <1>5 DEF Reclaim, RemoveLockFile, NoFile, LockInv, LockTypeOK, Moves, Places
  <2>2. ASSUME ~ stolen' PROVE ~ stolen /\ (lockFile = NoFile \/ p \in seen)
    BY <1>5, <2>2 DEF Reclaim
  <2>3. ASSUME ~ stolen', NEW q \in Processes PROVE lockAt'[q] \notin {"created", "held"}
    BY <1>5, <2>2, <2>3 DEF Reclaim, LockInv, LockTypeOK, OwnersHaveTheFile,
                            JudgedIsAbandoned, Moves, NoFile
  <2>4. seen' = {}
    BY <1>5 DEF Reclaim, RemoveLockFile
  <2> QED BY <2>1, <2>3, <2>4 DEF LockInv, OwnersHaveTheFile, HoldersSigned, JudgedIsAbandoned
<1>6. ASSUME NEW p \in Processes, Release(p) PROVE LockInv'
    BY <1>6 DEF Release, RemoveLockFile, NoFile, LockInv, LockTypeOK,
                OwnersHaveTheFile, HoldersSigned, JudgedIsAbandoned, Moves, Places
<1>7. ASSUME NEW p \in Processes, Crash(p) PROVE LockInv'
    BY <1>7 DEF Crash, LockInv, LockTypeOK, OwnersHaveTheFile, HoldersSigned,
                JudgedIsAbandoned, Places
<1>8. CASE Age
    BY <1>8 DEF Age, LockInv, LockTypeOK, OwnersHaveTheFile, HoldersSigned, JudgedIsAbandoned
<1>9. CASE UNCHANGED lockVars
    BY <1>9 DEF lockVars, LockInv, LockTypeOK, OwnersHaveTheFile, HoldersSigned,
                JudgedIsAbandoned
<1> QED BY <1>1, <1>2, <1>3, <1>4, <1>5, <1>6, <1>7, <1>8, <1>9 DEF LockNext

\* Two processes consolidate one memory directory at a time only after a file was
\* removed unjudged or judged unwritten (ConsolidationFileLock::acquire and Drop).
THEOREM OneConsolidatorTheorem == LockSpec => []OneConsolidator
<1>1. LockInv => OneConsolidator
    BY DEF LockInv, OwnersHaveTheFile, OneConsolidator
<1> QED BY <1>1, LockInitInv, LockNextInv, PTL DEF LockSpec

-----------------------------------------------------------------------------
(***************************************************************************)
(* The task list.  Some open task is ready, for any number of tasks, calls *)
(* and faults, because no set of tasks waits only for itself (NoCycle):    *)
(* would_create_cycle walks everything the new blockers wait for before    *)
(* set_dependencies, under one lock, replaces them.  Creating validates    *)
(* and inserts under different locks, which is safe because nobody can     *)
(* wait for a task that is not in the list yet (Fresh); and since no one   *)
(* else saves it, its file is what will be inserted, should the daemon     *)
(* restart between the two (Saved).                                        *)
(***************************************************************************)

\* The list alone: MCSessionStores checks it as one of its parts.
TaskListSpec == TaskListInit /\ [][TaskListNext]_taskVars

TaskCallTypes ==
  \A c \in TaskCalls :
    /\ taskCall[c] = [at |-> taskCall[c].at, id |-> taskCall[c].id, value |-> taskCall[c].value]
    /\ taskCall[c].at \in {"idle", "create", "insert", "update", "save"}
    /\ taskCall[c].at # "idle" => taskCall[c].id \in minted /\ taskCall[c].value \in Task

TaskTypes ==
  /\ TaskListTypeOK
  /\ taskCall = [c \in TaskCalls |-> taskCall[c]] /\ TaskCallTypes
  /\ \A t \in TaskIds \ minted : tasks[t] = Absent /\ taskFiles[t] = Absent

\* No task of S is free of the others: every set of tasks has one that is.
WaitsIn(list, t, S) == list[t].blocked_by \cap S # {}
NoCycle(list) == \A S \in SUBSET TaskIds : S # {} => \E t \in S : ~ WaitsIn(list, t, S)

\* Nobody waits for a task that is about to be created, itself included.
Creating == {c \in TaskCalls : taskCall[c].at \in {"create", "insert"}}
Unused(t) == /\ \A u \in TaskIds : t \notin tasks[u].blocked_by
             /\ \A d \in Creating : t \notin taskCall[d].value.blocked_by
FreshOf(c) == /\ tasks[taskCall[c].id] = Absent
              /\ Unused(taskCall[c].id)
              /\ \A d \in TaskCalls : d # c /\ taskCall[d].at # "idle" => taskCall[d].id # taskCall[c].id
              /\ taskCall[c].at = "insert" => taskFiles[taskCall[c].id] = taskCall[c].value
Fresh == \A c \in Creating : FreshOf(c)

\* Nobody waits for a task there has not been.
Blockers == /\ \A u \in TaskIds : tasks[u].blocked_by \subseteq minted
            /\ \A c \in Creating : taskCall[c].value.blocked_by \subseteq minted

TaskInv == TaskTypes /\ (~ drifted => Blockers /\ Fresh /\ NoCycle(tasks))

\* Tasks there are, and that there is no task Absent.
LEMMA TasksAre ==
  ASSUME TaskTypes
  PROVE  /\ Absent \notin Task /\ Absent.blocked_by = {}
         /\ \A t \in TaskIds : tasks[t] # Absent => tasks[t] \in Task /\ t \in minted
         /\ \A t \in TaskIds : tasks[t] = Absent => t \notin Known(tasks)
         /\ \A t \in Known(tasks) : t \in TaskIds /\ tasks[t] \in Task /\ tasks[t] # Absent
         /\ \A t \in TaskIds : tasks[t].blocked_by \subseteq TaskIds
  BY DEF TaskTypes, TaskListTypeOK, Absent, Task, Statuses, Open, Known

\* A list that waits for no more than one without a cycle has none.
LEMMA FewerWaits ==
  ASSUME NoCycle(tasks), NEW list, \A u \in TaskIds : list[u].blocked_by \subseteq tasks[u].blocked_by
  PROVE  NoCycle(list)
  BY DEF NoCycle, WaitsIn

\* Nor has a list with new tasks that nobody waits for.
LEMMA NewTasks ==
  ASSUME NoCycle(tasks), NEW list, NEW N \in SUBSET TaskIds,
         \A u \in TaskIds \ N : list[u].blocked_by = tasks[u].blocked_by,
         \A u \in TaskIds : list[u].blocked_by \cap N = {}
  PROVE  NoCycle(list)
  <1> SUFFICES ASSUME NEW S \in SUBSET TaskIds, \A t \in S : WaitsIn(list, t, S), S # {}
               PROVE  FALSE
    BY DEF NoCycle
  <1>1. \A t \in S : WaitsIn(list, t, S \ N)
    BY DEF WaitsIn
  <1>2. S \ N # {}
    <2>1. PICK t : t \in S
      OBVIOUS
    <2>2. list[t].blocked_by \cap (S \ N) # {}
      BY <1>1, <2>1 DEF WaitsIn
    <2> QED BY <2>2
  <1>3. \A t \in S \ N : WaitsIn(tasks, t, S \ N)
    BY <1>1 DEF WaitsIn
  <1>4. S \ N \in SUBSET TaskIds
    OBVIOUS
  <1> QED BY <1>2, <1>3, <1>4 DEF NoCycle

\* would_create_cycle lets only blockers through that do not wait for the task,
\* directly or not: a cycle through the task would go through what they wait for.
LEMMA NoCycleMade ==
  ASSUME TaskTypes, NoCycle(tasks), NEW t \in TaskIds, NEW B \in SUBSET TaskIds, NEW list,
         ~ would_create_cycle(t, B), list[t].blocked_by = B,
         \A u \in TaskIds \ {t} : list[u].blocked_by = tasks[u].blocked_by
  PROVE  NoCycle(list)
  <1> SUFFICES ASSUME NEW S \in SUBSET TaskIds, \A u \in S : WaitsIn(list, u, S), S # {}
               PROVE  FALSE
    BY DEF NoCycle
  <1>1. PICK W \in SUBSET TaskIds : B \subseteq W /\ WalkEnds(W) /\ t \notin W
    BY DEF would_create_cycle, Walked
  <1>2. ASSUME NEW u \in S \cap W
        PROVE  WaitsIn(tasks, u, S \cap W)
    <2>1. list[u].blocked_by \cap S # {} /\ list[u].blocked_by = tasks[u].blocked_by
      BY <1>1 DEF WaitsIn
    <2>2. tasks[u].blocked_by \subseteq W
      BY <1>1 DEF WalkEnds
    <2> QED BY <2>1, <2>2 DEF WaitsIn
  <1>3. S \cap W = {}
    BY <1>2 DEF NoCycle
  <1>4. t \notin S
    BY <1>1, <1>3 DEF WaitsIn
  <1>5. \A u \in S : WaitsIn(tasks, u, S)
    BY <1>4 DEF WaitsIn
  <1> QED BY <1>5 DEF NoCycle

\* A call that goes on, returns, or stays.
LEMMA CallsAre ==
  ASSUME TaskTypes, NEW c \in TaskCalls
  PROVE  /\ \A a, t, v : Holds(c, a, t, v) =>
              /\ taskCall' = [d \in TaskCalls |-> taskCall'[d]]
              /\ taskCall'[c] = [at |-> a, id |-> t, value |-> v]
              /\ \A d \in TaskCalls \ {c} : taskCall'[d] = taskCall[d]
         /\ Returns(c) =>
              /\ taskCall' = [d \in TaskCalls |-> taskCall'[d]]
              /\ taskCall'[c] = NoTaskCall
              /\ \A d \in TaskCalls \ {c} : taskCall'[d] = taskCall[d]
  <1>1. taskCall = [d \in TaskCalls |-> taskCall[d]]
    BY DEF TaskTypes
  <1> QED BY <1>1 DEF Holds, Returns

\* The counters of a step.
LEMMA CountsAre ==
  ASSUME TaskTypes, Operation \/ UNCHANGED taskOps, TaskFault \/ UNCHANGED taskFaults
  PROVE  taskOps' \in 0..MaxTaskOps /\ taskFaults' \in 0..MaxTaskFaults
  BY TaskListAssumption DEF TaskTypes, TaskListTypeOK, Operation, TaskFault

LEMMA CreateTaskKeeps ==
  ASSUME TaskInv, NEW c \in TaskCalls, NEW B \in SUBSET TaskIds, CreateTask(c, B)
  PROVE  TaskInv'
  <1> DEFINE v == [status |-> "pending", blocked_by |-> B]
  <1>1. PICK t \in TaskIds \ minted :
          /\ validate_dependency_assignment(t, B) /\ Holds(c, "create", t, v)
          /\ minted' = minted \cup {t} /\ taskCall[c].at = "idle"
          /\ Operation /\ UNCHANGED <<tasks, taskFiles, taskFaults, drifted>>
    <2>1. \E fresh \in TaskIds \ minted : TRUE
      BY DEF CreateTask, TaskInv, TaskTypes, TaskListTypeOK
    <2> QED BY <2>1 DEF CreateTask
  <1>2. TaskTypes /\ TaskListTypeOK /\ TaskCallTypes /\ v \in Task
    BY DEF TaskInv, TaskTypes, Task, Statuses, Open
  <1>3. /\ taskCall' = [d \in TaskCalls |-> taskCall'[d]]
        /\ taskCall'[c] = [at |-> "create", id |-> t, value |-> v]
        /\ \A d \in TaskCalls \ {c} : taskCall'[d] = taskCall[d]
    BY <1>1, <1>2, CallsAre
  <1> HIDE DEF v
  <1>6. taskCall'[c].at = "create" /\ taskCall'[c].id = t /\ taskCall'[c].value = v
    BY <1>3
  <1>4. TaskTypes'
    <2>1. TaskListTypeOK'
      BY <1>1, <1>2, CountsAre DEF TaskListTypeOK
    <2>2. TaskCallTypes'
      <3>1. ASSUME NEW d \in TaskCalls \ {c}, taskCall'[d].at # "idle"
            PROVE  taskCall'[d].id \in minted' /\ taskCall'[d].value \in Task
        BY <1>1, <1>2, <1>3, <3>1 DEF TaskCallTypes
      <3>2. \A d \in TaskCalls \ {c} :
              /\ taskCall'[d] = [at |-> taskCall'[d].at, id |-> taskCall'[d].id, value |-> taskCall'[d].value]
              /\ taskCall'[d].at \in {"idle", "create", "insert", "update", "save"}
        BY <1>2, <1>3 DEF TaskCallTypes
      <3>3. taskCall'[c].id \in minted'
        BY <1>1, <1>6
      <3> QED BY <1>2, <1>3, <1>6, <3>1, <3>2, <3>3 DEF TaskCallTypes
    <2> QED BY <1>1, <1>2, <1>3, <2>1, <2>2 DEF TaskTypes
  <1>5. ASSUME ~ drifted
        PROVE  Blockers' /\ Fresh' /\ NoCycle(tasks)'
    <2>1. Blockers /\ Fresh /\ NoCycle(tasks)
      BY <1>5 DEF TaskInv
    <2>2. v.blocked_by = B /\ B \subseteq minted /\ \A b \in B : tasks[b] # Absent
      BY <1>1, <1>2, TasksAre DEF v, validate_dependency_assignment, validate_blockers_exist
    <2>3. Creating' \subseteq Creating \cup {c}
      BY <1>3 DEF Creating
    <2>8. \A d \in Creating' : d # c => d \in Creating /\ taskCall'[d] = taskCall[d]
      BY <1>3, <2>3 DEF Creating
    <2>4. Blockers'
      <3>1. \A d \in Creating' : taskCall'[d].value.blocked_by \subseteq minted
        BY <1>6, <2>1, <2>2, <2>8 DEF Blockers
      <3> QED BY <1>1, <2>1, <3>1 DEF Blockers
    <2>5. FreshOf(c)'
      <3>1. Unused(t)'
        <4>1. \A d \in Creating' : t \notin taskCall'[d].value.blocked_by
          BY <1>6, <2>1, <2>2, <2>8 DEF Blockers
        <4>2. \A u \in TaskIds : t \notin tasks'[u].blocked_by
          BY <1>1, <2>1 DEF Blockers
        <4> QED BY <4>1, <4>2 DEF Unused
      <3>2. \A d \in TaskCalls : d # c /\ taskCall'[d].at # "idle" => taskCall'[d].id # t
        BY <1>1, <1>2, <1>3 DEF TaskCallTypes
      <3> QED BY <1>1, <1>2, <1>3, <3>1, <3>2 DEF FreshOf, TaskTypes
    <2>6. ASSUME NEW d \in Creating, d # c
          PROVE  FreshOf(d)'
      <3>1. FreshOf(d) /\ d \in TaskCalls /\ taskCall'[d] = taskCall[d] /\ taskCall[d].id \in minted
        BY <1>2, <1>3, <2>1, <2>6 DEF Fresh, Creating, TaskCallTypes
      <3>2. Unused(taskCall[d].id)'
        <4>1. taskCall[d].id \notin B
          BY <2>2, <3>1 DEF FreshOf
        <4>2. \A e \in Creating' : taskCall[d].id \notin taskCall'[e].value.blocked_by
          BY <1>6, <2>2, <2>8, <3>1, <4>1 DEF FreshOf, Unused
        <4> QED BY <1>1, <3>1, <4>2 DEF FreshOf, Unused
      <3> QED BY <1>1, <1>3, <3>1, <3>2 DEF FreshOf
    <2>7. Fresh'
      BY <2>3, <2>5, <2>6 DEF Fresh
    <2> QED BY <1>1, <2>1, <2>4, <2>7
  <1> QED BY <1>1, <1>4, <1>5 DEF TaskInv

\* A step that creates nothing: what has to be shown of it.
TypesStay ==
  /\ taskOps' \in 0..MaxTaskOps /\ taskFaults' \in 0..MaxTaskFaults /\ UNCHANGED <<minted, drifted>>
  /\ tasks' \in [TaskIds -> Task \cup {Absent}] /\ taskFiles' \in [TaskIds -> Task \cup {Absent}]
  /\ taskCall' = [c \in TaskCalls |-> taskCall'[c]] /\ TaskCallTypes'
  /\ \A t \in TaskIds \ minted : tasks'[t] = Absent /\ taskFiles'[t] = Absent

\* A call that goes on creating does so with its task, and there is none of it yet.
CreationGoesOn(c) ==
  /\ c \in Creating /\ taskCall'[c].id = taskCall[c].id /\ taskCall'[c].value = taskCall[c].value
  /\ tasks'[taskCall[c].id] = Absent
  /\ taskCall'[c].at = "insert" => taskFiles'[taskCall[c].id] = taskCall[c].value

\* A call is for the task it was for, or for one there is; new blockers are tasks there
\* are, or those of a task that is being inserted.
CallsStay ==
  /\ \A c \in Creating' : CreationGoesOn(c)
  /\ \A c \in TaskCalls : taskCall'[c].at # "idle" =>
       \/ taskCall[c].at # "idle" /\ taskCall'[c].id = taskCall[c].id
       \/ taskCall'[c].id \in TaskIds /\ tasks[taskCall'[c].id] # Absent
  /\ \A u \in TaskIds : \A b \in tasks'[u].blocked_by :
       \/ b \in tasks[u].blocked_by
       \/ b \in TaskIds /\ tasks[b] # Absent
       \/ \E c \in Creating : b \in taskCall[c].value.blocked_by
  /\ NoCycle(tasks')

LEMMA StayKeeps ==
  ASSUME TaskInv, TypesStay, ~ drifted => CallsStay
  PROVE  TaskInv'
  <1>1. TaskTypes /\ TaskCallTypes /\ TaskListTypeOK
    BY DEF TaskInv, TaskTypes
  <1>2. TaskTypes'
    <2>1. TaskListTypeOK'
      BY <1>1 DEF TypesStay, TaskListTypeOK
    <2> QED BY <2>1 DEF TypesStay, TaskTypes
  <1>3. ASSUME ~ drifted
        PROVE  Blockers' /\ Fresh' /\ NoCycle(tasks)'
    <2>1. Blockers /\ Fresh /\ CallsStay
      BY <1>3 DEF TaskInv
    <2>2. minted' = minted /\ \A t \in TaskIds : tasks[t] # Absent => t \in minted
      BY <1>1, TasksAre DEF TypesStay
    <2>3. Blockers'
      <3>1. \A u \in TaskIds : tasks'[u].blocked_by \subseteq minted
        BY <2>1, <2>2 DEF Blockers, CallsStay
      <3>2. \A c \in Creating' : taskCall'[c].value.blocked_by \subseteq minted
        BY <2>1 DEF Blockers, CallsStay, CreationGoesOn
      <3> QED BY <2>2, <3>1, <3>2 DEF Blockers
    <2>4. ASSUME NEW c \in Creating'
          PROVE  FreshOf(c)'
      <3> DEFINE t == taskCall[c].id
      <3>1. CreationGoesOn(c) /\ FreshOf(c) /\ tasks[t] = Absent /\ Unused(t)
        BY <2>1, <2>4 DEF CallsStay, CreationGoesOn, Fresh, FreshOf
      <3>2. taskCall'[c].id = t /\ tasks'[t] = Absent
        BY <3>1 DEF CreationGoesOn
      <3> HIDE DEF t
      <3>3. \A u \in TaskIds : t \notin tasks'[u].blocked_by
        BY <2>1, <3>1 DEF CallsStay, Unused
      <3>4. \A d \in Creating' : t \notin taskCall'[d].value.blocked_by
        BY <2>1, <3>1 DEF CallsStay, CreationGoesOn, Unused
      <3>5. Unused(taskCall[c].id)'
        BY <3>2, <3>3, <3>4 DEF Unused
      <3>6. ASSUME NEW d \in TaskCalls, d # c, taskCall'[d].at # "idle"
            PROVE  taskCall'[d].id # taskCall'[c].id
        <4>1. CASE taskCall[d].at # "idle" /\ taskCall'[d].id = taskCall[d].id
          BY <3>1, <3>2, <3>6, <4>1 DEF FreshOf, t
        <4>2. CASE tasks[taskCall'[d].id] # Absent
          BY <3>1, <3>2, <4>2
        <4> QED BY <2>1, <3>6, <4>1, <4>2 DEF CallsStay
      <3>7. taskCall'[c].at = "insert" => taskFiles'[taskCall'[c].id] = taskCall'[c].value
        BY <3>1 DEF CreationGoesOn
      <3> QED BY <3>2, <3>5, <3>6, <3>7 DEF FreshOf
    <2> QED BY <2>1, <2>3, <2>4 DEF Fresh, CallsStay
  <1> QED BY <1>2, <1>3 DEF TaskInv, TypesStay

\* Calls that are as they were go on.
LEMMA SameCreations ==
  ASSUME TaskInv, ~ drifted, NEW c \in Creating, taskCall'[c] = taskCall[c],
         tasks'[taskCall[c].id] = tasks[taskCall[c].id],
         taskFiles'[taskCall[c].id] = taskFiles[taskCall[c].id]
  PROVE  CreationGoesOn(c)
  BY DEF TaskInv, Fresh, FreshOf, CreationGoesOn, Creating

\* No call creates a task there is, and no two create one.
LEMMA CreatedApart ==
  ASSUME TaskInv, ~ drifted, NEW c \in Creating
  PROVE  /\ taskCall[c].id \in minted /\ taskCall[c].id \in TaskIds /\ tasks[taskCall[c].id] = Absent
         /\ \A d \in TaskCalls \ {c} : taskCall[d].at # "idle" => taskCall[d].id # taskCall[c].id
  BY DEF TaskInv, Fresh, FreshOf, Creating, TaskTypes, TaskCallTypes, TaskListTypeOK

\* The types after one call moved.
LEMMA OneCallTypes ==
  ASSUME TaskTypes, NEW c \in TaskCalls, minted' = minted,
         taskCall' = [d \in TaskCalls |-> taskCall'[d]], \A d \in TaskCalls \ {c} : taskCall'[d] = taskCall[d],
         \/ taskCall'[c] = NoTaskCall
         \/ \E a \in {"insert", "update", "save"}, t \in minted, v \in Task :
               taskCall'[c] = [at |-> a, id |-> t, value |-> v]
  PROVE  TaskCallTypes'
  <1>1. TaskCallTypes
    BY DEF TaskTypes
  <1>2. ASSUME NEW d \in TaskCalls, d # c
        PROVE  /\ taskCall'[d] = [at |-> taskCall'[d].at, id |-> taskCall'[d].id, value |-> taskCall'[d].value]
               /\ taskCall'[d].at \in {"idle", "create", "insert", "update", "save"}
               /\ taskCall'[d].at # "idle" => taskCall'[d].id \in minted' /\ taskCall'[d].value \in Task
    BY <1>1, <1>2 DEF TaskCallTypes
  <1>3. /\ taskCall'[c] = [at |-> taskCall'[c].at, id |-> taskCall'[c].id, value |-> taskCall'[c].value]
        /\ taskCall'[c].at \in {"idle", "create", "insert", "update", "save"}
        /\ taskCall'[c].at # "idle" => taskCall'[c].id \in minted' /\ taskCall'[c].value \in Task
    <2>1. CASE taskCall'[c] = NoTaskCall
      BY <2>1 DEF NoTaskCall
    <2>2. ASSUME NEW a \in {"insert", "update", "save"}, NEW t \in minted, NEW v \in Task,
                 taskCall'[c] = [at |-> a, id |-> t, value |-> v]
          PROVE  /\ taskCall'[c] = [at |-> taskCall'[c].at, id |-> taskCall'[c].id, value |-> taskCall'[c].value]
                 /\ taskCall'[c].at \in {"idle", "create", "insert", "update", "save"}
                 /\ taskCall'[c].id \in minted' /\ taskCall'[c].value \in Task
      BY <2>2
    <2> QED BY <2>1, <2>2
  <1> QED BY <1>2, <1>3 DEF TaskCallTypes

\* A file that is saved, or not.
LEMMA FilesAre ==
  ASSUME TaskTypes, NEW t \in minted, NEW v \in Task \cup {Absent}, SaveTask(t, v)
  PROVE  /\ taskFiles' \in [TaskIds -> Task \cup {Absent}]
         /\ \A u \in TaskIds \ minted : taskFiles'[u] = Absent
         /\ \A u \in TaskIds \ {t} : taskFiles'[u] = taskFiles[u]
  <1>1. t \in TaskIds /\ taskFiles \in [TaskIds -> Task \cup {Absent}] /\ \A u \in TaskIds \ minted : taskFiles[u] = Absent
    BY DEF TaskTypes, TaskListTypeOK
  <1> QED BY <1>1 DEF SaveTask

\* A list with another v for task t.
LEMMA ListIs ==
  ASSUME TaskTypes, NEW t \in minted, NEW v \in Task \cup {Absent}, tasks' = [tasks EXCEPT ![t] = v]
  PROVE  /\ tasks' \in [TaskIds -> Task \cup {Absent}] /\ tasks'[t] = v /\ t \in TaskIds
         /\ \A u \in TaskIds \ minted : tasks'[u] = Absent
         /\ \A u \in TaskIds \ {t} : tasks'[u] = tasks[u]
  <1>1. t \in TaskIds /\ tasks \in [TaskIds -> Task \cup {Absent}] /\ \A u \in TaskIds \ minted : tasks[u] = Absent
    BY DEF TaskTypes, TaskListTypeOK
  <1> QED BY <1>1

LEMMA SaveCreatedKeeps ==
  ASSUME TaskInv, NEW c \in TaskCalls, SaveCreated(c)
  PROVE  TaskInv'
  <1>1. TaskTypes /\ TaskListTypeOK /\ TaskCallTypes
    BY DEF TaskInv, TaskTypes
  <1> DEFINE t == taskCall[c].id
             v == taskCall[c].value
  <1>2. /\ t \in minted /\ t \in TaskIds /\ v \in Task /\ taskCall[c].at = "create"
        /\ UNCHANGED <<tasks, minted, taskOps, drifted>>
    BY <1>1 DEF SaveCreated, TaskCallTypes, TaskListTypeOK
  <1>3. CASE taskFiles' = [taskFiles EXCEPT ![t] = v] /\ Holds(c, "insert", t, v) /\ UNCHANGED taskFaults
    <2>1. /\ taskFiles' \in [TaskIds -> Task \cup {Absent}] /\ taskFiles'[t] = v
          /\ \A u \in TaskIds \ {t} : taskFiles'[u] = taskFiles[u]
      BY <1>1, <1>2, <1>3 DEF TaskListTypeOK
    <2>2. /\ taskCall' = [d \in TaskCalls |-> taskCall'[d]]
          /\ taskCall'[c] = [at |-> "insert", id |-> t, value |-> v]
          /\ \A d \in TaskCalls \ {c} : taskCall'[d] = taskCall[d]
      BY <1>1, <1>3, CallsAre
    <2> HIDE DEF t, v
    <2>3. TaskCallTypes'
      BY <1>1, <1>2, <2>2, OneCallTypes
    <2>4. TypesStay
      BY <1>1, <1>2, <1>3, <2>1, <2>2, <2>3, CountsAre DEF TypesStay, TaskTypes, TaskListTypeOK
    <2>5. ASSUME ~ drifted
          PROVE  CallsStay
      <3>1. Creating' = Creating /\ c \in Creating
        BY <1>2, <2>2 DEF Creating
      <3>2. CreationGoesOn(c)
        BY <1>1, <1>2, <2>1, <2>2, <2>5, <3>1, CreatedApart DEF CreationGoesOn, t, v
      <3>3. ASSUME NEW d \in Creating, d # c
            PROVE  CreationGoesOn(d)
        <4>1. taskCall[d].id # t /\ taskCall[d].id \in TaskIds
          BY <1>2, <2>5, <3>3, CreatedApart DEF t
        <4> QED BY <1>2, <2>1, <2>2, <2>5, <3>3, <4>1, SameCreations DEF Creating
      <3>4. \A d \in TaskCalls : taskCall'[d].at # "idle" => taskCall[d].at # "idle" /\ taskCall'[d].id = taskCall[d].id
        BY <1>2, <2>2 DEF t
      <3> QED BY <1>2, <2>5, <3>1, <3>2, <3>3, <3>4 DEF CallsStay, TaskInv
    <2> QED BY <2>4, <2>5, StayKeeps
  <1>4. CASE Fails /\ Returns(c)
    <2>1. /\ taskCall' = [d \in TaskCalls |-> taskCall'[d]] /\ taskCall'[c] = NoTaskCall
          /\ \A d \in TaskCalls \ {c} : taskCall'[d] = taskCall[d]
      BY <1>1, <1>4, CallsAre
    <2> HIDE DEF t, v
    <2>2. TaskCallTypes'
      BY <1>1, <1>2, <2>1, OneCallTypes
    <2>3. TypesStay
      BY <1>1, <1>2, <1>4, <2>1, <2>2, CountsAre DEF TypesStay, TaskTypes, TaskListTypeOK, Fails
    <2>4. ASSUME ~ drifted
          PROVE  CallsStay
      <3>1. Creating' = Creating \ {c}
        BY <1>2, <2>1 DEF Creating, NoTaskCall
      <3>2. \A d \in Creating \ {c} : CreationGoesOn(d)
        BY <1>2, <1>4, <2>1, <2>4, SameCreations DEF Creating, Fails
      <3>3. \A d \in TaskCalls : taskCall'[d].at # "idle" => taskCall[d].at # "idle" /\ taskCall'[d].id = taskCall[d].id
        BY <2>1 DEF NoTaskCall
      <3> QED BY <1>2, <2>4, <3>1, <3>2, <3>3 DEF CallsStay, TaskInv
    <2> QED BY <2>3, <2>4, StayKeeps
  <1> QED BY <1>3, <1>4 DEF SaveCreated

LEMMA InsertCreatedKeeps ==
  ASSUME TaskInv, NEW c \in TaskCalls, InsertCreated(c)
  PROVE  TaskInv'
  <1>1. TaskTypes /\ TaskListTypeOK /\ TaskCallTypes
    BY DEF TaskInv, TaskTypes
  <1> DEFINE t == taskCall[c].id
             v == taskCall[c].value
  <1>2. /\ t \in minted /\ v \in Task /\ taskCall[c].at = "insert"
        /\ tasks' = [tasks EXCEPT ![t] = v] /\ Returns(c)
        /\ UNCHANGED <<taskFiles, minted, taskOps, taskFaults, drifted>>
    BY <1>1 DEF InsertCreated, TaskCallTypes
  <1>3. /\ taskCall' = [d \in TaskCalls |-> taskCall'[d]] /\ taskCall'[c] = NoTaskCall
        /\ \A d \in TaskCalls \ {c} : taskCall'[d] = taskCall[d]
    BY <1>1, <1>2, CallsAre
  <1>4. /\ tasks' \in [TaskIds -> Task \cup {Absent}] /\ tasks'[t] = v /\ t \in TaskIds
        /\ \A u \in TaskIds \ minted : tasks'[u] = Absent
        /\ \A u \in TaskIds \ {t} : tasks'[u] = tasks[u]
    BY <1>1, <1>2, ListIs
  <1> HIDE DEF t, v
  <1>5. TypesStay
    <2>1. TaskCallTypes'
      BY <1>1, <1>2, <1>3, OneCallTypes
    <2> QED BY <1>1, <1>2, <1>3, <1>4, <2>1, CountsAre DEF TypesStay, TaskTypes, TaskListTypeOK
  <1>6. ASSUME ~ drifted
        PROVE  CallsStay
    <2>1. Creating' = Creating \ {c} /\ c \in Creating
      BY <1>2, <1>3 DEF Creating, NoTaskCall
    <2>2. ASSUME NEW d \in Creating \ {c}
          PROVE  CreationGoesOn(d)
      <3>1. taskCall[d].id # t /\ taskCall[d].id \in TaskIds
        BY <1>2, <1>6, <2>1, CreatedApart DEF t
      <3> QED BY <1>2, <1>3, <1>4, <1>6, <3>1, SameCreations DEF Creating
    <2>3. \A d \in TaskCalls : taskCall'[d].at # "idle" => taskCall[d].at # "idle" /\ taskCall'[d].id = taskCall[d].id
      BY <1>3 DEF NoTaskCall
    <2>4. \A u \in TaskIds : \A b \in tasks'[u].blocked_by : b \in tasks[u].blocked_by \/ b \in v.blocked_by
      BY <1>4
    <2>5. NoCycle(tasks')
      <3>1. Unused(t) /\ NoCycle(tasks)
        BY <1>6, <2>1 DEF TaskInv, Fresh, FreshOf, t
      <3>2. \A u \in TaskIds : tasks'[u].blocked_by \cap {t} = {}
        BY <1>4, <2>1, <2>4, <3>1 DEF Unused, v
      <3>3. \A u \in TaskIds \ {t} : tasks'[u].blocked_by = tasks[u].blocked_by
        BY <1>4
      <3> QED BY <1>4, <3>1, <3>2, <3>3, NewTasks
    <2> QED BY <2>1, <2>2, <2>3, <2>4, <2>5 DEF CallsStay, v
  <1> QED BY <1>5, <1>6, StayKeeps

\* A call of a task there is begins, or ends; the list and the files are as they were.
LEMMA CallKeeps ==
  ASSUME TaskInv, NEW c \in TaskCalls, c \notin Creating, UNCHANGED <<tasks, taskFiles, minted, drifted>>,
         Operation \/ UNCHANGED taskOps, UNCHANGED taskFaults,
         NEW a \in {"update", "save"}, NEW t \in Known(tasks), NEW v \in Task, Holds(c, a, t, v)
  PROVE  TaskInv'
  <1>1. TaskTypes /\ TaskListTypeOK /\ TaskCallTypes
    BY DEF TaskInv, TaskTypes
  <1>2. /\ taskCall' = [d \in TaskCalls |-> taskCall'[d]]
        /\ taskCall'[c] = [at |-> a, id |-> t, value |-> v]
        /\ \A d \in TaskCalls \ {c} : taskCall'[d] = taskCall[d]
    BY <1>1, CallsAre
  <1>3. t \in minted /\ t \in TaskIds /\ tasks[t] # Absent
    BY <1>1, TasksAre
  <1>4. TypesStay
    <2>1. TaskCallTypes'
      BY <1>1, <1>2, <1>3, OneCallTypes
    <2> QED BY <1>1, <1>2, <2>1, CountsAre DEF TypesStay, TaskTypes, TaskListTypeOK
  <1>5. ASSUME ~ drifted
        PROVE  CallsStay
    <2>1. Creating' = Creating /\ \A d \in Creating : taskCall'[d] = taskCall[d]
      BY <1>2 DEF Creating
    <2>2. \A d \in Creating : CreationGoesOn(d)
      BY <1>5, <2>1, SameCreations
    <2>3. \A d \in TaskCalls : taskCall'[d].at # "idle" =>
            \/ taskCall[d].at # "idle" /\ taskCall'[d].id = taskCall[d].id
            \/ taskCall'[d].id \in TaskIds /\ tasks[taskCall'[d].id] # Absent
      BY <1>2, <1>3
    <2> QED BY <1>5, <2>1, <2>2, <2>3 DEF CallsStay, TaskInv
  <1> QED BY <1>4, <1>5, StayKeeps

LEMMA CheckUpdateKeeps ==
  ASSUME TaskInv, NEW c \in TaskCalls, NEW t \in TaskIds, NEW st \in Statuses, CheckUpdate(c, t, st)
  PROVE  TaskInv'
  <1> DEFINE v == [tasks[t] EXCEPT !.status = st]
  <1>1. t \in Known(tasks) /\ v \in Task
    BY TasksAre DEF CheckUpdate, TaskInv, Task
  <1> HIDE DEF v
  <1>2. Holds(c, "update", t, v) /\ c \notin Creating
    BY DEF CheckUpdate, Creating, v
  <1> QED BY <1>1, <1>2, CallKeeps DEF CheckUpdate

LEMMA UpdateFieldsKeeps ==
  ASSUME TaskInv, NEW c \in TaskCalls, NEW t \in TaskIds, UpdateFields(c, t)
  PROVE  TaskInv'
  <1>1. t \in Known(tasks) /\ tasks[t] \in Task
    BY TasksAre DEF UpdateFields, TaskInv
  <1>2. Holds(c, "save", t, tasks[t]) /\ c \notin Creating
    BY DEF UpdateFields, Creating
  <1> QED BY <1>1, <1>2, CallKeeps DEF UpdateFields

\* The list gets another v for a task there is, which is saved, or not.
ListMoves(t, v) ==
  /\ tasks' = [tasks EXCEPT ![t] = v]
  /\ \A u \in TaskIds \ {t} : taskFiles'[u] = taskFiles[u]
  /\ \A u \in TaskIds \ minted : taskFiles'[u] = Absent
  /\ taskFiles' \in [TaskIds -> Task \cup {Absent}]

LEMMA ListKeeps ==
  ASSUME TaskInv, NEW t \in Known(tasks), NEW v \in Task \cup {Absent}, ListMoves(t, v), UNCHANGED <<minted, drifted>>,
         taskOps' \in 0..MaxTaskOps, taskFaults' \in 0..MaxTaskFaults,
         taskCall' = [d \in TaskCalls |-> taskCall'[d]], TaskCallTypes',
         \A d \in TaskCalls : taskCall'[d] # taskCall[d] => d \notin Creating /\ d \notin Creating',
         \A d \in TaskCalls : taskCall'[d].at # "idle" => taskCall[d].at # "idle" /\ taskCall'[d].id = taskCall[d].id,
         \A b \in v.blocked_by : b \in tasks[t].blocked_by \/ (b \in TaskIds /\ tasks[b] # Absent),
         ~ drifted => NoCycle(tasks')
  PROVE  TaskInv'
  <1>1. TaskTypes /\ TaskListTypeOK /\ TaskCallTypes
    BY DEF TaskInv, TaskTypes
  <1>2. t \in minted /\ t \in TaskIds /\ tasks[t] # Absent
    BY <1>1, TasksAre
  <1>3. /\ tasks' \in [TaskIds -> Task \cup {Absent}] /\ tasks'[t] = v
        /\ \A u \in TaskIds \ minted : tasks'[u] = Absent
        /\ \A u \in TaskIds \ {t} : tasks'[u] = tasks[u]
    BY <1>1, <1>2, ListIs DEF ListMoves
  <1>4. TypesStay
    BY <1>3 DEF TypesStay, ListMoves
  <1>5. ASSUME ~ drifted
        PROVE  CallsStay
    <2>1. Creating' = Creating /\ \A d \in Creating : taskCall'[d] = taskCall[d]
      BY DEF Creating
    <2>2. ASSUME NEW d \in Creating
          PROVE  CreationGoesOn(d)
      <3>1. taskCall[d].id \in TaskIds /\ taskCall[d].id # t
        BY <1>2, <1>5, CreatedApart
      <3> QED BY <1>3, <1>5, <2>1, <3>1, SameCreations DEF ListMoves
    <2>3. \A u \in TaskIds : \A b \in tasks'[u].blocked_by :
            b \in tasks[u].blocked_by \/ (b \in TaskIds /\ tasks[b] # Absent)
      BY <1>2, <1>3
    <2> QED BY <1>5, <2>1, <2>2, <2>3 DEF CallsStay
  <1> QED BY <1>4, <1>5, StayKeeps

\* A new status makes nobody wait.
LEMMA StatusKeeps ==
  ASSUME TaskTypes, NEW t \in Known(tasks), NEW v, v.blocked_by \subseteq tasks[t].blocked_by,
         tasks' = [tasks EXCEPT ![t] = v], NoCycle(tasks)
  PROVE  NoCycle(tasks')
  <1>1. \A u \in TaskIds : tasks'[u].blocked_by \subseteq tasks[u].blocked_by
    BY DEF TaskTypes, TaskListTypeOK
  <1> QED BY <1>1, FewerWaits

LEMMA WriteUpdateKeeps ==
  ASSUME TaskInv, NEW c \in TaskCalls, WriteUpdate(c)
  PROVE  TaskInv'
  <1>1. TaskTypes /\ TaskListTypeOK /\ TaskCallTypes
    BY DEF TaskInv, TaskTypes
  <1> DEFINE t == taskCall[c].id
             v == [tasks[t] EXCEPT !.status = taskCall[c].value.status]
  <1>2. /\ t \in minted /\ t \in TaskIds /\ taskCall[c].value \in Task /\ taskCall[c].at = "update"
        /\ UNCHANGED <<taskFiles, minted, taskOps, taskFaults, drifted>>
    BY <1>1 DEF WriteUpdate, TaskCallTypes, TaskListTypeOK
  <1>3. CASE t \in Known(tasks) /\ tasks' = [tasks EXCEPT ![t] = v] /\ Holds(c, "save", t, v)
    <2>1. v \in Task /\ v.blocked_by = tasks[t].blocked_by
      BY <1>1, <1>2, <1>3, TasksAre DEF Task
    <2>2. /\ taskCall' = [d \in TaskCalls |-> taskCall'[d]]
          /\ taskCall'[c] = [at |-> "save", id |-> t, value |-> v]
          /\ \A d \in TaskCalls \ {c} : taskCall'[d] = taskCall[d]
      BY <1>1, <1>3, CallsAre
    <2> HIDE DEF v
    <2>3. taskCall'[c].id = t /\ c \notin Creating /\ c \notin Creating'
      BY <1>2, <2>2 DEF Creating
    <2> HIDE DEF t
    <2>4. TaskCallTypes'
      BY <1>1, <1>2, <2>1, <2>2, OneCallTypes
    <2>5. ListMoves(t, v)
      BY <1>1, <1>2, <1>3 DEF ListMoves, TaskTypes, TaskListTypeOK
    <2>6. ~ drifted => NoCycle(tasks')
      BY <1>1, <1>3, <2>1, StatusKeeps DEF TaskInv
    <2>7. \A d \in TaskCalls : taskCall'[d].at # "idle" => taskCall[d].at # "idle" /\ taskCall'[d].id = taskCall[d].id
      BY <1>2, <2>2, <2>3 DEF t
    <2>8. taskOps' \in 0..MaxTaskOps /\ taskFaults' \in 0..MaxTaskFaults
      BY <1>1, <1>2, CountsAre
    <2> QED BY <1>2, <1>3, <2>1, <2>2, <2>3, <2>4, <2>5, <2>6, <2>7, <2>8, ListKeeps
  <1>4. CASE UNCHANGED tasks /\ Returns(c)
    <2>1. /\ taskCall' = [d \in TaskCalls |-> taskCall'[d]] /\ taskCall'[c] = NoTaskCall
          /\ \A d \in TaskCalls \ {c} : taskCall'[d] = taskCall[d]
      BY <1>1, <1>4, CallsAre
    <2> HIDE DEF t, v
    <2>2. TaskCallTypes'
      BY <1>1, <1>2, <2>1, OneCallTypes
    <2>3. TypesStay
      BY <1>1, <1>2, <1>4, <2>1, <2>2, CountsAre DEF TypesStay, TaskTypes, TaskListTypeOK
    <2>4. ASSUME ~ drifted
          PROVE  CallsStay
      <3>1. Creating' = Creating /\ \A d \in Creating : taskCall'[d] = taskCall[d]
        BY <1>2, <2>1 DEF Creating, NoTaskCall
      <3>2. \A d \in Creating : CreationGoesOn(d)
        BY <1>2, <1>4, <2>4, <3>1, SameCreations
      <3>3. \A d \in TaskCalls : taskCall'[d].at # "idle" => taskCall[d].at # "idle" /\ taskCall'[d].id = taskCall[d].id
        BY <2>1 DEF NoTaskCall
      <3> QED BY <1>4, <2>4, <3>1, <3>2, <3>3 DEF CallsStay, TaskInv
    <2> QED BY <2>3, <2>4, StayKeeps
  <1> QED BY <1>3, <1>4 DEF WriteUpdate

LEMMA SaveUpdatedKeeps ==
  ASSUME TaskInv, NEW c \in TaskCalls, SaveUpdated(c)
  PROVE  TaskInv'
  <1>1. TaskTypes /\ TaskListTypeOK /\ TaskCallTypes
    BY DEF TaskInv, TaskTypes
  <1> DEFINE t == taskCall[c].id
             v == taskCall[c].value
  <1>2. /\ t \in minted /\ t \in TaskIds /\ v \in Task /\ taskCall[c].at = "save"
        /\ SaveTask(t, v) /\ Returns(c) /\ UNCHANGED <<tasks, minted, taskOps, drifted>>
    BY <1>1 DEF SaveUpdated, TaskCallTypes, TaskListTypeOK
  <1>3. /\ taskCall' = [d \in TaskCalls |-> taskCall'[d]] /\ taskCall'[c] = NoTaskCall
        /\ \A d \in TaskCalls \ {c} : taskCall'[d] = taskCall[d]
    BY <1>1, <1>2, CallsAre
  <1>4. /\ taskFiles' \in [TaskIds -> Task \cup {Absent}]
        /\ \A u \in TaskIds \ minted : taskFiles'[u] = Absent
        /\ \A u \in TaskIds \ {t} : taskFiles'[u] = taskFiles[u]
    BY <1>1, <1>2, FilesAre
  <1> HIDE DEF t, v
  <1>5. TypesStay
    <2>1. TaskCallTypes'
      BY <1>1, <1>2, <1>3, OneCallTypes
    <2>2. taskOps' \in 0..MaxTaskOps /\ taskFaults' \in 0..MaxTaskFaults
      BY <1>1, <1>2, CountsAre DEF SaveTask
    <2> QED BY <1>1, <1>2, <1>3, <1>4, <2>1, <2>2 DEF TypesStay, TaskTypes, TaskListTypeOK
  <1>6. ASSUME ~ drifted
        PROVE  CallsStay
    <2>1. Creating' = Creating /\ c \notin Creating
      BY <1>2, <1>3 DEF Creating, NoTaskCall
    <2>2. ASSUME NEW d \in Creating
          PROVE  CreationGoesOn(d)
      <3>1. taskCall[d].id # t /\ taskCall[d].id \in TaskIds
        BY <1>2, <1>6, <2>1, CreatedApart DEF t
      <3> QED BY <1>2, <1>3, <1>4, <1>6, <2>1, <3>1, SameCreations DEF Creating
    <2>3. \A d \in TaskCalls : taskCall'[d].at # "idle" => taskCall[d].at # "idle" /\ taskCall'[d].id = taskCall[d].id
      BY <1>3 DEF NoTaskCall
    <2> QED BY <1>2, <1>6, <2>1, <2>2, <2>3 DEF CallsStay, TaskInv
  <1> QED BY <1>5, <1>6, StayKeeps

\* complete, set_dependencies and delete: one lock section, no call in progress.
LEMMA SectionKeeps ==
  ASSUME TaskInv, NEW t \in Known(tasks), NEW v \in Task \cup {Absent}, Operation,
         tasks' = [tasks EXCEPT ![t] = v], SaveTask(t, v), UNCHANGED <<taskCall, minted, drifted>>,
         \A b \in v.blocked_by : b \in tasks[t].blocked_by \/ (b \in TaskIds /\ tasks[b] # Absent),
         ~ drifted => NoCycle(tasks')
  PROVE  TaskInv'
  <1>1. TaskTypes /\ TaskListTypeOK /\ TaskCallTypes
    BY DEF TaskInv, TaskTypes
  <1>2. t \in minted
    BY <1>1, TasksAre
  <1>3. ListMoves(t, v)
    BY <1>1, <1>2, FilesAre DEF ListMoves
  <1>4. taskOps' \in 0..MaxTaskOps /\ taskFaults' \in 0..MaxTaskFaults
    BY <1>1, CountsAre DEF SaveTask
  <1>5. TaskCallTypes' /\ taskCall' = [d \in TaskCalls |-> taskCall'[d]]
    BY <1>1 DEF TaskCallTypes, TaskTypes
  <1>6. \A d \in TaskCalls : taskCall'[d] = taskCall[d]
    OBVIOUS
  <1> QED BY <1>3, <1>4, <1>5, <1>6, ListKeeps

LEMMA CompleteKeeps ==
  ASSUME TaskInv, NEW t \in TaskIds, Complete(t)
  PROVE  TaskInv'
  <1> DEFINE v == [tasks[t] EXCEPT !.status = "completed"]
  <1>1. t \in Known(tasks) /\ TaskTypes
    BY DEF Complete, TaskInv
  <1>2. v \in Task /\ v.blocked_by = tasks[t].blocked_by
    BY <1>1, TasksAre DEF Task, Statuses
  <1>3. /\ tasks' = [tasks EXCEPT ![t] = v] /\ SaveTask(t, v)
        /\ Operation /\ UNCHANGED <<taskCall, minted, drifted>>
    BY DEF Complete
  <1> HIDE DEF v
  <1>4. ~ drifted => NoCycle(tasks')
    BY <1>1, <1>2, <1>3, StatusKeeps DEF TaskInv
  <1> QED BY <1>1, <1>2, <1>3, <1>4, SectionKeeps

LEMMA SetDependenciesKeeps ==
  ASSUME TaskInv, NEW t \in TaskIds, NEW B \in SUBSET TaskIds, SetDependencies(t, B)
  PROVE  TaskInv'
  <1> DEFINE v == [tasks[t] EXCEPT !.blocked_by = B]
  <1>1. t \in Known(tasks) /\ TaskTypes /\ validate_blockers_exist(B) /\ ~ would_create_cycle(t, B)
    BY DEF SetDependencies, validate_dependency_assignment, TaskInv
  <1>2. v \in Task /\ v.blocked_by = B
    BY <1>1, TasksAre DEF Task
  <1>3. /\ tasks' = [tasks EXCEPT ![t] = v] /\ SaveTask(t, v)
        /\ Operation /\ UNCHANGED <<taskCall, minted, drifted>>
    BY DEF SetDependencies
  <1> HIDE DEF v
  <1>4. tasks'[t].blocked_by = B /\ \A u \in TaskIds \ {t} : tasks'[u].blocked_by = tasks[u].blocked_by
    BY <1>1, <1>2, <1>3 DEF TaskTypes, TaskListTypeOK
  <1>5. ~ drifted => NoCycle(tasks')
    BY <1>1, <1>4, NoCycleMade DEF TaskInv
  <1>6. \A b \in v.blocked_by : b \in TaskIds /\ tasks[b] # Absent
    BY <1>1, <1>2 DEF validate_blockers_exist
  <1> QED BY <1>1, <1>2, <1>3, <1>5, <1>6, SectionKeeps

LEMMA DeleteKeepsList ==
  ASSUME TaskInv, NEW t \in TaskIds, Delete(t)
  PROVE  TaskInv'
  <1>1. t \in Known(tasks) /\ TaskTypes /\ Absent.blocked_by = {}
    BY TasksAre DEF Delete, TaskInv
  <1>2. /\ tasks' = [tasks EXCEPT ![t] = Absent] /\ SaveTask(t, Absent)
        /\ Operation /\ UNCHANGED <<taskCall, minted, drifted>>
    BY DEF Delete
  <1>3. ~ drifted => NoCycle(tasks')
    BY <1>1, <1>2, StatusKeeps DEF TaskInv
  <1> QED BY <1>1, <1>2, <1>3, SectionKeeps

LEMMA load_from_storeKeeps ==
  ASSUME TaskInv, load_from_store
  PROVE  TaskInv'
  <1>1. TaskTypes /\ TaskListTypeOK /\ TaskCallTypes
    BY DEF TaskInv, TaskTypes
  <1>2. /\ tasks' = taskFiles /\ taskCall' = [c \in TaskCalls |-> NoTaskCall] /\ TaskFault
        /\ UNCHANGED <<taskFiles, minted, taskOps>> /\ drifted' = (drifted \/ taskFiles # Intended)
    BY DEF load_from_store
  <1>3. TaskTypes'
    <2>1. drifted' \in BOOLEAN
      BY <1>2
    <2>2. TaskListTypeOK'
      BY <1>1, <1>2, <2>1, CountsAre DEF TaskListTypeOK
    <2>3. taskCall' = [c \in TaskCalls |-> taskCall'[c]] /\ TaskCallTypes'
      BY <1>2 DEF NoTaskCall, TaskCallTypes
    <2> QED BY <1>1, <1>2, <2>2, <2>3 DEF TaskTypes
  <1>4. ASSUME ~ drifted'
        PROVE  Blockers' /\ Fresh' /\ NoCycle(tasks)'
    <2> DEFINE N == {taskCall[c].id : c \in {d \in TaskCalls : taskCall[d].at = "insert"}}
    <2>1. ~ drifted /\ taskFiles = Intended /\ Blockers /\ Fresh /\ NoCycle(tasks)
      BY <1>2, <1>4 DEF TaskInv
    <2>2. N \in SUBSET TaskIds
      BY <1>1 DEF TaskCallTypes, TaskListTypeOK
    <2>3. Creating' = {}
      BY <1>2 DEF Creating, NoTaskCall
    <2>4. \A u \in TaskIds \ N : tasks'[u] = tasks[u]
      BY <1>2, <2>1 DEF Intended
    <2>5. \A u \in N : \E c \in Creating : taskCall[c].id = u /\ tasks'[u] = taskCall[c].value
      BY <1>2, <2>1 DEF Fresh, FreshOf, Creating
    <2>6. \A u \in N : Unused(u)
      BY <2>1, <2>5 DEF Fresh, FreshOf
    <2> HIDE DEF N
    <2>7. \A u \in TaskIds : tasks'[u].blocked_by \cap N = {}
      BY <2>4, <2>5, <2>6 DEF Unused
    <2>8. NoCycle(tasks')
      BY <2>1, <2>2, <2>4, <2>7, NewTasks
    <2>9. \A u \in TaskIds : tasks'[u].blocked_by \subseteq minted
      BY <2>1, <2>4, <2>5 DEF Blockers
    <2> QED BY <1>2, <2>3, <2>8, <2>9 DEF Blockers, Fresh
  <1> QED BY <1>3, <1>4 DEF TaskInv

LEMMA TaskListStarts == TaskListInit => TaskInv
  <1> SUFFICES ASSUME TaskListInit PROVE TaskInv
    OBVIOUS
  <1>1. /\ tasks = [t \in TaskIds |-> Absent] /\ taskFiles = tasks
        /\ taskCall = [c \in TaskCalls |-> NoTaskCall]
        /\ minted = {} /\ taskOps = 0 /\ taskFaults = 0 /\ drifted = FALSE
    BY DEF TaskListInit
  <1>2. TaskListTypeOK
    <2>1. MaxTaskOps \in Nat /\ MaxTaskFaults \in Nat
      BY TaskListAssumption
    <2>2. tasks \in [TaskIds -> Task \cup {Absent}] /\ taskFiles \in [TaskIds -> Task \cup {Absent}]
      BY <1>1
    <2>3. taskOps \in 0..MaxTaskOps /\ taskFaults \in 0..MaxTaskFaults
      BY <1>1, <2>1
    <2>4. minted \subseteq TaskIds /\ drifted \in BOOLEAN
      BY <1>1
    <2> QED BY <2>2, <2>3, <2>4 DEF TaskListTypeOK
  <1>3. TaskTypes
    BY <1>1, <1>2 DEF TaskTypes, TaskCallTypes, NoTaskCall
  <1>4. Creating = {} /\ \A u \in TaskIds : tasks[u].blocked_by = {}
    BY <1>1 DEF Creating, NoTaskCall, Absent
  <1>5. NoCycle(tasks)
    BY <1>4 DEF NoCycle, WaitsIn
  <1> QED BY <1>3, <1>4, <1>5 DEF TaskInv, Blockers, Fresh

LEMMA TaskListStepKeeps ==
  ASSUME TaskInv, [TaskListNext]_taskVars
  PROVE  TaskInv'
  <1>1. ASSUME NEW c \in TaskCalls, SaveCreated(c) \/ InsertCreated(c) \/ WriteUpdate(c) \/ SaveUpdated(c)
        PROVE  TaskInv'
    BY <1>1, SaveCreatedKeeps, InsertCreatedKeeps, WriteUpdateKeeps, SaveUpdatedKeeps
  <1>2. ASSUME NEW c \in TaskCalls, NEW B \in SUBSET TaskIds, CreateTask(c, B) PROVE TaskInv'
    BY <1>2, CreateTaskKeeps
  <1>3. ASSUME NEW c \in TaskCalls, NEW t \in TaskIds, UpdateFields(c, t) PROVE TaskInv'
    BY <1>3, UpdateFieldsKeeps
  <1>4. ASSUME NEW c \in TaskCalls, NEW t \in TaskIds, NEW st \in Statuses, CheckUpdate(c, t, st) PROVE TaskInv'
    BY <1>4, CheckUpdateKeeps
  <1>5. ASSUME NEW t \in TaskIds, Complete(t) \/ Delete(t) PROVE TaskInv'
    BY <1>5, CompleteKeeps, DeleteKeepsList
  <1>6. ASSUME NEW t \in TaskIds, NEW B \in SUBSET TaskIds, SetDependencies(t, B) PROVE TaskInv'
    BY <1>6, SetDependenciesKeeps
  <1>7. CASE load_from_store
    BY <1>7, load_from_storeKeeps
  <1>8. CASE UNCHANGED taskVars
    <2>1. TaskTypes' = TaskTypes
      BY <1>8 DEF taskVars, TaskTypes, TaskListTypeOK, TaskCallTypes
    <2>2. Blockers' = Blockers /\ Fresh' = Fresh /\ NoCycle(tasks)' = NoCycle(tasks)
      BY <1>8 DEF taskVars, Blockers, Fresh, FreshOf, Unused, Creating
    <2> QED BY <1>8, <2>1, <2>2 DEF TaskInv, taskVars
  <1> QED BY <1>1, <1>2, <1>3, <1>4, <1>5, <1>6, <1>7, <1>8 DEF TaskListNext

\* The open tasks are a set that does not wait only for itself.
LEMMA TaskListSound == TaskInv => TaskListTypeOK /\ SomethingIsReady
  <1> SUFFICES ASSUME TaskInv PROVE TaskListTypeOK /\ SomethingIsReady
    OBVIOUS
  <1>1. TaskListTypeOK
    BY DEF TaskInv, TaskTypes
  <1> DEFINE waiting == {t \in Known(tasks) : tasks[t].status \in Open}
  <1>2. SUFFICES ASSUME ~ drifted, waiting # {}, UNION {open_blockers(t) : t \in waiting} \subseteq waiting
                 PROVE  ready_tasks # {}
    BY <1>1 DEF SomethingIsReady
  <1>3. waiting \in SUBSET TaskIds
    BY DEF Known
  <1>4. PICK t \in waiting : ~ WaitsIn(tasks, t, waiting)
    BY <1>2, <1>3 DEF TaskInv, NoCycle
  <1>5. open_blockers(t) = {}
    BY <1>2, <1>4 DEF open_blockers, WaitsIn
  <1>6. t \in ready_tasks
    BY <1>4, <1>5 DEF ready_tasks, is_blocked
  <1> QED BY <1>6

\* The list stays usable, however creations, updates and restarts interleave with
\* the sections that complete, delete and rewire tasks.
THEOREM TaskListTheorem == TaskListSpec => [](TaskListTypeOK /\ SomethingIsReady)
  <1>1. TaskListSpec => []TaskInv
    BY TaskListStarts, TaskListStepKeeps, PTL DEF TaskListSpec
  <1> QED BY <1>1, TaskListSound, PTL

-----------------------------------------------------------------------------
(***************************************************************************)
(* Event streams. A stream loses nothing without a word and sends nothing  *)
(* out of order, for any number of clients, any capacities of hub, buffer  *)
(* and replay batch, and any interleaving of publishing, joining, lagging, *)
(* dropping connections and restarting. StreamsSound and DeliveredInOrder  *)
(* do not say why: a receiver skips whatever is not above its marks (seam, *)
(* snapshot_tail), so the invariant has to say that everything up to every *)
(* mark, and everything the receiver has gone past, is told (AllTold):     *)
(* given to the client, in its backlog, announced as lost, or in blind.    *)
(* An event that is passed on becomes a mark itself, and that needs the    *)
(* hub to hold every number once and in order (HubInOrder): what is below  *)
(* the next event is behind the receiver. That numbers only grow needs the *)
(* cursor to be at a mark and the backlog above the cursor (Ahead), and    *)
(* the backlog below the next live event, as it is of the snapshot or has  *)
(* been taken from the hub. Replays are complete because the buffer holds  *)
(* the newest numbers without a gap (BufferNewest). An SSE connection that *)
(* has read the buffer and has not joined the hub yet is neither (Reading).*)
(***************************************************************************)

\* The streams alone: MCSessionStores checks them as one of its parts.
EventsNext == EventSource \/ \E c \in EventClients : EventClient(c)
EventsSpec == EventsInit /\ [][EventsNext]_eventVars

-----------------------------------------------------------------------------
(* The invariant of the streams                                            *)

\* The newest number in the buffer.
last == IF flight = 0 THEN nextSeq - 1 ELSE nextSeq - 2

\* The type of every variable of the streams.
EventTypes ==
  /\ nextSeq \in 1..(MaxSeq + 1) /\ flight \in {0, nextSeq - 1}
  /\ hub \in Seq(0..MaxSeq) /\ buffer \in Seq(Nat) /\ conn \in [EventClients -> ConnStates]
  /\ once \in [EventClients -> BOOLEAN] /\ cursor \in [EventClients -> Nat]
  /\ stale \in [EventClients -> BOOLEAN]
  /\ known \in [EventClients -> SUBSET Nat] /\ blind \in [EventClients -> SUBSET Nat]

\* The buffer keeps the newest.
BufferNewest ==
  /\ Len(buffer) = Smaller(BufferCap, last)
  /\ \A i \in 1..Len(buffer) : buffer[i] = last - (Len(buffer) - i)

\* The hub has had every number once and in order.
HubInOrder ==
  /\ \A n \in 1..(nextSeq - 1) : \E i \in 1..Len(hub) : hub[i] = n
  /\ \A i \in 1..Len(hub) : hub[i] < nextSeq
  /\ \A i, j \in 1..Len(hub) : i < j /\ hub[i] # 0 /\ hub[j] # 0 => hub[i] < hub[j]

\* What a receiver at p has been sent.
Taken(p) == {hub[i] : i \in 1..p} \ {0}

\* What the client has, has been told of, or is about to get.
Told(c) == known[c] \cup blind[c] \cup SeqsIn(conn[c].pending)

\* It has a receiver: SSE joins the hub after reading, the pump before.
Joined(c) ==
  \/ conn[c].at \in {"replay", "on", "lagged", "drain"}
  \/ c \in WsClients /\ conn[c].at = "reading"

\* What it takes for duplicates, now or once its backlog is sent.
Marks(k) == {k.seam, k.tail} \cup SeqsIn(k.pending)

\* A cursor, and a stream, is of a client that subscribed.
Cursors(c) == ~ once[c] => cursor[c] = 0 /\ (Joined(c) => c \in WsClients /\ ~ conn[c].sub)

\* The receiver is within the hub and the backlog in order; SSE has one only
\* until it is sent, up to the seam, and the pump only for a subscription.
Within(c) ==
  /\ conn[c].pos <= Len(hub)
  /\ \A i, j \in 1..Len(conn[c].pending) : i < j => conn[c].pending[i] < conn[c].pending[j]
  /\ c \in SseClients =>
       /\ conn[c].tail = 0 /\ (conn[c].at \in {"on", "lagged"} => conn[c].pending = <<>>)
       /\ \A m \in SeqsIn(conn[c].pending) : m <= conn[c].seam
  /\ c \in WsClients /\ ~ conn[c].sub => conn[c].pending = <<>>

\* Whatever counts as a duplicate has been told, and nothing before the receiver is missing.
AllTold(c) ==
  Joined(c) =>
    /\ \A m \in Marks(conn[c]) : 1..m \subseteq Told(c)
    /\ (conn[c].sub \/ c \in SseClients) /\ conn[c].at # "lagged" => Taken(conn[c].pos) \subseteq Told(c)

\* The cursor is at what counts as a duplicate, and the backlog after it.
Ahead(c) ==
  Joined(c) /\ (conn[c].sub \/ c \in SseClients) =>
    /\ cursor[c] <= conn[c].seam \/ cursor[c] <= conn[c].tail
    /\ \A m \in SeqsIn(conn[c].pending) :
         cursor[c] < m /\ (c \in WsClients => m <= conn[c].tail \/ m \in Taken(conn[c].pos))

\* What has been read, before the hub is joined.
Reading(c) ==
  c \in SseClients /\ conn[c].at = "reading" =>
    /\ After(c) = Live => conn[c].pending = <<>> /\ conn[c].seam = 0 /\ ~ conn[c].sub
    /\ conn[c].sub => conn[c].pending = <<>> /\ Taken(conn[c].pos) \subseteq blind[c] \cup 1..conn[c].seam
    /\ stale[c] /\ After(c) # Live => 1..After(c) \subseteq blind[c]
    /\ ~ conn[c].sub /\ After(c) # Live =>
         /\ Taken(conn[c].pos) \subseteq blind[c] \cup SeqsIn(conn[c].pending) \cup 1..After(c)
         /\ \A m \in Marks(conn[c]) : 1..m \subseteq blind[c] \cup SeqsIn(conn[c].pending) \cup 1..After(c)
         /\ cursor[c] <= conn[c].seam
         /\ \A m \in SeqsIn(conn[c].pending) : cursor[c] < m

\* The invariant, of one client and of all.
ClientOf(c) == Cursors(c) /\ Within(c) /\ AllTold(c) /\ Ahead(c) /\ Reading(c)

EventsInv ==
  EventTypes /\ BufferNewest /\ HubInOrder /\ \A c \in EventClients : ClientOf(c)

-----------------------------------------------------------------------------
(* The streams' sequences and the hub                                      *)

\* Types of the hub and of the counter.
LEMMA HubIs ==
  ASSUME EventTypes
  PROVE  /\ MaxSeq \in Nat /\ nextSeq \in Nat /\ 1 <= nextSeq /\ nextSeq <= MaxSeq + 1
         /\ Len(hub) \in Nat /\ \A i \in 1..Len(hub) : hub[i] \in 0..MaxSeq
  <1>1. hub \in Seq(0..MaxSeq)
    BY DEF EventTypes
  <1>2. Len(hub) \in Nat /\ \A i \in 1..Len(hub) : hub[i] \in 0..MaxSeq
    BY <1>1, LenProperties, ElementOfSeq
  <1> QED BY <1>2, EventsAssumption DEF EventTypes

\* Every number published is in the buffer's reach or in flight.
LEMMA LastIs ==
  ASSUME EventTypes
  PROVE  /\ last \in Nat /\ last <= MaxSeq /\ last < nextSeq /\ InFlight \subseteq Nat
         /\ 1..(nextSeq - 1) \subseteq 1..last \cup InFlight
  BY EventsAssumption DEF EventTypes, last, InFlight

\* A backlog has no 0 in it.
LEMMA SeqsInIs ==
  ASSUME NEW s \in Seq(EventSeqs)
  PROVE  /\ SeqsIn(s) = {s[i] : i \in 1..Len(s)} /\ SeqsIn(s) \subseteq Nat
         /\ \A i \in 1..Len(s) : s[i] \in SeqsIn(s)
  BY EventsAssumption DEF SeqsIn, EventSeqs

\* An empty one has nothing.
LEMMA SeqsInEmpty == SeqsIn(<<>>) = {}
  BY DEF SeqsIn

\* What StreamsSound says of the hub, and the same without sequences.
LEMMA TakenIs ==
  ASSUME EventTypes, NEW p \in Nat, p <= Len(hub)
  PROVE  SeqsIn(SubSeq(hub, 1, p)) = Taken(p)
  <1>1. \A i \in 1..p : hub[i] \in 0..MaxSeq
    BY HubIs
  <1> DEFINE s == SubSeq(hub, 1, p)
  <1>2. Len(s) = p /\ \A i \in 1..p : s[i] = hub[i]
    BY <1>1, SubSeqProperties
  <1> HIDE DEF s
  <1>3. {s[i] : i \in 1..Len(s)} = {hub[i] : i \in 1..p}
    BY <1>2
  <1> QED BY <1>3 DEF SeqsIn, Taken, s

\* What a receiver that joins now has missed since p.
LEMMA TakenRest ==
  ASSUME EventTypes, NEW p \in Nat, p <= Len(hub)
  PROVE  Taken(Len(hub)) \subseteq Taken(p) \cup SeqsIn(SubSeq(hub, p + 1, Len(hub)))
  <1>1. Len(hub) \in Nat /\ \A i \in (p + 1)..Len(hub) : hub[i] \in 0..MaxSeq
    BY HubIs
  <1> DEFINE s == SubSeq(hub, p + 1, Len(hub))
  <1>2. Len(s) = Len(hub) - p /\ \A i \in 1..(Len(hub) - p) : s[i] = hub[p + i]
    BY <1>1, SubSeqProperties
  <1> HIDE DEF s
  <1> SUFFICES ASSUME NEW i \in 1..Len(hub), hub[i] # 0, ~ (i \in 1..p)
               PROVE  hub[i] \in SeqsIn(s)
    BY DEF Taken, s
  <1>3. i - p \in 1..Len(s) /\ s[i - p] = hub[i]
    BY <1>1, <1>2
  <1> QED BY <1>3 DEF SeqsIn

\* A receiver goes forward.
LEMMA TakenGrows ==
  ASSUME NEW p \in Nat, NEW q \in Nat, p <= q
  PROVE  Taken(p) \subseteq Taken(q)
  BY DEF Taken

\* One step of it.
LEMMA TakenNext ==
  ASSUME NEW p \in Nat
  PROVE  Taken(p + 1) = Taken(p) \cup ({hub[p + 1]} \ {0})
  <1>1. 1..(p + 1) = 1..p \cup {p + 1}
    OBVIOUS
  <1> QED BY <1>1 DEF Taken

\* It has been sent nothing that was not published.
LEMMA TakenWithin ==
  ASSUME EventTypes, HubInOrder, NEW p \in Nat, p <= Len(hub)
  PROVE  Taken(p) \subseteq 1..(nextSeq - 1) /\ Taken(p) \subseteq 1..last \cup InFlight
  <1>1. \A i \in 1..p : hub[i] \in 0..MaxSeq /\ hub[i] < nextSeq
    BY HubIs DEF HubInOrder
  <1>2. Taken(p) \subseteq 1..(nextSeq - 1)
    BY <1>1, HubIs DEF Taken
  <1> QED BY <1>2, LastIs

\* All that is below the next event is behind the receiver, and all behind is below.
LEMMA NextFollows ==
  ASSUME EventTypes, HubInOrder, NEW p \in Nat, p < Len(hub), hub[p + 1] # 0
  PROVE  /\ hub[p + 1] \in EventSeqs
         /\ \A m \in Taken(p) : m < hub[p + 1]
         /\ 1..hub[p + 1] \subseteq Taken(p) \cup {hub[p + 1]}
  <1>1. p + 1 \in 1..Len(hub) /\ Len(hub) \in Nat
    BY HubIs
  <1>2. hub[p + 1] \in EventSeqs /\ hub[p + 1] < nextSeq
    BY <1>1, HubIs DEF HubInOrder, EventSeqs
  <1>3. ASSUME NEW m \in Taken(p)
        PROVE  m < hub[p + 1]
    <2>1. PICK i \in 1..p : m = hub[i] /\ hub[i] # 0
      BY DEF Taken
    <2>2. i \in 1..Len(hub) /\ i < p + 1
      BY <1>1
    <2> QED BY <2>1, <2>2, <1>1 DEF HubInOrder
  <1>4. ASSUME NEW m \in 1..hub[p + 1], m # hub[p + 1]
        PROVE  m \in Taken(p)
    <2> DEFINE n == hub[p + 1]
    <2>0. n \in Nat /\ nextSeq \in Nat /\ n < nextSeq /\ m \in 1..n /\ m # n
      BY <1>2, <1>4, HubIs DEF EventSeqs
    <2> HIDE DEF n
    <2>1. m \in 1..(nextSeq - 1) /\ m < n
      BY <2>0
    <2>2. PICK i \in 1..Len(hub) : hub[i] = m
      BY <2>1 DEF HubInOrder
    <2>3. ~ (p + 1 < i)
      BY <1>1, <2>0, <2>1, <2>2 DEF HubInOrder, n
    <2>4. i \in 1..p
      BY <1>1, <2>0, <2>1, <2>2, <2>3 DEF n
    <2> QED BY <2>1, <2>2, <2>4 DEF Taken
  <1> QED BY <1>2, <1>3, <1>4

-----------------------------------------------------------------------------
(* What the buffer is asked                                                *)

\* What oldest_seq and latest_seq answer.
LEMMA BufferIs ==
  ASSUME EventTypes, BufferNewest
  PROVE  /\ Len(buffer) \in Nat /\ Len(buffer) <= last /\ (buffer = <<>> <=> last = 0)
         /\ \A d \in Nat : latest_seq(d) = (IF last = 0 THEN d ELSE last)
         /\ buffer # <<>> => oldest_seq = last - Len(buffer) + 1
  <1>1. last \in Nat
    BY LastIs
  <1>2. buffer \in Seq(Nat) /\ Len(buffer) \in Nat
    <2>1. buffer \in Seq(Nat)
      BY DEF EventTypes
    <2> QED BY <2>1, LenProperties
  <1>3. Len(buffer) <= last /\ (Len(buffer) = 0 <=> last = 0)
    BY <1>1, <1>2, EventsAssumption DEF BufferNewest, Smaller
  <1>4. buffer = <<>> <=> Len(buffer) = 0
    BY <1>2, EmptySeq
  <1>5. buffer # <<>> => buffer[Len(buffer)] = last /\ buffer[1] = last - Len(buffer) + 1
    BY <1>1, <1>2, <1>4 DEF BufferNewest
  <1> QED BY <1>2, <1>3, <1>4, <1>5 DEF latest_seq, oldest_seq

\* The events after a number that the buffer still reaches.
LEMMA EventsAfter ==
  ASSUME EventTypes, BufferNewest, NEW after \in Nat, buffer # <<>>, after < last,
         after + 1 >= oldest_seq
  PROVE  /\ events_after(after) \in Seq(EventSeqs) /\ Len(events_after(after)) = last - after
         /\ \A i \in 1..(last - after) : events_after(after)[i] = after + i
  <1> DEFINE L == Len(buffer)
             Q(i) == \A j \in 1..L : buffer[j] > after <=> j >= i
             f == CHOOSE i \in 1..(L + 1) : Q(i)
             g == after - last + L + 1
  <1>1. last \in Nat /\ last <= MaxSeq /\ MaxSeq \in Nat /\ L \in Nat /\ g \in 1..L
    BY LastIs, BufferIs, EventsAssumption
  <1>2. \A j \in 1..L : buffer[j] = last - (L - j)
    BY DEF BufferNewest
  <1> HIDE DEF L
  <1>3. Q(g) /\ g \in 1..(L + 1)
    BY <1>1, <1>2
  <1>4. f \in 1..(L + 1) /\ Q(f)
    BY <1>3
  <1> HIDE DEF f
  <1>5. f = g
    <2>1. f \in Int /\ g \in Int
      BY <1>1, <1>4
    <2>2. ~ (g < f)
      <3>1. g \in 1..L /\ (buffer[g] > after <=> g >= g) /\ (buffer[g] > after <=> g >= f)
        BY <1>1, <1>3, <1>4
      <3> QED BY <2>1, <3>1
    <2>3. ~ (f < g)
      <3>1. SUFFICES ASSUME f < g PROVE FALSE
        OBVIOUS
      <3>2. f \in 1..L
        BY <1>1, <1>4, <2>1, <3>1
      <3>3. (buffer[f] > after <=> f >= g) /\ (buffer[f] > after <=> f >= f)
        BY <1>3, <1>4, <3>2
      <3> QED BY <2>1, <3>1, <3>3
    <2> QED BY <2>1, <2>2, <2>3
  <1>6. events_after(after) = SubSeq(buffer, g, L)
    BY <1>5 DEF events_after, f, L
  <1>7. g \in Int /\ L \in Int /\ \A i \in g..L : buffer[i] \in EventSeqs
    BY <1>1, <1>2 DEF EventSeqs
  <1>8. /\ SubSeq(buffer, g, L) \in Seq(EventSeqs) /\ Len(SubSeq(buffer, g, L)) = L - g + 1
        /\ \A i \in 1..(L - g + 1) : SubSeq(buffer, g, L)[i] = buffer[g + i - 1]
    BY <1>1, <1>7, SubSeqProperties
  <1>9. L - g + 1 = last - after /\ \A i \in 1..(last - after) : buffer[g + i - 1] = after + i
    BY <1>1, <1>2
  <1> QED BY <1>6, <1>8, <1>9

\* A decision, with the seam it gives: nothing before the first subscription,
\* nothing to send, all that is after the cursor, or a client told to resync.
Decided(kind, events, seam, after) ==
  \/ kind = "live" /\ after = Live /\ events = <<>> /\ seam = 0
  \/ kind = "current" /\ after \in Nat /\ events = <<>> /\ seam = after /\ last <= after
  \/ /\ kind = "replay" /\ after \in Nat /\ seam = last /\ after < last
     /\ events \in Seq(EventSeqs) /\ Len(events) = last - after
     /\ \A i \in 1..(last - after) : events[i] = after + i
  \/ kind = "sync_lost" /\ after \in Nat /\ events = <<>> /\ seam = last

\* plan_catch_up and SeamOf decide one of these.
LEMMA PlanIs ==
  ASSUME EventTypes, BufferNewest, NEW after \in Nat \cup {Live}, NEW plan,
         plan = plan_catch_up(after)
  PROVE  Decided(plan.kind, plan.events, SeamOf(plan, after), after)
  <1>1. last \in Nat /\ latest_seq(0) = last /\ (buffer = <<>> <=> last = 0)
    BY LastIs, BufferIs
  <1>2. CASE after = Live
    <2>1. plan = [kind |-> "live", events |-> <<>>, latest |-> 0]
      BY <1>2 DEF plan_catch_up, PlanReplay
    <2> QED BY <1>2, <2>1 DEF Decided, SeamOf, Bigger, Live
  <1>3. CASE after \in Nat /\ buffer # <<>> /\ after >= last
    <2>1. plan = [kind |-> "current", events |-> <<>>, latest |-> 0]
      BY <1>1, <1>3 DEF plan_catch_up, PlanReplay, Live
    <2> QED BY <1>1, <1>3, <2>1 DEF Decided, SeamOf, Bigger
  <1>4. CASE after \in Nat /\ buffer # <<>> /\ after < last /\ after + 1 >= oldest_seq
    <2> DEFINE e == events_after(after)
    <2>1. plan = [kind |-> "replay", events |-> e, latest |-> 0]
      BY <1>1, <1>4 DEF plan_catch_up, PlanReplay, Live
    <2>2. e \in Seq(EventSeqs) /\ Len(e) = last - after /\ \A i \in 1..(last - after) : e[i] = after + i
      BY <1>4, EventsAfter
    <2> HIDE DEF e
    <2>3. e # <<>> /\ e[Len(e)] = last
      BY <1>1, <1>4, <2>2, EmptySeq
    <2>4. SeamOf(plan, after) = last
      BY <2>1, <2>3 DEF SeamOf
    <2> QED BY <1>4, <2>1, <2>2, <2>4 DEF Decided
  <1>5. CASE after \in Nat /\ (buffer = <<>> \/ (after < last /\ ~ (after + 1 >= oldest_seq)))
    <2>1. plan = [kind |-> "sync_lost", events |-> <<>>, latest |-> last]
      BY <1>1, <1>5 DEF plan_catch_up, PlanReplay, Live
    <2> QED BY <1>5, <2>1 DEF Decided, SeamOf
  <1> QED BY <1>1, <1>2, <1>3, <1>4, <1>5

-----------------------------------------------------------------------------
(* What a step leaves alone                                                *)

\* The connection of client d and what is known of it.
Stays(d) ==
  /\ conn'[d] = conn[d] /\ once'[d] = once[d] /\ cursor'[d] = cursor[d]
  /\ stale'[d] = stale[d] /\ known'[d] = known[d] /\ blind'[d] = blind[d]

\* Types of what is kept of one client.
LEMMA ConnIs ==
  ASSUME EventTypes, NEW c \in EventClients
  PROVE  /\ conn[c] \in ConnStates /\ conn[c].pos \in Nat /\ conn[c].seam \in Nat
         /\ conn[c].tail \in Nat /\ conn[c].pending \in Seq(EventSeqs) /\ conn[c].sub \in BOOLEAN
         /\ once[c] \in BOOLEAN /\ cursor[c] \in Nat /\ stale[c] \in BOOLEAN
         /\ known[c] \subseteq Nat /\ blind[c] \subseteq Nat
         /\ After(c) \in Nat \cup {Live} /\ (once[c] => After(c) = cursor[c] /\ After(c) # Live)
         /\ (~ once[c] => After(c) = Live)
  <1>1. conn[c] \in ConnStates /\ once[c] \in BOOLEAN /\ cursor[c] \in Nat /\ stale[c] \in BOOLEAN
    BY DEF EventTypes
  <1>2. known[c] \subseteq Nat /\ blind[c] \subseteq Nat
    BY DEF EventTypes
  <1>3. /\ conn[c].pos \in Nat /\ conn[c].seam \in Nat
        /\ conn[c].tail \in Nat /\ conn[c].pending \in Seq(EventSeqs) /\ conn[c].sub \in BOOLEAN
    BY <1>1 DEF ConnStates
  <1> QED BY <1>1, <1>2, <1>3 DEF After, Live

\* A client that stays keeps its part of the invariant, while the hub only grows.
LEMMA ClientFrame ==
  ASSUME EventTypes, NEW d \in EventClients, ClientOf(d), Stays(d),
         Len(hub) <= Len(hub'), Len(hub') \in Nat, \A i \in 1..Len(hub) : hub'[i] = hub[i]
  PROVE  ClientOf(d)'
  <1>1. conn[d].pos \in Nat /\ conn[d].pos <= Len(hub) /\ Len(hub) \in Nat
    BY ConnIs, HubIs DEF ClientOf, Within
  <1>2. Taken(conn[d].pos)' = Taken(conn[d].pos)
    BY <1>1 DEF Taken, Stays
  <1>3. Told(d)' = Told(d) /\ After(d)' = After(d)
    BY DEF Told, Stays, After
  <1>4. Cursors(d)'
    BY DEF ClientOf, Cursors, Joined, Stays
  <1>5. Within(d)'
    BY <1>1 DEF ClientOf, Within, Stays
  <1>6. AllTold(d)'
    BY <1>2, <1>3 DEF ClientOf, AllTold, Joined, Stays
  <1>7. Ahead(d)'
    BY <1>2 DEF ClientOf, Ahead, Joined, Stays
  <1>8. Reading(d)'
    BY <1>2, <1>3 DEF ClientOf, Reading, Stays
  <1> QED BY <1>4, <1>5, <1>6, <1>7, <1>8 DEF ClientOf

\* What only the source changes.
Source == <<nextSeq, flight, buffer, hub>>

\* One client moves.
ClientMoves(c, k, o, cu, st, kn, bl) ==
  /\ conn' = [conn EXCEPT ![c] = k] /\ once' = [once EXCEPT ![c] = o]
  /\ cursor' = [cursor EXCEPT ![c] = cu] /\ stale' = [stale EXCEPT ![c] = st]
  /\ known' = [known EXCEPT ![c] = kn] /\ blind' = [blind EXCEPT ![c] = bl]
  /\ UNCHANGED Source

\* What it has then.
FitsWith(c, k, o, cu, st, kn, bl) ==
  /\ conn'[c] = k /\ once'[c] = o /\ cursor'[c] = cu /\ stale'[c] = st
  /\ known'[c] = kn /\ blind'[c] = bl /\ UNCHANGED Source

\* The part of DeliveredInOrder that is about one step.
NoneBack == \A c \in EventClients : cursor'[c] < cursor[c] => conn[c].at \in {"reading", "lagged"}

\* A step of one client is safe when its own part holds after it.
LEMMA MoveKeeps ==
  ASSUME EventsInv, NEW c \in EventClients, NEW k \in ConnStates, NEW o \in BOOLEAN, NEW cu \in Nat,
         NEW st \in BOOLEAN, NEW kn \in SUBSET Nat, NEW bl \in SUBSET Nat,
         ClientMoves(c, k, o, cu, st, kn, bl),
         FitsWith(c, k, o, cu, st, kn, bl) => ClientOf(c)',
         cu < cursor[c] => conn[c].at \in {"reading", "lagged"}
  PROVE  EventsInv' /\ NoneBack
  <1>1. EventTypes
    BY DEF EventsInv
  <1>2. EventTypes'
    BY <1>1 DEF EventTypes, ClientMoves, Source
  <1>3. BufferNewest' /\ HubInOrder'
    BY DEF EventsInv, BufferNewest, HubInOrder, ClientMoves, Source, last
  <1>4. FitsWith(c, k, o, cu, st, kn, bl)
    BY <1>1 DEF EventTypes, ClientMoves, FitsWith
  <1>5. ASSUME NEW d \in EventClients, d # c
        PROVE  ClientOf(d)' /\ cursor'[d] = cursor[d]
    <2>1. Stays(d)
      BY <1>1, <1>5 DEF EventTypes, ClientMoves, Stays
    <2>2. Len(hub) \in Nat /\ hub' = hub
      BY <1>1, HubIs DEF ClientMoves, Source
    <2>3. ClientOf(d)
      BY DEF EventsInv
    <2>4. ClientOf(d)'
      BY <1>1, <2>1, <2>2, <2>3, ClientFrame
    <2> QED BY <2>1, <2>4 DEF Stays
  <1>6. \A d \in EventClients : cursor[d] \in Nat
    BY <1>1, ConnIs
  <1>7. NoneBack
    BY <1>4, <1>5, <1>6 DEF NoneBack, FitsWith
  <1> QED BY <1>2, <1>3, <1>4, <1>5, <1>7 DEF EventsInv

\* The same for a step that only moves the connection.
ConnMoves(c, k) ==
  conn' = [conn EXCEPT ![c] = k] /\ UNCHANGED <<once, cursor, stale, known, blind, Source>>

\* It is a move of the client that keeps the rest.
LEMMA ConnMovesIs ==
  ASSUME EventTypes, NEW c \in EventClients, NEW k, ConnMoves(c, k)
  PROVE  ClientMoves(c, k, once[c], cursor[c], stale[c], known[c], blind[c])
  BY DEF EventTypes, ConnMoves, ClientMoves, Source

\* And safe when its own part holds after it.
LEMMA ConnMoveKeeps ==
  ASSUME EventsInv, NEW c \in EventClients, NEW k \in ConnStates, ConnMoves(c, k),
         FitsWith(c, k, once[c], cursor[c], stale[c], known[c], blind[c]) => ClientOf(c)'
  PROVE  EventsInv' /\ NoneBack
  <1>1. EventTypes
    BY DEF EventsInv
  <1>2. ClientMoves(c, k, once[c], cursor[c], stale[c], known[c], blind[c])
    BY <1>1, ConnMovesIs
  <1>3. /\ once[c] \in BOOLEAN /\ cursor[c] \in Nat /\ stale[c] \in BOOLEAN
        /\ known[c] \in SUBSET Nat /\ blind[c] \in SUBSET Nat /\ ~ (cursor[c] < cursor[c])
    BY <1>1, ConnIs
  <1> QED BY <1>2, <1>3, MoveKeeps

-----------------------------------------------------------------------------
(* The source                                                              *)

\* No client moves.
ClientsStay == UNCHANGED <<conn, once, cursor, stale, known, blind>>

\* The clients do not see what the source does until they look.
LEMMA SourceKeeps ==
  ASSUME EventsInv, ClientsStay, BufferNewest', HubInOrder',
         nextSeq' \in 1..(MaxSeq + 1), flight' \in {0, nextSeq' - 1},
         hub' \in Seq(0..MaxSeq), buffer' \in Seq(Nat),
         Len(hub) <= Len(hub'), \A i \in 1..Len(hub) : hub'[i] = hub[i]
  PROVE  EventsInv' /\ NoneBack
  <1>1. EventTypes /\ \A d \in EventClients : ClientOf(d)
    BY DEF EventsInv
  <1>2. EventTypes'
    BY <1>1 DEF EventTypes, ClientsStay
  <1>3. Len(hub') \in Nat
    BY LenProperties
  <1>4. ASSUME NEW d \in EventClients
        PROVE  ClientOf(d)' /\ ~ (cursor'[d] < cursor[d])
    <2>1. Stays(d)
      BY DEF ClientsStay, Stays
    <2>2. ClientOf(d)'
      BY <1>1, <1>3, <2>1, ClientFrame
    <2> QED BY <1>1, <2>1, <2>2, ConnIs DEF Stays
  <1> QED BY <1>2, <1>4 DEF EventsInv, NoneBack

\* Append to the hub.
LEMMA HubGrows ==
  ASSUME EventTypes, NEW n \in 0..MaxSeq, hub' = Append(hub, n)
  PROVE  /\ hub' \in Seq(0..MaxSeq) /\ Len(hub') = Len(hub) + 1
         /\ \A i \in 1..Len(hub) : hub'[i] = hub[i]
         /\ hub'[Len(hub) + 1] = n
  <1>1. hub \in Seq(0..MaxSeq)
    BY DEF EventTypes
  <1> QED BY <1>1, AppendProperties

\* The next number is above all the hub has.
LEMMA publishKeeps ==
  ASSUME EventsInv, publish
  PROVE  EventsInv' /\ NoneBack
  <1>1. EventTypes /\ BufferNewest /\ HubInOrder
    BY DEF EventsInv
  <1>2. /\ flight = 0 /\ nextSeq <= MaxSeq /\ hub' = Append(hub, nextSeq) /\ flight' = nextSeq
        /\ nextSeq' = nextSeq + 1 /\ buffer' = buffer /\ ClientsStay
    BY DEF publish, client, history, ClientsStay
  <1>3. nextSeq \in Nat /\ 1 <= nextSeq /\ MaxSeq \in Nat /\ Len(hub) \in Nat
    BY <1>1, HubIs
  <1>4. /\ hub' \in Seq(0..MaxSeq) /\ Len(hub') = Len(hub) + 1
        /\ \A i \in 1..Len(hub) : hub'[i] = hub[i]
        /\ hub'[Len(hub) + 1] = nextSeq
    BY <1>1, <1>2, <1>3, HubGrows
  <1>5. BufferNewest'
    <2>1. last' = last
      BY <1>2, <1>3 DEF last
    <2> QED BY <1>1, <1>2, <2>1 DEF BufferNewest
  <1>6. HubInOrder'
    <2>0. \A i \in 1..Len(hub) : hub[i] \in Nat /\ hub[i] < nextSeq
      BY <1>1, HubIs DEF HubInOrder
    <2>1. ASSUME NEW n \in 1..(nextSeq' - 1)
          PROVE  \E i \in 1..Len(hub') : hub'[i] = n
      <3>1. CASE n = nextSeq
        BY <1>3, <1>4, <3>1
      <3>2. CASE n # nextSeq
        <4>1. n \in 1..(nextSeq - 1)
          BY <1>2, <1>3, <3>2
        <4>2. PICK i \in 1..Len(hub) : hub[i] = n
          BY <1>1, <4>1 DEF HubInOrder
        <4> QED BY <1>3, <1>4, <4>2
      <3> QED BY <3>1, <3>2
    <2>2. ASSUME NEW i \in 1..Len(hub')
          PROVE  hub'[i] < nextSeq'
      <3>1. i \in 1..Len(hub) \/ i = Len(hub) + 1
        BY <1>3, <1>4
      <3> QED BY <1>2, <1>3, <1>4, <2>0, <3>1
    <2>3. ASSUME NEW i \in 1..Len(hub'), NEW j \in 1..Len(hub'), i < j, hub'[i] # 0, hub'[j] # 0
          PROVE  hub'[i] < hub'[j]
      <3>1. i \in 1..Len(hub) /\ (j \in 1..Len(hub) \/ j = Len(hub) + 1)
        BY <1>3, <1>4, <2>3
      <3>2. CASE j \in 1..Len(hub)
        BY <1>1, <1>4, <2>3, <3>1, <3>2 DEF HubInOrder
      <3>3. CASE j = Len(hub) + 1
        BY <1>4, <2>0, <3>1, <3>3
      <3> QED BY <3>1, <3>2, <3>3
    <2> QED BY <2>1, <2>2, <2>3 DEF HubInOrder
  <1>7. /\ nextSeq' \in 1..(MaxSeq + 1) /\ flight' \in {0, nextSeq' - 1}
        /\ buffer' \in Seq(Nat) /\ Len(hub) <= Len(hub')
    BY <1>1, <1>2, <1>3, <1>4 DEF EventTypes
  <1> QED BY <1>2, <1>4, <1>5, <1>6, <1>7, SourceKeeps

\* An event of another session is nobody's.
LEMMA OtherSessionKeeps ==
  ASSUME EventsInv, OtherSession
  PROVE  EventsInv' /\ NoneBack
  <1>1. EventTypes /\ BufferNewest /\ HubInOrder
    BY DEF EventsInv
  <1>2. /\ hub' = Append(hub, 0) /\ flight' = flight /\ nextSeq' = nextSeq
        /\ buffer' = buffer /\ ClientsStay
    BY DEF OtherSession, client, history, ClientsStay
  <1>3. nextSeq \in Nat /\ 1 <= nextSeq /\ MaxSeq \in Nat /\ Len(hub) \in Nat
    BY <1>1, HubIs
  <1>4. /\ hub' \in Seq(0..MaxSeq) /\ Len(hub') = Len(hub) + 1
        /\ \A i \in 1..Len(hub) : hub'[i] = hub[i]
        /\ hub'[Len(hub) + 1] = 0
    BY <1>1, <1>2, <1>3, HubGrows
  <1>5. BufferNewest'
    BY <1>1, <1>2 DEF BufferNewest, last
  <1>6. HubInOrder'
    <2>1. \A i \in 1..Len(hub') : i \in 1..Len(hub) \/ (i = Len(hub) + 1 /\ hub'[i] = 0)
      BY <1>3, <1>4
    <2>2. 1..Len(hub) \subseteq 1..Len(hub')
      BY <1>3, <1>4
    <2>3. \A n \in 1..(nextSeq' - 1) : \E i \in 1..Len(hub') : hub'[i] = n
      BY <1>1, <1>2, <1>4, <2>2 DEF HubInOrder
    <2>4. \A i \in 1..Len(hub') : hub'[i] < nextSeq'
      BY <1>1, <1>2, <1>3, <1>4, <2>1 DEF HubInOrder
    <2>5. \A i, j \in 1..Len(hub') : i < j /\ hub'[i] # 0 /\ hub'[j] # 0 => hub'[i] < hub'[j]
      BY <1>1, <1>4, <2>1 DEF HubInOrder
    <2> QED BY <2>3, <2>4, <2>5 DEF HubInOrder
  <1>7. /\ nextSeq' \in 1..(MaxSeq + 1) /\ flight' \in {0, nextSeq' - 1}
        /\ buffer' \in Seq(Nat) /\ Len(hub) <= Len(hub')
    BY <1>1, <1>2, <1>3, <1>4 DEF EventTypes
  <1> QED BY <1>2, <1>4, <1>5, <1>6, <1>7, SourceKeeps

\* The buffer evicts its oldest and has the newest.
LEMMA pushKeeps ==
  ASSUME EventsInv, push
  PROVE  EventsInv' /\ NoneBack
  <1>1. EventTypes /\ BufferNewest /\ HubInOrder
    BY DEF EventsInv
  <1>2. /\ flight # 0 /\ buffer' = Pushed(flight) /\ flight' = 0 /\ nextSeq' = nextSeq
        /\ hub' = hub /\ ClientsStay
    BY DEF push, client, history, ClientsStay
  <1>3. /\ nextSeq \in Nat /\ flight = nextSeq - 1 /\ flight \in Nat /\ last = flight - 1
        /\ last' = flight /\ last \in Nat /\ buffer \in Seq(Nat) /\ Len(hub) \in Nat
    BY <1>1, <1>2, HubIs, LastIs DEF EventTypes, last
  <1>4. BufferCap \in Nat /\ BufferCap >= 1 /\ Len(buffer) \in Nat
    BY <1>3, EventsAssumption, LenProperties
  <1> DEFINE b == IF Len(buffer) = BufferCap THEN Tail(buffer) ELSE buffer
             d == IF Len(buffer) = BufferCap THEN 1 ELSE 0
  <1>5. b \in Seq(Nat) /\ Len(b) = Len(buffer) - d /\ \A i \in 1..Len(b) : b[i] = buffer[i + d]
    <2>1. CASE Len(buffer) = BufferCap
      <3>1. buffer # <<>>
        BY <1>4, <2>1, EmptySeq
      <3> QED BY <1>3, <2>1, <3>1, HeadTailProperties
    <2>2. CASE Len(buffer) # BufferCap
      BY <1>3, <1>4, <2>2
    <2> QED BY <2>1, <2>2
  <1>6. buffer' = Append(b, flight)
    BY <1>2 DEF Pushed
  <1>7. d \in {0, 1} /\ (d = 1 <=> Len(buffer) = BufferCap)
    OBVIOUS
  <1> HIDE DEF b, d
  <1>8. /\ buffer' \in Seq(Nat) /\ Len(buffer') = Len(b) + 1
        /\ \A i \in 1..Len(b) : buffer'[i] = b[i]
        /\ buffer'[Len(b) + 1] = flight
    BY <1>3, <1>5, <1>6, AppendProperties
  <1>0. Len(b) \in Nat /\ Len(b) = Len(buffer) - d /\ Len(buffer') = Len(b) + 1
    BY <1>5, <1>8, LenProperties
  <1>9. Len(buffer') = Smaller(BufferCap, last')
    <2>1. Len(buffer) = IF BufferCap < last THEN BufferCap ELSE last
      BY <1>1 DEF BufferNewest, Smaller
    <2>2. last' = last + 1
      BY <1>3
    <2>3. Len(buffer') = IF BufferCap < last' THEN BufferCap ELSE last'
      BY <1>0, <1>3, <1>4, <1>7, <2>1, <2>2
    <2> QED BY <2>3 DEF Smaller
  <1>10. ASSUME NEW i \in 1..Len(buffer')
         PROVE  buffer'[i] = last' - (Len(buffer') - i)
    <2>1. CASE i = Len(b) + 1
      BY <1>3, <1>4, <1>5, <1>7, <1>8, <2>1
    <2>2. CASE i # Len(b) + 1
      <3>1. i \in 1..Len(b) /\ i + d \in 1..Len(buffer)
        BY <1>0, <1>4, <1>7, <2>2
      <3>2. buffer'[i] = last - (Len(buffer) - (i + d))
        BY <1>1, <1>5, <1>8, <3>1 DEF BufferNewest
      <3> QED BY <1>3, <1>4, <1>5, <1>7, <1>8, <3>1, <3>2
    <2> QED BY <2>1, <2>2
  <1>11. BufferNewest'
    BY <1>9, <1>10 DEF BufferNewest
  <1>12. HubInOrder'
    BY <1>1, <1>2 DEF HubInOrder
  <1>13. /\ nextSeq' \in 1..(MaxSeq + 1) /\ flight' \in {0, nextSeq' - 1}
         /\ hub' \in Seq(0..MaxSeq) /\ Len(hub) <= Len(hub')
    BY <1>1, <1>2, <1>3 DEF EventTypes
  <1> QED BY <1>2, <1>8, <1>11, <1>12, <1>13, SourceKeeps

\* What a connection that is off must satisfy: nothing but its cursor.
LEMMA OffIs ==
  /\ Off \in ConnStates /\ Off.at = "off" /\ Off.pos = 0 /\ Off.seam = 0 /\ Off.tail = 0
  /\ Off.pending = <<>> /\ ~ Off.sub
  BY EmptySeq DEF Off, ConnStates

\* A connection that goes off keeps its cursor.
LEMMA OffKeeps ==
  ASSUME EventTypes, NEW c \in EventClients, Cursors(c), conn'[c] = Off, once'[c] = once[c],
         cursor'[c] = cursor[c], Len(hub') \in Nat
  PROVE  ClientOf(c)'
  <1>1. Cursors(c)'
    BY OffIs DEF Cursors, Joined
  <1>2. Len(<<>>) = 0 /\ SeqsIn(<<>>) = {}
    BY EmptySeq, SeqsInEmpty
  <1>3. Within(c)'
    BY <1>2, OffIs DEF Within
  <1>4. AllTold(c)' /\ Ahead(c)' /\ Reading(c)'
    BY OffIs DEF AllTold, Ahead, Reading, Joined
  <1> QED BY <1>1, <1>3, <1>4 DEF ClientOf

\* After a restart all connections are off.
LEMMA RestartKeeps ==
  ASSUME EventsInv, Restart
  PROVE  EventsInv' /\ NoneBack
  <1>1. EventTypes
    BY DEF EventsInv
  <1>2. /\ nextSeq' = 1 /\ flight' = 0 /\ buffer' = <<>> /\ hub' = <<>>
        /\ conn' = [c \in EventClients |-> Off] /\ stale' = once
        /\ known' = [c \in EventClients |-> {}] /\ blind' = [c \in EventClients |-> {}]
        /\ once' = once /\ cursor' = cursor
    BY DEF Restart, client
  <1>3. /\ <<>> \in Seq(Nat) /\ <<>> \in Seq(0..MaxSeq) /\ Len(<<>>) = 0 /\ MaxSeq \in Nat
        /\ BufferCap \in Nat /\ Off \in ConnStates
    BY EmptySeq, OffIs, EventsAssumption
  <1>4. EventTypes'
    BY <1>1, <1>2, <1>3 DEF EventTypes
  <1>5. BufferNewest' /\ HubInOrder'
    BY <1>2, <1>3 DEF BufferNewest, HubInOrder, last, Smaller
  <1>6. ASSUME NEW c \in EventClients
        PROVE  ClientOf(c)' /\ ~ (cursor'[c] < cursor[c])
    <2>1. Cursors(c)
      BY DEF EventsInv, ClientOf
    <2>2. conn'[c] = Off
      BY <1>2
    <2> QED BY <1>1, <1>2, <1>3, <2>1, <2>2, OffKeeps, ConnIs
  <1> QED BY <1>4, <1>5, <1>6 DEF EventsInv, NoneBack

-----------------------------------------------------------------------------
(* Steps that only move the connection                                     *)

\* The parts of the invariant.
LEMMA ClientIs ==
  ASSUME EventsInv, NEW c \in EventClients
  PROVE  /\ EventTypes /\ BufferNewest /\ HubInOrder
         /\ Cursors(c) /\ Within(c) /\ AllTold(c) /\ Ahead(c) /\ Reading(c)
  BY DEF EventsInv, ClientOf

\* The connection goes, the cursor stays.
LEMMA DisconnectKeeps ==
  ASSUME EventsInv, NEW c \in EventClients, Disconnect(c)
  PROVE  EventsInv' /\ NoneBack
  <1>1. EventTypes /\ Cursors(c)
    BY ClientIs
  <1>2. ConnMoves(c, Off)
    BY DEF Disconnect, ConnMoves, Source, client, history
  <1>3. Len(hub) \in Nat
    BY <1>1, HubIs
  <1>4. FitsWith(c, Off, once[c], cursor[c], stale[c], known[c], blind[c]) => ClientOf(c)'
    BY <1>1, <1>3, OffKeeps DEF FitsWith, Source
  <1> QED BY <1>2, <1>4, OffIs, ConnMoveKeeps

\* A connection that keeps its backlog and its marks, at a later place.
LEMMA OnwardKeeps ==
  ASSUME EventsInv, NEW c \in EventClients, NEW k \in ConnStates,
         ConnMoves(c, k), Joined(c), k.at \in {"reading", "on", "lagged", "drain"},
         k.at \in {"on", "lagged"} /\ c \in SseClients => conn[c].at \in {"on", "lagged"},
         k.at = "reading" => c \in WsClients,
         conn[c].at = "lagged" => k.at = "lagged" \/ (c \in WsClients /\ ~ k.sub),
         conn[c].pos <= k.pos, k.pos <= Len(hub), k.pos = conn[c].pos \/ k.at = "lagged",
         k.seam = conn[c].seam, k.tail = conn[c].tail, k.pending = conn[c].pending,
         k.sub = conn[c].sub
  PROVE  EventsInv' /\ NoneBack
  <1>1. /\ EventTypes /\ Cursors(c) /\ Within(c) /\ AllTold(c) /\ Ahead(c)
        /\ SseClients \cap WsClients = {}
    BY ClientIs, EventsAssumption
  <1>2. conn[c].pos \in Nat /\ k.pos \in Nat
    BY <1>1, ConnIs DEF ConnStates
  <1>3. Taken(conn[c].pos) \subseteq Taken(k.pos)
    BY <1>2, TakenGrows
  <1> SUFFICES ASSUME FitsWith(c, k, once[c], cursor[c], stale[c], known[c], blind[c])
               PROVE  ClientOf(c)'
    BY ConnMoveKeeps
  <1>4. /\ conn'[c] = k /\ once'[c] = once[c] /\ cursor'[c] = cursor[c] /\ known'[c] = known[c]
        /\ blind'[c] = blind[c] /\ hub' = hub
    BY DEF FitsWith, Source
  <1>5. Told(c)' = Told(c) /\ Marks(conn[c])' = Marks(conn[c])
    BY <1>4 DEF Told, Marks
  <1>6. Taken(conn[c].pos)' = Taken(k.pos)
    BY <1>4 DEF Taken
  <1>7. Cursors(c)'
    BY <1>1, <1>4 DEF Cursors
  <1>8. Within(c)'
    BY <1>1, <1>4 DEF Within
  <1>9. AllTold(c)'
    BY <1>1, <1>4, <1>5, <1>6 DEF AllTold
  <1>10. Ahead(c)'
    BY <1>1, <1>3, <1>4, <1>6 DEF Ahead
  <1>11. Reading(c)'
    BY <1>1, <1>4 DEF Reading
  <1> QED BY <1>7, <1>8, <1>9, <1>10, <1>11 DEF ClientOf

\* The receiver skips; until it resyncs nothing is promised of what it skipped.
LEMMA LaggedKeeps ==
  ASSUME EventsInv, NEW c \in EventClients, Lagged(c)
  PROVE  EventsInv' /\ NoneBack
  <1> DEFINE k == [conn[c] EXCEPT !.at = "lagged", !.pos = Len(hub) - HubCap]
  <1>1. EventTypes
    BY ClientIs
  <1>2. conn[c].at = "on" /\ Len(hub) - conn[c].pos > HubCap
    BY DEF Lagged, Overrun, Behind
  <1>3. ConnMoves(c, k)
    <2>1. conn' = [conn EXCEPT ![c].at = "lagged", ![c].pos = Len(hub) - HubCap]
      BY DEF Lagged
    <2>2. conn' = [conn EXCEPT ![c] = k]
      BY <1>1, <2>1 DEF EventTypes
    <2> QED BY <2>2 DEF Lagged, ConnMoves, Source, client, history
  <1>4. Len(hub) \in Nat /\ HubCap \in Nat /\ conn[c].pos \in Nat /\ conn[c] \in ConnStates
    BY <1>1, HubIs, ConnIs, EventsAssumption
  <1>5. /\ k \in ConnStates /\ k.at = "lagged" /\ k.pos = Len(hub) - HubCap
        /\ k.seam = conn[c].seam /\ k.tail = conn[c].tail /\ k.pending = conn[c].pending
        /\ k.sub = conn[c].sub
    <2>1. Len(hub) - HubCap \in Nat
      BY <1>2, <1>4
    <2> QED BY <1>4, <2>1 DEF ConnStates
  <1>6. conn[c].pos <= k.pos /\ k.pos <= Len(hub)
    BY <1>2, <1>4, <1>5
  <1>7. Joined(c)
    BY <1>2 DEF Joined
  <1> HIDE DEF k
  <1> QED BY <1>2, <1>3, <1>5, <1>6, <1>7, OnwardKeeps

\* The pump's loop turns: nothing but its place changes.
LEMMA TurnKeeps ==
  ASSUME EventsInv, NEW c \in WsClients, NEW a \in {"reading", "on", "drain"},
         conn[c].at = "on" \/ (conn[c].at = "lagged" /\ ~ conn[c].sub),
         ConnMoves(c, [conn[c] EXCEPT !.at = a])
  PROVE  EventsInv' /\ NoneBack
  <1> DEFINE k == [conn[c] EXCEPT !.at = a]
  <1>1. EventTypes /\ Within(c) /\ c \in EventClients /\ SseClients \cap WsClients = {}
    BY ClientIs, EventsAssumption DEF EventClients
  <1>2. Len(hub) \in Nat /\ conn[c].pos \in Nat /\ conn[c] \in ConnStates /\ conn[c].pos <= Len(hub)
    BY <1>1, HubIs, ConnIs DEF Within
  <1>3. /\ k \in ConnStates /\ k.at = a /\ k.pos = conn[c].pos
        /\ k.seam = conn[c].seam /\ k.tail = conn[c].tail /\ k.pending = conn[c].pending
        /\ k.sub = conn[c].sub
    BY <1>2 DEF ConnStates
  <1>4. Joined(c) /\ ConnMoves(c, k)
    BY <1>1 DEF Joined
  <1> HIDE DEF k
  <1> QED BY <1>1, <1>2, <1>3, <1>4, OnwardKeeps

\* To read a control message ...
LEMMA WsControlKeeps ==
  ASSUME EventsInv, NEW c \in WsClients, WsControl(c)
  PROVE  EventsInv' /\ NoneBack
  <1>1. EventTypes /\ c \in EventClients
    BY ClientIs DEF EventClients
  <1>2. conn[c].at = "on" /\ ConnMoves(c, [conn[c] EXCEPT !.at = "reading"])
    BY <1>1 DEF EventTypes, WsControl, ConnMoves, Source, client, history
  <1> QED BY <1>2, TurnKeeps

\* ... or to go on with a backlog.
LEMMA WsSpinKeeps ==
  ASSUME EventsInv, NEW c \in WsClients, WsSpin(c)
  PROVE  EventsInv' /\ NoneBack
  <1>1. EventTypes /\ c \in EventClients
    BY ClientIs DEF EventClients
  <1>2. conn[c].at = "on" /\ ConnMoves(c, [conn[c] EXCEPT !.at = "drain"])
    BY <1>1 DEF EventTypes, WsSpin, ConnMoves, Source, client, history
  <1> QED BY <1>2, TurnKeeps

\* A connection of the pump without a subscription: nothing is promised of it.
LEMMA UnsubscribedKeeps ==
  ASSUME EventsInv, NEW c \in WsClients, NEW k \in ConnStates, ConnMoves(c, k),
         k.pos <= Len(hub), k.seam = 0, k.tail = 0, k.pending = <<>>, ~ k.sub
  PROVE  EventsInv' /\ NoneBack
  <1>1. /\ EventTypes /\ Cursors(c) /\ c \in EventClients /\ c \notin SseClients
        /\ SeqsIn(<<>>) = {} /\ Len(<<>>) = 0
    BY ClientIs, EventsAssumption, SeqsInEmpty, EmptySeq DEF EventClients
  <1> SUFFICES ASSUME FitsWith(c, k, once[c], cursor[c], stale[c], known[c], blind[c])
               PROVE  ClientOf(c)'
    BY <1>1, ConnMoveKeeps
  <1>2. conn'[c] = k /\ once'[c] = once[c] /\ cursor'[c] = cursor[c] /\ hub' = hub
    BY DEF FitsWith, Source
  <1>3. Marks(conn[c])' = {0} /\ 1..0 = {}
    BY <1>1, <1>2 DEF Marks
  <1>4. Cursors(c)' /\ Within(c)' /\ Ahead(c)' /\ Reading(c)'
    BY <1>1, <1>2 DEF Cursors, Within, Ahead, Reading
  <1>5. AllTold(c)'
    BY <1>1, <1>2, <1>3 DEF AllTold
  <1> QED BY <1>4, <1>5 DEF ClientOf

\* A new socket has no subscription ...
LEMMA WsConnectKeeps ==
  ASSUME EventsInv, NEW c \in WsClients, WsConnect(c)
  PROVE  EventsInv' /\ NoneBack
  <1> DEFINE k == [Off EXCEPT !.at = "on", !.pos = Len(hub)]
  <1>1. EventTypes /\ c \in EventClients
    BY ClientIs DEF EventClients
  <1>2. ConnMoves(c, k)
    BY DEF WsConnect, ConnMoves, Source, client, history
  <1>3. Len(hub) \in Nat
    BY <1>1, HubIs
  <1>4. k \in ConnStates /\ k.pos = Len(hub) /\ k.seam = 0 /\ k.tail = 0 /\ k.pending = <<>> /\ ~ k.sub
    BY <1>3, EmptySeq DEF Off, ConnStates
  <1> HIDE DEF k
  <1> QED BY <1>2, <1>3, <1>4, UnsubscribedKeeps

\* ... nor has one that gave it up.
LEMMA WsUnsubscribeKeeps ==
  ASSUME EventsInv, NEW c \in WsClients, WsUnsubscribe(c)
  PROVE  EventsInv' /\ NoneBack
  <1> DEFINE k == [conn[c] EXCEPT !.at = "drain", !.sub = FALSE, !.pending = <<>>, !.seam = 0, !.tail = 0]
  <1>1. EventTypes /\ Within(c) /\ c \in EventClients
    BY ClientIs DEF EventClients
  <1>2. ConnMoves(c, k)
    BY DEF WsUnsubscribe, ConnMoves, Source, client, history
  <1>3. conn[c] \in ConnStates /\ conn[c].pos <= Len(hub)
    BY <1>1, ConnIs DEF Within
  <1>4. k \in ConnStates /\ k.pos = conn[c].pos /\ k.seam = 0 /\ k.tail = 0 /\ k.pending = <<>> /\ ~ k.sub
    BY <1>3, EmptySeq DEF ConnStates
  <1> HIDE DEF k
  <1> QED BY <1>2, <1>3, <1>4, UnsubscribedKeeps

-----------------------------------------------------------------------------
(* Server-sent events                                                      *)

\* A backlog in order.
Ordered(s) == \A i, j \in 1..Len(s) : i < j => s[i] < s[j]

\* The empty backlog.
LEMMA EmptyIs ==
  /\ <<>> \in Seq(EventSeqs) /\ Len(<<>>) = 0 /\ SeqsIn(<<>>) = {} /\ Ordered(<<>>)
  BY EmptySeq, SeqsInEmpty DEF Ordered

\* What a decision gives, together with what the client has up to its cursor.
LEMMA DecidedIs ==
  ASSUME EventTypes, NEW kind, NEW events, NEW seam, NEW after,
         Decided(kind, events, seam, after)
  PROVE  /\ events \in Seq(EventSeqs) /\ seam \in Nat /\ Ordered(events)
         /\ kind \in {"live", "current", "replay", "sync_lost"}
         /\ kind = "live" <=> after = Live
         /\ kind # "live" => after \in Nat
         /\ kind = "live" => seam = 0
         /\ kind = "current" => seam = after
         /\ kind \in {"replay", "sync_lost"} => seam = last
         /\ kind # "replay" => events = <<>>
         /\ \A m \in SeqsIn(events) : after < m /\ m <= seam
         /\ kind \in {"current", "replay"} =>
              /\ after <= seam /\ 1..seam \subseteq 1..after \cup SeqsIn(events)
              /\ 1..last \subseteq 1..after \cup SeqsIn(events)
  <1>1. last \in Nat /\ Live \notin Nat
    BY LastIs DEF Live
  <1>2. CASE kind = "replay"
    <2>1. /\ after \in Nat /\ seam = last /\ after < last /\ events \in Seq(EventSeqs)
          /\ Len(events) = last - after /\ \A i \in 1..(last - after) : events[i] = after + i
      BY <1>2 DEF Decided
    <2>2. Ordered(events)
      BY <1>1, <2>1 DEF Ordered
    <2>3. SeqsIn(events) = (after + 1)..last
      <3>1. SeqsIn(events) = {events[i] : i \in 1..Len(events)}
        BY <2>1, SeqsInIs
      <3>2. ASSUME NEW m \in (after + 1)..last
            PROVE  m \in {events[i] : i \in 1..Len(events)}
        <4>1. m - after \in 1..(last - after) /\ after + (m - after) = m
          BY <1>1, <2>1
        <4> QED BY <2>1, <4>1
      <3>3. ASSUME NEW i \in 1..Len(events)
            PROVE  events[i] \in (after + 1)..last
        BY <1>1, <2>1
      <3> QED BY <3>1, <3>2, <3>3
    <2>4. 1..last \subseteq 1..after \cup SeqsIn(events)
      BY <1>1, <2>1, <2>3
    <2>5. \A m \in SeqsIn(events) : after < m /\ m <= last
      BY <1>1, <2>1, <2>3
    <2> QED BY <1>1, <1>2, <2>1, <2>2, <2>4, <2>5
  <1>3. CASE kind # "replay"
    <2>1. events = <<>> /\ seam \in Nat
      BY <1>1, <1>3 DEF Decided
    <2>2. kind = "current" => after \in Nat /\ seam = after /\ last <= after
      BY DEF Decided
    <2>3. kind = "current" => 1..last \subseteq 1..after
      BY <1>1, <2>2
    <2> QED BY <1>1, <1>3, <2>1, <2>2, <2>3, EmptyIs DEF Decided
  <1> QED BY <1>2, <1>3

\* The decision covers what is on the hub now, but for the event in flight.
LEMMA SseReadKeeps ==
  ASSUME EventsInv, NEW c \in SseClients, SseRead(c)
  PROVE  EventsInv' /\ NoneBack
  <1> DEFINE after == After(c)
             plan == plan_catch_up(after)
             kind == plan.kind
             events == plan.events
             seam == SeamOf(plan, after)
             k == [at |-> "reading", pos |-> Len(hub), seam |-> seam, tail |-> 0,
                   pending |-> events, sub |-> kind = "sync_lost"]
             bl == blind[c] \cup InFlight \cup Hidden(c, after)
  <1>1. /\ EventTypes /\ BufferNewest /\ HubInOrder /\ Cursors(c)
        /\ c \in EventClients /\ c \notin WsClients /\ MaxSeq \in Nat
    BY ClientIs, EventsAssumption DEF EventClients
  <1>2. Decided(kind, events, seam, after)
    BY <1>1, ConnIs, PlanIs
  <1>3. ClientMoves(c, k, once[c], cursor[c], stale[c], known[c], bl)
    BY <1>1 DEF SseRead, ClientMoves, EventTypes, Source, client
  <1> HIDE DEF kind, events, seam, plan, after
  <1>4. /\ after \in Nat \cup {Live} /\ (after # Live => cursor[c] = after) /\ after = After(c)
        /\ Len(hub) \in Nat
    BY <1>1, ConnIs, HubIs DEF after
  <1>5. bl \in SUBSET Nat
    BY <1>1, <1>4, ConnIs, LastIs DEF Hidden
  <1>6. /\ k \in ConnStates /\ k.at = "reading" /\ k.pos = Len(hub) /\ k.seam = seam
        /\ k.tail = 0 /\ k.pending = events /\ (k.sub <=> kind = "sync_lost")
    BY <1>1, <1>2, <1>4, DecidedIs DEF ConnStates
  <1> HIDE DEF k
  <1>0. k \in ConnStates
    BY <1>6
  <1>7. /\ once[c] \in BOOLEAN /\ cursor[c] \in Nat /\ stale[c] \in BOOLEAN
        /\ known[c] \in SUBSET Nat /\ ~ (cursor[c] < cursor[c])
    BY <1>1, ConnIs
  <1>8. stale[c] /\ after # Live => 1..after \subseteq bl
    BY DEF Hidden
  <1>9. InFlight \subseteq bl
    OBVIOUS
  <1> HIDE DEF bl
  <1> SUFFICES ASSUME FitsWith(c, k, once[c], cursor[c], stale[c], known[c], bl)
               PROVE  ClientOf(c)'
    BY <1>1, <1>3, <1>5, <1>0, <1>7, MoveKeeps
  <1>10. /\ conn'[c] = k /\ once'[c] = once[c] /\ cursor'[c] = cursor[c] /\ stale'[c] = stale[c]
         /\ blind'[c] = bl /\ hub' = hub
    BY DEF FitsWith, Source
  <1>11. After(c)' = after
    BY <1>4, <1>10 DEF After
  <1>12. Taken(conn[c].pos)' = Taken(Len(hub)) /\ Taken(Len(hub)) \subseteq 1..last \cup InFlight
    BY <1>1, <1>4, <1>6, <1>10, TakenWithin DEF Taken
  <1>13. Cursors(c)'
    BY <1>1, <1>6, <1>10 DEF Cursors, Joined
  <1>14. Within(c)'
    BY <1>1, <1>2, <1>4, <1>6, <1>10, DecidedIs DEF Within, Ordered
  <1>15. AllTold(c)' /\ Ahead(c)'
    BY <1>1, <1>6, <1>10 DEF AllTold, Ahead, Joined
  <1>16. Reading(c)'
    <2>1. after = Live => k.pending = <<>> /\ k.seam = 0 /\ ~ k.sub
      BY <1>1, <1>2, <1>6, DecidedIs
    <2>2. k.sub => k.pending = <<>> /\ Taken(Len(hub)) \subseteq bl \cup 1..k.seam
      BY <1>1, <1>2, <1>6, <1>9, <1>12, DecidedIs
    <2>3. ASSUME ~ k.sub, after # Live
          PROVE  /\ Taken(Len(hub)) \subseteq bl \cup SeqsIn(k.pending) \cup 1..after
                 /\ \A m \in Marks(k) : 1..m \subseteq bl \cup SeqsIn(k.pending) \cup 1..after
                 /\ cursor[c] <= k.seam
                 /\ \A m \in SeqsIn(k.pending) : cursor[c] < m
      <3>1. kind \in {"current", "replay"}
        BY <1>1, <1>2, <1>6, <2>3, DecidedIs
      <3>2. /\ after \in Nat /\ seam \in Nat /\ events \in Seq(EventSeqs)
            /\ 1..seam \subseteq 1..after \cup SeqsIn(events)
            /\ 1..last \subseteq 1..after \cup SeqsIn(events)
            /\ after <= seam /\ \A m \in SeqsIn(events) : after < m /\ m <= seam
        BY <1>1, <1>2, <3>1, DecidedIs
      <3>3. \A m \in Marks(k) : m \in Nat /\ m <= seam
        BY <1>6, <3>2, SeqsInIs DEF Marks
      <3>4. \A m \in Marks(k) : 1..m \subseteq 1..seam
        BY <3>2, <3>3
      <3> QED BY <1>4, <1>6, <1>9, <1>12, <2>3, <3>2, <3>4
    <2> QED BY <1>8, <1>10, <1>11, <1>12, <2>1, <2>2, <2>3 DEF Reading
  <1> QED BY <1>13, <1>14, <1>15, <1>16 DEF ClientOf

\* Joining: what was decided, and what was sent since, which is in blind.
LEMMA SseAttachKeeps ==
  ASSUME EventsInv, NEW c \in SseClients, SseAttach(c)
  PROVE  EventsInv' /\ NoneBack
  <1> DEFINE j == conn[c]
             after == After(c)
             rest == SeqsIn(SubSeq(hub, j.pos + 1, Len(hub)))
             k == [j EXCEPT !.at = "replay", !.pos = Len(hub)]
             cu == IF j.sub THEN j.seam ELSE cursor[c]
             kn == known[c] \cup (IF j.sub THEN 1..j.seam
                                  ELSE IF after = Live THEN SeqsIn(SubSeq(hub, 1, Len(hub)))
                                  ELSE IF stale[c] THEN {} ELSE 1..after)
             bl == blind[c] \cup rest
  <1>1. /\ EventTypes /\ HubInOrder /\ Cursors(c) /\ Within(c) /\ Reading(c)
        /\ c \in EventClients /\ c \notin WsClients /\ MaxSeq \in Nat
    BY ClientIs, EventsAssumption DEF EventClients
  <1>2. j.at = "reading" /\ ClientMoves(c, k, TRUE, cu, FALSE, kn, bl)
    BY <1>1 DEF SseAttach, Subscribed, ClientMoves, EventTypes, Source
  <1>3. /\ j \in ConnStates /\ j.pos \in Nat /\ j.pos <= Len(hub) /\ j.seam \in Nat
        /\ j.pending \in Seq(EventSeqs) /\ j.sub \in BOOLEAN /\ cursor[c] \in Nat /\ Len(hub) \in Nat
        /\ after \in Nat \cup {Live} /\ stale[c] \in BOOLEAN
    BY <1>1, ConnIs, HubIs DEF Within
  <1>4. SeqsIn(SubSeq(hub, 1, Len(hub))) = Taken(Len(hub)) /\ Taken(Len(hub)) \subseteq Nat
    BY <1>1, <1>3, TakenIs, TakenWithin
  <1>5. Taken(Len(hub)) \subseteq Taken(j.pos) \cup rest /\ rest \subseteq Nat
    <2>1. Taken(Len(hub)) \subseteq Taken(j.pos) \cup rest
      BY <1>1, <1>3, TakenRest
    <2>2. \A i \in (j.pos + 1)..Len(hub) : hub[i] \in Nat
      BY <1>1, <1>3, HubIs
    <2>3. SubSeq(hub, j.pos + 1, Len(hub)) \in Seq(Nat)
      BY <1>3, <2>2, SubSeqProperties
    <2>4. rest \subseteq Nat
      BY <2>3, ElementOfSeq DEF SeqsIn
    <2> QED BY <2>1, <2>4
  <1> HIDE DEF rest
  <1>6. cu \in Nat /\ kn \in SUBSET Nat /\ bl \in SUBSET Nat
    <2>1. known[c] \subseteq Nat /\ blind[c] \subseteq Nat /\ 1..j.seam \subseteq Nat
      BY <1>1, <1>3, ConnIs
    <2>2. after # Live => 1..after \subseteq Nat
      BY <1>3
    <2>3. kn \subseteq Nat
      BY <1>4, <2>1, <2>2
    <2> QED BY <1>3, <1>5, <2>1, <2>3
  <1>7. /\ k \in ConnStates /\ k.at = "replay" /\ k.pos = Len(hub) /\ k.seam = j.seam
        /\ k.tail = j.tail /\ k.pending = j.pending /\ k.sub = j.sub
    BY <1>3 DEF ConnStates
  <1> HIDE DEF k
  <1>8. k \in ConnStates /\ (cu < cursor[c] => conn[c].at \in {"reading", "lagged"})
    BY <1>2, <1>7
  <1> SUFFICES ASSUME FitsWith(c, k, TRUE, cu, FALSE, kn, bl)
               PROVE  ClientOf(c)'
    <2> HIDE DEF kn, bl, cu
    <2> QED BY <1>1, <1>2, <1>6, <1>8, MoveKeeps
  <1>9. /\ conn'[c] = k /\ once'[c] /\ cursor'[c] = cu /\ known'[c] = kn
        /\ blind'[c] = bl /\ hub' = hub
    BY DEF FitsWith, Source
  <1>10. Taken(conn[c].pos)' = Taken(Len(hub))
    BY <1>7, <1>9 DEF Taken
  <1>11. Marks(conn[c])' = Marks(j) /\ Told(c)' = kn \cup bl \cup SeqsIn(j.pending)
    BY <1>7, <1>9 DEF Marks, Told
  <1>12. Cursors(c)' /\ Reading(c)'
    BY <1>7, <1>9 DEF Cursors, Reading
  <1>13. Within(c)'
    <2>1. conn'[c] = k /\ hub' = hub
      BY <1>9
    <2>2. k.pos <= Len(hub) /\ k.seam = conn[c].seam /\ k.tail = conn[c].tail
          /\ k.pending = conn[c].pending /\ k.at \notin {"on", "lagged"}
      BY <1>3, <1>7
    <2> HIDE DEF j, after, cu, kn, bl
    <2> QED BY <1>1, <2>1, <2>2 DEF Within
  <1>14. /\ after = Live => j.pending = <<>> /\ j.seam = 0 /\ ~ j.sub /\ cursor[c] = 0
         /\ j.sub => j.pending = <<>> /\ Taken(j.pos) \subseteq blind[c] \cup 1..j.seam
         /\ stale[c] /\ after # Live => 1..after \subseteq blind[c]
         /\ ~ j.sub /\ after # Live =>
              /\ Taken(j.pos) \subseteq blind[c] \cup SeqsIn(j.pending) \cup 1..after
              /\ \A m \in Marks(j) : 1..m \subseteq blind[c] \cup SeqsIn(j.pending) \cup 1..after
              /\ cursor[c] <= j.seam
              /\ \A m \in SeqsIn(j.pending) : cursor[c] < m
    BY <1>1, <1>2, ConnIs DEF Reading, Cursors
  <1>15. j.tail = 0 /\ 1..0 = {}
    BY <1>1 DEF Within
  <1>16. /\ \A m \in Marks(j) : 1..m \subseteq kn \cup bl \cup SeqsIn(j.pending)
         /\ Taken(Len(hub)) \subseteq kn \cup bl \cup SeqsIn(j.pending)
    <2>1. CASE j.sub
      <3>1. Marks(j) = {j.seam, 0} /\ 1..j.seam \subseteq kn
        BY <1>14, <1>15, <2>1, EmptyIs DEF Marks
      <3> HIDE DEF kn
      <3> QED BY <1>5, <1>14, <1>15, <2>1, <3>1
    <2>2. CASE ~ j.sub /\ after = Live
      <3>1. Marks(j) = {0} /\ Taken(Len(hub)) \subseteq kn
        BY <1>4, <1>14, <1>15, <2>2, EmptyIs DEF Marks
      <3> HIDE DEF kn, bl
      <3> QED BY <1>15, <3>1
    <2>3. CASE ~ j.sub /\ after # Live
      <3>1. 1..after \subseteq kn \cup blind[c]
        BY <1>3, <1>14, <2>3
      <3> HIDE DEF kn
      <3> QED BY <1>5, <1>14, <2>3, <3>1
    <2> QED BY <2>1, <2>2, <2>3
  <1>17. AllTold(c)'
    BY <1>9, <1>10, <1>11, <1>16 DEF AllTold
  <1>18. cu <= j.seam /\ \A m \in SeqsIn(j.pending) : cu < m
    BY <1>3, <1>14, EmptyIs
  <1>19. Ahead(c)'
    BY <1>1, <1>7, <1>9, <1>18 DEF Ahead
  <1> QED BY <1>12, <1>13, <1>17, <1>19 DEF ClientOf

\* What Given makes of the cursor and of what is known.
Upto(s, cur) == IF s = <<>> THEN cur ELSE s[Len(s)]

\* The replay ends at the seam.
LEMMA SseReplayKeeps ==
  ASSUME EventsInv, NEW c \in SseClients, SseReplay(c)
  PROVE  EventsInv' /\ NoneBack
  <1> DEFINE j == conn[c]
             k == [j EXCEPT !.at = "on", !.pending = <<>>, !.sub = TRUE]
             cu == Upto(j.pending, cursor[c])
             kn == known[c] \cup SeqsIn(j.pending)
  <1>1. /\ EventTypes /\ Cursors(c) /\ Within(c) /\ AllTold(c) /\ Ahead(c)
        /\ c \in EventClients /\ c \notin WsClients /\ MaxSeq \in Nat
    BY ClientIs, EventsAssumption DEF EventClients
  <1>2. j.at = "replay" /\ ClientMoves(c, k, once[c], cu, stale[c], kn, blind[c])
    BY <1>1 DEF SseReplay, Given, Upto, ClientMoves, EventTypes, Source
  <1>3. /\ j \in ConnStates /\ j.pos \in Nat /\ j.seam \in Nat /\ j.pending \in Seq(EventSeqs)
        /\ once[c] \in BOOLEAN /\ cursor[c] \in Nat /\ stale[c] \in BOOLEAN
        /\ known[c] \in SUBSET Nat /\ blind[c] \in SUBSET Nat
    BY <1>1, ConnIs
  <1>4. kn \in SUBSET Nat
    BY <1>3, SeqsInIs
  <1>5. /\ k \in ConnStates /\ k.at = "on" /\ k.pos = j.pos /\ k.seam = j.seam
        /\ k.tail = j.tail /\ k.pending = <<>> /\ k.sub
    BY <1>3, EmptyIs DEF ConnStates
  <1> HIDE DEF k
  <1>6. k \in ConnStates
    BY <1>5
  <1>7. /\ j.tail = 0 /\ (cursor[c] <= j.seam \/ cursor[c] <= 0)
        /\ \A m \in SeqsIn(j.pending) : cursor[c] < m /\ m <= j.seam
        /\ \A m \in Marks(j) : 1..m \subseteq Told(c)
        /\ Taken(j.pos) \subseteq Told(c) /\ once[c]
    BY <1>1, <1>2 DEF Within, Ahead, AllTold, Cursors, Joined
  <1>8. cu \in Nat /\ cu <= j.seam /\ cursor[c] <= cu
    <2>1. CASE j.pending = <<>>
      BY <1>3, <1>7, <2>1 DEF Upto
    <2>2. CASE j.pending # <<>>
      <3>1. Len(j.pending) \in 1..Len(j.pending)
        BY <1>3, <2>2, EmptySeq
      <3>2. cu \in SeqsIn(j.pending) /\ cu \in Nat
        BY <1>3, <2>2, <3>1, SeqsInIs DEF Upto
      <3> QED BY <1>3, <1>7, <2>2, <3>2
    <2> QED BY <2>1, <2>2
  <1> HIDE DEF cu
  <1> SUFFICES ASSUME FitsWith(c, k, once[c], cu, stale[c], kn, blind[c])
               PROVE  ClientOf(c)'
    <2>1. ~ (cu < cursor[c])
      BY <1>3, <1>8
    <2> HIDE DEF kn
    <2> QED BY <1>1, <1>2, <1>3, <1>4, <1>6, <1>8, <2>1, MoveKeeps
  <1>9. /\ conn'[c] = k /\ once'[c] = once[c] /\ cursor'[c] = cu /\ known'[c] = kn
        /\ blind'[c] = blind[c] /\ hub' = hub
    BY DEF FitsWith, Source
  <1>10. Told(c)' = Told(c) /\ Taken(conn[c].pos)' = Taken(j.pos) /\ Marks(conn[c])' = {j.seam, j.tail}
    BY <1>5, <1>9, EmptyIs DEF Told, Taken, Marks
  <1>11. Cursors(c)' /\ Reading(c)'
    BY <1>5, <1>7, <1>9 DEF Cursors, Reading
  <1>12. Within(c)'
    BY <1>1, <1>5, <1>9, EmptyIs DEF Within
  <1>13. AllTold(c)'
    BY <1>7, <1>9, <1>10 DEF AllTold, Marks
  <1>14. Ahead(c)'
    BY <1>1, <1>5, <1>8, <1>9, EmptyIs DEF Ahead
  <1> QED BY <1>11, <1>12, <1>13, <1>14 DEF ClientOf

-----------------------------------------------------------------------------
(* Events taken from the hub, by either kind of connection                 *)

\* The next event of the hub.
NextOf(c) == hub[conn[c].pos + 1]

\* It is not for the client, or the client has it.
LEMMA SkipKeeps ==
  ASSUME EventsInv, NEW c \in EventClients, NEW k \in ConnStates, ConnMoves(c, k),
         conn[c].at = "on", conn[c].pos < Len(hub),
         NextOf(c) = 0 \/ NextOf(c) \in Told(c) \/ (c \in WsClients /\ ~ conn[c].sub),
         k.at = "on" \/ (k.at = "drain" /\ c \in WsClients), k.pos = conn[c].pos + 1,
         k.seam = conn[c].seam, k.tail = conn[c].tail, k.pending = conn[c].pending,
         k.sub = conn[c].sub
  PROVE  EventsInv' /\ NoneBack
  <1>1. /\ EventTypes /\ Cursors(c) /\ Within(c) /\ AllTold(c) /\ Ahead(c)
        /\ SseClients \cap WsClients = {}
    BY ClientIs, EventsAssumption
  <1>2. conn[c].pos \in Nat /\ k.pos \in Nat /\ Len(hub) \in Nat
    BY <1>1, ConnIs, HubIs DEF ConnStates
  <1>3. Taken(k.pos) = Taken(conn[c].pos) \cup ({NextOf(c)} \ {0})
    BY <1>2, TakenNext DEF NextOf
  <1> SUFFICES ASSUME FitsWith(c, k, once[c], cursor[c], stale[c], known[c], blind[c])
               PROVE  ClientOf(c)'
    BY ConnMoveKeeps
  <1>4. /\ conn'[c] = k /\ once'[c] = once[c] /\ cursor'[c] = cursor[c] /\ known'[c] = known[c]
        /\ blind'[c] = blind[c] /\ hub' = hub
    BY DEF FitsWith, Source
  <1>5. Told(c)' = Told(c) /\ Marks(conn[c])' = Marks(conn[c]) /\ Joined(c)
    BY <1>4 DEF Told, Marks, Joined
  <1>6. Taken(conn[c].pos)' = Taken(k.pos)
    BY <1>4 DEF Taken
  <1>7. Cursors(c)'
    BY <1>1, <1>4, <1>5 DEF Cursors
  <1>8. Within(c)'
    <2>1. k.pos <= Len(hub)
      BY <1>2
    <2> QED BY <1>1, <1>4, <2>1 DEF Within
  <1>9. AllTold(c)'
    <2>1. /\ \A m \in Marks(conn[c]) : 1..m \subseteq Told(c)
          /\ conn[c].sub \/ c \in SseClients => Taken(k.pos) \subseteq Told(c)
      BY <1>1, <1>3, <1>5 DEF AllTold
    <2> QED BY <1>4, <1>5, <1>6, <2>1 DEF AllTold
  <1>10. Ahead(c)'
    BY <1>1, <1>3, <1>4, <1>5, <1>6 DEF Ahead
  <1>11. Reading(c)'
    BY <1>4 DEF Reading
  <1> QED BY <1>7, <1>8, <1>9, <1>10, <1>11 DEF ClientOf

\* It is passed on at once: there is no backlog before it.
LEMMA TakeKeeps ==
  ASSUME EventsInv, NEW c \in EventClients, NEW k \in ConnStates,
         ClientMoves(c, k, once[c], NextOf(c), stale[c], known[c] \cup {NextOf(c)}, blind[c]),
         conn[c].at = "on", conn[c].pos < Len(hub), conn[c].pending = <<>>,
         conn[c].sub \/ c \in SseClients,
         NextOf(c) # 0, ~ (NextOf(c) <= conn[c].seam), ~ (NextOf(c) <= conn[c].tail),
         k.at = "on" \/ (k.at = "drain" /\ c \in WsClients), k.pos = conn[c].pos + 1,
         k.seam = NextOf(c), k.tail = conn[c].tail, k.pending = <<>>, k.sub = conn[c].sub
  PROVE  EventsInv' /\ NoneBack
  <1> DEFINE n == NextOf(c)
  <1>1. /\ EventTypes /\ HubInOrder /\ Cursors(c) /\ Within(c) /\ AllTold(c) /\ Ahead(c)
        /\ SseClients \cap WsClients = {} /\ MaxSeq \in Nat /\ Joined(c)
    BY ClientIs, EventsAssumption DEF Joined
  <1>2. /\ conn[c].pos \in Nat /\ conn[c].seam \in Nat /\ conn[c].tail \in Nat /\ cursor[c] \in Nat
        /\ once[c] \in BOOLEAN /\ stale[c] \in BOOLEAN /\ known[c] \subseteq Nat
        /\ blind[c] \in SUBSET Nat /\ Len(hub) \in Nat
    BY <1>1, ConnIs, HubIs
  <1>3. n \in Nat /\ 1..n \subseteq Taken(conn[c].pos) \cup {n}
    BY <1>1, <1>2, NextFollows DEF NextOf, EventSeqs
  <1>4. Taken(k.pos) = Taken(conn[c].pos) \cup {n}
    BY <1>2, TakenNext DEF NextOf
  <1>5. once[c] /\ cursor[c] < n
    <2>1. once[c]
      BY <1>1, EventsAssumption DEF Cursors
    <2>2. cursor[c] <= conn[c].seam \/ cursor[c] <= conn[c].tail
      BY <1>1 DEF Ahead
    <2> QED BY <1>2, <1>3, <2>1, <2>2
  <1> SUFFICES ASSUME FitsWith(c, k, once[c], n, stale[c], known[c] \cup {n}, blind[c])
               PROVE  ClientOf(c)'
    <2>1. known[c] \cup {n} \in SUBSET Nat /\ ~ (n < cursor[c])
      BY <1>2, <1>3, <1>5
    <2> QED BY <1>2, <1>3, <2>1, MoveKeeps
  <1>6. /\ conn'[c] = k /\ once'[c] = once[c] /\ cursor'[c] = n /\ known'[c] = known[c] \cup {n}
        /\ blind'[c] = blind[c] /\ hub' = hub
    BY DEF FitsWith, Source
  <1> HIDE DEF n
  <1>7. Told(c)' = Told(c) \cup {n} /\ Marks(conn[c])' = {n, conn[c].tail}
    BY <1>6, EmptyIs DEF Told, Marks, n
  <1>8. Taken(conn[c].pos)' = Taken(k.pos)
    BY <1>6 DEF Taken
  <1>9. Cursors(c)' /\ Reading(c)'
    BY <1>5, <1>6 DEF Cursors, Reading
  <1>10. Within(c)'
    <2>1. k.pos <= Len(hub)
      BY <1>2
    <2> QED BY <1>1, <1>6, <2>1, EmptyIs DEF Within
  <1>11. AllTold(c)'
    <2>1. 1..conn[c].tail \subseteq Told(c) /\ Taken(conn[c].pos) \subseteq Told(c)
      BY <1>1 DEF AllTold, Marks
    <2> QED BY <1>3, <1>4, <1>6, <1>7, <1>8, <2>1 DEF AllTold
  <1>12. Ahead(c)'
    BY <1>3, <1>6, EmptyIs DEF Ahead, n
  <1> QED BY <1>9, <1>10, <1>11, <1>12 DEF ClientOf

\* One event.
LEMMA SeqsInOne == ASSUME NEW n, n # 0 PROVE SeqsIn(<<n>>) = {n}
  <1>1. Len(<<n>>) = 1 /\ <<n>>[1] = n
    OBVIOUS
  <1>2. 1..1 = {1}
    OBVIOUS
  <1> QED BY <1>1, <1>2 DEF SeqsIn

\* One event reaches the client.
LEMMA GivenOne ==
  ASSUME EventTypes, NEW c \in EventClients, NEW n, n # 0, Given(c, <<n>>)
  PROVE  cursor' = [cursor EXCEPT ![c] = n] /\ known' = [known EXCEPT ![c] = known[c] \cup {n}]
  <1>1. Len(<<n>>) = 1 /\ <<n>>[1] = n /\ <<n>> # <<>>
    OBVIOUS
  <1> QED BY <1>1, SeqsInOne DEF Given, EventTypes

\* SSE takes one event.
LEMMA SseRecvKeeps ==
  ASSUME EventsInv, NEW c \in SseClients, SseRecv(c)
  PROVE  EventsInv' /\ NoneBack
  <1> DEFINE n == NextOf(c)
  <1>1. /\ EventTypes /\ HubInOrder /\ Within(c) /\ AllTold(c)
        /\ c \in EventClients /\ HubCap \in Nat
    BY ClientIs, EventsAssumption DEF EventClients
  <1>2. /\ conn[c] \in ConnStates /\ conn[c].pos \in Nat /\ conn[c].seam \in Nat /\ conn[c].tail = 0
        /\ Len(hub) \in Nat
    BY <1>1, ConnIs, HubIs DEF Within
  <1>3. conn[c].at = "on" /\ conn[c].pos < Len(hub) /\ conn[c].pending = <<>> /\ Joined(c)
    <2>1. conn[c].at = "on" /\ Behind(c) \in 1..HubCap
      BY DEF SseRecv
    <2>2. conn[c].pos < Len(hub)
      BY <1>1, <1>2, <2>1 DEF Behind
    <2> QED BY <1>1, <2>1, <2>2 DEF Within, Joined
  <1>4. n \in Nat
    <2>1. conn[c].pos + 1 \in 1..Len(hub)
      BY <1>2, <1>3
    <2> QED BY <1>1, <2>1, HubIs DEF NextOf
  <1>5. CASE SseDuplicate(c, n)
    <2> DEFINE k == [conn[c] EXCEPT !.pos = conn[c].pos + 1]
    <2>1. conn' = [conn EXCEPT ![c] = k]
      <3>1. conn' = [conn EXCEPT ![c].pos = @ + 1]
        BY <1>5 DEF SseRecv, NextOf
      <3> QED BY <1>1, <3>1 DEF EventTypes
    <2>2. ConnMoves(c, k)
      BY <1>5, <2>1 DEF SseRecv, NextOf, ConnMoves, Source
    <2>3. /\ k \in ConnStates /\ k.at = "on" /\ k.pos = conn[c].pos + 1 /\ k.seam = conn[c].seam
          /\ k.tail = conn[c].tail /\ k.pending = conn[c].pending /\ k.sub = conn[c].sub
      BY <1>2, <1>3 DEF ConnStates
    <2>4. n = 0 \/ n \in Told(c)
      <3>1. 1..conn[c].seam \subseteq Told(c)
        BY <1>1, <1>3 DEF AllTold, Marks
      <3> QED BY <1>2, <1>4, <1>5, <3>1 DEF SseDuplicate
    <2> HIDE DEF k
    <2> QED BY <1>1, <1>3, <2>2, <2>3, <2>4, SkipKeeps
  <1>6. CASE ~ SseDuplicate(c, n)
    <2> DEFINE k == [conn[c] EXCEPT !.pos = conn[c].pos + 1, !.seam = n]
    <2>1. n # 0 /\ ~ (n <= conn[c].seam) /\ ~ (n <= conn[c].tail)
      BY <1>2, <1>4, <1>6 DEF SseDuplicate
    <2>2. conn' = [conn EXCEPT ![c] = k]
      <3>1. conn' = [conn EXCEPT ![c].pos = @ + 1, ![c].seam = n]
        BY <1>6 DEF SseRecv, NextOf
      <3> QED BY <1>1, <3>1 DEF EventTypes
    <2>3. Given(c, <<n>>) /\ UNCHANGED <<nextSeq, flight, buffer, hub, once, stale, blind>>
      BY <1>6 DEF SseRecv, NextOf
    <2>4. ClientMoves(c, k, once[c], n, stale[c], known[c] \cup {n}, blind[c])
      <3>1. cursor' = [cursor EXCEPT ![c] = n] /\ known' = [known EXCEPT ![c] = known[c] \cup {n}]
        BY <1>1, <2>1, <2>3, GivenOne
      <3> HIDE DEF n, k
      <3> QED BY <1>1, <2>2, <2>3, <3>1 DEF ClientMoves, Source, EventTypes
    <2>5. /\ k \in ConnStates /\ k.at = "on" /\ k.pos = conn[c].pos + 1 /\ k.seam = n
          /\ k.tail = conn[c].tail /\ k.pending = <<>> /\ k.sub = conn[c].sub
      <3> HIDE DEF n
      <3>1. conn[c].pos + 1 \in Nat
        BY <1>2
      <3> QED BY <1>2, <1>3, <1>4, <3>1 DEF ConnStates
    <2> HIDE DEF k
    <2> QED BY <1>1, <1>3, <2>1, <2>4, <2>5, TakeKeeps
  <1> QED BY <1>5, <1>6

\* Everything there is has been told: the buffer's latest covers all but the
\* event in flight.
LEMMA ResyncedKeeps ==
  ASSUME EventsInv, NEW c \in EventClients, NEW keep \in BOOLEAN, keep <=> c \in SseClients,
         conn[c].at = "lagged", conn[c].sub \/ c \in SseClients, Resynced(c, keep),
         UNCHANGED <<nextSeq, flight, buffer, hub, once, stale>>
  PROVE  EventsInv' /\ NoneBack
  <1> DEFINE j == conn[c]
             latest == latest_seq(j.seam)
             t == IF keep THEN j.tail ELSE latest
             k == [j EXCEPT !.at = "on", !.seam = latest, !.tail = t, !.pending = <<>>]
             kn == known[c] \cup 1..latest
             bl == blind[c] \cup InFlight
  <1>1. /\ EventTypes /\ BufferNewest /\ HubInOrder /\ Cursors(c) /\ Within(c)
        /\ SseClients \cap WsClients = {} /\ Joined(c)
    BY ClientIs, EventsAssumption DEF Joined
  <1>2. ClientMoves(c, k, once[c], latest, stale[c], kn, bl)
    BY <1>1 DEF Resynced, ClientMoves, EventTypes, Source
  <1>3. /\ j \in ConnStates /\ j.pos \in Nat /\ j.pos <= Len(hub) /\ j.seam \in Nat /\ j.tail \in Nat
        /\ once[c] \in BOOLEAN /\ stale[c] \in BOOLEAN /\ known[c] \subseteq Nat
        /\ blind[c] \subseteq Nat
    BY <1>1, ConnIs DEF Within
  <1>4. latest \in Nat /\ last <= latest /\ last \in Nat
    BY <1>1, <1>3, BufferIs, LastIs
  <1> HIDE DEF latest
  <1>5. t \in Nat /\ (t = latest \/ (t = 0 /\ c \in SseClients))
    BY <1>1, <1>3, <1>4 DEF Within
  <1>6. c \in SseClients => t = 0
    BY <1>1 DEF Within
  <1> HIDE DEF t
  <1>7. /\ k \in ConnStates /\ k.at = "on" /\ k.pos = j.pos /\ k.seam = latest
        /\ k.tail = t /\ k.pending = <<>> /\ k.sub = j.sub
    BY <1>3, <1>4, <1>5, EmptyIs DEF ConnStates
  <1> HIDE DEF k
  <1>8. kn \in SUBSET Nat /\ bl \in SUBSET Nat
    BY <1>1, <1>3, <1>4, LastIs
  <1>9. k \in ConnStates
    BY <1>7
  <1> SUFFICES ASSUME FitsWith(c, k, once[c], latest, stale[c], kn, bl)
               PROVE  ClientOf(c)'
    <2> HIDE DEF kn, bl
    <2> QED BY <1>2, <1>3, <1>4, <1>8, <1>9, MoveKeeps
  <1>10. /\ conn'[c] = k /\ once'[c] = once[c] /\ cursor'[c] = latest /\ known'[c] = kn
         /\ blind'[c] = bl /\ hub' = hub
    BY DEF FitsWith, Source
  <1>11. Told(c)' = kn \cup bl /\ Marks(conn[c])' = {latest, t}
    BY <1>7, <1>10, EmptyIs DEF Told, Marks
  <1>12. Taken(conn[c].pos)' = Taken(j.pos) /\ Taken(j.pos) \subseteq kn \cup bl
    <2>1. Taken(j.pos) \subseteq 1..last \cup InFlight
      BY <1>1, <1>3, TakenWithin
    <2>2. 1..last \subseteq 1..latest
      BY <1>4
    <2> QED BY <1>7, <1>10, <2>1, <2>2 DEF Taken
  <1>13. once[c]
    BY <1>1 DEF Cursors
  <1>14. Cursors(c)' /\ Reading(c)'
    BY <1>7, <1>10, <1>13 DEF Cursors, Reading
  <1>15. Within(c)'
    BY <1>3, <1>6, <1>7, <1>10, EmptyIs DEF Within
  <1>16. AllTold(c)'
    <2>1. 1..latest \subseteq kn \cup bl /\ 1..t \subseteq kn \cup bl
      BY <1>5
    <2> HIDE DEF kn, bl
    <2> QED BY <1>11, <1>12, <2>1 DEF AllTold
  <1>17. Ahead(c)'
    BY <1>4, <1>7, <1>10, EmptyIs DEF Ahead
  <1> QED BY <1>14, <1>15, <1>16, <1>17 DEF ClientOf

\* SSE resyncs.
LEMMA SseResyncKeeps ==
  ASSUME EventsInv, NEW c \in SseClients, SseResync(c)
  PROVE  EventsInv' /\ NoneBack
  <1>1. /\ c \in EventClients /\ conn[c].at = "lagged" /\ Resynced(c, TRUE)
        /\ UNCHANGED <<nextSeq, flight, buffer, hub, once, stale>>
    BY DEF EventClients, SseResync
  <1> QED BY <1>1, ResyncedKeeps

-----------------------------------------------------------------------------
(* The WebSocket pump                                                      *)

\* The pump resyncs, if there is a subscription.
LEMMA WsResyncKeeps ==
  ASSUME EventsInv, NEW c \in WsClients, WsResync(c)
  PROVE  EventsInv' /\ NoneBack
  <1>1. /\ EventTypes /\ c \in EventClients /\ c \notin SseClients /\ conn[c].at = "lagged"
        /\ UNCHANGED <<nextSeq, flight, buffer, hub, once, stale>>
    BY ClientIs, EventsAssumption DEF EventClients, WsResync
  <1>2. CASE conn[c].sub
    <2>1. Resynced(c, FALSE)
      BY <1>2 DEF WsResync
    <2> QED BY <1>1, <1>2, <2>1, ResyncedKeeps
  <1>3. CASE ~ conn[c].sub
    <2>1. ConnMoves(c, [conn[c] EXCEPT !.at = "on"])
      <3>1. conn' = [conn EXCEPT ![c].at = "on"] /\ UNCHANGED <<cursor, known, blind>>
        BY <1>3 DEF WsResync
      <3> QED BY <1>1, <3>1 DEF EventTypes, ConnMoves, Source
    <2> QED BY <1>1, <1>3, <2>1, TurnKeeps
  <1> QED BY <1>2, <1>3

\* The decision becomes the subscription: its backlog ends at the snapshot's tail.
LEMMA WsSubscribeKeeps ==
  ASSUME EventsInv, NEW c \in WsClients, WsSubscribe(c)
  PROVE  EventsInv' /\ NoneBack
  <1> DEFINE j == conn[c]
             after == After(c)
             plan == plan_catch_up(after)
             kind == plan.kind
             events == plan.events
             seam == SeamOf(plan, after)
             lost == kind = "sync_lost"
             s == IF kind = "replay" THEN 0 ELSE seam
             t == IF kind \in {"replay", "sync_lost"} THEN seam ELSE 0
             k == [at |-> "drain", pos |-> j.pos, sub |-> TRUE, pending |-> events,
                   seam |-> s, tail |-> t]
             cu == IF lost THEN seam ELSE cursor[c]
             kn == known[c] \cup (IF lost THEN 1..seam
                                  ELSE IF after = Live THEN SeqsIn(SubSeq(hub, 1, j.pos))
                                  ELSE IF stale[c] THEN {} ELSE 1..after)
             bl == blind[c] \cup InFlight \cup Hidden(c, after)
  <1>1. /\ EventTypes /\ BufferNewest /\ HubInOrder /\ Cursors(c) /\ Within(c)
        /\ c \in EventClients /\ c \notin SseClients /\ MaxSeq \in Nat
    BY ClientIs, EventsAssumption DEF EventClients
  <1>2. Decided(kind, events, seam, after)
    BY <1>1, ConnIs, PlanIs
  <1>3. j.at = "reading" /\ ClientMoves(c, k, TRUE, cu, FALSE, kn, bl)
    BY <1>1 DEF WsSubscribe, Subscribed, ClientMoves, EventTypes, Source
  <1> HIDE DEF kind, events, seam, plan, after
  <1>4. /\ after \in Nat \cup {Live} /\ (after # Live => cursor[c] = after)
        /\ (after = Live => cursor[c] = 0) /\ cursor[c] \in Nat
        /\ j.pos \in Nat /\ j.pos <= Len(hub) /\ stale[c] \in BOOLEAN
        /\ known[c] \subseteq Nat /\ blind[c] \subseteq Nat
    BY <1>1, ConnIs DEF after, Within, Cursors
  <1>5. SeqsIn(SubSeq(hub, 1, j.pos)) = Taken(j.pos)
    BY <1>1, <1>4, TakenIs
  <1>6. Taken(j.pos) \subseteq 1..last \cup InFlight /\ Taken(j.pos) \subseteq Nat
    BY <1>1, <1>4, TakenWithin
  <1>7. /\ events \in Seq(EventSeqs) /\ seam \in Nat /\ Ordered(events)
        /\ \A m \in SeqsIn(events) : after < m /\ m <= seam
        /\ kind \in {"live", "current", "replay", "sync_lost"} /\ (kind = "live" <=> after = Live)
        /\ (kind # "replay" => events = <<>>)
    BY <1>1, <1>2, DecidedIs
  <1>8. /\ k \in ConnStates /\ k.at = "drain" /\ k.pos = j.pos /\ k.seam = s
        /\ k.tail = t /\ k.pending = events /\ k.sub
    BY <1>4, <1>7 DEF ConnStates
  <1> HIDE DEF k
  <1>9. cu \in Nat /\ kn \in SUBSET Nat /\ bl \in SUBSET Nat /\ k \in ConnStates
    <2>1. 1..seam \subseteq Nat /\ InFlight \subseteq Nat /\ (after # Live => 1..after \subseteq Nat)
      BY <1>1, <1>4, <1>7, LastIs
    <2>2. bl \subseteq Nat
      BY <1>4, <2>1 DEF Hidden
    <2>3. kn \subseteq Nat
      BY <1>4, <1>5, <1>6, <2>1
    <2> QED BY <1>4, <1>7, <1>8, <2>2, <2>3
  <1> SUFFICES ASSUME FitsWith(c, k, TRUE, cu, FALSE, kn, bl)
               PROVE  ClientOf(c)'
    <2> HIDE DEF kn, bl, cu
    <2> QED BY <1>1, <1>3, <1>9, MoveKeeps
  <1>10. /\ conn'[c] = k /\ once'[c] /\ cursor'[c] = cu /\ known'[c] = kn
         /\ blind'[c] = bl /\ hub' = hub
    BY DEF FitsWith, Source
  <1>11. Taken(conn[c].pos)' = Taken(j.pos)
    BY <1>8, <1>10 DEF Taken
  <1>12. Marks(conn[c])' = {s, t} \cup SeqsIn(events) /\ Told(c)' = kn \cup bl \cup SeqsIn(events)
    BY <1>8, <1>10 DEF Marks, Told
  <1>13. Cursors(c)' /\ Reading(c)'
    BY <1>1, <1>10 DEF Cursors, Reading
  <1>14. Within(c)'
    BY <1>1, <1>4, <1>7, <1>8, <1>10 DEF Within, Ordered
  <1>15. /\ 1..seam \subseteq kn \cup bl \cup SeqsIn(events)
         /\ Taken(j.pos) \subseteq kn \cup bl \cup SeqsIn(events)
    <2>1. CASE kind = "sync_lost"
      <3>1. seam = last /\ 1..seam \subseteq kn
        BY <1>1, <1>2, <2>1, DecidedIs
      <3> HIDE DEF kn
      <3> QED BY <1>6, <3>1
    <2>2. CASE kind = "live"
      <3>1. seam = 0 /\ Taken(j.pos) \subseteq kn /\ 1..0 = {}
        BY <1>1, <1>2, <1>5, <1>7, <2>2, DecidedIs
      <3> HIDE DEF kn, bl
      <3> QED BY <3>1
    <2>3. CASE kind \in {"current", "replay"}
      <3>1. 1..after \subseteq kn \cup Hidden(c, after)
        BY <1>4, <1>7, <2>3 DEF Hidden
      <3>2. /\ 1..seam \subseteq 1..after \cup SeqsIn(events)
            /\ 1..last \subseteq 1..after \cup SeqsIn(events)
        BY <1>1, <1>2, <2>3, DecidedIs
      <3> HIDE DEF kn
      <3> QED BY <1>6, <3>1, <3>2
    <2> QED BY <1>7, <2>1, <2>2, <2>3
  <1>16. \A m \in {s, t} \cup SeqsIn(events) : 1..m \subseteq 1..seam
    <2>1. \A m \in {s, t} \cup SeqsIn(events) : m \in Nat /\ m <= seam
      BY <1>7, SeqsInIs
    <2> QED BY <1>7, <2>1
  <1>17. AllTold(c)'
    <2> HIDE DEF kn, bl, s, t
    <2> QED BY <1>11, <1>12, <1>15, <1>16 DEF AllTold
  <1>18. /\ cu <= s \/ cu <= t
         /\ \A m \in SeqsIn(events) : cu < m /\ m <= t
    <2>1. CASE kind = "replay"
      <3>1. after \in Nat /\ after <= seam /\ cu = after /\ t = seam
        BY <1>1, <1>2, <1>4, <1>7, <2>1, DecidedIs
      <3> QED BY <1>7, <3>1
    <2>2. CASE kind # "replay"
      <3>1. SeqsIn(events) = {}
        BY <1>7, <2>2, EmptyIs
      <3>2. cu <= s
        BY <1>1, <1>2, <1>4, <1>7, <2>2, DecidedIs
      <3> QED BY <3>1, <3>2
    <2> QED BY <2>1, <2>2
  <1>19. Ahead(c)'
    <2> HIDE DEF kn, bl, s, t, cu
    <2> QED BY <1>1, <1>8, <1>10, <1>18 DEF Ahead
  <1> QED BY <1>13, <1>14, <1>17, <1>19 DEF ClientOf

\* A number appended to a backlog.
LEMMA Appended ==
  ASSUME NEW s \in Seq(EventSeqs), NEW n \in EventSeqs, Ordered(s), \A m \in SeqsIn(s) : m < n
  PROVE  /\ Append(s, n) \in Seq(EventSeqs) /\ Ordered(Append(s, n))
         /\ SeqsIn(Append(s, n)) = SeqsIn(s) \cup {n}
  <1> DEFINE a == Append(s, n)
  <1>1. /\ a \in Seq(EventSeqs) /\ Len(a) = Len(s) + 1 /\ Len(s) \in Nat
        /\ \A i \in 1..Len(s) : a[i] = s[i]
        /\ a[Len(s) + 1] = n
    BY AppendProperties, LenProperties
  <1> HIDE DEF a
  <1>2. 1..Len(a) = 1..Len(s) \cup {Len(s) + 1}
    BY <1>1
  <1>3. SeqsIn(a) = {a[i] : i \in 1..Len(a)} /\ SeqsIn(s) = {s[i] : i \in 1..Len(s)}
    BY <1>1, SeqsInIs
  <1>4. SeqsIn(a) = SeqsIn(s) \cup {n}
    BY <1>1, <1>2, <1>3
  <1>5. ASSUME NEW i \in 1..Len(a), NEW j \in 1..Len(a), i < j
        PROVE  a[i] < a[j]
    <2>1. i \in 1..Len(s) /\ a[i] = s[i] /\ (j \in 1..Len(s) \/ j = Len(s) + 1)
      BY <1>1, <1>5
    <2>2. CASE j \in 1..Len(s)
      BY <1>1, <1>5, <2>1, <2>2 DEF Ordered
    <2>3. CASE j = Len(s) + 1
      BY <1>1, <1>3, <2>1, <2>3
    <2> QED BY <2>1, <2>2, <2>3
  <1> QED BY <1>1, <1>4, <1>5 DEF Ordered, a

\* A live event behind a backlog.
LEMMA QueueKeeps ==
  ASSUME EventsInv, NEW c \in WsClients, NEW k \in ConnStates, ConnMoves(c, k),
         conn[c].at = "on", conn[c].pos < Len(hub), conn[c].sub,
         NextOf(c) # 0, ~ (NextOf(c) <= conn[c].seam), ~ (NextOf(c) <= conn[c].tail),
         k.at = "drain", k.pos = conn[c].pos + 1,
         k.seam = conn[c].seam, k.tail = conn[c].tail,
         k.pending = Append(conn[c].pending, NextOf(c)), k.sub
  PROVE  EventsInv' /\ NoneBack
  <1> DEFINE n == NextOf(c)
             j == conn[c]
  <1>1. /\ EventTypes /\ HubInOrder /\ Cursors(c) /\ Within(c) /\ AllTold(c) /\ Ahead(c)
        /\ c \in EventClients /\ c \notin SseClients /\ MaxSeq \in Nat /\ Joined(c)
    BY ClientIs, EventsAssumption DEF Joined, EventClients
  <1>2. /\ j.pos \in Nat /\ j.seam \in Nat /\ j.tail \in Nat /\ cursor[c] \in Nat
        /\ j.pending \in Seq(EventSeqs) /\ Len(hub) \in Nat
    BY <1>1, ConnIs, HubIs
  <1>3. /\ n \in EventSeqs /\ n \in Nat /\ 1..n \subseteq Taken(j.pos) \cup {n}
        /\ \A m \in Taken(j.pos) : m < n
    BY <1>1, <1>2, NextFollows DEF NextOf, EventSeqs
  <1>4. Taken(k.pos) = Taken(j.pos) \cup {n}
    BY <1>2, TakenNext DEF NextOf
  <1>5. /\ cursor[c] <= j.seam \/ cursor[c] <= j.tail
        /\ \A m \in SeqsIn(j.pending) : cursor[c] < m /\ (m <= j.tail \/ m \in Taken(j.pos))
    BY <1>1 DEF Ahead
  <1>6. cursor[c] < n
    BY <1>2, <1>3, <1>5
  <1>7. \A m \in SeqsIn(j.pending) : m < n
    BY <1>2, <1>3, <1>5, SeqsInIs
  <1>8. Ordered(j.pending)
    BY <1>1 DEF Within, Ordered
  <1> SUFFICES ASSUME FitsWith(c, k, once[c], cursor[c], stale[c], known[c], blind[c])
               PROVE  ClientOf(c)'
    BY <1>1, ConnMoveKeeps
  <1>9. /\ conn'[c] = k /\ once'[c] = once[c] /\ cursor'[c] = cursor[c] /\ known'[c] = known[c]
        /\ blind'[c] = blind[c] /\ hub' = hub
    BY DEF FitsWith, Source
  <1>10. Ordered(k.pending) /\ SeqsIn(k.pending) = SeqsIn(j.pending) \cup {n}
    BY <1>2, <1>3, <1>7, <1>8, Appended
  <1> HIDE DEF n
  <1>11. Told(c)' = Told(c) \cup {n} /\ Marks(conn[c])' = Marks(j) \cup {n}
    BY <1>9, <1>10 DEF Told, Marks
  <1>12. Taken(conn[c].pos)' = Taken(k.pos)
    BY <1>9 DEF Taken
  <1>13. Cursors(c)' /\ Reading(c)'
    BY <1>1, <1>9 DEF Cursors, Reading
  <1>14. Within(c)'
    <2>1. k.pos <= Len(hub)
      BY <1>2
    <2> QED BY <1>1, <1>9, <1>10, <2>1 DEF Within, Ordered
  <1>15. AllTold(c)'
    <2>1. (\A m \in Marks(j) : 1..m \subseteq Told(c)) /\ Taken(j.pos) \subseteq Told(c)
      BY <1>1 DEF AllTold
    <2> QED BY <1>3, <1>4, <1>9, <1>11, <1>12, <2>1 DEF AllTold
  <1>16. Ahead(c)'
    BY <1>1, <1>4, <1>5, <1>6, <1>9, <1>10, <1>12 DEF Ahead
  <1> QED BY <1>13, <1>14, <1>15, <1>16 DEF ClientOf

\* The pump takes one event.
LEMMA WsRecvKeeps ==
  ASSUME EventsInv, NEW c \in WsClients, WsRecv(c)
  PROVE  EventsInv' /\ NoneBack
  <1> DEFINE n == NextOf(c)
             k == [conn[c] EXCEPT !.pos = conn[c].pos + 1, !.at = "drain"]
  <1>1. /\ EventTypes /\ HubInOrder /\ Within(c) /\ AllTold(c)
        /\ c \in EventClients /\ HubCap \in Nat /\ MaxSeq \in Nat
    BY ClientIs, EventsAssumption DEF EventClients
  <1>2. /\ conn[c] \in ConnStates /\ conn[c].pos \in Nat /\ conn[c].seam \in Nat
        /\ conn[c].tail \in Nat /\ conn[c].pending \in Seq(EventSeqs) /\ Len(hub) \in Nat
    BY <1>1, ConnIs, HubIs
  <1>3. conn[c].at = "on" /\ conn[c].pos < Len(hub) /\ Joined(c)
    <2>1. conn[c].at = "on" /\ Behind(c) \in 1..HubCap
      BY DEF WsRecv
    <2>2. conn[c].pos < Len(hub)
      BY <1>1, <1>2, <2>1 DEF Behind
    <2> QED BY <2>1, <2>2 DEF Joined
  <1>4. n \in Nat /\ (n # 0 => n \in EventSeqs)
    <2>1. conn[c].pos + 1 \in 1..Len(hub)
      BY <1>2, <1>3
    <2> QED BY <1>1, <2>1, HubIs DEF NextOf, EventSeqs
  <1>5. /\ k \in ConnStates /\ k.at = "drain" /\ k.pos = conn[c].pos + 1 /\ k.seam = conn[c].seam
        /\ k.tail = conn[c].tail /\ k.pending = conn[c].pending /\ k.sub = conn[c].sub
    <2>1. conn[c].pos + 1 \in Nat
      BY <1>2
    <2> QED BY <1>2, <2>1 DEF ConnStates
  <1>6. CASE WsDuplicate(c, n)
    <2>1. ConnMoves(c, k)
      BY <1>6 DEF WsRecv, NextOf, ConnMoves, Source
    <2>2. n = 0 \/ n \in Told(c) \/ ~ conn[c].sub
      <3>1. 1..conn[c].seam \subseteq Told(c) /\ 1..conn[c].tail \subseteq Told(c)
        BY <1>1, <1>3 DEF AllTold, Marks
      <3> QED BY <1>2, <1>4, <1>6, <3>1 DEF WsDuplicate
    <2> HIDE DEF k
    <2> QED BY <1>1, <1>3, <1>5, <2>1, <2>2, SkipKeeps
  <1>7. ASSUME ~ WsDuplicate(c, n)
        PROVE  n # 0 /\ conn[c].sub /\ ~ (n <= conn[c].seam) /\ ~ (n <= conn[c].tail)
    BY <1>7 DEF WsDuplicate
  <1>8. CASE ~ WsDuplicate(c, n) /\ conn[c].pending = <<>>
    <2> DEFINE l == [k EXCEPT !.seam = n]
    <2>1. /\ conn' = [conn EXCEPT ![c] = l] /\ Given(c, <<n>>)
          /\ UNCHANGED <<nextSeq, flight, buffer, hub, once, stale, blind>>
      BY <1>5, <1>8 DEF WsRecv, NextOf
    <2>2. /\ l \in ConnStates /\ l.at = "drain" /\ l.pos = conn[c].pos + 1 /\ l.seam = n
          /\ l.tail = conn[c].tail /\ l.pending = conn[c].pending /\ l.sub = conn[c].sub
      <3> HIDE DEF k, n
      <3> QED BY <1>4, <1>5 DEF ConnStates
    <2>3. ClientMoves(c, l, once[c], n, stale[c], known[c] \cup {n}, blind[c])
      <3>1. cursor' = [cursor EXCEPT ![c] = n] /\ known' = [known EXCEPT ![c] = known[c] \cup {n}]
        BY <1>1, <1>7, <1>8, <2>1, GivenOne
      <3> HIDE DEF n, l
      <3> QED BY <1>1, <2>1, <3>1 DEF ClientMoves, Source, EventTypes
    <2> HIDE DEF l
    <2> QED BY <1>1, <1>3, <1>7, <1>8, <2>2, <2>3, TakeKeeps
  <1>9. CASE ~ WsDuplicate(c, n) /\ conn[c].pending # <<>>
    <2> DEFINE l == [k EXCEPT !.pending = Append(conn[c].pending, n)]
    <2>1. ConnMoves(c, l)
      BY <1>5, <1>9 DEF WsRecv, NextOf, ConnMoves, Source
    <2>2. Append(conn[c].pending, n) \in Seq(EventSeqs)
      BY <1>2, <1>4, <1>7, <1>9, AppendProperties
    <2>3. /\ l \in ConnStates /\ l.at = "drain" /\ l.pos = conn[c].pos + 1 /\ l.seam = conn[c].seam
          /\ l.tail = conn[c].tail /\ l.pending = Append(conn[c].pending, n) /\ l.sub = conn[c].sub
      <3> HIDE DEF k, n
      <3> QED BY <1>5, <2>2 DEF ConnStates
    <2> HIDE DEF l
    <2> QED BY <1>3, <1>7, <1>9, <2>1, <2>3, QueueKeeps
  <1> QED BY <1>6, <1>8, <1>9

\* A backlog cut after its first n.
Pieces(s, n, a, b) == a = SubSeq(s, 1, n) /\ b = SubSeq(s, n + 1, Len(s))

\* What its two pieces are.
LEMMA Cut ==
  ASSUME NEW s \in Seq(EventSeqs), Ordered(s), NEW n \in 0..Len(s), NEW a, NEW b,
         Pieces(s, n, a, b)
  PROVE  /\ a \in Seq(EventSeqs) /\ Len(a) = n /\ b \in Seq(EventSeqs) /\ Ordered(b)
         /\ SeqsIn(a) \cup SeqsIn(b) = SeqsIn(s)
         /\ n # 0 => a[n] \in SeqsIn(s) /\ \A m \in SeqsIn(b) : a[n] < m
  <1>1. Len(s) \in Nat /\ n \in Int /\ n + 1 \in Int /\ \A i \in 1..Len(s) : s[i] \in EventSeqs
    BY LenProperties, ElementOfSeq
  <1>2. a \in Seq(EventSeqs) /\ Len(a) = n /\ \A i \in 1..n : a[i] = s[i]
    <2>1. \A i \in 1..n : s[i] \in EventSeqs
      BY <1>1
    <2> QED BY <1>1, <2>1, SubSeqProperties DEF Pieces
  <1>3. b \in Seq(EventSeqs) /\ Len(b) = Len(s) - n /\ \A i \in 1..(Len(s) - n) : b[i] = s[n + i]
    <2>1. \A i \in (n + 1)..Len(s) : s[i] \in EventSeqs
      BY <1>1
    <2> QED BY <1>1, <2>1, SubSeqProperties DEF Pieces
  <1>4. /\ SeqsIn(a) = {a[i] : i \in 1..Len(a)} /\ SeqsIn(b) = {b[i] : i \in 1..Len(b)}
        /\ SeqsIn(s) = {s[i] : i \in 1..Len(s)}
    BY <1>2, <1>3, SeqsInIs
  <1>5. Ordered(b)
    <2> SUFFICES ASSUME NEW i \in 1..Len(b), NEW j \in 1..Len(b), i < j PROVE b[i] < b[j]
      BY DEF Ordered
    <2>1. n + i \in 1..Len(s) /\ n + j \in 1..Len(s) /\ n + i < n + j
      BY <1>1, <1>3
    <2> QED BY <1>3, <2>1 DEF Ordered
  <1>6. SeqsIn(a) \cup SeqsIn(b) \subseteq SeqsIn(s)
    <2>1. \A i \in 1..Len(a) : i \in 1..Len(s) /\ a[i] = s[i]
      BY <1>1, <1>2
    <2>2. \A i \in 1..Len(b) : n + i \in 1..Len(s) /\ b[i] = s[n + i]
      BY <1>1, <1>3
    <2> QED BY <1>4, <2>1, <2>2
  <1>7. SeqsIn(s) \subseteq SeqsIn(a) \cup SeqsIn(b)
    <2> SUFFICES ASSUME NEW i \in 1..Len(s) PROVE s[i] \in SeqsIn(a) \cup SeqsIn(b)
      BY <1>4
    <2>1. CASE i <= n
      BY <1>1, <1>2, <1>4, <2>1
    <2>2. CASE ~ (i <= n)
      <3>1. i - n \in 1..Len(b) /\ b[i - n] = s[i]
        BY <1>1, <1>3, <2>2
      <3> QED BY <1>4, <3>1
    <2> QED BY <2>1, <2>2
  <1>8. ASSUME n # 0
        PROVE  a[n] \in SeqsIn(s) /\ \A m \in SeqsIn(b) : a[n] < m
    <2>1. n \in 1..Len(a) /\ n \in 1..Len(s) /\ a[n] = s[n]
      BY <1>1, <1>2, <1>8
    <2>2. ASSUME NEW i \in 1..Len(b)
          PROVE  a[n] < b[i]
      <3>1. n + i \in 1..Len(s) /\ n < n + i /\ b[i] = s[n + i]
        BY <1>1, <1>3
      <3> QED BY <2>1, <3>1 DEF Ordered
    <2> QED BY <1>4, <2>1, <2>2
  <1> QED BY <1>2, <1>3, <1>5, <1>6, <1>7, <1>8

\* The first of the backlog go out, in order, and the seam is the last of them.
LEMMA drain_pendingKeeps ==
  ASSUME EventsInv, NEW c \in WsClients, drain_pending(c)
  PROVE  EventsInv' /\ NoneBack
  <1> DEFINE j == conn[c]
             n == Smaller(ReplayBatch, Len(j.pending))
             sent == SubSeq(j.pending, 1, n)
             left == SubSeq(j.pending, n + 1, Len(j.pending))
             s == IF n = 0 THEN j.seam ELSE sent[n]
             k == [j EXCEPT !.at = "on", !.pending = left, !.seam = s]
             cu == Upto(sent, cursor[c])
             kn == known[c] \cup SeqsIn(sent)
  <1>1. /\ EventTypes /\ Cursors(c) /\ Within(c) /\ AllTold(c) /\ Ahead(c)
        /\ c \in EventClients /\ c \notin SseClients /\ MaxSeq \in Nat
        /\ ReplayBatch \in Nat /\ ReplayBatch >= 1
    BY ClientIs, EventsAssumption DEF EventClients
  <1>2. j.at = "drain" /\ ClientMoves(c, k, once[c], cu, stale[c], kn, blind[c])
    BY <1>1 DEF drain_pending, Given, Upto, ClientMoves, EventTypes, Source
  <1>3. /\ j \in ConnStates /\ j.pos \in Nat /\ j.seam \in Nat /\ j.tail \in Nat
        /\ j.pending \in Seq(EventSeqs) /\ Len(j.pending) \in Nat
        /\ once[c] \in BOOLEAN /\ cursor[c] \in Nat /\ stale[c] \in BOOLEAN
        /\ known[c] \subseteq Nat /\ blind[c] \in SUBSET Nat
    BY <1>1, ConnIs, LenProperties
  <1>4. n \in 0..Len(j.pending) /\ n \in Nat /\ (n = 0 <=> j.pending = <<>>)
    BY <1>1, <1>3, EmptySeq DEF Smaller
  <1> HIDE DEF n
  <1>5. Ordered(j.pending)
    BY <1>1 DEF Within, Ordered
  <1>0. sent = SubSeq(j.pending, 1, n) /\ left = SubSeq(j.pending, n + 1, Len(j.pending))
    OBVIOUS
  <1> HIDE DEF sent, left
  <1>6. /\ sent \in Seq(EventSeqs) /\ Len(sent) = n /\ left \in Seq(EventSeqs) /\ Ordered(left)
        /\ SeqsIn(sent) \cup SeqsIn(left) = SeqsIn(j.pending)
        /\ n # 0 => sent[n] \in SeqsIn(j.pending) /\ \A m \in SeqsIn(left) : sent[n] < m
    <2> DEFINE p == j.pending
    <2>1. /\ p \in Seq(EventSeqs) /\ Ordered(p) /\ n \in 0..Len(p)
          /\ Pieces(p, n, sent, left)
      BY <1>0, <1>3, <1>4, <1>5 DEF Pieces
    <2> HIDE DEF p
    <2>2. /\ sent \in Seq(EventSeqs) /\ Len(sent) = n /\ left \in Seq(EventSeqs) /\ Ordered(left)
          /\ SeqsIn(sent) \cup SeqsIn(left) = SeqsIn(p)
          /\ n # 0 => sent[n] \in SeqsIn(p) /\ \A m \in SeqsIn(left) : sent[n] < m
      BY <2>1, Cut
    <2> QED BY <2>2 DEF p
  <1>7. SeqsIn(j.pending) \subseteq Nat /\ SeqsIn(sent) \subseteq Nat
    BY <1>3, <1>6, SeqsInIs
  <1>8. /\ n = 0 => cu = cursor[c] /\ s = j.seam /\ SeqsIn(j.pending) = {} /\ SeqsIn(left) = {}
        /\ n # 0 => cu = sent[n] /\ s = sent[n]
    <2>1. sent = <<>> <=> n = 0
      BY <1>4, <1>6, EmptySeq
    <2> QED BY <1>4, <1>6, <2>1, EmptyIs DEF Upto
  <1>9. cu \in Nat /\ s \in Nat
    BY <1>3, <1>6, <1>7, <1>8
  <1> HIDE DEF s, cu
  <1>10. /\ k \in ConnStates /\ k.at = "on" /\ k.pos = j.pos /\ k.seam = s
         /\ k.tail = j.tail /\ k.pending = left /\ k.sub = j.sub
    BY <1>3, <1>6, <1>9 DEF ConnStates
  <1> HIDE DEF k
  <1>11. /\ \A m \in Marks(j) : 1..m \subseteq Told(c)
         /\ j.sub => Taken(j.pos) \subseteq Told(c)
         /\ j.sub => cursor[c] <= j.seam \/ cursor[c] <= j.tail
         /\ j.sub => \A m \in SeqsIn(j.pending) : cursor[c] < m /\ (m <= j.tail \/ m \in Taken(j.pos))
         /\ ~ j.sub => j.pending = <<>>
         /\ j.sub => once[c] /\ j.pos <= Len(hub)
    BY <1>1, <1>2 DEF AllTold, Ahead, Cursors, Within, Joined
  <1>12. ~ (cu < cursor[c])
    BY <1>3, <1>4, <1>6, <1>7, <1>8, <1>11
  <1> SUFFICES ASSUME FitsWith(c, k, once[c], cu, stale[c], kn, blind[c])
               PROVE  ClientOf(c)'
    <2>1. kn \in SUBSET Nat /\ k \in ConnStates
      BY <1>3, <1>7, <1>10
    <2> HIDE DEF kn
    <2> QED BY <1>1, <1>2, <1>3, <1>9, <1>12, <2>1, MoveKeeps
  <1>13. /\ conn'[c] = k /\ once'[c] = once[c] /\ cursor'[c] = cu /\ known'[c] = kn
         /\ blind'[c] = blind[c] /\ hub' = hub
    BY DEF FitsWith, Source
  <1>14. Told(c)' = Told(c) /\ Taken(conn[c].pos)' = Taken(j.pos)
    BY <1>6, <1>10, <1>13 DEF Told, Taken
  <1>15. Marks(conn[c])' \subseteq Marks(j)
    BY <1>6, <1>8, <1>10, <1>13 DEF Marks
  <1>16. ~ j.sub => n = 0 /\ left = <<>>
    <2>1. Len(left) \in Nat /\ (n = 0 => left = <<>>)
      <3>1. ASSUME n = 0 PROVE left = <<>>
        <4>1. SeqsIn(left) = {}
          BY <1>8, <3>1
        <4>2. \A i \in 1..Len(left) : left[i] \in SeqsIn(left)
          BY <1>6, SeqsInIs
        <4>3. Len(left) = 0
          BY <1>6, <4>1, <4>2, LenProperties
        <4> QED BY <1>6, <4>3, EmptySeq
      <3> QED BY <1>6, <3>1, LenProperties
    <2> QED BY <1>4, <1>11, <2>1
  <1>17. Cursors(c)' /\ Reading(c)'
    BY <1>1, <1>2, <1>8, <1>10, <1>11, <1>13, <1>16 DEF Cursors, Reading
  <1>18. Within(c)'
    BY <1>1, <1>6, <1>10, <1>13, <1>16 DEF Within, Ordered
  <1>19. AllTold(c)'
    BY <1>1, <1>10, <1>11, <1>13, <1>14, <1>15 DEF AllTold
  <1>20. Ahead(c)'
    <2>1. ASSUME j.sub
          PROVE  /\ cu <= s \/ cu <= j.tail
                 /\ \A m \in SeqsIn(left) : cu < m /\ (m <= j.tail \/ m \in Taken(j.pos))
      BY <1>6, <1>8, <1>9, <1>11, <2>1
    <2> QED BY <1>1, <1>10, <1>13, <1>14, <2>1 DEF Ahead
  <1> QED BY <1>17, <1>18, <1>19, <1>20 DEF ClientOf

-----------------------------------------------------------------------------
(* The streams are sound and in order                                      *)

\* At the start nobody is connected.
LEMMA EventsInitHolds == EventsInit => EventsInv
  <1> SUFFICES ASSUME EventsInit PROVE EventsInv
    OBVIOUS
  <1>1. /\ nextSeq = 1 /\ flight = 0 /\ buffer = <<>> /\ hub = <<>>
        /\ conn = [c \in EventClients |-> Off] /\ once = [c \in EventClients |-> FALSE]
        /\ cursor = [c \in EventClients |-> 0] /\ known = [c \in EventClients |-> {}]
        /\ stale = [c \in EventClients |-> FALSE] /\ blind = [c \in EventClients |-> {}]
    BY DEF EventsInit
  <1>2. /\ <<>> \in Seq(Nat) /\ <<>> \in Seq(0..MaxSeq) /\ Len(<<>>) = 0 /\ MaxSeq \in Nat
        /\ BufferCap \in Nat /\ Off \in ConnStates
    BY EmptySeq, OffIs, EventsAssumption
  <1>3. EventTypes
    BY <1>1, <1>2 DEF EventTypes
  <1>4. BufferNewest /\ HubInOrder
    BY <1>1, <1>2 DEF BufferNewest, HubInOrder, last, Smaller
  <1>5. ASSUME NEW c \in EventClients
        PROVE  ClientOf(c)
    <2>1. conn[c] = Off /\ cursor[c] = 0
      BY <1>1
    <2>2. Cursors(c)
      BY <2>1, OffIs DEF Cursors, Joined
    <2>3. Within(c)
      BY <1>1, <1>2, <2>1, OffIs, EmptyIs DEF Within
    <2>4. AllTold(c) /\ Ahead(c) /\ Reading(c)
      BY <2>1, OffIs DEF AllTold, Ahead, Reading, Joined
    <2> QED BY <2>2, <2>3, <2>4 DEF ClientOf
  <1> QED BY <1>3, <1>4, <1>5 DEF EventsInv

\* Every step keeps the invariant and no step but a resync takes a cursor back.
LEMMA EventsStepKeeps ==
  ASSUME EventsInv, EventsNext
  PROVE  EventsInv' /\ NoneBack
  <1>1. CASE EventSource
    BY <1>1, publishKeeps, pushKeeps, OtherSessionKeeps, RestartKeeps DEF EventSource
  <1>2. ASSUME NEW c \in EventClients, EventClient(c)
        PROVE  EventsInv' /\ NoneBack
    <2>1. CASE Disconnect(c)
      BY <2>1, DisconnectKeeps
    <2>2. CASE c \in SseClients /\ (SseRead(c) \/ SseStep(c))
      BY <2>2, SseReadKeeps, SseAttachKeeps, SseReplayKeeps, SseRecvKeeps, LaggedKeeps,
         SseResyncKeeps DEF SseStep
    <2>3. CASE c \in WsClients /\ (WsConnect(c) \/ WsControl(c) \/ WsUnsubscribe(c) \/ WsStep(c))
      BY <2>3, WsConnectKeeps, WsControlKeeps, WsUnsubscribeKeeps, WsSubscribeKeeps, WsRecvKeeps,
         LaggedKeeps, WsResyncKeeps, WsSpinKeeps, drain_pendingKeeps DEF WsStep
    <2> QED BY <1>2, <2>1, <2>2, <2>3 DEF EventClient
  <1> QED BY <1>1, <1>2 DEF EventsNext

\* Nor does a stutter.
LEMMA EventsStutter ==
  ASSUME EventsInv, UNCHANGED eventVars
  PROVE  EventsInv'
  <1>1. EventTypes /\ \A c \in EventClients : ClientOf(c)
    BY DEF EventsInv
  <1>2. ClientsStay /\ UNCHANGED Source
    BY DEF eventVars, ClientsStay, Source
  <1>3. BufferNewest' /\ HubInOrder'
    BY <1>2 DEF EventsInv, BufferNewest, HubInOrder, last, Source
  <1>4. Len(hub) \in Nat /\ hub' = hub
    BY <1>1, <1>2, HubIs DEF Source
  <1> QED BY <1>1, <1>2, <1>3, <1>4, SourceKeeps DEF EventTypes, Source

\* The invariant holds of every stream, whatever the hub and the buffer forget.
THEOREM EventsInductive == EventsSpec => []EventsInv
  <1>1. EventsInv /\ [EventsNext]_eventVars => EventsInv'
    BY EventsStepKeeps, EventsStutter
  <1> QED BY <1>1, EventsInitHolds, PTL DEF EventsSpec

\* What the run checks follows from it.
LEMMA EventsSound == EventsInv => StreamsSound
  <1> SUFFICES ASSUME EventsInv PROVE StreamsSound
    OBVIOUS
  <1>1. EventTypes /\ BufferNewest
    BY DEF EventsInv
  <1>2. ASSUME NEW c \in EventClients
        PROVE  /\ conn[c].pos <= Len(hub)
               /\ \A i \in 2..Len(conn[c].pending) : conn[c].pending[i] > conn[c].pending[i - 1]
    <2>1. Within(c) /\ conn[c].pending \in Seq(EventSeqs) /\ MaxSeq \in Nat
      BY ClientIs, ConnIs, EventsAssumption
    <2>2. ASSUME NEW i \in 2..Len(conn[c].pending)
          PROVE  conn[c].pending[i] > conn[c].pending[i - 1]
      <3>1. /\ i \in 1..Len(conn[c].pending) /\ i - 1 \in 1..Len(conn[c].pending) /\ i - 1 < i
        BY <2>1, LenProperties
      <3>2. conn[c].pending[i - 1] < conn[c].pending[i]
        BY <2>1, <3>1 DEF Within
      <3>3. conn[c].pending[i] \in Int /\ conn[c].pending[i - 1] \in Int
        BY <2>1, <3>1, ElementOfSeq DEF EventSeqs
      <3> QED BY <3>2, <3>3
    <2> QED BY <2>1, <2>2 DEF Within
  <1>3. EventsTypeOK
    <2>1. /\ last = nextSeq - 1 - (IF flight = 0 THEN 0 ELSE 1)
          /\ last = nextSeq - (IF flight = 0 THEN 1 ELSE 2)
      BY <1>1, HubIs DEF last
    <2>2. /\ Len(buffer) = Smaller(BufferCap, nextSeq - 1 - (IF flight = 0 THEN 0 ELSE 1))
          /\ \A i \in 1..Len(buffer) :
               buffer[i] = nextSeq - (IF flight = 0 THEN 1 ELSE 2) - (Len(buffer) - i)
      BY <1>1, <2>1 DEF BufferNewest
    <2> QED BY <1>1, <1>2, <2>2 DEF EventsTypeOK, EventTypes
  <1>4. NoSilentLoss
    <2> SUFFICES ASSUME NEW c \in EventClients, Following(c)
                 PROVE  SeqsIn(SubSeq(hub, 1, conn[c].pos))
                          \subseteq known[c] \cup blind[c] \cup SeqsIn(conn[c].pending)
      BY DEF NoSilentLoss
    <2>1. AllTold(c) /\ conn[c].pos \in Nat /\ conn[c].pos <= Len(hub)
      BY <1>2, ClientIs, ConnIs
    <2>2. SeqsIn(SubSeq(hub, 1, conn[c].pos)) = Taken(conn[c].pos)
      BY <1>1, <2>1, TakenIs
    <2>3. Taken(conn[c].pos) \subseteq Told(c)
      BY <2>1 DEF Following, AllTold, Joined
    <2> QED BY <2>2, <2>3 DEF Told
  <1> QED BY <1>3, <1>4 DEF StreamsSound

\* The buffer has no gap to replay from, and whatever a following connection has
\* taken from the hub has reached its client, waits in the backlog or was
\* announced as lost, but for the events of blind (get_session_events,
\* event_pump).
THEOREM StreamsSoundTheorem == EventsSpec => []StreamsSound
  BY EventsInductive, EventsSound, PTL

\* The numbers a client sees only grow, across replay, live events, backlogs and
\* reconnections, but where a subscription or a lag tells it to start over
\* (subscribe_session_events, drain_pending).
THEOREM DeliveredInOrderTheorem == EventsSpec => DeliveredInOrder
  <1>1. EventsInv /\ [EventsNext]_eventVars
          => [\A c \in EventClients :
                 cursor'[c] < cursor[c] => conn[c].at \in {"reading", "lagged"}]_eventVars
    BY EventsStepKeeps DEF NoneBack
  <1> QED BY <1>1, EventsInductive, PTL DEF EventsSpec, DeliveredInOrder
=============================================================================
