---------------------- MODULE MCSessionStores_proofs ----------------------
EXTENDS MCSessionStores, SessionStores_proofs, AgentLoop_proofs

(***************************************************************************)
(* Snapshots and /undo, for any number of files, agents, turns, edits and  *)
(* uses of /undo.  Manifests stay intact because a capture that is alone   *)
(* writes back what is still there (Alone).  /undo means what it says      *)
(* because at every moment, not only when it is used, going back to a turn *)
(* of the chat would give each file the content it had when that turn      *)
(* began (GoesBack): the oldest turn since that has the file saved it as   *)
(* it was, and a file that none has is untouched.  An edit keeps this      *)
(* since its file has been captured (Captured).                            *)
(***************************************************************************)

\* The snapshots alone: MCSessionStores checks them as one of its parts.
UndoSpec == CheckpointsInit /\ [][CheckpointsNext]_checkpointVars

Content == 0..(MaxEdits + 1)
Entry == [path : Files, blob : Nat]
Call == [at : {"idle", "ensured", "read", "ready"}, file : Files \cup {Resting.file},
         turn : 0..MaxTurns, read : Seq(Entry)]

TreeTypes ==
  /\ file \in [Files -> Content] /\ edits \in Nat /\ edits + Cardinality(Busy) <= MaxEdits + 1
  /\ cur \in 0..MaxTurns /\ open \in BOOLEAN /\ undos \in Nat

StoreTypes ==
  /\ dirs \in Seq(TurnIds) /\ Len(dirs) <= KeepN
  /\ manifest \in [TurnIds -> Seq(Entry)]
  /\ blobs = [t \in TurnIds |-> blobs[t]]
  /\ \A t \in TurnIds : \A n \in DOMAIN blobs[t] : blobs[t][n] \in Content

MarkTypes ==
  /\ base = [t \in TurnIds |-> base[t]]
  /\ raced \subseteq TurnIds /\ gone \subseteq TurnIds

\* Tool calls are for turns there have been.
CallTypes ==
  /\ writer \in [Writers -> Call]
  /\ \A w \in Writers : /\ writer[w].turn <= cur
                        /\ writer[w].at # "idle" => writer[w].turn \in TurnIds /\ writer[w].file \in Files

\* The chat's turns, oldest first; the open one is the last.
Chat ==
  /\ records \in Seq(TurnIds)
  /\ \A i \in 1..Len(records) : records[i] <= cur
  /\ \A i, j \in 1..Len(records) : i < j => records[i] < records[j]
  /\ open => Len(records) # 0 /\ records[Len(records)] = cur

\* There is nothing of a turn without a directory, such as one yet to come.
Directories ==
  \A t \in TurnIds : /\ Made(t) => t <= cur
                     /\ ~ Made(t) => manifest[t] = <<>> /\ DOMAIN blobs[t] = {}

IntactOf(t) ==
  /\ \A i, j \in 1..Len(manifest[t]) : manifest[t][i].path = manifest[t][j].path => i = j
  /\ \A i \in 1..Len(manifest[t]) : manifest[t][i].blob \in {0} \cup DOMAIN blobs[t]
  /\ DOMAIN blobs[t] \subseteq 1..Len(manifest[t])

Intact == \A t \in TurnIds \ raced : IntactOf(t)

\* A capture whose turn is not raced will write back what is there and one entry more.
AloneIn(t, w) ==
  /\ \A v \in Capturing(t) : v = w
  /\ ~ Has(writer[w].read, writer[w].file)
  /\ Made(t) => writer[w].read = manifest[t]

Alone == \A t \in TurnIds \ raced : \A w \in Capturing(t) : AloneIn(t, w)

\* What an edit is about to change in the open turn has been saved.
CapturedBy(w) ==
  writer[w].at = "ready" /\ writer[w].turn = cur /\ open /\ cur \notin raced \cup gone
    => Rewound(cur, writer[w].file) # {}

Captured == \A w \in Writers : CapturedBy(w)

\* Content c is what f would have after going back to the i-th turn of the chat.
Nothing(i, k, f) == \A l \in i..k : Rewound(records[l], f) = {}
BackTo(i, f, c) ==
  \/ \E k \in i..Len(records) : Nothing(i, k - 1, f) /\ c \in Rewound(records[k], f)
  \/ Nothing(i, Len(records), f) /\ c = file[f]

InReach(i) == (\A t \in raced \cup gone : t < records[i]) /\ records[i] \notin passed

GoesBack ==
  \A i \in 1..Len(records) : InReach(i) =>
    \A f \in Files \ late : \A c \in Content : BackTo(i, f, c) => c = base[records[i]][f]

UndoInv == /\ TreeTypes /\ StoreTypes /\ MarkTypes /\ CallTypes
           /\ Chat /\ Directories /\ Intact /\ Alone /\ Captured /\ GoesBack

\* What a turn has for a file depends on its snapshot alone.
LEMMA RewoundFrame ==
  ASSUME NEW t, NEW f, manifest'[t] = manifest[t], blobs'[t] = blobs[t]
  PROVE  Rewound(t, f)' = Rewound(t, f)
  BY DEF Rewound, Applies, Saved

LEMMA RewoundTypes ==
  ASSUME StoreTypes, NEW t \in TurnIds, NEW f
  PROVE  Rewound(t, f) \subseteq Content
  <1>1. 0 \in Content
    BY CheckpointsAssumption DEF Content
  <1> QED BY <1>1 DEF StoreTypes, Rewound, Applies, Saved

LEMMA EmptySnapshot ==
  ASSUME NEW t, NEW f, manifest[t] = <<>>
  PROVE  Rewound(t, f) = {}
  BY DEF Rewound

\* In an intact manifest a file has one entry, which restores it.
LEMMA IntactHas ==
  ASSUME StoreTypes, NEW t \in TurnIds, IntactOf(t), NEW f
  PROVE  /\ Has(manifest[t], f) <=> Rewound(t, f) # {}
         /\ ~ Has(manifest[t], f) => Rewound(t, f) = {}
  <1> DEFINE m == manifest[t]
  <1>1. m \in Seq(Entry) /\ Len(m) \in Nat
    BY DEF StoreTypes
  <1>2. ASSUME NEW i \in 1..Len(m), m[i].path = f
        PROVE  Rewound(t, f) # {}
    <2>1. Applies(t, i, f) /\ \A j \in (i + 1)..Len(m) : ~ Applies(t, j, f)
      BY <1>1, <1>2 DEF IntactOf, Applies
    <2> QED BY <2>1 DEF Rewound
  <1>3. ASSUME Rewound(t, f) # {}
        PROVE  Has(m, f)
    BY <1>3 DEF Rewound, Applies, Has
  <1> QED BY <1>2, <1>3 DEF Has

\* The chat's turns in numbers.
LEMMA ChatIs ==
  ASSUME Chat, cur \in 0..MaxTurns
  PROVE  /\ Len(records) \in Nat /\ \A i \in 1..Len(records) : records[i] \in TurnIds /\ records[i] \in Nat
         /\ \A i \in 1..Len(records) : \A k \in i..Len(records) : k \in 1..Len(records) /\ records[i] <= records[k]
  <1>1. Len(records) \in Nat /\ \A i \in 1..Len(records) : records[i] \in TurnIds
    BY DEF Chat
  <1>2. \A i \in 1..Len(records) : records[i] \in Nat
    BY <1>1, CheckpointsAssumption DEF TurnIds
  <1>3. ASSUME NEW i \in 1..Len(records), NEW k \in i..Len(records)
        PROVE  k \in 1..Len(records) /\ records[i] <= records[k]
    <2>1. k \in 1..Len(records) /\ i <= k
      BY <1>1
    <2> QED BY <1>1, <1>2, <2>1 DEF Chat
  <1> QED BY <1>1, <1>2, <1>3

\* Going back gives what it gave, if the snapshots in question and the file are as they were.
LEMMA BackFrame ==
  ASSUME Chat, cur \in 0..MaxTurns, records' = records, NEW i \in 1..Len(records), NEW f, NEW c,
         \A k \in i..Len(records) : Rewound(records[k], f)' = Rewound(records[k], f),
         file'[f] = file[f]
  PROVE  BackTo(i, f, c)' => BackTo(i, f, c)
  <1>1. Len(records) \in Nat
    BY ChatIs
  <1>2. \A k \in i..Len(records) : Nothing(i, k - 1, f)' => Nothing(i, k - 1, f)
    BY <1>1 DEF Nothing
  <1>3. Nothing(i, Len(records), f)' => Nothing(i, Len(records), f)
    BY <1>1 DEF Nothing
  <1> QED BY <1>2, <1>3 DEF BackTo

LEMMA BackKeeps ==
  ASSUME GoesBack,
         \A i \in 1..Len(records') : InReach(i)' =>
           /\ i \in 1..Len(records) /\ InReach(i) /\ base'[records'[i]] = base[records[i]]
           /\ \A f \in Files \ late' : f \notin late /\ \A c \in Content : BackTo(i, f, c)' => BackTo(i, f, c)
  PROVE  GoesBack'
  BY DEF GoesBack, Content

\* Intact manifests, captures and directories do not depend on the tree or the chat.
LEMMA StoreFrame ==
  ASSUME Directories, Intact, Alone, CallTypes, UNCHANGED <<store, writer, raced>>, cur \in Nat, cur' \in Nat, cur <= cur'
  PROVE  Directories' /\ Intact' /\ Alone'
  <1>1. Directories'
    <2>1. \A t \in TurnIds : Made(t)' = Made(t)
      BY DEF Made, store
    <2>2. \A t \in TurnIds : t \in Int
      BY DEF TurnIds
    <2> QED BY <2>1, <2>2 DEF Directories, store
  <1>2. Intact'
    BY DEF Intact, IntactOf, store
  <1>3. Alone'
    BY DEF Alone, AloneIn, Capturing, Made, store
  <1> QED BY <1>1, <1>2, <1>3

LEMMA StartTurnKeeps ==
  ASSUME UndoInv, StartTurn
  PROVE  UndoInv'
  <1>1. /\ ~ open /\ cur < MaxTurns /\ cur' = cur + 1 /\ open' = TRUE
        /\ records' = Append(records, cur + 1) /\ base' = [base EXCEPT ![cur + 1] = file]
        /\ UNCHANGED <<file, edits, dirs, manifest, blobs, writer, undos, raced, late, gone, passed>>
    BY DEF StartTurn, tree, store, marks
  <1>2. /\ TreeTypes /\ StoreTypes /\ MarkTypes /\ CallTypes /\ Chat /\ Directories
        /\ Intact /\ Alone /\ GoesBack
    BY DEF UndoInv
  <1>3. /\ cur \in Nat /\ MaxTurns \in Nat /\ cur + 1 \in TurnIds /\ cur' \in 0..MaxTurns
        /\ cur \in 0..MaxTurns
    BY <1>1, <1>2, CheckpointsAssumption DEF TreeTypes, TurnIds
  <1>4. TreeTypes'
    BY <1>1, <1>2, <1>3 DEF TreeTypes, Busy, Content
  <1>5. StoreTypes'
    BY <1>1, <1>2 DEF StoreTypes, Content, Entry
  <1>6. MarkTypes'
    BY <1>1, <1>2 DEF MarkTypes
  <1>7. CallTypes'
    <2>1. \A w \in Writers : writer[w].turn \in Int
      BY <1>2, <1>3 DEF CallTypes, Call
    <2>2. \A w \in Writers : writer[w].turn <= cur + 1
      BY <1>2, <1>3, <2>1 DEF CallTypes
    <2> QED BY <1>1, <1>2, <2>2 DEF CallTypes, Call, Entry, Resting
  <1>8. Directories' /\ Intact' /\ Alone'
    BY <1>1, <1>2, <1>3, StoreFrame DEF store
  <1>9. /\ Len(records) \in Nat /\ Len(records') = Len(records) + 1 /\ records' \in Seq(TurnIds)
        /\ \A i \in 1..Len(records) : records'[i] = records[i] /\ records[i] \in TurnIds
        /\ records'[Len(records) + 1] = cur + 1
    BY <1>1, <1>2, <1>3, AppendProperties DEF Chat
  <1>10. \A i \in 1..Len(records) : records[i] \in Nat /\ records[i] <= cur
    BY <1>2, <1>3, ChatIs DEF Chat
  <1>11. Chat'
    <2>1. \A i \in 1..Len(records') : records'[i] <= cur + 1
      BY <1>3, <1>9, <1>10
    <2>2. \A i, j \in 1..Len(records') : i < j => records'[i] < records'[j]
      <3> SUFFICES ASSUME NEW i \in 1..Len(records'), NEW j \in 1..Len(records'), i < j
                   PROVE  records'[i] < records'[j]
        OBVIOUS
      <3>1. i \in 1..Len(records) /\ (j \in 1..Len(records) \/ j = Len(records) + 1)
        BY <1>9
      <3> QED BY <1>2, <1>3, <1>9, <1>10, <3>1 DEF Chat
    <2> QED BY <1>1, <1>9, <2>1, <2>2 DEF Chat
  <1>12. manifest[cur + 1] = <<>>
    BY <1>2, <1>3 DEF Directories
  <1>13. Captured'
    <2> SUFFICES ASSUME NEW w \in Writers, writer[w].turn = cur + 1 PROVE FALSE
      BY <1>1 DEF Captured, CapturedBy
    <2> QED BY <1>2, <1>3 DEF CallTypes
  <1>14. GoesBack'
    <2>0. PICK n \in Nat : n = Len(records)
      BY <1>9
    <2>1. \A t, f : Rewound(t, f)' = Rewound(t, f)
      BY <1>1, RewoundFrame
    <2>2. \A f : Rewound(cur + 1, f) = {}
      BY <1>12, EmptySnapshot
    <2>3. base'[cur + 1] = file /\ \A i \in 1..n : base'[records[i]] = base[records[i]]
      BY <1>1, <1>2, <1>3, <1>9, <2>0, <1>10 DEF MarkTypes
    <2>4. ASSUME NEW i \in 1..n, NEW f \in Files, NEW c, BackTo(i, f, c)'
          PROVE  BackTo(i, f, c)
      <3>1. \A k \in i..n : Rewound(records[k], f)' = Rewound(records[k], f)
        BY <1>9, <2>0, <2>1
      <3>2. Rewound(records[n + 1], f)' = {}
        BY <1>9, <2>0, <2>1, <2>2
      <3>3. ASSUME NEW k \in i..(n + 1), Nothing(i, k - 1, f)', c \in Rewound(records[k], f)'
            PROVE  BackTo(i, f, c)
        <4>1. k \in i..n
          BY <1>9, <2>0, <3>2, <3>3
        <4>2. \A l \in i..(k - 1) : l \in i..n
          BY <2>0, <4>1
        <4>3. Nothing(i, k - 1, f)
          BY <3>1, <3>3, <4>2 DEF Nothing
        <4> QED BY <2>0, <3>1, <3>3, <4>1, <4>3 DEF BackTo
      <3>4. ASSUME Nothing(i, n + 1, f)', c = file[f]
            PROVE  BackTo(i, f, c)
        <4>1. \A l \in i..n : l \in i..(n + 1)
          BY <2>0
        <4>2. Nothing(i, n, f)
          BY <3>1, <3>4, <4>1 DEF Nothing
        <4> QED BY <2>0, <3>4, <4>2 DEF BackTo
      <3> QED BY <1>1, <1>9, <2>0, <2>4, <3>3, <3>4 DEF BackTo
    <2>5. ASSUME NEW f \in Files, NEW c, BackTo(n + 1, f, c)'
          PROVE  c = file[f]
      <3>1. Rewound(records[n + 1], f)' = {}
        BY <1>9, <2>0, <2>1, <2>2
      <3> QED BY <1>1, <1>9, <2>0, <2>5, <3>1 DEF BackTo
    <2>6. \A i \in 1..n : InReach(i)' => InReach(i)
      BY <1>1, <1>9, <2>0 DEF InReach
    <2> SUFFICES ASSUME NEW i \in 1..(n + 1), InReach(i)', NEW f \in Files, f \notin late,
                        NEW c \in Content, BackTo(i, f, c)'
                 PROVE  c = base'[records'[i]][f]
      BY <1>1, <1>9, <2>0 DEF GoesBack, Content
    <2>7. CASE i = n + 1
      BY <1>9, <2>0, <2>3, <2>5, <2>7
    <2>8. CASE i # n + 1
      <3>1. i \in 1..n
        BY <1>9, <2>0, <2>8
      <3> QED BY <1>2, <1>9, <2>0, <2>3, <2>4, <2>6, <3>1 DEF GoesBack
    <2> QED BY <2>7, <2>8
  <1> QED BY <1>4, <1>5, <1>6, <1>7, <1>8, <1>11, <1>13, <1>14 DEF UndoInv

\* A step that leaves the chat, the tree, the snapshots and the marks alone.
LEMMA BackStays ==
  ASSUME UndoInv, UNCHANGED <<file, manifest, blobs, records, base>>,
         raced \subseteq raced', gone \subseteq gone', late \subseteq late', passed \subseteq passed'
  PROVE  GoesBack'
  <1>1. Chat /\ cur \in 0..MaxTurns /\ GoesBack
    BY DEF UndoInv, TreeTypes
  <1>2. \A i \in 1..Len(records) : InReach(i)' => InReach(i)
    BY DEF InReach
  <1>3. \A t, f : Rewound(t, f)' = Rewound(t, f)
    BY RewoundFrame
  <1>4. ASSUME NEW i \in 1..Len(records), NEW f, NEW c
        PROVE  BackTo(i, f, c)' => BackTo(i, f, c)
    BY <1>1, <1>3, BackFrame
  <1> QED BY <1>1, <1>2, <1>4, BackKeeps

LEMMA EndTurnKeeps ==
  ASSUME UndoInv, EndTurn \/ UNCHANGED checkpointVars
  PROVE  UndoInv'
  <1>1. /\ UNCHANGED <<file, edits, cur, records, dirs, manifest, blobs, writer, undos, base,
                       raced, late, gone, passed>>
        /\ open' = FALSE \/ open' = open
    BY DEF EndTurn, tree, store, marks, checkpointVars
  <1>2. /\ TreeTypes /\ StoreTypes /\ MarkTypes /\ CallTypes /\ Chat /\ Directories
        /\ Intact /\ Alone /\ Captured
    BY DEF UndoInv
  <1>3. open' => open
    BY <1>1
  <1>4. TreeTypes'
    BY <1>1, <1>2 DEF TreeTypes, Busy, Content
  <1>5. StoreTypes' /\ MarkTypes'
    BY <1>1, <1>2 DEF StoreTypes, MarkTypes, Content, Entry
  <1>6. CallTypes'
    BY <1>1, <1>2 DEF CallTypes, Call, Entry, Resting
  <1>7. Chat'
    BY <1>1, <1>2, <1>3 DEF Chat
  <1>8. Directories' /\ Intact' /\ Alone'
    <2>1. cur \in Nat
      BY <1>2 DEF TreeTypes
    <2> QED BY <1>1, <1>2, <2>1, StoreFrame DEF store
  <1>9. Captured'
    <2>1. \A t, f : Rewound(t, f)' = Rewound(t, f)
      BY <1>1, RewoundFrame
    <2> QED BY <1>1, <1>2, <1>3, <2>1 DEF Captured, CapturedBy
  <1>10. GoesBack'
    BY <1>1, BackStays
  <1> QED BY <1>4, <1>5, <1>6, <1>7, <1>8, <1>9, <1>10 DEF UndoInv

\* A tool call, field by field, and one that goes on.
LEMMA CallIs ==
  ASSUME CallTypes, NEW w \in Writers
  PROVE  /\ writer[w] \in Call
         /\ writer[w] = [at |-> writer[w].at, file |-> writer[w].file, turn |-> writer[w].turn,
                         read |-> writer[w].read]
         /\ writer[w].read \in Seq(Entry)
  BY DEF CallTypes, Call

GoesOn(w, a, m) ==
  writer' = [writer EXCEPT ![w] = [at |-> a, file |-> writer[w].file, turn |-> writer[w].turn, read |-> m]]

LEMMA GoesOnIs ==
  ASSUME CallTypes, NEW w \in Writers, NEW a, NEW m,
         writer' = [writer EXCEPT ![w].at = a, ![w].read = m]
  PROVE  GoesOn(w, a, m)
  <1>1. /\ writer \in [Writers -> Call]
        /\ writer[w] = [at |-> writer[w].at, file |-> writer[w].file, turn |-> writer[w].turn,
                        read |-> writer[w].read]
    BY CallIs DEF CallTypes
  <1> DEFINE j == [writer[w] EXCEPT !.at = a]
             k == [at |-> a, file |-> writer[w].file, turn |-> writer[w].turn, read |-> m]
  <1>2. [j EXCEPT !.read = m] = k
    <2>1. j = [at |-> a, file |-> writer[w].file, turn |-> writer[w].turn, read |-> writer[w].read]
      BY <1>1
    <2> HIDE DEF j
    <2> QED BY <2>1
  <1>3. writer' = [writer EXCEPT ![w] = [j EXCEPT !.read = m]]
    <2> HIDE DEF j
    <2>1. writer' = [[writer EXCEPT ![w] = j] EXCEPT ![w] = [[writer EXCEPT ![w] = j][w] EXCEPT !.read = m]]
      BY DEF j
    <2> QED BY <1>1, <2>1
  <1> QED BY <1>2, <1>3 DEF GoesOn

LEMMA CallGoesOn ==
  ASSUME CallTypes, NEW w \in Writers, writer[w].at # "idle",
         NEW a \in {"read", "ready"}, NEW m \in Seq(Entry), GoesOn(w, a, m)
  PROVE  /\ writer'[w].at = a /\ writer'[w].file = writer[w].file /\ writer'[w].turn = writer[w].turn
         /\ writer'[w].read = m /\ \A v \in Writers : v # w => writer'[v] = writer[v]
         /\ writer' \in [Writers -> Call] /\ Busy' = Busy
         /\ cur' = cur => CallTypes'
  <1>1. writer \in [Writers -> Call] /\ writer[w] \in Call
    BY CallIs DEF CallTypes
  <1> DEFINE k == [at |-> a, file |-> writer[w].file, turn |-> writer[w].turn, read |-> m]
  <1>2. k \in Call /\ k.at = a /\ k.file = writer[w].file /\ k.turn = writer[w].turn /\ k.read = m
    BY <1>1 DEF Call
  <1> HIDE DEF k
  <1>3. writer' = [writer EXCEPT ![w] = k]
    BY DEF GoesOn, k
  <1>4. writer'[w] = k /\ writer' \in [Writers -> Call] /\ \A v \in Writers : v # w => writer'[v] = writer[v]
    BY <1>1, <1>2, <1>3
  <1>5. Busy' = Busy
    BY <1>2, <1>4 DEF Busy
  <1>6. cur' = cur => CallTypes'
    <2> SUFFICES ASSUME cur' = cur, NEW v \in Writers
                 PROVE  /\ writer'[v].turn <= cur
                        /\ writer'[v].at # "idle" => writer'[v].turn \in TurnIds /\ writer'[v].file \in Files
      BY <1>4 DEF CallTypes, Call, Entry, Resting
    <2>1. CASE v = w
      BY <1>2, <1>4, <2>1 DEF CallTypes
    <2>2. CASE v # w
      BY <1>4, <2>2 DEF CallTypes
    <2> QED BY <2>1, <2>2
  <1> QED BY <1>2, <1>4, <1>5, <1>6

LEMMA ReadManifestKeeps ==
  ASSUME UndoInv, NEW w \in Writers, ReadManifest(w)
  PROVE  UndoInv'
  <1> DEFINE t == writer[w].turn
             f == writer[w].file
  <1>1. /\ TreeTypes /\ StoreTypes /\ MarkTypes /\ CallTypes /\ Chat /\ Directories
        /\ Intact /\ Alone /\ Captured
    BY DEF UndoInv
  <1>2. /\ writer[w].at = "ensured"
        /\ UNCHANGED <<file, edits, cur, open, records, dirs, manifest, blobs, undos, base, late, passed>>
    BY DEF ReadManifest, tree, store
  <1>3. t \in TurnIds /\ f \in Files /\ manifest[t] \in Seq(Entry)
    BY <1>1, <1>2 DEF CallTypes, StoreTypes
  <1>4. /\ writer[w] = [at |-> writer[w].at, file |-> f, turn |-> t, read |-> writer[w].read]
        /\ writer[w].read \in Seq(Entry) /\ writer \in [Writers -> Call]
    BY <1>1, CallIs DEF CallTypes
  <1>5. \E a \in {"read", "ready"}, m \in Seq(Entry) :
          /\ GoesOn(w, a, m) /\ raced \subseteq raced' /\ gone \subseteq gone'
          /\ raced' \cup gone' \subseteq raced \cup gone \cup {t}
          /\ a = "ready" => raced' = raced /\ (t \in gone' \/ Has(manifest[t], f))
          /\ a = "read" => /\ m = manifest[t] /\ ~ Has(m, f)
                           /\ t \notin raced' => Capturing(t) = {}
    <2>1. CASE ~ Made(t)
      <3>1. GoesOn(w, "ready", writer[w].read)
        BY <1>2, <1>4, <2>1 DEF ReadManifest, GoesOn
      <3>2. gone' = gone \cup {t} /\ raced' = raced
        BY <2>1 DEF ReadManifest
      <3> QED BY <1>4, <3>1, <3>2
    <2>2. CASE Made(t) /\ Has(manifest[t], f)
      <3>1. GoesOn(w, "ready", writer[w].read)
        BY <1>2, <1>4, <2>2 DEF ReadManifest, GoesOn
      <3>2. gone' = gone /\ raced' = raced
        BY <2>2 DEF ReadManifest
      <3> QED BY <1>4, <2>2, <3>1, <3>2
    <2>3. CASE Made(t) /\ ~ Has(manifest[t], f)
      <3>1. GoesOn(w, "read", manifest[t])
        BY <1>2, <1>4, <2>3 DEF ReadManifest, GoesOn
      <3>2. gone' = gone /\ raced' = Raced(t)
        BY <2>3 DEF ReadManifest
      <3>3. raced \subseteq raced' /\ raced' \subseteq raced \cup {t} /\ (t \notin raced' => Capturing(t) = {})
        BY <3>2 DEF Raced
      <3> QED BY <1>3, <2>3, <3>1, <3>2, <3>3
    <2> QED BY <2>1, <2>2, <2>3
  <1>6. PICK a \in {"read", "ready"}, m \in Seq(Entry) :
          /\ GoesOn(w, a, m) /\ raced \subseteq raced' /\ gone \subseteq gone'
          /\ raced' \cup gone' \subseteq raced \cup gone \cup {t}
          /\ a = "ready" => raced' = raced /\ (t \in gone' \/ Has(manifest[t], f))
          /\ a = "read" => /\ m = manifest[t] /\ ~ Has(m, f)
                           /\ t \notin raced' => Capturing(t) = {}
    BY <1>5
  <1> HIDE DEF t, f
  <1>7. /\ writer'[w].at = a /\ writer'[w].file = f /\ writer'[w].turn = t
        /\ writer'[w].read = m /\ \A v \in Writers : v # w => writer'[v] = writer[v]
        /\ Busy' = Busy /\ CallTypes'
    BY <1>1, <1>2, <1>6, CallGoesOn DEF t, f
  <1>8. TreeTypes'
    BY <1>1, <1>2, <1>7 DEF TreeTypes, Content
  <1>9. StoreTypes' /\ MarkTypes'
    BY <1>1, <1>2, <1>3, <1>6 DEF StoreTypes, MarkTypes, Content, Entry
  <1>10. Chat' /\ Directories'
    BY <1>1, <1>2 DEF Chat, Directories, Made
  <1>11. Intact'
    BY <1>1, <1>2, <1>6 DEF Intact, IntactOf
  <1>12. Alone'
    <2> SUFFICES ASSUME NEW u \in TurnIds, u \notin raced', NEW v \in Writers,
                        writer'[v].turn = u, writer'[v].at = "read"
                 PROVE  AloneIn(u, v)'
      BY DEF Alone, Capturing
    <2>1. u \notin raced /\ writer[w].turn = t /\ writer[w].at # "read"
      BY <1>2, <1>6 DEF t
    <2>2. \A x \in Capturing(u)' : x = w \/ x \in Capturing(u)
      BY <1>7 DEF Capturing
    <2>3. Made(u)' = Made(u) /\ manifest' = manifest
      BY <1>2 DEF Made
    <2>4. CASE v = w
      <3>1. a = "read" /\ u = t /\ Capturing(u) = {}
        BY <1>6, <1>7, <2>4
      <3> QED BY <1>6, <1>7, <2>2, <2>3, <2>4, <3>1 DEF AloneIn
    <2>5. CASE v # w
      <3>1. v \in Capturing(u) /\ AloneIn(u, v) /\ writer'[v] = writer[v]
        BY <1>1, <1>7, <2>1, <2>5 DEF Alone, Capturing
      <3>2. w \notin Capturing(u)'
        BY <1>6, <1>7, <2>1, <3>1 DEF Capturing
      <3> QED BY <2>2, <2>3, <3>1, <3>2 DEF AloneIn
    <2> QED BY <2>4, <2>5
  <1>13. Captured'
    <2>1. \A u, g : Rewound(u, g)' = Rewound(u, g)
      BY <1>2, RewoundFrame
    <2> SUFFICES ASSUME NEW v \in Writers, writer'[v].at = "ready", writer'[v].turn = cur, open,
                        cur \notin raced' \cup gone'
                 PROVE  Rewound(cur, writer'[v].file) # {}
      BY <1>2, <2>1 DEF Captured, CapturedBy
    <2>2. CASE v = w
      <3>1. Has(manifest[t], f) /\ t = cur /\ t \notin raced
        BY <1>6, <1>7, <2>2
      <3> QED BY <1>1, <1>3, <1>7, <2>2, <3>1, IntactHas DEF Intact
    <2>3. CASE v # w
      BY <1>1, <1>6, <1>7, <2>3 DEF Captured, CapturedBy
    <2> QED BY <2>2, <2>3
  <1>14. GoesBack'
    BY <1>2, <1>6, BackStays
  <1> QED BY <1>7, <1>8, <1>9, <1>10, <1>11, <1>12, <1>13, <1>14 DEF UndoInv

\* The tool calls under way are finitely many.
LEMMA BusyIs ==
  ASSUME CallTypes, NEW w \in Writers
  PROVE  /\ IsFiniteSet(Busy) /\ Cardinality(Busy) \in Nat
         /\ writer[w].at # "idle" => /\ Cardinality(Busy \ {w}) = Cardinality(Busy) - 1
                                     /\ 1 <= Cardinality(Busy) /\ IsFiniteSet(Busy \ {w})
         /\ writer[w].at = "idle" => Cardinality(Busy \cup {w}) = Cardinality(Busy) + 1
  <1>1. IsFiniteSet(Writers) /\ Busy \subseteq Writers
    BY CheckpointsAssumption DEF Busy
  <1>2. IsFiniteSet(Busy) /\ Cardinality(Busy) \in Nat
    BY <1>1, FS_Subset, FS_CardinalityType
  <1>3. ASSUME writer[w].at # "idle"
        PROVE  /\ Cardinality(Busy \ {w}) = Cardinality(Busy) - 1
               /\ 1 <= Cardinality(Busy) /\ IsFiniteSet(Busy \ {w})
    <2>1. w \in Busy
      BY <1>3 DEF Busy
    <2>2. Cardinality(Busy \ {w}) = Cardinality(Busy) - 1 /\ IsFiniteSet(Busy \ {w})
      BY <1>2, <2>1, FS_RemoveElement
    <2>3. Cardinality(Busy \ {w}) \in Nat
      BY <2>2, FS_CardinalityType
    <2> QED BY <1>2, <2>2, <2>3
  <1>4. ASSUME writer[w].at = "idle"
        PROVE  Cardinality(Busy \cup {w}) = Cardinality(Busy) + 1
    <2>1. w \notin Busy
      BY <1>4 DEF Busy
    <2> QED BY <1>2, <2>1, FS_AddElement
  <1> QED BY <1>2, <1>3, <1>4

\* Resting, and what becomes of a call that is replaced by k.
LEMMA RestingIs ==
  /\ Resting.at = "idle" /\ Resting.turn = 0 /\ Resting.read = <<>> /\ Resting.file = CHOOSE f \in Files : TRUE
  /\ Resting \in Call
  <1>1. 0 \in 0..MaxTurns
    BY CheckpointsAssumption
  <1> QED BY <1>1 DEF Resting, Call

LEMMA CallReplaced ==
  ASSUME CallTypes, cur \in Nat, cur' = cur, NEW w \in Writers, NEW k \in Call,
         writer' = [writer EXCEPT ![w] = k],
         k.turn <= cur, k.at # "idle" => k.turn \in TurnIds /\ k.file \in Files
  PROVE  CallTypes' /\ writer'[w] = k /\ \A v \in Writers : v # w => writer'[v] = writer[v]
  <1>1. writer' \in [Writers -> Call] /\ writer'[w] = k /\ \A v \in Writers : v # w => writer'[v] = writer[v]
    BY DEF CallTypes
  <1>2. ASSUME NEW v \in Writers
        PROVE  /\ writer'[v].turn <= cur
               /\ writer'[v].at # "idle" => writer'[v].turn \in TurnIds /\ writer'[v].file \in Files
    BY <1>1 DEF CallTypes
  <1> QED BY <1>1, <1>2 DEF CallTypes, Call, Entry, Resting

\* The open turn is in the range of every use of /undo that is in reach.
LEMMA OpenInRange ==
  ASSUME Chat, cur \in 0..MaxTurns, open, NEW i \in 1..Len(records), InReach(i)
  PROVE  /\ Len(records) \in i..Len(records) /\ records[Len(records)] = cur
         /\ cur \notin raced \cup gone
  <1>1. Len(records) \in i..Len(records) /\ records[Len(records)] = cur
    BY ChatIs DEF Chat
  <1>2. records[i] <= cur /\ records[i] \in Nat /\ cur \in Nat
    BY ChatIs DEF Chat
  <1>3. ~ (cur < records[i])
    BY <1>2
  <1> QED BY <1>1, <1>3 DEF InReach

LEMMA EditKeeps ==
  ASSUME UndoInv, NEW w \in Writers, NEW content \in {0, edits + 1}, Edit(w, content)
  PROVE  UndoInv'
  <1> DEFINE t == writer[w].turn
             f == writer[w].file
  <1>1. /\ TreeTypes /\ StoreTypes /\ MarkTypes /\ CallTypes /\ Chat /\ Directories
        /\ Intact /\ Alone /\ Captured /\ GoesBack
    BY DEF UndoInv
  <1>2. /\ writer[w].at = "ready" /\ edits' = edits + 1 /\ file' = [file EXCEPT ![f] = content]
        /\ writer' = [writer EXCEPT ![w] = Resting] /\ late' = late \cup TooLate(w)
        /\ UNCHANGED <<cur, open, records, dirs, manifest, blobs, undos, base, raced, gone, passed>>
    BY DEF Edit, store
  <1>3. t \in TurnIds /\ f \in Files /\ cur \in Nat /\ cur \in 0..MaxTurns
    BY <1>1, <1>2 DEF CallTypes, TreeTypes
  <1> HIDE DEF t, f
  <1>4. CallTypes' /\ writer'[w] = Resting /\ \A v \in Writers : v # w => writer'[v] = writer[v]
    <2>1. Resting \in Call /\ Resting.turn <= cur /\ Resting.at = "idle"
      BY <1>3, RestingIs
    <2> QED BY <1>1, <1>2, <1>3, <2>1, CallReplaced
  <1>5. TreeTypes'
    <2>1. Busy' = Busy \ {w}
      BY <1>4, RestingIs DEF Busy
    <2>2. /\ Cardinality(Busy') = Cardinality(Busy) - 1 /\ 1 <= Cardinality(Busy)
          /\ Cardinality(Busy) \in Nat
      BY <1>1, <1>2, <2>1, BusyIs
    <2>3. edits \in Nat /\ MaxEdits \in Nat /\ edits + Cardinality(Busy) <= MaxEdits + 1 /\ file \in [Files -> Content]
      BY <1>1, CheckpointsAssumption DEF TreeTypes
    <2>4. edits + 1 \in Content /\ 0 \in Content
      BY <2>2, <2>3 DEF Content
    <2>5. file' \in [Files -> Content]
      BY <1>2, <2>3, <2>4
    <2>6. edits' \in Nat /\ edits' + Cardinality(Busy') <= MaxEdits + 1
      BY <1>2, <2>2, <2>3
    <2> QED BY <1>1, <1>2, <2>5, <2>6 DEF TreeTypes, Content
  <1>6. StoreTypes' /\ MarkTypes'
    BY <1>1, <1>2 DEF StoreTypes, MarkTypes, Content, Entry
  <1>7. Chat' /\ Directories'
    BY <1>1, <1>2 DEF Chat, Directories, Made
  <1>8. Intact'
    BY <1>1, <1>2 DEF Intact, IntactOf
  <1>9. Alone'
    <2>1. \A u : Capturing(u)' = Capturing(u) /\ w \notin Capturing(u)
      BY <1>2, <1>4, RestingIs DEF Capturing
    <2>2. ASSUME NEW u \in TurnIds \ raced, NEW v \in Capturing(u)
          PROVE  AloneIn(u, v)'
      <3>1. AloneIn(u, v) /\ v \in Writers /\ v # w
        BY <1>1, <2>1 DEF Alone, Capturing
      <3> QED BY <1>2, <1>4, <2>1, <3>1 DEF AloneIn, Made
    <2> QED BY <1>2, <2>1, <2>2 DEF Alone
  <1>10. \A u, g : Rewound(u, g)' = Rewound(u, g)
    BY <1>2, RewoundFrame
  <1>11. Captured'
    <2> SUFFICES ASSUME NEW v \in Writers PROVE CapturedBy(v)'
      BY DEF Captured
    <2>1. CASE v = w
      BY <1>4, <2>1, RestingIs DEF CapturedBy
    <2>2. CASE v # w
      BY <1>1, <1>2, <1>4, <1>10, <2>2 DEF Captured, CapturedBy
    <2> QED BY <2>1, <2>2
  <1>12. GoesBack'
    <2>0. \A i \in 1..Len(records) : InReach(i)' => InReach(i)
      BY <1>2 DEF InReach
    <2> SUFFICES ASSUME NEW i \in 1..Len(records), InReach(i), NEW g \in Files \ late', NEW c \in Content,
                        BackTo(i, g, c)'
                 PROVE  BackTo(i, g, c)
      BY <1>1, <1>2, <2>0, BackKeeps
    <2>1. CASE g # f
      <3>1. file'[g] = file[g]
        BY <1>1, <1>2, <2>1 DEF TreeTypes
      <3> QED BY <1>1, <1>2, <1>3, <1>10, <3>1, BackFrame
    <2>2. CASE g = f
      <3>1. open /\ t = cur
        BY <1>2, <2>2 DEF TooLate, f, t
      <3>2. /\ Len(records) \in i..Len(records) /\ records[Len(records)] = cur
            /\ cur \notin raced \cup gone
        BY <1>1, <1>3, <3>1, OpenInRange
      <3>3. Rewound(cur, f) # {}
        BY <1>1, <1>2, <3>1, <3>2 DEF Captured, CapturedBy, t, f
      <3>4. ~ Nothing(i, Len(records), g)'
        BY <1>2, <1>10, <2>2, <3>2, <3>3 DEF Nothing
      <3>5. PICK k \in i..Len(records) : Nothing(i, k - 1, g)' /\ c \in Rewound(records[k], g)'
        BY <1>2, <3>4 DEF BackTo
      <3>6. Nothing(i, k - 1, g) /\ c \in Rewound(records[k], g)
        BY <1>2, <1>10, <3>5 DEF Nothing
      <3> QED BY <3>6 DEF BackTo
    <2> QED BY <2>1, <2>2
  <1> QED BY <1>4, <1>5, <1>6, <1>7, <1>8, <1>9, <1>11, <1>12 DEF UndoInv

\* prune keeps the directory made last, and makes none.
LEMMA PrunedIs ==
  ASSUME NEW ds \in Seq(TurnIds), ds # <<>>
  PROVE  /\ Pruned(ds) \in Seq(TurnIds) /\ Len(Pruned(ds)) <= KeepN
         /\ \A i \in 1..Len(Pruned(ds)) : \E j \in 1..Len(ds) : Pruned(ds)[i] = ds[j]
         /\ \E i \in 1..Len(Pruned(ds)) : Pruned(ds)[i] = ds[Len(ds)]
  <1>1. Len(ds) \in Nat /\ 1 <= Len(ds) /\ \A i \in 1..Len(ds) : ds[i] \in TurnIds
    BY EmptySeq, LenProperties, ElementOfSeq
  <1>2. KeepN \in Nat /\ 1 <= KeepN
    BY CheckpointsAssumption
  <1>3. CASE Len(ds) <= KeepN
    <2>1. Pruned(ds) = ds
      BY <1>1, <1>2, <1>3 DEF Pruned
    <2> QED BY <1>1, <1>3, <2>1
  <1>4. CASE Len(ds) > KeepN
    <2> DEFINE m == Len(ds) - KeepN + 1
    <2>1. m \in 1..Len(ds) /\ m \in Int /\ Len(ds) \in Int /\ Len(ds) - m + 1 = KeepN
      BY <1>1, <1>2, <1>4
    <2>2. Pruned(ds) = SubSeq(ds, m, Len(ds))
      BY <1>4 DEF Pruned
    <2> HIDE DEF m
    <2>3. /\ SubSeq(ds, m, Len(ds)) \in Seq(TurnIds) /\ Len(SubSeq(ds, m, Len(ds))) = KeepN
          /\ \A i \in 1..KeepN : SubSeq(ds, m, Len(ds))[i] = ds[m + i - 1]
      <3>1. \A i \in m..Len(ds) : ds[i] \in TurnIds
        BY <1>1, <2>1
      <3> QED BY <1>1, <1>2, <2>1, <3>1, SubSeqProperties
    <2>4. \A i \in 1..KeepN : m + i - 1 \in 1..Len(ds)
      BY <1>1, <1>2, <2>1
    <2>5. m + KeepN - 1 = Len(ds) /\ KeepN \in 1..KeepN
      BY <1>1, <1>2, <2>1
    <2>6. PICK ps : ps = SubSeq(ds, m, Len(ds))
      OBVIOUS
    <2>7. Len(ps) = KeepN /\ \A i \in 1..KeepN : ps[i] = ds[m + i - 1]
      BY <2>3, <2>6
    <2>8. \A i \in 1..KeepN : \E j \in 1..Len(ds) : ps[i] = ds[j]
      BY <2>4, <2>7
    <2>9. ps[KeepN] = ds[Len(ds)]
      BY <2>5, <2>7
    <2>10. Pruned(ds) = ps /\ ps \in Seq(TurnIds) /\ Len(ps) <= KeepN
      BY <1>2, <2>2, <2>3, <2>6, <2>7
    <2> QED BY <2>5, <2>7, <2>8, <2>9, <2>10
  <1> QED BY <1>1, <1>2, <1>3, <1>4

\* What making the directory of turn t leaves, and takes away.
Opens(t, dropped) ==
  /\ \A d \in TurnIds : Made(d)' <=> d = t \/ (Made(d) /\ d \notin dropped)
  /\ \A d \in TurnIds \ dropped : \/ manifest'[d] = manifest[d] /\ blobs'[d] = blobs[d]
                                  \/ manifest'[d] = <<>> /\ manifest[d] = <<>> /\ DOMAIN blobs'[d] = {}
  /\ \A d \in dropped : manifest'[d] = <<>> /\ DOMAIN blobs'[d] = {}
  /\ t \notin dropped /\ gone' = gone \cup dropped
  /\ raced \subseteq raced' /\ raced' \subseteq raced \cup {t}
  /\ t \notin raced' => Capturing(t) = {} \/ Made(t)

LEMMA DirectoryOpens ==
  ASSUME StoreTypes, Directories, NEW w \in Writers, NEW f \in Files, NEW t \in TurnIds, ensure_turn(w, f, t)
  PROVE  StoreTypes' /\ \E dropped \in SUBSET TurnIds : Opens(t, dropped)
  <1>1. CASE Made(t)
    <2>1. UNCHANGED <<dirs, manifest, blobs, gone, raced>>
      BY <1>1 DEF ensure_turn, store
    <2>2. StoreTypes'
      BY <2>1 DEF StoreTypes, Content, Entry
    <2>3. Opens(t, {})
      BY <1>1, <2>1 DEF Opens, Made
    <2> QED BY <2>2, <2>3
  <1>2. CASE ~ Made(t)
    <2> DEFINE kept == Pruned(Append(dirs, t))
               In(d) == \E i \in 1..Len(kept) : kept[i] = d
               dropped == {d \in TurnIds : Made(d) /\ ~ In(d)}
    <2>1. /\ dirs' = kept /\ gone' = gone \cup dropped /\ raced' = Raced(t)
          /\ manifest' = [d \in TurnIds |-> IF d \in dropped \cup {t} THEN <<>> ELSE manifest[d]]
          /\ blobs' = [d \in TurnIds |-> IF d \in dropped \cup {t} THEN [n \in {} |-> 0] ELSE blobs[d]]
      BY <1>2 DEF ensure_turn
    <2>2. /\ dirs \in Seq(TurnIds) /\ manifest \in [TurnIds -> Seq(Entry)] /\ Len(dirs) \in Nat
          /\ \A u \in TurnIds : \A n \in DOMAIN blobs[u] : blobs[u][n] \in Content
      BY DEF StoreTypes
    <2>3. /\ Append(dirs, t) \in Seq(TurnIds) /\ Append(dirs, t) # <<>>
          /\ Len(Append(dirs, t)) = Len(dirs) + 1
          /\ \A i \in 1..Len(dirs) : Append(dirs, t)[i] = dirs[i]
          /\ Append(dirs, t)[Len(dirs) + 1] = t
      BY <2>2, AppendProperties
    <2>4. /\ kept \in Seq(TurnIds) /\ Len(kept) <= KeepN
          /\ \A i \in 1..Len(kept) : \E j \in 1..Len(Append(dirs, t)) : kept[i] = Append(dirs, t)[j]
          /\ \E i \in 1..Len(kept) : kept[i] = Append(dirs, t)[Len(Append(dirs, t))]
      BY <2>3, PrunedIs
    <2> HIDE DEF kept
    <2>5. In(t) /\ \A d \in TurnIds : In(d) => d = t \/ Made(d)
      <3>1. In(t)
        BY <2>3, <2>4
      <3>2. ASSUME NEW d \in TurnIds, NEW i \in 1..Len(kept), kept[i] = d
            PROVE  d = t \/ Made(d)
        <4>1. PICK j \in 1..(Len(dirs) + 1) : d = Append(dirs, t)[j]
          BY <2>3, <2>4, <3>2
        <4>2. j = Len(dirs) + 1 \/ j \in 1..Len(dirs)
          BY <2>2
        <4> QED BY <2>3, <4>1, <4>2 DEF Made
      <3> QED BY <3>1, <3>2
    <2>6. \A d \in TurnIds : Made(d)' <=> In(d)
      BY <2>1 DEF Made
    <2> HIDE DEF In
    <2>7. \A d \in TurnIds : Made(d)' <=> d = t \/ (Made(d) /\ d \notin dropped)
      BY <2>5, <2>6
    <2>8. t \notin dropped /\ dropped \in SUBSET TurnIds
      BY <1>2
    <2> HIDE DEF dropped
    <2>9. StoreTypes'
      <3>1. <<>> \in Seq(Entry)
        OBVIOUS
      <3>2. manifest' \in [TurnIds -> Seq(Entry)]
        BY <2>1, <2>2, <3>1
      <3>3. \A u \in TurnIds : \A n \in DOMAIN blobs'[u] : blobs'[u][n] \in Content
        BY <2>1, <2>2
      <3>4. blobs' = [u \in TurnIds |-> blobs'[u]]
        BY <2>1
      <3> QED BY <2>1, <2>4, <3>2, <3>3, <3>4 DEF StoreTypes, Content, Entry
    <2>10. manifest[t] = <<>>
      BY <1>2 DEF Directories
    <2>11. /\ \A d \in dropped \cup {t} : manifest'[d] = <<>> /\ DOMAIN blobs'[d] = {}
           /\ \A d \in TurnIds \ (dropped \cup {t}) : manifest'[d] = manifest[d] /\ blobs'[d] = blobs[d]
      BY <2>1, <2>8
    <2>12. raced \subseteq raced' /\ raced' \subseteq raced \cup {t} /\ (t \notin raced' => Capturing(t) = {})
      BY <2>1 DEF Raced
    <2>13. Opens(t, dropped)
      BY <2>1, <2>7, <2>8, <2>10, <2>11, <2>12 DEF Opens
    <2> QED BY <2>8, <2>9, <2>13
  <1> QED BY <1>1, <1>2

LEMMA ensure_turnKeeps ==
  ASSUME UndoInv, NEW w \in Writers, NEW f \in Files, NEW t \in TurnIds, ensure_turn(w, f, t)
  PROVE  UndoInv'
  <1>1. /\ TreeTypes /\ StoreTypes /\ MarkTypes /\ CallTypes /\ Chat /\ Directories
        /\ Intact /\ Alone /\ Captured /\ GoesBack
    BY DEF UndoInv
  <1> DEFINE k == [at |-> "ensured", file |-> f, turn |-> t, read |-> <<>>]
  <1>2. /\ writer[w].at = "idle" /\ edits + Cardinality(Busy) < MaxEdits
        /\ UNCHANGED <<file, edits, cur, open, records, undos, base, late, passed>>
    BY DEF ensure_turn, tree
  <1>3. writer' = [writer EXCEPT ![w] = k]
    BY DEF ensure_turn
  <1>4. t <= cur /\ t \in 0..MaxTurns /\ cur \in Nat /\ cur \in 0..MaxTurns
    <2>1. t \in Nat /\ t \in 0..MaxTurns /\ cur \in 0..MaxTurns
      BY <1>1, CheckpointsAssumption DEF TurnIds, TreeTypes
    <2>2. t = cur \/ t \in 1..cur
      BY DEF ensure_turn
    <2> QED BY <2>1, <2>2
  <1>5. k \in Call /\ k.at = "ensured" /\ k.turn = t /\ k.file = f
    BY <1>4 DEF Call
  <1> HIDE DEF k
  <1>6. CallTypes' /\ writer'[w] = k /\ \A v \in Writers : v # w => writer'[v] = writer[v]
    <2>1. k.turn <= cur /\ (k.at # "idle" => k.turn \in TurnIds /\ k.file \in Files)
      BY <1>4, <1>5
    <2> QED BY <1>1, <1>2, <1>3, <1>4, <1>5, <2>1, CallReplaced
  <1>7. TreeTypes'
    <2>1. Busy' = Busy \cup {w}
      BY <1>5, <1>6 DEF Busy
    <2>2. Cardinality(Busy') = Cardinality(Busy) + 1 /\ Cardinality(Busy) \in Nat
      BY <1>1, <1>2, <2>1, BusyIs
    <2>3. edits \in Nat /\ MaxEdits \in Nat
      BY <1>1, CheckpointsAssumption DEF TreeTypes
    <2>4. edits' + Cardinality(Busy') <= MaxEdits + 1
      BY <1>2, <2>2, <2>3
    <2> QED BY <1>1, <1>2, <2>4 DEF TreeTypes, Content
  <1>8. PICK dropped \in SUBSET TurnIds : Opens(t, dropped)
    BY <1>1, DirectoryOpens
  <1>9. StoreTypes'
    BY <1>1, DirectoryOpens
  <1>10. MarkTypes'
    BY <1>1, <1>2, <1>8 DEF MarkTypes, Opens
  <1>11. Chat'
    BY <1>1, <1>2 DEF Chat
  <1>12. Directories'
    <2> SUFFICES ASSUME NEW d \in TurnIds
                 PROVE  /\ Made(d)' => d <= cur
                        /\ ~ Made(d)' => manifest'[d] = <<>> /\ DOMAIN blobs'[d] = {}
      BY <1>2 DEF Directories
    <2> QED BY <1>1, <1>4, <1>8 DEF Opens, Directories
  <1>13. Intact'
    <2> SUFFICES ASSUME NEW u \in TurnIds, u \notin raced' PROVE IntactOf(u)'
      BY DEF Intact
    <2>1. \/ manifest'[u] = manifest[u] /\ blobs'[u] = blobs[u]
          \/ manifest'[u] = <<>> /\ DOMAIN blobs'[u] = {}
      BY <1>8 DEF Opens
    <2>2. IntactOf(u)
      BY <1>1, <1>8 DEF Intact, Opens
    <2> QED BY <2>1, <2>2 DEF IntactOf
  <1>14. Alone'
    <2>1. \A u : Capturing(u)' = Capturing(u) /\ w \notin Capturing(u)
      BY <1>2, <1>5, <1>6 DEF Capturing
    <2>2. ASSUME NEW u \in TurnIds, u \notin raced', NEW v \in Capturing(u)
          PROVE  AloneIn(u, v)'
      <3>1. u \notin raced /\ v \in Writers /\ v # w /\ AloneIn(u, v)
        BY <1>1, <1>8, <2>1, <2>2 DEF Opens, Alone, Capturing
      <3>2. Made(u)' => Made(u) /\ manifest'[u] = manifest[u]
        BY <1>8, <2>2 DEF Opens
      <3> QED BY <1>6, <2>1, <3>1, <3>2 DEF AloneIn
    <2> QED BY <2>1, <2>2 DEF Alone
  <1>15. ASSUME NEW u \in TurnIds, u \notin dropped, NEW g
         PROVE  Rewound(u, g)' = Rewound(u, g)
    <2>1. CASE manifest'[u] = manifest[u] /\ blobs'[u] = blobs[u]
      BY <2>1, RewoundFrame
    <2>2. CASE manifest'[u] = <<>> /\ manifest[u] = <<>>
      BY <2>2 DEF Rewound
    <2> QED BY <1>8, <1>15, <2>1, <2>2 DEF Opens
  <1>16. Captured'
    <2> SUFFICES ASSUME NEW v \in Writers, writer'[v].at = "ready", writer'[v].turn = cur, open,
                        cur \notin raced' \cup gone'
                 PROVE  Rewound(cur, writer[v].file)' # {}
      BY <1>2 DEF Captured, CapturedBy
    <2>1. v # w /\ writer'[v] = writer[v] /\ cur \in TurnIds
      BY <1>5, <1>6 DEF CallTypes
    <2>2. cur \notin raced \cup gone /\ cur \notin dropped
      BY <1>8 DEF Opens
    <2> QED BY <1>1, <1>2, <1>15, <2>1, <2>2 DEF Captured, CapturedBy
  <1>17. GoesBack'
    <2>1. \A i \in 1..Len(records) : InReach(i)' => InReach(i) /\ \A d \in dropped : d < records[i]
      BY <1>2, <1>8 DEF InReach, Opens
    <2> SUFFICES ASSUME NEW i \in 1..Len(records), \A d \in dropped : d < records[i],
                        NEW g \in Files \ late', NEW c \in Content, BackTo(i, g, c)'
                 PROVE  BackTo(i, g, c)
      BY <1>1, <1>2, <2>1, BackKeeps
    <2>2. ASSUME NEW j \in i..Len(records)
          PROVE  Rewound(records[j], g)' = Rewound(records[j], g)
      <3>1. records[j] \in TurnIds /\ records[j] \in Nat /\ records[i] \in Nat /\ records[i] <= records[j]
        BY <1>1, <1>4, ChatIs
      <3>2. records[j] \notin dropped
        BY <3>1
      <3> QED BY <1>2, <1>15, <3>1, <3>2
    <2> QED BY <1>1, <1>2, <1>4, <2>2, BackFrame
  <1> QED BY <1>6, <1>7, <1>9, <1>10, <1>11, <1>12, <1>13, <1>14, <1>16, <1>17 DEF UndoInv

\* One entry more: the other files have what they had, the new one what is in the tree.
Adds(t, f, b) ==
  /\ b \in {0, Len(manifest[t]) + 1} /\ ~ Has(manifest[t], f)
  /\ manifest'[t] = Append(manifest[t], [path |-> f, blob |-> b])
  /\ b = 0 => file[f] = 0 /\ blobs'[t] = blobs[t]
  /\ b # 0 => blobs'[t] = [k \in DOMAIN blobs[t] \cup {b} |-> IF k = b THEN file[f] ELSE blobs[t][k]]

LEMMA EntryAdded ==
  ASSUME StoreTypes, NEW t \in TurnIds, IntactOf(t), NEW f \in Files, NEW b, Adds(t, f, b)
  PROVE  /\ IntactOf(t)' /\ Rewound(t, f) = {} /\ Rewound(t, f)' = {file[f]}
         /\ \A g : g # f => Rewound(t, g)' = Rewound(t, g)
  <1> USE DEF Adds
  <1>0. PICK n \in Nat : n = Len(manifest[t])
    BY DEF StoreTypes
  <1> DEFINE e == [path |-> f, blob |-> b]
  <1>1. /\ manifest[t] \in Seq(Entry) /\ e \in Entry /\ e.path = f /\ e.blob = b
    <2>1. b \in Nat
      BY <1>0
    <2> QED BY <2>1 DEF StoreTypes, Entry
  <1>2. /\ Len(manifest'[t]) = n + 1 /\ manifest'[t][n + 1] = e
        /\ \A i \in 1..n : manifest'[t][i] = manifest[t][i] /\ manifest[t][i].path # f
    <2>1. \A i \in 1..n : manifest[t][i].path # f
      BY <1>0 DEF Has
    <2> HIDE DEF e
    <2>2. manifest'[t] = Append(manifest[t], e)
      BY DEF e
    <2> QED BY <1>0, <1>1, <2>1, <2>2, AppendProperties
  <1> HIDE DEF e
  <1>3. /\ \A i \in 1..n : manifest[t][i].blob \in {0} \cup DOMAIN blobs[t]
        /\ DOMAIN blobs[t] \subseteq 1..n /\ n + 1 \notin DOMAIN blobs[t] /\ 0 \notin DOMAIN blobs[t]
        /\ \A i, j \in 1..n : manifest[t][i].path = manifest[t][j].path => i = j
    BY <1>0 DEF IntactOf
  <1>4. /\ DOMAIN blobs'[t] = DOMAIN blobs[t] \cup ({b} \ {0})
        /\ \A k \in DOMAIN blobs[t] : blobs'[t][k] = blobs[t][k]
        /\ b # 0 => blobs'[t][b] = file[f]
    <2>1. CASE b = 0
      BY <2>1
    <2>2. CASE b # 0
      BY <1>0, <1>3, <2>2
    <2> QED BY <2>1, <2>2
  <1>5. \A i \in 1..(n + 1) : i \in 1..n \/ i = n + 1
    OBVIOUS
  <1>6. IntactOf(t)'
    <2>1. \A i, j \in 1..(n + 1) : manifest'[t][i].path = manifest'[t][j].path => i = j
      BY <1>1, <1>2, <1>3, <1>5
    <2>2. \A i \in 1..(n + 1) : manifest'[t][i].blob \in {0} \cup DOMAIN blobs'[t]
      BY <1>0, <1>1, <1>2, <1>3, <1>4, <1>5
    <2>3. DOMAIN blobs'[t] \subseteq 1..(n + 1)
      BY <1>0, <1>3, <1>4
    <2> QED BY <1>2, <2>1, <2>2, <2>3 DEF IntactOf
  <1>7. \A i \in 1..n : \A g : /\ Applies(t, i, g)' <=> Applies(t, i, g)
                               /\ ~ Applies(t, i, f) /\ Saved(t, i)' = Saved(t, i)
    <2> SUFFICES ASSUME NEW i \in 1..n, NEW g
                 PROVE  /\ Applies(t, i, g)' <=> Applies(t, i, g)
                        /\ ~ Applies(t, i, f) /\ Saved(t, i)' = Saved(t, i)
      OBVIOUS
    <2>1. manifest'[t][i] = manifest[t][i] /\ manifest[t][i].path # f
          /\ manifest[t][i].blob \in {0} \cup DOMAIN blobs[t]
      BY <1>2, <1>3
    <2> QED BY <1>4, <2>1 DEF Applies, Saved
  <1>8. /\ Applies(t, n + 1, f)' /\ Saved(t, n + 1)' = file[f] /\ \A g : g # f => ~ Applies(t, n + 1, g)'
    BY <1>0, <1>1, <1>2, <1>4 DEF Applies, Saved
  <1>9. Rewound(t, f) = {}
    BY <1>0, <1>7 DEF Rewound
  <1>10. Rewound(t, f)' = {file[f]}
    <2> DEFINE Is(i) == Applies(t, i, f)' /\ \A j \in (i + 1)..(n + 1) : ~ Applies(t, j, f)'
    <2>1. Rewound(t, f)' = {Saved(t, i)' : i \in {i \in 1..(n + 1) : Is(i)}}
      BY <1>2 DEF Rewound
    <2>2. \A i \in 1..(n + 1) : Is(i) <=> i = n + 1
      BY <1>5, <1>7, <1>8
    <2> HIDE DEF Is
    <2>3. {i \in 1..(n + 1) : Is(i)} = {n + 1}
      BY <2>2
    <2> QED BY <1>8, <2>1, <2>3
  <1>11. ASSUME NEW g, g # f
         PROVE  Rewound(t, g)' = Rewound(t, g)
    <2> DEFINE Is(i) == Applies(t, i, g) /\ \A j \in (i + 1)..n : ~ Applies(t, j, g)
               Isp(i) == Applies(t, i, g)' /\ \A j \in (i + 1)..(n + 1) : ~ Applies(t, j, g)'
    <2>1. /\ Rewound(t, g)' = {Saved(t, i)' : i \in {i \in 1..(n + 1) : Isp(i)}}
          /\ Rewound(t, g) = {Saved(t, i) : i \in {i \in 1..n : Is(i)}}
      BY <1>0, <1>2 DEF Rewound
    <2>2. ~ Isp(n + 1)
      BY <1>8, <1>11
    <2>3. ASSUME NEW i \in 1..n PROVE Isp(i) <=> Is(i)
      <3>1. \A j \in (i + 1)..(n + 1) : j \in (i + 1)..n \/ j = n + 1
        OBVIOUS
      <3>2. \A j \in (i + 1)..n : j \in (i + 1)..(n + 1) /\ j \in 1..n
        OBVIOUS
      <3> QED BY <1>7, <1>8, <1>11, <3>1, <3>2
    <2> HIDE DEF Is, Isp
    <2>4. {i \in 1..(n + 1) : Isp(i)} = {i \in 1..n : Is(i)}
      BY <1>5, <2>2, <2>3
    <2>5. \A i \in {i \in 1..n : Is(i)} : Saved(t, i)' = Saved(t, i)
      BY <1>7
    <2> QED BY <2>1, <2>4, <2>5
  <1> QED BY <1>6, <1>9, <1>10, <1>11

\* The entry goes into a snapshot that is there, or the turn is marked.
LEMMA WriteEntryKeeps ==
  ASSUME UndoInv, NEW w \in Writers, WriteEntry(w)
  PROVE  UndoInv'
  <1>0. PICK t, f, m, n, b :
          /\ t = writer[w].turn /\ f = writer[w].file /\ m = writer[w].read
          /\ n = Len(m) + 1 /\ b = IF file[f] = 0 THEN 0 ELSE n
    OBVIOUS
  <1>1. /\ TreeTypes /\ StoreTypes /\ MarkTypes /\ CallTypes /\ Chat /\ Directories
        /\ Intact /\ Alone /\ Captured /\ GoesBack
    BY DEF UndoInv
  <1>2. /\ writer[w].at = "read" /\ late' = late \cup TooLate(w)
        /\ UNCHANGED <<file, edits, cur, open, records, dirs, undos, base, raced, passed>>
    BY DEF WriteEntry, tree
  <1>3. /\ t \in TurnIds /\ f \in Files /\ m \in Seq(Entry) /\ cur \in Nat /\ cur \in 0..MaxTurns
        /\ Len(m) \in Nat /\ n \in Nat /\ b \in Nat
    <2>1. t \in TurnIds /\ f \in Files /\ m \in Seq(Entry) /\ cur \in 0..MaxTurns
      BY <1>0, <1>1, <1>2, CallIs DEF CallTypes, TreeTypes
    <2>2. Len(m) \in Nat
      BY <2>1
    <2> QED BY <1>0, <2>1, <2>2
  <1>4. GoesOn(w, "ready", <<>>)
    <2>1. writer' = [writer EXCEPT ![w].at = "ready", ![w].read = <<>>]
      BY DEF WriteEntry
    <2> QED BY <1>1, <2>1, GoesOnIs
  <1>5. IF Made(t)
        THEN /\ manifest' = [manifest EXCEPT ![t] = Append(m, [path |-> f, blob |-> b])]
             /\ blobs' = IF b = 0 \/ n \in DOMAIN blobs[t] THEN blobs
                         ELSE [blobs EXCEPT ![t] = [k \in DOMAIN blobs[t] \cup {n} |->
                                 IF k = n THEN file[f] ELSE blobs[t][k]]]
             /\ gone' = gone
        ELSE gone' = gone \cup {t} /\ UNCHANGED <<manifest, blobs>>
    BY <1>0 DEF WriteEntry
  <1>6. file[f] = 0 <=> b = 0
    BY <1>0, <1>3
  <1>7. t \notin raced => AloneIn(t, w) /\ IntactOf(t)
    BY <1>0, <1>1, <1>2, <1>3 DEF Alone, Intact, Capturing
  <1>8. /\ writer'[w].at = "ready" /\ writer'[w].file = f /\ writer'[w].turn = t
        /\ \A v \in Writers : v # w => writer'[v] = writer[v]
        /\ Busy' = Busy /\ CallTypes'
    <2>1. <<>> \in Seq(Entry)
      OBVIOUS
    <2> QED BY <1>1, <1>2, <1>4, <2>1, CallGoesOn, <1>0
  <1>9. TreeTypes'
    BY <1>1, <1>2, <1>8 DEF TreeTypes, Content
  <1>10. /\ \A u \in TurnIds : u # t => manifest'[u] = manifest[u] /\ blobs'[u] = blobs[u]
         /\ \A u : Made(u)' = Made(u)
    <2>1. manifest \in [TurnIds -> Seq(Entry)] /\ blobs = [u \in TurnIds |-> blobs[u]]
      BY <1>1 DEF StoreTypes
    <2> QED BY <1>2, <1>5, <2>1 DEF Made
  <1>11. StoreTypes'
    <2>1. /\ manifest \in [TurnIds -> Seq(Entry)] /\ blobs = [u \in TurnIds |-> blobs[u]]
          /\ \A u \in TurnIds : \A k \in DOMAIN blobs[u] : blobs[u][k] \in Content
          /\ file[f] \in Content
      BY <1>1, <1>3 DEF StoreTypes, TreeTypes
    <2>2. Append(m, [path |-> f, blob |-> b]) \in Seq(Entry)
      <3>1. [path |-> f, blob |-> b] \in Entry
        BY <1>3 DEF Entry
      <3> QED BY <1>3, <3>1, AppendProperties
    <2>3. manifest' \in [TurnIds -> Seq(Entry)]
      BY <1>3, <1>5, <2>1, <2>2
    <2>4. blobs' = [u \in TurnIds |-> blobs'[u]]
      BY <1>5, <2>1
    <2>5. \A k \in DOMAIN blobs'[t] : blobs'[t][k] \in Content
      <3>1. CASE blobs' = blobs
        BY <1>3, <2>1, <3>1
      <3>2. CASE blobs' = [blobs EXCEPT ![t] = [k \in DOMAIN blobs[t] \cup {n} |->
                                                  IF k = n THEN file[f] ELSE blobs[t][k]]]
        <4>1. blobs'[t] = [k \in DOMAIN blobs[t] \cup {n} |-> IF k = n THEN file[f] ELSE blobs[t][k]]
          BY <1>3, <2>1, <3>2
        <4> QED BY <1>3, <2>1, <4>1
      <3> QED BY <1>5, <3>1, <3>2
    <2>6. \A u \in TurnIds : \A k \in DOMAIN blobs'[u] : blobs'[u][k] \in Content
      BY <1>10, <2>1, <2>5
    <2> QED BY <1>1, <1>2, <2>3, <2>4, <2>6 DEF StoreTypes, Content, Entry
  <1>12. gone \subseteq gone' /\ gone' \subseteq gone \cup {t} /\ (~ Made(t) => t \in gone')
    BY <1>5
  <1>13. MarkTypes'
    BY <1>1, <1>2, <1>3, <1>12 DEF MarkTypes
  <1>14. Chat'
    BY <1>1, <1>2 DEF Chat
  <1>15. Directories'
    <2> SUFFICES ASSUME NEW u \in TurnIds
                 PROVE  /\ Made(u) => u <= cur
                        /\ ~ Made(u) => manifest'[u] = <<>> /\ DOMAIN blobs'[u] = {}
      BY <1>2, <1>10 DEF Directories
    <2>1. CASE u = t
      BY <1>1, <1>5, <2>1 DEF Directories
    <2>2. CASE u # t
      BY <1>1, <1>10, <2>2 DEF Directories
    <2> QED BY <2>1, <2>2
  <1>16. ASSUME t \notin raced, Made(t)
         PROVE  /\ IntactOf(t)' /\ Rewound(t, f) = {} /\ Rewound(t, f)' = {file[f]}
                /\ \A g : g # f => Rewound(t, g)' = Rewound(t, g)
    <2>1. m = manifest[t] /\ ~ Has(manifest[t], f) /\ IntactOf(t)
      BY <1>7, <1>16, <1>0 DEF AloneIn
    <2>2. b \in {0, Len(manifest[t]) + 1} /\ n = Len(manifest[t]) + 1 /\ n # 0 /\ (b # 0 => b = n)
      BY <1>3, <2>1, <1>0
    <2>3. n \notin DOMAIN blobs[t]
      BY <1>3, <2>1, <2>2 DEF IntactOf
    <2>4. manifest'[t] = Append(manifest[t], [path |-> f, blob |-> b])
      BY <1>1, <1>3, <1>5, <1>16, <2>1 DEF StoreTypes
    <2>5. b = 0 => file[f] = 0 /\ blobs'[t] = blobs[t]
      BY <1>5, <1>6, <1>16
    <2>6. b # 0 => blobs'[t] = [k \in DOMAIN blobs[t] \cup {b} |-> IF k = b THEN file[f] ELSE blobs[t][k]]
      <3>1. ASSUME b # 0
            PROVE  blobs' = [blobs EXCEPT ![t] = [k \in DOMAIN blobs[t] \cup {n} |->
                                                    IF k = n THEN file[f] ELSE blobs[t][k]]]
        BY <1>5, <1>16, <2>3, <3>1
      <3>2. blobs = [u \in TurnIds |-> blobs[u]]
        BY <1>1 DEF StoreTypes
      <3> QED BY <1>3, <2>2, <3>1, <3>2
    <2>7. Adds(t, f, b)
      BY <2>1, <2>2, <2>4, <2>5, <2>6 DEF Adds
    <2> QED BY <1>1, <1>3, <2>1, <2>7, EntryAdded
  <1>17. ASSUME ~ Made(t)
         PROVE  manifest' = manifest /\ blobs' = blobs
    BY <1>5, <1>17
  <1>18. Intact'
    <2> SUFFICES ASSUME NEW u \in TurnIds, u \notin raced PROVE IntactOf(u)'
      BY <1>2 DEF Intact
    <2>1. CASE u = t /\ Made(t)
      BY <1>16, <2>1
    <2>2. CASE u # t \/ ~ Made(t)
      <3>1. manifest'[u] = manifest[u] /\ blobs'[u] = blobs[u] /\ IntactOf(u)
        BY <1>1, <1>10, <1>17, <2>2 DEF Intact
      <3> QED BY <3>1 DEF IntactOf
    <2> QED BY <2>1, <2>2
  <1>19. Alone'
    <2> SUFFICES ASSUME NEW u \in TurnIds, u \notin raced, NEW v \in Writers,
                        writer'[v].turn = u, writer'[v].at = "read"
                 PROVE  AloneIn(u, v)'
      BY <1>2 DEF Alone, Capturing
    <2>1. v # w /\ v \in Capturing(u) /\ AloneIn(u, v) /\ writer'[v] = writer[v]
      BY <1>1, <1>8 DEF Alone, Capturing
    <2>2. u # t
      BY <1>2, <2>1, <1>0 DEF AloneIn, Capturing
    <2>3. \A x \in Capturing(u)' : x \in Capturing(u)
      BY <1>8, <2>2 DEF Capturing
    <2> QED BY <1>10, <2>1, <2>2, <2>3 DEF AloneIn
  <1>20. ASSUME NEW u \in TurnIds, NEW g, (u # t \/ t \notin raced), (u # t \/ g # f \/ ~ Made(t))
         PROVE  Rewound(u, g)' = Rewound(u, g)
    <2>1. CASE u # t \/ ~ Made(t)
      <3>1. manifest'[u] = manifest[u] /\ blobs'[u] = blobs[u]
        BY <1>10, <1>17, <2>1
      <3> QED BY <3>1, RewoundFrame
    <2>2. CASE u = t /\ Made(t)
      BY <1>16, <1>20, <2>2
    <2> QED BY <2>1, <2>2
  <1>21. Captured'
    <2> SUFFICES ASSUME NEW v \in Writers, writer'[v].at = "ready", writer'[v].turn = cur, open,
                        cur \notin raced \cup gone'
                 PROVE  Rewound(cur, writer[v].file)' # {}
      BY <1>2 DEF Captured, CapturedBy
    <2>1. cur \in TurnIds /\ cur \notin gone
      BY <1>8, <1>12 DEF CallTypes
    <2>2. CASE cur = t /\ writer'[v].file = f
      BY <1>2, <1>12, <1>16, <2>2
    <2>3. CASE cur # t \/ writer'[v].file # f
      <3>1. v # w /\ writer'[v] = writer[v]
        BY <1>8, <2>3
      <3>2. Rewound(cur, writer[v].file) # {}
        BY <1>1, <2>1, <3>1 DEF Captured, CapturedBy
      <3> QED BY <1>2, <1>20, <2>1, <2>3, <3>1, <3>2
    <2> QED BY <2>2, <2>3
  <1>22. GoesBack'
    <2>1. \A i \in 1..Len(records) : InReach(i)' => InReach(i)
      BY <1>2, <1>12 DEF InReach
    <2> SUFFICES ASSUME NEW i \in 1..Len(records), InReach(i)', NEW g \in Files \ late', NEW c \in Content,
                        BackTo(i, g, c)'
                 PROVE  BackTo(i, g, c)
      BY <1>1, <1>2, <2>1, BackKeeps
    <2>2. ASSUME NEW j \in i..Len(records)
          PROVE  records[j] \in TurnIds /\ records[j] \notin raced \cup gone'
      <3>1. records[j] \in TurnIds /\ records[j] \in Nat /\ records[i] \in Nat /\ records[i] <= records[j]
        BY <1>1, <1>3, ChatIs
      <3>2. ~ (records[j] < records[i])
        BY <3>1
      <3> QED BY <1>2, <3>1, <3>2 DEF InReach
    <2>3. CASE g # f
      <3>1. \A j \in i..Len(records) : Rewound(records[j], g)' = Rewound(records[j], g)
        BY <1>2, <1>20, <2>2, <2>3
      <3> QED BY <1>1, <1>2, <1>3, <3>1, BackFrame
    <2>4. CASE g = f
      <3>1. open /\ t = cur
        BY <1>2, <2>4, <1>0 DEF TooLate
      <3>2. PICK e \in Nat : e = Len(records)
        BY <1>1, <1>3, ChatIs
      <3>3. e \in i..e /\ records[e] = t /\ t \notin raced /\ Made(t)
        BY <1>1, <1>3, <1>12, <2>1, <2>2, <3>1, <3>2, OpenInRange
      <3>4. ASSUME NEW j \in i..(e - 1)
            PROVE  j \in i..e /\ Rewound(records[j], f)' = Rewound(records[j], f)
        <4>1. j \in i..e /\ j < e /\ j \in 1..e /\ e \in 1..e
          BY <3>2, <3>3
        <4>2. records[j] # t /\ records[j] \in TurnIds
          BY <1>1, <1>3, <3>2, <3>3, <4>1, ChatIs DEF Chat
        <4> QED BY <1>2, <1>20, <3>3, <4>1, <4>2
      <3>5. Rewound(records[e], f) = {} /\ Rewound(records[e], f)' = {file[f]}
        BY <1>2, <1>16, <3>3
      <3>6. ~ Nothing(i, e, f)'
        BY <3>3, <3>5 DEF Nothing
      <3>7. PICK k \in i..e : Nothing(i, k - 1, f)' /\ c \in Rewound(records[k], f)'
        BY <1>2, <2>4, <3>2, <3>6 DEF BackTo
      <3>8. \A l \in i..(k - 1) : l \in i..(e - 1)
        BY <3>2, <3>7
      <3>9. Nothing(i, k - 1, f)
        BY <3>4, <3>7, <3>8 DEF Nothing
      <3>10. CASE k = e
        <4>1. \A l \in i..e : l \in i..(k - 1) \/ l = e
          BY <3>2, <3>10
        <4>2. Nothing(i, e, f) /\ c = file[f]
          BY <3>5, <3>7, <3>9, <3>10, <4>1 DEF Nothing
        <4> QED BY <2>4, <3>2, <4>2 DEF BackTo
      <3>11. CASE k # e
        <4>1. k \in i..(e - 1)
          BY <3>2, <3>11
        <4> QED BY <2>4, <3>2, <3>4, <3>7, <3>9, <4>1 DEF BackTo
      <3> QED BY <3>10, <3>11
    <2> QED BY <2>3, <2>4
  <1> QED BY <1>8, <1>9, <1>11, <1>13, <1>14, <1>15, <1>18, <1>19, <1>21, <1>22 DEF UndoInv

\* What an /undo to before position i makes of the files is what going back there gives.
LEMMA RangeGoesBack ==
  ASSUME StoreTypes, TreeTypes, Chat, NEW keep \in 1..(Len(records) - 1), NEW f \in Files
  PROVE  LET back == rewind_range(SubSeq(records, keep + 1, Len(records)))[f]
         IN  BackTo(keep + 1, f, back) /\ back \in Content
  <1>0. PICK n, ts : n = Len(records) /\ ts = SubSeq(records, keep + 1, n)
    OBVIOUS
  <1>1. n \in Nat /\ keep \in Nat /\ keep + 1 \in 1..n /\ \A i \in 1..n : records[i] \in TurnIds
    BY <1>0, ChatIs DEF TreeTypes
  <1>2. Len(ts) = n - keep /\ \A k \in 1..(n - keep) : ts[k] = records[keep + k]
    <2>1. keep + 1 \in Int /\ n \in Int /\ \A i \in (keep + 1)..n : records[i] \in TurnIds
      BY <1>1
    <2>2. /\ Len(ts) = IF keep + 1 <= n THEN n - (keep + 1) + 1 ELSE 0
          /\ \A k \in 1..(n - (keep + 1) + 1) : ts[k] = records[keep + 1 + k - 1]
      BY <1>0, <2>1, SubSeqProperties
    <2>3. n - (keep + 1) + 1 = n - keep /\ keep + 1 <= n /\ \A k \in 1..(n - keep) : keep + 1 + k - 1 = keep + k
      BY <1>1
    <2> QED BY <2>2, <2>3
  <1> DEFINE Has1(k) == Rewound(ts[k], f) # {}
             First == {k \in 1..(n - keep) : \A l \in 1..(k - 1) : ~ Has1(l)}
             back == UNION {Rewound(ts[k], f) : k \in First}
             content == IF back = {} THEN file[f] ELSE CHOOSE c \in back : TRUE
  <1>3. rewind_range(ts)[f] = content
    <2> DEFINE ks == [g \in Files |-> {k \in 1..Len(ts) : \A l \in 1..(k - 1) : Rewound(ts[l], g) = {}}]
    <2>1. rewind_range(ts) = Restored(ts, ks)
      BY DEF rewind_range
    <2>2. ks[f] = First
      BY <1>2
    <2> HIDE DEF ks, First, Has1
    <2> QED BY <2>1, <2>2 DEF Restored
  <1>4. ASSUME NEW k \in First
        PROVE  Nothing(keep + 1, keep + k - 1, f) /\ keep + k \in (keep + 1)..n
               /\ Rewound(ts[k], f) = Rewound(records[keep + k], f)
    <2>1. k \in 1..(n - keep) /\ \A l \in 1..(k - 1) : Rewound(ts[l], f) = {}
      OBVIOUS
    <2>2. ASSUME NEW j \in (keep + 1)..(keep + k - 1)
          PROVE  Rewound(records[j], f) = {}
      <3>1. j - keep \in 1..(k - 1) /\ j - keep \in 1..(n - keep) /\ keep + (j - keep) = j
        BY <1>1, <2>1
      <3> QED BY <1>2, <2>1, <3>1
    <2>3. keep + k \in (keep + 1)..n /\ ts[k] = records[keep + k]
      BY <1>1, <1>2, <2>1
    <2> HIDE DEF First, Has1
    <2> QED BY <2>2, <2>3 DEF Nothing
  <1>5. CASE back # {}
    <2>1. PICK k \in First : content \in Rewound(ts[k], f)
      <3> HIDE DEF First, Has1
      <3>1. content \in back
        BY <1>5
      <3> QED BY <3>1
    <2>0. k \in Int /\ keep \in Int
      BY <1>1
    <2> HIDE DEF First, content, back, Has1
    <2>2. PICK j \in Int : j = keep + k
      BY <2>0
    <2>3. j \in (keep + 1)..n /\ Nothing(keep + 1, j - 1, f)
      BY <1>4, <2>0, <2>2
    <2>4. content \in Rewound(records[j], f)
      BY <1>4, <2>1, <2>2
    <2>5. BackTo(keep + 1, f, content)
      BY <1>0, <2>3, <2>4 DEF BackTo
    <2>6. content \in Content
      <3>1. records[j] \in TurnIds
        BY <1>1, <2>3
      <3> QED BY <2>4, <3>1, RewoundTypes
    <2> QED BY <1>0, <1>3, <2>5, <2>6
  <1>6. CASE back = {}
    <2>1. \A k \in 1..(n - keep) : ~ Has1(k)
      <3> DEFINE S == {k \in 1..(n - keep) : Has1(k)}
      <3> HIDE DEF Has1
      <3> SUFFICES ASSUME S # {} PROVE FALSE
        OBVIOUS
      <3>1. PICK k \in S : \A l \in S : k <= l
        <4>1. S \subseteq Nat
          BY <1>1
        <4> HIDE DEF S
        <4> QED BY <4>1, HasLeast
      <3>2. k \in 1..(n - keep) /\ \A l \in 1..(k - 1) : l \in 1..(n - keep) /\ ~ (k <= l)
        BY <1>1
      <3>3. k \in First /\ Has1(k)
        BY <3>1, <3>2
      <3> QED BY <1>6, <3>3 DEF Has1
    <2>2. Nothing(keep + 1, n, f)
      <3> SUFFICES ASSUME NEW j \in (keep + 1)..n PROVE Rewound(records[j], f) = {}
        BY DEF Nothing
      <3>1. j - keep \in 1..(n - keep) /\ keep + (j - keep) = j
        BY <1>1
      <3> QED BY <1>2, <2>1, <3>1
    <2>3. content = file[f]
      BY <1>6
    <2> HIDE DEF content, First, back, Has1
    <2> QED BY <1>0, <1>3, <2>2, <2>3 DEF BackTo, TreeTypes
  <1> QED BY <1>5, <1>6

\* An /undo leaves what going back gives as it was: to the turns kept, since a file the
\* range has is now as the range had it, and to the turn it took back, since it is done.
LEMMA undo_to_turnKeeps ==
  ASSUME UndoInv, NEW keep \in 1..MaxTurns, NEW scope \in Scopes, undo_to_turn(keep, scope)
  PROVE  UndoInv'
  <1>0. PICK n, range : n = Len(records) /\ range = SubSeq(records, keep + 1, n)
    OBVIOUS
  <1>1. /\ TreeTypes /\ StoreTypes /\ MarkTypes /\ CallTypes /\ Chat /\ Directories
        /\ Intact /\ Alone /\ Captured /\ GoesBack
    BY DEF UndoInv
  <1>2. /\ ~ open /\ keep \in 1..(n - 1) /\ undos' = undos + 1
        /\ file' = (IF scope = "chat" THEN file ELSE rewind_range(range))
        /\ records' = (IF scope = "code" THEN records ELSE SubSeq(records, 1, keep))
        /\ passed' = passed \cup {range[i] : i \in (IF scope = "chat" THEN {} ELSE 2..Len(range))}
        /\ gone' = gone \cup {range[i] : i \in (IF scope = "chat" THEN 1..Len(range) ELSE {})}
        /\ UNCHANGED <<edits, cur, open, dirs, manifest, blobs, writer, base, raced, late>>
    BY <1>0 DEF undo_to_turn, store
  <1>3. /\ n \in Nat /\ keep \in Nat /\ keep + 1 \in 1..n /\ keep \in 1..n /\ cur \in 0..MaxTurns /\ cur \in Nat
        /\ \A i \in 1..n : records[i] \in TurnIds /\ records[i] \in Nat
    BY <1>0, <1>1, <1>2, ChatIs DEF TreeTypes
  <1>4. /\ Len(range) = n - keep /\ \A k \in 1..(n - keep) : range[k] = records[keep + k]
        /\ \A k \in 1..(n - keep) : range[k] \in TurnIds
    <2>1. keep + 1 \in Int /\ n \in Int /\ \A i \in (keep + 1)..n : records[i] \in TurnIds
      BY <1>3
    <2>2. /\ Len(range) = IF keep + 1 <= n THEN n - (keep + 1) + 1 ELSE 0
          /\ \A k \in 1..(n - (keep + 1) + 1) : range[k] = records[keep + 1 + k - 1]
      BY <1>0, <2>1, SubSeqProperties
    <2>3. n - (keep + 1) + 1 = n - keep /\ keep + 1 <= n
          /\ \A k \in 1..(n - keep) : keep + 1 + k - 1 = keep + k /\ keep + k \in 1..n
      BY <1>3
    <2> QED BY <1>3, <2>2, <2>3
  <1>5. \A f \in Files : BackTo(keep + 1, f, rewind_range(range)[f]) /\ rewind_range(range)[f] \in Content
    BY <1>0, <1>1, <1>2, RangeGoesBack
  <1>6. TreeTypes'
    <2>1. file' \in [Files -> Content]
      <3>1. rewind_range(range) = [f \in Files |-> rewind_range(range)[f]]
        BY DEF rewind_range, Restored
      <3> QED BY <1>1, <1>2, <1>5, <3>1 DEF TreeTypes
    <2> QED BY <1>1, <1>2, <2>1 DEF TreeTypes, Busy, Content
  <1>7. StoreTypes'
    BY <1>1, <1>2 DEF StoreTypes, Content, Entry
  <1>8. MarkTypes'
    BY <1>1, <1>2, <1>4 DEF MarkTypes
  <1>9. CallTypes'
    BY <1>1, <1>2 DEF CallTypes, Call, Entry, Resting
  <1>10. Directories' /\ Intact' /\ Alone'
    BY <1>1, <1>2, <1>3, StoreFrame DEF store
  <1>11. Captured'
    BY <1>2 DEF Captured, CapturedBy
  <1>12. scope # "code" => /\ records' \in Seq(TurnIds) /\ Len(records') = keep
                           /\ \A i \in 1..keep : records'[i] = records[i]
    <2>1. 1 \in Int /\ keep \in Int /\ \A i \in 1..keep : records[i] \in TurnIds
      BY <1>3
    <2>2. /\ SubSeq(records, 1, keep) \in Seq(TurnIds)
          /\ Len(SubSeq(records, 1, keep)) = IF 1 <= keep THEN keep - 1 + 1 ELSE 0
          /\ \A i \in 1..(keep - 1 + 1) : SubSeq(records, 1, keep)[i] = records[1 + i - 1]
      BY <2>1, SubSeqProperties
    <2>3. 1 <= keep /\ keep - 1 + 1 = keep /\ \A i \in 1..keep : 1 + i - 1 = i
      BY <1>2, <1>3
    <2> QED BY <1>2, <2>2, <2>3
  <1>13. Chat'
    <2>1. CASE scope = "code"
      BY <1>1, <1>2, <2>1 DEF Chat
    <2>2. CASE scope # "code"
      <3>1. \A i \in 1..keep : i \in 1..n
        BY <1>3
      <3> QED BY <1>0, <1>1, <1>2, <1>12, <2>2, <3>1 DEF Chat
    <2> QED BY <2>1, <2>2
  <1>14. \A u, g : Rewound(u, g)' = Rewound(u, g)
    BY <1>2, RewoundFrame
  <1>15. \A i \in 1..n, j \in 1..n : i < j => records[i] < records[j]
    BY <1>0, <1>1 DEF Chat
  <1>16. GoesBack'
    <2>1. \A i \in 1..Len(records') : i \in 1..n /\ records'[i] = records[i]
      <3>1. \A i \in 1..keep : i \in 1..n
        BY <1>3
      <3> QED BY <1>0, <1>2, <1>12, <3>1
    <2>2. ASSUME NEW i \in 1..Len(records'), InReach(i)'
          PROVE  InReach(i) /\ scope # "chat" /\ i <= keep + 1 /\ (scope # "code" => i <= keep)
      <3>1. InReach(i)
        BY <1>2, <2>1, <2>2 DEF InReach
      <3>2. scope # "chat"
        <4> SUFFICES ASSUME scope = "chat" PROVE FALSE
          OBVIOUS
        <4>1. 1 \in 1..Len(range) /\ range[1] = records[keep + 1]
          BY <1>3, <1>4
        <4>2. records[keep + 1] < records[i]
          BY <1>2, <2>1, <2>2, <4>1 DEF InReach
        <4>3. i \in 1..n /\ i < keep + 1
          BY <1>3, <1>12
        <4>4. records[i] < records[keep + 1]
          BY <1>3, <1>15, <4>3
        <4> QED BY <1>3, <4>2, <4>3, <4>4
      <3>3. scope # "code" => i <= keep
        BY <1>12
      <3>4. i <= keep + 1
        <4> SUFFICES ASSUME ~ (i <= keep + 1) PROVE FALSE
          OBVIOUS
        <4>1. i - keep \in 2..Len(range) /\ i - keep \in 1..(n - keep) /\ keep + (i - keep) = i
          BY <1>3, <1>4, <2>1
        <4>2. range[i - keep] = records[i]
          BY <1>4, <4>1
        <4> QED BY <1>2, <2>1, <2>2, <3>2, <4>1, <4>2 DEF InReach
      <3> QED BY <3>1, <3>2, <3>3, <3>4
    <2>3. ASSUME NEW i \in 1..Len(records'), i <= keep + 1, scope # "chat", scope # "code" => i <= keep,
                 NEW f \in Files, NEW c \in Content, BackTo(i, f, c)'
          PROVE  BackTo(i, f, c)
      <3>0. PICK m : m = Len(records')
        OBVIOUS
      <3>1. m \in Nat /\ m \in 1..n /\ (scope = "code" => m = n) /\ (scope # "code" => m = keep) /\ i \in 1..m
        BY <1>0, <1>2, <1>3, <1>12, <2>3, <3>0
      <3>2. \A j \in i..m : Rewound(records[j], f)' = Rewound(records[j], f)
        BY <1>14, <2>1, <3>0, <3>1
      <3>3. ASSUME NEW k \in i..m, Nothing(i, k - 1, f)', c \in Rewound(records[k], f)'
            PROVE  BackTo(i, f, c)
        <4>1. \A l \in i..(k - 1) : l \in i..m
          BY <3>1
        <4>2. \A l \in i..(k - 1) : Rewound(records[l], f)' = {}
          BY <3>3 DEF Nothing
        <4>3. Nothing(i, k - 1, f)
          BY <3>2, <4>1, <4>2 DEF Nothing
        <4>4. k \in i..n
          BY <1>3, <3>1
        <4> QED BY <1>0, <3>2, <3>3, <4>3, <4>4 DEF BackTo
      <3>4. ASSUME Nothing(i, m, f)', c = file'[f]
            PROVE  BackTo(i, f, c)
        <4>1. Nothing(i, m, f)
          BY <3>1, <3>2, <3>4 DEF Nothing
        <4>2. BackTo(keep + 1, f, c)
          BY <1>2, <1>5, <2>3, <3>4
        <4>3. \A l \in i..keep : Rewound(records[l], f) = {}
          <5>1. \A l \in i..keep : l \in i..m
            BY <1>3, <3>1
          <5> QED BY <4>1, <5>1 DEF Nothing
        <4>4. CASE Nothing(keep + 1, n, f) /\ c = file[f]
          <5>1. \A l \in i..n : l \in i..keep \/ l \in (keep + 1)..n
            BY <1>3, <3>1
          <5>2. Nothing(i, n, f)
            BY <4>3, <4>4, <5>1 DEF Nothing
          <5> QED BY <1>0, <4>4, <5>2 DEF BackTo
        <4>5. ASSUME NEW k \in (keep + 1)..n, Nothing(keep + 1, k - 1, f), c \in Rewound(records[k], f)
              PROVE  BackTo(i, f, c)
          <5>1. k \in i..n /\ \A l \in i..(k - 1) : l \in i..keep \/ l \in (keep + 1)..(k - 1)
            BY <1>3, <2>3, <3>1
          <5>2. Nothing(i, k - 1, f)
            BY <4>3, <4>5, <5>1 DEF Nothing
          <5> QED BY <1>0, <4>5, <5>1, <5>2 DEF BackTo
        <4> QED BY <1>0, <4>2, <4>4, <4>5 DEF BackTo
      <3> QED BY <2>3, <3>0, <3>3, <3>4 DEF BackTo
    <2> QED BY <1>0, <1>1, <1>2, <2>1, <2>2, <2>3, BackKeeps
  <1> QED BY <1>6, <1>7, <1>8, <1>9, <1>10, <1>11, <1>13, <1>16 DEF UndoInv

LEMMA UndoStarts ==
  ASSUME CheckpointsInit
  PROVE  UndoInv
  <1>1. /\ file = [f \in Files |-> IF f \in Existing THEN 1 ELSE 0] /\ edits = 1
        /\ cur = 0 /\ open = FALSE /\ records = <<>> /\ dirs = <<>> /\ undos = 0
        /\ manifest = [t \in TurnIds |-> <<>>] /\ blobs = [t \in TurnIds |-> [n \in {} |-> 0]]
        /\ writer = [w \in Writers |-> Resting] /\ base = [t \in TurnIds |-> [f \in Files |-> 0]]
        /\ raced = {} /\ late = {} /\ gone = {} /\ passed = {}
    BY DEF CheckpointsInit
  <1>2. MaxTurns \in Nat /\ MaxEdits \in Nat /\ KeepN \in Nat
    BY CheckpointsAssumption
  <1>3. TreeTypes
    <2>1. Busy = {}
      BY <1>1, RestingIs DEF Busy
    <2>2. Cardinality(Busy) = 0
      BY <2>1, FS_EmptySet
    <2>3. file \in [Files -> Content]
      BY <1>1, <1>2 DEF Content
    <2>4. edits \in Nat /\ edits + Cardinality(Busy) <= MaxEdits + 1 /\ cur \in 0..MaxTurns /\ undos \in Nat
      BY <1>1, <1>2, <2>2
    <2>5. open \in BOOLEAN
      BY <1>1
    <2> QED BY <2>3, <2>4, <2>5 DEF TreeTypes
  <1>4. StoreTypes
    <2>1. <<>> \in Seq(TurnIds) /\ <<>> \in Seq(Entry) /\ Len(<<>>) = 0
      OBVIOUS
    <2>2. manifest \in [TurnIds -> Seq(Entry)]
      BY <1>1, <2>1
    <2>3. blobs = [t \in TurnIds |-> blobs[t]] /\ \A t \in TurnIds : \A n \in DOMAIN blobs[t] : blobs[t][n] \in Content
      BY <1>1
    <2> QED BY <1>1, <1>2, <2>1, <2>2, <2>3 DEF StoreTypes
  <1>5. MarkTypes
    BY <1>1 DEF MarkTypes
  <1>6. CallTypes
    BY <1>1, RestingIs DEF CallTypes
  <1>7. Chat
    BY <1>1 DEF Chat
  <1>8. Directories /\ Intact
    BY <1>1 DEF Directories, Made, Intact, IntactOf
  <1>9. Alone /\ Captured
    BY <1>1, RestingIs DEF Alone, Capturing, Captured, CapturedBy
  <1>10. GoesBack
    BY <1>1 DEF GoesBack
  <1> QED BY <1>3, <1>4, <1>5, <1>6, <1>7, <1>8, <1>9, <1>10 DEF UndoInv

LEMMA UndoStepKeeps ==
  ASSUME UndoInv, [CheckpointsNext]_checkpointVars
  PROVE  UndoInv'
  <1>1. CASE StartTurn
    BY <1>1, StartTurnKeeps
  <1>2. CASE EndTurn \/ UNCHANGED checkpointVars
    BY <1>2, EndTurnKeeps
  <1>3. ASSUME NEW w \in Writers, NEW f \in Files, NEW t \in TurnIds, ensure_turn(w, f, t)
        PROVE  UndoInv'
    BY <1>3, ensure_turnKeeps
  <1>4. ASSUME NEW w \in Writers, CaptureStep(w)
        PROVE  UndoInv'
    BY <1>4, ReadManifestKeeps, WriteEntryKeeps DEF CaptureStep
  <1>5. ASSUME NEW w \in Writers, NEW content \in {0, edits + 1}, Edit(w, content)
        PROVE  UndoInv'
    BY <1>5, EditKeeps
  <1>6. ASSUME NEW keep \in 1..MaxTurns, NEW scope \in Scopes, undo_to_turn(keep, scope)
        PROVE  UndoInv'
    BY <1>6, undo_to_turnKeeps
  <1> QED BY <1>1, <1>2, <1>3, <1>4, <1>5, <1>6 DEF CheckpointsNext

\* Snapshots and the tree fit together after every step of the agents and of /undo.
THEOREM UndoInductive == UndoSpec => []UndoInv
  BY UndoStarts, UndoStepKeeps, PTL DEF UndoSpec

LEMMA UndoSound == UndoInv => CheckpointsTypeOK
  BY DEF UndoInv, TreeTypes, StoreTypes, Intact, IntactOf, CheckpointsTypeOK, Content

\* A manifest names each file once and only blobs that exist, unless captures of the
\* turn overlapped or its pruned snapshot was made anew under one, however agents
\* capture, edit and prune without a lock; and no more than keep_n snapshots are kept.
THEOREM CheckpointsSoundTheorem == UndoSpec => []CheckpointsTypeOK
  BY UndoSound, UndoInductive, PTL

\* /undo gives every file the content it had when the oldest turn taken back began,
\* through any edits, turns, prunes and earlier uses of /undo, within what
\* UndoRestores excepts.
THEOREM UndoAloneRestores == UndoSpec => UndoRestores
  <1>1. ASSUME UndoInv, NEW keep \in 1..(Len(records) - 1), NEW scope \in {"code", "both"}, undo_to_turn(keep, scope),
               \A t \in raced \cup gone : t < records[keep + 1], records[keep + 1] \notin passed, NEW f \in Files \ late
        PROVE  file'[f] = base[records[keep + 1]][f]
    <2>1. StoreTypes /\ TreeTypes /\ Chat /\ GoesBack
      BY <1>1 DEF UndoInv
    <2>2. file' = rewind_range(SubSeq(records, keep + 1, Len(records)))
      BY <1>1 DEF undo_to_turn
    <2>3. BackTo(keep + 1, f, file'[f]) /\ file'[f] \in Content
      BY <2>1, <2>2, RangeGoesBack
    <2>4. keep + 1 \in 1..Len(records)
      BY <2>1, ChatIs DEF TreeTypes
    <2> QED BY <1>1, <2>1, <2>3, <2>4 DEF GoesBack, InReach
  <1>2. UndoInv /\ [CheckpointsNext]_checkpointVars =>
          [undos' > undos => \A keep \in 1..(Len(records) - 1) :
             LET oldest == records[keep + 1] IN
             (/\ \E scope \in {"code", "both"} : undo_to_turn(keep, scope)
              /\ \A t \in raced \cup gone : t < oldest
              /\ oldest \notin passed)
             => \A f \in Files \ late : file'[f] = base[oldest][f]]_checkpointVars
    BY <1>1
  <1> QED BY <1>2, UndoInductive, PTL DEF UndoSpec, UndoRestores

-----------------------------------------------------------------------------
(***************************************************************************)
(* Rollback.  A rollback that has passed its stages is where it says, and  *)
(* the user's own files survive, for any number of files, commits, nodes,  *)
(* faults and attempts.  Each stage relies on what the ones before it left *)
(* and agents may have undone, so the invariant says stage by stage what   *)
(* still holds if nobody wrote since (Stages).  That a reset does not take *)
(* the user's files needs more than the tip: the commit it goes back to,   *)
(* and every one since, does not have them unless somebody committed them  *)
(* (OwnNotInLog).  Crashes put back the turn on disk, which is the one in  *)
(* memory or none (OneTurn).                                               *)
(***************************************************************************)

\* The rollbacks alone: MCSessionStores checks them as one of its parts.
RollbackSpec == RollbackInit /\ [][RollbackNext]_rollbackVars

\* The type of every variable but the counters.
FileContents == [ProjectFiles -> Nat]
Turn == [head : Nat, untracked : SUBSET ProjectFiles]
Stage == {"idle", "record", "reset", "rewind", "delete", "save", "truncate"}
RollbackTypes ==
  /\ work \in FileContents /\ log \in Seq(FileContents) /\ log # <<>>
  /\ turn \in Turn /\ onDisk.turn \in Turn
  /\ call = [at |-> call.at, anchor |-> call.anchor] /\ call.at \in Stage /\ writes \in Nat
  /\ published \subseteq ProjectFiles /\ during \subseteq ProjectFiles

\* There is one execution turn at most; nodes and rollbacks are of it.
OneTurn ==
  /\ turn = NoTurnYet \/ turn.head \in 1..Len(log)
  /\ onDisk.turn \in {NoTurnYet, turn}
  /\ nodes # <<>> => turn # NoTurnYet
  /\ onDisk.nodes # <<>> => onDisk.turn # NoTurnYet
  /\ call.at = "record" => turn = NoTurnYet
  /\ call.at \in Stage \ {"idle", "record"} => turn # NoTurnYet

\* What the stages passed have left.
Stages ==
  /\ call.at \in {"rewind", "delete", "save", "truncate"} /\ during = {} => Len(log) = turn.head
  /\ call.at \in {"save", "truncate"} => Untracked \subseteq turn.untracked \cup during

\* No commit since the turn began has the user's files, unless they were published.
OwnNotInLog ==
  turn # NoTurnYet =>
    \A f \in turn.untracked \ published : \A i \in turn.head..Len(log) : log[i][f] = 0

RollbackInv == RollbackTypes /\ OneTurn /\ Stages /\ OwnNotInLog /\ OwnFilesKept

\* The log and its tip.
LEMMA LogIs ==
  ASSUME RollbackTypes
  PROVE  /\ Len(log) \in Nat /\ 1 <= Len(log) /\ \A i \in 1..Len(log) : log[i] \in FileContents
         /\ Tip \in FileContents /\ Untracked \subseteq ProjectFiles
  <1>1. log \in Seq(FileContents) /\ log # <<>>
    BY DEF RollbackTypes
  <1>2. Len(log) \in Nat /\ 1 <= Len(log) /\ \A i \in 1..Len(log) : log[i] \in FileContents
    BY <1>1, EmptySeq, LenProperties, ElementOfSeq
  <1> QED BY <1>2 DEF Tip, Untracked

\* The three places of a step's call.
LEMMA StageCall ==
  ASSUME RollbackTypes, NEW a \in Stage
  PROVE  /\ Go(a) => call' = [at |-> a, anchor |-> call.anchor] /\ call'.at = a
         /\ Bail => call' = NoCall /\ call'.at = "idle"
         /\ NoCall.at = "idle" /\ NoCall = [at |-> NoCall.at, anchor |-> NoCall.anchor]
  <1>1. call = [at |-> call.at, anchor |-> call.anchor]
    BY DEF RollbackTypes
  <1> QED BY <1>1 DEF Go, Bail, NoCall

\* A step that leaves workspace and turn alone is safe if the stage it enters is.
Workspace == <<work, log, published, turn, during>>

LEMMA StageKeeps ==
  ASSUME RollbackInv, UNCHANGED Workspace, writes' \in Nat,
         call' = [at |-> call'.at, anchor |-> call'.anchor], call'.at \in Stage,
         onDisk'.turn \in {NoTurnYet, turn}, onDisk'.turn \in Turn,
         onDisk'.nodes # <<>> => onDisk'.turn # NoTurnYet,
         nodes' # <<>> => turn # NoTurnYet,
         call'.at = "record" => turn = NoTurnYet,
         call'.at \in Stage \ {"idle", "record"} => turn # NoTurnYet,
         call'.at \in {"rewind", "delete", "save", "truncate"} /\ during = {} => Len(log) = turn.head,
         call'.at \in {"save", "truncate"} => Untracked \subseteq turn.untracked \cup during
  PROVE  RollbackInv'
  <1>1. RollbackTypes'
    BY DEF RollbackInv, RollbackTypes, Workspace
  <1>2. OneTurn'
    BY DEF RollbackInv, OneTurn, Workspace
  <1>3. Stages'
    BY DEF Stages, Workspace, Untracked, Tip
  <1>4. OwnNotInLog' /\ OwnFilesKept'
    BY DEF RollbackInv, OwnNotInLog, OwnFilesKept, Workspace
  <1> QED BY <1>1, <1>2, <1>3, <1>4 DEF RollbackInv

\* A saved session has the turn and the nodes there are.
LEMMA SavedIs ==
  ASSUME RollbackInv, NEW ok \in BOOLEAN, Save(ok), turn' = turn, nodes' # <<>> => turn # NoTurnYet
  PROVE  /\ onDisk'.turn \in {NoTurnYet, turn} /\ onDisk'.turn \in Turn
         /\ onDisk'.nodes # <<>> => onDisk'.turn # NoTurnYet
  <1>1. CASE ok
    BY <1>1 DEF Save, RollbackInv, RollbackTypes
  <1>2. CASE ~ ok
    BY <1>2 DEF Save, RollbackInv, RollbackTypes, OneTurn
  <1> QED BY <1>1, <1>2

LEMMA WriteKeeps ==
  ASSUME RollbackInv, NEW f \in ProjectFiles, Write(f)
  PROVE  RollbackInv'
  <1>1. /\ work' = [work EXCEPT ![f] = writes + 1] /\ writes' = writes + 1
        /\ during' = (IF call.at = "idle" THEN during ELSE during \cup {f})
        /\ UNCHANGED <<log, published, turn, nodes, onDisk, call>>
    BY DEF Write, session
  <1>2. RollbackTypes /\ OneTurn /\ Stages /\ OwnNotInLog /\ OwnFilesKept /\ writes \in Nat
        /\ work \in FileContents
    BY DEF RollbackInv, RollbackTypes
  <1>3. work' \in FileContents /\ \A g \in ProjectFiles : g # f => work'[g] = work[g]
    BY <1>1, <1>2 DEF FileContents
  <1>4. work'[f] # 0
    BY <1>1, <1>2 DEF FileContents
  <1>5. RollbackTypes'
    BY <1>1, <1>2, <1>3 DEF RollbackTypes
  <1>6. OneTurn' /\ OwnNotInLog'
    BY <1>1, <1>2 DEF OneTurn, OwnNotInLog
  <1>7. Stages'
    <2>1. Untracked' \subseteq Untracked \cup {f}
      BY <1>1, <1>3 DEF Untracked, Tip
    <2> QED BY <1>1, <1>2, <2>1 DEF Stages
  <1>8. OwnFilesKept'
    <2>1. turn.untracked \subseteq ProjectFiles
      BY <1>2 DEF RollbackTypes, Turn
    <2> QED BY <1>1, <1>2, <1>3, <1>4, <2>1 DEF OwnFilesKept
  <1> QED BY <1>5, <1>6, <1>7, <1>8 DEF RollbackInv

LEMMA CommitKeeps ==
  ASSUME RollbackInv, NEW fs \in SUBSET ProjectFiles, Commit(fs)
  PROVE  RollbackInv'
  <1> DEFINE after == [f \in ProjectFiles |-> IF f \in fs THEN work[f] ELSE Tip[f]]
  <1>1. /\ after # Tip /\ log' = Append(log, after)
        /\ published' = (IF turn = NoTurnYet THEN {} ELSE published \cup fs)
        /\ during' = (IF call.at = "idle" THEN during ELSE during \cup fs)
        /\ UNCHANGED <<work, turn, nodes, onDisk, call, writes>>
    BY DEF Commit, session
  <1>2. /\ RollbackTypes /\ OneTurn /\ Stages /\ OwnNotInLog /\ OwnFilesKept
        /\ work \in FileContents /\ log \in Seq(FileContents) /\ turn \in Turn
    BY DEF RollbackInv, RollbackTypes
  <1>3. Len(log) \in Nat /\ 1 <= Len(log) /\ Tip \in FileContents
    BY <1>2, LogIs
  <1>4. after \in FileContents /\ \A f \in ProjectFiles : after[f] = IF f \in fs THEN work[f] ELSE Tip[f]
    BY <1>2, <1>3 DEF FileContents
  <1>5. fs # {}
    <2> SUFFICES ASSUME fs = {} PROVE after = Tip
      BY <1>1
    <2> QED BY <1>3 DEF FileContents
  <1> HIDE DEF after
  <1>6. /\ log' \in Seq(FileContents) /\ log' # <<>> /\ Len(log') = Len(log) + 1
        /\ \A i \in 1..Len(log) : log'[i] = log[i]
        /\ log'[Len(log) + 1] = after
    BY <1>1, <1>2, <1>4, AppendProperties
  <1>7. Tip' = after
    BY <1>6 DEF Tip
  <1>8. Untracked' \subseteq Untracked
    BY <1>1, <1>4, <1>7 DEF Untracked
  <1>9. RollbackTypes'
    BY <1>1, <1>2, <1>6 DEF RollbackTypes
  <1>10. OneTurn'
    BY <1>1, <1>2, <1>3, <1>6 DEF OneTurn
  <1>11. Stages'
    <2>1. call.at \in {"rewind", "delete", "save", "truncate"} => during' # {}
      BY <1>1, <1>5
    <2> QED BY <1>1, <1>2, <1>8, <2>1 DEF Stages
  <1>12. OwnNotInLog'
    <2> SUFFICES ASSUME turn # NoTurnYet, NEW f \in turn.untracked, f \notin published', NEW i \in turn.head..Len(log')
                 PROVE  log'[i][f] = 0
      BY <1>1 DEF OwnNotInLog
    <2>1. f \in ProjectFiles /\ f \notin fs /\ f \notin published /\ turn.head \in 1..Len(log)
      BY <1>1, <1>2 DEF Turn, OneTurn
    <2>2. \A j \in turn.head..Len(log) : log[j][f] = 0
      BY <1>2, <2>1 DEF OwnNotInLog
    <2>3. CASE i = Len(log) + 1
      <3>1. Tip[f] = 0
        BY <1>3, <2>1, <2>2 DEF Tip
      <3> QED BY <1>4, <1>6, <2>1, <2>3, <3>1
    <2>4. CASE i # Len(log) + 1
      <3>1. i \in turn.head..Len(log) /\ i \in 1..Len(log)
        BY <1>3, <1>6, <2>1, <2>4
      <3> QED BY <1>6, <2>2, <3>1
    <2> QED BY <2>3, <2>4
  <1>13. OwnFilesKept'
    <2>1. turn = NoTurnYet => turn.untracked = {}
      BY DEF NoTurnYet
    <2> QED BY <1>1, <1>2, <2>1 DEF OwnFilesKept
  <1> QED BY <1>9, <1>10, <1>11, <1>12, <1>13 DEF RollbackInv

\* A crash: the turn on disk is the one in memory or none.
LEMMA open_or_createKeeps ==
  ASSUME RollbackInv, open_or_create
  PROVE  RollbackInv'
  <1>1. /\ turn' = onDisk.turn /\ nodes' = onDisk.nodes /\ call' = NoCall
        /\ UNCHANGED <<work, log, published, onDisk, during, writes>>
    BY DEF open_or_create, project
  <1>2. /\ RollbackTypes /\ OneTurn /\ OwnNotInLog /\ OwnFilesKept
        /\ turn' \in {NoTurnYet, turn} /\ turn' \in Turn /\ NoCall.at = "idle"
        /\ NoCall = [at |-> NoCall.at, anchor |-> NoCall.anchor] /\ NoTurnYet.untracked = {}
    BY <1>1 DEF RollbackInv, RollbackTypes, OneTurn, NoCall, NoTurnYet
  <1>3. RollbackTypes'
    BY <1>1, <1>2 DEF RollbackTypes, Stage
  <1>4. OneTurn' /\ Stages'
    BY <1>1, <1>2 DEF OneTurn, Stages
  <1>5. OwnNotInLog' /\ OwnFilesKept'
    BY <1>1, <1>2 DEF OwnNotInLog, OwnFilesKept
  <1> QED BY <1>3, <1>4, <1>5 DEF RollbackInv

LEMMA begin_turnKeeps ==
  ASSUME RollbackInv, begin_turn
  PROVE  RollbackInv'
  <1>1. /\ call.at = "record" /\ call' = NoCall /\ nodes' = nodes
        /\ turn' = [head |-> Len(log), untracked |-> Untracked]
        /\ published' = {} /\ UNCHANGED <<work, log, during, writes>>
    BY DEF begin_turn
  <1>2. PICK ok \in BOOLEAN : Save(ok)
    BY DEF begin_turn
  <1>3. /\ RollbackTypes /\ OneTurn /\ turn = NoTurnYet /\ NoCall.at = "idle"
        /\ NoCall = [at |-> NoCall.at, anchor |-> NoCall.anchor]
        /\ work \in FileContents
    BY <1>1 DEF RollbackInv, RollbackTypes, OneTurn, NoCall
  <1>4. Len(log) \in Nat /\ 1 <= Len(log) /\ Untracked \subseteq ProjectFiles
    BY <1>3, LogIs
  <1>5. /\ turn' \in Turn /\ turn'.head = Len(log) /\ turn'.untracked = Untracked
        /\ turn' # NoTurnYet
    BY <1>1, <1>4 DEF Turn, NoTurnYet
  <1>6. /\ onDisk'.turn \in {NoTurnYet, turn'} /\ onDisk'.turn \in Turn
        /\ onDisk'.nodes # <<>> => onDisk'.turn # NoTurnYet
    <2>1. CASE ok
      BY <1>2, <1>5, <2>1 DEF Save
    <2>2. CASE ~ ok
      BY <1>2, <1>3, <2>2 DEF Save, OneTurn, RollbackTypes
    <2> QED BY <2>1, <2>2
  <1>7. RollbackTypes'
    BY <1>1, <1>3, <1>5, <1>6 DEF RollbackTypes, Stage
  <1>8. OneTurn' /\ Stages'
    BY <1>1, <1>3, <1>4, <1>5, <1>6 DEF OneTurn, Stages
  <1>9. OwnNotInLog'
    <2>1. \A f \in Untracked : \A i \in Len(log)..Len(log) : log[i][f] = 0
      BY <1>4 DEF Untracked, Tip
    <2> QED BY <1>1, <1>5, <2>1 DEF OwnNotInLog
  <1>10. OwnFilesKept'
    BY <1>1, <1>5 DEF OwnFilesKept, Untracked
  <1> QED BY <1>7, <1>8, <1>9, <1>10 DEF RollbackInv

LEMMA reset_git_head_if_neededKeeps ==
  ASSUME RollbackInv, reset_git_head_if_needed
  PROVE  RollbackInv'
  <1>1. /\ RollbackTypes /\ OneTurn /\ OwnNotInLog /\ OwnFilesKept /\ Stages
        /\ work \in FileContents /\ log \in Seq(FileContents) /\ turn \in Turn /\ writes \in Nat
    BY DEF RollbackInv, RollbackTypes
  <1>2. call.at = "reset" /\ UNCHANGED <<published, turn, nodes, onDisk, writes, during>>
    BY DEF reset_git_head_if_needed, session
  <1>3. turn # NoTurnYet /\ turn.head \in 1..Len(log)
    BY <1>1, <1>2 DEF OneTurn, Stage
  <1>4. /\ onDisk.turn \in {NoTurnYet, turn} /\ onDisk.turn \in Turn
        /\ (onDisk.nodes # <<>> => onDisk.turn # NoTurnYet)
    BY <1>1 DEF OneTurn, RollbackTypes
  <1>5. /\ Go("rewind") => call' = [at |-> "rewind", anchor |-> call.anchor] /\ call'.at = "rewind"
        /\ Bail => call' = NoCall /\ call'.at = "idle"
        /\ NoCall.at = "idle" /\ NoCall = [at |-> NoCall.at, anchor |-> NoCall.anchor]
    BY <1>1, StageCall DEF Stage
  <1>6. CASE Len(log) = turn.head /\ Go("rewind") /\ UNCHANGED <<work, log>>
    BY <1>2, <1>3, <1>4, <1>1, <1>5, <1>6, StageKeeps DEF Workspace, Stage
  <1>7. CASE Bail /\ UNCHANGED <<work, log>>
    BY <1>2, <1>3, <1>4, <1>1, <1>5, <1>7, StageKeeps DEF Workspace, Stage
  <1>8. CASE Len(log) = turn.head + 1 /\ Go("rewind") /\ ResetTo(turn.head)
    <2> DEFINE h == turn.head
    <2>1. /\ log' = SubSeq(log, 1, h)
          /\ work' = [f \in ProjectFiles |->
                        IF Tip[f] = 0 /\ log[h][f] = 0 THEN work[f] ELSE log[h][f]]
      BY <1>8 DEF ResetTo
    <2>2. /\ Len(log) \in Nat /\ \A i \in 1..Len(log) : log[i] \in FileContents
          /\ h \in Nat /\ 1 <= h /\ h \in 1..Len(log)
      BY <1>1, <1>3, LogIs
    <2>3. log' \in Seq(FileContents) /\ Len(log') = h /\ \A i \in 1..h : log'[i] = log[i]
      <3>1. 1 \in Int /\ h \in Int /\ \A i \in 1..h : log[i] \in FileContents
        BY <2>2
      <3> QED BY <2>1, <2>2, <3>1, SubSeqProperties
    <2>4. log' # <<>>
      BY <2>2, <2>3, EmptySeq
    <2>5. work' \in FileContents
      BY <1>1, <2>1, <2>2 DEF FileContents
    <2>6. RollbackTypes'
      BY <1>1, <1>2, <1>5, <1>8, <2>3, <2>4, <2>5 DEF RollbackTypes, Stage
    <2>7. call'.at = "rewind" /\ turn'.head \in 1..Len(log') /\ Len(log') = turn'.head
      BY <1>2, <1>5, <1>8, <2>2, <2>3
    <2>8. OneTurn'
      BY <1>1, <1>2, <1>3, <2>7 DEF OneTurn
    <2>9. Stages'
      BY <2>7 DEF Stages
    <2>10. OwnNotInLog'
      <3> SUFFICES ASSUME NEW f \in turn.untracked \ published, NEW i \in h..h
                   PROVE  log'[i][f] = 0
        BY <1>2, <2>3 DEF OwnNotInLog
      <3>1. i \in turn.head..Len(log) /\ i \in 1..h
        BY <2>2
      <3> QED BY <1>1, <1>3, <2>3, <3>1 DEF OwnNotInLog
    <2>11. OwnFilesKept'
      <3> SUFFICES ASSUME NEW f \in turn.untracked, f \notin published
                   PROVE  work'[f] # 0
        BY <1>2 DEF OwnFilesKept
      <3>1. f \in ProjectFiles /\ work[f] # 0
        BY <1>1 DEF Turn, OwnFilesKept
      <3>2. log[h][f] = 0 /\ Tip[f] = 0
        BY <1>1, <1>3, <1>8, <2>2 DEF OwnNotInLog, Tip
      <3> QED BY <2>1, <3>1, <3>2
    <2> QED BY <2>6, <2>8, <2>9, <2>10, <2>11 DEF RollbackInv
  <1> QED BY <1>6, <1>7, <1>8 DEF reset_git_head_if_needed

LEMMA delete_new_untrackedKeeps ==
  ASSUME RollbackInv, delete_new_untracked
  PROVE  RollbackInv'
  <1>1. /\ RollbackTypes /\ OneTurn /\ OwnNotInLog /\ OwnFilesKept /\ Stages
        /\ work \in FileContents /\ turn \in Turn
    BY DEF RollbackInv, RollbackTypes
  <1>2. call.at = "delete" /\ UNCHANGED <<log, published, turn, nodes, onDisk, writes, during>>
    BY DEF delete_new_untracked, session
  <1>3. PICK fs \in SUBSET (Untracked \ turn.untracked) :
          /\ work' = [f \in ProjectFiles |-> IF f \in fs THEN 0 ELSE work[f]]
          /\ IF fs = Untracked \ turn.untracked THEN Go("save") /\ UNCHANGED faults
                                                ELSE Bail /\ Fault
    BY DEF delete_new_untracked
  <1>4. /\ Go("save") => call' = [at |-> "save", anchor |-> call.anchor] /\ call'.at = "save"
        /\ Bail => call' = NoCall /\ call'.at = "idle"
        /\ NoCall.at = "idle" /\ NoCall = [at |-> NoCall.at, anchor |-> NoCall.anchor]
    BY <1>1, StageCall DEF Stage
  <1>5. work' \in FileContents
    BY <1>1, <1>3 DEF FileContents
  <1>6. call' = [at |-> call'.at, anchor |-> call'.anchor] /\ call'.at \in {"save", "idle"}
    BY <1>3, <1>4
  <1>7. RollbackTypes'
    BY <1>1, <1>2, <1>5, <1>6 DEF RollbackTypes, Stage
  <1>8. OneTurn' /\ OwnNotInLog'
    BY <1>1, <1>2, <1>6 DEF OneTurn, OwnNotInLog, Stage
  <1>9. Stages'
    <2>1. Untracked' = Untracked \ fs
      BY <1>2, <1>3 DEF Untracked, Tip
    <2>2. call'.at = "save" => fs = Untracked \ turn.untracked
      BY <1>3, <1>4
    <2> QED BY <1>1, <1>2, <1>6, <2>1, <2>2 DEF Stages
  <1>10. OwnFilesKept'
    <2>1. turn.untracked \subseteq ProjectFiles
      BY <1>1 DEF Turn
    <2> QED BY <1>1, <1>2, <1>3, <2>1 DEF OwnFilesKept
  <1> QED BY <1>7, <1>8, <1>9, <1>10 DEF RollbackInv

\* The steps that leave the workspace alone.
LEMMA NewerSnapshotKeeps ==
  ASSUME RollbackInv, NewerSnapshot \/ UNCHANGED rollbackVars
  PROVE  RollbackInv'
  <1>1. UNCHANGED <<Workspace, nodes, onDisk, call, writes>>
    BY DEF NewerSnapshot, Workspace, project, session, rollbackVars
  <1>2. RollbackTypes /\ OneTurn /\ Stages
    BY DEF RollbackInv
  <1>3. /\ call = [at |-> call.at, anchor |-> call.anchor] /\ call.at \in Stage /\ writes \in Nat
        /\ onDisk.turn \in Turn
    BY <1>2 DEF RollbackTypes
  <1> QED BY <1>1, <1>2, <1>3, StageKeeps DEF OneTurn, Stages

LEMMA ensure_turn_beginsKeeps ==
  ASSUME RollbackInv, ensure_turn_begins
  PROVE  RollbackInv'
  <1>1. UNCHANGED <<Workspace, nodes, onDisk, writes>> /\ turn = NoTurnYet
    BY DEF ensure_turn_begins, Workspace, project, session
  <1>2. call' = [at |-> call'.at, anchor |-> call'.anchor] /\ call'.at = "record"
    BY DEF ensure_turn_begins, NoCall
  <1>3. RollbackTypes /\ OneTurn
    BY DEF RollbackInv
  <1>4. writes \in Nat /\ onDisk.turn \in Turn
    BY <1>3 DEF RollbackTypes
  <1> QED BY <1>1, <1>2, <1>3, <1>4, StageKeeps DEF OneTurn, Stage

LEMMA NodesKeep ==
  ASSUME RollbackInv, begin_node \/ \E s \in {"Verified", "Failed"} : update_node_status(s)
  PROVE  RollbackInv'
  <1>1. UNCHANGED <<Workspace, writes, call>> /\ call = NoCall
    BY DEF begin_node, update_node_status, Workspace, project
  <1>2. PICK ok \in BOOLEAN : Save(ok)
    BY DEF begin_node, update_node_status
  <1>3. RollbackTypes /\ OneTurn
    BY DEF RollbackInv
  <1>4. turn # NoTurnYet /\ turn' = turn
    BY <1>3 DEF begin_node, update_node_status, OneTurn
  <1>5. /\ onDisk'.turn \in {NoTurnYet, turn} /\ onDisk'.turn \in Turn
        /\ (onDisk'.nodes # <<>> => onDisk'.turn # NoTurnYet)
    BY <1>2, <1>4, SavedIs
  <1>6. call' = [at |-> call'.at, anchor |-> call'.anchor] /\ call'.at = "idle" /\ writes' \in Nat
    BY <1>1, <1>3 DEF NoCall, RollbackTypes
  <1> QED BY <1>1, <1>4, <1>5, <1>6, StageKeeps DEF Stage

\* A rollback begins with nodes, so with a turn; it has yet to pass a stage.
LEMMA rollback_nodeKeeps ==
  ASSUME RollbackInv, rollback_node
  PROVE  RollbackInv'
  <1>1. /\ UNCHANGED <<work, log, published, turn, nodes, onDisk, writes>> /\ during' = {}
        /\ call'.at = "reset" /\ call' = [at |-> call'.at, anchor |-> call'.anchor]
    BY DEF rollback_node, project, session
  <1>2. RollbackTypes /\ OneTurn /\ OwnNotInLog /\ OwnFilesKept
    BY DEF RollbackInv
  <1>3. turn # NoTurnYet
    <2>1. PICK i \in DOMAIN nodes : TRUE
      BY DEF rollback_node
    <2>2. nodes # <<>>
      BY <2>1
    <2> QED BY <1>2, <2>2 DEF OneTurn
  <1>4. RollbackTypes'
    BY <1>1, <1>2 DEF RollbackTypes, Stage
  <1>5. OneTurn'
    BY <1>1, <1>2, <1>3 DEF OneTurn
  <1>6. Stages'
    BY <1>1 DEF Stages
  <1>7. OwnNotInLog' /\ OwnFilesKept'
    BY <1>1, <1>2 DEF OwnNotInLog, OwnFilesKept
  <1> QED BY <1>4, <1>5, <1>6, <1>7 DEF RollbackInv

LEMMA rewindKeeps ==
  ASSUME RollbackInv, rewind
  PROVE  RollbackInv'
  <1>1. UNCHANGED <<Workspace, nodes, onDisk, writes>> /\ call.at = "rewind" /\ (Bail \/ Go("delete"))
    BY DEF rewind, Workspace, project, session
  <1>2. RollbackTypes /\ OneTurn /\ Stages
    BY DEF RollbackInv
  <1>3. call' = [at |-> call'.at, anchor |-> call'.anchor] /\ call'.at \in {"idle", "delete"}
    BY <1>1, <1>2, StageCall DEF Stage
  <1>4. /\ writes \in Nat /\ onDisk.turn \in Turn /\ turn # NoTurnYet
        /\ (during = {} => Len(log) = turn.head)
    BY <1>1, <1>2 DEF RollbackTypes, OneTurn, Stages, Stage
  <1> QED BY <1>1, <1>2, <1>3, <1>4, StageKeeps DEF OneTurn, Stage

LEMMA save_cursorKeeps ==
  ASSUME RollbackInv, save_cursor
  PROVE  RollbackInv'
  <1>1. UNCHANGED <<Workspace, nodes, writes>> /\ call.at = "save"
    BY DEF save_cursor, Workspace, project
  <1>2. PICK ok \in BOOLEAN : Save(ok) /\ IF ok THEN Go("truncate") ELSE Bail
    BY DEF save_cursor
  <1>3. RollbackTypes /\ OneTurn /\ Stages
    BY DEF RollbackInv
  <1>4. call' = [at |-> call'.at, anchor |-> call'.anchor] /\ call'.at \in {"idle", "truncate"}
    BY <1>2, <1>3, StageCall DEF Stage
  <1>5. /\ writes \in Nat /\ turn # NoTurnYet
        /\ (during = {} => Len(log) = turn.head) /\ Untracked \subseteq turn.untracked \cup during
    BY <1>1, <1>3 DEF RollbackTypes, OneTurn, Stages, Stage
  <1>6. /\ onDisk'.turn \in {NoTurnYet, turn} /\ onDisk'.turn \in Turn
        /\ (onDisk'.nodes # <<>> => onDisk'.turn # NoTurnYet)
    BY <1>1, <1>2, <1>5, SavedIs DEF Workspace
  <1> QED BY <1>1, <1>4, <1>5, <1>6, StageKeeps DEF Stage

LEMMA truncate_nodes_afterKeeps ==
  ASSUME RollbackInv, truncate_nodes_after
  PROVE  RollbackInv'
  <1>1. UNCHANGED <<Workspace, writes>> /\ call.at = "truncate" /\ call' = NoCall
    BY DEF truncate_nodes_after, Workspace, project
  <1>2. PICK ok \in BOOLEAN : Save(ok)
    BY DEF truncate_nodes_after
  <1>3. RollbackTypes /\ OneTurn
    BY DEF RollbackInv
  <1>4. turn # NoTurnYet /\ turn' = turn
    BY <1>1, <1>3 DEF OneTurn, Stage, Workspace
  <1>5. /\ onDisk'.turn \in {NoTurnYet, turn} /\ onDisk'.turn \in Turn
        /\ (onDisk'.nodes # <<>> => onDisk'.turn # NoTurnYet)
    BY <1>2, <1>4, SavedIs
  <1>6. call' = [at |-> call'.at, anchor |-> call'.anchor] /\ call'.at = "idle" /\ writes' \in Nat
    BY <1>1, <1>3 DEF NoCall, RollbackTypes
  <1> QED BY <1>1, <1>4, <1>5, <1>6, StageKeeps DEF Stage

LEMMA RollbackStarts ==
  ASSUME RollbackInit
  PROVE  RollbackInv
  <1>1. /\ work = [f \in ProjectFiles |-> IF f \in Committed \cup OwnFiles THEN 1 ELSE 0]
        /\ log = <<[f \in ProjectFiles |-> IF f \in Committed THEN 1 ELSE 0]>>
        /\ turn = NoTurnYet /\ nodes = <<>> /\ onDisk = [turn |-> NoTurnYet, nodes |-> <<>>]
        /\ call = NoCall /\ writes = 1 /\ published = {} /\ during = {}
    BY DEF RollbackInit
  <1>2. work \in FileContents /\ log \in Seq(FileContents) /\ log # <<>>
    BY <1>1 DEF FileContents
  <1>3. NoTurnYet \in Turn /\ NoTurnYet.untracked = {}
    BY DEF NoTurnYet, Turn
  <1>4. call = [at |-> call.at, anchor |-> call.anchor] /\ call.at = "idle"
    BY <1>1 DEF NoCall
  <1>5. RollbackTypes
    BY <1>1, <1>2, <1>3, <1>4 DEF RollbackTypes, Stage
  <1>6. OneTurn /\ Stages
    BY <1>1, <1>4 DEF OneTurn, Stages
  <1>7. OwnNotInLog /\ OwnFilesKept
    BY <1>1, <1>3 DEF OwnNotInLog, OwnFilesKept
  <1> QED BY <1>5, <1>6, <1>7 DEF RollbackInv

LEMMA RollbackStepKeeps ==
  ASSUME RollbackInv, [RollbackNext]_rollbackVars
  PROVE  RollbackInv'
  <1>1. ASSUME NEW f \in ProjectFiles, Write(f) PROVE RollbackInv'
    BY <1>1, WriteKeeps
  <1>2. ASSUME NEW fs \in SUBSET ProjectFiles, Commit(fs) PROVE RollbackInv'
    BY <1>2, CommitKeeps
  <1>3. CASE NewerSnapshot \/ UNCHANGED rollbackVars
    BY <1>3, NewerSnapshotKeeps
  <1>4. CASE open_or_create
    BY <1>4, open_or_createKeeps
  <1>5. CASE ensure_turn_begins
    BY <1>5, ensure_turn_beginsKeeps
  <1>6. CASE begin_turn
    BY <1>6, begin_turnKeeps
  <1>7. CASE begin_node \/ \E s \in {"Verified", "Failed"} : update_node_status(s)
    BY <1>7, NodesKeep
  <1>8. CASE rollback_node
    BY <1>8, rollback_nodeKeeps
  <1>9. CASE reset_git_head_if_needed
    BY <1>9, reset_git_head_if_neededKeeps
  <1>10. CASE rewind
    BY <1>10, rewindKeeps
  <1>11. CASE delete_new_untracked
    BY <1>11, delete_new_untrackedKeeps
  <1>12. CASE save_cursor
    BY <1>12, save_cursorKeeps
  <1>13. CASE truncate_nodes_after
    BY <1>13, truncate_nodes_afterKeeps
  <1> QED BY <1>1, <1>2, <1>3, <1>4, <1>5, <1>6, <1>7, <1>8, <1>9, <1>10, <1>11, <1>12, <1>13
          DEF RollbackNext

\* The stages are as the invariant says after every step of the agents, the
\* coordinator and the daemon's crashes.
THEOREM RollbackInductive == RollbackSpec => []RollbackInv
  BY RollbackStarts, RollbackStepKeeps, PTL DEF RollbackSpec

LEMMA RollbackSound == RollbackInv => RollbackKeepsItsWord
  BY DEF RollbackInv, Stages, RollbackKeepsItsWord, RollbackLands

\* A rollback that has passed its stages is at the commit the turn began with,
\* without the files made since, and the files the user had before the turn are
\* there unless somebody committed them, whatever agents write and commit while
\* rollback_node runs and wherever a failed delete, a failed save of
\* session.json, the prune or a crash cuts it.
THEOREM RollbackKeepsItsWordTheorem == RollbackSpec => []RollbackKeepsItsWord
  BY RollbackSound, RollbackInductive, PTL

-----------------------------------------------------------------------------
(* What the run checks of the stores together                              *)

\* A behaviour of the stores is one of each of them: whatever part it is about, the
\* others stand still.
LEMMA StoresAreTheParts ==
  Spec => /\ EventsSpec /\ SavesSpec /\ TaskListSpec /\ LockSpec
          /\ UndoSpec /\ RollbackSpec /\ LoopSpec
  <1>1. Init => EventsInit /\ SavesInit /\ TaskListInit /\ LockInit /\ CheckpointsInit
                /\ RollbackInit /\ LoopInit
    BY DEF Init
  <1>2. ASSUME [Next]_vars
        PROVE  [EventsNext]_eventVars
    BY <1>2 DEF Next, vars, StreamStep, SaveStep, UndoStep, NodeStep, TalkStep, TodoStep, DreamStep, EventsNext
  <1>3. ASSUME [Next]_vars
        PROVE  /\ [SavesNext]_saveVars /\ [TaskListNext]_taskVars /\ [LockNext]_lockVars
               /\ [CheckpointsNext]_checkpointVars /\ [RollbackNext]_rollbackVars
               /\ [LoopNext]_loopVars
    BY <1>3 DEF Next, vars, StreamStep, SaveStep, UndoStep, NodeStep, TalkStep, TodoStep, DreamStep
  <1> QED BY <1>1, <1>2, <1>3, PTL
         DEF Spec, EventsSpec, SavesSpec, TaskListSpec, LockSpec, UndoSpec, RollbackSpec, LoopSpec

\* What a project's processes and agents share stays usable (TaskListTypeOK,
\* SomethingIsReady and OneConsolidator, in every behaviour of the stores).
THEOREM SharedFilesSoundTheorem == Spec => []SharedFilesSound
  BY StoresAreTheParts, TaskListTheorem, OneConsolidatorTheorem, PTL DEF SharedFilesSound

\* Nothing goes back to an earlier state: no client sees a number again or out of
\* order, and no save replaces a newer history.
THEOREM NothingGoesBackTheorem == Spec => NothingGoesBack
  BY StoresAreTheParts, DeliveredInOrderTheorem, NoStaleOverwriteTheorem DEF NothingGoesBack

\* Files can be brought back: every manifest a use of /undo may read is intact, and a
\* node's rollback is where its stages say and has not taken the user's own files,
\* in every behaviour of the stores, crashes and failed steps included.
THEOREM FilesComeBackTheorem == Spec => []FilesComeBack
  BY StoresAreTheParts, CheckpointsSoundTheorem, RollbackKeepsItsWordTheorem, PTL DEF FilesComeBack

\* Requests and saved conversations are sound in every behaviour of the stores: calls
\* and answers stay paired, and the results the model waits for are shown to it.
THEOREM ConversationSoundTheorem == Spec => []ConversationSound
  BY StoresAreTheParts, LoopSoundTheorem, PTL

\* What /undo promises holds in every behaviour of the stores too.
THEOREM UndoRestoresTheorem == Spec => UndoRestores
  BY StoresAreTheParts, UndoAloneRestores
=============================================================================
