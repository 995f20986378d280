---------------------------- MODULE Checkpoints ----------------------------
(***************************************************************************)
(* Per-turn file snapshots and /undo (tools/checkpoint_store.rs,           *)
(* tools/checkpoint.rs, tools/mod.rs maybe_capture_pre_edit,               *)
(* tui/app/turn.rs undo_to_turn).  Before a tool edits a file its content  *)
(* goes into the snapshot of the turn the call belongs to: the turn's      *)
(* directory is made (and old ones are pruned), the manifest is read, a    *)
(* blob is written, the manifest is written back, and then the file is     *)
(* edited.  The root agent and its subagents do this at the same time,     *)
(* without a lock, and a subagent goes on in the name of the turn that     *)
(* started it after that turn is over.                                     *)
(*                                                                         *)
(* A content is the number of the edit that made it; 0 is a file that does *)
(* not exist.  The turns of raced, late and gone are history: turns whose  *)
(* captures overlapped or whose pruned snapshot was made anew under one,   *)
(* files edited for a turn that was over, and turns whose snapshot was     *)
(* pruned or that an edit missed.                                          *)
(***************************************************************************)
EXTENDS Integers, Sequences, FiniteSets

CONSTANTS
    Files,
    Existing,       \* the files there are at first
    Writers,        \* agents that edit files
    RootWriter,     \* the agent of the conversation
    KeepN,          \* keep_n of the store
    MaxTurns,       \* bound: turns
    MaxEdits,       \* bound: edits
    MaxUndos        \* bound: uses of /undo

ASSUME CheckpointsAssumption ==
    /\ Existing \subseteq Files /\ IsFiniteSet(Writers) /\ RootWriter \in Writers /\ KeepN \in Nat \ {0}
    /\ {MaxTurns, MaxEdits, MaxUndos} \subseteq Nat

VARIABLES file, edits, cur, open, records, dirs, manifest, blobs, writer, undos,
          base, raced, late, gone, passed

checkpointVars == <<file, edits, cur, open, records, dirs, manifest, blobs, writer, undos,
                    base, raced, late, gone, passed>>

TurnIds == 1..MaxTurns
store == <<dirs, manifest, blobs>>
tree == <<file, edits>>
marks == <<raced, late, gone, passed>>

\* A tool call in progress: which file, for which turn, and the manifest it
\* read.
Resting == [at |-> "idle", file |-> CHOOSE f \in Files : TRUE, turn |-> 0, read |-> <<>>]

\* A manifest entry names a blob by its position; 0 is a tombstone.
Has(m, f) == \E i \in 1..Len(m) : m[i].path = f

CheckpointsInit ==
    /\ file = [f \in Files |-> IF f \in Existing THEN 1 ELSE 0] /\ edits = 1
    /\ cur = 0 /\ open = FALSE /\ records = <<>>
    /\ dirs = <<>>
    /\ manifest = [t \in TurnIds |-> <<>>]
    /\ blobs = [t \in TurnIds |-> [n \in {} |-> 0]]
    /\ writer = [w \in Writers |-> Resting]
    /\ undos = 0
    /\ base = [t \in TurnIds |-> [f \in Files |-> 0]]
    /\ raced = {} /\ late = {} /\ gone = {} /\ passed = {}

Made(t) == \E i \in 1..Len(dirs) : dirs[i] = t

(***************************************************************************)
(* Turns.                                                                  *)
(***************************************************************************)
StartTurn ==
    /\ ~ open /\ cur < MaxTurns
    /\ cur' = cur + 1 /\ open' = TRUE
    /\ records' = Append(records, cur + 1)
    /\ base' = [base EXCEPT ![cur + 1] = file]
    /\ UNCHANGED <<tree, store, writer, undos, marks>>

EndTurn ==
    /\ open /\ writer[RootWriter].at = "idle"
    /\ open' = FALSE
    /\ UNCHANGED <<tree, cur, records, store, writer, undos, base, marks>>

(***************************************************************************)
(* try_capture_file and the edit it precedes.                              *)
(***************************************************************************)
\* prune keeps the KeepN directories made last.
Pruned(ds) == IF Len(ds) > KeepN THEN SubSeq(ds, Len(ds) - KeepN + 1, Len(ds)) ELSE ds

\* Captures of one turn that have read its manifest and not yet written it.
Capturing(t) == {w \in Writers : writer[w].turn = t /\ writer[w].at = "read"}

\* The turns whose captures get in each other's way, with one more step on t.
Raced(t) == IF Capturing(t) # {} THEN raced \cup {t} ELSE raced

Busy == {v \in Writers : writer[v].at # "idle"}

\* A tool call of a turn: the root's in the open one, a subagent's in the one
\* that started it.  ensure_turn makes the directory and an empty manifest if
\* there is none, and then prunes.
ensure_turn(w, f, t) ==
    LET kept == Pruned(Append(dirs, t))
        dropped == {d \in TurnIds : Made(d) /\ ~ \E i \in 1..Len(kept) : kept[i] = d}
    IN
    /\ writer[w].at = "idle"
    /\ edits + Cardinality(Busy) < MaxEdits
    /\ IF w = RootWriter THEN open /\ t = cur ELSE t \in 1..cur
    /\ writer' = [writer EXCEPT ![w] = [at |-> "ensured", file |-> f, turn |-> t, read |-> <<>>]]
    /\ IF Made(t) THEN UNCHANGED <<store, gone, raced>>
       ELSE /\ dirs' = kept
            /\ manifest' = [d \in TurnIds |-> IF d \in dropped \cup {t} THEN <<>> ELSE manifest[d]]
            /\ blobs' = [d \in TurnIds |-> IF d \in dropped \cup {t} THEN [n \in {} |-> 0] ELSE blobs[d]]
            /\ gone' = gone \cup dropped /\ raced' = Raced(t)
    /\ UNCHANGED <<tree, cur, open, records, undos, base, late, passed>>

\* Wrong: captures every time, so that a later content replaces the first.
ReadManifestAgain(w) ==
    LET t == writer[w].turn IN
    /\ writer[w].at = "ensured" /\ Made(t)
    /\ writer' = [writer EXCEPT ![w].at = "read", ![w].read = manifest[t]]
    /\ raced' = Raced(t)
    /\ UNCHANGED <<tree, cur, open, records, store, undos, base, late, passed, gone>>

\* read_manifest; a file that is in it is not captured again.  If the directory
\* was pruned meanwhile the capture fails, and the edit goes ahead.
ReadManifest(w) ==
    LET t == writer[w].turn IN
    /\ writer[w].at = "ensured"
    /\ IF ~ Made(t)
       THEN /\ writer' = [writer EXCEPT ![w].at = "ready"]
            /\ gone' = gone \cup {t}
            /\ UNCHANGED raced
       ELSE IF Has(manifest[t], writer[w].file)
       THEN /\ writer' = [writer EXCEPT ![w].at = "ready"]
            /\ UNCHANGED <<gone, raced>>
       ELSE /\ writer' = [writer EXCEPT ![w].at = "read", ![w].read = manifest[t]]
            /\ raced' = Raced(t)
            /\ UNCHANGED gone
    /\ UNCHANGED <<tree, cur, open, records, store, undos, base, late, passed>>

\* The file of a call that is made for a turn that is over.
TooLate(w) == IF open /\ writer[w].turn = cur THEN {} ELSE {writer[w].file}

\* The content goes into a blob named by the number of entries, unless there is
\* one of that name, and the manifest that was read is written back with the
\* new entry.  (Nothing another capture does between the two writes makes a
\* difference that it does not make before or after them.)
WriteEntry(w) ==
    LET t == writer[w].turn
        f == writer[w].file
        n == Len(writer[w].read) + 1
        entry == [path |-> f, blob |-> IF file[f] = 0 THEN 0 ELSE n]
    IN
    /\ writer[w].at = "read"
    /\ writer' = [writer EXCEPT ![w].at = "ready", ![w].read = <<>>]
    /\ IF Made(t)
       THEN /\ manifest' = [manifest EXCEPT ![t] = Append(writer[w].read, entry)]
            /\ blobs' = IF entry.blob = 0 \/ n \in DOMAIN blobs[t] THEN blobs
                        ELSE [blobs EXCEPT ![t] = [k \in DOMAIN blobs[t] \cup {n} |->
                                IF k = n THEN file[f] ELSE blobs[t][k]]]
            /\ UNCHANGED gone
       ELSE gone' = gone \cup {t} /\ UNCHANGED <<manifest, blobs>>
    /\ late' = late \cup TooLate(w)
    /\ UNCHANGED <<tree, cur, open, records, dirs, undos, base, raced, passed>>

\* The tool writes the file, or removes one that is there (apply_patch).
Edit(w, content) ==
    /\ writer[w].at = "ready"
    /\ content = 0 => file[writer[w].file] # 0
    /\ edits' = edits + 1
    /\ file' = [file EXCEPT ![writer[w].file] = content]
    /\ writer' = [writer EXCEPT ![w] = Resting]
    /\ late' = late \cup TooLate(w)
    /\ UNCHANGED <<cur, open, records, store, undos, base, raced, gone, passed>>

(***************************************************************************)
(* rewind_range and /undo.                                                 *)
(***************************************************************************)
\* rewind_manifest applies the entries of a manifest in order and skips one whose
\* blob is missing, so the last one for a file decides: the content it has, if any.
Applies(t, i, f) == manifest[t][i].path = f /\ manifest[t][i].blob \in {0} \cup DOMAIN blobs[t]
Saved(t, i) == IF manifest[t][i].blob = 0 THEN 0 ELSE blobs[t][manifest[t][i].blob]

Rewound(t, f) ==
    {Saved(t, i) : i \in {i \in 1..Len(manifest[t]) :
        Applies(t, i, f) /\ \A j \in (i + 1)..Len(manifest[t]) : ~ Applies(t, j, f)}}

\* The tree with what the turns at positions ks[f] of ts have for each file.
Restored(ts, ks) ==
    [f \in Files |->
        LET back == UNION {Rewound(ts[k], f) : k \in ks[f]}
        IN  IF back = {} THEN file[f] ELSE CHOOSE c \in back : TRUE]

\* Wrong: the newest turn's contents are written last.
RewindOldestFirst(ts) ==
    Restored(ts, [f \in Files |->
        {k \in 1..Len(ts) : \A l \in (k + 1)..Len(ts) : Rewound(ts[l], f) = {}}])

\* The turns are rewound newest first, so the oldest that has the file decides.
rewind_range(ts) ==
    Restored(ts, [f \in Files |->
        {k \in 1..Len(ts) : \A l \in 1..(k - 1) : Rewound(ts[l], f) = {}}])

\* undo_to_turn: the code is rewound over everything after the kept turn, the
\* chat forgets it; the user picks one or both.  A turn the chat forgets is out
\* of reach of a later /undo.
Scopes == {"code", "chat", "both"}

undo_to_turn(keep, scope) ==
    LET range == SubSeq(records, keep + 1, Len(records)) IN
    /\ ~ open /\ keep \in 1..(Len(records) - 1)
    /\ undos' = undos + 1
    /\ file' = IF scope = "chat" THEN file ELSE rewind_range(range)
    /\ records' = IF scope = "code" THEN records ELSE SubSeq(records, 1, keep)
    /\ passed' = passed \cup {range[i] : i \in (IF scope = "chat" THEN {} ELSE 2..Len(range))}
    /\ gone' = gone \cup {range[i] : i \in (IF scope = "chat" THEN 1..Len(range) ELSE {})}
    /\ UNCHANGED <<edits, cur, open, store, writer, base, raced, late>>

CaptureStep(w) == ReadManifest(w) \/ WriteEntry(w)

\* What happens after the last /undo is of no interest.
CheckpointsNext ==
    /\ undos < MaxUndos
    /\ \/ StartTurn \/ EndTurn
       \/ \E w \in Writers :
             \/ \E f \in Files, t \in TurnIds : ensure_turn(w, f, t)
             \/ CaptureStep(w)
             \/ \E content \in {0, edits + 1} : Edit(w, content)
       \/ \E keep \in 1..MaxTurns, scope \in Scopes : undo_to_turn(keep, scope)

(***************************************************************************)
(* Properties.                                                             *)
(***************************************************************************)
\* A manifest names each file once and each blob it names exists, unless
\* captures of the turn overlapped; no more than KeepN snapshots are kept.
CheckpointsTypeOK ==
    /\ file \in [Files -> 0..(MaxEdits + 1)] /\ cur \in 0..MaxTurns /\ open \in BOOLEAN
    /\ Len(dirs) <= KeepN
    /\ \A t \in TurnIds \ raced : \A i, j \in 1..Len(manifest[t]) :
          /\ manifest[t][i].path = manifest[t][j].path => i = j
          /\ manifest[t][i].blob \in {0} \cup DOMAIN blobs[t]

\* /undo means what it says: after it every file is as it was before the oldest
\* turn it takes back, through any number of edits in any number of turns and
\* earlier uses of /undo.  Not covered: files a subagent edited for a turn that
\* was over; turns whose captures overlapped, whose snapshot was pruned or that
\* the chat forgot, and turns before them; and going forward again to a turn
\* that an earlier /undo already took back.
UndoRestores ==
    [][undos' > undos => \A keep \in 1..(Len(records) - 1) :
          LET oldest == records[keep + 1] IN
          (/\ \E scope \in {"code", "both"} : undo_to_turn(keep, scope)
           /\ \A t \in raced \cup gone : t < oldest
           /\ oldest \notin passed)
          => \A f \in Files \ late : file'[f] = base[oldest][f]]_checkpointVars
=============================================================================
