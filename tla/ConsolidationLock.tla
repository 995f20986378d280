------------------------- MODULE ConsolidationLock -------------------------
(***************************************************************************)
(* The lock file that keeps two processes from consolidating one memory    *)
(* directory at a time (context/lock.rs, taken by consolidate and prune of *)
(* context/mod.rs).  acquire creates the file, which fails if there is     *)
(* one, and then writes its pid and the time into it; a process that finds *)
(* a file reads it, and removes it if it judges it stale; the guard's Drop *)
(* removes whatever file is there.  Processes crash anywhere.              *)
(*                                                                         *)
(* seen are the processes that created or judged the file there is now,    *)
(* rather than an earlier one.  stolen is history: a process has removed a *)
(* file it had not judged, or judged one its live owner had yet to write.  *)
(***************************************************************************)
CONSTANTS Processes, Nobody

ASSUME ConsolidationLockAssumption == Nobody \notin Processes

VARIABLES lockFile, seen, lockAt, stolen

lockVars == <<lockFile, seen, lockAt, stolen>>

\* owner is Nobody when there is no file; signed: it holds a pid and a time; old: it
\* is older than LOCK_STALE_AFTER_SECS.
NoFile == [owner |-> Nobody, signed |-> FALSE, old |-> FALSE]

LockInit ==
    /\ lockFile = NoFile /\ seen = {}
    /\ lockAt = [p \in Processes |-> "idle"] /\ stolen = FALSE

Moves(p, from, to) == lockAt[p] = from /\ lockAt' = [lockAt EXCEPT ![p] = to]

\* create_new succeeds: the file is there and empty.
Create(p) ==
    /\ lockFile = NoFile /\ Moves(p, "idle", "created")
    /\ lockFile' = [NoFile EXCEPT !.owner = p] /\ seen' = {p}
    /\ UNCHANGED stolen

\* The pid and the time go into the file that was created, if it is still there.
Sign(p) ==
    /\ Moves(p, "created", "held")
    /\ lockFile' = [lockFile EXCEPT !.signed = @ \/ p \in seen]
    /\ UNCHANGED <<seen, stolen>>

\* The write fails: acquire returns the error, and nothing removes the file.
SignFails(p) ==
    /\ Moves(p, "created", "idle")
    /\ UNCHANGED <<lockFile, seen, stolen>>

pid_alive(p) == lockAt[p] # "crashed"

\* Wrong variant: an old lock is stale whoever holds it.
StaleIfOldOrDead == ~ lockFile.signed \/ lockFile.old \/ ~ pid_alive(lockFile.owner)

is_stale == ~ lockFile.signed \/ (lockFile.old /\ ~ pid_alive(lockFile.owner))

BeingWritten == lockFile.owner \in seen /\ lockAt[lockFile.owner] = "created"

\* create_new fails and the file is judged stale; if it is not, the process sleeps and
\* tries again.
Judge(p) ==
    /\ lockFile # NoFile /\ is_stale /\ Moves(p, "idle", "judged")
    /\ seen' = seen \cup {p} /\ stolen' = (stolen \/ BeingWritten)
    /\ UNCHANGED lockFile

RemoveLockFile == lockFile' = NoFile /\ seen' = {}

Reclaim(p) ==
    /\ Moves(p, "judged", "idle") /\ RemoveLockFile
    /\ stolen' = (stolen \/ (lockFile # NoFile /\ p \notin seen))

\* The guard is dropped at the end of consolidate.
Release(p) == Moves(p, "held", "idle") /\ RemoveLockFile /\ UNCHANGED stolen

Crash(p) ==
    /\ lockAt[p] # "crashed" /\ lockAt' = [lockAt EXCEPT ![p] = "crashed"]
    /\ UNCHANGED <<lockFile, seen, stolen>>

Age ==
    /\ lockFile.signed /\ ~ lockFile.old /\ lockFile' = [lockFile EXCEPT !.old = TRUE]
    /\ UNCHANGED <<seen, lockAt, stolen>>

LockNext ==
    \/ \E p \in Processes :
          \/ Create(p) \/ Sign(p) \/ SignFails(p) \/ Judge(p) \/ Reclaim(p)
          \/ Release(p) \/ Crash(p)
    \/ Age

-----------------------------------------------------------------------------
(* Properties                                                              *)

\* Two processes never consolidate at once, however long one takes and whoever
\* crashes, except after a lock file was removed that its remover had not judged,
\* or was judged in the moment before its owner wrote its pid.
OneConsolidator ==
    ~ stolen => \A p, q \in Processes : lockAt[p] = "held" /\ lockAt[q] = "held" => p = q
=============================================================================
