----------------------------- MODULE AgentLoop -----------------------------
(***************************************************************************)
(* The shared agent loop (agent/runtime/loop_.rs, compaction.rs,           *)
(* compactor.rs; api/types.rs for the repairs): rounds of one request, the *)
(* model's answer and its tool calls, over a conversation that is never    *)
(* sent as it stands.  Each request is a view: the part before a boundary  *)
(* is replaced by a summary, tool results before a frontier by markers,    *)
(* results without a call are demoted and calls without a result get one.  *)
(* A turn is dropped at any await, the daemon dies, saves repair what they *)
(* write; in the TUI they repair the conversation the loop is using.       *)
(*                                                                         *)
(* A message is its role, the calls it makes, the call it answers and      *)
(* whether an answer is the tool's own.  A request weighs one unit per     *)
(* message and one more per tool result in full, times the ratio the last  *)
(* answer's usage gave.  The system prompt, always in front, is left out;  *)
(* so are the retries of a broken stream, which repeat the same request.   *)
(***************************************************************************)
EXTENDS Integers, Sequences, SequencesExt, FiniteSets

CONSTANTS
    Frontends,        \* among "daemon", "tui", "subagent"
    ReadCalls,        \* the calls of file_read, whose results stay in full
    KeepResults,      \* MICRO_COMPACT_KEEP_TOOL_RESULTS
    Watermark,        \* 3/5 of the context window, less the output's share
    Threshold,        \* 4/5 of it
    Ratios,           \* tokens per unit, as providers may report
    MaxRounds,        \* agent.max_rounds
    MaxParseErrors,   \* MAX_CONSECUTIVE_PARSE_ERRORS
    MaxContinuations, \* MAX_LENGTH_CONTINUATIONS
    StuckRounds,      \* equal rounds the stuck detector lets pass
    MaxCallIds,       \* bound: tool calls
    MaxUserTurns,     \* bound: turns
    MaxNotes          \* bound: mailbox notes and child batches

ASSUME AgentLoopAssumption ==
    /\ Frontends \subseteq {"daemon", "tui", "subagent"}
    /\ KeepResults \in Nat \ {0} /\ Watermark <= Threshold
    /\ {MaxRounds, MaxParseErrors, MaxContinuations, StuckRounds} \subseteq Nat \ {0}

VARIABLES
    frontend,
    hist,        \* the conversation the loop appends to
    stored,      \* the session's messages as saved
    saving,      \* a SaveSession event waits to be acted on
    at,          \* where the turn is
    loop,        \* LoopTurnState, and the rounds of the turn
    request,     \* the messages of the request under way
    todo,        \* the calls of the round still to run
    calls, userTurns, notes,
    clobbered    \* history: calls a repair answered while they were running

loopVars == <<frontend, hist, stored, saving, at, loop, request, todo, calls, userTurns,
              notes, clobbered>>

(***************************************************************************)
(* Messages.                                                               *)
(***************************************************************************)
Smallest(x, y) == IF x < y THEN x ELSE y
Say(role) == [role |-> role, calls |-> <<>>, id |-> 0, body |-> "text"]
Calling(ids) == [Say("assistant") EXCEPT !.calls = ids]
Answer(id, body) == [role |-> "tool", calls |-> <<>>, id |-> id, body |-> body]

IsAssistant(s, k) == s[k].role = "assistant"
ToolsIn(s) == {k \in DOMAIN s : s[k].role = "tool"}
Calls(m) == Range(m.calls)
LastAssistant(s, k) == LET as == {i \in 1..k : IsAssistant(s, i)}
                       IN  IF as = {} THEN 0 ELSE CHOOSE i \in as : \A j \in as : j <= i

(***************************************************************************)
(* The two repairs.                                                        *)
(***************************************************************************)
\* A result is paired if an earlier message made its call and no result between
\* them has taken it.
Paired(s, k) ==
    \E a \in 1..(k - 1) :
        /\ s[k].id \in Calls(s[a])
        /\ \A t \in (a + 1)..(k - 1) : s[t].role = "tool" => s[t].id # s[k].id

\* Wrong: trusts the repair of the calls to deal with it.
KeepsOrphans(s) == s

demote_orphan_tool_results(s) ==
    [k \in DOMAIN s |-> IF s[k].role = "tool" /\ ~ Paired(s, k) THEN Say("user") ELSE s[k]]

\* The answers to a's calls that messages a+1 to k do not have.
Unanswered(s, a, k) ==
    FlattenSeq([i \in DOMAIN s[a].calls |->
        IF \E t \in (a + 1)..k : s[t].role = "tool" /\ s[t].id = s[a].calls[i]
        THEN <<>> ELSE <<Answer(s[a].calls[i], "interrupted")>>])

\* Wrong: only a call at the very end can have been interrupted.
MissedAtTheEnd(s, k) ==
    LET a == LastAssistant(s, k)
    IN  IF a = 0 \/ k < Len(s) THEN <<>> ELSE Unanswered(s, a, k)

\* The answers missing at the end of the block that message k closes.
Missed(s, k) ==
    LET a == LastAssistant(s, k)
    IN  IF a = 0 \/ (k < Len(s) /\ ~ IsAssistant(s, k + 1)) THEN <<>>
        ELSE Unanswered(s, a, k)

sanitize_tool_call_pairing(s) == FlattenSeq([k \in DOMAIN s |-> <<s[k]>> \o Missed(s, k)])

(***************************************************************************)
(* The view.                                                               *)
(***************************************************************************)
Weight(s) == loop.ratio * (Len(s) + Cardinality({k \in ToolsIn(s) : s[k].body = "result"}))

\* Wrong: a summary up to the last message.
SplitAtTheEnd(s) == Len(s)

\* The tail starts with the last assistant message; without one it is empty.
split_for_compaction(s) ==
    LET a == LastAssistant(s, Len(s)) IN IF a = 0 THEN Len(s) ELSE a - 1

\* Wrong: the kept results go too.
AdvanceTooFar(s) == IF Cardinality(ToolsIn(s)) <= KeepResults THEN 0 ELSE Len(s)

\* Everything before the latest `keep` results, as a number of messages.
advance_frontier(s) ==
    LET late == {k \in ToolsIn(s) : Cardinality({j \in ToolsIn(s) : j >= k}) = KeepResults}
    IN  IF Cardinality(ToolsIn(s)) <= KeepResults THEN 0 ELSE (CHOOSE k \in late : TRUE) - 1

\* A result becomes a marker unless its call, seen in the same segment, read a file.
Marked(s, keep) ==
    [k \in DOMAIN s |->
        IF k \in ToolsIn(s) \ keep
           /\ ~ (s[k].id \in ReadCalls /\ \E a \in DOMAIN s : s[k].id \in Calls(s[a]))
        THEN [s[k] EXCEPT !.body = "marker"] ELSE s[k]]

build_request_tail(s, boundary, frontier) ==
    Marked(SubSeq(s, boundary + 1, frontier), {}) \o SubSeq(s, frontier + 1, Len(s))

\* Wrong: the latest results are cut down as well.
CompactsTheLatest(s) == Marked(s, {})

micro_compact_messages(s) ==
    Marked(s, {k \in ToolsIn(s) : Cardinality({j \in ToolsIn(s) : j >= k}) <= KeepResults})

\* The summary is a system message; a user turn has to come before the tail.
assemble(summary, tail) == (IF summary THEN <<Say("system"), Say("user")>> ELSE <<>>) \o tail

(***************************************************************************)
(* Turns and saves.                                                        *)
(***************************************************************************)
FreshLoop == [boundary |-> 0, frontier |-> 0, summary |-> FALSE, want |-> FALSE,
              failed |-> FALSE, parse |-> 0, malformed |-> FALSE, tried |-> FALSE,
              cont |-> 0, rounds |-> 0, ratio |-> 1]

LoopInit ==
    /\ frontend \in Frontends
    /\ hist = <<>> /\ stored = <<>> /\ saving = FALSE /\ at = "idle" /\ loop = FreshLoop
    /\ request = <<>> /\ todo = <<>> /\ calls = 0 /\ userTurns = 0 /\ notes = 0
    /\ clobbered = {}

\* The daemon seeds a turn from the session and saves the seed; the TUI's loop
\* shares one conversation between turns; a subagent has one turn.
UserTurn ==
    /\ at = "idle" /\ userTurns < MaxUserTurns /\ (frontend = "subagent" => userTurns = 0)
    /\ userTurns' = userTurns + 1
    /\ hist' = Append(IF frontend = "daemon" THEN stored ELSE hist, Say("user"))
    /\ stored' = IF frontend = "daemon" THEN sanitize_tool_call_pairing(hist') ELSE stored
    /\ at' = "top" /\ loop' = FreshLoop /\ todo' = <<>> /\ saving' = (frontend = "tui" /\ saving)
    /\ UNCHANGED <<frontend, request, calls, notes, clobbered>>

\* A turn that ends, is cancelled or aborted.  The daemon's final save repairs a copy;
\* the TUI is left to act on an event.
TurnOver(h) ==
    /\ hist' = h /\ at' = "idle" /\ loop' = FreshLoop /\ request' = <<>> /\ todo' = <<>>
    /\ stored' = IF frontend = "daemon" THEN sanitize_tool_call_pairing(h) ELSE stored
    /\ saving' = (frontend = "tui")

\* save_session_history writes a repaired copy.
Snapshot ==
    /\ saving /\ frontend = "daemon" /\ at # "idle"
    /\ saving' = FALSE /\ stored' = sanitize_tool_call_pairing(hist)
    /\ UNCHANGED <<frontend, hist, at, loop, request, todo, calls, userTurns, notes, clobbered>>

\* spawn_save_session repairs the shared conversation in place and sends it, which
\* may fail.
spawn_save_session ==
    /\ saving /\ frontend = "tui"
    /\ saving' = FALSE
    /\ hist' = sanitize_tool_call_pairing(hist) /\ stored' \in {stored, hist'}
    /\ clobbered' = clobbered \cup Range(todo)
    /\ UNCHANGED <<frontend, at, loop, request, todo, calls, userTurns, notes>>

\* Cancellation drops the loop's future at an await.
CancelTurn ==
    /\ at # "idle" /\ TurnOver(hist)
    /\ UNCHANGED <<frontend, calls, userTurns, notes, clobbered>>

\* The process dies and the session is opened again.
ReopenSession ==
    /\ frontend # "subagent" /\ hist # <<>>
    /\ hist' = stored /\ at' = "idle" /\ loop' = FreshLoop /\ saving' = FALSE
    /\ request' = <<>> /\ todo' = <<>>
    /\ UNCHANGED <<frontend, stored, calls, userTurns, notes, clobbered>>
(***************************************************************************)
(* The loop.                                                               *)
(***************************************************************************)
turnVars == <<frontend, calls, userTurns, clobbered>>

needs_compaction(view) == Weight(view) > Threshold

\* The frontier only moves forward, and only when the view is over the watermark.
NewFrontier(raw, b) ==
    LET f == IF loop.frontier < b THEN b ELSE loop.frontier
        over == \E view \in {assemble(loop.summary, build_request_tail(raw, b, f))} :
                   Weight(view) > Watermark
    IN  IF over /\ advance_frontier(raw) > f THEN advance_frontier(raw) ELSE f

\* The inbox of a subagent is drained into the conversation.
Drained == {hist} \cup (IF frontend = "subagent" /\ notes < MaxNotes
                        THEN {Append(hist, Say("system"))} ELSE {})

\* The top of a round: the view is built, the frontier moved if the view is over
\* the watermark, the view repaired; then it is sent or the history summarized.
\* Only the TUI has a compactor; without one the attempt counts as failed.
Prepare ==
    /\ at = "top" /\ loop.rounds < MaxRounds
    /\ \E raw \in Drained :
       \E b \in {Smallest(loop.boundary, Len(raw))} :
       \E f \in {NewFrontier(raw, b)} :
       \E tail \in {build_request_tail(raw, b, f)} :
       \E demoted \in {demote_orphan_tool_results(assemble(loop.summary, tail))} :
       \E view \in {sanitize_tool_call_pairing(demoted)} :
          LET summarize == (loop.want \/ needs_compaction(view)) /\ ~ loop.failed IN
          /\ hist' = raw /\ notes' = IF raw = hist THEN notes ELSE notes + 1
          /\ request' = view
          /\ at' = IF summarize /\ frontend = "tui" THEN "compacting" ELSE "asking"
          /\ loop' = [loop EXCEPT !.want = FALSE, !.frontier = f,
                                  !.failed = @ \/ (summarize /\ frontend # "tui")]
    /\ UNCHANGED <<turnVars, stored, saving, todo>>

max_rounds_exceeded ==
    /\ at = "top" /\ loop.rounds >= MaxRounds /\ TurnOver(hist)
    /\ UNCHANGED <<turnVars, notes>>

\* Wrong: summarizes again.
NeverTooLarge(view) == FALSE
StillTooLarge(view) == needs_compaction(view)

\* A summary moves the boundary and leaves the history alone.  If the new view is
\* still too large no further attempt is made in this turn.
compact ==
    /\ at = "compacting"
    /\ LET b == split_for_compaction(hist)
           f == IF loop.frontier < b THEN b ELSE loop.frontier
       IN  \E view \in {assemble(TRUE, build_request_tail(hist, b, f))} :
              loop' = [loop EXCEPT !.boundary = b, !.frontier = f, !.summary = TRUE,
                                   !.failed = StillTooLarge(view)]
    /\ at' = "top" /\ request' = <<>> /\ saving' = TRUE
    /\ UNCHANGED <<turnVars, hist, stored, todo, notes>>

\* No summary: the request goes out as it was built.
compact_fails ==
    /\ at = "compacting" /\ at' = "asking" /\ loop' = [loop EXCEPT !.failed = TRUE]
    /\ UNCHANGED <<turnVars, hist, stored, saving, request, todo, notes>>

(***************************************************************************)
(* The answer.                                                             *)
(***************************************************************************)
Measured(l) == {[l EXCEPT !.rounds = @ + 1, !.ratio = r] : r \in Ratios}

\* The request fails: too large for the provider and not yet tried, old results of
\* the history itself are cut down and the round repeated; else the turn is over.
RequestFails ==
    /\ at = "asking"
    /\ \/ /\ ~ loop.tried /\ Weight(micro_compact_messages(hist)) < Weight(hist)
          /\ hist' = micro_compact_messages(hist)
          /\ loop' = [loop EXCEPT !.tried = TRUE] /\ at' = "top" /\ request' = <<>>
          /\ UNCHANGED <<stored, saving, todo>>
       \/ TurnOver(hist)
    /\ UNCHANGED <<turnVars, notes>>

\* The model calls tools; they run one after the other.
CallsTools(n) ==
    /\ at = "asking" /\ calls + n <= MaxCallIds
    /\ LET ids == [i \in 1..n |-> calls + i] IN
          todo' = ids /\ hist' = Append(hist, Calling(ids))
    /\ calls' = calls + n /\ loop' \in Measured([loop EXCEPT !.malformed = FALSE])
    /\ at' = "tools" /\ request' = <<>>
    /\ UNCHANGED <<frontend, userTurns, clobbered, stored, saving, notes>>

\* The model answers in words, or with nothing, which is an error.
Answers ==
    /\ at = "asking"
    /\ TurnOver(hist) \/ TurnOver(Append(hist, Say("assistant")))
    /\ UNCHANGED <<turnVars, notes>>

\* The answer was cut at the output limit: the model is asked to go on.
Continues ==
    /\ at = "asking" /\ loop.cont < MaxContinuations
    /\ loop' \in Measured([loop EXCEPT !.cont = @ + 1])
    /\ hist' \in {hist \o <<Say("user")>>, hist \o <<Say("assistant"), Say("user")>>}
    /\ at' = "top" /\ request' = <<>> /\ saving' = TRUE
    /\ UNCHANGED <<turnVars, stored, todo, notes>>

\* A subagent's children have results: they come as a user message.
Synthesizes ==
    /\ at = "asking" /\ frontend = "subagent" /\ notes < MaxNotes
    /\ notes' = notes + 1 /\ loop' \in Measured(loop)
    /\ hist' \in {hist \o <<Say("user")>>, hist \o <<Say("assistant"), Say("user")>>}
    /\ at' = "top" /\ request' = <<>>
    /\ UNCHANGED <<turnVars, stored, saving, todo>>

(***************************************************************************)
(* The tools.                                                              *)
(***************************************************************************)
Result(l, asked) ==
    /\ hist' = Append(hist, Answer(Head(todo), "result")) /\ todo' = Tail(todo)
    /\ loop' = [l EXCEPT !.want = @ \/ asked]
    /\ UNCHANGED <<turnVars, stored, saving, at, request, notes>>

\* A tool ran, timed out or was the request to compact; arguments that could be
\* repaired do not reset the count of those that could not.
RunTool ==
    /\ at = "tools" /\ todo # <<>>
    /\ \/ \E asked \in BOOLEAN : Result([loop EXCEPT !.parse = 0], asked)
       \/ Result([loop EXCEPT !.malformed = TRUE], FALSE)

\* A round of task calls: they run side by side and answer together, in order.
RunTasks ==
    /\ at = "tools" /\ frontend # "subagent" /\ Len(todo) > 1
    /\ todo = hist[LastAssistant(hist, Len(hist))].calls
    /\ hist' = hist \o [i \in DOMAIN todo |-> Answer(todo[i], "result")] /\ todo' = <<>>
    /\ UNCHANGED <<turnVars, stored, saving, at, loop, request, notes>>

\* Arguments beyond repair: the model is told, or the turn is given up with the
\* calls that are left unanswered.
MalformedCall ==
    /\ at = "tools" /\ todo # <<>>
    /\ LET l == [loop EXCEPT !.parse = @ + 1, !.malformed = TRUE] IN
          IF l.parse >= MaxParseErrors
          THEN TurnOver(hist) /\ UNCHANGED <<turnVars, notes>>
          ELSE Result(l, FALSE)

\* A reminder follows a round with malformed arguments.  The stuck detector, which
\* the daemon does not have, may give the turn up.
EndRound ==
    /\ at = "tools" /\ todo = <<>>
    /\ LET h == IF loop.malformed THEN Append(hist, Say("user")) ELSE hist IN
          \/ hist' = h /\ at' = "top" /\ saving' = TRUE /\ UNCHANGED <<stored, loop, request, todo>>
          \/ frontend # "daemon" /\ loop.rounds > StuckRounds /\ TurnOver(h)
    /\ UNCHANGED <<turnVars, notes>>

LoopStep ==
    \/ Prepare \/ max_rounds_exceeded \/ compact \/ compact_fails
    \/ RequestFails \/ Answers \/ Continues \/ Synthesizes \/ \E n \in 1..2 : CallsTools(n)
    \/ RunTool \/ RunTasks \/ MalformedCall \/ EndRound

LoopNext == UserTurn \/ Snapshot \/ spawn_save_session \/ CancelTurn \/ ReopenSession \/ LoopStep

(***************************************************************************)
(* Properties.                                                             *)
(***************************************************************************)
\* The index state of the view stays within the conversation.
LoopTypeOK ==
    /\ loop.boundary <= Len(hist) /\ loop.frontier <= Len(hist)
    /\ \A k \in DOMAIN hist : hist[k].role \in {"user", "assistant", "system", "tool"}

\* Every call has exactly one result before the next assistant message, every result
\* its call.
WellPaired(s) ==
    /\ \A k \in DOMAIN s : \A id \in Calls(s[k]) :
          Cardinality({t \in ToolsIn(s) : s[t].id = id /\ LastAssistant(s, t) = k}) = 1
    /\ \A t \in ToolsIn(s) : \E k \in 1..(t - 1) : s[t].id \in Calls(s[k])

\* What providers insist on, for every request the loop sends: calls and results
\* pair up, and a user speaks before the assistant does; through compaction,
\* fallback, cancelled turns, crashes and repairs.
RequestsWellFormed ==
    at = "asking" =>
        /\ WellPaired(request)
        /\ \A k \in DOMAIN request :
              request[k].role = "system" \/ \E j \in 1..k : request[j].role = "user"

\* What the model asked for last it gets to see: the results of the latest round are
\* in the next request, in full, if they are no more than the loop keeps and no repair
\* spoke first.  However often the history was summarized in between, and although the
\* fallback of a failed request cuts results down in the history itself.
Latest == {k \in ToolsIn(hist) : k > LastAssistant(hist, Len(hist))}
FreshResultsShown ==
    at = "asking" /\ Cardinality(Latest) <= KeepResults =>
        \A k \in Latest : hist[k].body # "interrupted" /\ hist[k].id \notin clobbered =>
            hist[k].body = "result" /\ hist[k] \in Range(request)

\* What the daemon has saved needs no repair when it is loaded: every call has its
\* result and every result its call, whatever was cancelled or died in between.
SavedIsWhole ==
    frontend = "daemon" => WellPaired(stored)

(***************************************************************************)
(* Fairness, stated by what it comes to.  The loop can always go on and    *)
(* every step of it changes where it is or what it has left to run, so it  *)
(* does not stand still; the TUI's pending save is made, or requested anew *)
(* by then.                                                                *)
(***************************************************************************)
LoopGoesOn == []<>(at = "idle") \/ []<><<at # "idle">>_<<at, todo>>
SaveIsMade == []<>(frontend = "tui" => ~ saving)

\* The conversation is sound as sent and as saved.
ConversationSound == LoopTypeOK /\ RequestsWellFormed /\ FreshResultsShown /\ SavedIsWhole

\* A turn ends: no compaction, fallback, continuation or malformed call goes round for
\* ever, as long as the rounds it counts are limited and a requested save is made.
TurnEnds == at # "idle" ~> at = "idle"
=============================================================================
