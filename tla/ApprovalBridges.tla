--------------------------- MODULE ApprovalBridges ---------------------------
(***************************************************************************)
(* How an agent's tool call asks the user.  A policy `Ask` of the root's   *)
(* port (src/src/daemon/run_loop.rs) or of a subagent's port               *)
(* (src/src/teams/guarding_tool_port.rs) waits in the PermissionBridge     *)
(* (src/src/teams/permission_bridge.rs), an ask_user_question waits in the *)
(* InteractionBridge (src/src/daemon/interaction_bridge.rs), and the HTTP  *)
(* handlers of src/src/daemon/handlers/permissions.rs bring the answers.   *)
(*                                                                         *)
(* One step is one critical section, one send on the oneshot channel or    *)
(* one end of it going away.  A waiter runs on a thread of its own, so an  *)
(* answer, a second answer, the timeout and the drop of the waiter meet at *)
(* every point between them.                                               *)
(***************************************************************************)
EXTENDS Naturals, Sequences, FiniteSets

CONSTANTS RootAsks,        \* permission requests of the root: no deadline
          SubagentAsks,    \* permission requests of subagents: with a deadline
          Questions,       \* ask_user_question requests
          MaxAsked,        \* bound: requests made in one behaviour
          Posts,           \* answers posted by clients, duplicates included
          Rules,           \* session rules a request, or a client's answer, can name
          NoRule,          \* an answer without session_rule
          RuleOf,          \* permission request -> the session rule it is about
          ResolvedCap      \* RESOLVED_CAP: remembered resolutions per bridge

Permissions == RootAsks \cup SubagentAsks
Requests    == Permissions \cup Questions

ASSUME KindsAssumption ==
  /\ Requests # {}
  /\ RootAsks \cap SubagentAsks = {}
  /\ Permissions \cap Questions = {}
ASSUME RulesAssumption == NoRule \notin Rules /\ RuleOf \in [Permissions -> Rules]
ASSUME CapAssumption == ResolvedCap \in Nat \ {0}

VARIABLES
  ask,        \* request -> place of the tool call that makes it
  pending,    \* `inner`: requests an answer can still be delivered to
  chan,       \* request -> value sent on its oneshot channel, or "empty"
  got,        \* request -> value its waiter goes on with, or "empty"
  dismissals, \* request -> resolved trace events published for it
  posts,      \* post -> place and content of the handler that brings it
  taken,      \* history: requests whose entry an answer took out
  resolved,   \* bridge -> `resolved`: remembered first resolutions, oldest first
  rules       \* rules approved in the set all ports share

askVars  == <<ask, got, dismissals>>
bridgeVars == <<pending, taken>>
vars == <<askVars, rules, bridgeVars, chan, posts, resolved>>

Values  == {"yes", "no"}
Bridges == {"permission", "question"}
BridgeOf(r) == IF r \in Questions THEN "question" ELSE "permission"

\* "asked": the id is out (SSE event or mailbox) and the entry is not in yet;
\* "expired": the deadline fired and the receiver still exists; "dropping": the
\* receiver is gone and the WaiterGuard has not run yet; "withdrawn": dropped before
\* the entry was in.
Ended == {"proceeds", "denied", "answered", "dropped", "withdrawn"}
AskPlaces == Ended \cup {"idle", "asked", "waiting", "expired", "finishing",
                         "persisting", "dropping"}

ReceiverAlive(r) == ask[r] \in {"waiting", "expired"}

PostPlaces == {"idle", "take", "send", "remember", "lookup", "rule", "done"}
Outcomes   == {"none", "Resolved", "AlreadyResolved", "Unknown"}

Init ==
  /\ ask = [r \in Requests |-> "idle"]
  /\ pending = {}
  /\ taken = {}
  /\ chan = [r \in Requests |-> "empty"]
  /\ got = [r \in Requests |-> "empty"]
  /\ dismissals = [r \in Requests |-> 0]
  /\ posts = [p \in Posts |-> [pc |-> "idle", req |-> CHOOSE r \in Requests : TRUE,
                               val |-> "no", always |-> FALSE,
                               rule |-> NoRule, out |-> "none",
                               shown |-> "empty"]]
  /\ resolved = [b \in Bridges |-> <<>>]
  /\ rules = {}

-----------------------------------------------------------------------------
(* The waiter                                                              *)

AskStep(r, from, to) == ask[r] = from /\ ask' = [ask EXCEPT ![r] = to]

\* resolve_ask: an approved rule needs no prompt.  Otherwise the id is minted and
\* published, before the bridge knows it.
Ask(r) ==
  /\ Cardinality({x \in Requests : ask[x] # "idle"}) < MaxAsked
  /\ AskStep(r, "idle", IF r \in Permissions /\ RuleOf[r] \in rules
                        THEN "proceeds" ELSE "asked")
  /\ UNCHANGED <<got, dismissals, rules, bridgeVars, chan, posts, resolved>>

\* enqueue: the entry, then the pending trace event, which changes nothing here.
Insert(r) ==
  /\ AskStep(r, "asked", "waiting")
  /\ pending' = pending \cup {r}
  /\ UNCHANGED <<got, dismissals, rules, taken, chan, posts, resolved>>

\* Wrong variant: the answer is only looked for while the entry is listed.
ReceiveIfListed(r) ==
  /\ chan[r] # "empty" /\ r \in pending
  /\ AskStep(r, "waiting", "finishing")
  /\ got' = [got EXCEPT ![r] = chan[r]]
  /\ UNCHANGED <<dismissals, rules, bridgeVars, chan, posts, resolved>>

Receive(r) ==
  /\ chan[r] # "empty"
  /\ AskStep(r, "waiting", "finishing")
  /\ got' = [got EXCEPT ![r] = chan[r]]
  /\ UNCHANGED <<dismissals, rules, bridgeVars, chan, posts, resolved>>

\* Wrong variant: the deadline approves.
ExpireApproves(r) ==
  /\ r \in SubagentAsks /\ chan[r] = "empty"
  /\ AskStep(r, "waiting", "expired")
  /\ got' = [got EXCEPT ![r] = "yes"]
  /\ UNCHANGED <<dismissals, rules, bridgeVars, chan, posts, resolved>>

\* The deadline of request_with_timeout: the channel was polled empty, and the
\* receiver goes only after that.
Expire(r) ==
  /\ r \in SubagentAsks /\ chan[r] = "empty"
  /\ AskStep(r, "waiting", "expired")
  /\ got' = [got EXCEPT ![r] = "no"]
  /\ UNCHANGED <<dismissals, rules, bridgeVars, chan, posts, resolved>>

CloseReceiver(r) ==
  /\ AskStep(r, "expired", "finishing")
  /\ UNCHANGED <<got, dismissals, rules, bridgeVars, chan, posts, resolved>>

Verdict(r) ==
  IF r \in Questions THEN "answered"
  ELSE IF got[r] # "yes" THEN "denied"
  ELSE IF r \in SubagentAsks THEN "proceeds" ELSE "persisting"

\* finish: the entry goes (resolve may have taken it before), the resolved event
\* follows.
Finish(r) ==
  /\ AskStep(r, "finishing", Verdict(r))
  /\ pending' = pending \ {r}
  /\ dismissals' = [dismissals EXCEPT ![r] = @ + 1]
  /\ UNCHANGED <<got, rules, taken, chan, posts, resolved>>

\* The root keeps every rule it was allowed, "once" or "always".
PersistRule(r) ==
  /\ AskStep(r, "persisting", "proceeds")
  /\ rules' = rules \cup {RuleOf[r]}
  /\ UNCHANGED <<got, dismissals, bridgeVars, chan, posts, resolved>>

\* The tool call's future is dropped (run cancelled, subagent timeout) at one of
\* its awaits.  Only a permission waiter has a guard.
Awaits(r) ==
  \/ ask[r] = "waiting"
  \/ ask[r] = "asked" /\ r \notin RootAsks
  \/ ask[r] = "finishing" /\ r \in Questions
  \/ ask[r] = "persisting"

Drop(r) ==
  /\ Awaits(r)
  /\ ask' = [ask EXCEPT ![r] =
               CASE ask[r] = "asked" -> "withdrawn"
                 [] ask[r] = "waiting" /\ r \in Permissions -> "dropping"
                 [] OTHER -> "dropped"]
  /\ UNCHANGED <<got, dismissals, rules, bridgeVars, chan, posts, resolved>>

\* Wrong variants: the guard leaves the entry, or takes it out without a word.
GuardDropLeaves(r) ==
  /\ AskStep(r, "dropping", "dropped")
  /\ dismissals' = [dismissals EXCEPT ![r] = IF r \in pending THEN @ + 1 ELSE @]
  /\ UNCHANGED <<got, rules, bridgeVars, chan, posts, resolved>>

GuardDropSilent(r) ==
  /\ AskStep(r, "dropping", "dropped")
  /\ pending' = pending \ {r}
  /\ UNCHANGED <<got, dismissals, rules, taken, chan, posts, resolved>>

\* WaiterGuard::drop: silent when resolve took the entry before it.
GuardDrop(r) ==
  /\ AskStep(r, "dropping", "dropped")
  /\ pending' = pending \ {r}
  /\ dismissals' = [dismissals EXCEPT ![r] = IF r \in pending THEN @ + 1 ELSE @]
  /\ UNCHANGED <<got, rules, taken, chan, posts, resolved>>

-----------------------------------------------------------------------------
(* The handlers                                                            *)

PostStep(p, from, to) == posts[p].pc = from /\ posts' = [posts EXCEPT ![p] = to]

\* A client answers a request it was told of: in time, late, or again.  The body of
\* an approval names a session_rule of the client's choice, or none; in a denial nothing
\* else is looked at.
Post(p, r, v, always, w) ==
  /\ ask[r] # "idle" /\ ~ (ask[r] = "proceeds" /\ got[r] = "empty")
  /\ always \/ w # NoRule => r \in Permissions /\ v = "yes"
  /\ PostStep(p, "idle", [posts[p] EXCEPT !.pc = "take", !.req = r, !.val = v,
                                          !.always = always, !.rule = w])
  /\ UNCHANGED <<askVars, rules, bridgeVars, chan, resolved>>

\* Wrong variant: the entry is looked up and stays.
TakeLeavesEntry(p) ==
  LET r == posts[p].req
  IN  /\ PostStep(p, "take", [posts[p] EXCEPT !.pc = IF r \in pending THEN "send"
                                                                     ELSE "lookup"])
      /\ taken' = taken \cup (pending \cap {r})
      /\ UNCHANGED <<askVars, rules, pending, chan, resolved>>

\* resolve takes the entry out of the map, sends, and remembers what it sent, in
\* three steps.  A duplicate finds no entry and looks the answer up.
Take(p) ==
  LET r == posts[p].req
  IN  /\ PostStep(p, "take", [posts[p] EXCEPT !.pc = IF r \in pending THEN "send"
                                                                     ELSE "lookup"])
      /\ pending' = pending \ {r}
      /\ taken' = taken \cup (pending \cap {r})
      /\ UNCHANGED <<askVars, rules, chan, resolved>>

Send(p) ==
  LET r == posts[p].req
  IN  /\ IF ReceiverAlive(r)
         THEN /\ PostStep(p, "send", [posts[p] EXCEPT !.pc = "remember"])
              /\ chan' = [chan EXCEPT ![r] = posts[p].val]
         ELSE /\ PostStep(p, "send", [posts[p] EXCEPT !.pc = "done", !.out = "Unknown"])
              /\ UNCHANGED chan
      /\ UNCHANGED <<askVars, rules, bridgeVars, resolved>>

\* A first resolution of a permission with "always" approves the rule the body names,
\* which is not compared with the rule of the request.
GrantsRule(post) ==
  post.req \in Permissions /\ post.val = "yes" /\ post.always /\ post.rule # NoRule

\* Wrong variant: the oldest goes one too late.
EvictedLate(s) == IF Len(s) > ResolvedCap THEN Tail(s) ELSE s

Evicted(s) == IF Len(s) = ResolvedCap THEN Tail(s) ELSE s

Remember(p) ==
  LET b == BridgeOf(posts[p].req)
  IN  /\ PostStep(p, "remember",
           [posts[p] EXCEPT !.pc = IF GrantsRule(posts[p]) THEN "rule" ELSE "done",
                            !.out = "Resolved", !.shown = posts[p].val])
      /\ resolved' = [resolved EXCEPT ![b] =
                        Append(Evicted(@), [req |-> posts[p].req, val |-> posts[p].val])]
      /\ UNCHANGED <<askVars, rules, bridgeVars, chan>>

Remembered(r) == {i \in DOMAIN resolved[BridgeOf(r)] : resolved[BridgeOf(r)][i].req = r}

\* Wrong variant: a duplicate that says "always" approves the rule too.
LookupGrants(p) ==
  LET r == posts[p].req
  IN  /\ IF Remembered(r) = {}
         THEN PostStep(p, "lookup", [posts[p] EXCEPT !.pc = "done", !.out = "Unknown"])
         ELSE \E i \in Remembered(r) :
                PostStep(p, "lookup",
                  [posts[p] EXCEPT !.pc = IF GrantsRule(posts[p]) THEN "rule" ELSE "done",
                                   !.out = "AlreadyResolved",
                                   !.shown = resolved[BridgeOf(r)][i].val])
      /\ UNCHANGED <<askVars, rules, bridgeVars, chan, resolved>>

Lookup(p) ==
  LET r == posts[p].req
  IN  /\ IF Remembered(r) = {}
         THEN PostStep(p, "lookup", [posts[p] EXCEPT !.pc = "done", !.out = "Unknown"])
         ELSE \E i \in Remembered(r) :
                PostStep(p, "lookup",
                  [posts[p] EXCEPT !.pc = "done", !.out = "AlreadyResolved",
                                   !.shown = resolved[BridgeOf(r)][i].val])
      /\ UNCHANGED <<askVars, rules, bridgeVars, chan, resolved>>

GrantRule(p) ==
  /\ PostStep(p, "rule", [posts[p] EXCEPT !.pc = "done"])
  /\ rules' = rules \cup {posts[p].rule}
  /\ UNCHANGED <<askVars, bridgeVars, chan, resolved>>

\* The client goes away: the handler is dropped where it awaits a lock.  The
\* InteractionBridge's locks are asynchronous, the PermissionBridge's are not.
Disconnect(p) ==
  /\ posts[p].pc \in IF posts[p].req \in Questions
                     THEN {"take", "remember", "lookup"} ELSE {"rule"}
  /\ posts' = [posts EXCEPT ![p].pc = "done"]
  /\ UNCHANGED <<askVars, rules, bridgeVars, chan, resolved>>

-----------------------------------------------------------------------------

Waiter(r) ==
  \/ Insert(r) \/ Receive(r) \/ Expire(r) \/ CloseReceiver(r)
  \/ Finish(r) \/ PersistRule(r) \/ GuardDrop(r)

Handler(p) == Take(p) \/ Send(p) \/ Remember(p) \/ Lookup(p) \/ GrantRule(p)

Next ==
  \/ \E r \in Requests : Ask(r) \/ Waiter(r) \/ Drop(r)
  \/ \E p \in Posts : Handler(p) \/ Disconnect(p)
  \/ \E p \in Posts, r \in Requests, v \in Values, always \in BOOLEAN,
        w \in Rules \cup {NoRule} : Post(p, r, v, always, w)

Spec == Init /\ [][Next]_vars

\* Spawned futures are polled and the subagent's approval timer fires.  Nobody
\* has to answer.
Fairness == \A r \in Requests : WF_vars(Waiter(r))

FairSpec == Spec /\ Fairness

-----------------------------------------------------------------------------
(* Properties                                                              *)

\* Types; no more resolutions are remembered than the cap allows.
TypeOK ==
  /\ ask \in [Requests -> AskPlaces]
  /\ pending \subseteq Requests /\ taken \subseteq Requests
  /\ chan \in [Requests -> Values \cup {"empty"}]
  /\ got \in [Requests -> Values \cup {"empty"}]
  /\ dismissals \in [Requests -> Nat]
  /\ posts \in [Posts -> [pc : PostPlaces, req : Requests, val : Values, always : BOOLEAN,
                          rule : Rules \cup {NoRule}, out : Outcomes, shown : Values \cup {"empty"}]]
  /\ resolved \in [Bridges -> Seq([req : Requests, val : Values])]
  /\ \A b \in Bridges : Len(resolved[b]) <= ResolvedCap
  /\ rules \subseteq Rules

Won(p) == posts[p].out = "Resolved"
Told(p) == posts[p].out \in {"Resolved", "AlreadyResolved"}

\* The first decision stands: whoever is told that a request is resolved, by a
\* 200 or by a 409, is told the same value, only one post is told it decided,
\* and the waiter never goes on with the opposite of an approval or denial it
\* received (PermissionResolveOutcome: "A duplicate answer must never overwrite
\* the first decision").
DecisionStands ==
  /\ \A p, q \in Posts : posts[p].req = posts[q].req /\ Told(p) /\ Told(q) =>
       /\ posts[p].shown = posts[q].shown
       /\ Won(p) /\ Won(q) => p = q
  /\ \A p \in Posts : Told(p) /\ got[posts[p].req] = "yes" => posts[p].shown = "yes"

Approves(p, r) ==
  posts[p].req = r /\ posts[p].val = "yes" /\ (posts[p].pc = "remember" \/ Won(p))

\* Fail closed: a tool call that had to ask runs only after a post approved it,
\* whatever times out, is dropped or is answered twice (request_with_timeout:
\* "`false` on deny or timeout (fail closed)").
FailClosed ==
  \A r \in Permissions : ask[r] \in {"persisting", "proceeds"} /\ got[r] # "empty" =>
    chan[r] = "yes" /\ \E p \in Posts : Approves(p, r)

\* The two ways a rule w may come to be approved: the answer that decided a request says
\* "always" and names w, or the root went on with the "yes" of a post for a request about w.
NamedByDecision(w, p) ==
  /\ Won(p) /\ posts[p].req \in Permissions
  /\ posts[p].val = "yes" /\ posts[p].always /\ posts[p].rule = w

AllowedAtRoot(w, r, p) == RuleOf[r] = w /\ got[r] = "yes" /\ Approves(p, r)

\* A rule is approved only where an answer that decided names it with "always", or
\* where the root was allowed what it is about; never by an answer that came second or
\* late (resolve_subagent_permission: "a duplicate answer must produce no second
\* effect").  That the rule named is the one of the request is up to the client.
RulesAreGranted ==
  \A w \in rules : \E p \in Posts :
    NamedByDecision(w, p) \/ \E r \in RootAsks : AllowedAtRoot(w, r, p)

\* "GET /tools/pending-permissions never shows a phantom prompt": once the tool
\* call is over its entry is gone, on every path.
NoPhantomPermission == \A r \in Permissions : ask[r] \in Ended => r \notin pending

\* A prompt that was put up is taken down once.  The only call that ends
\* without is one dropped after an answer had taken its entry.
PromptDismissed ==
  \A r \in Permissions :
    /\ ask[r] = "denied" \/ (ask[r] = "proceeds" /\ got[r] # "empty") => dismissals[r] = 1
    /\ ask[r] = "dropped" => dismissals[r] = 1 \/ (dismissals[r] = 0 /\ r \in taken)

\* Prompts and memory are accounted for: a prompt that was put up is taken down once
\* however its call ends, and the memory of resolutions stays within its bound.
PromptsAccounted == TypeOK /\ PromptDismissed

\* A subagent's request ends by itself, and so does any request whose answer
\* was delivered.
AskEnds ==
  \A r \in Requests :
    ((r \in SubagentAsks /\ ask[r] # "idle") \/ chan[r] # "empty") ~> (ask[r] \in Ended)
=============================================================================
