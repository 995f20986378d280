----------------------- MODULE ApprovalBridges_proofs -----------------------
(***************************************************************************)
(* What ApprovalBridges promises for any number of requests, posts and     *)
(* rules, and for any size of the memory of resolutions.                   *)
(***************************************************************************)
EXTENDS ApprovalBridges, TLAPS

\* An entry is listed only while its waiter may still need it, or when a
\* question's waiter was dropped without a guard; an entry that an answer took
\* never comes back.
Listed(r) == {"waiting", "expired", "finishing", "dropping"}
               \cup (IF r \in Questions THEN {"dropped"} ELSE {})

EntryInv ==
  \A r \in Requests :
    /\ r \in pending => r \notin taken /\ ask[r] \in Listed(r)
    /\ r \in taken => ask[r] \notin {"idle", "asked"}

\* What the waiter goes on with.
WaiterInv ==
  \A r \in Requests :
    /\ ask[r] = "idle" => got[r] = "empty"
    /\ got[r] = "yes" => chan[r] = "yes"
    /\ ask[r] = "persisting" => r \in RootAsks /\ got[r] = "yes"
    /\ r \in Permissions /\ ask[r] = "proceeds" => got[r] \in {"yes", "empty"}

\* Only the handler of a question can be dropped before it remembers what it sent.
Delivered(p) ==
  posts[p].pc = "remember" \/ Won(p) \/ (posts[p].req \in Questions /\ posts[p].pc = "done")

\* A value in a channel was put there by a post that had taken the entry.
ChannelInv ==
  \A r \in Requests : chan[r] # "empty" =>
    /\ r \in taken
    /\ \E p \in Posts : posts[p].req = r /\ posts[p].val = chan[r] /\ Delivered(p)

Took(p) == posts[p].pc \in {"send", "remember", "rule"} \/ Won(p)

PostInv ==
  \A p \in Posts :
    /\ Took(p) => posts[p].req \in taken
    /\ posts[p].pc = "send" => chan[posts[p].req] = "empty"
    /\ posts[p].pc = "remember" => chan[posts[p].req] = posts[p].val
    /\ posts[p].pc \notin {"rule", "done"} => posts[p].out = "none"
    /\ posts[p].pc = "rule" => Won(p) /\ GrantsRule(posts[p])
    /\ Won(p) => posts[p].shown = posts[p].val
    /\ Told(p) => posts[p].shown # "empty" /\ posts[p].shown = chan[posts[p].req]

\* Only one post at a time has an entry in its hands, or is told it decided.
OneTaker ==
  \A p, q \in Posts : Took(p) /\ Took(q) /\ posts[p].req = posts[q].req => p = q

\* What is remembered is what was sent.
MemoryInv ==
  \A b \in Bridges : \A i \in DOMAIN resolved[b] :
    resolved[b][i].val = chan[resolved[b][i].req]

\* The inductive invariant.
IInv ==
  /\ TypeOK
  /\ EntryInv /\ WaiterInv /\ ChannelInv /\ PostInv /\ OneTaker /\ MemoryInv
  /\ RulesAreGranted

-----------------------------------------------------------------------------
(* The waiter's steps                                                      *)

\* An element of a sequence is of the sequence's kind.
LEMMA ElementOfSeq ==
  ASSUME NEW S, NEW s \in Seq(S), NEW i \in DOMAIN s PROVE s[i] \in S
OBVIOUS

\* Appending lengthens a sequence by one.
LEMMA AppendToSeq ==
  ASSUME NEW S, NEW s \in Seq(S), NEW e \in S
  PROVE  Append(s, e) \in Seq(S) /\ Len(Append(s, e)) = Len(s) + 1
OBVIOUS

\* What the posts, the channels and the memory of resolutions say to each other
\* does not depend on where the waiters are.
LEMMA HandlersUntouched ==
  ASSUME IInv, UNCHANGED <<posts, chan, taken, resolved>>
  PROVE  ChannelInv' /\ PostInv' /\ OneTaker' /\ MemoryInv'
BY DEF IInv, ChannelInv, Delivered, PostInv, Took, Won, Told, GrantsRule, OneTaker, MemoryInv


\* An approved rule stays granted as long as nobody forgets the approval.
LEMMA RulesStay ==
  ASSUME IInv, UNCHANGED <<rules, posts>>,
         \A r \in Requests : got[r] = "yes" => got'[r] = "yes"
  PROVE  RulesAreGranted'
BY DEF IInv, RulesAreGranted, NamedByDecision, AllowedAtRoot, Approves, Won, Permissions,
       Requests

\* Asking keeps the invariant.
LEMMA AskKeeps ==
  ASSUME IInv, NEW r \in Requests, Ask(r)
  PROVE  IInv'
<1>1. TypeOK'
  BY DEF Ask, AskStep, bridgeVars, IInv, TypeOK, AskPlaces, Ended, Values, Requests, Permissions
<1>2. EntryInv'
  BY KindsAssumption DEF Ask, AskStep, bridgeVars, IInv, TypeOK, EntryInv, Listed, AskPlaces, Ended, Values, Requests, Permissions
<1>3. WaiterInv'
  BY KindsAssumption DEF Ask, AskStep, bridgeVars, IInv, TypeOK, WaiterInv, AskPlaces, Ended, Values, Requests, Permissions
<1>4. RulesAreGranted'
  BY RulesStay DEF Ask, AskStep, bridgeVars, IInv, TypeOK, WaiterInv
<1>5. QED
  BY <1>1, <1>2, <1>3, <1>4, HandlersUntouched DEF Ask, bridgeVars, IInv

\* The entry goes into the map before any answer can take it.
LEMMA InsertKeeps ==
  ASSUME IInv, NEW r \in Requests, Insert(r)
  PROVE  IInv'
<1>1. TypeOK'
  BY DEF Insert, AskStep, bridgeVars, IInv, TypeOK, AskPlaces, Ended, Values, Requests, Permissions
<1>2. EntryInv'
  BY KindsAssumption DEF Insert, AskStep, bridgeVars, IInv, TypeOK, EntryInv, Listed, AskPlaces, Ended, Values, Requests, Permissions
<1>3. WaiterInv'
  BY KindsAssumption DEF Insert, AskStep, bridgeVars, IInv, TypeOK, WaiterInv, AskPlaces, Ended, Values, Requests, Permissions
<1>4. RulesAreGranted'
  BY RulesStay DEF Insert, AskStep, bridgeVars, IInv, TypeOK, WaiterInv
<1>5. QED
  BY <1>1, <1>2, <1>3, <1>4, HandlersUntouched DEF Insert, bridgeVars, IInv

\* The waiter goes on with what was sent.
LEMMA ReceiveKeeps ==
  ASSUME IInv, NEW r \in Requests, Receive(r)
  PROVE  IInv'
<1>1. TypeOK'
  BY DEF Receive, AskStep, bridgeVars, IInv, TypeOK, AskPlaces, Ended, Values, Requests, Permissions
<1>2. EntryInv'
  BY KindsAssumption DEF Receive, AskStep, bridgeVars, IInv, TypeOK, EntryInv, Listed, AskPlaces, Ended, Values, Requests, Permissions
<1>3. WaiterInv'
  BY KindsAssumption DEF Receive, AskStep, bridgeVars, IInv, TypeOK, WaiterInv, AskPlaces, Ended, Values, Requests, Permissions
<1>4. RulesAreGranted'
  BY RulesStay DEF Receive, AskStep, bridgeVars, IInv, TypeOK, WaiterInv
<1>5. QED
  BY <1>1, <1>2, <1>3, <1>4, HandlersUntouched DEF Receive, bridgeVars, IInv

\* The deadline denies.
LEMMA ExpireKeeps ==
  ASSUME IInv, NEW r \in Requests, Expire(r)
  PROVE  IInv'
<1>1. TypeOK'
  BY DEF Expire, AskStep, bridgeVars, IInv, TypeOK, AskPlaces, Ended, Values, Requests, Permissions
<1>2. EntryInv'
  BY KindsAssumption DEF Expire, AskStep, bridgeVars, IInv, TypeOK, EntryInv, Listed, AskPlaces, Ended, Values, Requests, Permissions
<1>3. WaiterInv'
  BY KindsAssumption DEF Expire, AskStep, bridgeVars, IInv, TypeOK, WaiterInv, AskPlaces, Ended, Values, Requests, Permissions
<1>4. RulesAreGranted'
  BY RulesStay DEF Expire, AskStep, bridgeVars, IInv, TypeOK, WaiterInv
<1>5. QED
  BY <1>1, <1>2, <1>3, <1>4, HandlersUntouched DEF Expire, bridgeVars, IInv

\* Closing the receiver keeps the invariant.
LEMMA CloseReceiverKeeps ==
  ASSUME IInv, NEW r \in Requests, CloseReceiver(r)
  PROVE  IInv'
<1>1. TypeOK'
  BY DEF CloseReceiver, AskStep, bridgeVars, IInv, TypeOK, AskPlaces, Ended, Values, Requests, Permissions
<1>2. EntryInv'
  BY KindsAssumption DEF CloseReceiver, AskStep, bridgeVars, IInv, TypeOK, EntryInv, Listed, AskPlaces, Ended, Values, Requests, Permissions
<1>3. WaiterInv'
  BY KindsAssumption DEF CloseReceiver, AskStep, bridgeVars, IInv, TypeOK, WaiterInv, AskPlaces, Ended, Values, Requests, Permissions
<1>4. RulesAreGranted'
  BY RulesStay DEF CloseReceiver, AskStep, bridgeVars, IInv, TypeOK, WaiterInv
<1>5. QED
  BY <1>1, <1>2, <1>3, <1>4, HandlersUntouched DEF CloseReceiver, bridgeVars, IInv

\* The entry goes, and the verdict follows what was received.
LEMMA FinishKeeps ==
  ASSUME IInv, NEW r \in Requests, Finish(r)
  PROVE  IInv'
<1>1. TypeOK'
  <2>1. dismissals' \in [Requests -> Nat] /\ ask' \in [Requests -> AskPlaces]
    BY DEF Finish, AskStep, Verdict, IInv, TypeOK, AskPlaces, Ended
  <2>2. QED
    BY <2>1 DEF Finish, AskStep, Verdict, bridgeVars, IInv, TypeOK, AskPlaces, Ended
<1>2. EntryInv'
  BY KindsAssumption DEF Finish, AskStep, Verdict, bridgeVars, IInv, TypeOK, EntryInv, Listed, AskPlaces, Ended, Values, Requests, Permissions
<1>3. WaiterInv'
  <2>1. got' = got /\ chan' = chan
    BY DEF Finish
  <2>2. ask'[r] = Verdict(r) /\ \A q \in Requests \ {r} : ask'[q] = ask[q]
    BY DEF Finish, AskStep, IInv, TypeOK
  <2>3. /\ Verdict(r) # "idle"
        /\ Verdict(r) = "persisting" => r \in RootAsks /\ got[r] = "yes"
        /\ r \in Permissions /\ Verdict(r) = "proceeds" => got[r] = "yes"
    BY KindsAssumption DEF Verdict, Requests, Permissions
  <2>4. QED
    BY <2>1, <2>2, <2>3 DEF IInv, WaiterInv
<1>4. RulesAreGranted'
  BY RulesStay DEF Finish, AskStep, Verdict, bridgeVars, IInv, TypeOK, WaiterInv
<1>5. QED
  BY <1>1, <1>2, <1>3, <1>4, HandlersUntouched DEF Finish, bridgeVars, IInv

\* The root keeps a rule it was allowed.
LEMMA PersistRuleKeeps ==
  ASSUME IInv, NEW r \in Requests, PersistRule(r)
  PROVE  IInv'
<1>1. TypeOK'
  <2>1. rules' \subseteq Rules
    BY RulesAssumption DEF PersistRule, AskStep, IInv, TypeOK, WaiterInv, Permissions
  <2>2. QED
    BY <2>1 DEF PersistRule, AskStep, bridgeVars, IInv, TypeOK, AskPlaces, Ended
<1>2. EntryInv'
  BY KindsAssumption DEF PersistRule, AskStep, bridgeVars, IInv, TypeOK, EntryInv, Listed, AskPlaces, Ended, Values, Requests, Permissions
<1>3. WaiterInv'
  BY KindsAssumption DEF PersistRule, AskStep, bridgeVars, IInv, TypeOK, WaiterInv, AskPlaces, Ended, Values, Requests, Permissions
<1>4. RulesAreGranted'
  <2>1. UNCHANGED <<posts, got, chan>> /\ rules' = rules \cup {RuleOf[r]}
    BY DEF PersistRule
  <2>2. r \in RootAsks /\ got[r] = "yes" /\ chan[r] = "yes"
    BY DEF PersistRule, AskStep, IInv, WaiterInv
  <2>3. PICK p \in Posts : Approves(p, r)
    BY <2>2, KindsAssumption DEF IInv, ChannelInv, Delivered, Approves, Permissions
  <2>4. AllowedAtRoot(RuleOf[r], r, p)
    BY <2>2, <2>3 DEF AllowedAtRoot
  <2>5. \A w \in rules' : \E q \in Posts :
          NamedByDecision(w, q) \/ \E a \in RootAsks : AllowedAtRoot(w, a, q)
    BY <2>1, <2>2, <2>4 DEF IInv, RulesAreGranted
  <2>6. QED
    BY <2>1, <2>5 DEF RulesAreGranted, NamedByDecision, AllowedAtRoot, Approves, Won
<1>5. QED
  BY <1>1, <1>2, <1>3, <1>4, HandlersUntouched DEF PersistRule, bridgeVars, IInv

\* The guard takes the entry out.
LEMMA GuardDropKeeps ==
  ASSUME IInv, NEW r \in Requests, GuardDrop(r)
  PROVE  IInv'
<1>1. TypeOK'
  <2>1. dismissals' \in [Requests -> Nat]
    BY DEF GuardDrop, AskStep, IInv, TypeOK, AskPlaces, Ended
  <2>2. QED
    BY <2>1 DEF GuardDrop, AskStep, bridgeVars, IInv, TypeOK, AskPlaces, Ended
<1>2. EntryInv'
  BY KindsAssumption DEF GuardDrop, AskStep, bridgeVars, IInv, TypeOK, EntryInv, Listed, AskPlaces, Ended, Values, Requests, Permissions
<1>3. WaiterInv'
  BY KindsAssumption DEF GuardDrop, AskStep, bridgeVars, IInv, TypeOK, WaiterInv, AskPlaces, Ended, Values, Requests, Permissions
<1>4. RulesAreGranted'
  BY RulesStay DEF GuardDrop, AskStep, bridgeVars, IInv, TypeOK, WaiterInv
<1>5. QED
  BY <1>1, <1>2, <1>3, <1>4, HandlersUntouched DEF GuardDrop, bridgeVars, IInv

\* A dropped call keeps the invariant at each of its awaits.
LEMMA DropKeeps ==
  ASSUME IInv, NEW r \in Requests, Drop(r)
  PROVE  IInv'
<1>1. TypeOK'
  BY DEF Drop, Awaits, bridgeVars, IInv, TypeOK, AskPlaces, Ended, Values, Requests, Permissions
<1>2. EntryInv'
  BY KindsAssumption DEF Drop, Awaits, bridgeVars, IInv, TypeOK, EntryInv, Listed, AskPlaces, Ended, Values, Requests, Permissions
<1>3. WaiterInv'
  BY KindsAssumption DEF Drop, Awaits, bridgeVars, IInv, TypeOK, WaiterInv, AskPlaces, Ended, Values, Requests, Permissions
<1>4. RulesAreGranted'
  BY RulesStay DEF Drop, Awaits, bridgeVars, IInv, TypeOK, WaiterInv
<1>5. QED
  BY <1>1, <1>2, <1>3, <1>4, HandlersUntouched DEF Drop, bridgeVars, IInv

-----------------------------------------------------------------------------
(* The handlers' steps.  A handler keeps what was posted and moves on.     *)

PostRecord == [pc : PostPlaces, req : Requests, val : Values, always : BOOLEAN,
               rule : Rules \cup {NoRule}, out : Outcomes, shown : Values \cup {"empty"}]

Moves(p) ==
  /\ posts' \in [Posts -> PostRecord]
  /\ posts'[p].req = posts[p].req /\ posts'[p].val = posts[p].val
  /\ posts'[p].always = posts[p].always /\ posts'[p].rule = posts[p].rule
  /\ \A q \in Posts \ {p} : posts'[q] = posts[q]

\* Replacing one post's record moves that post only.
LEMMA Moving ==
  ASSUME IInv, NEW p \in Posts, NEW e \in PostRecord, posts' = [posts EXCEPT ![p] = e],
         e.req = posts[p].req, e.val = posts[p].val, e.always = posts[p].always,
         e.rule = posts[p].rule
  PROVE  Moves(p) /\ posts'[p] = e
BY DEF IInv, TypeOK, PostRecord, Moves

\* Posts are well typed.
LEMMA PostTyped == ASSUME IInv, NEW p \in Posts PROVE posts[p] \in PostRecord
BY DEF IInv, TypeOK, PostRecord

\* A post that is under way moves: a granted rule stays granted, a value in a
\* channel keeps its sender.
LEMMA MoveKeepsRules ==
  ASSUME IInv, NEW p \in Posts, Moves(p), UNCHANGED <<rules, got>>,
         Delivered(p) => Delivered(p)', Won(p) => Won(p)'
  PROVE  RulesAreGranted'
<1>1. \A w : NamedByDecision(w, p) => NamedByDecision(w, p)'
  BY DEF NamedByDecision, Moves, Won
<1>2. \A w : \A r \in RootAsks : AllowedAtRoot(w, r, p) => AllowedAtRoot(w, r, p)'
  BY KindsAssumption DEF AllowedAtRoot, Approves, Delivered, Moves, Won, Permissions
<1>3. \A w : \A q \in Posts \ {p} :
        /\ NamedByDecision(w, q) => NamedByDecision(w, q)'
        /\ \A r \in RootAsks : AllowedAtRoot(w, r, q) => AllowedAtRoot(w, r, q)'
  BY DEF NamedByDecision, AllowedAtRoot, Approves, Moves, Won
<1>4. QED
  BY <1>1, <1>2, <1>3 DEF IInv, RulesAreGranted

\* A value in a channel keeps its sender while a post moves.
LEMMA MoveKeepsChannel ==
  ASSUME IInv, NEW p \in Posts, Moves(p), chan' = chan, taken \subseteq taken',
         Delivered(p) => Delivered(p)'
  PROVE  ChannelInv'
<1> SUFFICES ASSUME NEW r \in Requests, chan[r] # "empty"
             PROVE  /\ r \in taken'
                    /\ \E q \in Posts : posts'[q].req = r /\ posts'[q].val = chan[r]
                                          /\ Delivered(q)'
  BY DEF ChannelInv
<1>1. r \in taken'
  BY DEF IInv, ChannelInv
<1>2. PICK q \in Posts : posts[q].req = r /\ posts[q].val = chan[r] /\ Delivered(q)
  BY DEF IInv, ChannelInv
<1>3. posts'[q].req = r /\ posts'[q].val = chan[r] /\ Delivered(q)'
  BY <1>2 DEF Moves, Delivered, Won
<1>4. QED
  BY <1>1, <1>3

\* A new post has nothing in its hands.
LEMMA PostKeeps ==
  ASSUME IInv, NEW p \in Posts, NEW r \in Requests, NEW v \in Values,
         NEW always \in BOOLEAN, NEW rule \in Rules \cup {NoRule}, Post(p, r, v, always, rule)
  PROVE  IInv'
<1>1. /\ posts[p].pc = "idle" /\ posts[p].out = "none"
      /\ posts'[p].pc = "take" /\ posts'[p].out = "none"
      /\ \A q \in Posts \ {p} : posts'[q] = posts[q]
  BY DEF Post, PostStep, IInv, TypeOK, PostInv
<1>2. UNCHANGED <<ask, got, dismissals, rules, pending, taken, chan, resolved>>
  BY DEF Post, askVars, bridgeVars
<1>3. TypeOK'
  <2>1. posts' \in [Posts -> PostRecord]
    <3>1. [posts[p] EXCEPT !.pc = "take", !.req = r, !.val = v, !.always = always,
                        !.rule = rule] \in PostRecord
      BY PostTyped DEF PostRecord, PostPlaces
    <3>2. QED
      BY <3>1 DEF Post, PostStep, IInv, TypeOK, PostRecord
  <2>2. QED
    BY <1>2, <2>1 DEF IInv, TypeOK, PostRecord
<1>4. EntryInv' /\ WaiterInv' /\ MemoryInv'
  BY <1>2 DEF IInv, EntryInv, Listed, WaiterInv, MemoryInv
<1>5. ChannelInv'
  BY <1>1, <1>2 DEF IInv, ChannelInv, Delivered, Won
<1>6. PostInv' /\ OneTaker'
  BY <1>1, <1>2 DEF IInv, PostInv, OneTaker, Took, Won, Told, GrantsRule
<1>7. RulesAreGranted'
  <2>1. \A w : ~ NamedByDecision(w, p) /\ \A d \in RootAsks : ~ AllowedAtRoot(w, d, p)
    BY <1>1 DEF NamedByDecision, AllowedAtRoot, Approves, Won
  <2>2. \A w : \A q \in Posts \ {p} :
          /\ NamedByDecision(w, q) => NamedByDecision(w, q)'
          /\ \A d \in RootAsks : AllowedAtRoot(w, d, q) => AllowedAtRoot(w, d, q)'
    BY <1>1, <1>2 DEF NamedByDecision, AllowedAtRoot, Approves, Won
  <2>3. QED
    BY <1>2, <2>1, <2>2 DEF IInv, RulesAreGranted
<1>8. QED
  BY <1>3, <1>4, <1>5, <1>6, <1>7 DEF IInv

\* Only one post takes an entry.
LEMMA TakeKeeps ==
  ASSUME IInv, NEW p \in Posts, Take(p)
  PROVE  IInv'
<1> DEFINE r == posts[p].req
<1>1. /\ r \in Requests /\ posts[p].pc = "take" /\ posts[p].out = "none"
      /\ posts'[p].pc = (IF r \in pending THEN "send" ELSE "lookup")
      /\ posts'[p].out = "none"
  BY DEF Take, PostStep, IInv, TypeOK, PostInv
<1>2. Moves(p)
  <2> DEFINE e == [posts[p] EXCEPT !.pc = IF r \in pending THEN "send" ELSE "lookup"]
  <2>1. /\ e \in PostRecord
        /\ e.req = posts[p].req /\ e.val = posts[p].val /\ e.always = posts[p].always
        /\ e.rule = posts[p].rule
    BY PostTyped DEF PostRecord, PostPlaces
  <2>2. posts' = [posts EXCEPT ![p] = e]
    BY DEF Take, PostStep
  <2>3. QED
    BY <2>1, <2>2, Moving
<1>3. UNCHANGED <<ask, got, dismissals, rules, chan, resolved>>
  BY DEF Take, askVars
<1>4. pending' = pending \ {r} /\ taken' = taken \cup (pending \cap {r})
  BY DEF Take
<1>5. TypeOK'
  BY <1>1, <1>2, <1>3, <1>4 DEF IInv, TypeOK, Moves, PostRecord
<1>6. EntryInv'
  BY <1>1, <1>3, <1>4 DEF IInv, EntryInv, Listed
<1>7. WaiterInv' /\ MemoryInv'
  BY <1>3 DEF IInv, WaiterInv, MemoryInv
<1>8. ChannelInv'
  BY <1>1, <1>2, <1>3, <1>4, MoveKeepsChannel DEF Delivered, Won, Moves
<1>9. PostInv'
  BY <1>1, <1>2, <1>3, <1>4 DEF IInv, PostInv, ChannelInv, EntryInv, Took, Won, Told, Moves,
     GrantsRule
<1>10. OneTaker'
  BY <1>1, <1>2, <1>3, <1>4 DEF IInv, OneTaker, PostInv, EntryInv, Took, Won, Moves
<1>11. RulesAreGranted'
  BY <1>1, <1>2, <1>3, MoveKeepsRules DEF Delivered, Won, Moves
<1>12. QED
  BY <1>5, <1>6, <1>7, <1>8, <1>9, <1>10, <1>11 DEF IInv

\* A value is sent once, by the post that took the entry.
LEMMA SendKeeps ==
  ASSUME IInv, NEW p \in Posts, Send(p)
  PROVE  IInv'
<1> DEFINE r == posts[p].req
<1>1. /\ r \in Requests /\ posts[p].val \in Values /\ posts[p].pc = "send"
      /\ posts[p].out = "none" /\ r \in taken /\ chan[r] = "empty"
  BY DEF Send, PostStep, IInv, TypeOK, PostInv, Took
<1>2. Moves(p)
  <2> DEFINE e == IF ReceiverAlive(r) THEN [posts[p] EXCEPT !.pc = "remember"]
                  ELSE [posts[p] EXCEPT !.pc = "done", !.out = "Unknown"]
  <2>1. /\ e \in PostRecord
        /\ e.req = posts[p].req /\ e.val = posts[p].val /\ e.always = posts[p].always
        /\ e.rule = posts[p].rule
    BY PostTyped DEF PostRecord, PostPlaces, Outcomes
  <2>2. posts' = [posts EXCEPT ![p] = e]
    BY DEF Send, PostStep
  <2>3. QED
    BY <2>1, <2>2, Moving
<1>3. UNCHANGED <<ask, got, dismissals, rules, pending, taken, resolved>>
  BY DEF Send, askVars, bridgeVars
<1>4. CASE ReceiverAlive(r)
  <2>0. chan' = [chan EXCEPT ![r] = posts[p].val]
    BY <1>4 DEF Send
  <2>1. /\ posts'[p].pc = "remember" /\ posts'[p].out = "none"
        /\ chan'[r] = posts[p].val
        /\ \A q \in Requests \ {r} : chan'[q] = chan[q]
        /\ chan' \in [Requests -> Values \cup {"empty"}]
    <3>1. posts'[p].pc = "remember" /\ posts'[p].out = "none"
      BY <1>1, <1>4, PostTyped DEF Send, PostStep, PostRecord, IInv, TypeOK
    <3>2. QED
      BY <1>1, <2>0, <3>1 DEF IInv, TypeOK
  <2>2. TypeOK'
    BY <1>2, <1>3, <2>1 DEF IInv, TypeOK, Moves, PostRecord
  <2>3. EntryInv'
    BY <1>3 DEF IInv, EntryInv, Listed
  <2>4. WaiterInv'
    BY <1>1, <1>3, <2>1 DEF IInv, WaiterInv
  <2>5. ChannelInv'
    BY <1>1, <1>2, <1>3, <2>1 DEF IInv, ChannelInv, Delivered, Moves, Won
  <2>6. PostInv'
    <3>1. ASSUME NEW q \in Posts, q # p, posts[q].req = r
          PROVE  ~ Took(q) /\ ~ Told(q)
      BY <1>1, <3>1 DEF IInv, OneTaker, PostInv, Took, Told, Won
    <3>2. ASSUME NEW q \in Posts, q # p, posts[q].req # r
          PROVE  chan'[posts[q].req] = chan[posts[q].req]
      BY <2>1, <3>2, PostTyped DEF PostRecord
    <3>3. QED
      BY <1>1, <1>2, <1>3, <2>1, <3>1, <3>2
         DEF IInv, PostInv, Took, Won, Told, Moves, GrantsRule
  <2>7. OneTaker'
    BY <1>1, <1>2, <2>1 DEF IInv, OneTaker, Took, Won, Moves
  <2>8. MemoryInv'
    <3>1. ASSUME NEW b \in Bridges, NEW i \in DOMAIN resolved[b]
          PROVE  resolved[b][i].req \in Requests \ {r}
      <4>1. resolved[b][i] \in [req : Requests, val : Values]
        <5>1. resolved[b] \in Seq([req : Requests, val : Values])
          BY DEF IInv, TypeOK
        <5>2. QED
          BY <5>1, ElementOfSeq
      <4>2. QED
        BY <1>1, <4>1 DEF IInv, MemoryInv, Values
    <3>2. QED
      BY <1>3, <2>1, <3>1 DEF IInv, MemoryInv
  <2>9. RulesAreGranted'
    BY <1>1, <1>2, <1>3, MoveKeepsRules DEF Delivered, Won, Moves
  <2>10. QED
    BY <2>2, <2>3, <2>4, <2>5, <2>6, <2>7, <2>8, <2>9 DEF IInv
<1>5. CASE ~ ReceiverAlive(r)
  <2>1. posts'[p].pc = "done" /\ posts'[p].out = "Unknown" /\ chan' = chan
    BY <1>1, <1>5 DEF Send, PostStep, IInv, TypeOK
  <2>2. TypeOK'
    BY <1>2, <1>3, <2>1 DEF IInv, TypeOK, Moves, PostRecord
  <2>3. EntryInv' /\ WaiterInv' /\ MemoryInv'
    BY <1>3, <2>1 DEF IInv, EntryInv, Listed, WaiterInv, MemoryInv
  <2>4. ChannelInv'
    BY <1>1, <1>2, <1>3, <2>1, MoveKeepsChannel DEF Delivered, Won, Moves
  <2>5. PostInv' /\ OneTaker'
    BY <1>1, <1>2, <1>3, <2>1 DEF IInv, PostInv, OneTaker, Took, Won, Told, Moves, GrantsRule
  <2>6. RulesAreGranted'
    BY <1>1, <1>2, <1>3, MoveKeepsRules DEF Delivered, Won, Moves
  <2>7. QED
    BY <2>2, <2>3, <2>4, <2>5, <2>6 DEF IInv
<1>6. QED
  BY <1>4, <1>5

\* The last three steps of a handler, and its end when the client disconnects,
\* leave the channels and the entries alone.
LEMMA EndKeeps ==
  ASSUME IInv, NEW p \in Posts, Moves(p),
         UNCHANGED <<ask, got, dismissals, pending, taken, chan>>,
         posts'[p].pc \in {"rule", "done"},
         posts[p].pc # "idle",
         Delivered(p) => Delivered(p)', Won(p) => Won(p)',
         Took(p)' => Took(p),
         posts'[p].pc = "rule" => Won(p)' /\ GrantsRule(posts'[p]),
         Won(p)' => posts'[p].shown = posts'[p].val,
         Told(p)' => posts'[p].shown # "empty" /\ posts'[p].shown = chan[posts[p].req]
  PROVE  EntryInv' /\ WaiterInv' /\ ChannelInv' /\ PostInv' /\ OneTaker'
<1>1. EntryInv' /\ WaiterInv'
  BY DEF IInv, EntryInv, Listed, WaiterInv
<1>2. ChannelInv'
  BY MoveKeepsChannel
<1>3. PostInv'
  BY DEF IInv, PostInv, Moves, Took, Won, Told, GrantsRule
<1>4. OneTaker'
  BY DEF IInv, OneTaker, Moves, Took, Won
<1>5. QED
  BY <1>1, <1>2, <1>3, <1>4

\* What is remembered is what was sent, within the cap.
LEMMA RememberKeeps ==
  ASSUME IInv, NEW p \in Posts, Remember(p)
  PROVE  IInv'
<1> DEFINE b == BridgeOf(posts[p].req)
           s == Evicted(resolved[b])
           new == [req |-> posts[p].req, val |-> posts[p].val]
<1>1. /\ posts[p] \in PostRecord /\ posts[p].pc = "remember"
      /\ chan[posts[p].req] = posts[p].val
  BY PostTyped DEF Remember, PostStep, IInv, PostInv
<1>2. UNCHANGED <<ask, got, dismissals, rules, pending, taken, chan>>
  BY DEF Remember, askVars, bridgeVars
<1>3. /\ Moves(p)
      /\ posts'[p].pc = (IF GrantsRule(posts[p]) THEN "rule" ELSE "done")
      /\ posts'[p].out = "Resolved" /\ posts'[p].shown = posts[p].val
  <2> DEFINE e == [posts[p] EXCEPT !.pc = IF GrantsRule(posts[p]) THEN "rule" ELSE "done",
                                   !.out = "Resolved", !.shown = posts[p].val]
  <2>1. /\ e \in PostRecord
        /\ e.req = posts[p].req /\ e.val = posts[p].val /\ e.always = posts[p].always
        /\ e.rule = posts[p].rule
    BY <1>1 DEF PostRecord, PostPlaces, Outcomes
  <2>2. /\ e.pc = (IF GrantsRule(posts[p]) THEN "rule" ELSE "done")
        /\ e.out = "Resolved" /\ e.shown = posts[p].val
    BY <1>1 DEF PostRecord
  <2>3. posts' = [posts EXCEPT ![p] = e]
    BY DEF Remember, PostStep
  <2>4. QED
    BY <2>1, <2>2, <2>3, Moving
<1>4. /\ b \in Bridges /\ resolved' = [resolved EXCEPT ![b] = Append(s, new)]
      /\ new \in [req : Requests, val : Values]
  BY <1>1 DEF Remember, PostRecord, BridgeOf, Bridges
<1>5. /\ s \in Seq([req : Requests, val : Values]) /\ Len(s) + 1 <= ResolvedCap
      /\ \A i \in DOMAIN s : \E j \in DOMAIN resolved[b] : s[i] = resolved[b][j]
  <2>1. /\ resolved[b] \in Seq([req : Requests, val : Values])
        /\ Len(resolved[b]) <= ResolvedCap
    BY <1>4 DEF IInv, TypeOK
  <2>2. CASE Len(resolved[b]) = ResolvedCap
    BY <2>1, <2>2, CapAssumption DEF Evicted
  <2>3. CASE Len(resolved[b]) # ResolvedCap
    BY <2>1, <2>3, CapAssumption DEF Evicted
  <2>4. QED
    BY <2>2, <2>3
<1>6. TypeOK'
  <2>1. /\ resolved' \in [Bridges -> Seq([req : Requests, val : Values])]
        /\ \A c \in Bridges : Len(resolved'[c]) <= ResolvedCap
    <3>1. /\ Append(s, new) \in Seq([req : Requests, val : Values])
          /\ Len(Append(s, new)) <= ResolvedCap
      BY <1>4, <1>5, AppendToSeq
    <3>2. /\ resolved \in [Bridges -> Seq([req : Requests, val : Values])]
          /\ \A c \in Bridges : Len(resolved[c]) <= ResolvedCap
      BY DEF IInv, TypeOK
    <3> HIDE DEF s, new, b
    <3>3. QED
      BY <1>4, <3>1, <3>2
  <2>2. QED
    BY <1>2, <1>3, <2>1 DEF IInv, TypeOK, Moves, PostRecord
<1>7. EntryInv' /\ WaiterInv' /\ ChannelInv' /\ PostInv' /\ OneTaker'
  BY <1>1, <1>2, <1>3, EndKeeps DEF Delivered, Took, Won, Told, GrantsRule, Moves, PostRecord,
     Values
<1>8. MemoryInv'
  <2>1. \A i \in DOMAIN s : s[i].val = chan[s[i].req]
    BY <1>4, <1>5 DEF IInv, MemoryInv
  <2>2. \A i \in DOMAIN Append(s, new) : Append(s, new)[i].val = chan[Append(s, new)[i].req]
    BY <1>1, <1>4, <1>5, <2>1
  <2>3. resolved'[b] = Append(s, new) /\ \A c \in Bridges \ {b} : resolved'[c] = resolved[c]
    BY <1>4 DEF IInv, TypeOK
  <2>4. QED
    BY <1>2, <2>2, <2>3 DEF IInv, MemoryInv
<1>9. RulesAreGranted'
  BY <1>1, <1>2, <1>3, MoveKeepsRules DEF Delivered, Won, Moves
<1>10. QED
  BY <1>6, <1>7, <1>8, <1>9 DEF IInv

\* A duplicate is shown what was sent.
LEMMA LookupKeeps ==
  ASSUME IInv, NEW p \in Posts, Lookup(p)
  PROVE  IInv'
<1> DEFINE r == posts[p].req
           b == BridgeOf(r)
<1>1. /\ posts[p] \in PostRecord /\ posts[p].pc = "lookup" /\ posts[p].out = "none"
      /\ b \in Bridges
  BY PostTyped DEF Lookup, PostStep, IInv, PostInv, BridgeOf, Bridges
<1>2. UNCHANGED <<ask, got, dismissals, rules, pending, taken, chan, resolved>>
  BY DEF Lookup, askVars, bridgeVars
<1>3. /\ Moves(p) /\ posts'[p].pc = "done"
      /\ \/ posts'[p].out = "Unknown"
         \/ /\ posts'[p].out = "AlreadyResolved"
            /\ posts'[p].shown \in Values /\ posts'[p].shown = chan[r]
  <2>1. CASE Remembered(r) = {}
    <3> DEFINE e == [posts[p] EXCEPT !.pc = "done", !.out = "Unknown"]
    <3>1. /\ e \in PostRecord /\ e.pc = "done" /\ e.out = "Unknown"
          /\ e.req = posts[p].req /\ e.val = posts[p].val /\ e.always = posts[p].always
        /\ e.rule = posts[p].rule
      BY <1>1 DEF PostRecord, PostPlaces, Outcomes
    <3>2. posts' = [posts EXCEPT ![p] = e]
      BY <2>1 DEF Lookup, PostStep
    <3>3. QED
      BY <3>1, <3>2, Moving
  <2>2. CASE Remembered(r) # {}
    <3>1. PICK i \in Remembered(r) :
            posts' = [posts EXCEPT ![p] =
                       [posts[p] EXCEPT !.pc = "done", !.out = "AlreadyResolved",
                                        !.shown = resolved[b][i].val]]
      BY <2>2 DEF Lookup, PostStep
    <3> DEFINE e == [posts[p] EXCEPT !.pc = "done", !.out = "AlreadyResolved",
                                     !.shown = resolved[b][i].val]
    <3>2. /\ i \in DOMAIN resolved[b] /\ resolved[b][i].req = r
          /\ resolved[b][i] \in [req : Requests, val : Values]
      <4>1. i \in DOMAIN resolved[b] /\ resolved[b][i].req = r
        BY <3>1 DEF Remembered
      <4>2. resolved[b] \in Seq([req : Requests, val : Values])
        BY <1>1 DEF IInv, TypeOK
      <4>3. QED
        BY <4>1, <4>2, ElementOfSeq
    <3>3. resolved[b][i].val \in Values /\ resolved[b][i].val = chan[r]
      BY <1>1, <3>2 DEF IInv, MemoryInv
    <3>4. /\ e \in PostRecord /\ e.pc = "done" /\ e.out = "AlreadyResolved"
          /\ e.shown = resolved[b][i].val
          /\ e.req = posts[p].req /\ e.val = posts[p].val /\ e.always = posts[p].always
        /\ e.rule = posts[p].rule
      BY <1>1, <3>3 DEF PostRecord, PostPlaces, Outcomes
    <3>5. QED
      BY <3>1, <3>3, <3>4, Moving
  <2>3. QED
    BY <2>1, <2>2
<1>4. TypeOK'
  BY <1>2, <1>3 DEF IInv, TypeOK, Moves, PostRecord
<1>5. EntryInv' /\ WaiterInv' /\ ChannelInv' /\ PostInv' /\ OneTaker'
  BY <1>1, <1>2, <1>3, EndKeeps DEF Delivered, Took, Won, Told, Values
<1>6. MemoryInv'
  BY <1>2 DEF IInv, MemoryInv
<1>7. RulesAreGranted'
  BY <1>1, <1>2, <1>3, MoveKeepsRules DEF Delivered, Won, Moves
<1>8. QED
  BY <1>4, <1>5, <1>6, <1>7 DEF IInv

\* Only the deciding answer grants a rule.
LEMMA GrantRuleKeeps ==
  ASSUME IInv, NEW p \in Posts, GrantRule(p)
  PROVE  IInv'
<1> DEFINE r == posts[p].req
           e == [posts[p] EXCEPT !.pc = "done"]
<1>1. /\ posts[p] \in PostRecord /\ posts[p].pc = "rule" /\ Won(p) /\ GrantsRule(posts[p])
      /\ posts[p].shown = posts[p].val
  BY PostTyped DEF GrantRule, PostStep, IInv, PostInv
<1>2. /\ UNCHANGED <<ask, got, dismissals, pending, taken, chan, resolved>>
      /\ rules' = rules \cup {posts[p].rule}
  BY DEF GrantRule, askVars, bridgeVars
<1>3. Moves(p) /\ posts'[p] = e
  <2>1. /\ e \in PostRecord
        /\ e.req = posts[p].req /\ e.val = posts[p].val /\ e.always = posts[p].always
        /\ e.rule = posts[p].rule
    BY <1>1 DEF PostRecord, PostPlaces
  <2>2. posts' = [posts EXCEPT ![p] = e]
    BY DEF GrantRule, PostStep
  <2>3. QED
    BY <2>1, <2>2, Moving
<1>4. /\ posts'[p].pc = "done" /\ posts'[p].out = posts[p].out
      /\ posts'[p].shown = posts[p].shown
  BY <1>1, <1>3 DEF PostRecord
<1>5. TypeOK'
  <2>1. rules' \subseteq Rules
    BY <1>1, <1>2 DEF IInv, TypeOK, PostRecord, GrantsRule
  <2>2. QED
    BY <1>2, <1>3, <2>1 DEF IInv, TypeOK, Moves, PostRecord
<1>6. EntryInv' /\ WaiterInv' /\ ChannelInv' /\ PostInv' /\ OneTaker'
  <2>1. Told(p) => posts[p].shown # "empty" /\ posts[p].shown = chan[r]
    BY DEF IInv, PostInv
  <2>2. QED
    BY <1>1, <1>2, <1>3, <1>4, <2>1, EndKeeps DEF Delivered, Took, Won, Told, Moves
<1>7. MemoryInv'
  BY <1>2 DEF IInv, MemoryInv
<1>8. RulesAreGranted'
  <2>1. \A w : w = posts[p].rule => NamedByDecision(w, p)'
    BY <1>1, <1>3, <1>4 DEF NamedByDecision, GrantsRule, Won, Moves
  <2>2. \A q \in Posts :
          /\ posts'[q].req = posts[q].req /\ posts'[q].val = posts[q].val
          /\ posts'[q].always = posts[q].always /\ posts'[q].rule = posts[q].rule
          /\ posts'[q].out = posts[q].out /\ (posts[q].pc = "remember" => posts'[q].pc = "remember")
    BY <1>1, <1>3, <1>4 DEF Moves
  <2>3. \A w \in rules : \E q \in Posts :
          NamedByDecision(w, q)' \/ \E d \in RootAsks : AllowedAtRoot(w, d, q)'
    BY <1>2, <2>2 DEF IInv, RulesAreGranted, NamedByDecision, AllowedAtRoot, Approves, Won
  <2>4. QED
    BY <1>2, <2>1, <2>3 DEF RulesAreGranted
<1>9. QED
  BY <1>5, <1>6, <1>7, <1>8 DEF IInv

\* A dropped handler keeps the invariant.
LEMMA DisconnectKeeps ==
  ASSUME IInv, NEW p \in Posts, Disconnect(p)
  PROVE  IInv'
<1> DEFINE e == [posts[p] EXCEPT !.pc = "done"]
<1>1. /\ posts[p] \in PostRecord /\ posts[p].pc \in {"take", "remember", "lookup", "rule"}
      /\ posts[p].pc = "remember" => posts[p].req \in Questions
  BY PostTyped DEF Disconnect
<1>2. UNCHANGED <<ask, got, dismissals, rules, pending, taken, chan, resolved>>
  BY DEF Disconnect, askVars, bridgeVars
<1>3. Moves(p) /\ posts'[p] = e
  <2>1. /\ e \in PostRecord
        /\ e.req = posts[p].req /\ e.val = posts[p].val /\ e.always = posts[p].always
        /\ e.rule = posts[p].rule
    BY <1>1 DEF PostRecord, PostPlaces
  <2>2. posts' = [posts EXCEPT ![p] = e]
    BY DEF Disconnect
  <2>3. QED
    BY <2>1, <2>2, Moving
<1>4. /\ posts'[p].pc = "done" /\ posts'[p].out = posts[p].out
      /\ posts'[p].shown = posts[p].shown
  BY <1>1, <1>3 DEF PostRecord
<1>5. TypeOK'
  BY <1>2, <1>3 DEF IInv, TypeOK, Moves, PostRecord
<1>6. EntryInv' /\ WaiterInv' /\ ChannelInv' /\ PostInv' /\ OneTaker'
  <2>1. /\ Told(p) => posts[p].shown # "empty" /\ posts[p].shown = chan[posts[p].req]
        /\ Won(p) => posts[p].shown = posts[p].val
    BY DEF IInv, PostInv
  <2>2. QED
    BY <1>1, <1>2, <1>3, <1>4, <2>1, EndKeeps DEF Delivered, Took, Won, Told, Moves
<1>7. MemoryInv'
  BY <1>2 DEF IInv, MemoryInv
<1>8. RulesAreGranted'
  BY <1>1, <1>2, <1>3, <1>4, MoveKeepsRules DEF Delivered, Won, Moves
<1>9. QED
  BY <1>5, <1>6, <1>7, <1>8 DEF IInv

-----------------------------------------------------------------------------
(* The theorems                                                            *)

\* The invariant holds at the start.
LEMMA InitIInv == Init => IInv
<1> SUFFICES ASSUME Init PROVE IInv
  OBVIOUS
<1>1. TypeOK
  <2>1. (CHOOSE r \in Requests : TRUE) \in Requests
    BY KindsAssumption
  <2>2. QED
    BY <2>1, CapAssumption DEF Init, TypeOK, AskPlaces, Bridges, Values, PostPlaces, Outcomes
<1>2. EntryInv /\ WaiterInv /\ ChannelInv /\ PostInv /\ OneTaker
  BY <1>1 DEF Init, TypeOK, EntryInv, WaiterInv, ChannelInv, PostInv, OneTaker, Took, Won, Told
<1>3. MemoryInv /\ RulesAreGranted
  BY DEF Init, MemoryInv, RulesAreGranted
<1>4. QED
  BY <1>1, <1>2, <1>3 DEF IInv

\* Every step keeps the invariant.
LEMMA NextIInv == IInv /\ [Next]_vars => IInv'
<1> SUFFICES ASSUME IInv, [Next]_vars PROVE IInv'
  OBVIOUS
<1>1. ASSUME NEW r \in Requests, Ask(r) \/ Waiter(r) \/ Drop(r) PROVE IInv'
  BY <1>1, AskKeeps, InsertKeeps, ReceiveKeeps, ExpireKeeps, CloseReceiverKeeps, FinishKeeps,
     PersistRuleKeeps, GuardDropKeeps, DropKeeps DEF Waiter
<1>2. ASSUME NEW p \in Posts, Handler(p) \/ Disconnect(p) PROVE IInv'
  BY <1>2, TakeKeeps, SendKeeps, RememberKeeps, LookupKeeps, GrantRuleKeeps, DisconnectKeeps
     DEF Handler
<1>3. ASSUME NEW p \in Posts, NEW r \in Requests, NEW v \in Values, NEW always \in BOOLEAN,
             NEW w \in Rules \cup {NoRule}, Post(p, r, v, always, w)
      PROVE  IInv'
  BY <1>3, PostKeeps
<1>4. CASE UNCHANGED vars
  <2>1. /\ UNCHANGED <<ask, got, dismissals, pending>>
        /\ UNCHANGED <<posts, chan, taken, resolved, rules>>
    BY <1>4 DEF vars, askVars, bridgeVars
  <2>2. TypeOK' /\ EntryInv' /\ WaiterInv'
    BY <2>1 DEF IInv, TypeOK, EntryInv, Listed, WaiterInv
  <2>3. RulesAreGranted'
    BY <2>1, RulesStay
  <2>4. QED
    BY <2>1, <2>2, <2>3, HandlersUntouched DEF IInv
<1>5. QED
  BY <1>1, <1>2, <1>3, <1>4 DEF Next

\* The invariant holds throughout.
LEMMA Invariance == Spec => []IInv
BY InitIInv, NextIInv, PTL DEF Spec

-----------------------------------------------------------------------------
(* The prompts on the clients' screens                                     *)

\* A prompt is up from the pending event until finish or the guard takes it down: an
\* entry that is out of the map before that was taken by an answer.
PromptInv ==
  \A r \in Permissions :
    /\ ask[r] \in {"idle", "asked", "waiting", "expired", "finishing", "dropping", "withdrawn"}
         => dismissals[r] = 0
    /\ ask[r] \in {"waiting", "expired", "finishing", "dropping"} => r \in pending \cup taken
    /\ ask[r] \in {"denied", "persisting"} \/ (ask[r] = "proceeds" /\ got[r] # "empty")
         => dismissals[r] = 1
    /\ ask[r] = "dropped" => dismissals[r] = 1 \/ (dismissals[r] = 0 /\ r \in taken)

\* The waiter's own steps take its prompt down once, and touch no other prompt.
LEMMA WaiterPrompts ==
  ASSUME IInv, PromptInv, NEW r \in Requests, Ask(r) \/ Waiter(r) \/ Drop(r)
  PROVE  PromptInv'
<1> DEFINE Of(q) ==
      /\ ask[q] \in {"idle", "asked", "waiting", "expired", "finishing", "dropping", "withdrawn"}
           => dismissals[q] = 0
      /\ ask[q] \in {"waiting", "expired", "finishing", "dropping"} => q \in pending \cup taken
      /\ ask[q] \in {"denied", "persisting"} \/ (ask[q] = "proceeds" /\ got[q] # "empty")
           => dismissals[q] = 1
      /\ ask[q] = "dropped" => dismissals[q] = 1 \/ (dismissals[q] = 0 /\ q \in taken)
<1> USE DEF AskStep, bridgeVars
<1>1. /\ ask \in [Requests -> AskPlaces] /\ got \in [Requests -> Values \cup {"empty"}]
      /\ dismissals \in [Requests -> Nat]
  BY DEF IInv, TypeOK
<1>2. ASSUME NEW q \in Permissions, q # r PROVE Of(q)'
  <2>1. Of(q) /\ q \in Requests
    BY DEF PromptInv, Requests
  <2>2. taken' = taken /\ (q \in pending => q \in pending')
    BY <1>2 DEF Ask, Waiter, Insert, Receive, Expire, CloseReceiver, Finish, PersistRule, GuardDrop, Drop
  <2>3. ask'[q] = ask[q] /\ got'[q] = got[q] /\ dismissals'[q] = dismissals[q]
    <3>1. CASE Ask(r) \/ Insert(r) \/ Receive(r) \/ Expire(r) \/ CloseReceiver(r)
      BY <1>1, <1>2, <2>1, <3>1 DEF Ask, Insert, Receive, Expire, CloseReceiver
    <3>2. CASE Finish(r) \/ PersistRule(r) \/ GuardDrop(r) \/ Drop(r)
      BY <1>1, <1>2, <2>1, <3>2 DEF Finish, PersistRule, GuardDrop, Drop
    <3>3. QED
      BY <3>1, <3>2 DEF Waiter
  <2>4. QED
    BY <2>1, <2>2, <2>3
<1>3. ASSUME r \in Permissions PROVE Of(r)'
  <2>1. Of(r) /\ r \notin Questions
    BY <1>3, KindsAssumption DEF PromptInv
  <2>2. CASE Ask(r)
    <3>1. /\ ask[r] = "idle" /\ ask'[r] \in {"proceeds", "asked"} /\ got[r] = "empty"
          /\ UNCHANGED <<got, dismissals>>
      BY <1>1, <2>2 DEF Ask, IInv, WaiterInv
    <3>2. QED
      BY <2>1, <3>1
  <2>3. CASE Insert(r) \/ Receive(r) \/ Expire(r) \/ CloseReceiver(r)
    BY <1>1, <2>1, <2>3 DEF Insert, Receive, Expire, CloseReceiver
  <2>4. CASE Finish(r)
    <3>1. /\ ask[r] = "finishing" /\ ask'[r] = Verdict(r) /\ dismissals'[r] = dismissals[r] + 1
      BY <1>1, <2>4 DEF Finish
    <3>2. Verdict(r) \in {"denied", "proceeds", "persisting"}
      BY <2>1 DEF Verdict
    <3>3. dismissals'[r] = 1
      BY <2>1, <3>1
    <3>4. QED
      BY <3>1, <3>2, <3>3
  <2>5. CASE PersistRule(r)
    BY <1>1, <2>1, <2>5 DEF PersistRule
  <2>6. CASE GuardDrop(r)
    <3>1. /\ ask[r] = "dropping" /\ ask'[r] = "dropped" /\ taken' = taken
          /\ dismissals'[r] = IF r \in pending THEN dismissals[r] + 1 ELSE dismissals[r]
      BY <1>1, <2>6 DEF GuardDrop
    <3>2. QED
      BY <2>1, <3>1
  <2>7. CASE Drop(r)
    <3>1. /\ UNCHANGED <<dismissals, pending, taken>>
          /\ \/ ask[r] = "waiting" /\ ask'[r] = "dropping"
             \/ ask[r] = "asked" /\ ask'[r] = "withdrawn"
             \/ ask[r] = "persisting" /\ ask'[r] = "dropped"
      BY <1>1, <1>3, <2>1, <2>7 DEF Drop, Awaits
    <3>2. QED
      BY <2>1, <3>1
  <2>8. QED
    BY <2>2, <2>3, <2>4, <2>5, <2>6, <2>7 DEF Waiter
<1>4. \A q \in Permissions : Of(q)'
  BY <1>2, <1>3
<1>5. QED
  BY <1>4 DEF PromptInv

\* A handler only moves an entry from the map to the hands of an answer.
LEMMA HandlerPrompts ==
  ASSUME IInv, PromptInv, UNCHANGED askVars, taken \subseteq taken',
         pending \subseteq pending' \cup taken'
  PROVE  PromptInv'
BY DEF PromptInv, askVars

\* Every step accounts for every prompt.
LEMMA PromptStep == IInv /\ PromptInv /\ [Next]_vars => PromptInv'
<1> SUFFICES ASSUME IInv, PromptInv, [Next]_vars PROVE PromptInv'
  OBVIOUS
<1>1. ASSUME NEW p \in Posts, Take(p) PROVE PromptInv'
  <2>1. UNCHANGED askVars /\ taken \subseteq taken' /\ pending \subseteq pending' \cup taken'
    BY <1>1 DEF Take
  <2>2. QED
    BY <2>1, HandlerPrompts
<1>2. ASSUME UNCHANGED <<askVars, bridgeVars>> PROVE PromptInv'
  BY <1>2, HandlerPrompts DEF bridgeVars
<1>3. ASSUME NEW p \in Posts, Handler(p) \/ Disconnect(p) PROVE PromptInv'
  BY <1>1, <1>2, <1>3 DEF Handler, Send, Remember, Lookup, GrantRule, Disconnect
<1>4. ASSUME NEW p, NEW r, NEW v, NEW always, NEW w, Post(p, r, v, always, w) PROVE PromptInv'
  BY <1>2, <1>4 DEF Post
<1>5. QED
  BY <1>2, <1>3, <1>4, WaiterPrompts DEF Next, vars

\* A prompt that was put up is taken down once, however its call ends, and no more
\* resolutions are remembered than RESOLVED_CAP allows (finish, WaiterGuard::drop,
\* remember).
THEOREM PromptsAccountedTheorem == Spec => []PromptsAccounted
<1>1. Init => PromptInv
  BY DEF Init, PromptInv, Requests
<1>2. IInv /\ PromptInv => PromptsAccounted
  BY DEF IInv, PromptInv, PromptsAccounted, PromptDismissed
<1>3. QED
  BY <1>1, <1>2, Invariance, PromptStep, PTL DEF Spec

\* Whoever is told that a request is resolved, by the 200 or by a 409, is told
\* the one value the waiter was sent; only one post decides
\* (PermissionBridge::resolve, InteractionBridge::resolve).
THEOREM DecisionStandsTheorem == Spec => []DecisionStands
<1>1. IInv => DecisionStands
  BY PostTyped DEF IInv, DecisionStands, PostInv, OneTaker, WaiterInv, Took, Won, Told, PostRecord
<1>2. QED
  BY <1>1, Invariance, PTL

\* A tool call that asked runs only on a delivered approval, whatever times out
\* or is dropped (request_with_timeout, request_indefinite, both resolve_ask).
THEOREM FailClosedTheorem == Spec => []FailClosed
<1>1. IInv => FailClosed
  BY KindsAssumption DEF IInv, FailClosed, WaiterInv, ChannelInv, Approves, Delivered, Permissions,
     Requests
<1>2. QED
  BY <1>1, Invariance, PTL

\* Every approved rule was named with "always" by an answer that decided a request, or is
\* what the root was allowed: late and duplicate answers approve none, whatever rule
\* their bodies name (resolve_subagent_permission, resolve_ask).
THEOREM RulesAreGrantedTheorem == Spec => []RulesAreGranted
<1>1. IInv => RulesAreGranted
  BY DEF IInv
<1>2. QED
  BY <1>1, Invariance, PTL

\* A permission prompt whose tool call is over is not listed (finish,
\* WaiterGuard::drop).
THEOREM NoPhantomPermissionTheorem == Spec => []NoPhantomPermission
<1>1. IInv => NoPhantomPermission
  BY KindsAssumption DEF IInv, NoPhantomPermission, EntryInv, Listed, Ended, Permissions, Requests
<1>2. QED
  BY <1>1, Invariance, PTL
=============================================================================
