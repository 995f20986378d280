-------------------------- MODULE AgentLoop_proofs --------------------------
EXTENDS AgentLoop, SequenceTheorems, FiniteSetTheorems, WellFoundedInduction, TLAPS

(***************************************************************************)
(* The conversation of the agent loop. Whatever is cut, marked, repaired,  *)
(* cancelled and reopened, each request the model gets has every call      *)
(* answered once and every answer behind its call (RequestsWellFormed),    *)
(* the results of the last round are in it in full while there are no more *)
(* of them than the loop keeps (FreshResultsShown), and what is on disk    *)
(* has every call answered (SavedIsWhole), for conversations of any        *)
(* length and any limits of the loop.                                      *)
(*                                                                         *)
(* A request is made of the conversation, so the invariant is about that.  *)
(* It has to say which calls may lack a result, as a turn stops at any     *)
(* await: any of them. What holds is that calls are made once, by          *)
(* assistants, and that a result stands in the block of its call, once,    *)
(* unless the TUI answered it while it ran (Sound). That is what the two   *)
(* repairs need: an answer put in at the end of a block is the only one,   *)
(* and a result whose call was cut off with the summary has no call in the *)
(* rest of the view (TailBlock). It lasts because a call that is still to  *)
(* run has no result (OnTheWay). The summary ends before the last          *)
(* assistant message and the markers before the latest results             *)
(* (MarksWithin), also when a repair makes the conversation longer, so     *)
(* that the latest results are always in the part that is sent in full     *)
(* (Shown). The recursion of FlattenSeq is dealt with by well-founded      *)
(* induction on the number of parts (Flattens).                            *)
(***************************************************************************)

\* What a message can be.
Roles == {"user", "assistant", "system", "tool"}
Bodies == {"text", "result", "marker", "interrupted"}
Message == [role : Roles, calls : Seq(Nat), id : Nat, body : Bodies]

\* A set of numbers has a least one (by well-founded induction).
LEMMA HasLeast ==
  ASSUME NEW S, S \subseteq Nat, S # {}
  PROVE  \E x \in S : \A y \in S : x <= y
  <1> DEFINE R == OpToRel(<, Nat)
  <1>1. PICK x \in S : \A y \in S : ~ (<<y, x>> \in R)
    <2>1. IsWellFoundedOn(R, Nat)
      BY NatLessThanWellFounded
    <2> HIDE DEF R
    <2> QED BY <2>1, WFMin
  <1>2. \A y \in S : ~ (y < x)
    BY <1>1 DEF OpToRel
  <1>3. x \in Nat /\ \A y \in S : y \in Nat
    OBVIOUS
  <1> HIDE DEF R
  <1> QED BY <1>2, <1>3

\* What holds of 0 and, with a number, of the next holds of every number.
LEMMA Induct ==
  ASSUME NEW S, 0 \in S, \A n \in Nat : n \in S => n + 1 \in S
  PROVE  Nat \subseteq S
  <1> SUFFICES ASSUME Nat \ S # {}
               PROVE  FALSE
    OBVIOUS
  <1>1. PICK x \in Nat \ S : \A y \in Nat \ S : x <= y
    BY HasLeast
  <1>2. x - 1 \in Nat /\ x - 1 \in S
    BY <1>1
  <1> QED BY <1>1, <1>2

\* A bounded set of numbers has a greatest one.
LEMMA HasGreatest ==
  ASSUME NEW S, NEW n \in Nat, S \subseteq 0..n, S # {}
  PROVE  \E x \in S : \A y \in S : y <= x
  <1> DEFINE U == {u \in Nat : \A y \in S : y <= u}
  <1>1. U \subseteq Nat /\ U # {}
    <2>1. n \in U
      OBVIOUS
    <2> QED BY <2>1
  <1>2. PICK x \in U : \A y \in U : x <= y
    BY <1>1, HasLeast
  <1>3. CASE x \in S
    BY <1>2, <1>3
  <1>4. CASE x \notin S
    <2>1. \A y \in S : y \in Nat /\ y < x
      BY <1>2, <1>4
    <2>2. PICK y \in S : TRUE
      OBVIOUS
    <2>4. x \in Nat /\ x - 1 \in Nat
      BY <1>2, <2>1, <2>2
    <2>5. \A z \in S : z <= x - 1
      BY <2>1, <2>4
    <2>6. x - 1 \in U
      BY <2>4, <2>5
    <2>7. x <= x - 1
      BY <1>2, <2>6
    <2> QED BY <2>4, <2>7
  <1> QED BY <1>3, <1>4

\* The last assistant message among the first k.
LEMMA LastAssistantIs ==
  ASSUME NEW s, NEW k \in Nat
  PROVE  /\ LastAssistant(s, k) \in 0..k
         /\ LastAssistant(s, k) = 0 => \A i \in 1..k : s[i].role # "assistant"
         /\ LastAssistant(s, k) # 0 => /\ s[LastAssistant(s, k)].role = "assistant"
                                       /\ \A i \in (LastAssistant(s, k) + 1)..k : s[i].role # "assistant"
  <1> DEFINE A == {i \in 1..k : IsAssistant(s, i)}
  <1>1. CASE A = {}
    <2>1. LastAssistant(s, k) = 0
      BY <1>1 DEF LastAssistant
    <2> QED BY <1>1, <2>1 DEF IsAssistant
  <1>2. CASE A # {}
    <2>1. \E x \in A : \A y \in A : y <= x
      <3>1. A \subseteq 0..k
        OBVIOUS
      <3> HIDE DEF A
      <3> QED BY <1>2, <3>1, HasGreatest
    <2>2. LastAssistant(s, k) = CHOOSE i \in A : \A j \in A : j <= i
      BY <1>2 DEF LastAssistant
    <2>3. LastAssistant(s, k) \in A /\ \A j \in A : j <= LastAssistant(s, k)
      BY <2>1, <2>2
    <2> QED BY <2>3 DEF IsAssistant
  <1> QED BY <1>1, <1>2

\* A place that no later assistant message follows is the last one.
LEMMA LastIsOnly ==
  ASSUME NEW s, NEW k \in Nat, NEW a \in 0..k,
         a # 0 => s[a].role = "assistant",
         \A i \in (a + 1)..k : s[i].role # "assistant"
  PROVE  LastAssistant(s, k) = a
  <1> DEFINE b == LastAssistant(s, k)
  <1>1. /\ b \in 0..k
        /\ b = 0 => \A i \in 1..k : s[i].role # "assistant"
        /\ b # 0 => s[b].role = "assistant" /\ \A i \in (b + 1)..k : s[i].role # "assistant"
    BY LastAssistantIs
  <1> HIDE DEF b
  <1>2. ~ (b < a)
    BY <1>1
  <1>3. ~ (a < b)
    BY <1>1
  <1> QED BY <1>1, <1>2, <1>3 DEF b

-----------------------------------------------------------------------------
(* Joining sequences                                                        *)

\* The parts of a joined sequence stand one after the other: part k after place o[k].
JoinedAt(N, ss, r, o) ==
  /\ o \in [1..(N + 1) -> Nat] /\ o[1] = 0
  /\ \A k \in 1..N : o[k + 1] = o[k] + Len(ss[k])
  /\ Len(r) = o[N + 1]
  /\ \A k \in 1..N : \A i \in 1..Len(ss[k]) : r[o[k] + i] = ss[k][i]
  /\ \A n \in 1..Len(r) : \E k \in 1..N : o[k] < n /\ n <= o[k + 1]
  /\ \A k \in 1..N : o[k + 1] <= Len(r)

\* One more part joined at the end.
LEMMA JoinOne ==
  ASSUME NEW S, NEW N \in Nat, NEW ss, \A k \in 1..(N + 1) : ss[k] \in Seq(S),
         NEW r \in Seq(S), NEW o, JoinedAt(N, ss, r, o)
  PROVE  \E p : JoinedAt(N + 1, ss, r \o ss[N + 1], p)
  <1> DEFINE q == r \o ss[N + 1]
             p == [k \in 1..(N + 2) |-> IF k = N + 2 THEN o[N + 1] + Len(ss[N + 1]) ELSE o[k]]
  <1>0. \A k \in 1..(N + 1) : k \in 1..N \/ k \in {N + 1}
    OBVIOUS
  <1>1. ss[N + 1] \in Seq(S) /\ Len(ss[N + 1]) \in Nat /\ Len(r) \in Nat
    BY LenProperties
  <1>2. /\ Len(q) = Len(r) + Len(ss[N + 1])
        /\ \A i \in 1..Len(r) : q[i] = r[i]
        /\ \A i \in 1..Len(ss[N + 1]) : q[Len(r) + i] = ss[N + 1][i]
    BY <1>1, ConcatProperties
  <1> HIDE DEF q
  <1>3. o \in [1..(N + 1) -> Nat] /\ Len(r) = o[N + 1]
    BY DEF JoinedAt
  <1>4. p \in [1..(N + 2) -> Nat] /\ p[1] = 0
    BY <1>1, <1>3 DEF JoinedAt
  <1>5. /\ p[N + 2] = o[N + 1] + Len(ss[N + 1])
        /\ \A k \in 1..(N + 1) : p[k] = o[k]
    OBVIOUS
  <1> HIDE DEF p
  <1>6. \A k \in 1..(N + 1) : p[k + 1] = p[k] + Len(ss[k])
    <2>1. \A k \in 1..N : p[k + 1] = p[k] + Len(ss[k])
      <3>1. \A k \in 1..N : k \in 1..(N + 1) /\ k + 1 \in 1..(N + 1)
        OBVIOUS
      <3>2. \A k \in 1..N : o[k + 1] = o[k] + Len(ss[k])
        BY DEF JoinedAt
      <3> QED BY <1>5, <3>1, <3>2
    <2>2. \A k \in {N + 1} : p[k + 1] = p[k] + Len(ss[k])
      BY <1>5
    <2> QED BY <1>0, <2>1, <2>2
  <1>7. Len(q) = p[N + 2]
    BY <1>2, <1>3, <1>5
  <1>8. \A k \in 1..N : k \in 1..(N + 1) /\ k + 1 \in 1..(N + 1) /\ p[k] = o[k] /\ p[k + 1] = o[k + 1]
    BY <1>5
  <1>9. \A k \in 1..(N + 1) : \A i \in 1..Len(ss[k]) : q[p[k] + i] = ss[k][i]
    <2>1. ASSUME NEW k \in 1..N, NEW i \in 1..Len(ss[k])
          PROVE  q[p[k] + i] = ss[k][i]
      <3>1. r[o[k] + i] = ss[k][i] /\ o[k + 1] = o[k] + Len(ss[k]) /\ o[k + 1] <= Len(r)
        BY DEF JoinedAt
      <3>2. Len(ss[k]) \in Nat /\ o[k] \in Nat /\ o[k + 1] \in Nat
        BY <1>3, <1>8, LenProperties
      <3>3. o[k] + i \in 1..Len(r)
        <4> DEFINE l == Len(ss[k])
                   m == o[k]
                   z == Len(r)
        <4>1. i \in 1..l /\ l \in Nat /\ m \in Nat /\ m + l <= z /\ z \in Nat
          BY <1>1, <3>1, <3>2
        <4> HIDE DEF l, m, z
        <4>2. m + i \in 1..z
          BY <4>1
        <4> QED BY <4>2 DEF l, m, z
      <3>4. q[o[k] + i] = r[o[k] + i] /\ p[k] = o[k]
        BY <1>2, <1>8, <3>3
      <3> QED BY <3>1, <3>4
    <2>2. \A k \in {N + 1} : \A i \in 1..Len(ss[k]) : q[p[k] + i] = ss[k][i]
      BY <1>2, <1>3, <1>5
    <2> QED BY <1>0, <2>1, <2>2
  <1>10. \A k \in 1..(N + 1) : p[k + 1] <= Len(q)
    <2>1. \A k \in 1..N : o[k + 1] <= Len(r)
      BY DEF JoinedAt
    <2>2. ASSUME NEW k \in 1..N
          PROVE  p[k + 1] <= Len(q)
      <3>1. o[k + 1] \in Nat /\ p[k + 1] = o[k + 1] /\ o[k + 1] <= Len(r)
        BY <1>3, <1>8, <2>1
      <3> QED BY <1>1, <1>2, <3>1
    <2>3. \A k \in {N + 1} : p[k + 1] <= Len(q)
      BY <1>1, <1>2, <1>7
    <2> QED BY <1>0, <2>2, <2>3
  <1>11. \A n \in 1..Len(q) : \E k \in 1..(N + 1) : p[k] < n /\ n <= p[k + 1]
    <2> TAKE n \in 1..Len(q)
    <2>1. CASE n <= Len(r)
      <3>1. PICK k \in 1..N : o[k] < n /\ n <= o[k + 1]
        BY <1>1, <1>2, <2>1 DEF JoinedAt
      <3> QED BY <1>8, <3>1
    <2>2. CASE n > Len(r)
      <3>0. p[N + 1] = Len(r) /\ p[N + 2] = Len(r) + Len(ss[N + 1])
        BY <1>3, <1>5
      <3>1. p[N + 1] < n /\ n <= p[N + 2]
        BY <1>1, <1>2, <2>2, <3>0
      <3>2. N + 1 \in 1..(N + 1) /\ (N + 1) + 1 = N + 2
        OBVIOUS
      <3> QED BY <3>1, <3>2
    <2> QED BY <1>1, <1>2, <2>1, <2>2
  <1>12. JoinedAt(N + 1, ss, q, p)
    BY <1>4, <1>6, <1>7, <1>9, <1>10, <1>11 DEF JoinedAt
  <1> QED BY <1>12 DEF q

\* f joins the first m parts, the first 1, 2, ..., m of them.
Joining(S, ss, m, f) ==
  /\ f \in [1..m -> Seq(S)]
  /\ \A i \in 1..m : f[i] = IF i = 1 THEN ss[i] ELSE f[i - 1] \o ss[i]

\* One more step of the fold that FlattenSeq is.
LEMMA JoiningOne ==
  ASSUME NEW S, NEW N \in Nat, NEW ss \in [1..N -> Seq(S)], NEW m \in Nat, m + 1 <= N, m # 0,
         NEW f, Joining(S, ss, m, f)
  PROVE  \E g : Joining(S, ss, m + 1, g)
  <1> DEFINE g == [i \in 1..(m + 1) |-> IF i = m + 1 THEN f[m] \o ss[m + 1] ELSE f[i]]
  <1>1. f \in [1..m -> Seq(S)] /\ \A i \in 1..m : f[i] = IF i = 1 THEN ss[i] ELSE f[i - 1] \o ss[i]
    BY DEF Joining
  <1>2. f[m] \o ss[m + 1] \in Seq(S)
    <2>1. f[m] \in Seq(S) /\ ss[m + 1] \in Seq(S)
      BY <1>1
    <2> QED BY <2>1, ConcatProperties
  <1>3. g \in [1..(m + 1) -> Seq(S)]
    BY <1>1, <1>2
  <1>4. g[m + 1] = f[m] \o ss[m + 1] /\ \A i \in 1..m : g[i] = f[i]
    <2>1. m + 1 \in 1..(m + 1) /\ \A i \in 1..m : i \in 1..(m + 1) /\ i # m + 1
      OBVIOUS
    <2> QED BY <2>1
  <1> HIDE DEF g
  <1>5. ASSUME NEW i \in 1..(m + 1)
        PROVE  g[i] = IF i = 1 THEN ss[i] ELSE g[i - 1] \o ss[i]
    <2>1. CASE i = m + 1
      <3>1. i # 1 /\ i - 1 = m /\ m \in 1..m
        BY <2>1
      <3> QED BY <1>4, <2>1, <3>1
    <2>2. CASE i # m + 1
      <3>1. i \in 1..m /\ (i # 1 => i - 1 \in 1..m)
        BY <2>2
      <3> QED BY <1>1, <1>4, <3>1
    <2> QED BY <2>1, <2>2
  <1> QED BY <1>3, <1>5 DEF Joining

\* FlattenSeq joins.
LEMMA Flattens ==
  ASSUME NEW S, NEW N \in Nat, NEW ss \in [1..N -> Seq(S)]
  PROVE  /\ FlattenSeq(ss) \in Seq(S)
         /\ \E o : JoinedAt(N, ss, FlattenSeq(ss), o)
  <1>0. Len(ss) = N
    BY LenProperties, IsASeq
  <1>1. CASE N = 0
    <2>1. ss = <<>> /\ FlattenSeq(ss) = ss
      BY <1>0, <1>1, EmptySeq, IsASeq DEF FlattenSeq
    <2>2. JoinedAt(0, ss, <<>>, [k \in 1..1 |-> 0])
      BY EmptySeq DEF JoinedAt
    <2> QED BY <1>1, <2>1, <2>2, EmptySeq
  <1>2. CASE N # 0
    <2>1. ASSUME NEW m \in Nat, m # 0, m <= N
          PROVE  \E f : Joining(S, ss, m, f)
      <3> DEFINE P == {n \in Nat : n + 1 <= N => \E f : Joining(S, ss, n + 1, f)}
      <3>1. 0 \in P
        <4>1. Joining(S, ss, 1, [i \in 1..1 |-> ss[1]])
          BY <1>2 DEF Joining
        <4> QED BY <4>1
      <3>2. ASSUME NEW n \in Nat, n \in P
            PROVE  n + 1 \in P
        <4> SUFFICES ASSUME (n + 1) + 1 <= N
                     PROVE  \E f : Joining(S, ss, (n + 1) + 1, f)
          OBVIOUS
        <4>1. PICK f : Joining(S, ss, n + 1, f)
          BY <3>2
        <4>2. n + 1 \in Nat /\ n + 1 # 0
          OBVIOUS
        <4> QED BY <4>1, <4>2, JoiningOne
      <3>3. Nat \subseteq P
        <4> HIDE DEF P
        <4> QED BY <3>1, <3>2, Induct
      <3>4. m - 1 \in Nat /\ (m - 1) + 1 = m
        BY <2>1
      <3>5. m - 1 \in P
        BY <3>3, <3>4
      <3> QED BY <2>1, <3>4, <3>5
    <2>2. PICK f : Joining(S, ss, N, f)
      BY <1>2, <2>1
    <2> DEFINE flatten == CHOOSE g : g = [i \in 1..Len(ss) |-> IF i = 1 THEN ss[i] ELSE g[i - 1] \o ss[i]]
    <2>3. f = [i \in 1..Len(ss) |-> IF i = 1 THEN ss[i] ELSE f[i - 1] \o ss[i]]
      BY <1>0, <2>2 DEF Joining
    <2>4. flatten = [i \in 1..Len(ss) |-> IF i = 1 THEN ss[i] ELSE flatten[i - 1] \o ss[i]]
      BY <2>3
    <2>5. FlattenSeq(ss) = flatten[N]
      BY <1>0, <1>2 DEF FlattenSeq
    <2> HIDE DEF flatten
    <2>6. \A i \in 1..N : flatten[i] = IF i = 1 THEN ss[i] ELSE flatten[i - 1] \o ss[i]
      BY <1>0, <2>4
    <2> DEFINE Q == {n \in Nat : n + 1 <= N =>
                       /\ flatten[n + 1] \in Seq(S)
                       /\ \E o : JoinedAt(n + 1, ss, flatten[n + 1], o)}
    <2>7. 0 \in Q
      <3> DEFINE o == [k \in 1..2 |-> IF k = 1 THEN 0 ELSE Len(ss[1])]
      <3>1. flatten[1] = ss[1] /\ ss[1] \in Seq(S) /\ Len(ss[1]) \in Nat
        BY <1>2, <2>6, LenProperties
      <3>2. o \in [1..(1 + 1) -> Nat] /\ o[1] = 0 /\ o[2] = Len(ss[1])
        BY <3>1
      <3> HIDE DEF o
      <3>3. \A k \in 1..1 : k = 1 /\ k + 1 = 2
        OBVIOUS
      <3>4. 1 \in 1..1 /\ 1 + 1 = 2
        OBVIOUS
      <3>5. JoinedAt(1, ss, ss[1], o)
        BY <3>1, <3>2, <3>3, <3>4 DEF JoinedAt
      <3> QED BY <3>1, <3>5
    <2>8. ASSUME NEW n \in Nat, n \in Q
          PROVE  n + 1 \in Q
      <3> SUFFICES ASSUME (n + 1) + 1 <= N
                   PROVE  /\ flatten[(n + 1) + 1] \in Seq(S)
                          /\ \E o : JoinedAt((n + 1) + 1, ss, flatten[(n + 1) + 1], o)
        OBVIOUS
      <3>1. n + 1 <= N /\ (n + 1) \in Nat
        OBVIOUS
      <3>2. flatten[n + 1] \in Seq(S)
        BY <2>8, <3>1
      <3>3. PICK o : JoinedAt(n + 1, ss, flatten[n + 1], o)
        BY <2>8, <3>1
      <3>4. (n + 1) + 1 \in 1..N /\ (n + 1) + 1 # 1 /\ ((n + 1) + 1) - 1 = n + 1
        OBVIOUS
      <3>5. flatten[(n + 1) + 1] = flatten[n + 1] \o ss[(n + 1) + 1]
        BY <2>6, <3>4
      <3>6. ss[(n + 1) + 1] \in Seq(S)
        BY <3>4
      <3>7. \A k \in 1..((n + 1) + 1) : ss[k] \in Seq(S)
        BY <3>4
      <3>8. \E p : JoinedAt((n + 1) + 1, ss, flatten[n + 1] \o ss[(n + 1) + 1], p)
        BY <3>1, <3>2, <3>3, <3>7, JoinOne
      <3>9. flatten[n + 1] \o ss[(n + 1) + 1] \in Seq(S)
        BY <3>2, <3>6, ConcatProperties
      <3> QED BY <3>5, <3>8, <3>9
    <2>9. N - 1 \in Q /\ (N - 1) + 1 = N
      <3>1. Nat \subseteq Q
        <4> HIDE DEF Q
        <4> QED BY <2>7, <2>8, Induct
      <3>2. N - 1 \in Nat /\ (N - 1) + 1 = N
        BY <1>2
      <3> QED BY <3>1, <3>2
    <2>10. FlattenSeq(ss) \in Seq(S) /\ \E o : JoinedAt(N, ss, FlattenSeq(ss), o)
      BY <2>5, <2>9
    <2> QED BY <2>10
  <1> QED BY <1>1, <1>2

-----------------------------------------------------------------------------
(* The repair of the calls                                                  *)

\* Message k is the last of its block; id is answered in messages a+1 to k.
Closes(s, k) == k = Len(s) \/ s[k + 1].role = "assistant"
HasAnswer(s, a, k, id) == \E t \in (a + 1)..k : s[t].role = "tool" /\ s[t].id = id

\* What the constructors of messages make.
LEMMA Messages ==
  /\ \A m \in Message : m.role \in Roles /\ m.calls \in Seq(Nat) /\ m.id \in Nat /\ m.body \in Bodies
  /\ \A role \in Roles : Say(role) \in Message /\ Say(role).role = role /\ Say(role).calls = <<>>
                         /\ Say(role).body = "text"
  /\ \A id \in Nat, body \in Bodies :
       /\ Answer(id, body) \in Message /\ Answer(id, body).role = "tool" /\ Answer(id, body).calls = <<>>
       /\ Answer(id, body).id = id /\ Answer(id, body).body = body
  /\ \A ids \in Seq(Nat) : /\ Calling(ids) \in Message /\ Calling(ids).role = "assistant"
                           /\ Calling(ids).calls = ids
  <1>1. <<>> \in Seq(Nat)
    BY EmptySeq
  <1> QED BY <1>1 DEF Message, Roles, Bodies, Say, Answer, Calling

\* What s has not been answered of a's calls.
LEMMA UnansweredIs ==
  ASSUME NEW s \in Seq(Message), NEW a \in 1..Len(s), NEW k \in Nat
  PROVE  LET m == Unanswered(s, a, k) IN
         /\ m \in Seq(Message)
         /\ \A i \in 1..Len(m) : /\ m[i].id \in Calls(s[a]) /\ ~ HasAnswer(s, a, k, m[i].id)
                                 /\ m[i] = Answer(m[i].id, "interrupted")
         /\ \A id \in Calls(s[a]) : HasAnswer(s, a, k, id) \/ \E i \in 1..Len(m) : m[i].id = id
         /\ (\A i, j \in DOMAIN s[a].calls : s[a].calls[i] = s[a].calls[j] => i = j) =>
               \A i, j \in 1..Len(m) : m[i].id = m[j].id => i = j
  <1> DEFINE c == s[a].calls
             N == Len(c)
             Part(i) == IF HasAnswer(s, a, k, c[i]) THEN <<>> ELSE <<Answer(c[i], "interrupted")>>
             ss == [i \in DOMAIN c |-> Part(i)]
             m == Unanswered(s, a, k)
  <1>1. /\ c \in Seq(Nat) /\ N \in Nat /\ DOMAIN c = 1..N
        /\ \A i \in 1..N : c[i] \in Nat
    BY Messages, LenProperties, ElementOfSeq
  <1>2. \A i \in 1..N : /\ Part(i) \in Seq(Message)
                        /\ HasAnswer(s, a, k, c[i]) => Len(Part(i)) = 0
                        /\ ~ HasAnswer(s, a, k, c[i]) => Len(Part(i)) = 1 /\ Part(i)[1] = Answer(c[i], "interrupted")
    <2> TAKE i \in 1..N
    <2> DEFINE x == Answer(c[i], "interrupted")
    <2>1. x \in Message
      BY <1>1, Messages DEF Bodies
    <2>2. <<x>> \in Seq(Message) /\ Len(<<x>>) = 1 /\ <<x>>[1] = x
      <3> HIDE DEF x
      <3> QED BY <2>1
    <2>3. <<>> \in Seq(Message) /\ Len(<<>>) = 0
      BY EmptySeq
    <2>4. CASE HasAnswer(s, a, k, c[i])
      BY <2>3, <2>4
    <2>5. CASE ~ HasAnswer(s, a, k, c[i])
      BY <2>2, <2>5
    <2> QED BY <2>4, <2>5
  <1>3. ss \in [1..N -> Seq(Message)]
    <2>2. \A i \in 1..N : Part(i) \in Seq(Message)
      BY <1>2
    <2> HIDE DEF Part, c
    <2> QED BY <1>1, <2>2
  <1>4. m = FlattenSeq(ss)
    BY DEF Unanswered, HasAnswer
  <1>5. m \in Seq(Message) /\ \E o : JoinedAt(N, ss, m, o)
    <2>1. N \in Nat
      BY <1>1
    <2> HIDE DEF ss, m, N
    <2> QED BY <1>3, <1>4, <2>1, Flattens
  <1>6. PICK o : JoinedAt(N, ss, m, o)
    BY <1>5
  <1>7. Len(m) \in Nat
    BY <1>5, LenProperties
  <1>8. \A i \in 1..N : ss[i] = Part(i)
    BY <1>1
  <1>9. Calls(s[a]) = {c[i] : i \in 1..N}
    BY <1>1 DEF Calls, Range
  <1> HIDE DEF m, c, N, Part, ss
  <1>10. \A i \in 1..N : o[i] \in Nat /\ o[i + 1] \in Nat
    <2>1. N \in Nat /\ o \in [1..(N + 1) -> Nat]
      BY <1>1, <1>6 DEF JoinedAt
    <2> QED BY <2>1
  <1>11. \A i \in 1..N : o[i + 1] = o[i] + Len(Part(i))
    BY <1>6, <1>8 DEF JoinedAt
  <1>12. \A i \in 1..N : ~ HasAnswer(s, a, k, c[i]) => o[i] + 1 \in 1..Len(m) /\ m[o[i] + 1] = Answer(c[i], "interrupted")
    <2> TAKE i \in 1..N
    <2> HAVE ~ HasAnswer(s, a, k, c[i])
    <2>1. Len(Part(i)) = 1 /\ Part(i)[1] = Answer(c[i], "interrupted")
      BY <1>2
    <2>2. 1 \in 1..Len(ss[i]) /\ ss[i] = Part(i)
      <3>1. ss[i] = Part(i)
        BY <1>8
      <3>2. Len(ss[i]) = 1
        BY <2>1, <3>1
      <3> QED BY <3>1, <3>2
    <2>6. \A j \in 1..Len(ss[i]) : m[o[i] + j] = ss[i][j]
      BY <1>6 DEF JoinedAt
    <2>3. m[o[i] + 1] = ss[i][1]
      BY <2>2, <2>6
    <2>4. o[i + 1] = o[i] + 1 /\ o[i + 1] <= Len(m)
      BY <1>6, <1>11, <2>1 DEF JoinedAt
    <2>5. o[i] \in Nat
      BY <1>10
    <2> QED BY <1>7, <2>1, <2>2, <2>3, <2>4, <2>5
  <1>13. \A n \in 1..Len(m) : \E i \in 1..N : ~ HasAnswer(s, a, k, c[i]) /\ n = o[i] + 1
    <2> TAKE n \in 1..Len(m)
    <2>1. PICK i \in 1..N : o[i] < n /\ n <= o[i + 1]
      BY <1>6 DEF JoinedAt
    <2>2. o[i] \in Nat /\ o[i + 1] \in Nat /\ o[i + 1] = o[i] + Len(Part(i))
      BY <1>10, <1>11
    <2>3. CASE HasAnswer(s, a, k, c[i])
      <3>1. o[i + 1] = o[i] + 0
        BY <1>2, <2>2, <2>3
      <3> QED BY <2>1, <2>2, <3>1
    <2>4. CASE ~ HasAnswer(s, a, k, c[i])
      <3>1. o[i + 1] = o[i] + 1
        BY <1>2, <2>2, <2>4
      <3>2. n = o[i] + 1
        BY <1>7, <2>1, <2>2, <3>1
      <3> QED BY <2>4, <3>2
    <2> QED BY <2>3, <2>4
  <1>14. \A n \in 1..Len(m) : \E i \in 1..N : /\ ~ HasAnswer(s, a, k, c[i]) /\ n = o[i] + 1
                                             /\ m[n].id = c[i] /\ m[n] = Answer(c[i], "interrupted")
    <2> TAKE n \in 1..Len(m)
    <2>1. PICK i \in 1..N : ~ HasAnswer(s, a, k, c[i]) /\ n = o[i] + 1
      BY <1>13
    <2>2. c[i] \in Nat /\ "interrupted" \in Bodies
      BY <1>1 DEF Bodies
    <2>3. m[n] = Answer(c[i], "interrupted")
      BY <1>12, <2>1
    <2>4. m[n].id = c[i]
      BY <2>2, <2>3, Messages
    <2> QED BY <2>1, <2>3, <2>4
  <1>15. \A i \in 1..Len(m) : /\ m[i].id \in Calls(s[a]) /\ ~ HasAnswer(s, a, k, m[i].id)
                              /\ m[i] = Answer(m[i].id, "interrupted")
    BY <1>9, <1>14
  <1>16. \A id \in Calls(s[a]) : HasAnswer(s, a, k, id) \/ \E i \in 1..Len(m) : m[i].id = id
    <2> TAKE id \in Calls(s[a])
    <2>1. PICK i \in 1..N : id = c[i]
      BY <1>9
    <2>2. "interrupted" \in Bodies /\ c[i] \in Nat
      BY <1>1 DEF Bodies
    <2>3. Answer(c[i], "interrupted").id = c[i]
      BY <2>2, Messages
    <2>4. CASE ~ HasAnswer(s, a, k, c[i])
      <3>1. o[i] + 1 \in 1..Len(m) /\ m[o[i] + 1].id = id
        BY <1>12, <2>1, <2>3, <2>4
      <3> QED BY <3>1
    <2> QED BY <2>1, <2>4
  <1>17. (\A i, j \in DOMAIN c : c[i] = c[j] => i = j) =>
            \A i, j \in 1..Len(m) : m[i].id = m[j].id => i = j
    BY <1>1, <1>14
  <1> QED BY <1>5, <1>15, <1>16, <1>17 DEF m, c

\* What the repair puts in behind message k.
LEMMA MissedIs ==
  ASSUME NEW s \in Seq(Message), NEW k \in 1..Len(s)
  PROVE  LET m == Missed(s, k)
             a == LastAssistant(s, k)
         IN
         /\ m \in Seq(Message)
         /\ \A i \in 1..Len(m) : /\ a # 0 /\ Closes(s, k)
                                 /\ m[i].id \in Calls(s[a]) /\ ~ HasAnswer(s, a, k, m[i].id)
                                 /\ m[i] = Answer(m[i].id, "interrupted")
         /\ a # 0 /\ Closes(s, k) =>
               \A id \in Calls(s[a]) : HasAnswer(s, a, k, id) \/ \E i \in 1..Len(m) : m[i].id = id
         /\ (a # 0 => \A i, j \in DOMAIN s[a].calls : s[a].calls[i] = s[a].calls[j] => i = j) =>
               \A i, j \in 1..Len(m) : m[i].id = m[j].id => i = j
  <1> DEFINE a == LastAssistant(s, k)
  <1>1. Len(s) \in Nat /\ a \in 0..k
    BY LastAssistantIs, LenProperties
  <1>2. CASE a # 0 /\ Closes(s, k)
    <2>1. Missed(s, k) = Unanswered(s, a, k)
      BY <1>1, <1>2 DEF Missed, Closes, IsAssistant
    <2>2. a \in 1..Len(s) /\ k \in Nat
      BY <1>1, <1>2
    <2> DEFINE m == Unanswered(s, a, k)
    <2>3. /\ m \in Seq(Message)
          /\ \A i \in 1..Len(m) : /\ m[i].id \in Calls(s[a]) /\ ~ HasAnswer(s, a, k, m[i].id)
                                  /\ m[i] = Answer(m[i].id, "interrupted")
          /\ \A id \in Calls(s[a]) : HasAnswer(s, a, k, id) \/ \E i \in 1..Len(m) : m[i].id = id
          /\ (\A i, j \in DOMAIN s[a].calls : s[a].calls[i] = s[a].calls[j] => i = j) =>
                \A i, j \in 1..Len(m) : m[i].id = m[j].id => i = j
      <3> HIDE DEF a
      <3> QED BY <2>2, UnansweredIs
    <2> HIDE DEF a, m
    <2> QED BY <1>2, <2>1, <2>3 DEF a, m
  <1>3. CASE ~ (a # 0 /\ Closes(s, k))
    <2>1. Missed(s, k) = <<>>
      BY <1>1, <1>3 DEF Missed, Closes, IsAssistant
    <2> HIDE DEF a
    <2>2. <<>> \in Seq(Message) /\ Len(<<>>) = 0 /\ \A i \in 1..0 : FALSE
      BY EmptySeq
    <2> QED BY <1>3, <2>1, <2>2 DEF a
  <1> QED BY <1>2, <1>3

\* r is s repaired: message k of s is at e[k], the answers missing at k behind it.
Repaired(s, r, e) ==
  /\ r \in Seq(Message) /\ Len(s) <= Len(r)
  /\ e \in [1..Len(s) -> 1..Len(r)]
  /\ \A k \in 1..Len(s) : k <= e[k] /\ r[e[k]] = s[k]
  /\ \A k, l \in 1..Len(s) : k < l => e[k] + Len(Missed(s, k)) < e[l]
  /\ \A k \in 1..Len(s) : \A i \in 1..Len(Missed(s, k)) :
        e[k] + i \in 1..Len(r) /\ r[e[k] + i] = Missed(s, k)[i]
  /\ \A n \in 1..Len(r) : \E k \in 1..Len(s) : \E i \in 0..Len(Missed(s, k)) : n = e[k] + i

\* A repaired conversation is each message, followed by what it missed.
LEMMA Repairs ==
  ASSUME NEW s \in Seq(Message)
  PROVE  \E e : Repaired(s, sanitize_tool_call_pairing(s), e)
  <1> DEFINE N == Len(s)
             Part(k) == <<s[k]>> \o Missed(s, k)
             ss == [k \in DOMAIN s |-> Part(k)]
             r == sanitize_tool_call_pairing(s)
             L(k) == Len(Missed(s, k))
  <1>1. N \in Nat /\ DOMAIN s = 1..N /\ \A k \in 1..N : s[k] \in Message
    BY LenProperties, ElementOfSeq
  <1>2. ASSUME NEW k \in 1..N
        PROVE  /\ Missed(s, k) \in Seq(Message) /\ L(k) \in Nat
               /\ Part(k) \in Seq(Message) /\ Len(Part(k)) = L(k) + 1 /\ Part(k)[1] = s[k]
               /\ \A i \in 1..L(k) : Part(k)[i + 1] = Missed(s, k)[i]
    <2> DEFINE m == Missed(s, k)
               x == s[k]
    <2>1. m \in Seq(Message) /\ x \in Message
      BY <1>1, MissedIs
    <2> HIDE DEF m, x
    <2>2. <<x>> \in Seq(Message) /\ Len(<<x>>) = 1 /\ <<x>>[1] = x
      BY <2>1
    <2>3. Len(m) \in Nat
      BY <2>1, LenProperties
    <2>4. /\ <<x>> \o m \in Seq(Message) /\ Len(<<x>> \o m) = 1 + Len(m)
          /\ \A i \in 1..(1 + Len(m)) : (<<x>> \o m)[i] = IF i <= 1 THEN <<x>>[i] ELSE m[i - 1]
      BY <2>1, <2>2, ConcatProperties
    <2>5. (<<x>> \o m)[1] = x
      BY <2>2, <2>3, <2>4
    <2>6. \A i \in 1..Len(m) : (<<x>> \o m)[i + 1] = m[i]
      <3> TAKE i \in 1..Len(m)
      <3>1. i + 1 \in 1..(1 + Len(m)) /\ ~ (i + 1 <= 1) /\ (i + 1) - 1 = i
        BY <2>3
      <3> QED BY <2>4, <3>1
    <2>7. Len(<<x>> \o m) = Len(m) + 1
      BY <2>3, <2>4
    <2> QED BY <2>1, <2>3, <2>4, <2>5, <2>6, <2>7 DEF m, x
  <1>3. ss \in [1..N -> Seq(Message)]
    <2>1. \A k \in 1..N : Part(k) \in Seq(Message)
      BY <1>2
    <2> HIDE DEF Part, N
    <2> QED BY <1>1, <2>1
  <1>4. r = FlattenSeq(ss)
    BY DEF sanitize_tool_call_pairing
  <1>5. \A k \in 1..N : ss[k] = Part(k)
    BY <1>1
  <1> HIDE DEF ss, r, N, Part
  <1>6. r \in Seq(Message) /\ \E o : JoinedAt(N, ss, r, o)
    BY <1>1, <1>3, <1>4, Flattens
  <1>7. PICK o : JoinedAt(N, ss, r, o)
    BY <1>6
  <1>8. Len(r) \in Nat
    BY <1>6, LenProperties
  <1>9. /\ o \in [1..(N + 1) -> Nat] /\ o[1] = 0
        /\ \A k \in 1..N : k \in 1..(N + 1) /\ k + 1 \in 1..(N + 1) /\ o[k + 1] = o[k] + Len(ss[k]) /\ o[k + 1] <= Len(r)
    BY <1>1, <1>7 DEF JoinedAt
  <1>10. \A k \in 1..N : /\ o[k] \in Nat /\ o[k + 1] \in Nat /\ L(k) \in Nat
                         /\ o[k + 1] = o[k] + (L(k) + 1) /\ o[k + 1] <= Len(r)
    BY <1>2, <1>5, <1>9
  <1> DEFINE e == [k \in 1..N |-> o[k] + 1]
  <1>11. \A k \in 1..N : e[k] = o[k] + 1
    OBVIOUS
  <1>12. e \in [1..N -> 1..Len(r)]
    <2>1. ASSUME NEW k \in 1..N
          PROVE  o[k] + 1 \in 1..Len(r)
      BY <1>8, <1>10
    <2> QED BY <2>1
  <1> HIDE DEF e, L
  <1>13. \A k \in 1..N : r[e[k]] = s[k] /\ \A i \in 1..L(k) : e[k] + i \in 1..Len(r) /\ r[e[k] + i] = Missed(s, k)[i]
    <2> TAKE k \in 1..N
    <2>1. \A j \in 1..(L(k) + 1) : r[o[k] + j] = Part(k)[j]
      <3>1. \A j \in 1..Len(ss[k]) : r[o[k] + j] = ss[k][j]
        BY <1>7 DEF JoinedAt
      <3>2. ss[k] = Part(k) /\ Len(Part(k)) = L(k) + 1
        BY <1>2, <1>5 DEF L
      <3> QED BY <3>1, <3>2
    <2>2. L(k) \in Nat /\ o[k] \in Nat /\ e[k] = o[k] + 1 /\ o[k + 1] = o[k] + (L(k) + 1) /\ o[k + 1] <= Len(r) /\ o[k + 1] \in Nat
      BY <1>10, <1>11
    <2>3. 1 \in 1..(L(k) + 1)
      BY <2>2
    <2>4. r[e[k]] = s[k]
      BY <1>2, <2>1, <2>2, <2>3
    <2>5. ASSUME NEW i \in 1..L(k)
          PROVE  e[k] + i \in 1..Len(r) /\ r[e[k] + i] = Missed(s, k)[i]
      <3>0. i \in Nat /\ 1 <= i /\ i <= L(k)
        BY <2>2
      <3>1. i + 1 \in 1..(L(k) + 1) /\ e[k] + i = o[k] + (i + 1)
        <4> DEFINE l == L(k)
        <4>1. l \in Nat /\ i <= l
          BY <2>2, <3>0
        <4> HIDE DEF l
        <4>2. i + 1 \in 1..(l + 1)
          BY <3>0, <4>1
        <4> QED BY <2>2, <3>0, <4>2 DEF l
      <3>2. r[o[k] + (i + 1)] = Part(k)[i + 1]
        BY <2>1, <3>1
      <3>3. Part(k)[i + 1] = Missed(s, k)[i]
        BY <1>2 DEF L
      <3>4. e[k] + i \in 1..Len(r)
        BY <1>8, <2>2
      <3> QED BY <3>1, <3>2, <3>3, <3>4
    <2> QED BY <2>4, <2>5
  <1>14. \A n \in 1..Len(r) : \E k \in 1..N : \E i \in 0..L(k) : n = e[k] + i
    <2> TAKE n \in 1..Len(r)
    <2>1. PICK k \in 1..N : o[k] < n /\ n <= o[k + 1]
      BY <1>7 DEF JoinedAt
    <2>2. n - e[k] \in 0..L(k) /\ n = e[k] + (n - e[k])
      BY <1>10, <1>11, <2>1
    <2> QED BY <2>2
  <1>15. \A k \in 1..N : \A l \in 1..N : k < l => o[k + 1] <= o[l]
    <2> TAKE k \in 1..N
    <2> DEFINE P == {j \in Nat : k + 1 + j <= N => o[k + 1] <= o[k + 1 + j]}
    <2>1. 0 \in P
      BY <1>10
    <2>2. ASSUME NEW j \in Nat, j \in P
          PROVE  j + 1 \in P
      <3> SUFFICES ASSUME k + 1 + (j + 1) <= N
                   PROVE  o[k + 1] <= o[k + 1 + (j + 1)]
        OBVIOUS
      <3>1. k + 1 + j \in 1..N /\ (k + 1 + j) + 1 = k + 1 + (j + 1)
        BY <1>1
      <3>2. o[k + 1] <= o[k + 1 + j]
        BY <1>1, <2>2
      <3>3. o[(k + 1 + j) + 1] = o[k + 1 + j] + (L(k + 1 + j) + 1) /\ L(k + 1 + j) \in Nat /\ o[k + 1 + j] \in Nat
        BY <1>10, <3>1
      <3> DEFINE x == o[k + 1 + j]
                 l == L(k + 1 + j)
                 y == o[k + 1]
                 z == o[(k + 1 + j) + 1]
      <3>4. x \in Nat /\ l \in Nat /\ y \in Nat /\ y <= x /\ z = x + (l + 1)
        BY <1>10, <3>2, <3>3
      <3> HIDE DEF x, l, y, z
      <3>5. y <= z
        BY <3>4
      <3> QED BY <3>1, <3>5 DEF y, z
    <2>3. Nat \subseteq P
      <3> HIDE DEF P
      <3> QED BY <2>1, <2>2, Induct
    <2> TAKE l \in 1..N
    <2> HAVE k < l
    <2>4. l - (k + 1) \in Nat /\ k + 1 + (l - (k + 1)) = l /\ k + 1 + (l - (k + 1)) <= N
      BY <1>1
    <2> QED BY <2>3, <2>4
  <1>16. \A k, l \in 1..N : k < l => e[k] + L(k) < e[l]
    <2> TAKE k, l \in 1..N
    <2> HAVE k < l
    <2>1. o[k + 1] <= o[l] /\ o[k + 1] = o[k] + (L(k) + 1) /\ o[k] \in Nat /\ L(k) \in Nat /\ o[l] \in Nat
      BY <1>10, <1>15
    <2> QED BY <1>11, <2>1
  <1>17. \A k \in 1..N : k <= e[k]
    <2> DEFINE P == {j \in Nat : j + 1 <= N => j <= o[j + 1]}
    <2>1. 0 \in P
      BY <1>9
    <2>2. ASSUME NEW j \in Nat, j \in P
          PROVE  j + 1 \in P
      <3> SUFFICES ASSUME (j + 1) + 1 <= N
                   PROVE  j + 1 <= o[(j + 1) + 1]
        OBVIOUS
      <3>1. j + 1 \in 1..N /\ j <= o[j + 1]
        BY <1>1, <2>2
      <3> QED BY <1>10, <3>1
    <2>3. Nat \subseteq P
      <3> HIDE DEF P
      <3> QED BY <2>1, <2>2, Induct
    <2> TAKE k \in 1..N
    <2>4. k - 1 \in P /\ (k - 1) + 1 = k
      BY <1>1, <2>3
    <2>5. k - 1 <= o[k] /\ o[k] \in Nat
      BY <1>1, <1>10, <2>4
    <2> QED BY <1>11, <2>5
  <1>18. N <= Len(r)
    <2>1. CASE N = 0
      BY <1>8, <2>1
    <2>2. CASE N # 0
      <3>1. N \in 1..N
        BY <1>1, <2>2
      <3>2. N <= e[N] /\ e[N] \in 1..Len(r)
        BY <1>12, <1>17, <3>1
      <3> QED BY <1>1, <1>8, <3>2
    <2> QED BY <2>1, <2>2
  <1> QED BY <1>6, <1>12, <1>13, <1>14, <1>16, <1>17, <1>18 DEF Repaired, r, N, L

\* Place n of the repaired sequence belongs to message k; it holds an answer added there.
At(s, e, k, n) == /\ k \in 1..Len(s) /\ e[k] <= n
                  /\ \A l \in 1..Len(s) : k < l => n < e[l]
Added(s, r, k, n) ==
  LET a == LastAssistant(s, k) IN
  /\ a # 0 /\ Closes(s, k)
  /\ r[n].id \in Calls(s[a]) /\ ~ HasAnswer(s, a, k, r[n].id)
  /\ r[n] = Answer(r[n].id, "interrupted")

\* Each message has a place in the repaired conversation, in their order.
LEMMA RepairedPlaces ==
  ASSUME NEW s \in Seq(Message), NEW r, NEW e, Repaired(s, r, e)
  PROVE  /\ Len(s) \in Nat /\ Len(r) \in Nat
         /\ \A k \in 1..Len(s) : e[k] \in 1..Len(r) /\ k <= e[k] /\ r[e[k]] = s[k] /\ At(s, e, k, e[k])
         /\ \A k, l \in 1..Len(s) : k < l => e[k] < e[l]
         /\ \A n \in 1..Len(r) : \E k \in 1..Len(s) : At(s, e, k, n) /\ (n = e[k] \/ Added(s, r, k, n))
         /\ \A k \in 1..Len(s) : LastAssistant(s, k) # 0 /\ Closes(s, k) =>
               \A id \in Calls(s[LastAssistant(s, k)]) :
                  \/ HasAnswer(s, LastAssistant(s, k), k, id)
                  \/ \E n \in 1..Len(r) : At(s, e, k, n) /\ Added(s, r, k, n) /\ r[n].id = id
  <1> DEFINE N == Len(s)
             L(k) == Len(Missed(s, k))
  <1>1. N \in Nat /\ Len(r) \in Nat /\ \A k \in 1..N : L(k) \in Nat
    BY MissedIs, LenProperties DEF Repaired
  <1>2. /\ \A k \in 1..N : e[k] \in 1..Len(r) /\ k <= e[k] /\ r[e[k]] = s[k]
        /\ \A k, l \in 1..N : k < l => e[k] + L(k) < e[l]
        /\ \A k \in 1..N : \A i \in 1..L(k) : e[k] + i \in 1..Len(r) /\ r[e[k] + i] = Missed(s, k)[i]
        /\ \A n \in 1..Len(r) : \E k \in 1..N : \E i \in 0..L(k) : n = e[k] + i
    BY DEF Repaired
  <1> HIDE DEF L
  <1>3. \A k \in 1..N : \A i \in 0..L(k) : At(s, e, k, e[k] + i)
    <2> TAKE k \in 1..N
    <2> TAKE i \in 0..L(k)
    <2> DEFINE x == e[k]
               m == L(k)
    <2>1. x \in Nat /\ i \in Nat /\ m \in Nat /\ i <= m
      BY <1>1, <1>2
    <2>2. \A l \in 1..N : k < l => x + m < e[l] /\ e[l] \in Nat
      BY <1>2
    <2> HIDE DEF x, m
    <2>3. x <= x + i /\ \A l \in 1..N : k < l => x + i < e[l]
      BY <2>1, <2>2
    <2> QED BY <2>3 DEF At, x
  <1>4. \A k \in 1..N : At(s, e, k, e[k])
    <2> TAKE k \in 1..N
    <2>1. 0 \in 0..L(k) /\ e[k] + 0 = e[k]
      BY <1>1, <1>2
    <2> QED BY <1>3, <2>1
  <1>5. \A k, l \in 1..N : k < l => e[k] < e[l]
    BY <1>4 DEF At
  <1>6. \A k \in 1..N : \A i \in 1..L(k) : Added(s, r, k, e[k] + i) /\ r[e[k] + i].id = Missed(s, k)[i].id
    <2> TAKE k \in 1..N
    <2> TAKE i \in 1..L(k)
    <2>1. r[e[k] + i] = Missed(s, k)[i]
      BY <1>2
    <2> DEFINE m == Missed(s, k)
               a == LastAssistant(s, k)
    <2>2. /\ a # 0 /\ Closes(s, k)
          /\ m[i].id \in Calls(s[a]) /\ ~ HasAnswer(s, a, k, m[i].id)
          /\ m[i] = Answer(m[i].id, "interrupted")
      BY MissedIs DEF L
    <2> QED BY <2>1, <2>2 DEF Added
  <1>7. \A n \in 1..Len(r) : \E k \in 1..N : At(s, e, k, n) /\ (n = e[k] \/ Added(s, r, k, n))
    <2> TAKE n \in 1..Len(r)
    <2>1. PICK k \in 1..N : \E i \in 0..L(k) : n = e[k] + i
      BY <1>2
    <2>2. PICK i \in 0..L(k) : n = e[k] + i
      BY <2>1
    <2>3. CASE i = 0
      <3>1. n = e[k]
        BY <1>2, <2>2, <2>3
      <3> QED BY <1>4, <3>1
    <2>4. CASE i # 0
      <3>1. i \in 1..L(k)
        BY <1>1, <2>4
      <3> QED BY <1>3, <1>6, <2>2, <3>1
    <2> QED BY <2>3, <2>4
  <1>8. ASSUME NEW k \in 1..N, LastAssistant(s, k) # 0 /\ Closes(s, k), NEW id \in Calls(s[LastAssistant(s, k)]),
               ~ HasAnswer(s, LastAssistant(s, k), k, id)
        PROVE  \E n \in 1..Len(r) : At(s, e, k, n) /\ Added(s, r, k, n) /\ r[n].id = id
    <2>1. PICK i \in 1..L(k) : Missed(s, k)[i].id = id
      BY <1>8, MissedIs DEF L
    <2>2. i \in 0..L(k)
      BY <1>1
    <2>3. e[k] + i \in 1..Len(r)
      BY <1>2
    <2> QED BY <1>3, <1>6, <2>1, <2>2, <2>3
  <1> HIDE DEF N
  <1> QED BY <1>1, <1>2, <1>4, <1>5, <1>7, <1>8 DEF N

\* A place belongs to one message.
LEMMA AtOne ==
  ASSUME NEW s \in Seq(Message), NEW r, NEW e, Repaired(s, r, e), NEW n \in 1..Len(r),
         NEW k, At(s, e, k, n), NEW l, At(s, e, l, n)
  PROVE  k = l
  <1>1. k \in 1..Len(s) /\ l \in 1..Len(s) /\ Len(s) \in Nat /\ e[k] \in Nat /\ e[l] \in Nat
    BY RepairedPlaces DEF At
  <1>2. ~ (k < l) /\ ~ (l < k)
    BY <1>1 DEF At
  <1> QED BY <1>1, <1>2

\* Blocks stay blocks.
LEMMA RepairedLast ==
  ASSUME NEW s \in Seq(Message), NEW r, NEW e, Repaired(s, r, e), NEW n \in 1..Len(r),
         NEW k, At(s, e, k, n)
  PROVE  LET a == LastAssistant(s, k) IN
         /\ a = 0 => LastAssistant(r, n) = 0
         /\ a # 0 => a \in 1..k /\ s[a].role = "assistant" /\ LastAssistant(r, n) = e[a]
  <1> DEFINE a == LastAssistant(s, k)
  <1>1. k \in 1..Len(s) /\ Len(s) \in Nat /\ n \in Nat
    BY RepairedPlaces DEF At
  <1>2. /\ a \in 0..k
        /\ a = 0 => \A i \in 1..k : s[i].role # "assistant"
        /\ a # 0 => s[a].role = "assistant" /\ \A i \in (a + 1)..k : s[i].role # "assistant"
    BY <1>1, LastAssistantIs
  <1> HIDE DEF a
  <1>3. ASSUME NEW i \in 1..n, r[i].role = "assistant"
        PROVE  \E l \in 1..k : i = e[l] /\ l <= a
    <2>1. i \in 1..Len(r)
      BY <1>1, RepairedPlaces
    <2>2. PICK l \in 1..Len(s) : At(s, e, l, i) /\ (i = e[l] \/ Added(s, r, l, i))
      BY <2>1, RepairedPlaces
    <2>3. ~ Added(s, r, l, i)
      BY <1>3 DEF Added, Answer
    <2>4. i = e[l] /\ r[i] = s[l]
      BY <2>2, <2>3, RepairedPlaces
    <2>5. ~ (k < l)
      <3>1. k < l => n < e[l]
        BY DEF At
      <3>2. e[l] \in Nat
        BY RepairedPlaces
      <3> QED BY <1>1, <2>4, <3>1, <3>2
    <2>6. l \in 1..k /\ s[l].role = "assistant"
      BY <1>1, <1>3, <2>4, <2>5
    <2>7. l <= a
      BY <1>1, <1>2, <2>6
    <2> QED BY <2>4, <2>6, <2>7
  <1>4. CASE a = 0
    <2>1. \A i \in (0 + 1)..n : r[i].role # "assistant"
      BY <1>3, <1>4
    <2>2. LastAssistant(r, n) = 0
      BY <1>1, <2>1, LastIsOnly
    <2> QED BY <1>4, <2>2 DEF a
  <1>5. CASE a # 0
    <2>1. a \in 1..k /\ a \in 1..Len(s)
      BY <1>1, <1>2, <1>5
    <2>2. e[a] \in Nat /\ e[a] <= n /\ 1 <= e[a] /\ r[e[a]].role = "assistant"
      <3>1. e[a] \in 1..Len(r) /\ r[e[a]] = s[a] /\ e[k] \in 1..Len(r) /\ (a < k => e[a] < e[k])
        BY <1>1, <2>1, RepairedPlaces
      <3>2. e[k] <= n
        BY DEF At
      <3>3. e[a] \in Nat /\ e[k] \in Nat
        BY <3>1
      <3>4. e[a] <= n
        BY <1>1, <2>1, <3>1, <3>2, <3>3
      <3> QED BY <1>2, <1>5, <3>1, <3>3, <3>4
    <2>3. \A i \in (e[a] + 1)..n : r[i].role # "assistant"
      <3> SUFFICES ASSUME NEW i \in (e[a] + 1)..n, r[i].role = "assistant"
                   PROVE  FALSE
        OBVIOUS
      <3>1. i \in 1..n
        BY <2>2
      <3>2. PICK l \in 1..k : i = e[l] /\ l <= a
        BY <1>3, <3>1
      <3>3. l \in 1..Len(s) /\ e[l] \in Nat /\ (l < a => e[l] < e[a])
        BY <1>1, <2>1, RepairedPlaces
      <3> QED BY <2>1, <2>2, <3>2, <3>3
    <2>4. e[a] \in 0..n
      BY <1>1, <2>2
    <2>5. LastAssistant(r, n) = e[a]
      BY <1>1, <2>2, <2>3, <2>4, LastIsOnly
    <2> QED BY <1>2, <1>5, <2>1, <2>5 DEF a
  <1> QED BY <1>4, <1>5

-----------------------------------------------------------------------------
(* Sound conversations                                                      *)

\* Only assistants call, and what they called so far; no two calls are the same; a
\* result answers a call of its own block; but for those in C a call has one result;
\* a user speaks first.
Callers(s, n) == \A k \in 1..Len(s) : \A id \in Calls(s[k]) : s[k].role = "assistant" /\ id \in 1..n
CallsOnce(s) ==
  \A k, l \in 1..Len(s) : \A i \in DOMAIN s[k].calls, j \in DOMAIN s[l].calls :
     s[k].calls[i] = s[l].calls[j] => k = l /\ i = j
InBlock(s) ==
  \A t \in 1..Len(s) : s[t].role = "tool" =>
     LastAssistant(s, t) # 0 /\ s[t].id \in Calls(s[LastAssistant(s, t)])
AnsweredOnce(s, C) ==
  \A t, u \in 1..Len(s) :
     s[t].role = "tool" /\ s[u].role = "tool" /\ s[t].id = s[u].id /\ s[t].id \notin C => t = u
UserFirst(s) == \A k \in 1..Len(s) : s[k].role = "system" \/ \E j \in 1..k : s[j].role = "user"
Sound(s, C, n) ==
  /\ s \in Seq(Message)
  /\ Callers(s, n) /\ CallsOnce(s) /\ InBlock(s) /\ AnsweredOnce(s, C) /\ UserFirst(s)

\* A call has one caller.
LEMMA OneCaller ==
  ASSUME NEW s, CallsOnce(s), NEW k \in 1..Len(s), NEW l \in 1..Len(s),
         NEW id, id \in Calls(s[k]), id \in Calls(s[l])
  PROVE  k = l
  <1>1. PICK i \in DOMAIN s[k].calls : s[k].calls[i] = id
    BY DEF Calls, Range
  <1>2. PICK j \in DOMAIN s[l].calls : s[l].calls[j] = id
    BY DEF Calls, Range
  <1> QED BY <1>1, <1>2 DEF CallsOnce

\* Only an assistant message makes calls.
LEMMA NoCalls ==
  ASSUME NEW m, m.calls = <<>>
  PROVE  Calls(m) = {} /\ DOMAIN m.calls = {}
  BY DEF Calls, Range

\* The caller of a result of a sound conversation is the last assistant message.
LEMMA BlockOf ==
  ASSUME NEW s \in Seq(Message), InBlock(s), NEW t \in 1..Len(s), s[t].role = "tool"
  PROVE  LET a == LastAssistant(s, t) IN
         /\ a \in 1..Len(s) /\ a \in 1..(t - 1) /\ a < t /\ s[a].role = "assistant"
         /\ s[t].id \in Calls(s[a])
         /\ \A i \in (a + 1)..t : s[i].role # "assistant"
  <1> DEFINE a == LastAssistant(s, t)
  <1>1. t \in Nat /\ Len(s) \in Nat /\ t <= Len(s)
    BY LenProperties
  <1>2. a \in 0..t /\ a # 0 /\ s[a].role = "assistant" /\ \A i \in (a + 1)..t : s[i].role # "assistant"
    BY <1>1, LastAssistantIs DEF InBlock
  <1>3. s[t].id \in Calls(s[a])
    BY DEF InBlock
  <1>4. a # t
    BY <1>2
  <1> HIDE DEF a
  <1>5. a \in 1..Len(s) /\ a \in 1..(t - 1) /\ a < t
    BY <1>1, <1>2, <1>4
  <1> QED BY <1>2, <1>3, <1>5 DEF a

\* An added answer is not at the place of a message.
LEMMA AddedIsNew ==
  ASSUME NEW s \in Seq(Message), NEW r, NEW e, Repaired(s, r, e), NEW k \in 1..Len(s)
  PROVE  ~ Added(s, r, k, e[k])
  <1> SUFFICES ASSUME Added(s, r, k, e[k])
               PROVE  FALSE
    OBVIOUS
  <1> DEFINE a == LastAssistant(s, k)
  <1>1. a # 0 /\ ~ HasAnswer(s, a, k, r[e[k]].id) /\ r[e[k]].role = "tool"
    BY DEF Added, Answer
  <1>2. r[e[k]] = s[k] /\ k \in Nat
    BY RepairedPlaces
  <1>3. a \in 0..k /\ s[a].role = "assistant"
    BY <1>1, <1>2, LastAssistantIs
  <1>4. a # k
    BY <1>1, <1>2, <1>3
  <1> HIDE DEF a
  <1>5. k \in (a + 1)..k
    BY <1>2, <1>3, <1>4
  <1> QED BY <1>1, <1>2, <1>5 DEF HasAnswer

\* A call whose block is closed at k has no result behind k.
LEMMA ClosedBehind ==
  ASSUME NEW s \in Seq(Message), NEW k \in 1..Len(s), Closes(s, k), LastAssistant(s, k) # 0,
         NEW l \in 1..Len(s), LastAssistant(s, l) = LastAssistant(s, k)
  PROVE  l <= k
  <1> SUFFICES ASSUME k < l
               PROVE  FALSE
    BY LenProperties
  <1> DEFINE a == LastAssistant(s, k)
  <1>1. Len(s) \in Nat /\ k + 1 \in 1..l /\ s[k + 1].role = "assistant"
    BY LenProperties DEF Closes
  <1>2. a \in 0..k /\ \A i \in (a + 1)..l : s[i].role # "assistant"
    BY <1>1, LastAssistantIs
  <1> HIDE DEF a
  <1>3. k + 1 \in (a + 1)..l
    BY <1>1, <1>2
  <1> QED BY <1>1, <1>2, <1>3

\* The repair answers a call that has no result, and answers it once.
LEMMA AddedOnce ==
  ASSUME NEW s \in Seq(Message), CallsOnce(s), InBlock(s), NEW r, NEW e, Repaired(s, r, e),
         NEW n \in 1..Len(r), NEW k, At(s, e, k, n), Added(s, r, k, n)
  PROVE  /\ \A l \in 1..Len(s) : s[l].role = "tool" => s[l].id # r[n].id
         /\ \A p \in 1..Len(r) : \A l : At(s, e, l, p) /\ Added(s, r, l, p) /\ r[p].id = r[n].id => p = n
  <1> DEFINE a == LastAssistant(s, k)
             id == r[n].id
  <1>1. k \in 1..Len(s) /\ Len(s) \in Nat /\ k \in Nat
    BY LenProperties DEF At
  <1>2. a # 0 /\ Closes(s, k) /\ id \in Calls(s[a]) /\ ~ HasAnswer(s, a, k, id)
    BY DEF Added
  <1>3. a \in 1..Len(s) /\ a \in 0..k
    <2>1. a \in 0..k
      BY <1>1, LastAssistantIs
    <2> HIDE DEF a
    <2> QED BY <1>1, <1>2, <2>1
  <1>4. ASSUME NEW l \in 1..Len(s), s[l].role = "tool", s[l].id = id
        PROVE  FALSE
    <2> DEFINE b == LastAssistant(s, l)
    <2>1. b \in 1..Len(s) /\ b < l /\ s[l].id \in Calls(s[b])
      BY <1>4, BlockOf
    <2>2. b = a
      BY <1>2, <1>3, <1>4, <2>1, OneCaller
    <2>3. l <= k
      BY <1>1, <1>2, <2>2, ClosedBehind
    <2> HIDE DEF a, b
    <2>4. l \in (a + 1)..k
      BY <1>1, <1>3, <2>1, <2>2, <2>3
    <2> QED BY <1>2, <1>4, <2>4 DEF HasAnswer
  <1>5. ASSUME NEW p \in 1..Len(r), NEW l, At(s, e, l, p), Added(s, r, l, p), r[p].id = id
        PROVE  p = n
    <2> DEFINE b == LastAssistant(s, l)
    <2>1. l \in 1..Len(s) /\ b # 0 /\ Closes(s, l) /\ id \in Calls(s[b])
      BY <1>5 DEF Added, At
    <2>2. b \in 1..Len(s)
      <3>1. b \in 0..l /\ l \in Nat
        BY <1>1, <2>1, LastAssistantIs
      <3> HIDE DEF b
      <3> QED BY <1>1, <2>1, <3>1
    <2>3. b = a
      BY <1>2, <1>3, <2>1, <2>2, OneCaller
    <2>4. l <= k /\ k <= l
      BY <1>1, <1>2, <2>1, <2>3, ClosedBehind
    <2>5. l = k
      BY <1>1, <2>1, <2>4
    <2>6. \A i, j \in DOMAIN s[a].calls : s[a].calls[i] = s[a].calls[j] => i = j
      BY <1>3 DEF CallsOnce
    <2> DEFINE m == Missed(s, k)
    <2>7. \A i, j \in 1..Len(m) : m[i].id = m[j].id => i = j
      BY <1>1, <2>6, MissedIs
    <2>8. Len(m) \in Nat /\ e[k] \in Nat
      BY <1>1, MissedIs, LenProperties, RepairedPlaces
    <2>9. ASSUME NEW q \in 1..Len(r), At(s, e, k, q), Added(s, r, k, q)
          PROVE  \E i \in 1..Len(m) : q = e[k] + i /\ m[i] = r[q]
      <3>0. PICK h \in 1..Len(s) : \E i \in 0..Len(Missed(s, h)) : q = e[h] + i
        BY DEF Repaired
      <3>1. PICK i \in 0..Len(Missed(s, h)) : q = e[h] + i
        BY <3>0
      <3>2. At(s, e, h, q)
        <4>1. Len(Missed(s, h)) \in Nat /\ e[h] \in Nat
          BY MissedIs, LenProperties, RepairedPlaces
        <4>2. \A g \in 1..Len(s) : h < g => e[h] + Len(Missed(s, h)) < e[g] /\ e[g] \in Nat
          <5>1. \A g \in 1..Len(s) : e[g] \in Nat
            BY RepairedPlaces
          <5>2. \A g \in 1..Len(s) : h < g => e[h] + Len(Missed(s, h)) < e[g]
            BY DEF Repaired
          <5> QED BY <5>1, <5>2
        <4> DEFINE x == e[h]
                   z == Len(Missed(s, h))
        <4> HIDE DEF x, z
        <4>3. x \in Nat /\ z \in Nat /\ i \in 0..z /\ q = x + i /\ \A g \in 1..Len(s) : h < g => x + z < e[g] /\ e[g] \in Nat
          BY <3>1, <4>1, <4>2 DEF x, z
        <4>4. x <= q /\ \A g \in 1..Len(s) : h < g => q < e[g]
          BY <4>3
        <4> QED BY <4>4 DEF At, x
      <3>3. h = k
        BY <2>9, <3>2, AtOne
      <3>4. i # 0
        <4>1. i = 0 => q = e[k]
          BY <2>8, <3>1, <3>3
        <4> QED BY <1>1, <2>9, <4>1, AddedIsNew
      <3>5. i \in 1..Len(m)
        BY <2>8, <3>1, <3>3, <3>4
      <3> QED BY <1>1, <3>1, <3>3, <3>5 DEF Repaired
    <2>10. PICK i \in 1..Len(m) : n = e[k] + i /\ m[i] = r[n]
      BY <2>9
    <2>11. PICK j \in 1..Len(m) : p = e[k] + j /\ m[j] = r[p]
      BY <1>5, <2>5, <2>9
    <2>12. i = j
      BY <1>5, <2>7, <2>10, <2>11
    <2> QED BY <2>10, <2>11, <2>12
  <1> QED BY <1>4, <1>5

\* What stands at a place of the repaired sequence.
LEMMA Stands ==
  ASSUME NEW s \in Seq(Message), NEW r, NEW e, Repaired(s, r, e), NEW n \in 1..Len(r)
  PROVE  \E k \in 1..Len(s) :
            /\ At(s, e, k, n)
            /\ \/ n = e[k] /\ r[n] = s[k]
               \/ Added(s, r, k, n) /\ r[n].role = "tool" /\ r[n].calls = <<>> /\ r[n].body = "interrupted"
  <1>1. PICK k \in 1..Len(s) : At(s, e, k, n) /\ (n = e[k] \/ Added(s, r, k, n))
    BY RepairedPlaces
  <1>2. r[e[k]] = s[k]
    BY RepairedPlaces
  <1>3. Added(s, r, k, n) => r[n].role = "tool" /\ r[n].calls = <<>> /\ r[n].body = "interrupted"
    BY DEF Added, Answer
  <1> QED BY <1>1, <1>2, <1>3

\* The repair keeps a conversation sound.
LEMMA RepairKeeps ==
  ASSUME NEW s, NEW C, NEW n, Sound(s, C, n), NEW r, NEW e, Repaired(s, r, e)
  PROVE  Sound(r, C, n)
  <1>0. /\ s \in Seq(Message) /\ Callers(s, n) /\ CallsOnce(s) /\ InBlock(s) /\ AnsweredOnce(s, C)
        /\ UserFirst(s)
    BY DEF Sound
  <1>1. r \in Seq(Message) /\ Len(r) \in Nat /\ Len(s) \in Nat
    BY <1>0, LenProperties DEF Repaired
  <1>2. Callers(r, n)
    <2> SUFFICES ASSUME NEW p \in 1..Len(r), NEW id \in Calls(r[p])
                 PROVE  r[p].role = "assistant" /\ id \in 1..n
      BY DEF Callers
    <2>1. r[p].calls # <<>>
      BY NoCalls
    <2>2. PICK k \in 1..Len(s) : r[p] = s[k]
      BY <1>0, <2>1, Stands
    <2> QED BY <1>0, <2>2 DEF Callers
  <1>3. CallsOnce(r)
    <2> SUFFICES ASSUME NEW p \in 1..Len(r), NEW q \in 1..Len(r),
                        NEW i \in DOMAIN r[p].calls, NEW j \in DOMAIN r[q].calls,
                        r[p].calls[i] = r[q].calls[j]
                 PROVE  p = q /\ i = j
      BY DEF CallsOnce
    <2>1. r[p].calls # <<>> /\ r[q].calls # <<>>
      BY NoCalls
    <2>2. PICK k \in 1..Len(s) : p = e[k] /\ r[p] = s[k]
      BY <1>0, <2>1, Stands
    <2>3. PICK l \in 1..Len(s) : q = e[l] /\ r[q] = s[l]
      BY <1>0, <2>1, Stands
    <2>4. k = l /\ i = j
      BY <1>0, <2>2, <2>3 DEF CallsOnce
    <2> QED BY <2>2, <2>3, <2>4
  <1>4. InBlock(r)
    <2> SUFFICES ASSUME NEW t \in 1..Len(r), r[t].role = "tool"
                 PROVE  LastAssistant(r, t) # 0 /\ r[t].id \in Calls(r[LastAssistant(r, t)])
      BY DEF InBlock
    <2>1. PICK k \in 1..Len(s) : At(s, e, k, t) /\ ((t = e[k] /\ r[t] = s[k]) \/ Added(s, r, k, t))
      BY <1>0, Stands
    <2> DEFINE a == LastAssistant(s, k)
    <2>2. a # 0 /\ r[t].id \in Calls(s[a])
      <3>1. CASE t = e[k] /\ r[t] = s[k]
        BY <1>0, <3>1 DEF InBlock
      <3>2. CASE Added(s, r, k, t)
        BY <3>2 DEF Added
      <3> QED BY <2>1, <3>1, <3>2
    <2>3. a \in 1..k /\ LastAssistant(r, t) = e[a]
      BY <1>0, <2>1, <2>2, RepairedLast
    <2> HIDE DEF a
    <2>4. a \in 1..Len(s)
      BY <1>1, <2>3
    <2>5. r[e[a]] = s[a] /\ e[a] \in 1..Len(r)
      BY <1>0, <2>4, RepairedPlaces
    <2> QED BY <1>1, <2>2, <2>3, <2>5
  <1>5. AnsweredOnce(r, C)
    <2> SUFFICES ASSUME NEW t \in 1..Len(r), NEW u \in 1..Len(r), r[t].role = "tool", r[u].role = "tool",
                        r[t].id = r[u].id, r[t].id \notin C
                 PROVE  t = u
      BY DEF AnsweredOnce
    <2>1. PICK k \in 1..Len(s) : At(s, e, k, t) /\ ((t = e[k] /\ r[t] = s[k]) \/ Added(s, r, k, t))
      BY <1>0, Stands
    <2>2. PICK l \in 1..Len(s) : At(s, e, l, u) /\ ((u = e[l] /\ r[u] = s[l]) \/ Added(s, r, l, u))
      BY <1>0, Stands
    <2>3. CASE Added(s, r, k, t)
      BY <1>0, <2>1, <2>2, <2>3, AddedOnce
    <2>4. CASE Added(s, r, l, u)
      BY <1>0, <2>1, <2>2, <2>4, AddedOnce
    <2>5. CASE t = e[k] /\ r[t] = s[k] /\ u = e[l] /\ r[u] = s[l]
      <3>1. k = l
        BY <1>0, <2>5 DEF AnsweredOnce
      <3> QED BY <2>5, <3>1
    <2> QED BY <2>1, <2>2, <2>3, <2>4, <2>5
  <1>6. UserFirst(r)
    <2>1. ASSUME NEW k \in 1..Len(s), NEW p \in 1..Len(r), At(s, e, k, p), NEW j \in 1..k, s[j].role = "user"
          PROVE  \E i \in 1..p : r[i].role = "user"
      <3>1. j \in 1..Len(s)
        BY <1>1
      <3>2. e[j] \in 1..Len(r) /\ r[e[j]] = s[j] /\ e[k] \in 1..Len(r) /\ (j < k => e[j] < e[k])
        BY <1>0, <3>1, RepairedPlaces
      <3>3. e[k] <= p
        BY <2>1 DEF At
      <3>4. e[j] \in Nat /\ e[k] \in Nat /\ 1 <= e[j]
        BY <1>1, <3>2
      <3>5. e[j] <= e[k]
        BY <1>1, <3>2, <3>4
      <3>6. e[j] \in 1..p
        BY <1>1, <3>3, <3>4, <3>5
      <3> QED BY <2>1, <3>2, <3>6
    <2> SUFFICES ASSUME NEW p \in 1..Len(r), r[p].role # "system"
                 PROVE  \E i \in 1..p : r[i].role = "user"
      BY DEF UserFirst
    <2>2. PICK k \in 1..Len(s) : At(s, e, k, p) /\ ((p = e[k] /\ r[p] = s[k]) \/ Added(s, r, k, p))
      BY <1>0, Stands
    <2>3. CASE p = e[k] /\ r[p] = s[k]
      <3>1. PICK j \in 1..k : s[j].role = "user"
        BY <1>0, <2>3 DEF UserFirst
      <3> QED BY <2>1, <2>2, <3>1
    <2>4. CASE Added(s, r, k, p)
      <3> DEFINE a == LastAssistant(s, k)
      <3>1. a \in 0..k /\ a # 0 /\ s[a].role = "assistant"
        BY <1>1, <2>4, LastAssistantIs DEF Added
      <3> HIDE DEF a
      <3>2. a \in 1..Len(s) /\ a \in 1..k
        BY <1>1, <3>1
      <3>3. PICK j \in 1..a : s[j].role = "user"
        BY <1>0, <3>1, <3>2 DEF UserFirst
      <3>4. j \in 1..k
        BY <3>2
      <3> QED BY <2>1, <2>2, <3>3, <3>4
    <2> QED BY <2>2, <2>3, <2>4
  <1> QED BY <1>1, <1>2, <1>3, <1>4, <1>5, <1>6 DEF Sound

\* The block of an assistant message has a last message.
LEMMA BlockEnds ==
  ASSUME NEW s \in Seq(Message), NEW a \in 1..Len(s), s[a].role = "assistant"
  PROVE  \E k \in 1..Len(s) : a <= k /\ Closes(s, k) /\ LastAssistant(s, k) = a
  <1> DEFINE E == {k \in 1..Len(s) : a <= k /\ Closes(s, k)}
  <1>0. Len(s) \in Nat
    BY LenProperties
  <1>1. Len(s) \in E
    BY <1>0 DEF Closes
  <1>2. E \subseteq Nat /\ E # {}
    BY <1>0, <1>1
  <1>3. PICK k \in E : \A l \in E : k <= l
    <2> HIDE DEF E
    <2> QED BY <1>2, HasLeast
  <1>4. \A i \in (a + 1)..k : s[i].role # "assistant"
    <2> SUFFICES ASSUME NEW i \in (a + 1)..k, s[i].role = "assistant"
                 PROVE  FALSE
      OBVIOUS
    <2>1. i - 1 \in 1..Len(s) /\ a <= i - 1 /\ i - 1 < k /\ (i - 1) + 1 = i
      BY <1>0, <1>3
    <2>2. i - 1 \in E
      BY <2>1 DEF Closes
    <2>3. k <= i - 1 /\ k \in Nat
      BY <1>0, <1>3, <2>2
    <2> QED BY <2>1, <2>3
  <1>5. k \in 1..Len(s) /\ k \in Nat /\ a \in 0..k /\ Closes(s, k) /\ a <= k /\ a # 0
    BY <1>0, <1>3
  <1> HIDE DEF E
  <1>6. LastAssistant(s, k) = a
    BY <1>4, <1>5, LastIsOnly
  <1> QED BY <1>5, <1>6

\* Repaired, every call of a sound conversation has its one result.
LEMMA RepairPairs ==
  ASSUME NEW s, NEW n, Sound(s, {}, n)
  PROVE  WellPaired(sanitize_tool_call_pairing(s))
  <1> DEFINE r == sanitize_tool_call_pairing(s)
  <1>0. s \in Seq(Message)
    BY DEF Sound
  <1>1. PICK e : Repaired(s, r, e)
    BY <1>0, Repairs
  <1>2. Sound(r, {}, n)
    BY <1>1, RepairKeeps
  <1> HIDE DEF r
  <1>3. r \in Seq(Message) /\ DOMAIN r = 1..Len(r) /\ Len(r) \in Nat /\ Len(s) \in Nat
    BY <1>0, <1>2, LenProperties DEF Sound
  <1>4. ASSUME NEW k \in 1..Len(r), NEW id \in Calls(r[k])
        PROVE  Cardinality({t \in ToolsIn(r) : r[t].id = id /\ LastAssistant(r, t) = k}) = 1
    <2> DEFINE T == {t \in ToolsIn(r) : r[t].id = id /\ LastAssistant(r, t) = k}
    <2>1. r[k].calls # <<>>
      BY NoCalls
    <2>2. PICK a \in 1..Len(s) : k = e[a] /\ r[k] = s[a]
      BY <1>0, <1>1, <2>1, Stands
    <2>3. s[a].role = "assistant"
      BY <2>2 DEF Sound, Callers
    <2>4. PICK c \in 1..Len(s) : a <= c /\ Closes(s, c) /\ LastAssistant(s, c) = a
      BY <1>0, <2>3, BlockEnds
    <2>5. a # 0 /\ c \in Nat
      BY <1>3
    <2>6. HasAnswer(s, a, c, id) \/ \E p \in 1..Len(r) : At(s, e, c, p) /\ Added(s, r, c, p) /\ r[p].id = id
      <3>1. id \in Calls(s[LastAssistant(s, c)]) /\ LastAssistant(s, c) # 0 /\ Closes(s, c)
        BY <2>2, <2>4, <2>5
      <3>2. \/ HasAnswer(s, LastAssistant(s, c), c, id)
            \/ \E p \in 1..Len(r) : At(s, e, c, p) /\ Added(s, r, c, p) /\ r[p].id = id
        BY <1>0, <1>1, <3>1, RepairedPlaces
      <3> QED BY <2>4, <3>2
    <2>7. \E p \in 1..Len(r) : p \in T
      <3>1. CASE HasAnswer(s, a, c, id)
        <4>1. PICK t \in (a + 1)..c : s[t].role = "tool" /\ s[t].id = id
          BY <3>1 DEF HasAnswer
        <4>2. t \in 1..Len(s) /\ t \in Nat /\ a \in 0..t
          BY <1>3
        <4>3. \A i \in (a + 1)..c : s[i].role # "assistant"
          BY <2>4, <2>5, LastAssistantIs
        <4>4. \A i \in (a + 1)..t : s[i].role # "assistant"
          BY <2>5, <4>3
        <4>5. LastAssistant(s, t) = a
          BY <2>3, <4>2, <4>4, LastIsOnly
        <4>6. e[t] \in 1..Len(r) /\ r[e[t]] = s[t] /\ At(s, e, t, e[t])
          BY <1>0, <1>1, <4>2, RepairedPlaces
        <4>7. LastAssistant(r, e[t]) = k
          BY <1>0, <1>1, <2>2, <2>5, <4>5, <4>6, RepairedLast
        <4> QED BY <1>3, <4>1, <4>6, <4>7 DEF ToolsIn
      <3>2. CASE \E p \in 1..Len(r) : At(s, e, c, p) /\ Added(s, r, c, p) /\ r[p].id = id
        <4>1. PICK p \in 1..Len(r) : At(s, e, c, p) /\ Added(s, r, c, p) /\ r[p].id = id
          BY <3>2
        <4>2. LastAssistant(r, p) = k /\ r[p].role = "tool"
          BY <1>0, <1>1, <2>2, <2>4, <2>5, <4>1, RepairedLast DEF Added, Answer
        <4> QED BY <1>3, <4>1, <4>2 DEF ToolsIn
      <3> QED BY <2>6, <3>1, <3>2
    <2>8. PICK p \in 1..Len(r) : p \in T
      BY <2>7
    <2>9. \A t \in T : t = p
      <3> SUFFICES ASSUME NEW t \in T
                   PROVE  t = p
        OBVIOUS
      <3>1. t \in 1..Len(r) /\ r[t].role = "tool" /\ r[t].id = id /\ r[p].role = "tool" /\ r[p].id = id
        BY <1>3, <2>8 DEF ToolsIn
      <3>2. AnsweredOnce(r, {})
        BY <1>2 DEF Sound
      <3> QED BY <3>1, <3>2 DEF AnsweredOnce
    <2> HIDE DEF T
    <2>10. T = {p}
      BY <2>8, <2>9
    <2>11. Cardinality(T) = 1
      BY <2>10, FS_Singleton
    <2> QED BY <2>11 DEF T
  <1>5. ASSUME NEW t \in ToolsIn(r)
        PROVE  \E k \in 1..(t - 1) : r[t].id \in Calls(r[k])
    <2>1. t \in 1..Len(r) /\ r[t].role = "tool" /\ InBlock(r)
      BY <1>2, <1>3 DEF Sound, ToolsIn
    <2> QED BY <1>3, <2>1, BlockOf
  <1> HIDE DEF WellPaired
  <1>6. WellPaired(r)
    BY <1>3, <1>4, <1>5 DEF WellPaired
  <1> QED BY <1>6 DEF r

-----------------------------------------------------------------------------
(* What the steps do to a conversation                                      *)

\* The last assistant message depends on the roles alone.
LEMMA SameLast ==
  ASSUME NEW s, NEW r, NEW k \in Nat,
         \A i \in 1..k : r[i].role = "assistant" <=> s[i].role = "assistant"
  PROVE  LastAssistant(r, k) = LastAssistant(s, k)
  <1> DEFINE a == LastAssistant(s, k)
  <1>1. /\ a \in 0..k
        /\ a # 0 => s[a].role = "assistant"
        /\ \A i \in (a + 1)..k : s[i].role # "assistant"
    <2>1. /\ a \in 0..k
          /\ a = 0 => \A i \in 1..k : s[i].role # "assistant"
          /\ a # 0 => s[a].role = "assistant" /\ \A i \in (a + 1)..k : s[i].role # "assistant"
      BY LastAssistantIs
    <2> HIDE DEF a
    <2> QED BY <2>1
  <1> HIDE DEF a
  <1>2. a # 0 => r[a].role = "assistant"
    BY <1>1
  <1>3. \A i \in (a + 1)..k : r[i].role # "assistant"
    BY <1>1
  <1>4. LastAssistant(r, k) = a
    BY <1>1, <1>2, <1>3, LastIsOnly
  <1> QED BY <1>4 DEF a

\* Messages that differ in no more than their bodies.
Alike(s, r) ==
  /\ r \in Seq(Message) /\ Len(r) = Len(s)
  /\ \A k \in 1..Len(s) : r[k].role = s[k].role /\ r[k].calls = s[k].calls /\ r[k].id = s[k].id

\* Soundness depends on roles, calls and ids alone.
LEMMA AlikeKeeps ==
  ASSUME NEW s, NEW C, NEW n, Sound(s, C, n), NEW r, Alike(s, r)
  PROVE  Sound(r, C, n)
  <1>1. Len(s) \in Nat /\ Len(r) = Len(s) /\ r \in Seq(Message)
    BY LenProperties DEF Alike, Sound
  <1>2. \A k \in 1..Len(s) : r[k].role = s[k].role /\ r[k].calls = s[k].calls /\ r[k].id = s[k].id
    BY DEF Alike
  <1>3. \A k \in 1..Len(s) : Calls(r[k]) = Calls(s[k])
    BY <1>2 DEF Calls
  <1>4. \A k \in 1..Len(s) : LastAssistant(r, k) = LastAssistant(s, k)
    <2> TAKE k \in 1..Len(s)
    <2>1. k \in Nat /\ \A i \in 1..k : i \in 1..Len(s)
      BY <1>1
    <2> QED BY <1>2, <2>1, SameLast
  <1>5. Callers(r, n)
    BY <1>1, <1>2, <1>3 DEF Callers, Sound
  <1>6. CallsOnce(r)
    BY <1>1, <1>2 DEF CallsOnce, Sound
  <1>7. InBlock(r)
    <2> SUFFICES ASSUME NEW t \in 1..Len(s), r[t].role = "tool"
                 PROVE  LastAssistant(r, t) # 0 /\ r[t].id \in Calls(r[LastAssistant(r, t)])
      BY <1>1 DEF InBlock
    <2>1. s[t].role = "tool" /\ s \in Seq(Message) /\ InBlock(s)
      BY <1>2 DEF Sound
    <2>2. LastAssistant(s, t) \in 1..Len(s) /\ s[t].id \in Calls(s[LastAssistant(s, t)])
      BY <2>1, BlockOf
    <2> QED BY <1>1, <1>2, <1>3, <1>4, <2>2
  <1>8. AnsweredOnce(r, C)
    BY <1>1, <1>2 DEF AnsweredOnce, Sound
  <1>9. UserFirst(r)
    <2> SUFFICES ASSUME NEW k \in 1..Len(s), r[k].role # "system"
                 PROVE  \E j \in 1..k : r[j].role = "user"
      BY <1>1 DEF UserFirst
    <2>1. PICK j \in 1..k : s[j].role = "user"
      BY <1>2 DEF Sound, UserFirst
    <2>2. j \in 1..Len(s)
      BY <1>1
    <2> QED BY <1>2, <2>1, <2>2
  <1> QED BY <1>1, <1>5, <1>6, <1>7, <1>8, <1>9 DEF Sound

\* Markers change bodies alone.
LEMMA MarkedIsAlike ==
  ASSUME NEW s \in Seq(Message), NEW keep
  PROVE  /\ Alike(s, Marked(s, keep))
         /\ \A k \in 1..Len(s) : k \in keep => Marked(s, keep)[k] = s[k]
  <1> DEFINE N == Len(s)
             M(k) == IF k \in ToolsIn(s) \ keep
                        /\ ~ (s[k].id \in ReadCalls /\ \E a \in DOMAIN s : s[k].id \in Calls(s[a]))
                     THEN [s[k] EXCEPT !.body = "marker"] ELSE s[k]
             m == Marked(s, keep)
  <1>1. N \in Nat /\ DOMAIN s = 1..N /\ \A k \in 1..N : s[k] \in Message
    BY LenProperties, ElementOfSeq
  <1>2. m = [k \in 1..N |-> M(k)]
    BY <1>1 DEF Marked
  <1>3. ASSUME NEW k \in 1..N
        PROVE  /\ M(k) \in Message /\ M(k).role = s[k].role /\ M(k).calls = s[k].calls /\ M(k).id = s[k].id
               /\ k \in keep => M(k) = s[k]
    <2>1. s[k] \in Message
      BY <1>1
    <2>2. M(k) = s[k] \/ M(k) = [s[k] EXCEPT !.body = "marker"]
      OBVIOUS
    <2>3. k \in keep => M(k) = s[k]
      OBVIOUS
    <2> HIDE DEF M
    <2> DEFINE x == s[k]
    <2>4. x \in Message
      BY <2>1
    <2> HIDE DEF x
    <2>5. [x EXCEPT !.body = "marker"] \in Message /\ [x EXCEPT !.body = "marker"].role = x.role
          /\ [x EXCEPT !.body = "marker"].calls = x.calls /\ [x EXCEPT !.body = "marker"].id = x.id
      BY <2>4 DEF Message, Bodies
    <2> QED BY <2>1, <2>2, <2>3, <2>5 DEF x
  <1> HIDE DEF M, m
  <1>4. \A k \in 1..N : m[k] = M(k)
    BY <1>2
  <1>5. m \in Seq(Message) /\ Len(m) = N
    <2>1. \A k \in 1..N : M(k) \in Message
      BY <1>3
    <2>2. m \in [1..N -> Message]
      BY <1>2, <2>1
    <2> HIDE DEF N
    <2> QED BY <1>1, <2>2, IsASeq, LenProperties
  <1> QED BY <1>3, <1>4, <1>5 DEF Alike, m, N

\* Appending a message.
LEMMA AppendIs ==
  ASSUME NEW s \in Seq(Message), NEW m \in Message
  PROVE  LET r == Append(s, m) IN
         /\ r \in Seq(Message) /\ Len(s) \in Nat /\ Len(r) = Len(s) + 1 /\ r[Len(s) + 1] = m
         /\ \A i \in 1..Len(s) : r[i] = s[i]
         /\ \A i \in 1..(Len(s) + 1) : i \in 1..Len(s) \/ i = Len(s) + 1
         /\ \A i \in 0..Len(s) : LastAssistant(r, i) = LastAssistant(s, i)
         /\ m.role = "assistant" => LastAssistant(r, Len(s) + 1) = Len(s) + 1
         /\ m.role # "assistant" => LastAssistant(r, Len(s) + 1) = LastAssistant(s, Len(s))
  <1> DEFINE r == Append(s, m)
             N == Len(s)
  <1>1. r \in Seq(Message) /\ N \in Nat /\ Len(r) = N + 1 /\ r[N + 1] = m /\ \A i \in 1..N : r[i] = s[i]
    <2>1. N \in Nat
      BY LenProperties
    <2> QED BY <2>1, AppendProperties
  <1> HIDE DEF r, N
  <1>2. \A i \in 1..(N + 1) : i \in 1..N \/ i = N + 1
    BY <1>1
  <1>3. \A i \in 0..N : LastAssistant(r, i) = LastAssistant(s, i)
    <2> TAKE i \in 0..N
    <2>1. i \in Nat /\ \A j \in 1..i : j \in 1..N
      BY <1>1
    <2> QED BY <1>1, <2>1, SameLast
  <1>4. m.role = "assistant" => LastAssistant(r, N + 1) = N + 1
    <2>1. N + 1 \in Nat /\ N + 1 \in 0..(N + 1) /\ \A i \in ((N + 1) + 1)..(N + 1) : FALSE
      BY <1>1
    <2> QED BY <1>1, <2>1, LastIsOnly
  <1>5. m.role # "assistant" => LastAssistant(r, N + 1) = LastAssistant(s, N)
    <2> DEFINE a == LastAssistant(r, N)
    <2>1. /\ a \in 0..N
          /\ a = 0 => \A i \in 1..N : r[i].role # "assistant"
          /\ a # 0 => r[a].role = "assistant" /\ \A i \in (a + 1)..N : r[i].role # "assistant"
      BY <1>1, LastAssistantIs
    <2>2. a = LastAssistant(s, N)
      BY <1>1, <1>3
    <2> HIDE DEF a
    <2>3. a \in 0..(N + 1) /\ N + 1 \in Nat
      BY <1>1, <2>1
    <2>4. m.role # "assistant" => \A i \in (a + 1)..(N + 1) : r[i].role # "assistant"
      BY <1>1, <1>2, <2>1
    <2>5. m.role # "assistant" => LastAssistant(r, N + 1) = a
      BY <2>1, <2>3, <2>4, LastIsOnly
    <2> QED BY <2>2, <2>5
  <1> QED BY <1>1, <1>2, <1>3, <1>4, <1>5 DEF r, N

\* A message that may come next: new calls of an assistant, or the first result of a
\* call of the last block, or words, a user having spoken if they are the assistant's.
Follows(s, C, n, m, p) ==
  /\ \A id \in Calls(m) : m.role = "assistant" /\ id \in (n + 1)..p
  /\ \A i, j \in DOMAIN m.calls : m.calls[i] = m.calls[j] => i = j
  /\ m.role = "tool" =>
        /\ LastAssistant(s, Len(s)) # 0 /\ m.id \in Calls(s[LastAssistant(s, Len(s))])
        /\ m.id \in C \/ \A t \in 1..Len(s) : s[t].role = "tool" => s[t].id # m.id
  /\ m.role \in {"system", "user"} \/ \E k \in 1..Len(s) : s[k].role = "user"

\* A message that may come next keeps a conversation sound.
LEMMA AppendKeeps ==
  ASSUME NEW s, NEW C, NEW n \in Nat, Sound(s, C, n), NEW m \in Message,
         NEW p \in Nat, n <= p, Follows(s, C, n, m, p)
  PROVE  Sound(Append(s, m), C, p)
  <1> DEFINE r == Append(s, m)
             N == Len(s)
  <1>0. s \in Seq(Message)
    BY DEF Sound
  <1>1. /\ r \in Seq(Message) /\ N \in Nat /\ Len(r) = N + 1 /\ r[N + 1] = m
        /\ \A i \in 1..N : r[i] = s[i]
        /\ \A i \in 1..(N + 1) : i \in 1..N \/ i = N + 1
        /\ \A i \in 0..N : LastAssistant(r, i) = LastAssistant(s, i)
        /\ m.role # "assistant" => LastAssistant(r, N + 1) = LastAssistant(s, N)
    BY <1>0, AppendIs
  <1> HIDE DEF r
  <1>2. \A k \in 1..N : \A id \in Calls(s[k]) : s[k].role = "assistant" /\ id \in 1..n
    BY DEF Sound, Callers
  <1>3. \A id \in Calls(m) : m.role = "assistant" /\ id \in (n + 1)..p
    BY DEF Follows
  <1>4. Callers(r, p)
    <2> SUFFICES ASSUME NEW k \in 1..(N + 1), NEW id \in Calls(r[k])
                 PROVE  r[k].role = "assistant" /\ id \in 1..p
      BY <1>1 DEF Callers
    <2>1. CASE k \in 1..N
      <3>1. s[k].role = "assistant" /\ id \in 1..n /\ r[k] = s[k]
        BY <1>1, <1>2, <2>1
      <3> QED BY <3>1
    <2>2. CASE k = N + 1
      <3>1. r[k] = m /\ m.role = "assistant" /\ id \in (n + 1)..p
        BY <1>1, <1>3, <2>2
      <3> QED BY <3>1
    <2> QED BY <1>1, <2>1, <2>2
  <1>5. CallsOnce(r)
    <2>1. \A k \in 1..N : \A i \in DOMAIN s[k].calls : s[k].calls[i] \in 1..n
      BY <1>2 DEF Calls, Range
    <2>2. \A i \in DOMAIN m.calls : m.calls[i] \in (n + 1)..p
      BY <1>3 DEF Calls, Range
    <2>3. \A x \in 1..n : x \notin (n + 1)..p
      OBVIOUS
    <2> SUFFICES ASSUME NEW k \in 1..(N + 1), NEW l \in 1..(N + 1),
                        NEW i \in DOMAIN r[k].calls, NEW j \in DOMAIN r[l].calls,
                        r[k].calls[i] = r[l].calls[j]
                 PROVE  k = l /\ i = j
      BY <1>1 DEF CallsOnce
    <2>4. CASE k \in 1..N /\ l \in 1..N
      BY <1>1, <2>4 DEF Sound, CallsOnce
    <2>5. CASE k = N + 1 /\ l = N + 1
      BY <1>1, <2>5 DEF Follows
    <2>6. CASE k \in 1..N /\ l = N + 1
      BY <1>1, <2>1, <2>2, <2>3, <2>6
    <2>7. CASE k = N + 1 /\ l \in 1..N
      BY <1>1, <2>1, <2>2, <2>3, <2>7
    <2> QED BY <1>1, <2>4, <2>5, <2>6, <2>7
  <1>6. InBlock(r)
    <2> SUFFICES ASSUME NEW t \in 1..(N + 1), r[t].role = "tool"
                 PROVE  LastAssistant(r, t) # 0 /\ r[t].id \in Calls(r[LastAssistant(r, t)])
      BY <1>1 DEF InBlock
    <2>1. CASE t \in 1..N
      <3>1. r[t] = s[t] /\ LastAssistant(r, t) = LastAssistant(s, t)
        BY <1>1, <2>1
      <3>2. LastAssistant(s, t) \in 1..N /\ s[t].id \in Calls(s[LastAssistant(s, t)])
        BY <1>0, <2>1, <3>1, BlockOf DEF Sound
      <3> QED BY <1>1, <3>1, <3>2
    <2>2. CASE t = N + 1
      <3>1. /\ r[t] = m /\ LastAssistant(r, t) = LastAssistant(s, N) /\ LastAssistant(s, N) # 0
            /\ m.id \in Calls(s[LastAssistant(s, N)])
        BY <1>1, <2>2 DEF Follows
      <3>2. LastAssistant(s, N) \in 0..N
        BY <1>1, LastAssistantIs
      <3> DEFINE a == LastAssistant(s, N)
      <3> HIDE DEF a
      <3>3. a \in 1..N
        BY <1>1, <3>1, <3>2 DEF a
      <3> QED BY <1>1, <3>1, <3>3 DEF a
    <2> QED BY <1>1, <2>1, <2>2
  <1>7. AnsweredOnce(r, C)
    <2> SUFFICES ASSUME NEW t \in 1..(N + 1), NEW u \in 1..(N + 1), r[t].role = "tool", r[u].role = "tool",
                        r[t].id = r[u].id, r[t].id \notin C
                 PROVE  t = u
      BY <1>1 DEF AnsweredOnce
    <2>1. CASE t \in 1..N /\ u \in 1..N
      BY <1>1, <2>1 DEF Sound, AnsweredOnce
    <2>2. CASE t \in 1..N /\ u = N + 1
      BY <1>1, <2>2 DEF Follows
    <2>3. CASE t = N + 1 /\ u \in 1..N
      BY <1>1, <2>3 DEF Follows
    <2> QED BY <1>1, <2>1, <2>2, <2>3
  <1>8. UserFirst(r)
    <2> SUFFICES ASSUME NEW k \in 1..(N + 1), r[k].role # "system"
                 PROVE  \E j \in 1..k : r[j].role = "user"
      BY <1>1 DEF UserFirst
    <2>1. CASE k \in 1..N
      <3>1. PICK j \in 1..k : s[j].role = "user"
        BY <1>1, <2>1 DEF Sound, UserFirst
      <3>2. j \in 1..N
        BY <1>1, <2>1
      <3> QED BY <1>1, <3>1, <3>2
    <2>2. CASE k = N + 1
      <3>1. CASE m.role = "user"
        BY <1>1, <2>2, <3>1
      <3>2. CASE m.role # "user"
        <4>1. PICK j \in 1..N : s[j].role = "user"
          BY <1>1, <2>2, <3>2 DEF Follows
        <4>2. j \in 1..k
          BY <1>1, <2>2
        <4> QED BY <1>1, <4>1, <4>2
      <3> QED BY <3>1, <3>2
    <2> QED BY <1>1, <2>1, <2>2
  <1> QED BY <1>1, <1>4, <1>5, <1>6, <1>7, <1>8 DEF Sound, r

-----------------------------------------------------------------------------
(* The view                                                                 *)

\* Of a result whose call is in view, the call is in its block.
TailBlock(v) ==
  \A t \in 1..Len(v) : v[t].role = "tool" =>
     \A a \in 1..(t - 1) : v[t].id \in Calls(v[a]) => LastAssistant(v, t) = a
Skeleton(v, n) ==
  v \in Seq(Message) /\ Callers(v, n) /\ CallsOnce(v) /\ TailBlock(v) /\ UserFirst(v)

\* Demoting the results without a call makes a view sound.
LEMMA DemoteMakesSound ==
  ASSUME NEW v, NEW n, Skeleton(v, n)
  PROVE  LET d == demote_orphan_tool_results(v) IN
         /\ Sound(d, {}, n) /\ Len(d) = Len(v)
         /\ \A k \in 1..Len(v) : v[k].role # "tool" \/ Paired(v, k) => d[k] = v[k]
  <1> DEFINE d == demote_orphan_tool_results(v)
             N == Len(v)
  <1>1. N \in Nat /\ DOMAIN v = 1..N /\ v \in Seq(Message) /\ \A k \in 1..N : v[k] \in Message
    BY LenProperties, ElementOfSeq DEF Skeleton
  <1>2. d = [k \in 1..N |-> IF v[k].role = "tool" /\ ~ Paired(v, k) THEN Say("user") ELSE v[k]]
    BY <1>1 DEF demote_orphan_tool_results
  <1> HIDE DEF d
  <1>3. ASSUME NEW k \in 1..N
        PROVE  \/ d[k] = v[k] /\ (v[k].role = "tool" => Paired(v, k))
               \/ v[k].role = "tool" /\ ~ Paired(v, k) /\ d[k] = Say("user")
    BY <1>2
  <1>4. Say("user") \in Message /\ Say("user").role = "user" /\ Say("user").calls = <<>>
    BY Messages DEF Roles
  <1>5. d \in Seq(Message) /\ Len(d) = N
    <2>1. \A k \in 1..N : d[k] \in Message
      BY <1>1, <1>3, <1>4
    <2>2. d \in [1..N -> Message]
      BY <1>2, <2>1
    <2> HIDE DEF N
    <2> QED BY <1>1, <2>2, IsASeq, LenProperties
  <1> HIDE DEF N
  <1>6. \A k \in 1..N : \A id \in Calls(v[k]) : v[k].role = "assistant" /\ id \in 1..n
    BY DEF Skeleton, Callers, N
  <1>7. \A k \in 1..N : v[k].role = "tool" => DOMAIN v[k].calls = {} /\ Calls(v[k]) = {}
    <2> SUFFICES ASSUME NEW k \in 1..N, v[k].role = "tool"
                 PROVE  DOMAIN v[k].calls = {} /\ Calls(v[k]) = {}
      OBVIOUS
    <2>1. Calls(v[k]) = {}
      BY <1>6
    <2> QED BY <2>1 DEF Calls, Range
  <1>8. \A k \in 1..N : DOMAIN d[k].calls # {} => d[k] = v[k]
    BY <1>3, <1>4, NoCalls
  <1>9. \A k \in 1..N : Calls(d[k]) = Calls(v[k])
    BY <1>3, <1>4, <1>7, NoCalls
  <1>10. \A k \in 1..N : LastAssistant(d, k) = LastAssistant(v, k)
    <2>1. \A k \in 1..N : d[k].role = "assistant" <=> v[k].role = "assistant"
      BY <1>3, <1>4
    <2> TAKE k \in 1..N
    <2>2. k \in Nat /\ \A i \in 1..k : i \in 1..N
      BY <1>1
    <2> QED BY <2>1, <2>2, SameLast
  <1>11. Callers(d, n)
    <2> SUFFICES ASSUME NEW k \in 1..N, NEW id \in Calls(d[k])
                 PROVE  d[k].role = "assistant" /\ id \in 1..n
      BY <1>5 DEF Callers
    <2>1. id \in Calls(v[k])
      BY <1>9
    <2>2. v[k].role = "assistant" /\ id \in 1..n
      BY <1>6, <2>1
    <2> QED BY <1>3, <2>2
  <1>12. CallsOnce(d)
    <2> SUFFICES ASSUME NEW k \in 1..N, NEW l \in 1..N,
                        NEW i \in DOMAIN d[k].calls, NEW j \in DOMAIN d[l].calls,
                        d[k].calls[i] = d[l].calls[j]
                 PROVE  k = l /\ i = j
      BY <1>5 DEF CallsOnce
    <2>1. d[k] = v[k] /\ d[l] = v[l]
      BY <1>8
    <2> QED BY <2>1 DEF Skeleton, CallsOnce, N
  <1>13. ASSUME NEW t \in 1..N, d[t].role = "tool"
         PROVE  /\ d[t] = v[t] /\ v[t].role = "tool"
                /\ \E a \in 1..(t - 1) :
                     /\ a \in 1..N /\ v[t].id \in Calls(v[a]) /\ LastAssistant(v, t) = a
                     /\ \A u \in (a + 1)..(t - 1) : v[u].role = "tool" => v[u].id # v[t].id
    <2>1. d[t] = v[t] /\ v[t].role = "tool" /\ Paired(v, t)
      BY <1>3, <1>4, <1>13
    <2>2. PICK a \in 1..(t - 1) : /\ v[t].id \in Calls(v[a])
                                  /\ \A u \in (a + 1)..(t - 1) : v[u].role = "tool" => v[u].id # v[t].id
      BY <2>1 DEF Paired
    <2>3. LastAssistant(v, t) = a
      BY <2>1, <2>2 DEF Skeleton, TailBlock, N
    <2>4. a \in 1..N
      BY <1>1
    <2> QED BY <2>1, <2>2, <2>3, <2>4
  <1>14. InBlock(d)
    <2> SUFFICES ASSUME NEW t \in 1..N, d[t].role = "tool"
                 PROVE  LastAssistant(d, t) # 0 /\ d[t].id \in Calls(d[LastAssistant(d, t)])
      BY <1>5 DEF InBlock
    <2>1. PICK a \in 1..(t - 1) : a \in 1..N /\ v[t].id \in Calls(v[a]) /\ LastAssistant(v, t) = a
      BY <1>13
    <2>2. d[t] = v[t] /\ a # 0
      BY <1>13
    <2> QED BY <1>9, <1>10, <2>1, <2>2
  <1>15. AnsweredOnce(d, {})
    <2>1. ASSUME NEW t \in 1..N, NEW u \in 1..N, d[t].role = "tool", d[u].role = "tool",
                 d[t].id = d[u].id, t < u
          PROVE  FALSE
      <3>1. PICK a \in 1..(t - 1) : a \in 1..N /\ v[t].id \in Calls(v[a])
        BY <1>13, <2>1
      <3>2. PICK b \in 1..(u - 1) : /\ b \in 1..N /\ v[u].id \in Calls(v[b])
                                    /\ \A w \in (b + 1)..(u - 1) : v[w].role = "tool" => v[w].id # v[u].id
        BY <1>13, <2>1
      <3>3. d[t] = v[t] /\ d[u] = v[u]
        BY <1>13, <2>1
      <3>4. a = b
        BY <2>1, <3>1, <3>2, <3>3, OneCaller DEF Skeleton, N
      <3>5. t \in (b + 1)..(u - 1)
        BY <1>1, <2>1, <3>1, <3>2, <3>4
      <3> QED BY <2>1, <3>2, <3>3, <3>5
    <2> SUFFICES ASSUME NEW t \in 1..N, NEW u \in 1..N, d[t].role = "tool", d[u].role = "tool",
                        d[t].id = d[u].id
                 PROVE  t = u
      BY <1>5 DEF AnsweredOnce
    <2>2. ~ (t < u) /\ ~ (u < t)
      BY <2>1
    <2> QED BY <1>1, <2>2
  <1>16. UserFirst(d)
    <2> SUFFICES ASSUME NEW k \in 1..N, d[k].role # "system"
                 PROVE  \E j \in 1..k : d[j].role = "user"
      BY <1>5 DEF UserFirst
    <2>1. CASE d[k] = Say("user")
      <3>1. k \in 1..k
        BY <1>1
      <3> QED BY <1>4, <2>1, <3>1
    <2>2. CASE d[k] = v[k]
      <3>1. PICK j \in 1..k : v[j].role = "user"
        BY <2>2 DEF Skeleton, UserFirst, N
      <3>2. j \in 1..N
        BY <1>1
      <3>3. d[j] = v[j]
        BY <1>3, <3>1, <3>2
      <3> QED BY <3>1, <3>3
    <2> QED BY <1>3, <2>1, <2>2
  <1>17. Sound(d, {}, n)
    BY <1>5, <1>11, <1>12, <1>14, <1>15, <1>16 DEF Sound
  <1> QED BY <1>3, <1>5, <1>17 DEF d, N

\* v is a view of s from message b+1 on, behind c messages of a summary; the
\* messages after f are as they were.
View(v, s, b, f, c) ==
  /\ v \in Seq(Message) /\ Len(v) = c + (Len(s) - b)
  /\ \/ c = 0 /\ b = 0
     \/ c = 2 /\ v[1] = Say("system") /\ v[2] = Say("user")
  /\ \A k \in (b + 1)..Len(s) :
        /\ v[c + (k - b)].role = s[k].role /\ v[c + (k - b)].calls = s[k].calls
        /\ v[c + (k - b)].id = s[k].id
        /\ k > f => v[c + (k - b)] = s[k]

\* What the loop sends, before its repairs, is a view of the conversation.
LEMMA ViewIs ==
  ASSUME NEW s \in Seq(Message), NEW b \in 0..Len(s), NEW f \in b..Len(s),
         NEW summary \in BOOLEAN, ~ summary => b = 0
  PROVE  View(assemble(summary, build_request_tail(s, b, f)), s, b, f, IF summary THEN 2 ELSE 0)
  <1> DEFINE N == Len(s)
             x == SubSeq(s, b + 1, f)
             y == SubSeq(s, f + 1, Len(s))
             m == Marked(x, {})
             t == build_request_tail(s, b, f)
             v == assemble(summary, t)
  <1>1. N \in Nat /\ b \in 0..N /\ f \in b..N
    BY LenProperties
  <1>2. /\ x \in Seq(Message) /\ Len(x) = f - b
        /\ \A i \in 1..(f - b) : x[i] = s[b + i]
    <2>1. f >= b /\ b + 1 \in Int /\ f \in Int /\ (b + 1)..f \subseteq 1..N
      BY <1>1
    <2>2. \A i \in (b + 1)..f : s[i] \in Message
      BY <2>1, ElementOfSeq
    <2>3. /\ Len(x) = IF b + 1 <= f THEN f - (b + 1) + 1 ELSE 0
          /\ \A i \in 1..(f - (b + 1) + 1) : x[i] = s[(b + 1) + i - 1]
          /\ x \in Seq(Message)
      BY <2>1, <2>2, SubSeqProperties
    <2>4. \A i \in 1..(f - b) : i \in 1..(f - (b + 1) + 1) /\ (b + 1) + i - 1 = b + i
      BY <1>1
    <2>5. Len(x) = f - b
      BY <1>1, <2>3
    <2> QED BY <2>3, <2>4, <2>5
  <1>3. /\ y \in Seq(Message) /\ Len(y) = N - f
        /\ \A i \in 1..(N - f) : y[i] = s[f + i]
    <2>1. f + 1 \in Int /\ N \in Int /\ (f + 1)..N \subseteq 1..N
      BY <1>1
    <2>2. \A i \in (f + 1)..N : s[i] \in Message
      BY <2>1, ElementOfSeq
    <2>3. /\ Len(y) = IF f + 1 <= N THEN N - (f + 1) + 1 ELSE 0
          /\ \A i \in 1..(N - (f + 1) + 1) : y[i] = s[(f + 1) + i - 1]
          /\ y \in Seq(Message)
      BY <2>1, <2>2, SubSeqProperties
    <2>4. \A i \in 1..(N - f) : i \in 1..(N - (f + 1) + 1) /\ (f + 1) + i - 1 = f + i
      BY <1>1
    <2>5. Len(y) = N - f
      BY <1>1, <2>3
    <2> QED BY <2>3, <2>4, <2>5
  <1> HIDE DEF x, y
  <1>4. /\ m \in Seq(Message) /\ Len(m) = f - b
        /\ \A i \in 1..(f - b) : m[i].role = x[i].role /\ m[i].calls = x[i].calls /\ m[i].id = x[i].id
    <2>1. Alike(x, m)
      BY <1>2, MarkedIsAlike
    <2> HIDE DEF m
    <2> QED BY <1>2, <2>1 DEF Alike
  <1>5. t = m \o y
    BY DEF build_request_tail, x, y
  <1> HIDE DEF m, t
  <1>6. /\ t \in Seq(Message) /\ Len(t) = N - b
        /\ \A i \in 1..(N - b) : t[i] = IF i <= f - b THEN m[i] ELSE y[i - (f - b)]
    <2>1. t \in Seq(Message) /\ Len(t) = Len(m) + Len(y)
          /\ \A i \in 1..(Len(m) + Len(y)) : t[i] = IF i <= Len(m) THEN m[i] ELSE y[i - Len(m)]
      BY <1>3, <1>4, <1>5, ConcatProperties
    <2>2. Len(m) + Len(y) = N - b
      BY <1>1, <1>3, <1>4
    <2> QED BY <1>4, <2>1, <2>2
  <1>7. \A k \in (b + 1)..N :
           /\ t[k - b].role = s[k].role /\ t[k - b].calls = s[k].calls /\ t[k - b].id = s[k].id
           /\ k > f => t[k - b] = s[k]
    <2> TAKE k \in (b + 1)..N
    <2>1. k - b \in 1..(N - b) /\ b + (k - b) = k
      BY <1>1
    <2>2. CASE k <= f
      <3>1. k - b \in 1..(f - b) /\ k - b <= f - b /\ ~ (k > f)
        BY <1>1, <2>2
      <3>2. x[k - b] = s[b + (k - b)]
        BY <1>2, <3>1
      <3>3. t[k - b] = m[k - b]
        BY <1>6, <2>1, <3>1
      <3> QED BY <1>4, <2>1, <3>1, <3>2, <3>3
    <2>3. CASE k > f
      <3>1. ~ (k - b <= f - b) /\ (k - b) - (f - b) \in 1..(N - f) /\ f + ((k - b) - (f - b)) = k
        BY <1>1, <2>3
      <3>2. t[k - b] = y[(k - b) - (f - b)]
        BY <1>6, <2>1, <3>1
      <3>3. y[(k - b) - (f - b)] = s[f + ((k - b) - (f - b))]
        BY <1>3, <3>1
      <3> QED BY <3>1, <3>2, <3>3
    <2> QED BY <1>1, <2>2, <2>3
  <1> HIDE DEF N
  <1>8. CASE summary
    <2> DEFINE h == <<Say("system"), Say("user")>>
    <2>1. h \in Seq(Message) /\ Len(h) = 2 /\ h[1] = Say("system") /\ h[2] = Say("user")
      <3>1. Say("system") \in Message /\ Say("user") \in Message
        BY Messages DEF Roles
      <3> HIDE DEF Say
      <3> QED BY <3>1
    <2>2. v = h \o t
      BY <1>8 DEF assemble
    <2> HIDE DEF v, h
    <2>3. v \in Seq(Message) /\ Len(v) = 2 + (N - b)
          /\ \A i \in 1..(2 + (N - b)) : v[i] = IF i <= 2 THEN h[i] ELSE t[i - 2]
      <3>1. h \o t \in Seq(Message) /\ Len(h \o t) = Len(h) + Len(t)
            /\ \A i \in 1..(Len(h) + Len(t)) : (h \o t)[i] = IF i <= Len(h) THEN h[i] ELSE t[i - Len(h)]
        BY <1>6, <2>1, ConcatProperties
      <3>2. Len(h) = 2 /\ Len(t) = N - b
        BY <1>6, <2>1
      <3> QED BY <2>2, <3>1, <3>2
    <2>4. v[1] = Say("system") /\ v[2] = Say("user")
      <3>1. 1 \in 1..(2 + (N - b)) /\ 2 \in 1..(2 + (N - b))
        BY <1>1
      <3> QED BY <2>1, <2>3, <3>1
    <2>5. \A k \in (b + 1)..N : v[2 + (k - b)] = t[k - b]
      <3> TAKE k \in (b + 1)..N
      <3>1. 2 + (k - b) \in 1..(2 + (N - b)) /\ ~ (2 + (k - b) <= 2) /\ (2 + (k - b)) - 2 = k - b
        BY <1>1
      <3> QED BY <2>3, <3>1
    <2>6. View(v, s, b, f, 2)
      BY <1>7, <2>3, <2>4, <2>5 DEF View, N
    <2> QED BY <1>8, <2>6 DEF v, t
  <1>9. CASE ~ summary
    <2>1. v = <<>> \o t
      BY <1>9 DEF assemble
    <2> HIDE DEF v
    <2>2. v = t
      BY <1>6, <2>1, ConcatEmptySeq
    <2>3. \A k \in (b + 1)..N : 0 + (k - b) = k - b
      BY <1>1
    <2>4. 0 + (N - b) = N - b
      BY <1>1
    <2>5. View(v, s, b, f, 0)
      BY <1>6, <1>7, <1>9, <2>2, <2>3, <2>4 DEF View, N
    <2> QED BY <1>9, <2>5 DEF v, t
  <1> QED BY <1>8, <1>9

\* Where a message of a view is from.
LEMMA Viewed ==
  ASSUME NEW s \in Seq(Message), NEW b \in 0..Len(s), NEW f \in b..Len(s), NEW c, NEW v,
         View(v, s, b, f, c)
  PROVE  /\ Len(s) \in Nat /\ Len(v) \in Nat /\ c \in {0, 2} /\ Len(v) = c + (Len(s) - b)
         /\ \A k \in (b + 1)..Len(s) : c + (k - b) \in 1..Len(v)
         /\ \A i \in 1..Len(v) :
              \/ i <= c /\ c = 2 /\ v[i].role \in {"system", "user"} /\ v[i].calls = <<>>
              \/ \E k \in (b + 1)..Len(s) :
                    /\ i = c + (k - b) /\ k \in 1..Len(s)
                    /\ v[i].role = s[k].role /\ v[i].calls = s[k].calls /\ v[i].id = s[k].id
  <1>1. Len(s) \in Nat /\ Len(v) \in Nat /\ c \in {0, 2} /\ Len(v) = c + (Len(s) - b) /\ b \in Nat
    BY LenProperties DEF View
  <1>2. \A k \in (b + 1)..Len(s) : c + (k - b) \in 1..Len(v)
    BY <1>1
  <1>3. ASSUME NEW i \in 1..Len(v)
        PROVE  \/ i <= c /\ c = 2 /\ v[i].role \in {"system", "user"} /\ v[i].calls = <<>>
               \/ \E k \in (b + 1)..Len(s) :
                    /\ i = c + (k - b) /\ k \in 1..Len(s)
                    /\ v[i].role = s[k].role /\ v[i].calls = s[k].calls /\ v[i].id = s[k].id
    <2>1. CASE i <= c
      <3>1. c = 2 /\ (i = 1 \/ i = 2)
        BY <1>1, <2>1
      <3>2. v[1] = Say("system") /\ v[2] = Say("user")
        BY <3>1 DEF View
      <3> QED BY <2>1, <3>1, <3>2 DEF Say
    <2>2. CASE i > c
      <3> DEFINE k == (i - c) + b
      <3>1. k \in (b + 1)..Len(s) /\ i = c + (k - b) /\ k \in 1..Len(s)
        BY <1>1, <2>2
      <3> HIDE DEF k
      <3>2. v[i].role = s[k].role /\ v[i].calls = s[k].calls /\ v[i].id = s[k].id
        BY <3>1 DEF View
      <3> QED BY <3>1, <3>2
    <2> QED BY <1>1, <2>1, <2>2
  <1> QED BY <1>1, <1>2, <1>3

\* A view of a sound conversation is sound but for results whose call is not in it.
LEMMA ViewHasSkeleton ==
  ASSUME NEW s, NEW C, NEW n, Sound(s, C, n), NEW b \in 0..Len(s), NEW f \in b..Len(s), NEW c, NEW v,
         View(v, s, b, f, c)
  PROVE  Skeleton(v, n)
  <1>0. /\ s \in Seq(Message) /\ Callers(s, n) /\ CallsOnce(s) /\ InBlock(s) /\ AnsweredOnce(s, C)
        /\ UserFirst(s) /\ v \in Seq(Message)
    BY DEF Sound, View
  <1>1. Len(s) \in Nat /\ Len(v) \in Nat /\ c \in {0, 2} /\ Len(v) = c + (Len(s) - b)
    BY <1>0, Viewed
  <1>2. \A i \in 1..Len(v) :
          \/ i <= c /\ c = 2 /\ v[i].role \in {"system", "user"} /\ v[i].calls = <<>>
          \/ \E k \in (b + 1)..Len(s) :
                /\ i = c + (k - b) /\ k \in 1..Len(s)
                /\ v[i].role = s[k].role /\ v[i].calls = s[k].calls /\ v[i].id = s[k].id
    BY <1>0, Viewed
  <1>3. Callers(v, n)
    <2> SUFFICES ASSUME NEW i \in 1..Len(v), NEW id \in Calls(v[i])
                 PROVE  v[i].role = "assistant" /\ id \in 1..n
      BY DEF Callers
    <2>1. v[i].calls # <<>>
      BY NoCalls
    <2>2. PICK k \in 1..Len(s) : v[i].role = s[k].role /\ v[i].calls = s[k].calls
      BY <1>2, <2>1
    <2>3. id \in Calls(s[k])
      BY <2>2 DEF Calls
    <2> QED BY <1>0, <2>2, <2>3 DEF Callers
  <1>4. CallsOnce(v)
    <2> SUFFICES ASSUME NEW i \in 1..Len(v), NEW j \in 1..Len(v),
                        NEW g \in DOMAIN v[i].calls, NEW h \in DOMAIN v[j].calls,
                        v[i].calls[g] = v[j].calls[h]
                 PROVE  i = j /\ g = h
      BY DEF CallsOnce
    <2>1. v[i].calls # <<>> /\ v[j].calls # <<>>
      BY NoCalls
    <2>2. PICK k \in 1..Len(s) : i = c + (k - b) /\ v[i].calls = s[k].calls
      BY <1>2, <2>1
    <2>3. PICK l \in 1..Len(s) : j = c + (l - b) /\ v[j].calls = s[l].calls
      BY <1>2, <2>1
    <2>4. k = l /\ g = h
      BY <1>0, <2>2, <2>3 DEF CallsOnce
    <2> QED BY <2>2, <2>3, <2>4
  <1>5. TailBlock(v)
    <2> SUFFICES ASSUME NEW t \in 1..Len(v), v[t].role = "tool", NEW a \in 1..(t - 1), v[t].id \in Calls(v[a])
                 PROVE  LastAssistant(v, t) = a
      BY DEF TailBlock
    <2>1. a \in 1..Len(v) /\ a \in Nat /\ t \in Nat /\ a < t
      BY <1>1
    <2>2. v[a].calls # <<>>
      BY NoCalls
    <2>3. PICK k \in (b + 1)..Len(s) : /\ t = c + (k - b) /\ k \in 1..Len(s) /\ s[k].role = "tool"
                                       /\ s[k].id = v[t].id
      BY <1>2
    <2>4. PICK l \in (b + 1)..Len(s) : /\ a = c + (l - b) /\ l \in 1..Len(s)
                                       /\ s[l].role = v[a].role /\ s[l].calls = v[a].calls
      BY <1>2, <2>1, <2>2
    <2> DEFINE z == LastAssistant(s, k)
    <2>5. z \in 1..Len(s) /\ s[k].id \in Calls(s[z]) /\ s[z].role = "assistant" /\ \A i \in (z + 1)..k : s[i].role # "assistant"
      BY <1>0, <2>3, BlockOf
    <2>6. s[k].id \in Calls(s[l])
      BY <2>3, <2>4 DEF Calls
    <2>7. z = l
      BY <1>0, <2>4, <2>5, <2>6, OneCaller
    <2> HIDE DEF z
    <2>8. v[a].role = "assistant"
      BY <2>4, <2>5, <2>7
    <2>9. \A i \in (a + 1)..t : v[i].role # "assistant"
      <3> TAKE i \in (a + 1)..t
      <3>0. b \in Nat /\ c \in Nat /\ l \in Nat /\ l > b
        BY <1>1
      <3>1. i \in 1..Len(v) /\ i > c
        <4>1. a > c
          BY <2>4, <3>0
        <4>2. t <= Len(v) /\ i \in Nat /\ i > a /\ i <= t
          BY <1>1, <2>1
        <4> QED BY <1>1, <2>1, <3>0, <4>1, <4>2
      <3>2. PICK w \in (b + 1)..Len(s) : i = c + (w - b) /\ v[i].role = s[w].role
        BY <1>1, <1>2, <3>1
      <3>3. w \in (z + 1)..k
        BY <1>1, <2>3, <2>4, <2>7, <3>2
      <3> QED BY <2>5, <3>2, <3>3
    <2>10. a \in 0..t
      BY <2>1
    <2> QED BY <2>1, <2>8, <2>9, <2>10, LastIsOnly
  <1>6. UserFirst(v)
    <2> SUFFICES ASSUME NEW i \in 1..Len(v), v[i].role # "system"
                 PROVE  \E j \in 1..i : v[j].role = "user"
      BY DEF UserFirst
    <2>1. CASE c = 2
      <3>1. v[1].role = "system" /\ v[2].role = "user"
        BY <2>1 DEF View, Say
      <3>2. i # 1
        BY <3>1
      <3>3. 2 \in 1..i
        BY <1>1, <3>2
      <3> QED BY <3>1, <3>3
    <2>2. CASE c = 0
      <3>1. b = 0
        BY <2>2 DEF View
      <3>0. c # 2
        BY <2>2
      <3>2. PICK k \in (b + 1)..Len(s) : i = c + (k - b) /\ k \in 1..Len(s) /\ v[i].role = s[k].role
        BY <1>2, <3>0
      <3>3. i = k
        BY <2>2, <3>1, <3>2
      <3>4. PICK j \in 1..k : s[j].role = "user"
        BY <1>0, <3>2 DEF UserFirst
      <3>5. j \in (b + 1)..Len(s) /\ c + (j - b) = j
        <4>1. j \in 1..Len(s) /\ j \in Nat
          BY <1>1, <3>2, <3>4
        <4> QED BY <2>2, <3>1, <4>1
      <3>6. v[j].role = s[j].role
        BY <3>5 DEF View
      <3> QED BY <3>3, <3>4, <3>6
    <2> QED BY <1>1, <2>1, <2>2
  <1> QED BY <1>0, <1>3, <1>4, <1>5, <1>6 DEF Skeleton

\* A result in full behind the frontier, its call behind the boundary, is in the
\* repaired view.
LEMMA FreshInView ==
  ASSUME NEW s, NEW C, NEW n, Sound(s, C, n), NEW b \in 0..Len(s), NEW f \in b..Len(s), NEW c, NEW v,
         View(v, s, b, f, c),
         NEW k \in 1..Len(s), s[k].role = "tool", f < k, s[k].id \notin C, b < LastAssistant(s, k)
  PROVE  s[k] \in Range(sanitize_tool_call_pairing(demote_orphan_tool_results(v)))
  <1> DEFINE d == demote_orphan_tool_results(v)
             r == sanitize_tool_call_pairing(d)
             z == LastAssistant(s, k)
             t == c + (k - b)
             a == c + (z - b)
  <1>0. /\ s \in Seq(Message) /\ CallsOnce(s) /\ InBlock(s) /\ AnsweredOnce(s, C)
    BY DEF Sound
  <1>1. /\ Len(s) \in Nat /\ Len(v) \in Nat /\ c \in {0, 2} /\ Len(v) = c + (Len(s) - b)
    BY <1>0, Viewed
  <1>2. z \in 1..Len(s) /\ z < k /\ s[k].id \in Calls(s[z])
    BY <1>0, BlockOf
  <1>3. Skeleton(v, n)
    BY ViewHasSkeleton
  <1>4. z \in (b + 1)..Len(s) /\ k \in (b + 1)..Len(s) /\ k > f
    BY <1>1, <1>2
  <1>5. v[t] = s[k] /\ v[a].calls = s[z].calls
    BY <1>4 DEF View
  <1> HIDE DEF d, r, z
  <1>6. t \in 1..Len(v) /\ a \in 1..(t - 1)
    <2>1. b \in Nat /\ c \in Nat /\ k \in Nat /\ z \in Nat /\ b < z /\ z < k /\ k <= Len(s)
      BY <1>1, <1>2, <1>4
    <2> DEFINE x == Len(s)
               y == Len(v)
    <2>2. x \in Nat /\ y \in Nat /\ k <= x /\ y = c + (x - b)
      BY <1>1, <2>1
    <2> HIDE DEF x, y
    <2>3. t \in 1..y
      BY <2>1, <2>2
    <2>4. a \in 1..(t - 1)
      BY <2>1
    <2> QED BY <2>3, <2>4 DEF y
  <1>7. Paired(v, t)
    <2>1. v[t].id \in Calls(v[a])
      BY <1>2, <1>5 DEF Calls
    <2>2. ASSUME NEW u \in (a + 1)..(t - 1), v[u].role = "tool"
          PROVE  v[u].id # v[t].id
      <3>0. a > c /\ a \in Nat /\ t \in Nat /\ t <= Len(v) /\ u > a /\ u < t
        <4>1. a > c /\ a \in Nat
          BY <1>1, <1>4
        <4>2. t \in Nat /\ t <= Len(v)
          BY <1>1, <1>6
        <4> HIDE DEF a, t
        <4> QED BY <4>1, <4>2
      <3>1. u \in 1..Len(v) /\ u > c
        <4> HIDE DEF a, t
        <4> QED BY <1>1, <3>0
      <3>2. PICK w \in (b + 1)..Len(s) : u = c + (w - b) /\ w \in 1..Len(s) /\ v[u].role = s[w].role /\ v[u].id = s[w].id
        <4>1. \/ u <= c
              \/ \E w \in (b + 1)..Len(s) : u = c + (w - b) /\ w \in 1..Len(s) /\ v[u].role = s[w].role /\ v[u].id = s[w].id
          <5> HIDE DEF a, t
          <5> QED BY <1>0, <3>1, Viewed
        <4>2. ~ (u <= c)
          BY <1>1, <3>1
        <4> QED BY <4>1, <4>2
      <3>3. w # k
        BY <1>1, <1>4, <3>2
      <3> QED BY <1>0, <1>5, <2>2, <3>2, <3>3 DEF AnsweredOnce
    <2> HIDE DEF a, t
    <2> QED BY <1>6, <2>1, <2>2 DEF Paired
  <1> HIDE DEF t, a
  <1>8. Sound(d, {}, n) /\ Len(d) = Len(v) /\ d[t] = v[t]
    BY <1>3, <1>6, <1>7, DemoteMakesSound DEF d
  <1>9. d \in Seq(Message)
    BY <1>8 DEF Sound
  <1>10. PICK e : Repaired(d, r, e)
    BY <1>9, Repairs DEF r
  <1>11. e[t] \in 1..Len(r) /\ r[e[t]] = d[t] /\ r \in Seq(Message)
    BY <1>6, <1>8, <1>9, <1>10, RepairedPlaces DEF Repaired
  <1>12. e[t] \in DOMAIN r
    BY <1>11, LenProperties
  <1>13. s[k] \in Range(r)
    BY <1>5, <1>8, <1>11, <1>12 DEF Range
  <1> QED BY <1>13 DEF r, d

\* The repaired view is what providers insist on.
LEMMA RequestIs ==
  ASSUME NEW s, NEW C, NEW n, Sound(s, C, n), NEW b \in 0..Len(s), NEW f \in b..Len(s), NEW c, NEW v,
         View(v, s, b, f, c)
  PROVE  LET r == sanitize_tool_call_pairing(demote_orphan_tool_results(v)) IN
         WellPaired(r) /\ UserFirst(r) /\ r \in Seq(Message)
  <1> DEFINE d == demote_orphan_tool_results(v)
             r == sanitize_tool_call_pairing(d)
  <1>1. Sound(d, {}, n)
    BY ViewHasSkeleton, DemoteMakesSound
  <1> HIDE DEF d
  <1>2. WellPaired(r)
    BY <1>1, RepairPairs
  <1>3. d \in Seq(Message)
    BY <1>1 DEF Sound
  <1>4. PICK e : Repaired(d, r, e)
    BY <1>3, Repairs
  <1>5. Sound(r, {}, n)
    BY <1>1, <1>4, RepairKeeps
  <1> HIDE DEF r
  <1>6. UserFirst(r) /\ r \in Seq(Message)
    BY <1>5 DEF Sound
  <1> QED BY <1>2, <1>6 DEF r, d

-----------------------------------------------------------------------------
(* The results that stay in full                                            *)

\* The results of a conversation are finitely many places of it.
LEMMA ToolsAre ==
  ASSUME NEW s \in Seq(Message)
  PROVE  /\ ToolsIn(s) = {k \in 1..Len(s) : s[k].role = "tool"}
         /\ ToolsIn(s) \subseteq 1..Len(s) /\ IsFiniteSet(ToolsIn(s))
         /\ Cardinality(ToolsIn(s)) \in Nat /\ Len(s) \in Nat
  <1>1. Len(s) \in Nat /\ DOMAIN s = 1..Len(s)
    BY LenProperties
  <1>2. ToolsIn(s) = {k \in 1..Len(s) : s[k].role = "tool"}
    BY <1>1 DEF ToolsIn
  <1>3. ToolsIn(s) \subseteq 1..Len(s)
    BY <1>2
  <1>4. IsFiniteSet(1..Len(s))
    BY <1>1, FS_Interval
  <1>5. IsFiniteSet(ToolsIn(s))
    BY <1>3, <1>4, FS_Subset
  <1> QED BY <1>1, <1>2, <1>3, <1>5, FS_CardinalityType

\* Counted from the end, a set of numbers has a K-th element.
LEMMA CountDown ==
  ASSUME NEW N \in Nat, NEW T, T \subseteq 0..N
  PROVE  \A K \in Nat : K + 1 <= Cardinality(T) => \E k \in T : Cardinality({j \in T : j >= k}) = K + 1
  <1>0. IsFiniteSet(T) /\ Cardinality(T) \in Nat
    <2>1. IsFiniteSet(0..N)
      BY FS_Interval
    <2>2. IsFiniteSet(T)
      BY <2>1, FS_Subset
    <2> QED BY <2>2, FS_CardinalityType
  <1> DEFINE P == {K \in Nat : K + 1 <= Cardinality(T) => \E k \in T : Cardinality({j \in T : j >= k}) = K + 1}
  <1>1. 0 \in P
    <2> SUFFICES ASSUME 1 <= Cardinality(T)
                 PROVE  \E k \in T : Cardinality({j \in T : j >= k}) = 1
      OBVIOUS
    <2>1. T # {}
      BY FS_EmptySet
    <2>2. PICK k \in T : \A j \in T : j <= k
      BY <2>1, HasGreatest
    <2>3. {j \in T : j >= k} = {k}
      <3>1. k \in Nat /\ \A j \in T : j \in Nat
        OBVIOUS
      <3>2. \A j \in T : j >= k <=> j = k
        BY <2>2, <3>1
      <3> QED BY <3>2
    <2>4. Cardinality({j \in T : j >= k}) = 1
      BY <2>3, FS_Singleton
    <2> QED BY <2>4
  <1>2. ASSUME NEW K \in Nat, K \in P
        PROVE  K + 1 \in P
    <2> SUFFICES ASSUME (K + 1) + 1 <= Cardinality(T)
                 PROVE  \E k \in T : Cardinality({j \in T : j >= k}) = (K + 1) + 1
      OBVIOUS
    <2>1. K + 1 <= Cardinality(T)
      BY <1>0
    <2>2. PICK k \in T : Cardinality({j \in T : j >= k}) = K + 1
      BY <1>2, <2>1
    <2> DEFINE U == {j \in T : j >= k}
               V == {j \in T : j < k}
    <2>3. V # {}
      <3> SUFFICES ASSUME V = {}
                   PROVE  FALSE
        OBVIOUS
      <3>1. \A j \in T : j \in Nat
        OBVIOUS
      <3>2. T = U
        <4>1. \A j \in T : ~ (j < k)
          OBVIOUS
        <4>2. \A j \in T : j >= k
          BY <3>1, <4>1
        <4> QED BY <4>2
      <3>3. Cardinality(T) = K + 1
        BY <2>2, <3>2
      <3> QED BY <3>3
    <2>4. V \subseteq 0..N
      OBVIOUS
    <2>5. PICK l \in V : \A j \in V : j <= l
      <3> HIDE DEF V
      <3> QED BY <2>3, <2>4, HasGreatest
    <2>6. {j \in T : j >= l} = U \cup {l} /\ l \notin U /\ l \in T
      <3>1. l \in Nat /\ k \in Nat /\ l < k /\ \A j \in T : j \in Nat
        OBVIOUS
      <3>2. \A j \in T : j >= l <=> (j >= k \/ j = l)
        <4> TAKE j \in T
        <4>1. j < k => j <= l
          BY <2>5
        <4> QED BY <3>1, <4>1
      <3>3. {j \in T : j >= l} = {j \in T : j >= k \/ j = l}
        BY <3>2
      <3>4. {j \in T : j >= k \/ j = l} = U \cup {l}
        OBVIOUS
      <3>5. l \notin U
        BY <3>1
      <3> QED BY <3>3, <3>4, <3>5
    <2>7. IsFiniteSet(U) /\ Cardinality(U) = K + 1
      BY <1>0, <2>2, FS_Subset
    <2> HIDE DEF U, V
    <2>8. Cardinality(U \cup {l}) = (K + 1) + 1
      BY <2>6, <2>7, FS_AddElement
    <2> QED BY <2>6, <2>8
  <1>3. Nat \subseteq P
    <2> HIDE DEF P
    <2> QED BY <1>1, <1>2, Induct
  <1> QED BY <1>3

\* The frontier the loop may move to is within the conversation and before the latest
\* results, if there are no more of them than it keeps.
LEMMA FrontierIs ==
  ASSUME NEW s \in Seq(Message), NEW L, L \subseteq ToolsIn(s),
         \A k \in L : \A j \in ToolsIn(s) : j >= k => j \in L
  PROVE  /\ advance_frontier(s) \in 0..Len(s)
         /\ Cardinality(L) <= KeepResults => \A k \in L : advance_frontier(s) < k
  <1> DEFINE T == ToolsIn(s)
             Late(k) == Cardinality({j \in T : j >= k})
  <1>0. T \subseteq 1..Len(s) /\ IsFiniteSet(T) /\ Cardinality(T) \in Nat /\ Len(s) \in Nat
    BY ToolsAre
  <1>1. KeepResults \in Nat /\ KeepResults # 0
    BY AgentLoopAssumption
  <1>2. CASE Cardinality(T) <= KeepResults
    <2>1. advance_frontier(s) = 0
      BY <1>2 DEF advance_frontier
    <2>2. \A k \in L : 0 < k
      BY <1>0
    <2> QED BY <1>0, <2>1, <2>2
  <1>3. CASE ~ (Cardinality(T) <= KeepResults)
    <2> DEFINE late == {k \in T : Late(k) = KeepResults}
               c == CHOOSE k \in late : TRUE
    <2>1. advance_frontier(s) = c - 1
      BY <1>3 DEF advance_frontier
    <2>2. \E k \in T : Late(k) = KeepResults
      <3>1. KeepResults - 1 \in Nat /\ (KeepResults - 1) + 1 = KeepResults /\ KeepResults <= Cardinality(T)
        BY <1>0, <1>1, <1>3
      <3>2. T \subseteq 0..Len(s)
        BY <1>0
      <3> HIDE DEF T
      <3>3. \E k \in T : Cardinality({j \in T : j >= k}) = (KeepResults - 1) + 1
        <4>1. \A K \in Nat : K + 1 <= Cardinality(T) => \E k \in T : Cardinality({j \in T : j >= k}) = K + 1
          BY <1>0, <3>2, CountDown
        <4> DEFINE q == KeepResults - 1
        <4>2. q \in Nat /\ q + 1 <= Cardinality(T)
          BY <3>1
        <4> HIDE DEF q
        <4>3. \E k \in T : Cardinality({j \in T : j >= k}) = q + 1
          BY <4>1, <4>2
        <4> QED BY <4>3 DEF q
      <3> QED BY <3>1, <3>3
    <2>3. c \in late
      BY <2>2
    <2> HIDE DEF c
    <2>4. c \in T /\ Late(c) = KeepResults
      BY <2>3
    <2>5. c - 1 \in 0..Len(s) /\ c \in Nat
      BY <1>0, <2>4
    <2>6. ASSUME Cardinality(L) <= KeepResults, NEW k \in L, k < c
          PROVE  FALSE
      <3> DEFINE U == {j \in T : j >= c}
      <3>1. U \cup {k} \subseteq L /\ k \notin U
        <4>1. \A j \in T : j \in Nat
          BY <1>0
        <4>2. k \in T
          OBVIOUS
        <4>3. \A j \in U : j \in T /\ j >= k
          BY <2>5, <2>6, <4>1, <4>2
        <4>4. \A j \in U : j \in L
          BY <4>3
        <4>5. k \notin U
          BY <2>5, <2>6, <4>1, <4>2
        <4> QED BY <4>4, <4>5
      <3>2. IsFiniteSet(U) /\ Cardinality(U) = KeepResults
        BY <1>0, <2>4, FS_Subset
      <3>3. IsFiniteSet(L) /\ Cardinality(L) \in Nat
        BY <1>0, FS_Subset, FS_CardinalityType
      <3> HIDE DEF U
      <3>4. Cardinality(U \cup {k}) = KeepResults + 1
        BY <3>1, <3>2, FS_AddElement
      <3>5. Cardinality(U \cup {k}) <= Cardinality(L)
        BY <3>1, <3>3, FS_Subset
      <3> QED BY <1>1, <2>6, <3>3, <3>4, <3>5
    <2>7. ASSUME Cardinality(L) <= KeepResults, NEW k \in L
          PROVE  c - 1 < k
      <3>1. k \in Nat
        BY <1>0
      <3>2. ~ (k < c)
        BY <2>6, <2>7
      <3> QED BY <2>5, <3>1, <3>2
    <2> QED BY <2>1, <2>5, <2>7
  <1> QED BY <1>2, <1>3

-----------------------------------------------------------------------------
(* The inductive invariant                                                  *)

\* The results since the last answer of the model; no more of them than are kept.
LatestIn(h) == {k \in ToolsIn(h) : k > LastAssistant(h, Len(h))}
Few(h) == Cardinality(LatestIn(h)) <= KeepResults

\* The calls still to run are different calls of the last assistant message; one that
\* has a result was answered by a repair.
OnTheWay(h, t, C) ==
  /\ t \in Seq(Nat)
  /\ \A i, j \in 1..Len(t) : t[i] = t[j] => i = j
  /\ \A i \in 1..Len(t) :
        /\ LastAssistant(h, Len(h)) # 0 /\ t[i] \in Calls(h[LastAssistant(h, Len(h))])
        /\ t[i] \in C \/ \A k \in 1..Len(h) : h[k].role = "tool" => h[k].id # t[i]

\* The summary ends before the last assistant message, the frontier before the latest
\* results if there are no more of them than the loop keeps.
MarksWithin(h, l) ==
  /\ {"boundary", "frontier", "summary"} \subseteq DOMAIN l
  /\ l.boundary \in 0..Len(h) /\ l.frontier \in 0..Len(h)
  /\ l.summary \in BOOLEAN /\ (~ l.summary => l.boundary = 0)
  /\ LastAssistant(h, Len(h)) # 0 => l.boundary < LastAssistant(h, Len(h))
  /\ Few(h) => \A k \in LatestIn(h) : l.frontier < k

\* r has the latest results of h, as the tools gave them.
Shown(h, C, r) ==
  Few(h) => \A k \in LatestIn(h) : h[k].body = "result" /\ h[k].id \notin C => h[k] \in Range(r)

\* A user has spoken.
HasUser(h) == \E k \in 1..Len(h) : h[k].role = "user"

\* The conversation and what is saved of it are sound; a turn under way has a user.
Conversations ==
  /\ calls \in Nat /\ (frontend # "tui" => clobbered = {})
  /\ Sound(hist, clobbered, calls) /\ Sound(stored, clobbered, calls)
  /\ at # "idle" => HasUser(hist)
\* The calls of the round, the marks, and the request under way.
Running == (at # "tools" => todo = <<>>) /\ OnTheWay(hist, todo, clobbered)
MarksStand == MarksWithin(hist, loop)
Requested ==
  at \in {"asking", "compacting"} =>
     /\ request \in Seq(Message) /\ WellPaired(request) /\ UserFirst(request)
     /\ Shown(hist, clobbered, request)

\* The inductive invariant.
LoopInv == Conversations /\ Running /\ MarksStand /\ Requested /\ SavedIsWhole

\* The latest results: those behind the last assistant message.
LEMMA LatestAre ==
  ASSUME NEW h \in Seq(Message)
  PROVE  /\ LatestIn(h) = {k \in 1..Len(h) : h[k].role = "tool" /\ k > LastAssistant(h, Len(h))}
         /\ IsFiniteSet(LatestIn(h)) /\ Cardinality(LatestIn(h)) \in Nat
  <1>1. LatestIn(h) = {k \in 1..Len(h) : h[k].role = "tool" /\ k > LastAssistant(h, Len(h))}
    BY ToolsAre DEF LatestIn
  <1>2. LatestIn(h) \subseteq ToolsIn(h) /\ IsFiniteSet(ToolsIn(h))
    BY ToolsAre DEF LatestIn
  <1>3. IsFiniteSet(LatestIn(h))
    BY <1>2, FS_Subset
  <1> QED BY <1>1, <1>3, FS_CardinalityType

\* Fewer results, fewer of the latest.
LEMMA FewerAreFew ==
  ASSUME NEW h \in Seq(Message), NEW r \in Seq(Message), LatestIn(h) \subseteq LatestIn(r), Few(r)
  PROVE  Few(h)
  <1>1. IsFiniteSet(LatestIn(r)) /\ Cardinality(LatestIn(r)) \in Nat /\ Cardinality(LatestIn(h)) \in Nat
    BY LatestAre
  <1>2. Cardinality(LatestIn(h)) <= Cardinality(LatestIn(r))
    BY <1>1, FS_Subset
  <1>3. KeepResults \in Nat
    BY AgentLoopAssumption
  <1> QED BY <1>1, <1>2, <1>3 DEF Few

\* The marks a turn starts with.
LEMMA FreshWithin ==
  ASSUME NEW h \in Seq(Message)
  PROVE  MarksWithin(h, FreshLoop)
  <1> DEFINE a == LastAssistant(h, Len(h))
  <1>1. Len(h) \in Nat
    BY LenProperties
  <1>2. a \in 0..Len(h)
    BY <1>1, LastAssistantIs
  <1>3. \A k \in LatestIn(h) : 0 < k
    BY LatestAre
  <1>4. /\ {"boundary", "frontier", "summary"} \subseteq DOMAIN FreshLoop
        /\ FreshLoop.boundary = 0 /\ FreshLoop.frontier = 0 /\ FreshLoop.summary = FALSE
    BY DEF FreshLoop
  <1>5. a # 0 => 0 < a
    BY <1>1, <1>2
  <1> HIDE DEF FreshLoop
  <1>6. FreshLoop.boundary \in 0..Len(h) /\ FreshLoop.frontier \in 0..Len(h)
    BY <1>1, <1>4
  <1>7. FreshLoop.summary \in BOOLEAN
    BY <1>4
  <1>8. \A k \in LatestIn(h) : FreshLoop.frontier < k
    BY <1>3, <1>4
  <1>9. LastAssistant(h, Len(h)) # 0 => FreshLoop.boundary < LastAssistant(h, Len(h))
    BY <1>4, <1>5
  <1> QED BY <1>4, <1>6, <1>7, <1>8, <1>9 DEF MarksWithin

\* Marks stay within a conversation that grows.
LEMMA WithinAppend ==
  ASSUME NEW h \in Seq(Message), NEW l, MarksWithin(h, l), NEW m \in Message
  PROVE  /\ MarksWithin(Append(h, m), l)
         /\ m.role # "assistant" => LatestIn(h) \subseteq LatestIn(Append(h, m))
  <1> DEFINE r == Append(h, m)
             N == Len(h)
             a == LastAssistant(h, N)
             b == LastAssistant(r, N + 1)
  <1>1. /\ r \in Seq(Message) /\ N \in Nat /\ Len(r) = N + 1 /\ r[N + 1] = m
        /\ \A i \in 1..N : r[i] = h[i]
        /\ \A i \in 1..(N + 1) : i \in 1..N \/ i = N + 1
        /\ m.role = "assistant" => b = N + 1
        /\ m.role # "assistant" => b = a
    BY AppendIs
  <1> HIDE DEF r
  <1>2. LatestIn(h) = {k \in 1..N : h[k].role = "tool" /\ k > a}
    BY LatestAre
  <1>3. LatestIn(r) = {k \in 1..(N + 1) : r[k].role = "tool" /\ k > b}
    BY <1>1, LatestAre
  <1>4. l.boundary \in 0..N /\ l.frontier \in 0..N /\ (a # 0 => l.boundary < a)
    BY DEF MarksWithin
  <1>5. a \in 0..N
    BY <1>1, LastAssistantIs
  <1> HIDE DEF N, a, b
  <1>6. m.role # "assistant" => LatestIn(h) \subseteq LatestIn(r)
    BY <1>1, <1>2, <1>3
  <1>7. l.boundary \in 0..(N + 1) /\ l.frontier \in 0..(N + 1) /\ (b # 0 => l.boundary < b)
    BY <1>1, <1>4, <1>5
  <1>8. Few(r) => \A k \in LatestIn(r) : l.frontier < k
    <2> SUFFICES ASSUME Few(r), NEW k \in LatestIn(r)
                 PROVE  l.frontier < k
      OBVIOUS
    <2>1. k \in 1..(N + 1) /\ r[k].role = "tool" /\ k > b
      BY <1>3
    <2>2. m.role # "assistant"
      BY <1>1, <2>1
    <2>3. CASE k = N + 1
      BY <1>1, <1>4, <2>3
    <2>4. CASE k \in 1..N
      <3>0. r[k] = h[k] /\ b = a
        BY <1>1, <2>2, <2>4
      <3>1. k \in LatestIn(h)
        BY <1>2, <2>1, <2>4, <3>0
      <3>2. Few(h)
        BY <1>1, <1>6, <2>2, FewerAreFew
      <3>3. \A j \in LatestIn(h) : l.frontier < j
        BY <3>2 DEF MarksWithin
      <3> QED BY <3>1, <3>3
    <2> QED BY <1>1, <2>1, <2>3, <2>4
  <1>9. MarksWithin(r, l)
    BY <1>1, <1>7, <1>8 DEF MarksWithin, b
  <1> QED BY <1>6, <1>9 DEF r

\* The marks are all of the loop's state that MarksWithin is about.
SameMarks(l, k) ==
  /\ DOMAIN k = DOMAIN l /\ k.boundary = l.boundary /\ k.frontier = l.frontier /\ k.summary = l.summary

\* Marks stay within a conversation of the same roles.
LEMMA WithinSame ==
  ASSUME NEW h, NEW l, NEW k, MarksWithin(h, l), SameMarks(l, k)
  PROVE  MarksWithin(h, k)
  BY DEF MarksWithin, SameMarks

\* Words that follow.
LEMMA SayKeeps ==
  ASSUME NEW h, NEW C, NEW n \in Nat, Sound(h, C, n),
         NEW role \in {"user", "assistant", "system"}, role # "assistant" \/ HasUser(h)
  PROVE  /\ Say(role) \in Message /\ Append(h, Say(role)) \in Seq(Message)
         /\ Sound(Append(h, Say(role)), C, n)
         /\ role = "user" \/ HasUser(h) => HasUser(Append(h, Say(role)))
  <1> DEFINE m == Say(role)
             r == Append(h, m)
  <1>0. h \in Seq(Message)
    BY DEF Sound
  <1>1. m \in Message /\ m.role = role /\ m.calls = <<>>
    BY Messages DEF Roles
  <1> HIDE DEF m
  <1>2. Calls(m) = {} /\ DOMAIN m.calls = {}
    BY <1>1, NoCalls
  <1>3. Follows(h, C, n, m, n)
    BY <1>1, <1>2 DEF Follows, HasUser
  <1>4. Sound(r, C, n)
    BY <1>1, <1>3, AppendKeeps
  <1>5. Len(r) = Len(h) + 1 /\ Len(h) \in Nat /\ r[Len(h) + 1] = m /\ \A i \in 1..Len(h) : r[i] = h[i]
    BY <1>0, <1>1, AppendIs
  <1> HIDE DEF r
  <1>6. role = "user" => HasUser(r)
    <2>1. Len(h) + 1 \in 1..Len(r)
      BY <1>5
    <2> QED BY <1>1, <1>5, <2>1 DEF HasUser
  <1>7. HasUser(h) => HasUser(r)
    <2> SUFFICES ASSUME NEW k \in 1..Len(h), h[k].role = "user"
                 PROVE  HasUser(r)
      BY DEF HasUser
    <2>1. k \in 1..Len(r)
      BY <1>5
    <2> QED BY <1>5, <2>1 DEF HasUser
  <1>8. r \in Seq(Message)
    BY <1>4 DEF Sound
  <1> QED BY <1>1, <1>4, <1>6, <1>7, <1>8 DEF r, m

\* A repair keeps a conversation sound.
LEMMA SanitizeKeeps ==
  ASSUME NEW h, NEW C, NEW n, Sound(h, C, n)
  PROVE  /\ Sound(sanitize_tool_call_pairing(h), C, n)
         /\ C = {} => WellPaired(sanitize_tool_call_pairing(h))
  <1>0. h \in Seq(Message)
    BY DEF Sound
  <1>1. PICK e : Repaired(h, sanitize_tool_call_pairing(h), e)
    BY <1>0, Repairs
  <1>2. Sound(sanitize_tool_call_pairing(h), C, n)
    BY <1>1, RepairKeeps
  <1>3. C = {} => WellPaired(sanitize_tool_call_pairing(h))
    BY RepairPairs
  <1> QED BY <1>2, <1>3

\* Without calls to run nothing is on the way.
LEMMA OpenNone ==
  ASSUME NEW h, NEW C
  PROVE  OnTheWay(h, <<>>, C)
  <1>1. <<>> \in Seq(Nat) /\ Len(<<>>) = 0 /\ \A i \in 1..0 : FALSE
    BY EmptySeq
  <1> QED BY <1>1 DEF OnTheWay

\* A result that was waited for.
LEMMA AnswerKeeps ==
  ASSUME NEW h, NEW C, NEW n \in Nat, Sound(h, C, n), HasUser(h), NEW l, MarksWithin(h, l),
         NEW t, OnTheWay(h, t, C), t # <<>>
  PROVE  LET r == Append(h, Answer(Head(t), "result")) IN
         Sound(r, C, n) /\ HasUser(r) /\ MarksWithin(r, l) /\ OnTheWay(r, Tail(t), C)
  <1> DEFINE m == Answer(Head(t), "result")
             r == Append(h, m)
             N == Len(h)
             a == LastAssistant(h, N)
             u == Tail(t)
  <1>0. h \in Seq(Message) /\ t \in Seq(Nat)
    BY DEF Sound, OnTheWay
  <1>1. Head(t) \in Nat /\ u \in Seq(Nat) /\ Len(t) \in Nat /\ Len(t) # 0
        /\ Len(u) = Len(t) - 1 /\ \A i \in 1..Len(u) : u[i] = t[i + 1]
    BY <1>0, HeadTailProperties, LenProperties, EmptySeq
  <1>2. Head(t) = t[1] /\ 1 \in 1..Len(t)
    BY <1>0, <1>1
  <1>3. m \in Message /\ m.role = "tool" /\ m.calls = <<>> /\ m.id = t[1]
    BY <1>1, <1>2, Messages DEF Bodies
  <1> HIDE DEF m
  <1>4. /\ r \in Seq(Message) /\ N \in Nat /\ Len(r) = N + 1 /\ r[N + 1] = m
        /\ \A i \in 1..N : r[i] = h[i]
        /\ \A i \in 1..(N + 1) : i \in 1..N \/ i = N + 1
        /\ LastAssistant(r, N + 1) = a
    <2>1. m.role # "assistant"
      BY <1>3
    <2> QED BY <1>0, <1>3, <2>1, AppendIs
  <1>5. \A i \in 1..Len(t) : /\ a # 0 /\ t[i] \in Calls(h[a])
                             /\ t[i] \in C \/ \A k \in 1..N : h[k].role = "tool" => h[k].id # t[i]
    BY DEF OnTheWay
  <1>6. Follows(h, C, n, m, n)
    <2>1. Calls(m) = {} /\ DOMAIN m.calls = {}
      BY <1>3, NoCalls
    <2> QED BY <1>2, <1>3, <1>5, <2>1 DEF Follows, HasUser
  <1>7. Sound(r, C, n)
    BY <1>3, <1>6, AppendKeeps
  <1>8. MarksWithin(r, l)
    BY <1>0, <1>3, WithinAppend
  <1> HIDE DEF r
  <1>9. HasUser(r)
    <2>1. PICK k \in 1..N : h[k].role = "user"
      BY DEF HasUser
    <2>2. k \in 1..Len(r) /\ r[k] = h[k]
      BY <1>4
    <2> QED BY <2>1, <2>2 DEF HasUser
  <1>10. r[a] = h[a] \/ a = 0
    <2>1. a \in 0..N
      BY <1>4, LastAssistantIs
    <2> HIDE DEF a
    <2>2. a # 0 => a \in 1..N
      BY <1>4, <2>1
    <2> QED BY <1>4, <2>2
  <1> HIDE DEF u, a
  <1>11. \A i \in 1..Len(u) : i + 1 \in 1..Len(t) /\ i + 1 # 1
    BY <1>1
  <1>12. \A i, j \in 1..Len(u) : u[i] = u[j] => i = j
    <2> TAKE i, j \in 1..Len(u)
    <2>1. i + 1 \in 1..Len(t) /\ j + 1 \in 1..Len(t) /\ u[i] = t[i + 1] /\ u[j] = t[j + 1]
      BY <1>1, <1>11
    <2>2. t[i + 1] = t[j + 1] => i + 1 = j + 1
      BY <2>1 DEF OnTheWay
    <2> QED BY <1>1, <2>1, <2>2
  <1>13. \A i \in 1..Len(u) : /\ a # 0 /\ u[i] \in Calls(r[a])
                              /\ u[i] \in C \/ \A k \in 1..Len(r) : r[k].role = "tool" => r[k].id # u[i]
    <2> TAKE i \in 1..Len(u)
    <2>1. i + 1 \in 1..Len(t) /\ u[i] = t[i + 1]
      BY <1>1, <1>11
    <2>2. t[i + 1] # t[1]
      <3>1. t[i + 1] = t[1] => i + 1 = 1
        BY <1>2, <2>1 DEF OnTheWay
      <3> QED BY <1>11, <3>1
    <2>3. a # 0 /\ u[i] \in Calls(r[a])
      BY <1>5, <1>10, <2>1
    <2>4. ASSUME u[i] \notin C, NEW k \in 1..Len(r), r[k].role = "tool", r[k].id = u[i]
          PROVE  FALSE
      <3>1. k \in 1..N \/ k = N + 1
        BY <1>4
      <3>2. CASE k \in 1..N
        <4>1. r[k] = h[k]
          BY <1>4, <3>2
        <4> QED BY <1>5, <2>1, <2>4, <3>2, <4>1
      <3>3. CASE k = N + 1
        <4>1. r[k].id = t[1]
          BY <1>3, <1>4, <3>3
        <4> QED BY <2>1, <2>2, <2>4, <4>1
      <3> QED BY <3>1, <3>2, <3>3
    <2> QED BY <2>3, <2>4
  <1>14. OnTheWay(r, u, C)
    BY <1>1, <1>4, <1>12, <1>13 DEF OnTheWay
  <1> QED BY <1>7, <1>8, <1>9, <1>14 DEF r, m, u

\* Concatenated messages may be grouped either way.
LEMMA GroupedEitherWay ==
  ASSUME NEW a \in Seq(Message), NEW b \in Seq(Message), NEW c \in Seq(Message)
  PROVE  a \o (b \o c) = (a \o b) \o c
<1>1. (a \o b) \o c = a \o (b \o c)
  BY ConcatAssociative
<1> QED BY <1>1

\* All results at once.
LEMMA AnswersKeep ==
  ASSUME NEW h, NEW C, NEW n \in Nat, Sound(h, C, n), HasUser(h), NEW l, MarksWithin(h, l),
         NEW t, OnTheWay(h, t, C)
  PROVE  LET r == h \o [i \in DOMAIN t |-> Answer(t[i], "result")] IN
         Sound(r, C, n) /\ HasUser(r) /\ MarksWithin(r, l)
  <1> DEFINE A == [i \in DOMAIN t |-> Answer(t[i], "result")]
             L == Len(t)
             g(j) == h \o SubSeq(A, 1, j)
             u(j) == SubSeq(t, j + 1, L)
             P == {j \in Nat : j <= L =>
                      Sound(g(j), C, n) /\ HasUser(g(j)) /\ MarksWithin(g(j), l) /\ OnTheWay(g(j), u(j), C)}
  <1>0. h \in Seq(Message) /\ t \in Seq(Nat) /\ L \in Nat /\ DOMAIN t = 1..L /\ \A i \in 1..L : t[i] \in Nat
    BY LenProperties, ElementOfSeq DEF Sound, OnTheWay
  <1>1. A \in Seq(Message) /\ Len(A) = L /\ \A i \in 1..L : A[i] = Answer(t[i], "result")
    <2>1. \A i \in 1..L : Answer(t[i], "result") \in Message
      BY <1>0, Messages DEF Bodies
    <2>2. A \in [1..L -> Message]
      BY <1>0, <2>1
    <2>3. \A i \in 1..L : A[i] = Answer(t[i], "result")
      BY <1>0
    <2> HIDE DEF L, A
    <2>4. A \in Seq(Message)
      BY <1>0, <2>2, IsASeq
    <2>5. Len(A) = L
      BY <1>0, <2>2, <2>4, LenProperties
    <2> QED BY <2>3, <2>4, <2>5
  <1> HIDE DEF A
  <1>2. 0 \in P
    <2>1. SubSeq(A, 1, 0) = <<>>
      BY SubSeqEmpty
    <2>2. g(0) = h
      BY <1>0, <2>1, ConcatEmptySeq
    <2>3. u(0) = t
      BY <1>0, SubSeqFull
    <2> HIDE DEF g, u
    <2> QED BY <2>2, <2>3
  <1>3. ASSUME NEW j \in Nat, j \in P
        PROVE  j + 1 \in P
    <2> SUFFICES ASSUME j + 1 <= L
                 PROVE  /\ Sound(g(j + 1), C, n) /\ HasUser(g(j + 1)) /\ MarksWithin(g(j + 1), l)
                        /\ OnTheWay(g(j + 1), u(j + 1), C)
      OBVIOUS
    <2>1. j <= L /\ j + 1 \in 1..L /\ L \in (j + 1)..L /\ j + 1 \in 1..(j + 1) /\ 1 \in 1..L /\ j + 1 \in 1..L
      BY <1>0
    <2>2. Sound(g(j), C, n) /\ HasUser(g(j)) /\ MarksWithin(g(j), l) /\ OnTheWay(g(j), u(j), C)
      BY <1>3, <2>1
    <2>3. Head(u(j)) = t[j + 1] /\ Tail(u(j)) = SubSeq(t, (j + 1) + 1, L)
      BY <1>0, <2>1, HeadTailOfSubSeq
    <2>4. u(j) # <<>>
      <3>0. j + 1 \in Int /\ L \in Int /\ \A i \in (j + 1)..L : t[i] \in Nat
        <4>1. \A i \in (j + 1)..L : i \in 1..L
          BY <1>0
        <4> QED BY <1>0, <4>1
      <3>1. Len(u(j)) = IF j + 1 <= L THEN L - (j + 1) + 1 ELSE 0
        BY <3>0, SubSeqProperties
      <3>2. j + 1 <= L /\ L - (j + 1) + 1 # 0
        <4> HIDE DEF L
        <4> QED BY <1>0, <2>1
      <3>3. Len(u(j)) # 0
        BY <3>1, <3>2
      <3>4. Len(<<>>) = 0
        OBVIOUS
      <3> HIDE DEF u
      <3> QED BY <3>3, <3>4
    <2>5. g(j + 1) = Append(g(j), Answer(t[j + 1], "result"))
      <3> DEFINE x == SubSeq(A, 1, j)
                 y == Answer(t[j + 1], "result")
      <3>1. y \in Message
        BY <1>0, <2>1, Messages DEF Bodies
      <3>2. x \in Seq(Message)
        <4>1. \A i \in 1..j : A[i] \in Message
          <5>1. \A i \in 1..j : i \in 1..Len(A)
            BY <1>1, <2>1
          <5> QED BY <1>1, <5>1, ElementOfSeq
        <4> QED BY <4>1, SubSeqProperties
      <3>3. SubSeq(A, 1, j + 1) = SubSeq(A, 1, (j + 1) - 1) \o <<A[j + 1]>>
        <4>1. 1 \in 1..Len(A) /\ j + 1 \in 1..Len(A)
          BY <1>1, <2>1
        <4> QED BY <1>1, <4>1, SubSeqRecursiveSecond
      <3>4. (j + 1) - 1 = j /\ A[j + 1] = y
        BY <1>1, <2>1
      <3>5. g(j + 1) = h \o (x \o <<y>>)
        BY <3>3, <3>4
      <3> HIDE DEF x, y, g
      <3>6. <<y>> \in Seq(Message)
        BY <3>1
      <3>7. h \o (x \o <<y>>) = (h \o x) \o <<y>>
        <4>1. h \in Seq(Message)
          BY <1>0
        <4> QED BY <3>2, <3>6, <4>1, GroupedEitherWay
      <3>8. h \o x \in Seq(Message)
        BY <1>0, <3>2, ConcatProperties
      <3>9. (h \o x) \o <<y>> = Append(h \o x, y)
        BY <3>1, <3>8, AppendIsConcat
      <3> QED BY <3>5, <3>7, <3>9 DEF x, y, g
    <2> HIDE DEF g
    <2>6. u(j + 1) = Tail(u(j))
      BY <2>3
    <2> HIDE DEF u
    <2>7. g(j + 1) = Append(g(j), Answer(Head(u(j)), "result"))
      BY <2>3, <2>5
    <2> QED BY <2>2, <2>4, <2>6, <2>7, AnswerKeeps
  <1>4. L \in P
    <2>1. Nat \subseteq P
      <3> HIDE DEF P
      <3> QED BY <1>2, <1>3, Induct
    <2> QED BY <1>0, <2>1
  <1>5. SubSeq(A, 1, L) = A
    BY <1>1, SubSeqFull
  <1>6. g(L) = h \o A
    BY <1>5
  <1>7. Sound(g(L), C, n) /\ HasUser(g(L)) /\ MarksWithin(g(L), l)
    BY <1>0, <1>4
  <1> HIDE DEF g
  <1> QED BY <1>6, <1>7 DEF A

\* What a repair of the conversation itself does to the latest results.
LEMMA LatestRepaired ==
  ASSUME NEW h \in Seq(Message), NEW r, NEW e, Repaired(h, r, e), Len(h) # 0
  PROVE  LET N == Len(h)
             a == LastAssistant(h, N)
             b == LastAssistant(r, Len(r))
         IN  /\ a = 0 => b = 0
             /\ a # 0 => b = e[a] /\ a \in 1..N
             /\ \A k \in LatestIn(h) : e[k] \in LatestIn(r)
             /\ \A p \in LatestIn(r) : \/ \E k \in LatestIn(h) : p = e[k] /\ r[p] = h[k]
                                       \/ N < p /\ r[p].body = "interrupted"
             /\ Few(r) => Few(h)
  <1> DEFINE N == Len(h)
             a == LastAssistant(h, N)
             b == LastAssistant(r, Len(r))
  <1>0. r \in Seq(Message)
    BY DEF Repaired
  <1>1. /\ N \in Nat /\ Len(r) \in Nat /\ N \in 1..N
        /\ \A k \in 1..N : e[k] \in 1..Len(r) /\ k <= e[k] /\ r[e[k]] = h[k] /\ At(h, e, k, e[k])
        /\ \A k, l \in 1..N : k < l => e[k] < e[l]
    <2>1. Len(h) \in Nat /\ Len(r) \in Nat
      BY <1>0, LenProperties
    <2>2. N \in 1..N
      BY <2>1
    <2> QED BY <2>1, <2>2, RepairedPlaces
  <1>2. Len(r) \in 1..Len(r) /\ At(h, e, N, Len(r))
    <2>1. e[N] \in 1..Len(r)
      BY <1>1
    <2>2. \A l \in 1..N : ~ (N < l)
      BY <1>1
    <2> QED BY <1>1, <2>1, <2>2 DEF At
  <1>3. (a = 0 => b = 0) /\ (a # 0 => a \in 1..N /\ h[a].role = "assistant" /\ b = e[a])
    BY <1>2, RepairedLast
  <1>4. a # 0 => \A i \in (a + 1)..N : h[i].role # "assistant"
    BY <1>1, LastAssistantIs
  <1>5. LatestIn(h) = {k \in 1..N : h[k].role = "tool" /\ k > a}
    BY LatestAre
  <1>6. LatestIn(r) = {p \in 1..Len(r) : r[p].role = "tool" /\ p > b}
    BY <1>0, LatestAre
  <1>7. IsFiniteSet(LatestIn(r)) /\ Cardinality(LatestIn(r)) \in Nat /\ Cardinality(LatestIn(h)) \in Nat
    BY <1>0, LatestAre
  <1>8. a \in 0..N
    BY <1>1, LastAssistantIs
  <1> HIDE DEF N, a, b
  <1>9. \A k \in 1..N : e[k] \in Nat /\ 1 <= e[k]
    BY <1>1
  <1>10. ASSUME NEW k \in LatestIn(h)
         PROVE  e[k] \in LatestIn(r)
    <2>1. k \in 1..N /\ h[k].role = "tool" /\ k > a
      BY <1>5
    <2>2. e[k] \in 1..Len(r) /\ r[e[k]] = h[k]
      BY <1>1, <2>1
    <2>3. e[k] > b
      <3>1. CASE a = 0
        BY <1>3, <1>9, <2>1, <3>1
      <3>2. CASE a # 0
        <4>1. a \in 1..N /\ a < k /\ b = e[a]
          BY <1>3, <1>8, <2>1, <3>2
        <4>2. e[a] < e[k]
          BY <1>1, <2>1, <4>1
        <4> QED BY <1>9, <2>1, <4>1, <4>2
      <3> QED BY <3>1, <3>2
    <2> QED BY <1>6, <2>1, <2>2, <2>3
  <1>11. ASSUME NEW p \in LatestIn(r)
         PROVE  \/ \E k \in LatestIn(h) : p = e[k] /\ r[p] = h[k]
                \/ N < p /\ r[p].body = "interrupted"
    <2>1. p \in 1..Len(r) /\ r[p].role = "tool" /\ p > b
      BY <1>6
    <2>2. PICK k \in 1..N : At(h, e, k, p) /\ ((p = e[k] /\ r[p] = h[k]) \/ (Added(h, r, k, p) /\ r[p].body = "interrupted"))
      <3>1. \E k \in 1..Len(h) : At(h, e, k, p) /\ ((p = e[k] /\ r[p] = h[k]) \/ (Added(h, r, k, p) /\ r[p].body = "interrupted"))
        BY <2>1, Stands
      <3> QED BY <3>1 DEF N
    <2>3. CASE p = e[k] /\ r[p] = h[k]
      <3>1. k > a
        <4>1. CASE a = 0
          BY <4>1
        <4>2. CASE a # 0
          <5>1. a \in 1..N /\ b = e[a] /\ e[k] > e[a]
            BY <1>3, <2>1, <2>3, <4>2
          <5>2. ~ (k < a) /\ k # a
            <6>1. k < a => e[k] < e[a]
              BY <1>1, <5>1
            <6> QED BY <1>9, <5>1, <6>1
          <5> QED BY <1>1, <5>1, <5>2
        <4> QED BY <4>1, <4>2
      <3>2. k \in LatestIn(h)
        BY <1>5, <2>1, <2>3, <3>1
      <3> QED BY <2>3, <3>2
    <2>4. CASE Added(h, r, k, p) /\ r[p].body = "interrupted"
      <3> DEFINE z == LastAssistant(h, k)
      <3>1. z # 0 /\ Closes(h, k)
        BY <2>4 DEF Added
      <3>2. z \in 0..k /\ (z # 0 => h[z].role = "assistant")
        BY <1>1, LastAssistantIs
      <3> HIDE DEF z
      <3>3. k = N
        <4> SUFFICES ASSUME k # N
                     PROVE  FALSE
          OBVIOUS
        <4>1. k + 1 \in 1..N /\ h[k + 1].role = "assistant"
          BY <1>1, <3>1 DEF Closes, N
        <4>2. a # 0
          <5>1. a = 0 => \A i \in 1..N : h[i].role # "assistant"
            BY <1>1, LastAssistantIs DEF a
          <5> QED BY <4>1, <5>1
        <4>3. k + 1 <= a
          BY <1>1, <1>3, <1>4, <4>1, <4>2
        <4>4. p < e[k + 1]
          <5>1. k < k + 1
            OBVIOUS
          <5> QED BY <2>2, <4>1, <5>1 DEF At, N
        <4>5. e[k + 1] <= e[a]
          <5>1. CASE k + 1 = a
            BY <1>9, <4>1, <5>1
          <5>2. CASE k + 1 < a
            BY <1>1, <1>3, <1>9, <4>1, <4>2, <5>2
          <5> QED BY <1>3, <4>1, <4>2, <4>3, <5>1, <5>2
        <4>6. b = e[a] /\ e[a] \in Nat /\ e[k + 1] \in Nat /\ p \in Nat
          BY <1>1, <1>3, <1>9, <2>1, <4>1, <4>2
        <4> QED BY <2>1, <4>4, <4>5, <4>6
      <3>4. e[N] <= p
        BY <2>2, <3>3 DEF At
      <3>5. p # e[N]
        <4>1. ~ Added(h, r, k, e[k])
          BY AddedIsNew DEF N
        <4> QED BY <2>4, <3>3, <4>1
      <3>6. N <= e[N] /\ e[N] \in Nat /\ p \in Nat
        BY <1>1, <1>9, <2>1
      <3>7. N < p
        BY <1>1, <3>4, <3>5, <3>6
      <3> QED BY <2>4, <3>7
    <2> QED BY <2>2, <2>3, <2>4
  <1>12. Few(r) => Few(h)
    <2> DEFINE f == [k \in LatestIn(h) |-> e[k]]
    <2>1. f \in [LatestIn(h) -> LatestIn(r)]
      BY <1>10
    <2>2. \A k, l \in LatestIn(h) : f[k] = f[l] => k = l
      <3> TAKE k, l \in LatestIn(h)
      <3>1. k \in 1..N /\ l \in 1..N /\ k \in Nat /\ l \in Nat
        BY <1>1, <1>5
      <3>2. ~ (k = l) => k < l \/ l < k
        BY <3>1
      <3>3. (k < l => e[k] < e[l]) /\ (l < k => e[l] < e[k]) /\ e[k] \in Nat /\ e[l] \in Nat
        BY <1>1, <1>9, <3>1
      <3> QED BY <3>2, <3>3
    <2>3. f \in Injection(LatestIn(h), LatestIn(r))
      BY <2>1, <2>2 DEF Injection, IsInjective
    <2> HIDE DEF f
    <2>4. Cardinality(LatestIn(h)) <= Cardinality(LatestIn(r))
      BY <1>7, <2>3, FS_Injection
    <2>5. KeepResults \in Nat
      BY AgentLoopAssumption
    <2> QED BY <1>7, <2>4, <2>5 DEF Few
  <1> QED BY <1>3, <1>10, <1>11, <1>12 DEF N, a, b

\* The repair of the conversation the loop is using.
LEMMA SaveInPlace ==
  ASSUME NEW h, NEW C, NEW n, Sound(h, C, n)
  PROVE  LET r == sanitize_tool_call_pairing(h) IN
         /\ \A D : C \subseteq D => Sound(r, D, n)
         /\ HasUser(h) => HasUser(r)
         /\ \A l : MarksWithin(h, l) => MarksWithin(r, l)
         /\ \A t, D : OnTheWay(h, t, C) /\ Range(t) \subseteq D => OnTheWay(r, t, D)
         /\ \A q, D : Shown(h, C, q) /\ C \subseteq D => Shown(r, D, q)
  <1> DEFINE r == sanitize_tool_call_pairing(h)
             N == Len(h)
             a == LastAssistant(h, N)
             b == LastAssistant(r, Len(r))
  <1>0. h \in Seq(Message)
    BY DEF Sound
  <1>1. PICK e : Repaired(h, r, e)
    BY <1>0, Repairs
  <1>2. Sound(r, C, n)
    BY <1>1, RepairKeeps
  <1> HIDE DEF r
  <1>3. N \in Nat /\ Len(r) \in Nat /\ r \in Seq(Message) /\ N <= Len(r)
    BY <1>0, <1>1, LenProperties DEF Repaired
  <1>4. \A k \in 1..N : e[k] \in 1..Len(r) /\ r[e[k]] = h[k] /\ k <= e[k]
    BY <1>0, <1>1, RepairedPlaces
  <1>5. \A D : C \subseteq D => Sound(r, D, n)
    <2> TAKE D
    <2> HAVE C \subseteq D
    <2>1. AnsweredOnce(r, D)
      BY <1>2 DEF Sound, AnsweredOnce
    <2> QED BY <1>2, <2>1 DEF Sound
  <1>6. HasUser(h) => HasUser(r)
    BY <1>4 DEF HasUser
  <1>7. CASE N = 0
    <2>1. r = h
      <3>1. Len(r) = 0
        <4> SUFFICES ASSUME Len(r) # 0
                     PROVE  FALSE
          OBVIOUS
        <4>1. Len(r) \in 1..Len(r)
          BY <1>3
        <4>2. \E k \in 1..N : TRUE
          BY <1>0, <1>1, <4>1, Stands
        <4> QED BY <1>7, <4>2
      <3> QED BY <1>0, <1>3, <1>7, <3>1, EmptySeq
    <2>2. \A t, D : OnTheWay(h, t, C) /\ Range(t) \subseteq D => OnTheWay(r, t, D)
      <3> TAKE t, D
      <3> HAVE OnTheWay(h, t, C) /\ Range(t) \subseteq D
      <3>1. \A i \in 1..Len(t) : t[i] \in D
        <4>1. t \in Seq(Nat)
          BY DEF OnTheWay
        <4>2. DOMAIN t = 1..Len(t)
          BY <4>1, LenProperties
        <4> QED BY <4>2 DEF Range
      <3> QED BY <2>1, <3>1 DEF OnTheWay
    <2>3. \A q, D : Shown(h, C, q) /\ C \subseteq D => Shown(r, D, q)
      BY <2>1 DEF Shown
    <2> QED BY <1>5, <2>1, <2>2, <2>3 DEF r
  <1>8. CASE N # 0
    <2>1. /\ a = 0 => b = 0
          /\ a # 0 => b = e[a] /\ a \in 1..N
          /\ \A p \in LatestIn(r) : \/ \E k \in LatestIn(h) : p = e[k] /\ r[p] = h[k]
                                    \/ N < p /\ r[p].body = "interrupted"
          /\ Few(r) => Few(h)
      BY <1>0, <1>1, <1>8, LatestRepaired
    <2>2. LatestIn(h) \subseteq 1..N
      BY <1>0, LatestAre
    <2> HIDE DEF a, b
    <2>3. \A l : MarksWithin(h, l) => MarksWithin(r, l)
      <3> TAKE l
      <3> HAVE MarksWithin(h, l)
      <3>1. l.boundary \in 0..N /\ l.frontier \in 0..N /\ (a # 0 => l.boundary < a)
        BY DEF MarksWithin, a
      <3>2. l.boundary \in 0..Len(r) /\ l.frontier \in 0..Len(r)
        BY <1>3, <3>1
      <3>3. b # 0 => l.boundary < b
        <4> SUFFICES ASSUME b # 0
                     PROVE  l.boundary < b
          OBVIOUS
        <4>1. a # 0 /\ b = e[a] /\ a \in 1..N
          BY <2>1
        <4>2. a <= e[a] /\ e[a] \in 1..Len(r) /\ l.boundary < a
          BY <1>4, <3>1, <4>1
        <4> QED BY <1>3, <3>1, <4>1, <4>2
      <3>4. ASSUME Few(r), NEW p \in LatestIn(r)
            PROVE  l.frontier < p
        <4>1. CASE \E k \in LatestIn(h) : p = e[k]
          <5>1. PICK k \in LatestIn(h) : p = e[k]
            BY <4>1
          <5>2. l.frontier < k
            BY <2>1, <3>4 DEF MarksWithin
          <5>3. k \in 1..N /\ k <= e[k] /\ e[k] \in 1..Len(r)
            BY <1>4, <2>2
          <5> QED BY <3>1, <5>1, <5>2, <5>3
        <4>2. CASE N < p
          <5>1. p \in 1..Len(r)
            BY <1>3, LatestAre
          <5> QED BY <1>3, <3>1, <4>2, <5>1
        <4> QED BY <2>1, <4>1, <4>2
      <3> QED BY <3>2, <3>3, <3>4 DEF MarksWithin, b
    <2>4. \A t, D : OnTheWay(h, t, C) /\ Range(t) \subseteq D => OnTheWay(r, t, D)
      <3> TAKE t, D
      <3> HAVE OnTheWay(h, t, C) /\ Range(t) \subseteq D
      <3>1. t \in Seq(Nat) /\ \A i, j \in 1..Len(t) : t[i] = t[j] => i = j
        BY DEF OnTheWay
      <3>2. DOMAIN t = 1..Len(t)
        BY <3>1, LenProperties
      <3>3. \A i \in 1..Len(t) : t[i] \in D
        BY <3>2 DEF Range
      <3>4. \A i \in 1..Len(t) : a # 0 /\ t[i] \in Calls(h[a])
        BY DEF OnTheWay, a
      <3>5. \A i \in 1..Len(t) : b # 0 /\ t[i] \in Calls(r[b])
        <4> TAKE i \in 1..Len(t)
        <4>1. a # 0 /\ b = e[a] /\ a \in 1..N
          BY <2>1, <3>4
        <4>2. e[a] \in 1..Len(r) /\ r[b] = h[a]
          BY <1>4, <4>1
        <4> QED BY <1>3, <3>4, <4>1, <4>2
      <3> QED BY <3>1, <3>3, <3>5 DEF OnTheWay, b
    <2>5. \A q, D : Shown(h, C, q) /\ C \subseteq D => Shown(r, D, q)
      <3> TAKE q, D
      <3> HAVE Shown(h, C, q) /\ C \subseteq D
      <3> SUFFICES ASSUME Few(r), NEW p \in LatestIn(r), r[p].body = "result", r[p].id \notin D
                   PROVE  r[p] \in Range(q)
        BY DEF Shown
      <3>1. PICK k \in LatestIn(h) : p = e[k] /\ r[p] = h[k]
        BY <2>1
      <3> QED BY <2>1, <3>1 DEF Shown
    <2> QED BY <1>5, <1>6, <2>3, <2>4, <2>5 DEF r
  <1> QED BY <1>7, <1>8

-----------------------------------------------------------------------------
(* The steps                                                                *)

\* A result after the last assistant message is of that message's block.
LEMMA LatestBlock ==
  ASSUME NEW h \in Seq(Message), InBlock(h), NEW k \in LatestIn(h)
  PROVE  LET a == LastAssistant(h, Len(h)) IN
         k \in 1..Len(h) /\ h[k].role = "tool" /\ a # 0 /\ a < k /\ LastAssistant(h, k) = a
  <1> DEFINE a == LastAssistant(h, Len(h))
             z == LastAssistant(h, k)
  <1>1. k \in 1..Len(h) /\ h[k].role = "tool" /\ k > a /\ Len(h) \in Nat
    BY LatestAre, LenProperties
  <1>2. z \in 1..Len(h) /\ z < k /\ h[z].role = "assistant" /\ \A i \in (z + 1)..k : h[i].role # "assistant"
    BY <1>1, BlockOf
  <1>3. /\ a \in 0..Len(h)
        /\ a = 0 => \A i \in 1..Len(h) : h[i].role # "assistant"
        /\ a # 0 => h[a].role = "assistant" /\ \A i \in (a + 1)..Len(h) : h[i].role # "assistant"
    BY <1>1, LastAssistantIs
  <1> HIDE DEF a, z
  <1>4. a # 0
    BY <1>2, <1>3
  <1>5. ~ (a < z)
    BY <1>2, <1>3, <1>4
  <1>6. ~ (z < a)
    BY <1>1, <1>2, <1>3, <1>4
  <1>7. z = a
    BY <1>2, <1>3, <1>5, <1>6
  <1> QED BY <1>1, <1>2, <1>4, <1>7 DEF a, z

\* A turn that ends or is cancelled.
LEMMA TurnOverKeeps ==
  ASSUME LoopInv, NEW h, TurnOver(h), Sound(h, clobbered, calls), UNCHANGED <<frontend, calls, clobbered>>
  PROVE  LoopInv'
  <1>0. h \in Seq(Message)
    BY DEF Sound
  <1>1. /\ hist' = h /\ at' = "idle" /\ loop' = FreshLoop /\ todo' = <<>>
        /\ stored' = IF frontend = "daemon" THEN sanitize_tool_call_pairing(h) ELSE stored
        /\ frontend' = frontend /\ calls' = calls /\ clobbered' = clobbered
    BY DEF TurnOver
  <1>2. calls \in Nat /\ (frontend # "tui" => clobbered = {}) /\ Sound(stored, clobbered, calls)
    BY DEF LoopInv, Conversations
  <1>3. Sound(stored', clobbered, calls)
    BY <1>1, <1>2, SanitizeKeeps
  <1>4. Conversations'
    BY <1>1, <1>2, <1>3 DEF Conversations
  <1>5. Running'
    BY <1>1, OpenNone DEF Running
  <1>6. MarksStand'
    BY <1>0, <1>1, FreshWithin DEF MarksStand
  <1>7. Requested'
    BY <1>1 DEF Requested
  <1>8. SavedIsWhole'
    <2> SUFFICES ASSUME frontend = "daemon"
                 PROVE  WellPaired(stored')
      BY <1>1 DEF SavedIsWhole
    <2>1. clobbered = {} /\ stored' = sanitize_tool_call_pairing(h)
      BY <1>1, <1>2
    <2> QED BY <2>1, SanitizeKeeps
  <1> QED BY <1>4, <1>5, <1>6, <1>7, <1>8 DEF LoopInv

\* A turn begins.
LEMMA UserTurnKeeps ==
  ASSUME LoopInv, UserTurn
  PROVE  LoopInv'
  <1> DEFINE h == IF frontend = "daemon" THEN stored ELSE hist
  <1>1. calls \in Nat /\ (frontend # "tui" => clobbered = {}) /\ Sound(stored, clobbered, calls)
        /\ Sound(h, clobbered, calls)
    BY DEF LoopInv, Conversations
  <1>2. /\ hist' = Append(h, Say("user")) /\ at' = "top" /\ loop' = FreshLoop /\ todo' = <<>>
        /\ stored' = IF frontend = "daemon" THEN sanitize_tool_call_pairing(hist') ELSE stored
        /\ frontend' = frontend /\ calls' = calls /\ clobbered' = clobbered
    BY DEF UserTurn
  <1> HIDE DEF h
  <1>3. Sound(hist', clobbered, calls) /\ HasUser(hist') /\ hist' \in Seq(Message)
    BY <1>1, <1>2, SayKeeps
  <1>4. Sound(stored', clobbered, calls)
    BY <1>1, <1>2, <1>3, SanitizeKeeps
  <1>5. Conversations'
    BY <1>1, <1>2, <1>3, <1>4 DEF Conversations
  <1>6. Running'
    BY <1>2, OpenNone DEF Running
  <1>7. MarksStand'
    BY <1>2, <1>3, FreshWithin DEF MarksStand
  <1>8. Requested'
    BY <1>2 DEF Requested
  <1>9. SavedIsWhole'
    <2> SUFFICES ASSUME frontend = "daemon"
                 PROVE  WellPaired(stored')
      BY <1>2 DEF SavedIsWhole
    <2>1. clobbered = {} /\ stored' = sanitize_tool_call_pairing(hist')
      BY <1>1, <1>2
    <2> QED BY <1>3, <2>1, SanitizeKeeps
  <1> QED BY <1>5, <1>6, <1>7, <1>8, <1>9 DEF LoopInv

\* The daemon saves a repaired copy.
LEMMA SnapshotKeeps ==
  ASSUME LoopInv, Snapshot
  PROVE  LoopInv'
  <1>1. /\ frontend = "daemon" /\ stored' = sanitize_tool_call_pairing(hist)
        /\ UNCHANGED <<frontend, hist, at, loop, request, todo, calls, clobbered>>
    BY DEF Snapshot
  <1>2. calls \in Nat /\ clobbered = {} /\ Sound(hist, clobbered, calls) /\ (at # "idle" => HasUser(hist))
    BY <1>1 DEF LoopInv, Conversations
  <1>3. Sound(stored', clobbered, calls) /\ WellPaired(stored')
    BY <1>1, <1>2, SanitizeKeeps
  <1>4. Conversations'
    BY <1>1, <1>2, <1>3 DEF Conversations
  <1>5. Running' /\ MarksStand' /\ Requested'
    BY <1>1 DEF LoopInv, Running, MarksStand, Requested
  <1>6. SavedIsWhole'
    BY <1>3 DEF SavedIsWhole
  <1> QED BY <1>4, <1>5, <1>6 DEF LoopInv

\* The TUI repairs the conversation the loop is using, and saves it.
LEMMA SavingKeeps ==
  ASSUME LoopInv, spawn_save_session
  PROVE  LoopInv'
  <1> DEFINE D == clobbered \cup Range(todo)
  <1>1. /\ frontend = "tui" /\ hist' = sanitize_tool_call_pairing(hist) /\ stored' \in {stored, hist'}
        /\ clobbered' = D
        /\ UNCHANGED <<frontend, at, loop, request, todo, calls>>
    BY DEF spawn_save_session
  <1>2. /\ calls \in Nat /\ Sound(hist, clobbered, calls) /\ Sound(stored, clobbered, calls)
        /\ (at # "idle" => HasUser(hist))
    BY DEF LoopInv, Conversations
  <1>3. clobbered \subseteq D /\ Range(todo) \subseteq D
    OBVIOUS
  <1> HIDE DEF D
  <1>4. /\ Sound(hist', D, calls)
        /\ HasUser(hist) => HasUser(hist')
        /\ \A l : MarksWithin(hist, l) => MarksWithin(hist', l)
        /\ \A t : OnTheWay(hist, t, clobbered) /\ Range(t) \subseteq D => OnTheWay(hist', t, D)
        /\ \A q : Shown(hist, clobbered, q) => Shown(hist', D, q)
    <2> DEFINE r == sanitize_tool_call_pairing(hist)
    <2>1. /\ \A E : clobbered \subseteq E => Sound(r, E, calls)
          /\ HasUser(hist) => HasUser(r)
          /\ \A l : MarksWithin(hist, l) => MarksWithin(r, l)
          /\ \A t, E : OnTheWay(hist, t, clobbered) /\ Range(t) \subseteq E => OnTheWay(r, t, E)
          /\ \A q, E : Shown(hist, clobbered, q) /\ clobbered \subseteq E => Shown(r, E, q)
      BY <1>2, SaveInPlace
    <2> HIDE DEF r
    <2>2. hist' = r
      BY <1>1 DEF r
    <2> QED BY <1>3, <2>1, <2>2
  <1>5. Sound(stored', D, calls)
    <2>1. AnsweredOnce(stored, D)
      BY <1>2, <1>3 DEF Sound, AnsweredOnce
    <2>2. Sound(stored, D, calls)
      BY <1>2, <2>1 DEF Sound
    <2> QED BY <1>1, <1>4, <2>2
  <1>6. Conversations'
    BY <1>1, <1>2, <1>4, <1>5 DEF Conversations
  <1>7. Running'
    BY <1>1, <1>3, <1>4 DEF LoopInv, Running
  <1>8. MarksStand'
    BY <1>1, <1>4 DEF LoopInv, MarksStand
  <1>9. Requested'
    BY <1>1, <1>4 DEF LoopInv, Requested
  <1>10. SavedIsWhole'
    BY <1>1 DEF SavedIsWhole
  <1> QED BY <1>6, <1>7, <1>8, <1>9, <1>10 DEF LoopInv

\* The session is opened again.
LEMMA ReopenKeeps ==
  ASSUME LoopInv, ReopenSession
  PROVE  LoopInv'
  <1>1. /\ hist' = stored /\ at' = "idle" /\ loop' = FreshLoop /\ todo' = <<>>
        /\ UNCHANGED <<frontend, stored, calls, clobbered>>
    BY DEF ReopenSession
  <1>2. Sound(stored, clobbered, calls) /\ stored \in Seq(Message)
    BY DEF LoopInv, Conversations, Sound
  <1>3. Conversations'
    BY <1>1, <1>2 DEF LoopInv, Conversations
  <1>4. Running'
    BY <1>1, OpenNone DEF Running
  <1>5. MarksStand'
    BY <1>1, <1>2, FreshWithin DEF MarksStand
  <1>6. Requested' /\ SavedIsWhole'
    BY <1>1 DEF LoopInv, Requested, SavedIsWhole
  <1> QED BY <1>3, <1>4, <1>5, <1>6 DEF LoopInv

\* A step of the loop that adds to the conversation, goes to the top of a round or to
\* its tools, and leaves the marks.
LEMMA LoopGoesOnFrom ==
  ASSUME LoopInv, UNCHANGED <<frontend, clobbered, stored>>, calls' \in Nat, calls <= calls',
         at' \in {"top", "tools"},
         Sound(hist', clobbered, calls'), HasUser(hist'), MarksWithin(hist', loop'),
         OnTheWay(hist', todo', clobbered), at' = "top" => todo' = <<>>
  PROVE  LoopInv'
  <1>1. Sound(stored, clobbered, calls')
    <2>1. calls \in Nat /\ Sound(stored, clobbered, calls)
      BY DEF LoopInv, Conversations
    <2>2. \A k \in 1..Len(stored) : \A id \in Calls(stored[k]) : stored[k].role = "assistant" /\ id \in 1..calls
      BY <2>1 DEF Sound, Callers
    <2>3. \A id \in 1..calls : id \in 1..calls'
      BY <2>1
    <2>4. Callers(stored, calls')
      BY <2>2, <2>3 DEF Callers
    <2> QED BY <2>1, <2>4 DEF Sound
  <1>2. Conversations'
    BY <1>1 DEF LoopInv, Conversations
  <1>3. Running'
    BY DEF Running
  <1>4. MarksStand'
    BY DEF MarksStand
  <1>5. Requested'
    BY DEF Requested
  <1>6. SavedIsWhole'
    BY DEF LoopInv, SavedIsWhole
  <1> QED BY <1>2, <1>3, <1>4, <1>5, <1>6 DEF LoopInv

\* What holds while a turn is under way.
LEMMA LoopUnderWay ==
  ASSUME LoopInv, at # "idle"
  PROVE  /\ calls \in Nat /\ Sound(hist, clobbered, calls) /\ hist \in Seq(Message) /\ InBlock(hist)
         /\ HasUser(hist) /\ MarksWithin(hist, loop) /\ OnTheWay(hist, todo, clobbered)
         /\ at # "tools" => todo = <<>>
  BY DEF LoopInv, Conversations, Running, MarksStand, Sound

\* A request is put together.
LEMMA PrepareKeeps ==
  ASSUME LoopInv, Prepare
  PROVE  LoopInv'
  <1>1. at = "top" /\ UNCHANGED <<frontend, calls, clobbered, stored, todo>>
    BY DEF Prepare, turnVars
  <1>2. /\ calls \in Nat /\ Sound(hist, clobbered, calls) /\ hist \in Seq(Message)
        /\ HasUser(hist) /\ MarksWithin(hist, loop) /\ todo = <<>>
    BY <1>1, LoopUnderWay
  <1>3. PICK raw \in Drained :
        \E b \in {Smallest(loop.boundary, Len(raw))} :
        \E f \in {NewFrontier(raw, b)} :
        \E tail \in {build_request_tail(raw, b, f)} :
        \E demoted \in {demote_orphan_tool_results(assemble(loop.summary, tail))} :
        \E view \in {sanitize_tool_call_pairing(demoted)} :
           /\ hist' = raw /\ request' = view
           /\ at' \in {"compacting", "asking"}
           /\ \E x : loop' = [loop EXCEPT !.want = FALSE, !.frontier = f, !.failed = x]
    BY DEF Prepare
  <1> DEFINE b == Smallest(loop.boundary, Len(raw))
             f == NewFrontier(raw, b)
             v == assemble(loop.summary, build_request_tail(raw, b, f))
             q == sanitize_tool_call_pairing(demote_orphan_tool_results(v))
             c == IF loop.summary THEN 2 ELSE 0
  <1>4. hist' = raw /\ request' = q /\ at' \in {"compacting", "asking"}
        /\ \E x : loop' = [loop EXCEPT !.want = FALSE, !.frontier = f, !.failed = x]
    BY <1>3
  <1>5. Sound(raw, clobbered, calls) /\ HasUser(raw) /\ MarksWithin(raw, loop)
    <2>1. raw = hist \/ raw = Append(hist, Say("system"))
      BY DEF Drained
    <2>2. CASE raw = Append(hist, Say("system"))
      BY <1>2, <2>2, SayKeeps, WithinAppend
    <2> QED BY <1>2, <2>1, <2>2
  <1> HIDE DEF q
  <1>6. raw \in Seq(Message) /\ Len(raw) \in Nat /\ InBlock(raw)
    <2>1. raw \in Seq(Message) /\ InBlock(raw)
      BY <1>5 DEF Sound
    <2> QED BY <2>1, LenProperties
  <1>7. /\ {"boundary", "frontier", "summary"} \subseteq DOMAIN loop
        /\ loop.boundary \in 0..Len(raw) /\ loop.frontier \in 0..Len(raw)
        /\ loop.summary \in BOOLEAN /\ (~ loop.summary => loop.boundary = 0)
        /\ LastAssistant(raw, Len(raw)) # 0 => loop.boundary < LastAssistant(raw, Len(raw))
        /\ Few(raw) => \A k \in LatestIn(raw) : loop.frontier < k
    BY <1>5 DEF MarksWithin
  <1>8. b = loop.boundary
    BY <1>6, <1>7 DEF Smallest
  <1>9. \A k \in LatestIn(raw) : b < k /\ k \in 1..Len(raw) /\ raw[k].role = "tool" /\ b < LastAssistant(raw, k)
    <2> TAKE k \in LatestIn(raw)
    <2> DEFINE a == LastAssistant(raw, Len(raw))
    <2>1. k \in 1..Len(raw) /\ raw[k].role = "tool" /\ a # 0 /\ a < k /\ LastAssistant(raw, k) = a
      BY <1>6, LatestBlock
    <2>2. b < a /\ a \in 0..Len(raw)
      BY <1>6, <1>7, <1>8, <2>1, LastAssistantIs
    <2> HIDE DEF a, b
    <2>3. b < k
      BY <1>6, <1>7, <1>8, <2>1, <2>2
    <2> QED BY <2>1, <2>2, <2>3
  <1>10. f \in b..Len(raw) /\ (Few(raw) => \A k \in LatestIn(raw) : f < k)
    <2> DEFINE g == IF loop.frontier < b THEN b ELSE loop.frontier
               adv == advance_frontier(raw)
    <2>1. f = g \/ (adv > g /\ f = adv)
      BY DEF NewFrontier
    <2>2. adv \in 0..Len(raw) /\ (Few(raw) => \A k \in LatestIn(raw) : adv < k)
      <3>1. LatestIn(raw) \subseteq ToolsIn(raw)
        BY DEF LatestIn
      <3>2. \A k \in LatestIn(raw) : \A j \in ToolsIn(raw) : j >= k => j \in LatestIn(raw)
        <4> TAKE k \in LatestIn(raw)
        <4> TAKE j \in ToolsIn(raw)
        <4> HAVE j >= k
        <4>1. LastAssistant(raw, Len(raw)) \in 0..Len(raw)
          BY <1>6, LastAssistantIs
        <4>2. k > LastAssistant(raw, Len(raw)) /\ k \in ToolsIn(raw) /\ ToolsIn(raw) \subseteq 1..Len(raw)
          BY <1>6, ToolsAre DEF LatestIn
        <4>3. j > LastAssistant(raw, Len(raw))
          <5> DEFINE a == LastAssistant(raw, Len(raw))
          <5>1. a \in Nat /\ k \in Nat /\ j \in Nat /\ k > a
            BY <1>6, <4>1, <4>2
          <5> HIDE DEF a
          <5>2. j > a
            BY <5>1
          <5> QED BY <5>2 DEF a
        <4> QED BY <4>3 DEF LatestIn
      <3> QED BY <1>6, <3>1, <3>2, FrontierIs DEF Few
    <2> HIDE DEF f, adv, b
    <2>3. g \in b..Len(raw) /\ b \in 0..Len(raw)
      BY <1>6, <1>7, <1>8
    <2>4. Few(raw) => \A k \in LatestIn(raw) : g < k
      BY <1>7, <1>9
    <2> HIDE DEF g
    <2>5. f \in b..Len(raw)
      BY <1>6, <2>1, <2>2, <2>3
    <2> QED BY <2>1, <2>2, <2>4, <2>5
  <1> HIDE DEF f
  <1>11. b \in 0..Len(raw)
    BY <1>7, <1>8
  <1>12. View(v, raw, b, f, c)
    <2>1. ~ loop.summary => b = 0
      BY <1>7, <1>8
    <2> HIDE DEF b
    <2> QED BY <1>6, <1>7, <1>10, <1>11, <2>1, ViewIs
  <1> HIDE DEF b, v, c
  <1>13. WellPaired(q) /\ UserFirst(q) /\ q \in Seq(Message)
    BY <1>5, <1>10, <1>11, <1>12, RequestIs DEF q
  <1>14. Shown(raw, clobbered, q)
    <2> SUFFICES ASSUME Few(raw), NEW k \in LatestIn(raw), raw[k].id \notin clobbered
                 PROVE  raw[k] \in Range(q)
      BY DEF Shown
    <2>1. k \in 1..Len(raw) /\ raw[k].role = "tool" /\ f < k /\ b < LastAssistant(raw, k)
      BY <1>9, <1>10
    <2> QED BY <1>5, <1>10, <1>11, <1>12, <2>1, FreshInView DEF q
  <1>15. /\ {"boundary", "frontier", "summary"} \subseteq DOMAIN loop'
         /\ loop'.boundary = loop.boundary /\ loop'.frontier = f /\ loop'.summary = loop.summary
    BY <1>4, <1>7
  <1>16. f \in 0..Len(raw)
    BY <1>6, <1>10, <1>11
  <1>17. MarksWithin(raw, loop')
    BY <1>7, <1>10, <1>15, <1>16 DEF MarksWithin
  <1>18. Conversations'
    BY <1>1, <1>4, <1>5 DEF LoopInv, Conversations
  <1>19. Running'
    BY <1>1, <1>2, <1>4, OpenNone DEF Running
  <1>20. MarksStand'
    BY <1>4, <1>17 DEF MarksStand
  <1>21. Requested'
    BY <1>1, <1>4, <1>13, <1>14 DEF Requested
  <1>22. SavedIsWhole'
    BY <1>1 DEF LoopInv, SavedIsWhole
  <1> QED BY <1>18, <1>19, <1>20, <1>21, <1>22 DEF LoopInv

\* The part before the boundary becomes a summary.
LEMMA CompactKeeps ==
  ASSUME LoopInv, compact
  PROVE  LoopInv'
  <1> DEFINE b == split_for_compaction(hist)
             f == IF loop.frontier < b THEN b ELSE loop.frontier
             a == LastAssistant(hist, Len(hist))
  <1>1. /\ at = "compacting" /\ at' = "top" /\ UNCHANGED <<frontend, calls, clobbered, hist, stored, todo>>
        /\ \E x : loop' = [loop EXCEPT !.boundary = b, !.frontier = f, !.summary = TRUE, !.failed = x]
    BY DEF compact, turnVars
  <1>2. /\ calls \in Nat /\ Sound(hist, clobbered, calls) /\ hist \in Seq(Message) /\ InBlock(hist)
        /\ HasUser(hist) /\ MarksWithin(hist, loop) /\ OnTheWay(hist, todo, clobbered) /\ todo = <<>>
    BY <1>1, LoopUnderWay
  <1>3. /\ {"boundary", "frontier", "summary"} \subseteq DOMAIN loop /\ loop.frontier \in 0..Len(hist)
        /\ Few(hist) => \A k \in LatestIn(hist) : loop.frontier < k
    BY <1>2 DEF MarksWithin
  <1>4. Len(hist) \in Nat
    BY <1>2, LenProperties
  <1>5. a \in 0..Len(hist)
    BY <1>4, LastAssistantIs
  <1>6. b = IF a = 0 THEN Len(hist) ELSE a - 1
    BY DEF split_for_compaction
  <1>7. \A k \in LatestIn(hist) : a # 0 /\ a < k /\ k \in 1..Len(hist)
    BY <1>2, LatestBlock
  <1> HIDE DEF a, b
  <1>8. b \in 0..Len(hist) /\ (a # 0 => b < a)
    BY <1>4, <1>5, <1>6
  <1>9. f \in 0..Len(hist)
    BY <1>3, <1>8
  <1>10. Few(hist) => \A k \in LatestIn(hist) : f < k
    <2> SUFFICES ASSUME Few(hist), NEW k \in LatestIn(hist)
                 PROVE  f < k
      OBVIOUS
    <2>1. a # 0 /\ a < k /\ k \in 1..Len(hist) /\ loop.frontier < k
      BY <1>3, <1>7
    <2>2. b < k
      BY <1>4, <1>5, <1>8, <2>1
    <2> QED BY <2>1, <2>2
  <1> HIDE DEF f
  <1>11. /\ {"boundary", "frontier", "summary"} \subseteq DOMAIN loop'
         /\ loop'.boundary = b /\ loop'.frontier = f /\ loop'.summary = TRUE
    BY <1>1, <1>3
  <1>12. MarksWithin(hist, loop')
    BY <1>8, <1>9, <1>10, <1>11 DEF MarksWithin, a
  <1> QED BY <1>1, <1>2, <1>12, LoopGoesOnFrom

\* The summary could not be made; the request goes out as it is.
LEMMA CompactFailsKeeps ==
  ASSUME LoopInv, compact_fails
  PROVE  LoopInv'
  <1>1. /\ at = "compacting" /\ at' = "asking" /\ loop' = [loop EXCEPT !.failed = TRUE]
        /\ UNCHANGED <<frontend, calls, clobbered, hist, stored, request, todo>>
    BY DEF compact_fails, turnVars
  <1>2. MarksWithin(hist, loop) /\ todo = <<>>
    BY <1>1, LoopUnderWay
  <1>3. SameMarks(loop, loop')
    BY <1>1, <1>2 DEF SameMarks, MarksWithin
  <1>4. MarksStand'
    BY <1>1, <1>2, <1>3, WithinSame DEF MarksStand
  <1>5. Conversations' /\ Running' /\ Requested' /\ SavedIsWhole'
    BY <1>1, <1>2 DEF LoopInv, Conversations, Running, Requested, SavedIsWhole
  <1> QED BY <1>4, <1>5 DEF LoopInv

\* A request that fails: the fallback compaction, or the end of the turn.
LEMMA RequestFailsKeeps ==
  ASSUME LoopInv, RequestFails
  PROVE  LoopInv'
  <1>1. at = "asking" /\ UNCHANGED <<frontend, calls, clobbered>>
    BY DEF RequestFails, turnVars
  <1>2. /\ calls \in Nat /\ Sound(hist, clobbered, calls) /\ hist \in Seq(Message) /\ InBlock(hist)
        /\ HasUser(hist) /\ MarksWithin(hist, loop) /\ OnTheWay(hist, todo, clobbered) /\ todo = <<>>
    BY <1>1, LoopUnderWay
  <1>3. CASE TurnOver(hist)
    BY <1>1, <1>2, <1>3, TurnOverKeeps
  <1>4. CASE /\ hist' = micro_compact_messages(hist)
             /\ loop' = [loop EXCEPT !.tried = TRUE] /\ at' = "top" /\ UNCHANGED <<stored, saving, todo>>
    <2> DEFINE r == micro_compact_messages(hist)
    <2>1. Alike(hist, r)
      BY <1>2, MarkedIsAlike DEF micro_compact_messages
    <2> HIDE DEF r
    <2>2. Sound(r, clobbered, calls)
      BY <1>2, <2>1, AlikeKeeps
    <2>3. /\ r \in Seq(Message) /\ Len(r) = Len(hist) /\ Len(hist) \in Nat
          /\ \A k \in 1..Len(hist) : r[k].role = hist[k].role /\ r[k].calls = hist[k].calls /\ r[k].id = hist[k].id
      BY <1>2, <2>1, LenProperties DEF Alike
    <2>4. LastAssistant(r, Len(hist)) = LastAssistant(hist, Len(hist))
      BY <2>3, SameLast
    <2>5. LatestIn(r) = LatestIn(hist)
      <3>1. LatestIn(r) = {k \in 1..Len(hist) : r[k].role = "tool" /\ k > LastAssistant(hist, Len(hist))}
        BY <2>3, <2>4, LatestAre
      <3>2. LatestIn(hist) = {k \in 1..Len(hist) : hist[k].role = "tool" /\ k > LastAssistant(hist, Len(hist))}
        BY <1>2, LatestAre
      <3>3. \A k \in 1..Len(hist) : r[k].role = hist[k].role
        BY <2>3
      <3> QED BY <3>1, <3>2, <3>3
    <2>6. MarksWithin(r, loop)
      BY <1>2, <2>3, <2>4, <2>5 DEF MarksWithin, Few
    <2>7. SameMarks(loop, loop')
      BY <1>2, <1>4 DEF SameMarks, MarksWithin
    <2>8. HasUser(r)
      BY <1>2, <2>3 DEF HasUser
    <2>9. hist' = r
      BY <1>4 DEF r
    <2>10. MarksWithin(hist', loop')
      BY <2>6, <2>7, <2>9, WithinSame
    <2>11. OnTheWay(hist', todo', clobbered)
      BY <1>2, <1>4, OpenNone
    <2> QED BY <1>1, <1>2, <1>4, <2>2, <2>8, <2>9, <2>10, <2>11, LoopGoesOnFrom
  <1> QED BY <1>3, <1>4 DEF RequestFails

\* The model answers with calls.
LEMMA CallsToolsKeeps ==
  ASSUME LoopInv, NEW n \in 1..2, CallsTools(n)
  PROVE  LoopInv'
  <1> DEFINE ids == [i \in 1..n |-> calls + i]
             m == Calling(ids)
             r == Append(hist, m)
             N == Len(hist)
  <1>1. /\ at = "asking" /\ at' = "tools" /\ todo' = ids /\ hist' = r /\ calls' = calls + n
        /\ UNCHANGED <<frontend, clobbered, stored>>
        /\ loop' \in Measured([loop EXCEPT !.malformed = FALSE])
    BY DEF CallsTools
  <1>2. /\ calls \in Nat /\ Sound(hist, clobbered, calls) /\ hist \in Seq(Message) /\ InBlock(hist)
        /\ HasUser(hist) /\ MarksWithin(hist, loop)
    BY <1>1, LoopUnderWay
  <1>3. calls + n \in Nat /\ calls <= calls + n
    BY <1>2
  <1>4. ids \in Seq(Nat) /\ Len(ids) = n /\ DOMAIN ids = 1..n /\ \A i \in 1..n : ids[i] = calls + i
    <2>1. \A i \in 1..n : calls + i \in Nat
      BY <1>2
    <2>2. ids \in [1..n -> Nat] /\ n \in Nat
      BY <2>1
    <2>3. \A i \in 1..n : ids[i] = calls + i
      OBVIOUS
    <2> HIDE DEF ids
    <2>4. ids \in Seq(Nat)
      BY <2>2, IsASeq
    <2> QED BY <2>2, <2>3, <2>4, LenProperties
  <1> HIDE DEF ids
  <1>5. m \in Message /\ m.role = "assistant" /\ m.calls = ids
    BY <1>4, Messages
  <1> HIDE DEF m
  <1>6. \A id : id \in Calls(m) <=> \E i \in 1..n : id = ids[i]
    BY <1>4, <1>5 DEF Calls, Range
  <1>7. Follows(hist, clobbered, calls, m, calls + n)
    <2>1. \A id \in Calls(m) : id \in (calls + 1)..(calls + n)
      <3> TAKE id \in Calls(m)
      <3>1. PICK i \in 1..n : id = ids[i]
        BY <1>6
      <3> QED BY <1>2, <1>4, <3>1
    <2>2. \A i, j \in 1..n : ids[i] = ids[j] => i = j
      BY <1>2, <1>4
    <2> QED BY <1>2, <1>4, <1>5, <2>1, <2>2 DEF Follows, HasUser
  <1>8. Sound(r, clobbered, calls + n)
    BY <1>2, <1>3, <1>5, <1>7, AppendKeeps
  <1>9. MarksWithin(r, loop)
    BY <1>2, <1>5, WithinAppend
  <1>10. /\ Len(r) = N + 1 /\ N \in Nat /\ r[N + 1] = m /\ \A i \in 1..N : r[i] = hist[i]
         /\ \A i \in 1..(N + 1) : i \in 1..N \/ i = N + 1
         /\ LastAssistant(r, N + 1) = N + 1
    BY <1>2, <1>5, AppendIs
  <1> HIDE DEF r
  <1>11. HasUser(r)
    <2>1. PICK k \in 1..N : hist[k].role = "user"
      BY <1>2 DEF HasUser
    <2>2. k \in 1..Len(r) /\ r[k] = hist[k]
      BY <1>10
    <2> QED BY <2>1, <2>2 DEF HasUser
  <1> HIDE DEF N
  <1>12. OnTheWay(r, ids, clobbered)
    <2>1. \A i, j \in 1..Len(ids) : ids[i] = ids[j] => i = j
      BY <1>2, <1>4
    <2>2. ASSUME NEW i \in 1..Len(ids), NEW k \in 1..Len(r), r[k].role = "tool", r[k].id = ids[i]
          PROVE  FALSE
      <3>1. k # N + 1
        BY <1>5, <1>10, <2>2
      <3>2. k \in 1..N /\ r[k] = hist[k]
        BY <1>10, <3>1
      <3> DEFINE z == LastAssistant(hist, k)
      <3>3. z \in 1..Len(hist) /\ ids[i] \in Calls(hist[z])
        BY <1>2, <2>2, <3>2, BlockOf DEF N
      <3> HIDE DEF z
      <3>4. ids[i] \in 1..calls
        BY <1>2, <3>3 DEF Sound, Callers
      <3>5. i \in 1..n /\ ids[i] = calls + i
        BY <1>4
      <3> QED BY <1>2, <3>4, <3>5
    <2>3. \A i \in 1..Len(ids) : ids[i] \in Calls(r[N + 1])
      BY <1>4, <1>6, <1>10
    <2>4. N + 1 # 0
      BY <1>10
    <2> QED BY <1>4, <1>10, <2>1, <2>2, <2>3, <2>4 DEF OnTheWay
  <1>13. SameMarks(loop, loop')
    BY <1>1, <1>2 DEF SameMarks, Measured, MarksWithin
  <1>14. MarksWithin(hist', loop')
    BY <1>1, <1>9, <1>13, WithinSame
  <1> QED BY <1>1, <1>3, <1>8, <1>11, <1>12, <1>14, LoopGoesOnFrom

\* The model is told to go on, or told what its children found.
LEMMA SpokenKeeps ==
  ASSUME LoopInv, at = "asking", UNCHANGED <<frontend, calls, clobbered, stored, todo>>, at' = "top",
         hist' \in {hist \o <<Say("user")>>, hist \o <<Say("assistant"), Say("user")>>},
         SameMarks(loop, loop')
  PROVE  LoopInv'
  <1>1. /\ calls \in Nat /\ Sound(hist, clobbered, calls) /\ hist \in Seq(Message)
        /\ HasUser(hist) /\ MarksWithin(hist, loop) /\ todo = <<>>
    BY LoopUnderWay
  <1> DEFINE u == Say("user")
             x == Say("assistant")
             h == Append(hist, x)
  <1>2. u \in Message /\ x \in Message
    BY Messages DEF Roles
  <1>3. Sound(h, clobbered, calls) /\ HasUser(h) /\ h \in Seq(Message) /\ MarksWithin(h, loop)
    BY <1>1, <1>2, SayKeeps, WithinAppend
  <1>4. hist' = Append(hist, u) \/ hist' = Append(h, u)
    <2> HIDE DEF u, x
    <2>1. <<u>> \in Seq(Message) /\ <<x>> \in Seq(Message) /\ <<x, u>> = <<x>> \o <<u>>
      BY <1>2
    <2>2. hist \o <<u>> = Append(hist, u) /\ hist \o <<x>> = Append(hist, x)
      BY <1>1, <1>2, AppendIsConcat
    <2>3. hist \o (<<x>> \o <<u>>) = (hist \o <<x>>) \o <<u>>
      BY <1>1, <2>1, GroupedEitherWay
    <2>4. h \o <<u>> = Append(h, u)
      BY <1>2, <1>3, AppendIsConcat
    <2>5. hist' = hist \o <<u>> \/ hist' = hist \o <<x, u>>
      BY DEF u, x
    <2> QED BY <2>1, <2>2, <2>3, <2>4, <2>5
  <1> HIDE DEF h, x
  <1>5. Sound(hist', clobbered, calls) /\ HasUser(hist') /\ MarksWithin(hist', loop)
    BY <1>1, <1>2, <1>3, <1>4, SayKeeps, WithinAppend
  <1>6. MarksWithin(hist', loop')
    BY <1>5, WithinSame
  <1>7. OnTheWay(hist', todo', clobbered)
    BY <1>1, OpenNone
  <1> QED BY <1>1, <1>5, <1>6, <1>7, LoopGoesOnFrom

\* The model answers without a call.
LEMMA AnswersTurnKeeps ==
  ASSUME LoopInv, Answers
  PROVE  LoopInv'
  <1>1. at = "asking" /\ UNCHANGED <<frontend, calls, clobbered>>
        /\ (TurnOver(hist) \/ TurnOver(Append(hist, Say("assistant"))))
    BY DEF Answers, turnVars
  <1>2. calls \in Nat /\ Sound(hist, clobbered, calls) /\ HasUser(hist)
    BY <1>1, LoopUnderWay
  <1>3. Sound(Append(hist, Say("assistant")), clobbered, calls)
    BY <1>2, SayKeeps
  <1> QED BY <1>1, <1>2, <1>3, TurnOverKeeps

\* The model is asked to go on.
LEMMA ContinuesKeeps ==
  ASSUME LoopInv, Continues \/ Synthesizes
  PROVE  LoopInv'
  <1>1. /\ at = "asking" /\ at' = "top" /\ UNCHANGED <<frontend, calls, clobbered, stored, todo>>
        /\ hist' \in {hist \o <<Say("user")>>, hist \o <<Say("assistant"), Say("user")>>}
        /\ loop' \in Measured([loop EXCEPT !.cont = @ + 1]) \/ loop' \in Measured(loop)
    BY DEF Continues, Synthesizes, turnVars
  <1>2. MarksWithin(hist, loop)
    BY <1>1, LoopUnderWay
  <1>3. SameMarks(loop, loop')
    BY <1>1, <1>2 DEF SameMarks, Measured, MarksWithin
  <1> QED BY <1>1, <1>3, SpokenKeeps

\* A call that is on the way gets its result.
LEMMA ResultKeeps ==
  ASSUME LoopInv, at = "tools", todo # <<>>, NEW l, NEW asked, Result(l, asked), SameMarks(loop, l)
  PROVE  LoopInv'
  <1>1. /\ hist' = Append(hist, Answer(Head(todo), "result")) /\ todo' = Tail(todo) /\ at' = "tools"
        /\ loop' = [l EXCEPT !.want = @ \/ asked]
        /\ UNCHANGED <<frontend, calls, clobbered, stored>>
    BY DEF Result, turnVars
  <1>2. /\ calls \in Nat /\ Sound(hist, clobbered, calls) /\ HasUser(hist) /\ MarksWithin(hist, loop)
        /\ OnTheWay(hist, todo, clobbered)
    BY LoopUnderWay
  <1>3. /\ Sound(hist', clobbered, calls) /\ HasUser(hist') /\ MarksWithin(hist', loop)
        /\ OnTheWay(hist', todo', clobbered)
    BY <1>1, <1>2, AnswerKeeps
  <1>4. SameMarks(loop, loop')
    BY <1>1, <1>2 DEF SameMarks, MarksWithin
  <1>5. MarksWithin(hist', loop')
    BY <1>3, <1>4, WithinSame
  <1> QED BY <1>1, <1>2, <1>3, <1>5, LoopGoesOnFrom

\* The first of the calls is run.
LEMMA RunToolKeeps ==
  ASSUME LoopInv, RunTool
  PROVE  LoopInv'
  <1>1. at = "tools" /\ todo # <<>>
        /\ ((\E asked \in BOOLEAN : Result([loop EXCEPT !.parse = 0], asked))
            \/ Result([loop EXCEPT !.malformed = TRUE], FALSE))
    BY DEF RunTool
  <1>2. MarksWithin(hist, loop)
    BY <1>1, LoopUnderWay
  <1>3. SameMarks(loop, [loop EXCEPT !.parse = 0]) /\ SameMarks(loop, [loop EXCEPT !.malformed = TRUE])
    BY <1>2 DEF SameMarks, MarksWithin
  <1> QED BY <1>1, <1>3, ResultKeeps

\* A call whose arguments cannot be read is answered all the same.
LEMMA MalformedCallKeeps ==
  ASSUME LoopInv, MalformedCall
  PROVE  LoopInv'
  <1> DEFINE l == [loop EXCEPT !.parse = @ + 1, !.malformed = TRUE]
  <1>1. at = "tools" /\ todo # <<>>
        /\ (Result(l, FALSE) \/ (TurnOver(hist) /\ UNCHANGED <<frontend, calls, clobbered>>))
    BY DEF MalformedCall, turnVars
  <1>2. MarksWithin(hist, loop) /\ Sound(hist, clobbered, calls)
    BY <1>1, LoopUnderWay
  <1>3. SameMarks(loop, l)
    BY <1>2 DEF SameMarks, MarksWithin
  <1> HIDE DEF l
  <1>4. CASE Result(l, FALSE)
    BY <1>1, <1>3, <1>4, ResultKeeps
  <1>5. CASE TurnOver(hist) /\ UNCHANGED <<frontend, calls, clobbered>>
    BY <1>2, <1>5, TurnOverKeeps
  <1> QED BY <1>1, <1>4, <1>5

\* The calls that start tasks.
LEMMA RunTasksKeeps ==
  ASSUME LoopInv, RunTasks
  PROVE  LoopInv'
  <1>1. /\ at = "tools" /\ at' = "tools" /\ todo' = <<>> /\ loop' = loop
        /\ hist' = hist \o [i \in DOMAIN todo |-> Answer(todo[i], "result")]
        /\ UNCHANGED <<frontend, calls, clobbered, stored>>
    BY DEF RunTasks, turnVars
  <1>2. /\ calls \in Nat /\ Sound(hist, clobbered, calls) /\ HasUser(hist) /\ MarksWithin(hist, loop)
        /\ OnTheWay(hist, todo, clobbered)
    BY <1>1, LoopUnderWay
  <1>3. Sound(hist', clobbered, calls) /\ HasUser(hist') /\ MarksWithin(hist', loop)
    BY <1>1, <1>2, AnswersKeep
  <1> QED BY <1>1, <1>2, <1>3, OpenNone, LoopGoesOnFrom

\* The round is over.
LEMMA EndRoundKeeps ==
  ASSUME LoopInv, EndRound
  PROVE  LoopInv'
  <1> DEFINE h == IF loop.malformed THEN Append(hist, Say("user")) ELSE hist
  <1>1. /\ at = "tools" /\ todo = <<>> /\ UNCHANGED <<frontend, calls, clobbered>>
        /\ \/ hist' = h /\ at' = "top" /\ UNCHANGED <<stored, loop, todo>>
           \/ TurnOver(h)
    BY DEF EndRound, turnVars
  <1>2. /\ calls \in Nat /\ Sound(hist, clobbered, calls) /\ hist \in Seq(Message) /\ HasUser(hist)
        /\ MarksWithin(hist, loop)
    BY <1>1, LoopUnderWay
  <1>3. Say("user") \in Message
    BY Messages DEF Roles
  <1>4. Sound(h, clobbered, calls) /\ HasUser(h) /\ MarksWithin(h, loop)
    BY <1>2, <1>3, SayKeeps, WithinAppend
  <1> HIDE DEF h
  <1>5. CASE TurnOver(h)
    BY <1>1, <1>4, <1>5, TurnOverKeeps
  <1>6. CASE hist' = h /\ at' = "top" /\ UNCHANGED <<stored, loop, todo>>
    BY <1>1, <1>2, <1>4, <1>6, OpenNone, LoopGoesOnFrom
  <1> QED BY <1>1, <1>5, <1>6

\* The invariant holds of the start.
LEMMA LoopStarts ==
  ASSUME LoopInit
  PROVE  LoopInv
  <1>1. /\ hist = <<>> /\ stored = <<>> /\ at = "idle" /\ loop = FreshLoop /\ todo = <<>> /\ calls = 0
        /\ clobbered = {}
    BY DEF LoopInit
  <1>2. <<>> \in Seq(Message) /\ Len(<<>>) = 0 /\ \A k \in 1..0 : FALSE
    BY EmptySeq
  <1>3. Sound(<<>>, {}, 0)
    BY <1>2 DEF Sound, Callers, CallsOnce, InBlock, AnsweredOnce, UserFirst
  <1>4. MarksWithin(<<>>, FreshLoop) /\ OnTheWay(<<>>, <<>>, {})
    BY <1>2, FreshWithin, OpenNone
  <1>5. WellPaired(<<>>)
    BY <1>2 DEF WellPaired, ToolsIn
  <1> QED BY <1>1, <1>3, <1>4, <1>5
      DEF LoopInv, Conversations, Running, MarksStand, Requested, SavedIsWhole

\* Every step of the loop keeps the invariant.
LEMMA LoopKeeps ==
  ASSUME LoopInv, [LoopNext]_loopVars
  PROVE  LoopInv'
  <1>1. CASE UserTurn
    BY <1>1, UserTurnKeeps
  <1>2. CASE Snapshot
    BY <1>2, SnapshotKeeps
  <1>3. CASE spawn_save_session
    BY <1>3, SavingKeeps
  <1>4. CASE CancelTurn \/ max_rounds_exceeded
    <2>1. at # "idle" /\ TurnOver(hist) /\ UNCHANGED <<frontend, calls, clobbered>>
      BY <1>4 DEF CancelTurn, max_rounds_exceeded, turnVars
    <2>2. Sound(hist, clobbered, calls)
      BY <2>1, LoopUnderWay
    <2> QED BY <2>1, <2>2, TurnOverKeeps
  <1>5. CASE ReopenSession
    BY <1>5, ReopenKeeps
  <1>6. CASE Prepare
    BY <1>6, PrepareKeeps
  <1>7. CASE compact
    BY <1>7, CompactKeeps
  <1>8. CASE compact_fails
    BY <1>8, CompactFailsKeeps
  <1>9. CASE RequestFails
    BY <1>9, RequestFailsKeeps
  <1>10. CASE Answers
    BY <1>10, AnswersTurnKeeps
  <1>11. CASE Continues \/ Synthesizes
    BY <1>11, ContinuesKeeps
  <1>12. CASE \E n \in 1..2 : CallsTools(n)
    BY <1>12, CallsToolsKeeps
  <1>13. CASE RunTool
    BY <1>13, RunToolKeeps
  <1>14. CASE RunTasks
    BY <1>14, RunTasksKeeps
  <1>15. CASE MalformedCall
    BY <1>15, MalformedCallKeeps
  <1>16. CASE EndRound
    BY <1>16, EndRoundKeeps
  <1>17. CASE UNCHANGED loopVars
    <2>1. UNCHANGED <<frontend, hist, stored, at, loop, request, todo, calls, clobbered>>
      BY <1>17 DEF loopVars
    <2> QED BY <2>1 DEF LoopInv, Conversations, Running, MarksStand, Requested, SavedIsWhole
  <1> QED BY <1>1, <1>2, <1>3, <1>4, <1>5, <1>6, <1>7, <1>8, <1>9, <1>10, <1>11, <1>12, <1>13, <1>14,
             <1>15, <1>16, <1>17 DEF LoopNext, LoopStep

\* A mark is never set on the latest results while there are no more of them than are kept.
LeftWhole == {"result", "interrupted"}
Unmarked(h) == Few(h) => \A k \in LatestIn(h) : h[k].body \in LeftWhole

\* The latest results of the conversation and of what is saved of it are in full.
LatestInFull == Unmarked(hist) /\ Unmarked(stored)

\* A conversation that grows by words, calls and results.
LEMMA UnmarkedGrows ==
  ASSUME NEW h \in Seq(Message), NEW r \in Seq(Message), Unmarked(h), Len(h) <= Len(r),
         \A k \in 1..Len(h) : r[k] = h[k],
         \A k \in (Len(h) + 1)..Len(r) : r[k].role = "tool" => r[k].body \in LeftWhole
  PROVE  Unmarked(r)
  <1> DEFINE N == Len(h)
             M == Len(r)
             a == LastAssistant(h, N)
             b == LastAssistant(r, M)
  <1> SUFFICES ASSUME Few(r), NEW p \in LatestIn(r)
               PROVE  r[p].body \in LeftWhole
    BY DEF Unmarked
  <1>1. N \in Nat /\ M \in Nat
    BY LenProperties
  <1>2. LatestIn(h) = {k \in 1..N : h[k].role = "tool" /\ k > a}
    BY LatestAre
  <1>3. LatestIn(r) = {k \in 1..M : r[k].role = "tool" /\ k > b}
    BY LatestAre
  <1>4. a \in 0..N /\ (a # 0 => h[a].role = "assistant")
    BY <1>1, LastAssistantIs
  <1>5. b \in 0..M /\ (b = 0 => \A i \in 1..M : r[i].role # "assistant")
        /\ (b # 0 => r[b].role = "assistant" /\ \A i \in (b + 1)..M : r[i].role # "assistant")
    BY <1>1, LastAssistantIs
  <1>6. a = 0 => \A i \in 1..N : h[i].role # "assistant"
    BY <1>1, LastAssistantIs
  <1>7. a # 0 => \A i \in (a + 1)..N : h[i].role # "assistant"
    BY <1>1, LastAssistantIs
  <1> HIDE DEF a, b, N, M
  <1>8. p \in 1..M /\ r[p].role = "tool" /\ p > b
    BY <1>3
  <1>9. CASE p \in (N + 1)..M
    BY <1>8, <1>9 DEF N, M
  <1>10. CASE p \in 1..N
    <2>1. b \in 0..N
      BY <1>1, <1>5, <1>8, <1>10
    <2>2. b = a
      <3>1. b # 0 => h[b].role = "assistant"
        <4>1. b # 0 => b \in 1..N
          BY <1>1, <2>1
        <4> QED BY <1>5, <4>1 DEF N
      <3>2. a # 0 => r[a].role = "assistant" /\ a \in 1..M
        <4>1. a # 0 => a \in 1..N /\ a \in 1..M
          BY <1>1, <1>4 DEF N, M
        <4> QED BY <1>4, <4>1 DEF N
      <3>3. ~ (a < b)
        <4> SUFFICES ASSUME a < b
                     PROVE  FALSE
          OBVIOUS
        <4>1. b # 0 /\ b \in 1..N /\ b \in (a + 1)..N
          BY <1>1, <1>4, <2>1
        <4> QED BY <1>6, <1>7, <3>1, <4>1
      <3>4. ~ (b < a)
        <4> SUFFICES ASSUME b < a
                     PROVE  FALSE
          OBVIOUS
        <4>1. a # 0
          BY <1>1, <1>4, <2>1
        <4>2. a \in (b + 1)..M /\ a \in 1..M
          BY <1>1, <1>4, <2>1, <3>2, <4>1
        <4> QED BY <1>5, <3>2, <4>1, <4>2
      <3> QED BY <1>1, <1>4, <2>1, <3>3, <3>4
    <2>3. ASSUME NEW k \in LatestIn(h)
          PROVE  k \in LatestIn(r)
      <3>1. k \in 1..N /\ h[k].role = "tool" /\ k > a
        BY <1>2
      <3>2. k \in 1..M /\ r[k] = h[k]
        BY <1>1, <3>1 DEF N, M
      <3> QED BY <1>3, <2>2, <3>1, <3>2
    <2>4. Few(h)
      BY <2>3, FewerAreFew
    <2>5. r[p] = h[p]
      BY <1>10 DEF N
    <2>6. p \in LatestIn(h)
      BY <1>2, <1>8, <1>10, <2>2, <2>5
    <2> QED BY <2>4, <2>5, <2>6 DEF Unmarked
  <1>11. p \in 1..N \/ p \in (N + 1)..M
    BY <1>1, <1>8
  <1> QED BY <1>9, <1>10, <1>11

\* One message more.
LEMMA UnmarkedAppend ==
  ASSUME NEW h \in Seq(Message), Unmarked(h), NEW m \in Message, m.role = "tool" => m.body \in LeftWhole
  PROVE  Append(h, m) \in Seq(Message) /\ Unmarked(Append(h, m))
  <1> DEFINE r == Append(h, m)
             N == Len(h)
  <1>1. /\ r \in Seq(Message) /\ N \in Nat /\ Len(r) = N + 1 /\ r[N + 1] = m
        /\ \A i \in 1..N : r[i] = h[i]
    BY AppendIs
  <1> HIDE DEF r
  <1>2. \A k \in (N + 1)..Len(r) : k = N + 1
    BY <1>1
  <1>3. \A k \in (N + 1)..Len(r) : r[k].role = "tool" => r[k].body \in LeftWhole
    BY <1>1, <1>2
  <1>4. N <= Len(r)
    BY <1>1
  <1>5. Unmarked(r)
    BY <1>1, <1>3, <1>4, UnmarkedGrows
  <1> QED BY <1>1, <1>5 DEF r

\* A repair.
LEMMA UnmarkedRepaired ==
  ASSUME NEW h \in Seq(Message), Unmarked(h)
  PROVE  Unmarked(sanitize_tool_call_pairing(h))
  <1> DEFINE r == sanitize_tool_call_pairing(h)
  <1>1. PICK e : Repaired(h, r, e)
    BY Repairs
  <1>2. r \in Seq(Message) /\ Len(h) \in Nat
    BY <1>1, LenProperties DEF Repaired
  <1> HIDE DEF r
  <1> SUFFICES ASSUME Few(r), NEW p \in LatestIn(r)
               PROVE  r[p].body \in LeftWhole
    BY DEF Unmarked, r
  <1>3. Len(h) # 0
    <2>1. p \in 1..Len(r)
      BY <1>2, LatestAre
    <2>2. \E k \in 1..Len(h) : TRUE
      BY <1>1, <2>1, Stands
    <2> QED BY <2>2
  <1>4. /\ \/ \E k \in LatestIn(h) : p = e[k] /\ r[p] = h[k]
           \/ r[p].body = "interrupted"
        /\ Few(h)
    BY <1>1, <1>3, LatestRepaired
  <1> QED BY <1>4 DEF Unmarked, LeftWhole

\* The fallback: the latest results are among those it keeps.
LEMMA UnmarkedCutDown ==
  ASSUME NEW h \in Seq(Message), Unmarked(h)
  PROVE  Unmarked(micro_compact_messages(h))
  <1> DEFINE keep == {k \in ToolsIn(h) : Cardinality({j \in ToolsIn(h) : j >= k}) <= KeepResults}
             r == Marked(h, keep)
             N == Len(h)
             a == LastAssistant(h, N)
  <1>1. micro_compact_messages(h) = r
    BY DEF micro_compact_messages
  <1>2. Alike(h, r) /\ \A k \in 1..N : k \in keep => r[k] = h[k]
    BY MarkedIsAlike
  <1> HIDE DEF r
  <1>3. /\ r \in Seq(Message) /\ Len(r) = N /\ N \in Nat
        /\ \A k \in 1..N : r[k].role = h[k].role
    BY <1>2, LenProperties DEF Alike
  <1>4. LastAssistant(r, N) = a
    BY <1>3, SameLast
  <1> SUFFICES ASSUME Few(r), NEW p \in LatestIn(r)
               PROVE  r[p].body \in LeftWhole
    BY <1>1 DEF Unmarked
  <1>5. LatestIn(r) = {k \in 1..N : r[k].role = "tool" /\ k > a}
    BY <1>3, <1>4, LatestAre
  <1>6. LatestIn(h) = {k \in 1..N : h[k].role = "tool" /\ k > a}
        /\ IsFiniteSet(LatestIn(h)) /\ Cardinality(LatestIn(h)) \in Nat
    BY LatestAre
  <1>7. LatestIn(r) = LatestIn(h)
    BY <1>3, <1>5, <1>6
  <1>8. Few(h)
    BY <1>7 DEF Few
  <1>9. a \in 0..N
    BY <1>3, LastAssistantIs
  <1>10. ToolsIn(h) = {k \in 1..N : h[k].role = "tool"}
    BY ToolsAre
  <1> HIDE DEF a, N
  <1>11. p \in 1..N /\ p \in ToolsIn(h) /\ p > a
    BY <1>6, <1>7, <1>10
  <1>12. p \in keep
    <2> DEFINE J == {j \in ToolsIn(h) : j >= p}
    <2>1. J \subseteq LatestIn(h)
      BY <1>3, <1>6, <1>9, <1>10, <1>11
    <2> HIDE DEF J
    <2>2. Cardinality(J) <= Cardinality(LatestIn(h)) /\ Cardinality(J) \in Nat
      BY <1>6, <2>1, FS_Subset, FS_CardinalityType
    <2>3. Cardinality(J) <= KeepResults
      BY <1>6, <1>8, <2>2, AgentLoopAssumption DEF Few
    <2> QED BY <1>11, <2>3 DEF J
  <1>13. r[p] = h[p]
    BY <1>2, <1>11, <1>12 DEF N
  <1> QED BY <1>7, <1>8, <1>13 DEF Unmarked

\* A turn that ends or is cancelled.
LEMMA UnmarkedTurnOver ==
  ASSUME NEW h \in Seq(Message), Unmarked(h), Unmarked(stored), TurnOver(h)
  PROVE  LatestInFull'
  <1>1. /\ hist' = h
        /\ stored' = IF frontend = "daemon" THEN sanitize_tool_call_pairing(h) ELSE stored
    BY DEF TurnOver
  <1>2. Unmarked(stored')
    BY <1>1, UnmarkedRepaired
  <1> QED BY <1>1, <1>2 DEF LatestInFull

\* The words that a turn, a note or an answer adds.
LEMMA UnmarkedSay ==
  ASSUME NEW h \in Seq(Message), Unmarked(h), NEW role \in {"user", "assistant", "system"}
  PROVE  Append(h, Say(role)) \in Seq(Message) /\ Unmarked(Append(h, Say(role)))
  <1>1. Say(role) \in Message /\ Say(role).role # "tool"
    BY Messages DEF Roles
  <1> QED BY <1>1, UnmarkedAppend

\* Every step of the loop leaves the latest results in full.
LEMMA LatestStaysInFull ==
  ASSUME LoopInv, LoopInv', LatestInFull, [LoopNext]_loopVars
  PROVE  LatestInFull'
  <1>1. /\ hist \in Seq(Message) /\ stored \in Seq(Message) /\ hist' \in Seq(Message)
        /\ Unmarked(hist) /\ Unmarked(stored)
    BY DEF LoopInv, Conversations, Sound, LatestInFull
  <1>2. CASE UserTurn
    <2> DEFINE h == IF frontend = "daemon" THEN stored ELSE hist
    <2>1. /\ hist' = Append(h, Say("user"))
          /\ stored' = IF frontend = "daemon" THEN sanitize_tool_call_pairing(hist') ELSE stored
      BY <1>2 DEF UserTurn
    <2>2. Unmarked(h) /\ h \in Seq(Message)
      BY <1>1
    <2> HIDE DEF h
    <2>3. Unmarked(hist')
      BY <2>1, <2>2, UnmarkedSay
    <2>4. Unmarked(stored')
      BY <1>1, <2>1, <2>3, UnmarkedRepaired
    <2> QED BY <2>3, <2>4 DEF LatestInFull
  <1>3. CASE Snapshot \/ spawn_save_session
    <2> DEFINE r == sanitize_tool_call_pairing(hist)
    <2>1. hist' \in {hist, r} /\ stored' \in {stored, r}
      BY <1>3 DEF Snapshot, spawn_save_session
    <2>2. Unmarked(r)
      BY <1>1, UnmarkedRepaired
    <2> HIDE DEF r
    <2>3. Unmarked(hist') /\ Unmarked(stored')
      BY <1>1, <2>1, <2>2
    <2> QED BY <2>3 DEF LatestInFull
  <1>4. CASE CancelTurn \/ max_rounds_exceeded
    <2>1. TurnOver(hist)
      BY <1>4 DEF CancelTurn, max_rounds_exceeded
    <2> QED BY <1>1, <2>1, UnmarkedTurnOver
  <1>5. CASE ReopenSession
    <2>1. hist' = stored /\ stored' = stored
      BY <1>5 DEF ReopenSession
    <2> QED BY <1>1, <2>1 DEF LatestInFull
  <1>6. CASE Prepare
    <2>1. hist' \in Drained /\ stored' = stored
      BY <1>6 DEF Prepare
    <2>2. hist' = hist \/ hist' = Append(hist, Say("system"))
      BY <2>1 DEF Drained
    <2>3. Unmarked(hist')
      BY <1>1, <2>2, UnmarkedSay
    <2> QED BY <1>1, <2>1, <2>3 DEF LatestInFull
  <1>7. CASE compact \/ compact_fails \/ UNCHANGED loopVars
    <2>1. hist' = hist /\ stored' = stored
      BY <1>7 DEF compact, compact_fails, loopVars
    <2> QED BY <1>1, <2>1 DEF LatestInFull
  <1>8. CASE RequestFails
    <2>1. CASE TurnOver(hist)
      BY <1>1, <2>1, UnmarkedTurnOver
    <2>2. CASE hist' = micro_compact_messages(hist) /\ stored' = stored
      <3>1. Unmarked(hist')
        BY <1>1, <2>2, UnmarkedCutDown
      <3> QED BY <1>1, <2>2, <3>1 DEF LatestInFull
    <2> QED BY <1>8, <2>1, <2>2 DEF RequestFails
  <1>9. CASE Answers
    <2>1. TurnOver(hist) \/ TurnOver(Append(hist, Say("assistant")))
      BY <1>9 DEF Answers
    <2>2. Append(hist, Say("assistant")) \in Seq(Message) /\ Unmarked(Append(hist, Say("assistant")))
      BY <1>1, UnmarkedSay
    <2> QED BY <1>1, <2>1, <2>2, UnmarkedTurnOver
  <1>10. CASE Continues \/ Synthesizes
    <2> DEFINE u == Say("user")
               x == Say("assistant")
    <2>1. /\ hist' \in {hist \o <<u>>, hist \o <<x, u>>} /\ stored' = stored
      BY <1>10 DEF Continues, Synthesizes
    <2>2. u \in Message /\ x \in Message /\ u.role # "tool" /\ x.role # "tool"
      BY Messages DEF Roles
    <2> HIDE DEF u, x
    <2>3. <<u>> \in Seq(Message) /\ <<x>> \in Seq(Message) /\ <<x, u>> = <<x>> \o <<u>>
      BY <2>2
    <2>4. hist \o <<u>> = Append(hist, u)
      BY <1>1, <2>2, AppendIsConcat
    <2>5. hist \o <<x, u>> = Append(Append(hist, x), u)
      <3>1. hist \o <<x>> = Append(hist, x) /\ Append(hist, x) \in Seq(Message)
        BY <1>1, <2>2, AppendIsConcat, AppendIs
      <3>2. hist \o (<<x>> \o <<u>>) = (hist \o <<x>>) \o <<u>>
        BY <1>1, <2>3, GroupedEitherWay
      <3>3. Append(hist, x) \o <<u>> = Append(Append(hist, x), u)
        BY <2>2, <3>1, AppendIsConcat
      <3> QED BY <2>3, <3>1, <3>2, <3>3
    <2>6. Append(hist, x) \in Seq(Message) /\ Unmarked(Append(hist, x))
      BY <1>1, <2>2, UnmarkedAppend
    <2>7. Unmarked(Append(hist, u)) /\ Unmarked(Append(Append(hist, x), u))
      BY <1>1, <2>2, <2>6, UnmarkedAppend
    <2>8. Unmarked(hist')
      BY <2>1, <2>4, <2>5, <2>7
    <2> QED BY <1>1, <2>1, <2>8 DEF LatestInFull
  <1>11. CASE \E n \in 1..2 : CallsTools(n)
    <2>1. PICK n \in 1..2 : CallsTools(n)
      BY <1>11
    <2> DEFINE ids == [i \in 1..n |-> calls + i]
               m == Calling(ids)
    <2>2. hist' = Append(hist, m) /\ stored' = stored
      BY <2>1 DEF CallsTools
    <2>3. calls \in Nat
      BY DEF LoopInv, Conversations
    <2>4. ids \in [1..n -> Nat] /\ n \in Nat
      BY <2>3
    <2> HIDE DEF ids
    <2>5. ids \in Seq(Nat)
      BY <2>4, IsASeq
    <2>6. m \in Message /\ m.role # "tool"
      BY <2>5, Messages
    <2> HIDE DEF m
    <2>7. Unmarked(hist')
      BY <1>1, <2>2, <2>6, UnmarkedAppend
    <2> QED BY <1>1, <2>2, <2>7 DEF LatestInFull
  <1>12. ASSUME NEW l, NEW asked, Result(l, asked), todo # <<>>
         PROVE  LatestInFull'
    <2> DEFINE m == Answer(Head(todo), "result")
    <2>1. hist' = Append(hist, m) /\ stored' = stored
      BY <1>12 DEF Result
    <2>2. Head(todo) \in Nat
      <3>1. todo \in Seq(Nat)
        BY DEF LoopInv, Running, OnTheWay
      <3> QED BY <1>12, <3>1, HeadTailProperties
    <2>3. m \in Message /\ m.body = "result"
      BY <2>2, Messages DEF Bodies
    <2> HIDE DEF m
    <2>4. Unmarked(hist')
      BY <1>1, <2>1, <2>3, UnmarkedAppend DEF LeftWhole
    <2> QED BY <1>1, <2>1, <2>4 DEF LatestInFull
  <1>13. CASE RunTool
    BY <1>12, <1>13 DEF RunTool
  <1>14. CASE MalformedCall
    <2>1. CASE TurnOver(hist)
      BY <1>1, <2>1, UnmarkedTurnOver
    <2>2. CASE Result([loop EXCEPT !.parse = @ + 1, !.malformed = TRUE], FALSE)
      BY <1>12, <1>14, <2>2 DEF MalformedCall
    <2> QED BY <1>14, <2>1, <2>2 DEF MalformedCall
  <1>15. CASE RunTasks
    <2> DEFINE A == [i \in DOMAIN todo |-> Answer(todo[i], "result")]
    <2>1. hist' = hist \o A /\ stored' = stored
      BY <1>15 DEF RunTasks
    <2>2. todo \in Seq(Nat) /\ DOMAIN todo = 1..Len(todo) /\ Len(todo) \in Nat
          /\ \A i \in 1..Len(todo) : todo[i] \in Nat
      BY LenProperties, ElementOfSeq DEF LoopInv, Running, OnTheWay
    <2>3. \A i \in 1..Len(todo) : A[i] \in Message /\ A[i].body = "result"
      BY <2>2, Messages DEF Bodies
    <2>4. A \in [1..Len(todo) -> Message]
      BY <2>2, <2>3
    <2> HIDE DEF A
    <2>5. A \in Seq(Message) /\ Len(A) = Len(todo)
      <3>1. A \in Seq(Message)
        BY <2>2, <2>4, IsASeq
      <3> QED BY <2>2, <2>4, <3>1, LenProperties
    <2> DEFINE N == Len(hist)
               r == hist \o A
    <2>6. /\ r \in Seq(Message) /\ Len(r) = N + Len(A) /\ N \in Nat /\ Len(A) \in Nat
          /\ \A k \in 1..N : r[k] = hist[k]
          /\ \A k \in (N + 1)..(N + Len(A)) : r[k] = A[k - N]
      <3>1. N \in Nat /\ Len(A) \in Nat
        BY <1>1, <2>5, LenProperties
      <3>2. r \in Seq(Message) /\ Len(r) = N + Len(A)
            /\ \A k \in 1..Len(r) : r[k] = IF k <= N THEN hist[k] ELSE A[k - N]
        BY <1>1, <2>5, ConcatProperties
      <3> HIDE DEF r, N
      <3> QED BY <3>1, <3>2
    <2> HIDE DEF r
    <2>7. \A k \in (N + 1)..Len(r) : r[k].body = "result"
      <3> TAKE k \in (N + 1)..Len(r)
      <3>1. k - N \in 1..Len(todo) /\ k \in (N + 1)..(N + Len(A))
        BY <2>5, <2>6
      <3> QED BY <2>3, <2>6, <3>1
    <2>8. Unmarked(r)
      <3>1. N <= Len(r)
        BY <2>6
      <3>2. \A k \in (N + 1)..Len(r) : r[k].role = "tool" => r[k].body \in LeftWhole
        BY <2>7 DEF LeftWhole
      <3> QED BY <1>1, <2>6, <3>1, <3>2, UnmarkedGrows
    <2>9. Unmarked(hist')
      BY <2>1, <2>8 DEF r
    <2> QED BY <1>1, <2>1, <2>9 DEF LatestInFull
  <1>16. CASE EndRound
    <2> DEFINE h == IF loop.malformed THEN Append(hist, Say("user")) ELSE hist
    <2>1. (hist' = h /\ stored' = stored) \/ TurnOver(h)
      BY <1>16 DEF EndRound
    <2>2. h \in Seq(Message) /\ Unmarked(h)
      BY <1>1, UnmarkedSay
    <2> HIDE DEF h
    <2>3. CASE TurnOver(h)
      BY <1>1, <2>2, <2>3, UnmarkedTurnOver
    <2>4. CASE hist' = h /\ stored' = stored
      BY <1>1, <2>2, <2>4 DEF LatestInFull
    <2> QED BY <2>1, <2>3, <2>4
  <1> QED BY <1>2, <1>3, <1>4, <1>5, <1>6, <1>7, <1>8, <1>9, <1>10, <1>11, <1>13, <1>14, <1>15, <1>16
          DEF LoopNext, LoopStep

\* What the invariant says of the requests and the saved messages.
LEMMA LoopInvIsSound ==
  ASSUME LoopInv, LatestInFull
  PROVE  ConversationSound
  <1>1. hist \in Seq(Message) /\ InBlock(hist) /\ MarksWithin(hist, loop)
    BY DEF LoopInv, Conversations, MarksStand, Sound
  <1>2. DOMAIN hist = 1..Len(hist) /\ Len(hist) \in Nat
    BY <1>1, LenProperties
  <1>3. LoopTypeOK
    <2>1. loop.boundary <= Len(hist) /\ loop.frontier <= Len(hist)
      BY <1>1, <1>2 DEF MarksWithin
    <2>2. \A k \in DOMAIN hist : hist[k].role \in Roles
      BY <1>1, <1>2, ElementOfSeq, Messages
    <2> QED BY <2>1, <2>2 DEF LoopTypeOK, Roles
  <1>4. RequestsWellFormed
    <2> SUFFICES ASSUME at = "asking"
                 PROVE  /\ WellPaired(request)
                        /\ \A k \in DOMAIN request :
                              request[k].role = "system" \/ \E j \in 1..k : request[j].role = "user"
      BY DEF RequestsWellFormed
    <2>1. request \in Seq(Message) /\ WellPaired(request) /\ UserFirst(request)
      BY DEF LoopInv, Requested
    <2>2. DOMAIN request = 1..Len(request)
      BY <2>1, LenProperties
    <2> QED BY <2>1, <2>2 DEF UserFirst
  <1>5. FreshResultsShown
    <2>1. Latest = LatestIn(hist)
      BY DEF Latest, LatestIn
    <2>2. at = "asking" => Shown(hist, clobbered, request)
      BY DEF LoopInv, Requested
    <2>3. Few(hist) => \A k \in LatestIn(hist) : hist[k].body # "interrupted" => hist[k].body = "result"
      BY DEF LatestInFull, Unmarked, LeftWhole
    <2> QED BY <2>1, <2>2, <2>3 DEF FreshResultsShown, Shown, Few
  <1>6. SavedIsWhole
    BY DEF LoopInv
  <1> QED BY <1>3, <1>4, <1>5, <1>6 DEF ConversationSound

\* The loop alone: MCSessionStores checks it as one of its parts.
LoopSpec == LoopInit /\ [][LoopNext]_loopVars

\* Every request is well formed and shows the results just got, and what is saved is
\* whole, through compaction, its fallback, the repairs of sanitize_tool_call_pairing and
\* demote_orphan_tool_results, cancelled turns, saves under way and reopened sessions.
THEOREM LoopSoundTheorem == LoopSpec => []ConversationSound
  <1> DEFINE Inv == LoopInv /\ LatestInFull
  <1>1. LoopInit => Inv
    <2> SUFFICES ASSUME LoopInit
                 PROVE  LatestInFull
      BY LoopStarts
    <2>1. hist = <<>> /\ stored = <<>> /\ <<>> \in Seq(Message) /\ Len(<<>>) = 0
      BY EmptySeq DEF LoopInit
    <2> DEFINE e == <<>>
    <2>2. \A k \in LatestIn(e) : FALSE
      <3> HIDE DEF e
      <3>1. e \in Seq(Message) /\ Len(e) = 0
        BY <2>1 DEF e
      <3>2. LatestIn(e) = {k \in 1..Len(e) : e[k].role = "tool" /\ k > LastAssistant(e, Len(e))}
        BY <3>1, LatestAre
      <3> QED BY <3>1, <3>2
    <2> QED BY <2>1, <2>2 DEF LatestInFull, Unmarked
  <1>2. Inv /\ [LoopNext]_loopVars => Inv'
    BY LoopKeeps, LatestStaysInFull
  <1>3. Inv => ConversationSound
    BY LoopInvIsSound
  <1> HIDE DEF Inv
  <1> QED BY <1>1, <1>2, <1>3, PTL DEF LoopSpec

=============================================================================
