--------------------------- MODULE ResultDelivery ---------------------------
(***************************************************************************)
(* What a parent is promised about the results of the children it spawned, *)
(* with no groups, generations or deadlines in sight.  A child that is     *)
(* registered settles on one result; a settled child is handed to its      *)
(* owner at most once, with the result it settled on; a child whose        *)
(* conversation was reset is discarded and never handed over.              *)
(***************************************************************************)
CONSTANTS Children, Results, None

VARIABLES status,   \* child -> where its result stands
          value     \* child -> the result it settled on, None before

vars == <<status, value>>

Init ==
  /\ status = [c \in Children |-> "idle"]
  /\ value = [c \in Children |-> None]

Move(B, from, to) ==
  /\ B # {}
  /\ \A c \in B : status[c] \in from
  /\ status' = [c \in Children |-> IF c \in B THEN to ELSE status[c]]

Register(c) == Move({c}, {"idle"}, "awaiting") /\ UNCHANGED value

Settle(B) ==
  /\ Move(B, {"awaiting"}, "settled")
  /\ \E v \in [Children -> Results] :
       value' = [c \in Children |-> IF c \in B THEN v[c] ELSE value[c]]

Deliver(B) == Move(B, {"settled"}, "delivered") /\ UNCHANGED value

Discard(B) ==
  /\ Move(B, {"awaiting", "settled"}, "discarded")
  /\ value' = [c \in Children |-> IF c \in B THEN None ELSE value[c]]

Next ==
  \/ \E c \in Children : Register(c)
  \/ \E B \in SUBSET Children : Settle(B) \/ Deliver(B) \/ Discard(B)

Spec == Init /\ [][Next]_vars
=============================================================================
