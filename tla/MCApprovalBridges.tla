-------------------------- MODULE MCApprovalBridges --------------------------
(* A small instance of ApprovalBridges for TLC: one request of each kind, two  *)
(* of which are made in a behaviour, and two posts, so that every pair of      *)
(* answers, timeouts and drops can meet; two rules, so that an answer can name *)
(* another than the prompt's.                                                  *)
EXTENDS ApprovalBridges

CONSTANTS w1, w2

\* Both requests are about w1; a client may name w2 all the same.
MCRuleOf == [r \in Permissions |-> w1]
=============================================================================
