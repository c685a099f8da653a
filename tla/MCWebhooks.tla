------------------------------ MODULE MCWebhooks -----------------------------
(***************************************************************************)
(* Small instances of Webhooks.  The events are alike, and so are the      *)
(* workers.                                                                *)
(***************************************************************************)
EXTENDS Webhooks, TLC

CONSTANTS w1, w2, a1, e1, e2, e3, e4, e5

MCSymmetry == Permutations(Event) \cup Permutations(Worker)
=============================================================================
