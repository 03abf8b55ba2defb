-------------------------- MODULE MCProductionQueue --------------------------
(* Three briefs, and what a sweep may find waiting: any of them, listed in  *)
(* Run id order (brief_production.py waiting_briefs).                       *)
EXTENDS ProductionQueue

CONSTANTS post, reel, story

AnyWaiting ==
  {SelectSeq(<<post, reel, story>>, LAMBDA b : b \in waiting) : waiting \in SUBSET Briefs}
=============================================================================
