-------------------------- MODULE MCBriefProduction --------------------------
(* A plan for TLC.                                                          *)
EXTENDS BriefProduction

CONSTANTS edit

OneStep == {<<edit>>}
EmptyStore == {NoRun}
=============================================================================
