---------------------------- MODULE BriefRequests ----------------------------
(***************************************************************************)
(* What the production service promises to whoever triggers it: a brief    *)
(* that was asked for is wanted until its production starts, one brief is  *)
(* produced at a time, a brief asked for again while it is being produced  *)
(* is wanted again, and closing drops what is wanted but not what runs     *)
(* (infrastructure/production_service.py, the module's and the queue's     *)
(* contract).  No order, no threads, no locks.                             *)
(***************************************************************************)
CONSTANTS Briefs, NoBrief

VARIABLES
  wanted,      \* the briefs asked for and not started
  producing,   \* the brief being produced, or NoBrief
  closed       \* nothing more is accepted or started

vars == <<wanted, producing, closed>>

Init == wanted = {} /\ producing = NoBrief /\ closed = FALSE

Request(b) ==
  /\ ~closed
  /\ wanted' = wanted \cup {b}
  /\ UNCHANGED <<producing, closed>>

Begin(b) ==
  /\ ~closed /\ producing = NoBrief /\ b \in wanted
  /\ producing' = b /\ wanted' = wanted \ {b}
  /\ UNCHANGED closed

End ==
  /\ producing # NoBrief
  /\ producing' = NoBrief
  /\ UNCHANGED <<wanted, closed>>

Close == closed' = TRUE /\ wanted' = {} /\ UNCHANGED producing

Next == End \/ Close \/ \E b \in Briefs : Request(b) \/ Begin(b)

SafeSpec == Init /\ [][Next]_vars

(* A production ends, and a brief that is again and again free to begin    *)
(* does begin, however many others are wanted.                             *)
Spec == SafeSpec /\ WF_vars(End) /\ \A b \in Briefs : SF_vars(Begin(b))
=============================================================================
