--------------------------- MODULE MCRunAggregate ---------------------------
(* A small Run for TLC: one kind of step and one input, since the Run       *)
(* itself never looks at them.                                              *)
EXTENDS RunAggregate

Bound(tasks, reviews, evaluations, records) ==
  [tasks |-> tasks, reviews |-> reviews, evaluations |-> evaluations, records |-> records]

\* Several judgements of one Artifact, and several Artifacts judged once.
Small == {Bound(1, 2, 2, 1), Bound(2, 1, 1, 0)}
OneTask == {Bound(1, 0, 0, 0)}
=============================================================================
