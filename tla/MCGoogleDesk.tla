----------------------------- MODULE MCGoogleDesk -----------------------------
(* Reviews, material and blocks for TLC.                                    *)
EXTENDS GoogleDesk

CONSTANTS approved, first, quoting, dividing

MCMaterial ==
  [package \in Packages |->
     IF package = quoting
       THEN <<[mark |-> "decision", text |-> approved],
              [mark |-> "reason", text |-> "else"], Marker("separator")>>
       ELSE <<[mark |-> "none", text |-> "else"], Marker("separator")>>]

\* A block with a word typed, as it was or with lines removed.
Filled(word) == [Untouched EXCEPT ![2].text = word]
Without(lines, gone) ==
  LET kept == SelectSeq([k \in DOMAIN lines |-> k], LAMBDA k : k \notin gone)
  IN  [k \in DOMAIN kept |-> lines[kept[k]]]

MCBlocks ==
  {Filled("else")} \cup {Without(Filled(approved), gone) : gone \in {{}, {4}, {2, 4}, {2, 3, 4}}}
=============================================================================
