SPECIFICATION FairSpec
CONSTANTS
  approved = approved
  first = first
  quoting = quoting
  dividing = dividing
  Reviews = {first}
  Packages = {quoting, dividing}
  Material <- MCMaterial
  Decisions = {approved}
  Undecided = Undecided
  Blocks <- MCBlocks
  NoReview = NoReview
  NoPackage = NoPackage
  NoRequest = NoRequest
  NoToken = NoToken
  MaxDocs = 2
INVARIANTS
  OneVoice
  OnlyTheReviewerDecides
PROPERTIES
  ImplementsDesk
  DecisionIsRead
