SPECIFICATION FairSpec
CONSTANTS
  post = post
  reel = reel
  story = story
  Briefs = {post, reel, story}
  Handlers = {h1, h2}
  Listings <- AnyWaiting
  NoBrief = NoBrief
INVARIANTS
  NoLostWakeup
  NoLostEdit
PROPERTIES
  KeepsPromises
  StopEnds
