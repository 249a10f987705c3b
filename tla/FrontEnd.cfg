CONSTANTS
  MAX_GROUP = 7
  ICACHE_HIT = {TRUE}
SPECIFICATION FairSpec
INVARIANTS SkidsSuffice Conservation DispatchConservation NothingSurvivesFlush RedirectTaken
PROPERTIES GroupsArrive
