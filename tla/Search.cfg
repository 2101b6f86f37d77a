SPECIFICATION MCSpec
CONSTANTS
  MapSide = 7000
  Points <- MCPoints
  Decay <- MCDecay
  WeakWords <- MCWeak
  Now = 600
  Viewer = "v"
  Cases <- MCCases
  Failures <- MCFailures
  Skews <- MCSkews
  CandidateFactor = 2
  CandidateFloor = 3
  CandidateCeiling = 4
  Similar <- MCSimilar
  StrictLimit = 1
  MaxPages = 3
  Searchers = {s1}
  Inviters = {i1, i2}
  Background = bg
INVARIANT PageRight
INVARIANT PagesPartition
INVARIANT SurfacesNest
INVARIANT IntendedOrder
INVARIANT ChipsMirrorReasons
INVARIANT InvitesOnce
PROPERTY FeedAnswers
CHECK_DEADLOCK FALSE
