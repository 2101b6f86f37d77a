SPECIFICATION MCSpec
CONSTANTS
  Uploads = {u1, u2}
  Archives <- MCArchives
  MaxAsks = 2
  MaxMessages = 3
  Own = {2}
  Calls = {q1, q2}
  PageLimit = 1
  Second = 2
  MaxClock = 5
  h = h
  a = a
  r1 = r1
  r2 = r2
  People = {h, a, b}
  Hosts <- MCHosts
  Total <- MCTotal
  Recipients = {u}
  Rooms = {room, dm}
  MaxJobs = 3
  Window = 2
  PurgeAfter = 2
  MaxEntries = 1
  Cooldown = 2
  MaxTokens = 2
  MaxMinute = 4
  Members = {u}
  Others = {"rating_prompts"}
  Changes <- MCChanges
  Bodies <- MCBodies
  Notes = {n}
  Searches <- MCSearches
  Curated <- MCCurated
  Trips <- MCTrips
  Canonical <- MCCanonical
  Plain <- MCPlain
  Order <- MCOrder
  TextFit <- MCTextFit
  Remote <- MCRemote
  Here = {"Current location", "VIT", "no Latin letter"}
  Ttl = 1
  MaxTrips = 3
  MaxTime = 2
INVARIANT ManifestsWhole
INVARIANT LastUploadServed
INVARIANT ScrollComplete
INVARIANT BadgeHonest
INVARIANT SeatsOutliveAccounts
INVARIANT RidesOutliveHosts
INVARIANT TokenKept
INVARIANT PushesSpaced
INVARIANT MutesAgree
INVARIANT SettingsKept
INVARIANT CuratedWins
CHECK_DEADLOCK FALSE
