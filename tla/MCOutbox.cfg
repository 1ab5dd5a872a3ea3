CONSTANTS
  bob = bob
  d1 = d1
  d2 = d2
  NoEvent = NoEvent
  Events <- ThreeEvents
  Users = {bob}
  Dispatchers = {d1, d2}
  Mortal = {d2}
  Topics = 2
  TopicOf <- ThreeTopics
  OccurredAt <- SameTime
  Unsupported = {1}
  CourseWide = {3}
  Named <- ThreeNamed
  Limit = 2
  MaxLost = 1
SPECIFICATION FairSpec
INVARIANTS ProcessedIsDelivered DuplicatesBounded
PROPERTIES SupportedEventsProgress
