CONSTANTS
  r1 = r1
  r2 = r2
  ada = ada
  bob = bob
  cyd = cyd
  x1 = x1
  x2 = x2
  x3 = x3
  k1 = k1
  k2 = k2
  dan = dan
  s1 = s1
  s2 = s2
  c1 = c1
  c2 = c2
  Editors = {r1, r2}
  Texts = {t1, t2}
  NoText = NoText
  MaxRevision = 4
  Files <- ThreeFiles
  SizeOf <- Sizes
  OwnerOf <- TwoOwners
  Uploads = {r1, r2}
  Removals = {r1, r2}
  Unlimited = Unlimited
  TenantLimits = {1, 3}
  UserLimits = {2}
  Learners = {ada, bob, cyd}
  Enrolments = {r1, r2}
  Boundless = Boundless
  Catalogs <- FourCatalogs
  MaxSeated = 1
  Accounts = {u1, u2}
  Tenants = {t1, t2}
  Deletions = {r1, r2}
  Authors = {r1, r2}
  MaxNews = 3
  Notices <- ThreeNotices
  RecipientOf <- Recipient
  Digesters = {r1, r2}
  DigestLimit = 2
  MaxFailures = 1
  Deliveries = {1, 2}
  Mail = {1}
  Hopeless = {}
  Devices = {phone, tablet}
  Fickle = {phone}
  HolderOf <- Pushes
  Mailbox = Mailbox
  Couriers = {r1, r2}
  BatchSize = 2
  MaxMisses = 2
  Items = {x1, x2, x3}
  Reorders = {r1, r2}
  Orders <- ThreeOrders
  Places = {0, 1}
  Kinds = {"content", "category"}
  Clients = {k1, k2}
  Watched = k1
  Request = 3
  Capacity = 6
  Refill = 2
  MaxBuckets = 1
  LastSecond = 4
  MaxBack = 1
  MaxDropped = 1
  Requests = {ada, bob, cyd, dan}
  Servers = {s1, s2}
  ServerOf <- Server
  Nobody = Nobody
  MaxRestarts = 1
  GradeIds = {1, 2, 3}
  Grades <- NineGrades
  Categories = {c1, c2}
  Settings <- FiveCategories
  NoCategory = NoCategory
  NoWeight = NoWeight
SPECIFICATION Spec
SYMMETRY Symmetry
INVARIANTS
  HistoryEndsWithPage
  StoreAgrees
  QuotaOvershootBounded
  SeatsBounded
  HoldsProtect
  NewsFollowsPublication
  DigestedOnce
  SentBounded
  OrderAsAsked
  BurstBounded
  RetryIsServed
  GeneratedOnce
  DropNeverLowers
CHECK_DEADLOCK FALSE
