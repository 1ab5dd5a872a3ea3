CONSTANTS
  Offsets = {1}
  Starts = {1, 2}
  Rounds = {r1}
  PageSize = 1
  LastMinute = 1
  MaxSaves = 2
  MaxBroken = 1
  Deliveries <- FourDeliveries
  Mail <- Emails
  Hopeless = {1}
  Devices = {phone, tablet}
  Fickle = {phone}
  HolderOf <- Pushes
  Mailbox = Mailbox
  Couriers = {c1}
  BatchSize = 2
  MaxMisses = 1
  PerReminder = 2
SPECIFICATION PipeSpec
INVARIANTS
  PendingIsCurrent
  SentIsTold
  ProcessedIsSent
PROPERTIES
  ReminderReachesDevices
CHECK_DEADLOCK FALSE
