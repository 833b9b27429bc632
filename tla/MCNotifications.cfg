SPECIFICATION FairSpec
CONSTANTS
  owners = owners
  oncall = oncall
  Events = {e1}
  Routes = {owners, oncall}
  EscalationRoute <- OwnersEscalate
  Dispatchers = {d1, d2}
  MaxAttempts = 2
  Delay <- Doubling
  LeaseTime = 2
  DispatchTimeout = 1
  EscalateAfter = 1
  PageSize = 1
INVARIANTS
  DeliveryIsSound
PROPERTIES
  EventsSettle
  SilenceEscalates
