\* Two brokers, a webhook posted twice, a channel of one place, a memtable of two frames, and a
\* refused write, a failing flush, a panic, a lost connection or a crash; shutdowns and restarts.
SPECIFICATION Spec
CONSTANTS
  None = None
  Malformed = Malformed
  ChirpStack = ChirpStack
  Ttn = Ttn
  app = app
  name = name
  dev = dev
  hook = hook
  noon = noon
  Brokers = {ChirpStack, Ttn}
  Outbox <- MCOutbox
  Webhooks = {hook}
  WebhookMessage <- MCWebhook
  Traffic <- MCTraffic
  Capacity = 1
  MemtableLimit = 2
  MaxAttempts = 2
  MaxFaults = 1
INVARIANTS IngestTypeOK AnsweredStored SameKeyBothRoutes
PROPERTIES ImplementsTransit EachSettles EachAnswered ShutdownEnds MemtableFlushed Reconnects
CHECK_DEADLOCK FALSE
