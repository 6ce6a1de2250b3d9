SPECIFICATION FairSpec
CONSTANTS
  Worker = {w1, w2}
  NoWorker = NoWorker
  PollInterval = 1
  MaxBackoff = 3
  MinLease = 2
  MaxHold = 2
  MaxExponent = 2
  MaxInterrupts = 2

PROPERTIES FailedPollBacksOff
