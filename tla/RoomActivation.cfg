SPECIFICATION FairSpec
CONSTANTS
  Activation = {a1, a2}
  Writer = {a1, a2}
  Content <- Records
  Garbage = Garbage
  MaxLines = 2
  MaxAttempts = 2
  MaxNonce = 1
  Null = Null
INVARIANTS OwnershipIsTrue NoNonceNothingSent LedgerTellsRow CompletionIsAudited
PROPERTIES RetriesAreAnswered OneOutcome RunsEnd
CHECK_DEADLOCK FALSE
