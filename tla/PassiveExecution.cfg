SPECIFICATION Spec
CONSTANTS
  Executor = {e1, e2}
  Writer = {e1, e2, w}
  Request = {r1, r2}
  Content = {r1, r2, other}
  NoRequest = NoRequest
  Nobody = Nobody
  Garbage = Garbage
  MaxLines = 2
INVARIANTS OneExecutor OneRecord CompletedIsBacked RunsOnGrounds SerialAppendsVerify
PROPERTIES ClaimedOnce NoSilentRerun AppendOnly
SYMMETRY Symmetry
