--------------------------- MODULE RoomActivation ---------------------------
(***************************************************************************)
(* Claiming the room d-flop-bench: create_service (activation.py) run by   *)
(* any number of processes, its audit row in service_activations           *)
(* (state.py), the ledger record that follows it (EvidenceLedger), and     *)
(* Technocore's owner note, which is written at most once.                 *)
(*                                                                         *)
(* Reads of Technocore may lag: an owner is shown late, a nonce may be an  *)
(* earlier one.  A request is handled at any time after it was sent, also  *)
(* when its sender has given up, and its answer may be lost.               *)
(***************************************************************************)
EXTENDS EvidenceLedger

CONSTANTS
  Activation,   \* runs of `technocore create-room', and their audit rows
  MaxAttempts,  \* signed writes one run may send (3)
  MaxNonce,     \* bound: the highest /kv/room-nonce of the room
  Null          \* SQL NULL

Outcomes == {"created", "already-owned", "failed", "failed_preflight"}

ASSUME ActivationAssumption ==
  /\ Activation \subseteq Writer
  /\ Content = Activation \X Outcomes
  /\ MaxAttempts \in Nat \ {0} /\ MaxNonce \in Nat
  /\ Null \notin Nat

VARIABLES
  owner,      \* /kv/room-owners/d-flop-bench
  roomNonce,  \* /kv/room-nonce/d-flop-bench
  wire,       \* activations whose last write has not been handled
  answer,     \* what Technocore answered to it, "none" before
  row,        \* service_activations: status and nonce_used
  pc,         \* where each process stands
  attempt,    \* writes it has seen refused
  nonce,      \* nonce of its last write
  sent        \* history: writes it has sent

remote  == <<owner, roomNonce, wire, answer>>
process == <<pc, attempt, nonce, sent>>
vars    == <<ledgerVars, remote, row, process>>

Entry(status, n) == [status |-> status, nonce |-> n]

Goto(a, label) == pc' = [pc EXCEPT ![a] = label]

Init ==
  /\ LedgerInit
  /\ owner = "absent" /\ roomNonce = 0
  /\ wire = {}
  /\ answer = [a \in Activation |-> "none"]
  /\ row = [a \in Activation |-> Entry("none", Null)]
  /\ pc = [a \in Activation |-> "start"]
  /\ attempt = [a \in Activation |-> 0]
  /\ nonce = [a \in Activation |-> Null]
  /\ sent = [a \in Activation |-> 0]

-----------------------------------------------------------------------------
(* Technocore and others who write to it.                                  *)

\* `?if_absent=1' with a nonce above the room's.
Accept(a) ==
  /\ a \in wire
  /\ owner = "absent" /\ nonce[a] > roomNonce
  /\ owner' = "bench" /\ roomNonce' = nonce[a]
  /\ wire' = wire \ {a}
  /\ answer' = [answer EXCEPT ![a] = "ok"]
  /\ UNCHANGED <<ledgerVars, row, process>>

\* 409 or 422, 429, any other status, or a 2xx that wrote nothing.
Refuse(a) ==
  /\ a \in wire
  /\ wire' = wire \ {a}
  /\ \E status \in {"conflict", "busy", "error", "ok"} : answer' = [answer EXCEPT ![a] = status]
  /\ UNCHANGED <<ledgerVars, owner, roomNonce, row, process>>

Others ==
  /\ \E n \in roomNonce..MaxNonce :
       /\ roomNonce' = n
       /\ \/ owner' = IF owner = "absent" THEN "foreign" ELSE owner
          \/ n > roomNonce /\ UNCHANGED owner
  /\ UNCHANGED <<ledgerVars, wire, answer, row, process>>

\* What a read of the owner note may show.
Shown == {owner, "absent"}

-----------------------------------------------------------------------------
(* The outcome: the row first, the ledger record afterwards.               *)

\* update_service_activation.
Conclude(a, status, n) ==
  /\ row' = [row EXCEPT ![a] = Entry(status, n)]
  /\ Goto(a, "read")
  /\ UNCHANGED <<ledgerVars, remote, attempt, nonce, sent>>

ReadLedger(a) ==
  /\ pc[a] = "read"
  /\ IF Readable THEN ReadLast(a) /\ Goto(a, "append") ELSE UNCHANGED ledgerVars /\ Goto(a, "done")
  /\ UNCHANGED <<remote, row, attempt, nonce, sent>>

\* Faults: a recorded failure does not end the run; a failed append goes unnoticed.
AppendLedgerGoingOn(a) ==
  /\ pc[a] = "append"
  /\ AppendRecord(a, <<a, row[a].status>>) \/ AppendShort(a, <<a, row[a].status>>)
  /\ Goto(a, IF row[a].status = "failed" THEN "nonce" ELSE "done")
  /\ UNCHANGED <<remote, row, attempt, nonce, sent>>

AppendLedgerBestEffort(a) ==
  /\ pc[a] = "append"
  /\ AppendRecord(a, <<a, row[a].status>>) \/ AppendNothing(a)
  /\ Goto(a, "done")
  /\ UNCHANGED <<remote, row, attempt, nonce, sent>>

AppendLedger(a) ==
  /\ pc[a] = "append"
  /\ AppendRecord(a, <<a, row[a].status>>) \/ AppendShort(a, <<a, row[a].status>>)
  /\ Goto(a, "done")
  /\ UNCHANGED <<remote, row, attempt, nonce, sent>>

-----------------------------------------------------------------------------
(* create_service.                                                         *)

\* The audit row is there before the first request.
Start(a) ==
  /\ pc[a] = "start"
  /\ row' = [row EXCEPT ![a] = Entry("started", Null)]
  /\ Goto(a, "owner")
  /\ UNCHANGED <<ledgerVars, remote, attempt, nonce, sent>>

ReadOwner(a) ==
  /\ pc[a] = "owner"
  /\ \/ "bench" \in Shown /\ Conclude(a, "already-owned", Null)
     \/ "foreign" \in Shown /\ Conclude(a, "failed", Null)
     \/ /\ "absent" \in Shown
        /\ Goto(a, "nonce")
        /\ UNCHANGED <<ledgerVars, remote, row, attempt, nonce, sent>>

OwnerUnreadable(a) ==
  /\ pc[a] = "owner"
  /\ \E status \in {"failed_preflight", "failed"} : Conclude(a, status, Null)

\* nonce_base + 1 + attempt; an unused room has no nonce note and counts as 0.
ReadNonce(a) ==
  /\ pc[a] = "nonce"
  /\ \E base \in 0..roomNonce : nonce' = [nonce EXCEPT ![a] = base + 1 + attempt[a]]
  /\ Goto(a, "write")
  /\ UNCHANGED <<ledgerVars, remote, row, attempt, sent>>

\* Fault: the failure of a later nonce read is recorded like that of the first.
NonceUnreadableUnused(a) == pc[a] = "nonce" /\ Conclude(a, "failed", Null)

\* nonce_used is NULL the first time, and the nonce of the refused write later.
NonceUnreadable(a) == pc[a] = "nonce" /\ Conclude(a, "failed", nonce[a])

SigningFails(a) == pc[a] = "write" /\ Conclude(a, "failed", nonce[a])

Transmit(a) ==
  /\ pc[a] = "write"
  /\ wire' = wire \union {a}
  /\ answer' = [answer EXCEPT ![a] = "none"]
  /\ sent' = [sent EXCEPT ![a] = IF @ > MaxAttempts THEN @ ELSE @ + 1]
  /\ Goto(a, "wait")
  /\ UNCHANGED <<ledgerVars, owner, roomNonce, row, attempt, nonce>>

Again(a) ==
  /\ attempt[a] < MaxAttempts - 1
  /\ attempt' = [attempt EXCEPT ![a] = @ + 1]
  /\ Goto(a, "nonce")
  /\ UNCHANGED <<ledgerVars, remote, row, nonce, sent>>

\* Fault: a write without an answer is repeated.
NoAnswerRetried(a) == pc[a] = "wait" /\ (Conclude(a, "failed", nonce[a]) \/ Again(a))

\* A timeout, a broken connection, a redirect or a body past the limit.
NoAnswer(a) == pc[a] = "wait" /\ Conclude(a, "failed", nonce[a])

\* Fault: the loop's bound is not looked at.
RetryForever(a) ==
  /\ pc[a] = "wait"
  /\ answer[a] \in {"conflict", "busy"}
  /\ Goto(a, "nonce")
  /\ UNCHANGED <<ledgerVars, remote, row, attempt, nonce, sent>>

Retry(a) ==
  /\ pc[a] = "wait"
  /\ answer[a] \in {"conflict", "busy"}
  /\ Again(a)

\* Any other status, and a 409, 422 or 429 to the last write.
Rejected(a) ==
  /\ pc[a] = "wait"
  /\ \/ answer[a] = "error"
     \/ answer[a] \in {"conflict", "busy"} /\ attempt[a] = MaxAttempts - 1
  /\ Conclude(a, "failed", nonce[a])

Succeeded(a) ==
  /\ pc[a] = "wait"
  /\ answer[a] = "ok"
  /\ Goto(a, "verify")
  /\ UNCHANGED <<ledgerVars, remote, row, attempt, nonce, sent>>

\* Faults: a 2xx is believed; the loop goes on after a failed verification.
VerifyNothing(a) == pc[a] = "verify" /\ Conclude(a, "created", nonce[a])

VerifyOn(a) ==
  /\ pc[a] = "verify"
  /\ \/ "bench" \in Shown /\ Conclude(a, "created", nonce[a])
     \/ /\ row' = [row EXCEPT ![a] = Entry("failed", nonce[a])]
        /\ attempt[a] < MaxAttempts - 1
        /\ attempt' = [attempt EXCEPT ![a] = @ + 1]
        /\ Goto(a, "write")
        /\ UNCHANGED <<ledgerVars, remote, nonce, sent>>

\* The owner note is read again after a 2xx.
Verify(a) ==
  /\ pc[a] = "verify"
  /\ \/ "bench" \in Shown /\ Conclude(a, "created", nonce[a])
     \/ Conclude(a, "failed", nonce[a])

\* The process dies, or a write to the state directory fails.
Die(a) ==
  /\ pc[a] \notin {"start", "done", "dead"}
  /\ Goto(a, "dead")
  /\ IF a \in holding THEN AppendNothing(a) ELSE UNCHANGED ledgerVars
  /\ UNCHANGED <<remote, row, attempt, nonce, sent>>

-----------------------------------------------------------------------------
Step(a) ==
  \/ ReadOwner(a) \/ OwnerUnreadable(a) \/ ReadNonce(a) \/ NonceUnreadable(a)
  \/ SigningFails(a) \/ Transmit(a) \/ NoAnswer(a) \/ Retry(a) \/ Rejected(a)
  \/ Succeeded(a) \/ Verify(a) \/ ReadLedger(a) \/ AppendLedger(a)

Next ==
  \/ Others
  \/ \E a \in Activation : Start(a) \/ Step(a) \/ Die(a) \/ Accept(a) \/ Refuse(a)

\* A process that runs keeps running: every request returns or times out.
Spec == Init /\ [][Next]_vars
FairSpec == Spec /\ \A a \in Activation : WF_vars(Step(a))

-----------------------------------------------------------------------------
(* Properties.                                                             *)

\* Every variable has its type.
TypeOK ==
  /\ LedgerTypeOK
  /\ owner \in {"absent", "bench", "foreign"} /\ roomNonce \in Nat
  /\ wire \subseteq Activation
  /\ answer \in [Activation -> {"none", "ok", "conflict", "busy", "error"}]
  /\ row \in [Activation -> [status : Outcomes \union {"none", "started"}, nonce : Nat \union {Null}]]
  /\ pc \in [Activation -> {"start", "owner", "nonce", "write", "wait", "verify",
                            "read", "append", "done", "dead"}]
  /\ attempt \in [Activation -> 0..MaxAttempts - 1]
  /\ nonce \in [Activation -> Nat \union {Null}]
  /\ sent \in [Activation -> 0..MaxAttempts]

\* "verifies ownership after a successful write" (README.md): a run that reports the room as
\* created or already owned is right, whatever Technocore answered to whose write.
OwnershipIsTrue ==
  \A a \in Activation : row[a].status \in {"created", "already-owned"} => owner = "bench"

\* An audit row with an outcome and no nonce_used is proof that nothing was written: every
\* path after the first write records the nonce of the last one.
NoNonceNothingSent ==
  \A a \in Activation : row[a].status \in Outcomes /\ row[a].nonce = Null => sent[a] = 0

\* "Retries are ... limited to nonce/conflict/rate-limit cases" (SECURITY.md): a write is
\* repeated only after Technocore refused the one before, never while that may still land.
RetriesAreAnswered ==
  [][\A a \in Activation : sent'[a] # sent[a] => a \notin wire /\ attempt[a] = sent[a]]_vars

\* Each run has one outcome, and its row keeps it.
OneOutcome ==
  [][\A a \in Activation : row[a].status \in Outcomes => row'[a] = row[a]]_vars

\* The ledger never contradicts the audit rows: a record of a run gives the status of its row,
\* and no run has two.
LedgerTellsRow ==
  /\ \A i \in 1..Len(lines) : lines[i] # Garbage => row[lines[i].of[1]].status = lines[i].of[2]
  /\ \A i, j \in 1..Len(lines) :
       lines[i] # Garbage /\ lines[j] # Garbage /\ lines[i].of[1] = lines[j].of[1] => i = j

\* "normal completion updates the same row to the terminal state" (README.md), and leaves a
\* ledger record unless the ledger is damaged; a run that died shows as started or unrecorded.
CompletionIsAudited ==
  \A a \in Activation : pc[a] = "done" =>
    /\ row[a].status \in Outcomes
    /\ Readable => \E i \in 1..Len(lines) : lines[i].of = <<a, row[a].status>>

\* A started run ends, however often Technocore refuses it.
RunsEnd == \A a \in Activation : pc[a] # "start" ~> pc[a] \in {"done", "dead"}
=============================================================================
