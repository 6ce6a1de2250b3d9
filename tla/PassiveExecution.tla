-------------------------- MODULE PassiveExecution --------------------------
(***************************************************************************)
(* Manual execution of an approved mailbox request: execute_passive        *)
(* (execution.py) run by any number of operators at once, its reservation  *)
(* row (state.py), the evidence it writes and the ledger it appends to     *)
(* (EvidenceLedger).                                                       *)
(*                                                                         *)
(* Every read of SQLite is a transaction of its own, so the switch, the    *)
(* request and the reservation can change between any two of them, and a   *)
(* process can die between any two steps.  Nothing retries or recovers.    *)
(***************************************************************************)
EXTENDS EvidenceLedger

CONSTANTS
  Executor,   \* processes that run `request execute-passive'
  Request,    \* request ids, of a supported procedure
  NoRequest,
  Nobody

ASSUME ExecutionAssumption ==
  /\ Executor \subseteq Writer /\ Request \subseteq Content
  /\ NoRequest \notin Request /\ Nobody \notin Executor

VARIABLES
  intake,    \* mailbox_intake_activation
  review,    \* review_status of the mailbox row of each request, "none" without one
  expired,   \* requests past expires_at
  status,    \* mailbox_request_executions.execution_status, "none" without a row
  file,      \* evidence/<id>.json: "none", "draft" before it has its artifact_hash, "final"
  runs,      \* requests whose evidence is in the runs table
  pc, req,   \* where each executor stands, and its request
  claimant,  \* history: who made the reservation
  grounds    \* history: which conditions held at some moment since it did

db     == <<intake, review, expired>>
result == <<status, file, runs, claimant>>
vars   == <<ledgerVars, db, result, pc, req, grounds>>

Executing == {"mark", "read", "append", "draft", "final", "insert", "complete"}
Working   == {"switch2", "row2"} \union Executing
Starting  == {"switch1", "row1", "reserve"}

Goto(e, label) == pc' = [pc EXCEPT ![e] = label]

Stop(e) ==
  /\ pc' = [pc EXCEPT ![e] = "idle"]
  /\ req' = [req EXCEPT ![e] = NoRequest]
  /\ grounds' = [grounds EXCEPT ![e] = {}]

\* The mailbox as MailboxIntake keeps it (its ReviewContract).
Desk == INSTANCE ReviewDesk WITH verdict <- review

Init ==
  /\ LedgerInit
  /\ intake = TRUE
  /\ Desk!Init
  /\ expired = {}
  /\ status = [r \in Request |-> "none"]
  /\ file = [r \in Request |-> "none"]
  /\ runs = {}
  /\ pc = [e \in Executor |-> "idle"]
  /\ req = [e \in Executor |-> NoRequest]
  /\ claimant = [r \in Request |-> Nobody]
  /\ grounds = [e \in Executor |-> {}]

-----------------------------------------------------------------------------
(* Operator commands and time.                                             *)

SetIntake(on) ==
  /\ intake' = on
  /\ grounds' = [e \in Executor |->
                   IF on /\ pc[e] \in Working THEN grounds[e] \union {"active"} ELSE grounds[e]]
  /\ UNCHANGED <<ledgerVars, review, expired, result, pc, req>>

\* Requests come in and are reviewed.
Review ==
  /\ Desk!Next
  /\ UNCHANGED <<ledgerVars, intake, expired, result, pc, req, grounds>>

Expire(r) ==
  /\ expired' = expired \union {r}
  /\ UNCHANGED <<ledgerVars, intake, review, result, pc, req, grounds>>

-----------------------------------------------------------------------------
(* execute_passive.                                                        *)

Begin(e, r) ==
  /\ pc[e] = "idle"
  /\ Goto(e, "switch1")
  /\ req' = [req EXCEPT ![e] = r]
  /\ UNCHANGED <<ledgerVars, db, result, grounds>>

\* _eligibility reads the switch first, then the request with its execution row.  All
\* blockers are collected, and any of them ends the command.
ReadSwitch(e, here, next) ==
  /\ pc[e] = here
  /\ IF intake THEN Goto(e, next) /\ UNCHANGED <<req, grounds>> ELSE Stop(e)
  /\ UNCHANGED <<ledgerVars, db, result>>

ReadRow(e, here, next, blocked) ==
  LET r == req[e] IN
  /\ pc[e] = here
  /\ IF /\ review[r] = "approved_for_manual_execution"
        /\ r \notin expired
        /\ status[r] \notin blocked
     THEN Goto(e, next) /\ UNCHANGED <<req, grounds>>
     ELSE Stop(e)
  /\ UNCHANGED <<ledgerVars, db, result>>

Check(e) ==
  \/ ReadSwitch(e, "switch1", "row1")
  \/ ReadRow(e, "row1", "reserve", {"reserved", "running"})

\* Faults: an interrupted reservation is taken over; a finished execution is done again.
FreeOrStale(r) == status[r] \in {"none", "reserved"}
FreeOrDone(r) == status[r] \in {"none", "completed"}

Free(r) == status[r] = "none"

\* reserve_mailbox_execution; a row that exists ends the command: with the stored result
\* if it is completed, with an error otherwise.
Reserve(e) ==
  LET r == req[e] IN
  /\ pc[e] = "reserve"
  /\ IF Free(r)
     THEN /\ status' = [status EXCEPT ![r] = "reserved"]
          /\ claimant' = [claimant EXCEPT ![r] = e]
          /\ grounds' = [grounds EXCEPT ![e] = (IF intake THEN {"active"} ELSE {}) \union
                                               (IF r \in expired THEN {} ELSE {"unexpired"})]
          /\ Goto(e, "switch2")
          /\ UNCHANGED req
     ELSE Stop(e) /\ UNCHANGED <<status, claimant>>
  /\ UNCHANGED <<ledgerVars, db, file, runs>>

\* Fault: no second look after the reservation.
RecheckSkipped(e) ==
  /\ pc[e] \in {"switch2", "row2"}
  /\ Goto(e, "mark")
  /\ UNCHANGED <<ledgerVars, db, result, req, grounds>>

\* The second _eligibility, which ignores the executor's own reservation (and would ignore
\* anyone's).  If it fails the reservation stays for good.
Recheck(e) ==
  \/ ReadSwitch(e, "switch2", "row2")
  \/ ReadRow(e, "row2", "mark", {})

\* An UPDATE that may match no row, which goes unnoticed.
MarkRunning(e) ==
  LET r == req[e] IN
  /\ pc[e] = "mark"
  /\ status' = [status EXCEPT ![r] = IF @ = "reserved" THEN "running" ELSE @]
  /\ Goto(e, "read")
  /\ UNCHANGED <<ledgerVars, db, file, runs, claimant, req, grounds>>

\* append_record: previous_hash raises on a line it cannot parse.
ReadLedger(e) ==
  /\ pc[e] = "read"
  /\ IF Readable
     THEN ReadLast(e) /\ Goto(e, "append") /\ UNCHANGED <<req, grounds>>
     ELSE Stop(e) /\ UNCHANGED ledgerVars
  /\ UNCHANGED <<db, result>>

AppendLedger(e) ==
  /\ pc[e] = "append"
  /\ \/ AppendRecord(e, req[e]) /\ Goto(e, "draft") /\ UNCHANGED <<req, grounds>>
     \/ AppendShort(e, req[e]) /\ Stop(e)
  /\ UNCHANGED <<db, result>>

\* The evidence file is written twice: with the ledger record, then with its artifact hash.
WriteFile(e, here, what, next) ==
  /\ pc[e] = here
  /\ file' = [file EXCEPT ![req[e]] = what]
  /\ Goto(e, next)
  /\ UNCHANGED <<ledgerVars, db, status, runs, claimant, req, grounds>>

\* Fault: the file is left as first written.
WriteEvidenceOnce(e) == WriteFile(e, "draft", "draft", "insert")

WriteEvidence(e) ==
  WriteFile(e, "draft", "draft", "final") \/ WriteFile(e, "final", "final", "insert")

InsertRun(e) ==
  /\ pc[e] = "insert"
  /\ runs' = runs \union {req[e]}
  /\ Goto(e, "complete")
  /\ UNCHANGED <<ledgerVars, db, status, file, claimant, req, grounds>>

\* One transaction, which also links the evidence to the mailbox row; it is refused unless
\* the row is running.
Complete(e) ==
  LET r == req[e] IN
  /\ pc[e] = "complete"
  /\ status' = [status EXCEPT ![r] = IF @ = "running" THEN "completed" ELSE @]
  /\ Stop(e)
  /\ UNCHANGED <<ledgerVars, db, file, runs, claimant>>

\* The process dies, or a write fails.
Die(e) ==
  /\ pc[e] # "idle"
  /\ Stop(e)
  /\ IF e \in holding THEN AppendNothing(e) ELSE UNCHANGED ledgerVars
  /\ UNCHANGED <<db, result>>

\* Other commands append to the ledger too.
OtherWriter(w) ==
  /\ \/ ReadLast(w) \/ AppendNothing(w)
     \/ \E c \in Content \ Request : AppendRecord(w, c) \/ AppendShort(w, c)
  /\ UNCHANGED <<db, result, pc, req, grounds>>

-----------------------------------------------------------------------------
Step(e) == \/ Check(e) \/ Reserve(e) \/ Recheck(e) \/ MarkRunning(e)
           \/ ReadLedger(e) \/ AppendLedger(e) \/ WriteEvidence(e) \/ InsertRun(e) \/ Complete(e)

Next ==
  \/ \E on \in BOOLEAN : SetIntake(on)
  \/ \E r \in Request : Expire(r)
  \/ Review
  \/ \E e \in Executor : Step(e) \/ Die(e) \/ \E r \in Request : Begin(e, r)
  \/ \E w \in Writer \ Executor : OtherWriter(w)

Spec == Init /\ [][Next]_vars

-----------------------------------------------------------------------------
(* Properties.                                                             *)

\* Every variable has its type.
TypeOK ==
  /\ LedgerTypeOK
  /\ intake \in BOOLEAN
  /\ review \in [Request -> {"none", "pending_human_review"} \union Desk!Decisions]
  /\ expired \subseteq Request
  /\ status \in [Request -> {"none", "reserved", "running", "completed"}]
  /\ file \in [Request -> {"none", "draft", "final"}]
  /\ runs \subseteq Request
  /\ pc \in [Executor -> {"idle"} \union Starting \union Working]
  /\ req \in [Executor -> Request \union {NoRequest}]
  /\ claimant \in [Request -> Executor \union {Nobody}]
  /\ grounds \in [Executor -> SUBSET {"active", "unexpired"}]

WorksOn(e, r) == pc[e] \in Working /\ req[e] = r

\* However many operators run the command at once, at most one of them gets past the
\* reservation of a request ("an atomic one-execution reservation", REQUEST_PROTOCOL.md).
OneExecutor ==
  \A r \in Request, e, f \in Executor : WorksOn(e, r) /\ WorksOn(f, r) => e = f

\* No request has two evidence records in the ledger, whoever died or repeated the command.
OneRecord ==
  \A i, j \in 1..Len(lines) :
    /\ lines[i] # Garbage /\ lines[j] # Garbage
    /\ lines[i].of = lines[j].of /\ lines[i].of \in Request
    => i = j

\* The requests with a ledger record; all of them once the ledger is unreadable.
Logged == {r \in Request : Readable => \E i \in 1..Len(lines) : lines[i].of = r}

\* A completed request has everything its result refers to: the evidence file with its
\* artifact hash, the runs row, and a ledger record unless the ledger itself is damaged.
CompletedIsBacked ==
  \A r \in Request : status[r] = "completed" =>
    /\ file[r] = "final"
    /\ r \in runs
    /\ r \in Logged

\* Only an approved request is reserved, and nothing takes the approval back.  A procedure only
\* runs if, at some moments after its reservation, the intake was active and the request was
\* not yet expired: deactivation and expiry that come before the reservation always stop it,
\* those that come after the second check do not.
RunsOnGrounds ==
  /\ \A r \in Request : status[r] # "none" => review[r] = "approved_for_manual_execution"
  /\ \A e \in Executor : pc[e] \in Executing => grounds[e] = {"active", "unexpired"}

\* Reservation and completion follow the promise of OnceOnly.
Once == INSTANCE OnceOnly WITH finished <- {r \in Request : status[r] = "completed"}
ClaimedOnce == Once!Spec

Abandoned(r) ==
  status[r] \in {"reserved", "running"} /\ \A e \in Executor : ~WorksOn(e, r)

\* "A crash after manual execution reservation remains visible as reserved/running and must
\* not be silently rerun" (RISK_CONSTITUTION.md).
NoSilentRerun ==
  [][\A r \in Request : Abandoned(r) => Abandoned(r)' /\ status'[r] = status[r]]_vars
=============================================================================
