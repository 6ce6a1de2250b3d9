----------------------- MODULE PassiveExecutionProofs -----------------------
(***************************************************************************)
(* Proofs about PassiveExecution for any number of executors, requests and *)
(* other ledger writers: types, one execution per request, what a run      *)
(* stands on, the refinement of OnceOnly and the ledger it appends to.     *)
(***************************************************************************)
EXTENDS PassiveExecution, EvidenceLedgerProofs

DataOK ==
  /\ review \in [Request -> {"none", "pending_human_review"} \union Desk!Decisions]
  /\ expired \subseteq Request
  /\ status \in [Request -> {"none", "reserved", "running", "completed"}]
  /\ file \in [Request -> {"none", "draft", "final"}]
  /\ runs \subseteq Request
  /\ pc \in [Executor -> {"idle"} \union Starting \union Working]
  /\ req \in [Executor -> Request \union {NoRequest}]
  /\ claimant \in [Request -> Executor \union {Nobody}]
  /\ grounds \in [Executor -> SUBSET {"active", "unexpired"}]

\* A process that is not idle works for a request.
Busy == \A e \in Executor : pc[e] # "idle" => req[e] \in Request

TypeInv == DataOK /\ Busy

LEMMA InitTypeInv == Init => TypeInv
  BY DEF Init, Desk!Init, TypeInv, DataOK, Busy

\* Requests come in and are decided on; an approval is not taken back.
LEMMA ReviewSteps ==
  ASSUME TypeInv, Review
  PROVE  /\ review' \in [Request -> {"none", "pending_human_review"} \union Desk!Decisions]
         /\ \A r \in Request : review[r] = "approved_for_manual_execution" => review'[r] = review[r]
<1> USE DEF TypeInv, DataOK, Desk!Decisions
<1>1. ASSUME NEW batch \in SUBSET Request, NEW v \in {"pending_human_review", "rejected"},
             Desk!TakeIn(batch, v)
      PROVE  /\ review' \in [Request -> {"none", "pending_human_review"} \union Desk!Decisions]
             /\ \A r \in Request :
                  review[r] = "approved_for_manual_execution" => review'[r] = review[r]
  BY <1>1 DEF Desk!TakeIn
<1>2. ASSUME NEW q \in Request, NEW decision \in Desk!Decisions, Desk!Decide(q, decision)
      PROVE  /\ review' \in [Request -> {"none", "pending_human_review"} \union Desk!Decisions]
             /\ \A r \in Request :
                  review[r] = "approved_for_manual_execution" => review'[r] = review[r]
  BY <1>2 DEF Desk!Decide
<1> QED BY <1>1, <1>2 DEF Review, Desk!Next

LEMMA NextTypeInv == TypeInv /\ [Next]_vars => TypeInv'
<1> SUFFICES ASSUME TypeInv, [Next]_vars PROVE TypeInv'
  OBVIOUS
<1> USE DEF TypeInv, DataOK, Busy, db, result, Starting, Working, Executing
<1>1. ASSUME NEW on \in BOOLEAN, SetIntake(on) PROVE TypeInv'
  BY <1>1 DEF SetIntake
<1>2. ASSUME NEW r \in Request, Expire(r) PROVE TypeInv'
  BY <1>2 DEF Expire
<1>3. CASE Review
  BY <1>3, ReviewSteps DEF Review
<1>4. ASSUME NEW e \in Executor, NEW r \in Request, Begin(e, r) PROVE TypeInv'
  BY <1>4 DEF Begin, Goto
<1>5. ASSUME NEW e \in Executor, Check(e) \/ Recheck(e) PROVE TypeInv'
  BY <1>5 DEF Check, Recheck, ReadSwitch, ReadRow, Goto, Stop
<1>6. ASSUME NEW e \in Executor, Reserve(e) PROVE TypeInv'
  BY <1>6 DEF Reserve, Free, Goto, Stop
<1>7. ASSUME NEW e \in Executor, MarkRunning(e) PROVE TypeInv'
  BY <1>7 DEF MarkRunning, Goto
<1>8. ASSUME NEW e \in Executor, ReadLedger(e) \/ AppendLedger(e) PROVE TypeInv'
  BY <1>8 DEF ReadLedger, AppendLedger, Goto, Stop
<1>9. ASSUME NEW e \in Executor, WriteEvidence(e) PROVE TypeInv'
  BY <1>9 DEF WriteEvidence, WriteFile, Goto
<1>10. ASSUME NEW e \in Executor, InsertRun(e) PROVE TypeInv'
  BY <1>10 DEF InsertRun, Goto
<1>11. ASSUME NEW e \in Executor, Complete(e) \/ Die(e) PROVE TypeInv'
  BY <1>11 DEF Complete, Die, Stop
<1>12. ASSUME NEW w \in Writer \ Executor, OtherWriter(w) PROVE TypeInv'
  BY <1>12 DEF OtherWriter
<1>13. CASE UNCHANGED vars
  BY <1>13 DEF vars
<1> QED BY <1>1, <1>2, <1>3, <1>4, <1>5, <1>6, <1>7, <1>8, <1>9, <1>10, <1>11, <1>12, <1>13
        DEF Next, Step

-----------------------------------------------------------------------------
\* The composition steps the ledger only as EvidenceLedger does.
LEMMA NextLedger == TypeInv /\ [Next]_vars => [LedgerNext]_ledgerVars
<1> SUFFICES ASSUME TypeInv, [Next]_vars PROVE [LedgerNext]_ledgerVars
  OBVIOUS
<1> USE ExecutionAssumption DEF TypeInv, DataOK, Busy
<1>1. ASSUME NEW e \in Executor, ReadLedger(e) \/ AppendLedger(e) \/ Die(e)
      PROVE  [LedgerNext]_ledgerVars
  <2>1. e \in Writer
    OBVIOUS
  <2>2. pc[e] # "idle" => req[e] \in Content
    OBVIOUS
  <2> QED BY <1>1, <2>1, <2>2 DEF ReadLedger, AppendLedger, Die, LedgerNext
<1>2. ASSUME NEW w \in Writer \ Executor, OtherWriter(w) PROVE [LedgerNext]_ledgerVars
  BY <1>2 DEF OtherWriter, LedgerNext
<1>3. ASSUME \/ \E on \in BOOLEAN : SetIntake(on)
             \/ \E r \in Request : Expire(r)
             \/ Review
             \/ \E e \in Executor : \E r \in Request : Begin(e, r)
      PROVE  UNCHANGED ledgerVars
  BY <1>3 DEF SetIntake, Expire, Review, Begin
<1>4. ASSUME NEW e \in Executor,
             \/ Check(e) \/ Reserve(e) \/ Recheck(e) \/ MarkRunning(e)
             \/ WriteEvidence(e) \/ InsertRun(e) \/ Complete(e)
      PROVE  UNCHANGED ledgerVars
  BY <1>4 DEF Check, Reserve, Recheck, ReadSwitch, ReadRow, MarkRunning, WriteEvidence, WriteFile,
              InsertRun, Complete
<1>5. CASE UNCHANGED vars
  BY <1>5 DEF vars
<1> QED BY <1>1, <1>2, <1>3, <1>4, <1>5 DEF Next, Step

\* Executors and the other commands together keep to the ledger's own specification.
THEOREM ImplementsLedger == Spec => LedgerSpec
<1>1. Init => LedgerInit
  BY DEF Init
<1> QED BY <1>1, InitTypeInv, NextTypeInv, NextLedger, PTL DEF Spec, LedgerSpec

-----------------------------------------------------------------------------
\* A request has a claimant exactly when it has an execution row.
RowHasClaimant == \A r \in Request : claimant[r] = Nobody <=> status[r] = "none"

\* Whoever is past the reservation made it.
WorkerIsClaimant == \A e \in Executor : pc[e] \in Working => claimant[req[e]] = e

\* What the grounds of a working executor say of the present, and what it has checked.
GroundsKnown == \A e \in Executor : pc[e] \in Working =>
  /\ intake => "active" \in grounds[e]
  /\ req[e] \notin expired => "unexpired" \in grounds[e]
GroundsChecked == \A e \in Executor :
  /\ pc[e] \in {"row2"} \union Executing => "active" \in grounds[e]
  /\ pc[e] \in Executing => "unexpired" \in grounds[e]

\* Whoever may reserve a request found it approved, and so it is with what is reserved.
Approved ==
  /\ \A e \in Executor : pc[e] = "reserve" => review[req[e]] = "approved_for_manual_execution"
  /\ \A r \in Request : status[r] # "none" => review[r] = "approved_for_manual_execution"

IInv ==
  TypeInv /\ RowHasClaimant /\ WorkerIsClaimant /\ GroundsKnown /\ GroundsChecked /\ Approved

LEMMA InitIInv == Init => IInv
  BY InitTypeInv DEF Init, IInv, RowHasClaimant, WorkerIsClaimant, GroundsKnown, GroundsChecked,
     Approved, Working, Executing

LEMMA NextIInv == IInv /\ [Next]_vars => IInv'
<1> SUFFICES ASSUME IInv, [Next]_vars PROVE IInv'
  OBVIOUS
<1>0. TypeInv'
  BY NextTypeInv DEF IInv
<1> DEFINE Rest == RowHasClaimant /\ WorkerIsClaimant /\ GroundsKnown /\ GroundsChecked /\ Approved
<1> USE <1>0, ExecutionAssumption
        DEF IInv, TypeInv, DataOK, Busy, RowHasClaimant, WorkerIsClaimant, GroundsKnown,
            GroundsChecked, Approved, db, result, Working, Executing
<1>1. ASSUME NEW on \in BOOLEAN, SetIntake(on) PROVE Rest'
  BY <1>1 DEF SetIntake
<1>2. ASSUME NEW r \in Request, Expire(r) PROVE Rest'
  BY <1>2 DEF Expire
<1>3. CASE Review
  BY <1>3, ReviewSteps DEF Review
<1>4. ASSUME NEW e \in Executor, NEW r \in Request, Begin(e, r) PROVE Rest'
  BY <1>4 DEF Begin, Goto
<1>5. ASSUME NEW e \in Executor, Check(e) PROVE Rest'
  BY <1>5 DEF Check, ReadSwitch, ReadRow, Goto, Stop
<1>6. ASSUME NEW e \in Executor, Reserve(e) PROVE Rest'
  BY <1>6 DEF Reserve, Free, Goto, Stop
<1>7. ASSUME NEW e \in Executor, Recheck(e) PROVE Rest'
  BY <1>7 DEF Recheck, ReadSwitch, ReadRow, Goto, Stop
<1>8. ASSUME NEW e \in Executor, MarkRunning(e) PROVE Rest'
  BY <1>8 DEF MarkRunning, Goto
<1>9. ASSUME NEW e \in Executor, ReadLedger(e) \/ AppendLedger(e) PROVE Rest'
  BY <1>9 DEF ReadLedger, AppendLedger, Goto, Stop
<1>10. ASSUME NEW e \in Executor, WriteEvidence(e) \/ InsertRun(e) PROVE Rest'
  BY <1>10 DEF WriteEvidence, WriteFile, InsertRun, Goto
<1>11. ASSUME NEW e \in Executor, Complete(e) PROVE Rest'
  BY <1>11 DEF Complete, Stop
<1>12. ASSUME NEW e \in Executor, Die(e) PROVE Rest'
  BY <1>12 DEF Die, Stop
<1>13. ASSUME NEW w \in Writer \ Executor, OtherWriter(w) PROVE Rest'
  BY <1>13 DEF OtherWriter
<1>14. CASE UNCHANGED vars
  BY <1>14 DEF vars
<1>15. Rest'
  BY <1>1, <1>2, <1>3, <1>4, <1>5, <1>6, <1>7, <1>8, <1>9, <1>10, <1>11, <1>12, <1>13, <1>14
     DEF Next, Step
<1> QED BY <1>0, <1>15

LEMMA AlwaysIInv == Spec => []IInv
  BY InitIInv, NextIInv, PTL DEF Spec

-----------------------------------------------------------------------------
\* The switch is a Boolean.
LEMMA IntakeFlag == intake \in BOOLEAN /\ [Next]_vars => intake' \in BOOLEAN
<1> SUFFICES ASSUME intake \in BOOLEAN, [Next]_vars PROVE intake' \in BOOLEAN
  OBVIOUS
<1> USE DEF db
<1>1. ASSUME NEW on \in BOOLEAN, SetIntake(on) PROVE intake' \in BOOLEAN
  BY <1>1 DEF SetIntake
<1>2. ASSUME Review \/ \E r \in Request : Expire(r) PROVE intake' \in BOOLEAN
  BY <1>2 DEF Expire, Review
<1>3. ASSUME NEW e \in Executor, Step(e) \/ Die(e) \/ \E r \in Request : Begin(e, r)
      PROVE  intake' \in BOOLEAN
  BY <1>3 DEF Step, Die, Begin, Check, Recheck, ReadSwitch, ReadRow, Reserve, MarkRunning,
              ReadLedger, AppendLedger, WriteEvidence, WriteFile, InsertRun, Complete
<1>4. ASSUME NEW w \in Writer \ Executor, OtherWriter(w) PROVE intake' \in BOOLEAN
  BY <1>4 DEF OtherWriter
<1>5. CASE UNCHANGED vars
  BY <1>5 DEF vars
<1> QED BY <1>1, <1>2, <1>3, <1>4, <1>5 DEF Next

\* Every variable keeps its type.
THEOREM TypeCorrect == Spec => []TypeOK
<1>1. Init => LedgerFlagsOK /\ intake \in BOOLEAN /\ LedgerInv
  BY LedgerInitInv DEF Init, LedgerInit, LedgerFlagsOK
<1>2. /\ LedgerFlagsOK /\ intake \in BOOLEAN /\ LedgerInv /\ IInv /\ [Next]_vars
      => (LedgerFlagsOK /\ intake \in BOOLEAN /\ LedgerInv)'
  BY NextLedger, LedgerNextInv, LedgerFlags, IntakeFlag DEF IInv
<1>3. LedgerFlagsOK /\ intake \in BOOLEAN /\ LedgerInv /\ IInv => TypeOK
  BY DEF LedgerFlagsOK, LedgerInv, LedgerDataOK, LedgerTypeOK, IInv, TypeInv, DataOK, TypeOK
<1> QED BY <1>1, <1>2, <1>3, AlwaysIInv, PTL DEF Spec

\* At most one process is ever past the reservation of a request.
THEOREM AtMostOneExecutor == Spec => []OneExecutor
<1>1. IInv => OneExecutor
  BY DEF IInv, WorkerIsClaimant, OneExecutor, WorksOn
<1> QED BY <1>1, AlwaysIInv, PTL

\* What is reserved stays approved, and a procedure only runs on conditions that held at some
\* moments after its reservation.
THEOREM OnlyOnGrounds == Spec => []RunsOnGrounds
<1>1. IInv => RunsOnGrounds
  BY DEF IInv, TypeInv, DataOK, GroundsChecked, Approved, RunsOnGrounds
<1> QED BY <1>1, AlwaysIInv, PTL

\* The ledger verifies as long as the commands that append to it do not overlap.
THEOREM ChainUnlessOverlap == Spec => []SerialAppendsVerify
  BY ImplementsLedger, SerialChain, PTL

-----------------------------------------------------------------------------
Completed == {r \in Request : status[r] = "completed"}

\* Every step is a step of OnceOnly or leaves claimants and results alone.
LEMMA NextOnce == IInv /\ [Next]_vars => [Once!Next]_<<claimant, Completed>>
<1> SUFFICES ASSUME IInv, [Next]_vars
             PROVE  Once!Next \/ UNCHANGED <<claimant, Completed>>
  OBVIOUS
<1> USE ExecutionAssumption DEF IInv, TypeInv, DataOK, Busy, Completed, db, result
<1>1. ASSUME NEW e \in Executor, Reserve(e)
      PROVE  Once!Next \/ UNCHANGED <<claimant, Completed>>
  <2> DEFINE r == req[e]
  <2>1. r \in Request
    BY <1>1 DEF Reserve
  <2>2. CASE Free(r)
    <3>1. claimant[r] = Nobody /\ status[r] = "none"
      BY <2>1, <2>2 DEF Free, RowHasClaimant
    <3>2. claimant' = [claimant EXCEPT ![r] = e] /\ status' = [status EXCEPT ![r] = "reserved"]
      BY <1>1, <2>2 DEF Reserve
    <3>3. Completed' = Completed
      BY <2>1, <3>1, <3>2
    <3> QED BY <2>1, <3>1, <3>2, <3>3 DEF Once!Next, Once!Claim
  <2>3. CASE ~Free(r)
    BY <1>1, <2>3 DEF Reserve
  <2> QED BY <2>2, <2>3
<1>2. ASSUME NEW e \in Executor, Complete(e)
      PROVE  Once!Next \/ UNCHANGED <<claimant, Completed>>
  <2> DEFINE r == req[e]
  <2>1. r \in Request /\ UNCHANGED claimant
    BY <1>2 DEF Complete
  <2>2. CASE status[r] = "running"
    <3>1. status' = [status EXCEPT ![r] = "completed"]
      BY <1>2, <2>2 DEF Complete
    <3>2. r \notin Completed /\ Completed' = Completed \union {r}
      BY <2>1, <2>2, <3>1
    <3>3. claimant[r] # Nobody
      BY <2>1, <2>2 DEF RowHasClaimant
    <3> QED BY <2>1, <3>2, <3>3 DEF Once!Next, Once!Finish
  <2>3. CASE status[r] # "running"
    BY <1>2, <2>1, <2>3 DEF Complete
  <2> QED BY <2>2, <2>3
<1>3. ASSUME NEW e \in Executor, MarkRunning(e) PROVE UNCHANGED <<claimant, Completed>>
  <2>1. req[e] \in Request
    BY <1>3 DEF MarkRunning
  <2> QED BY <1>3, <2>1 DEF MarkRunning
<1>4. ASSUME NEW e \in Executor,
             \/ Check(e) \/ Recheck(e) \/ ReadLedger(e) \/ AppendLedger(e)
             \/ WriteEvidence(e) \/ InsertRun(e) \/ Die(e) \/ \E r \in Request : Begin(e, r)
      PROVE  UNCHANGED <<claimant, status>>
  BY <1>4 DEF Check, Recheck, ReadSwitch, ReadRow, ReadLedger, AppendLedger, WriteEvidence, WriteFile,
              InsertRun, Die, Begin
<1>5. ASSUME \/ \E on \in BOOLEAN : SetIntake(on)
             \/ \E r \in Request : Expire(r)
             \/ Review
             \/ \E w \in Writer \ Executor : OtherWriter(w)
      PROVE  UNCHANGED <<claimant, status>>
  BY <1>5 DEF SetIntake, Expire, Review, OtherWriter
<1>6. CASE UNCHANGED vars
  BY <1>6 DEF vars
<1> QED BY <1>1, <1>2, <1>3, <1>4, <1>5, <1>6 DEF Next, Step

\* Reservation and completion implement OnceOnly: one claim, one result, no second taker.
THEOREM ImplementsOnce == Spec => ClaimedOnce
<1>1. Init => Once!Init
  BY DEF Init, Once!Init
<1>2. IInv /\ [Next]_vars => [Once!Next]_<<claimant, {r \in Request : status[r] = "completed"}>>
  BY NextOnce DEF Completed
<1> QED BY <1>1, <1>2, AlwaysIInv, PTL DEF Spec, ClaimedOnce, Once!Spec

\* An interrupted reservation stays as it is: nobody ever works on that request again.
THEOREM InterruptedStays == Spec => NoSilentRerun
<1> DEFINE Stays == \A r \in Request : Abandoned(r) => Abandoned(r)' /\ status'[r] = status[r]
<1>1. ASSUME IInv, [Next]_vars, NEW r \in Request, Abandoned(r)
      PROVE  Abandoned(r)' /\ status'[r] = status[r]
  <2> USE <1>1, ExecutionAssumption
          DEF IInv, TypeInv, DataOK, Busy, Abandoned, WorksOn, Working, Executing, db, result
  <2>1. ASSUME NEW e \in Executor, Check(e) PROVE Abandoned(r)' /\ status'[r] = status[r]
    BY <2>1 DEF Check, ReadSwitch, ReadRow, Goto, Stop
  <2>2. ASSUME NEW e \in Executor, Reserve(e) PROVE Abandoned(r)' /\ status'[r] = status[r]
    BY <2>2 DEF Reserve, Free, Goto, Stop
  <2>3. ASSUME NEW e \in Executor, Recheck(e) PROVE Abandoned(r)' /\ status'[r] = status[r]
    BY <2>3 DEF Recheck, ReadSwitch, ReadRow, Goto, Stop
  <2>4. ASSUME NEW e \in Executor, MarkRunning(e) \/ Complete(e)
        PROVE  Abandoned(r)' /\ status'[r] = status[r]
    BY <2>4 DEF MarkRunning, Complete, Goto, Stop
  <2>5. ASSUME NEW e \in Executor, ReadLedger(e) \/ AppendLedger(e) \/ Die(e)
        PROVE  Abandoned(r)' /\ status'[r] = status[r]
    BY <2>5 DEF ReadLedger, AppendLedger, Die, Goto, Stop
  <2>6. ASSUME NEW e \in Executor, WriteEvidence(e) \/ InsertRun(e)
        PROVE  Abandoned(r)' /\ status'[r] = status[r]
    BY <2>6 DEF WriteEvidence, WriteFile, InsertRun, Goto
  <2>7. ASSUME NEW e \in Executor, NEW q \in Request, Begin(e, q)
        PROVE  Abandoned(r)' /\ status'[r] = status[r]
    BY <2>7 DEF Begin, Goto
  <2>8. ASSUME \/ \E on \in BOOLEAN : SetIntake(on)
               \/ \E q \in Request : Expire(q)
               \/ Review
               \/ \E w \in Writer \ Executor : OtherWriter(w)
        PROVE  Abandoned(r)' /\ status'[r] = status[r]
    BY <2>8 DEF SetIntake, Expire, Review, OtherWriter
  <2>9. CASE UNCHANGED vars
    BY <2>9 DEF vars
  <2> QED BY <2>1, <2>2, <2>3, <2>4, <2>5, <2>6, <2>7, <2>8, <2>9 DEF Next, Step
<1>2. IInv /\ [Next]_vars => [Stays]_vars
  BY <1>1
<1> QED BY <1>2, AlwaysIInv, PTL DEF Spec, NoSilentRerun

-----------------------------------------------------------------------------
\* Line i is the evidence record of r.
RecordAt(i, r) == lines[i] # Garbage /\ lines[i].of = r

Recorded(r) == \E i \in 1..Len(lines) : RecordAt(i, r)

\* A request has no record before its executor appends it, which it does once.
NoRecordYet ==
  /\ \A r \in Request : status[r] = "none" => ~Recorded(r)
  /\ \A e \in Executor :
       pc[e] \in {"switch2", "row2", "mark", "read", "append"} => ~Recorded(req[e])

RecordInv == LedgerInv /\ IInv /\ NoRecordYet /\ OneRecord

LEMMA NextRecordInv == RecordInv /\ [Next]_vars => RecordInv'
<1> SUFFICES ASSUME RecordInv, [Next]_vars PROVE RecordInv'
  OBVIOUS
<1>1. LedgerInv' /\ IInv'
  BY NextIInv, NextLedger, LedgerNextInv DEF RecordInv, IInv
<1> USE ExecutionAssumption DEF RecordInv, IInv, TypeInv, DataOK, Busy, db, result
<1>2. ASSUME NEW e \in Executor, AppendLedger(e) PROVE NoRecordYet' /\ OneRecord'
  <2> DEFINE r == req[e]
  <2>1. r \in Request /\ pc[e] = "append" /\ UNCHANGED status /\ status[r] # "none"
    BY <1>2 DEF AppendLedger, RowHasClaimant, WorkerIsClaimant, Working, Executing
  <2>2. PICK line \in Record \union {Garbage} :
          lines' = Extended(line) /\ (line # Garbage => line.of = r)
    <3>1. [of |-> r, prev |-> last[e]] \in Record
      BY <2>1 DEF Record, LedgerInv, LedgerDataOK
    <3> QED BY <1>2, <3>1 DEF AppendLedger, AppendRecord, AppendShort
  <2>3. ~Recorded(r)
    BY <2>1 DEF NoRecordYet
  <2>4. /\ Len(lines) \in Nat /\ Len(lines') \in Nat
        /\ \A i \in 1..Len(lines') :
             \/ lines'[i] = Garbage
             \/ i \in 1..Len(lines) /\ lines'[i] = lines[i]
             \/ i = Len(lines) + 1 /\ lines'[i] = line
    BY <2>2, ExtendedLines
  <2>5. OneRecord'
    BY <2>2, <2>3, <2>4 DEF OneRecord, Recorded, RecordAt
  <2>6. ASSUME NEW q \in Request, q # r, ~Recorded(q) PROVE ~Recorded(q)'
    BY <2>2, <2>4, <2>6 DEF Recorded, RecordAt
  <2>7. ASSUME NEW f \in Executor, pc'[f] \in {"switch2", "row2", "mark", "read", "append"}
        PROVE  ~Recorded(req[f])' /\ req'[f] = req[f]
    <3>1. f # e /\ pc'[f] = pc[f] /\ req'[f] = req[f]
      BY <1>2, <2>7 DEF AppendLedger, Goto, Stop
    <3>2. req[f] # r /\ req[f] \in Request
      BY <2>1, <2>7, <3>1 DEF WorkerIsClaimant, Working, Executing
    <3> QED BY <2>6, <2>7, <3>1, <3>2 DEF NoRecordYet, Recorded, RecordAt
  <2> QED BY <2>1, <2>5, <2>6, <2>7 DEF NoRecordYet, Recorded, RecordAt
<1>3. ASSUME NEW w \in Writer \ Executor, OtherWriter(w), ~UNCHANGED lines
      PROVE  NoRecordYet' /\ OneRecord'
  <2>1. PICK line \in Record \union {Garbage} :
          lines' = Extended(line) /\ (line # Garbage => line.of \notin Request)
    <3>1. \A c \in Content : [of |-> c, prev |-> last[w]] \in Record
      BY DEF Record, LedgerInv, LedgerDataOK
    <3>2. PICK c \in Content \ Request : AppendRecord(w, c) \/ AppendShort(w, c)
      BY <1>3 DEF OtherWriter, ReadLast, AppendNothing
    <3>3. PICK line \in {Garbage, [of |-> c, prev |-> last[w]]} : lines' = Extended(line)
      BY <3>2 DEF AppendRecord, AppendShort
    <3>4. [of |-> c, prev |-> last[w]] \in Record
      BY <3>1
    <3> QED BY <3>3, <3>4
  <2>2. /\ Len(lines) \in Nat /\ Len(lines') \in Nat
        /\ \A i \in 1..Len(lines') :
             \/ lines'[i] = Garbage
             \/ i \in 1..Len(lines) /\ lines'[i] = lines[i]
             \/ i = Len(lines) + 1 /\ lines'[i] = line
    BY <2>1, ExtendedLines
  <2>3. OneRecord'
    BY <2>1, <2>2 DEF OneRecord
  <2>4. ASSUME NEW q \in Request, ~Recorded(q) PROVE ~Recorded(q)'
    BY <2>1, <2>2, <2>4 DEF Recorded, RecordAt
  <2> QED BY <1>3, <2>3, <2>4 DEF OtherWriter, NoRecordYet, Working, Executing
<1> DEFINE Kept == OneRecord' /\ \A r \in Request : Recorded(r)' = Recorded(r)
<1>4. ASSUME UNCHANGED lines PROVE Kept
  BY <1>4 DEF OneRecord, Recorded, RecordAt
<1>5. ASSUME NEW e \in Executor, Reserve(e) PROVE NoRecordYet' /\ OneRecord'
  <2>1. Kept
    BY <1>4, <1>5 DEF Reserve, ledgerVars
  <2> QED BY <1>5, <2>1 DEF Reserve, Free, Goto, Stop, NoRecordYet
<1>6. ASSUME NEW e \in Executor,
             \/ Check(e) \/ Recheck(e) \/ MarkRunning(e) \/ ReadLedger(e)
             \/ WriteEvidence(e) \/ InsertRun(e) \/ Complete(e) \/ Die(e)
             \/ \E r \in Request : Begin(e, r)
      PROVE  NoRecordYet' /\ OneRecord'
  <2>1. UNCHANGED lines
    BY <1>6 DEF Check, Recheck, ReadSwitch, ReadRow, MarkRunning, ReadLedger, ReadLast, WriteEvidence,
                WriteFile, InsertRun, Complete, Die, AppendNothing, Begin, ledgerVars
  <2>2. \A f \in Executor : pc'[f] \in {"switch2", "row2", "mark", "read", "append"} =>
          /\ pc[f] \in {"switch2", "row2", "mark", "read", "append"}
          /\ req'[f] = req[f] /\ req[f] \in Request
    BY <1>6 DEF Check, Recheck, ReadSwitch, ReadRow, MarkRunning, ReadLedger, WriteEvidence,
                WriteFile, InsertRun, Complete, Die, Begin, Goto, Stop
  <2>3. \A r \in Request : status'[r] = "none" => status[r] = "none"
    BY <1>6 DEF Check, Recheck, ReadSwitch, ReadRow, MarkRunning, ReadLedger, WriteEvidence,
                WriteFile, InsertRun, Complete, Die, Begin
  <2> QED BY <1>4, <2>1, <2>2, <2>3 DEF NoRecordYet
<1>7. ASSUME \/ \E on \in BOOLEAN : SetIntake(on)
             \/ \E r \in Request : Expire(r)
             \/ Review
             \/ \E w \in Writer \ Executor : OtherWriter(w) /\ UNCHANGED lines
             \/ UNCHANGED vars
      PROVE  NoRecordYet' /\ OneRecord'
  <2>1. UNCHANGED <<lines, status, pc, req>>
    BY <1>7 DEF SetIntake, Expire, Review, OtherWriter, vars, ledgerVars
  <2> QED BY <1>4, <2>1, Zenon DEF NoRecordYet, Recorded, RecordAt
<1> QED BY <1>1, <1>2, <1>3, <1>5, <1>6, <1>7 DEF Next, Step

\* No request ever has two evidence records in the ledger.
THEOREM AtMostOneRecord == Spec => []OneRecord
<1>1. Init => RecordInv
  BY InitIInv, LedgerInitInv
     DEF Init, LedgerInit, RecordInv, NoRecordYet, OneRecord, Recorded, RecordAt
<1>2. RecordInv => OneRecord
  BY DEF RecordInv
<1> QED BY <1>1, <1>2, NextRecordInv, PTL DEF Spec

-----------------------------------------------------------------------------
\* What each phase of the evidence has left behind.
Backing == \A e \in Executor :
  /\ pc[e] \in Working => status[req[e]] # "completed"
  /\ pc[e] \in {"draft", "final", "insert", "complete"} => req[e] \in Logged
  /\ pc[e] \in {"insert", "complete"} => file[req[e]] = "final"
  /\ pc[e] = "complete" => req[e] \in runs

BackedInv == LedgerInv /\ IInv /\ Backing /\ CompletedIsBacked

\* A record stays in the ledger as long as the ledger can be read.
LEMMA LoggedStays == LedgerInv /\ [LedgerNext]_ledgerVars => Logged \subseteq Logged'
  BY ToldStays, ExecutionAssumption DEF Logged, Told

\* An append that leaves the ledger readable leaves the record in it.
LEMMA AppendedIsLogged ==
  ASSUME LedgerInv, NEW e \in Executor, NEW r \in Request, AppendRecord(e, r)
  PROVE  r \in Logged'
<1>1. e \in holding /\ r \in Content
  BY ExecutionAssumption DEF AppendRecord
<1> QED BY <1>1, AppendedIsTold DEF Logged, Told

LEMMA NextBackedInv == BackedInv /\ [Next]_vars => BackedInv'
<1> SUFFICES ASSUME BackedInv, [Next]_vars PROVE BackedInv'
  OBVIOUS
<1>1. LedgerInv' /\ IInv' /\ Logged \subseteq Logged'
  BY NextIInv, NextLedger, LedgerNextInv, LoggedStays DEF BackedInv, IInv
<1> DEFINE Rest == Backing /\ CompletedIsBacked
<1> USE ExecutionAssumption, <1>1
        DEF BackedInv, CompletedIsBacked, IInv, TypeInv, DataOK, Busy, Backing, Working, Executing, db, result
<1>2. ASSUME NEW e \in Executor, Check(e) \/ Recheck(e) PROVE Rest'
  BY <1>2 DEF Check, Recheck, ReadSwitch, ReadRow, Goto, Stop
<1>3. ASSUME NEW e \in Executor, Reserve(e) PROVE Rest'
  BY <1>3 DEF Reserve, Free, Goto, Stop
<1>4. ASSUME NEW e \in Executor, MarkRunning(e) PROVE Rest'
  BY <1>4 DEF MarkRunning, Goto
<1>5. ASSUME NEW e \in Executor, ReadLedger(e) PROVE Rest'
  BY <1>5 DEF ReadLedger, Goto, Stop
<1>6. ASSUME NEW e \in Executor, AppendLedger(e) PROVE Rest'
  <2>1. CASE AppendRecord(e, req[e]) /\ Goto(e, "draft") /\ UNCHANGED <<req, grounds>>
    <3>1. req[e] \in Request
      BY <1>6 DEF AppendLedger
    <3>2. req[e] \in Logged'
      BY <2>1, <3>1, AppendedIsLogged
    <3> QED BY <1>6, <2>1, <3>2 DEF AppendLedger, Goto
  <2>2. CASE AppendShort(e, req[e]) /\ Stop(e)
    BY <1>6, <2>2 DEF AppendLedger, Stop
  <2> QED BY <1>6, <2>1, <2>2 DEF AppendLedger
<1>7. ASSUME NEW e \in Executor, WriteEvidence(e) \/ InsertRun(e) PROVE Rest'
  BY <1>7 DEF WriteEvidence, WriteFile, InsertRun, Goto, WorkerIsClaimant
<1>8. ASSUME NEW e \in Executor, Complete(e) PROVE Rest'
  BY <1>8 DEF Complete, Stop, WorkerIsClaimant
<1>9. ASSUME NEW e \in Executor, Die(e) \/ \E r \in Request : Begin(e, r) PROVE Rest'
  BY <1>9 DEF Die, Begin, Goto, Stop
<1>10. ASSUME \/ \E on \in BOOLEAN : SetIntake(on)
              \/ \E r \in Request : Expire(r)
              \/ Review
              \/ \E w \in Writer \ Executor : OtherWriter(w)
              \/ UNCHANGED vars
      PROVE  Rest'
  BY <1>10 DEF SetIntake, Expire, Review, OtherWriter, vars
<1> QED BY <1>1, <1>2, <1>3, <1>4, <1>5, <1>6, <1>7, <1>8, <1>9, <1>10 DEF Next, Step

\* A completed request has its evidence file, its runs row and its ledger record.
THEOREM CompletedBacked == Spec => []CompletedIsBacked
<1>1. Init => BackedInv
  BY InitIInv, LedgerInitInv
     DEF Init, BackedInv, Backing, CompletedIsBacked, Working, Executing
<1>2. BackedInv => CompletedIsBacked
  BY DEF BackedInv
<1> QED BY <1>1, <1>2, NextBackedInv, PTL DEF Spec
=============================================================================
