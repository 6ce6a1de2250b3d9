------------------------ MODULE RoomActivationProofs ------------------------
(***************************************************************************)
(* Proofs about RoomActivation for any number of runs, attempts and nonces:*)
(* types, what the audit rows say of Technocore and of the writes sent,    *)
(* when a write is repeated, and what the ledger says of the rows.         *)
(***************************************************************************)
EXTENDS RoomActivation, EvidenceLedgerProofs

Labels == {"start", "owner", "nonce", "write", "wait", "verify", "read", "append", "done", "dead"}

DataOK ==
  /\ owner \in {"absent", "bench", "foreign"} /\ roomNonce \in Nat
  /\ wire \subseteq Activation
  /\ answer \in [Activation -> {"none", "ok", "conflict", "busy", "error"}]
  /\ row \in [Activation -> [status : Outcomes \union {"none", "started"}, nonce : Nat \union {Null}]]
  /\ pc \in [Activation -> Labels]
  /\ attempt \in [Activation -> 0..MaxAttempts - 1]
  /\ nonce \in [Activation -> Nat \union {Null}]
  /\ sent \in [Activation -> Nat]

\* How many writes a run has sent, by where it stands.
Counted == \A a \in Activation :
  /\ pc[a] \in {"start", "owner"} => attempt[a] = 0
  /\ pc[a] \in {"start", "owner", "nonce", "write"} => sent[a] = attempt[a]
  /\ pc[a] \in {"wait", "verify"} => sent[a] = attempt[a] + 1
  /\ sent[a] <= attempt[a] + 1

\* A run that sent a write, or is about to, knows the nonce of the last one.
NonceKnown == \A a \in Activation :
  pc[a] \in {"write", "wait", "verify"} \/ sent[a] > 0 \/ a \in wire => nonce[a] # Null

TypeInv == DataOK /\ Counted /\ NonceKnown

\* The steps that record an outcome.
Conclusion(a) ==
  \/ pc[a] = "owner" /\ owner = "bench" /\ Conclude(a, "already-owned", Null)
  \/ pc[a] = "owner" /\ \E status \in {"failed_preflight", "failed"} : Conclude(a, status, Null)
  \/ pc[a] \in {"nonce", "write", "wait", "verify"} /\ Conclude(a, "failed", nonce[a])
  \/ pc[a] = "verify" /\ owner = "bench" /\ Conclude(a, "created", nonce[a])

LEMMA Conclusions ==
  ASSUME NEW a \in Activation,
         \/ OwnerUnreadable(a) \/ NonceUnreadable(a) \/ SigningFails(a)
         \/ NoAnswer(a) \/ Rejected(a) \/ Verify(a)
  PROVE  Conclusion(a)
  BY DEF OwnerUnreadable, NonceUnreadable, SigningFails, NoAnswer, Rejected, Verify, Shown, Conclusion

LEMMA InitTypeInv == Init => TypeInv
  BY ActivationAssumption DEF Init, TypeInv, DataOK, Counted, NonceKnown, Labels, Entry

\* Whatever outcome is recorded, and with whatever nonce.
LEMMA ConcludeKeepsType ==
  ASSUME TypeInv, NEW a \in Activation, NEW status \in Outcomes, NEW n \in Nat \union {Null},
         Conclude(a, status, n)
  PROVE  TypeInv'
<1> USE DEF Conclude, TypeInv, DataOK, remote, Goto
<1>1. DataOK'
  <2>1. Entry(status, n) \in [status : Outcomes \union {"none", "started"}, nonce : Nat \union {Null}]
    BY DEF Entry
  <2>2. row' \in [Activation -> [status : Outcomes \union {"none", "started"}, nonce : Nat \union {Null}]]
    BY <2>1
  <2> QED BY <2>2 DEF Labels
<1>2. Counted' /\ NonceKnown'
  BY DEF Counted, NonceKnown
<1> QED BY <1>1, <1>2

LEMMA NextTypeInv == TypeInv /\ [Next]_vars => TypeInv'
<1> SUFFICES ASSUME TypeInv, [Next]_vars PROVE TypeInv'
  OBVIOUS
<1> USE DEF TypeInv, DataOK, Goto
<1>1. CASE Others
  BY <1>1 DEF Others, Counted, NonceKnown, process
<1>2. ASSUME NEW a \in Activation, Accept(a) \/ Refuse(a) PROVE TypeInv'
  <2>1. roomNonce' \in Nat /\ wire' \subseteq wire
    BY <1>2 DEF Accept, Refuse, NonceKnown
  <2>2. DataOK'
    BY <1>2, <2>1 DEF Accept, Refuse, process
  <2>3. Counted' /\ NonceKnown'
    BY <1>2, <2>1 DEF Accept, Refuse, Counted, NonceKnown, process
  <2> QED BY <2>2, <2>3
<1>3. ASSUME NEW a \in Activation, Start(a) PROVE TypeInv'
  <2>1. Entry("started", Null) \in [status : Outcomes \union {"none", "started"}, nonce : Nat \union {Null}]
    BY DEF Entry
  <2>2. DataOK'
    BY <1>3, <2>1 DEF Start, remote, Labels
  <2> QED BY <1>3, <2>2 DEF Start, Counted, NonceKnown, remote
<1>4. ASSUME NEW a \in Activation, Succeeded(a) \/ ReadLedger(a) \/ AppendLedger(a) \/ Die(a)
      PROVE  TypeInv'
  <2>1. DataOK'
    BY <1>4 DEF Succeeded, ReadLedger, AppendLedger, Die, remote, Labels
  <2>2. Counted' /\ NonceKnown'
    BY <1>4 DEF Succeeded, ReadLedger, AppendLedger, Die, Counted, NonceKnown, remote
  <2> QED BY <2>1, <2>2
<1>5. ASSUME NEW a \in Activation, Conclusion(a) PROVE TypeInv'
  <2>1. nonce[a] \in Nat \union {Null}
    OBVIOUS
  <2> QED BY <1>5, <2>1, ConcludeKeepsType DEF Conclusion, Outcomes
<1>6. ASSUME NEW a \in Activation, ReadOwner(a), ~Conclusion(a) PROVE TypeInv'
  BY <1>6 DEF ReadOwner, Conclusion, Shown, Counted, NonceKnown, remote, Labels
<1>7. ASSUME NEW a \in Activation, ReadNonce(a) PROVE TypeInv'
  <2>1. PICK base \in 0..roomNonce : nonce' = [nonce EXCEPT ![a] = base + 1 + attempt[a]]
    BY <1>7 DEF ReadNonce
  <2>2. attempt[a] \in Nat /\ base \in Nat
    BY ActivationAssumption
  <2>3. base + 1 + attempt[a] \in Nat /\ base + 1 + attempt[a] # Null
    BY <2>2, ActivationAssumption
  <2>4. DataOK'
    BY <1>7, <2>1, <2>3 DEF ReadNonce, remote, Labels
  <2>5. Counted' /\ NonceKnown'
    BY <1>7, <2>1, <2>3 DEF ReadNonce, Counted, NonceKnown, remote
  <2> QED BY <2>4, <2>5
<1>8. ASSUME NEW a \in Activation, Transmit(a) PROVE TypeInv'
  <2>1. sent[a] = attempt[a] /\ attempt[a] \in Nat /\ attempt[a] < MaxAttempts
    BY <1>8, ActivationAssumption DEF Transmit, Counted
  <2>2. (IF sent[a] > MaxAttempts THEN sent[a] ELSE sent[a] + 1) = attempt[a] + 1
    BY <2>1, ActivationAssumption
  <2>3. sent' = [sent EXCEPT ![a] = attempt[a] + 1]
    BY <1>8, <2>2 DEF Transmit
  <2>4. DataOK'
    BY <1>8, <2>1, <2>3 DEF Transmit, Labels
  <2>5. Counted' /\ NonceKnown'
    BY <1>8, <2>1, <2>3 DEF Transmit, Counted, NonceKnown
  <2> QED BY <2>4, <2>5
<1>9. ASSUME NEW a \in Activation, Retry(a) PROVE TypeInv'
  <2>1. DataOK'
    BY <1>9, ActivationAssumption DEF Retry, Again, remote, Labels
  <2>2. Counted' /\ NonceKnown'
    BY <1>9, ActivationAssumption DEF Retry, Again, Counted, NonceKnown, remote
  <2> QED BY <2>1, <2>2
<1>10. CASE UNCHANGED vars
  BY <1>10 DEF vars, remote, process, Counted, NonceKnown
<1> QED BY <1>1, <1>2, <1>3, <1>4, <1>5, <1>6, <1>7, <1>8, <1>9, <1>10, Conclusions DEF Next, Step

-----------------------------------------------------------------------------
\* Only a run with an outcome turns to the ledger, and it stays one.
Concluded == \A a \in Activation :
  /\ row[a].status \in Outcomes => pc[a] \in {"read", "append", "done", "dead"}
  /\ pc[a] \in {"read", "append", "done"} => row[a].status \in Outcomes

\* A run that may still write has nothing on its way.
Settled == \A a \in Activation :
  /\ pc[a] \in {"start", "owner", "nonce", "write"} => a \notin wire
  /\ a \in wire => answer[a] = "none"

IInv == TypeInv /\ Concluded /\ Settled /\ OwnershipIsTrue /\ NoNonceNothingSent

LEMMA InitIInv == Init => IInv
  BY InitTypeInv
     DEF Init, IInv, Concluded, Settled, OwnershipIsTrue, NoNonceNothingSent, Outcomes, Entry

LEMMA NextIInv == IInv /\ [Next]_vars => IInv'
<1> SUFFICES ASSUME IInv, [Next]_vars PROVE IInv'
  OBVIOUS
<1>0. TypeInv'
  BY NextTypeInv DEF IInv
<1> DEFINE Rest == Concluded /\ Settled /\ OwnershipIsTrue /\ NoNonceNothingSent
<1> USE DEF IInv, Concluded, Settled, OwnershipIsTrue, NoNonceNothingSent
<1>1. ASSUME Others \/ UNCHANGED vars PROVE Rest'
  <2>1. /\ wire' = wire /\ answer' = answer /\ row' = row /\ pc' = pc /\ sent' = sent
        /\ owner = "bench" => owner' = "bench"
    BY <1>1 DEF Others, vars, remote, process
  <2> QED BY <2>1
<1>2. ASSUME NEW a \in Activation, Accept(a) \/ Refuse(a) PROVE Rest'
  BY <1>2 DEF Accept, Refuse, TypeInv, DataOK, process
<1>3. ASSUME NEW a \in Activation, Start(a) PROVE Rest'
  BY <1>3 DEF Start, TypeInv, DataOK, Goto, remote, Entry, Outcomes
<1>4. ASSUME NEW a \in Activation, Succeeded(a) \/ ReadLedger(a) \/ AppendLedger(a) \/ Die(a)
      PROVE  Rest'
  BY <1>4 DEF Succeeded, ReadLedger, AppendLedger, Die, TypeInv, DataOK, Goto, remote
<1>5. ASSUME NEW a \in Activation, Conclusion(a) PROVE Rest'
  <2>1. PICK status \in Outcomes, n \in {Null, nonce[a]} :
          /\ Conclude(a, status, n)
          /\ pc[a] \in {"owner", "nonce", "write", "wait", "verify"}
          /\ status \in {"created", "already-owned"} => owner = "bench"
          /\ pc[a] = "owner" \/ n = nonce[a]
    BY <1>5 DEF Conclusion, Outcomes
  <2>2. n = Null => sent[a] = 0
    BY <2>1 DEF TypeInv, DataOK, Counted, NonceKnown
  <2> USE <2>1, <2>2 DEF Conclude, TypeInv, DataOK, Goto, remote, Entry
  <2>3. Concluded' /\ Settled'
    OBVIOUS
  <2>4. OwnershipIsTrue' /\ NoNonceNothingSent'
    OBVIOUS
  <2> QED BY <2>3, <2>4
<1>6. ASSUME NEW a \in Activation, ReadOwner(a), ~Conclusion(a) PROVE Rest'
  BY <1>6 DEF ReadOwner, Conclusion, Shown, TypeInv, DataOK, Goto, remote
<1>7. ASSUME NEW a \in Activation, ReadNonce(a) PROVE Rest'
  BY <1>7 DEF ReadNonce, TypeInv, DataOK, Goto, remote
<1>8. ASSUME NEW a \in Activation, Transmit(a) PROVE Rest'
  BY <1>8 DEF Transmit, TypeInv, DataOK, Goto
<1>9. ASSUME NEW a \in Activation, Retry(a) PROVE Rest'
  BY <1>9 DEF Retry, Again, TypeInv, DataOK, Goto, remote
<1>10. Rest'
  BY <1>1, <1>2, <1>3, <1>4, <1>5, <1>6, <1>7, <1>8, <1>9, Conclusions DEF Next, Step
<1> QED BY <1>0, <1>10

LEMMA AlwaysIInv == Spec => []IInv
  BY InitIInv, NextIInv, PTL DEF Spec

\* A run that reports the room as created or already owned is right (Verify, ReadOwner).
THEOREM OwnershipReported == Spec => []OwnershipIsTrue
<1>1. IInv => OwnershipIsTrue
  BY DEF IInv
<1> QED BY <1>1, AlwaysIInv, PTL

\* An outcome without nonce_used is proof that no write was sent (create_service).
THEOREM UnsentIsUnsent == Spec => []NoNonceNothingSent
<1>1. IInv => NoNonceNothingSent
  BY DEF IInv
<1> QED BY <1>1, AlwaysIInv, PTL

\* A write is repeated only after the one before was refused (the retry loop).
THEOREM RepeatsAreAnswered == Spec => RetriesAreAnswered
<1> DEFINE Answered ==
      \A a \in Activation : sent'[a] # sent[a] => a \notin wire /\ attempt[a] = sent[a]
<1>1. IInv /\ [Next]_vars => [Answered]_vars
  <2> SUFFICES ASSUME IInv, [Next]_vars PROVE Answered
    BY DEF IInv, TypeInv, DataOK
  <2> USE DEF IInv, TypeInv, DataOK, Counted, Settled
  <2>1. ASSUME NEW a \in Activation, Transmit(a) PROVE Answered
    BY <2>1 DEF Transmit
  <2>2. ASSUME NEW a \in Activation,
               \/ ReadOwner(a) \/ OwnerUnreadable(a) \/ ReadNonce(a) \/ NonceUnreadable(a)
               \/ SigningFails(a) \/ NoAnswer(a) \/ Retry(a) \/ Rejected(a) \/ Succeeded(a)
               \/ Verify(a) \/ ReadLedger(a) \/ AppendLedger(a)
        PROVE  UNCHANGED sent
    BY <2>2 DEF ReadOwner, OwnerUnreadable, ReadNonce, NonceUnreadable, SigningFails, NoAnswer,
                Retry, Again, Rejected, Succeeded, Verify, ReadLedger, AppendLedger, Conclude
  <2>3. ASSUME \/ Others
               \/ \E a \in Activation : Start(a) \/ Die(a) \/ Accept(a) \/ Refuse(a)
               \/ UNCHANGED vars
        PROVE  UNCHANGED sent
    BY <2>3 DEF Others, Start, Die, Accept, Refuse, process, vars
  <2> QED BY <2>1, <2>2, <2>3 DEF Next, Step
<1> QED BY <1>1, AlwaysIInv, PTL DEF Spec, RetriesAreAnswered

\* A run has one outcome: its row never changes after it (update_service_activation).
THEOREM OutcomeStays == Spec => OneOutcome
<1> DEFINE Stays == \A a \in Activation : row[a].status \in Outcomes => row'[a] = row[a]
<1>1. IInv /\ [Next]_vars => [Stays]_vars
  <2> SUFFICES ASSUME IInv, [Next]_vars PROVE Stays
    OBVIOUS
  <2> USE DEF IInv, TypeInv, DataOK, Concluded
  <2>1. ASSUME NEW a \in Activation,
               \/ Start(a) \/ ReadOwner(a) \/ OwnerUnreadable(a) \/ NonceUnreadable(a)
               \/ SigningFails(a) \/ NoAnswer(a) \/ Rejected(a) \/ Verify(a)
        PROVE  Stays
    BY <2>1 DEF Start, ReadOwner, OwnerUnreadable, NonceUnreadable, SigningFails, NoAnswer,
                Rejected, Verify, Conclude
  <2>2. ASSUME NEW a \in Activation,
               \/ ReadNonce(a) \/ Transmit(a) \/ Retry(a) \/ Succeeded(a) \/ ReadLedger(a)
               \/ AppendLedger(a) \/ Die(a) \/ Accept(a) \/ Refuse(a)
        PROVE  UNCHANGED row
    BY <2>2 DEF ReadNonce, Transmit, Retry, Again, Succeeded, ReadLedger, AppendLedger, Die,
                Accept, Refuse
  <2>3. CASE Others \/ UNCHANGED vars
    BY <2>3 DEF Others, vars
  <2> QED BY <2>1, <2>2, <2>3 DEF Next, Step
<1> QED BY <1>1, AlwaysIInv, PTL DEF Spec, OneOutcome

-----------------------------------------------------------------------------
\* The runs step the ledger only as EvidenceLedger does.
LEMMA NextLedger == IInv /\ [Next]_vars => [LedgerNext]_ledgerVars
<1> SUFFICES ASSUME IInv, [Next]_vars PROVE [LedgerNext]_ledgerVars
  OBVIOUS
<1>1. ASSUME NEW a \in Activation, ReadLedger(a) \/ AppendLedger(a) \/ Die(a)
      PROVE  [LedgerNext]_ledgerVars
  <2>1. a \in Writer
    BY ActivationAssumption
  <2>2. pc[a] = "append" => <<a, row[a].status>> \in Content
    BY ActivationAssumption DEF IInv, Concluded
  <2> QED BY <1>1, <2>1, <2>2 DEF ReadLedger, AppendLedger, Die, LedgerNext
<1>2. ASSUME NEW a \in Activation,
             \/ Start(a) \/ Accept(a) \/ Refuse(a) \/ ReadOwner(a) \/ OwnerUnreadable(a)
             \/ ReadNonce(a) \/ NonceUnreadable(a) \/ SigningFails(a) \/ Transmit(a)
             \/ NoAnswer(a) \/ Retry(a) \/ Rejected(a) \/ Succeeded(a) \/ Verify(a)
      PROVE  UNCHANGED ledgerVars
  BY <1>2 DEF Start, Accept, Refuse, ReadOwner, OwnerUnreadable, ReadNonce, NonceUnreadable,
              SigningFails, Transmit, NoAnswer, Retry, Again, Rejected, Succeeded, Verify, Conclude
<1>3. CASE Others \/ UNCHANGED vars
  BY <1>3 DEF Others, vars
<1> QED BY <1>1, <1>2, <1>3 DEF Next, Step

\* All runs together keep to the ledger's own specification.
THEOREM ImplementsLedger == Spec => LedgerSpec
<1>1. Init => LedgerInit
  BY DEF Init
<1> QED BY <1>1, InitIInv, NextIInv, NextLedger, PTL DEF Spec, LedgerSpec

\* Every variable has its type; no run sends more than MaxAttempts writes.
THEOREM TypeCorrect == Spec => []TypeOK
<1>1. Init => LedgerFlagsOK /\ LedgerInv
  BY LedgerInitInv DEF Init, LedgerInit, LedgerFlagsOK
<1>2. LedgerFlagsOK /\ LedgerInv /\ IInv /\ [Next]_vars => (LedgerFlagsOK /\ LedgerInv)'
  BY NextLedger, LedgerNextInv, LedgerFlags
<1>3. LedgerFlagsOK /\ LedgerInv => LedgerTypeOK
  BY DEF LedgerFlagsOK, LedgerInv, LedgerDataOK, LedgerTypeOK
<1>4. IInv => sent \in [Activation -> 0..MaxAttempts]
  BY ActivationAssumption DEF IInv, TypeInv, DataOK, Counted
<1>5. LedgerTypeOK /\ IInv => TypeOK
  BY <1>4 DEF IInv, TypeInv, DataOK, Labels, TypeOK
<1> QED BY <1>1, <1>2, <1>3, <1>5, AlwaysIInv, PTL DEF Spec

-----------------------------------------------------------------------------
\* Every record names a run with its status, and no run has two.
RecordsTrue ==
  \A i \in 1..Len(lines) : lines[i] # Garbage => row[lines[i].of[1]].status = lines[i].of[2]
RecordsApart ==
  \A i, j \in 1..Len(lines) :
    lines[i] # Garbage /\ lines[j] # Garbage /\ lines[i].of[1] = lines[j].of[1] => i = j

\* A run that has not appended yet has no record.
NoRecordYet ==
  \A i \in 1..Len(lines) : lines[i] # Garbage =>
    lines[i].of[1] \in Activation /\ pc[lines[i].of[1]] \in {"done", "dead"}

RecordInv == LedgerInv /\ IInv /\ RecordsTrue /\ RecordsApart /\ NoRecordYet

\* A run that has ended keeps its row and its place.
LEMMA EndedStays ==
  IInv /\ [Next]_vars =>
    \A b \in Activation : pc[b] \in {"done", "dead"} =>
      /\ row'[b] = row[b]
      /\ pc'[b] \in {"done", "dead"}
<1> SUFFICES ASSUME IInv, [Next]_vars, NEW b \in Activation, pc[b] \in {"done", "dead"}
             PROVE  row'[b] = row[b] /\ pc'[b] \in {"done", "dead"}
  OBVIOUS
<1> USE DEF IInv, TypeInv, DataOK, Goto
<1>1. ASSUME NEW a \in Activation,
             \/ Start(a) \/ ReadOwner(a) \/ OwnerUnreadable(a) \/ NonceUnreadable(a)
             \/ SigningFails(a) \/ NoAnswer(a) \/ Rejected(a) \/ Verify(a)
      PROVE  row'[b] = row[b] /\ pc'[b] \in {"done", "dead"}
  BY <1>1 DEF Start, ReadOwner, OwnerUnreadable, NonceUnreadable, SigningFails, NoAnswer,
              Rejected, Verify, Conclude
<1>2. ASSUME NEW a \in Activation,
             \/ ReadNonce(a) \/ Transmit(a) \/ Retry(a) \/ Succeeded(a) \/ ReadLedger(a)
             \/ AppendLedger(a) \/ Die(a)
      PROVE  row'[b] = row[b] /\ pc'[b] \in {"done", "dead"}
  BY <1>2 DEF ReadNonce, Transmit, Retry, Again, Succeeded, ReadLedger, AppendLedger, Die
<1>3. ASSUME \/ Others \/ UNCHANGED vars
             \/ \E a \in Activation : Accept(a) \/ Refuse(a)
      PROVE  row' = row /\ pc' = pc
  BY <1>3 DEF Others, Accept, Refuse, vars, process
<1> QED BY <1>1, <1>2, <1>3 DEF Next, Step

\* Only AppendLedger writes to the file.
LEMMA OneAppends ==
  [Next]_vars => UNCHANGED lines \/ \E a \in Activation : AppendLedger(a)
<1> SUFFICES ASSUME [Next]_vars, ~\E a \in Activation : AppendLedger(a) PROVE UNCHANGED lines
  OBVIOUS
<1>1. ASSUME NEW a \in Activation,
             \/ Start(a) \/ Accept(a) \/ Refuse(a) \/ ReadOwner(a) \/ OwnerUnreadable(a)
             \/ ReadNonce(a) \/ NonceUnreadable(a) \/ SigningFails(a) \/ Transmit(a)
             \/ NoAnswer(a) \/ Retry(a) \/ Rejected(a) \/ Succeeded(a) \/ Verify(a)
      PROVE  UNCHANGED lines
  BY <1>1 DEF Start, Accept, Refuse, ReadOwner, OwnerUnreadable, ReadNonce, NonceUnreadable,
              SigningFails, Transmit, NoAnswer, Retry, Again, Rejected, Succeeded, Verify, Conclude,
              ledgerVars
<1>2. ASSUME NEW a \in Activation, ReadLedger(a) \/ Die(a) PROVE UNCHANGED lines
  BY <1>2 DEF ReadLedger, ReadLast, Die, AppendNothing, ledgerVars
<1>3. CASE Others \/ UNCHANGED vars
  BY <1>3 DEF Others, vars, ledgerVars
<1> QED BY <1>1, <1>2, <1>3 DEF Next, Step

LEMMA NextRecordInv == RecordInv /\ [Next]_vars => RecordInv'
<1> SUFFICES ASSUME RecordInv, [Next]_vars PROVE RecordInv'
  OBVIOUS
<1>1. LedgerInv' /\ IInv'
  BY NextIInv, NextLedger, LedgerNextInv DEF RecordInv
<1>2. \A b \in Activation : pc[b] \in {"done", "dead"} =>
        row'[b] = row[b] /\ pc'[b] \in {"done", "dead"}
  BY EndedStays DEF RecordInv
<1>3. CASE UNCHANGED lines
  <2>1. RecordsTrue' /\ RecordsApart' /\ NoRecordYet'
    BY <1>2, <1>3 DEF RecordInv, RecordsTrue, RecordsApart, NoRecordYet
  <2> QED BY <1>1, <2>1 DEF RecordInv
<1>4. ASSUME NEW a \in Activation, AppendLedger(a) PROVE RecordInv'
  <2>1. /\ pc[a] = "append" /\ row' = row /\ row[a].status \in Outcomes
        /\ pc' = [pc EXCEPT ![a] = "done"]
    BY <1>4 DEF AppendLedger, Goto, RecordInv, IInv, Concluded
  <2>2. PICK line \in Record \union {Garbage} :
          lines' = Extended(line) /\ (line # Garbage => line.of = <<a, row[a].status>>)
    <3>1. [of |-> <<a, row[a].status>>, prev |-> last[a]] \in Record
      BY <2>1, ActivationAssumption DEF Record, RecordInv, LedgerInv, LedgerDataOK
    <3> QED BY <1>4, <3>1 DEF AppendLedger, AppendRecord, AppendShort
  <2>3. /\ Len(lines) \in Nat /\ Len(lines') \in Nat
        /\ \A i \in 1..Len(lines') :
             \/ lines'[i] = Garbage
             \/ i \in 1..Len(lines) /\ lines'[i] = lines[i]
             \/ i = Len(lines) + 1 /\ lines'[i] = line
    BY <2>2, ExtendedLines DEF RecordInv
  <2>4. \A i \in 1..Len(lines) : lines[i] # Garbage => lines[i].of[1] # a
    BY <2>1 DEF RecordInv, NoRecordYet
  <2>5. line # Garbage => line.of[1] = a /\ line.of[2] = row[a].status
    BY <2>2
  <2>6. RecordsTrue'
    BY <2>1, <2>3, <2>5 DEF RecordInv, RecordsTrue
  <2>7. RecordsApart'
    BY <2>3, <2>4, <2>5 DEF RecordInv, RecordsApart
  <2>8. NoRecordYet'
    <3>1. pc'[a] = "done"
      BY <2>1 DEF RecordInv, IInv, TypeInv, DataOK
    <3> QED BY <1>2, <2>3, <2>5, <3>1 DEF RecordInv, NoRecordYet
  <2> QED BY <1>1, <2>6, <2>7, <2>8 DEF RecordInv
<1> QED BY <1>3, <1>4, OneAppends

LEMMA AlwaysRecordInv == Spec => []RecordInv
<1>1. Init => RecordInv
  BY InitIInv, LedgerInitInv DEF Init, LedgerInit, RecordInv, RecordsTrue, RecordsApart, NoRecordYet
<1> QED BY <1>1, NextRecordInv, PTL DEF Spec

\* No record contradicts its row, and no run has two (update_activation_audit).
THEOREM LedgerAgrees == Spec => []LedgerTellsRow
<1>1. RecordInv => LedgerTellsRow
  BY DEF RecordInv, RecordsTrue, RecordsApart, LedgerTellsRow
<1> QED BY <1>1, AlwaysRecordInv, PTL

-----------------------------------------------------------------------------
AuditedInv == LedgerInv /\ IInv /\ CompletionIsAudited

LEMMA NextAuditedInv == AuditedInv /\ [Next]_vars => AuditedInv'
<1> SUFFICES ASSUME AuditedInv, [Next]_vars PROVE AuditedInv'
  OBVIOUS
<1>1. LedgerInv' /\ IInv' /\ \A c \in Content : Told(c) => Told(c)'
  BY NextIInv, NextLedger, LedgerNextInv, ToldStays DEF AuditedInv
<1>2. SUFFICES ASSUME NEW b \in Activation, pc'[b] = "done"
               PROVE  \E s \in Outcomes : row'[b].status = s /\ Told(<<b, s>>)'
  BY <1>1 DEF AuditedInv, CompletionIsAudited, Told
<1>3. \A s \in Outcomes : <<b, s>> \in Content
  BY ActivationAssumption
<1>4. CASE pc[b] = "done"
  <2>1. row'[b] = row[b]
    BY <1>4, EndedStays DEF AuditedInv
  <2>2. PICK s \in Outcomes : row[b].status = s
    BY <1>4 DEF AuditedInv, CompletionIsAudited
  <2>3. Told(<<b, s>>)
    BY <1>4, <2>2 DEF AuditedInv, CompletionIsAudited, Told
  <2> QED BY <1>1, <1>3, <2>1, <2>2, <2>3
<1>5. ASSUME pc[b] # "done", AppendLedger(b)
      PROVE  \E s \in Outcomes : row'[b].status = s /\ Told(<<b, s>>)'
  <2>1. PICK s \in Outcomes : row[b].status = s
    BY <1>5 DEF AppendLedger, AuditedInv, IInv, Concluded
  <2>2. b \in holding /\ (AppendRecord(b, <<b, s>>) \/ AppendShort(b, <<b, s>>))
    BY <1>5, <2>1 DEF AppendLedger, AppendRecord, AppendShort
  <2>3. Told(<<b, s>>)'
    BY <1>3, <2>2, AppendedIsTold DEF AuditedInv
  <2> QED BY <1>5, <2>1, <2>3 DEF AppendLedger
<1>6. ASSUME pc[b] # "done", ReadLedger(b)
      PROVE  \E s \in Outcomes : row'[b].status = s /\ Told(<<b, s>>)'
  <2>1. ~Readable /\ UNCHANGED ledgerVars /\ row' = row /\ pc[b] = "read"
    BY <1>2, <1>6 DEF ReadLedger, Goto, AuditedInv, IInv, TypeInv, DataOK
  <2>2. PICK s \in Outcomes : row[b].status = s
    BY <2>1 DEF AuditedInv, IInv, Concluded
  <2>3. Told(<<b, s>>)
    BY <2>1 DEF Told
  <2> QED BY <1>1, <1>3, <2>1, <2>2, <2>3
<1>7. ASSUME pc[b] # "done", ~AppendLedger(b), ~ReadLedger(b) PROVE FALSE
  <2> USE <1>2, <1>7 DEF AuditedInv, IInv, TypeInv, DataOK, Goto
  <2>1. ASSUME NEW a \in Activation,
               \/ Start(a) \/ ReadOwner(a) \/ OwnerUnreadable(a) \/ NonceUnreadable(a)
               \/ SigningFails(a) \/ NoAnswer(a) \/ Rejected(a) \/ Verify(a)
        PROVE  FALSE
    BY <2>1 DEF Start, ReadOwner, OwnerUnreadable, NonceUnreadable, SigningFails, NoAnswer,
                Rejected, Verify, Conclude
  <2>2. ASSUME NEW a \in Activation,
               ReadNonce(a) \/ Transmit(a) \/ Retry(a) \/ Succeeded(a) \/ Die(a)
        PROVE  FALSE
    BY <2>2 DEF ReadNonce, Transmit, Retry, Again, Succeeded, Die
  <2>3. ASSUME NEW a \in Activation, ReadLedger(a) \/ AppendLedger(a) PROVE FALSE
    BY <2>3 DEF ReadLedger, AppendLedger
  <2>4. ASSUME Others \/ UNCHANGED vars \/ \E a \in Activation : Accept(a) \/ Refuse(a)
        PROVE  FALSE
    BY <2>4 DEF Others, Accept, Refuse, vars, process
  <2> QED BY <2>1, <2>2, <2>3, <2>4 DEF Next, Step
<1> QED BY <1>4, <1>5, <1>6, <1>7

\* A run that ended has its outcome in its row and, if the ledger is readable, in the ledger.
THEOREM CompletionAudited == Spec => []CompletionIsAudited
<1>1. Init => AuditedInv
  BY InitIInv, LedgerInitInv DEF Init, AuditedInv, CompletionIsAudited
<1>2. AuditedInv => CompletionIsAudited
  BY DEF AuditedInv
<1> QED BY <1>1, <1>2, NextAuditedInv, PTL DEF Spec

-----------------------------------------------------------------------------
\* How many steps a run has left at most: three for each write it may still send, and the
\* outcome's.
Remaining(a) ==
  LET rounds == 3 * (MaxAttempts - attempt[a]) IN
  CASE pc[a] = "owner"  -> rounds + 4
    [] pc[a] = "nonce"  -> rounds + 3
    [] pc[a] = "write"  -> rounds + 2
    [] pc[a] = "wait"   -> rounds + 1
    [] pc[a] = "verify" -> 3
    [] pc[a] = "read"   -> 2
    [] pc[a] = "append" -> 1
    [] OTHER            -> 0

\* Each step of a run, once started, brings its end nearer, and nobody else's step defers it.
RunsShrink ==
  [][\A a \in Activation : pc[a] # "start" =>
       /\ Remaining(a)' <= Remaining(a)
       /\ Step(a) \/ Die(a) => Remaining(a)' < Remaining(a)]_vars

LEMMA RemainingBounds ==
  ASSUME IInv, NEW a \in Activation
  PROVE  Remaining(a) \in 0..3 * MaxAttempts + 4
<1>1. attempt[a] \in Nat /\ attempt[a] < MaxAttempts /\ MaxAttempts \in Nat
  BY ActivationAssumption DEF IInv, TypeInv, DataOK
<1> QED BY <1>1 DEF Remaining

LEMMA StepsShrink ==
  ASSUME IInv, NEW a \in Activation, Step(a) \/ Die(a)
  PROVE  Remaining(a)' < Remaining(a)
<1>1. /\ attempt[a] \in Nat /\ attempt[a] < MaxAttempts /\ MaxAttempts \in Nat
      /\ pc \in [Activation -> Labels] /\ attempt \in [Activation -> 0..MaxAttempts - 1]
  BY ActivationAssumption DEF IInv, TypeInv, DataOK
<1>2. CASE Conclusion(a)
  <2>1. pc[a] \in {"owner", "nonce", "write", "wait", "verify"} /\ pc'[a] = "read"
    BY <1>1, <1>2 DEF Conclusion, Conclude, Goto
  <2> QED BY <1>1, <2>1 DEF Remaining
<1>3. CASE Retry(a)
  <2>1. /\ pc[a] = "wait" /\ pc'[a] = "nonce" /\ attempt'[a] = attempt[a] + 1
    BY <1>1, <1>3 DEF Retry, Again, Goto
  <2> QED BY <1>1, <2>1 DEF Remaining
<1>4. CASE ReadNonce(a) \/ Transmit(a) \/ Succeeded(a) \/ (ReadOwner(a) /\ ~Conclusion(a))
  <2>1. /\ attempt' = attempt
        /\ \/ pc[a] = "owner" /\ pc'[a] = "nonce"
           \/ pc[a] = "nonce" /\ pc'[a] = "write"
           \/ pc[a] = "write" /\ pc'[a] = "wait"
           \/ pc[a] = "wait" /\ pc'[a] = "verify"
    BY <1>1, <1>4 DEF ReadNonce, Transmit, Succeeded, ReadOwner, Conclusion, Shown, Goto
  <2> QED BY <1>1, <2>1 DEF Remaining
<1>5. CASE ReadLedger(a) \/ AppendLedger(a)
  <2>1. \/ pc[a] = "read" /\ pc'[a] \in {"append", "done"}
        \/ pc[a] = "append" /\ pc'[a] = "done"
    BY <1>1, <1>5 DEF ReadLedger, AppendLedger, Goto
  <2> QED BY <2>1 DEF Remaining
<1>6. CASE Die(a)
  <2>1. pc[a] \in Labels \ {"start", "done", "dead"} /\ pc'[a] = "dead"
    BY <1>1, <1>6 DEF Die, Goto
  <2> QED BY <1>1, <2>1 DEF Remaining, Labels
<1> QED BY <1>2, <1>3, <1>4, <1>5, <1>6, Conclusions DEF Step

LEMMA OtherSteps ==
  ASSUME IInv, [Next]_vars, NEW a \in Activation, pc[a] # "start", ~Step(a), ~Die(a)
  PROVE  pc'[a] = pc[a] /\ attempt'[a] = attempt[a]
<1> USE DEF IInv, TypeInv, DataOK, Goto
<1>1. ASSUME NEW b \in Activation, b # a, Start(b) \/ Step(b) \/ Die(b)
      PROVE  pc'[a] = pc[a] /\ attempt'[a] = attempt[a]
  <2>1. CASE \/ Start(b) \/ ReadOwner(b) \/ OwnerUnreadable(b) \/ NonceUnreadable(b)
             \/ SigningFails(b) \/ NoAnswer(b) \/ Rejected(b) \/ Verify(b) \/ Die(b)
    BY <1>1, <2>1 DEF Start, ReadOwner, OwnerUnreadable, NonceUnreadable, SigningFails,
                      NoAnswer, Rejected, Verify, Die, Conclude
  <2>2. CASE \/ ReadNonce(b) \/ Transmit(b) \/ Retry(b) \/ Succeeded(b) \/ ReadLedger(b)
             \/ AppendLedger(b)
    BY <1>1, <2>2 DEF ReadNonce, Transmit, Retry, Again, Succeeded, ReadLedger, AppendLedger
  <2> QED BY <1>1, <2>1, <2>2 DEF Step
<1>2. ASSUME \/ Others \/ UNCHANGED vars
             \/ \E b \in Activation : Accept(b) \/ Refuse(b)
      PROVE  pc' = pc /\ attempt' = attempt
  BY <1>2 DEF Others, Accept, Refuse, vars, process
<1>3. ~Start(a)
  BY DEF Start
<1> QED BY <1>1, <1>2, <1>3 DEF Next

\* A started run takes at most 3 * MaxAttempts + 4 steps, however often Technocore refuses it
\* (the loop of create_service): what RunsEnd rests on.
THEOREM RunsAreFinite ==
  Spec => /\ [](\A a \in Activation : Remaining(a) \in 0..3 * MaxAttempts + 4)
          /\ RunsShrink
<1> DEFINE Bounded == \A a \in Activation : Remaining(a) \in 0..3 * MaxAttempts + 4
           Shrink  == \A a \in Activation : pc[a] # "start" =>
                        /\ Remaining(a)' <= Remaining(a)
                        /\ Step(a) \/ Die(a) => Remaining(a)' < Remaining(a)
<1>1. IInv => Bounded
  BY RemainingBounds
<1>2. IInv /\ IInv' /\ [Next]_vars => [Shrink]_vars
  <2> SUFFICES ASSUME IInv, IInv', [Next]_vars, NEW a \in Activation, pc[a] # "start"
               PROVE  /\ Remaining(a)' <= Remaining(a)
                      /\ Step(a) \/ Die(a) => Remaining(a)' < Remaining(a)
    OBVIOUS
  <2>1. Remaining(a) \in 0..3 * MaxAttempts + 4 /\ MaxAttempts \in Nat
    BY RemainingBounds, ActivationAssumption
  <2>2. Bounded'
    BY <1>1, PTL
  <2>3. Remaining(a)' \in 0..3 * MaxAttempts + 4
    BY <2>2
  <2>4. CASE Step(a) \/ Die(a)
    BY <2>1, <2>3, <2>4, StepsShrink
  <2>5. CASE ~Step(a) /\ ~Die(a)
    <3>1. Remaining(a)' = Remaining(a)
      BY <2>5, OtherSteps DEF Remaining
    <3> QED BY <2>1, <2>5, <3>1
  <2> QED BY <2>4, <2>5
<1> QED BY <1>1, <1>2, AlwaysIInv, PTL DEF Spec, RunsShrink
=============================================================================
