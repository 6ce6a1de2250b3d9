------------------------- MODULE VerificationImport -------------------------
(***************************************************************************)
(* `verification prepare-delivery': prepare_verification_delivery          *)
(* (verification.py) and the table verification_result_imports (state.py). *)
(*                                                                         *)
(* A preparation is one run of the command.  It is given a result file,    *)
(* validated before anything is read (an invalid one never starts), and a  *)
(* reply room and target DID.  It reads the row of the request in one      *)
(* connection and writes it in another; a process that dies in between     *)
(* takes no further step.                                                  *)
(***************************************************************************)
CONSTANTS
  Request, Version, Route, Null,
  Preparer  \* runs of `verification prepare-delivery'

ASSUME ImportAssumption == Null \notin Version /\ Null \notin Route

VARIABLES
  imported,  \* verification_result_imports: result_hash, reply room and target DID
  want,      \* each preparation: the result and the route it is given
  step,      \* each preparation: "start", "looked", "prepared", "refused"
  read       \* the row as it read it

vars == <<imported, want, step, read>>

Once == INSTANCE ImportedOnce

ImportRow(v, g) == Once!ImportRow(v, g)
NoImport == Once!NoImport

Prepared == [request : Request, version : Version, route : Route]

RowOf(t) == ImportRow(t.version, t.route)

Init ==
  /\ Once!Init
  /\ want \in [Preparer -> Prepared]
  /\ step = [q \in Preparer |-> "start"]
  /\ read = [q \in Preparer |-> NoImport]

ReadImport(q) ==
  /\ step[q] = "start"
  /\ step' = [step EXCEPT ![q] = "looked"]
  /\ read' = [read EXCEPT ![q] = imported[want[q].request]]
  /\ UNCHANGED <<imported, want>>

Answer(q, answer) ==
  /\ step[q] = "looked"
  /\ step' = [step EXCEPT ![q] = answer]
  /\ UNCHANGED <<want, read>>

\* Fault: only the request id is compared.
AgreesWithAny(q) == read[q].version # Null /\ read[q].route # Null

\* The row that was read has the same result and the same route.
Agrees(q) == read[q] = RowOf(want[q])

Unrouted(q) == read[q] = ImportRow(want[q].version, Null)

AlreadyPrepared(q) ==
  /\ Agrees(q)
  /\ Answer(q, "prepared")
  /\ UNCHANGED imported

\* Another result or another route was there.
Refuse(q) ==
  /\ read[q] # NoImport /\ ~ Agrees(q) /\ ~ Unrouted(q)
  /\ Answer(q, "refused")
  /\ UNCHANGED imported

\* Fault: INSERT OR REPLACE.
InsertReplacing(t) == [imported EXCEPT ![t.request] = RowOf(t)]

\* INSERT OR IGNORE: the first row of a request stays.
Insert(t) ==
  IF imported[t.request] = NoImport
  THEN [imported EXCEPT ![t.request] = RowOf(t)]
  ELSE imported

\* Nothing was there; inserted or ignored, the answer is positive.
Record(q) ==
  /\ read[q] = NoImport
  /\ imported' = Insert(want[q])
  /\ Answer(q, "prepared")

\* UPDATE ... WHERE both columns are NULL; the answer is positive, also when somebody else has
\* set another route by now.
SetRoute(q) ==
  /\ Unrouted(q)
  /\ LET r == want[q].request IN
     imported' = IF imported[r].route = Null
                 THEN [imported EXCEPT ![r].route = want[q].route] ELSE imported
  /\ Answer(q, "prepared")

Prepare(q) == ReadImport(q) \/ AlreadyPrepared(q) \/ Refuse(q) \/ Record(q) \/ SetRoute(q)

Next == \E q \in Preparer : Prepare(q)

Spec == Init /\ [][Next]_vars

-----------------------------------------------------------------------------
(* Properties.                                                             *)

\* Every variable has its type.
TypeOK ==
  /\ imported \in [Request -> Once!ImportRows]
  /\ want \in [Preparer -> Prepared]
  /\ step \in [Preparer -> {"start", "looked", "prepared", "refused"}]
  /\ read \in [Preparer -> Once!ImportRows]

\* However many preparations overlap, a request keeps the first result and the first route that
\* were recorded for it.
KeepsFirst == Once!Spec

\* A positive answer ("prepared", "already-prepared") for a result or a route that is not the
\* recorded one takes an overlap: the row changed after this preparation had read it.
AnswersAreTrue ==
  \A q \in Preparer : step[q] = "prepared" =>
    \/ imported[want[q].request] = RowOf(want[q])
    \/ read[q] # imported[want[q].request] /\ read[q] # RowOf(want[q])
=============================================================================
