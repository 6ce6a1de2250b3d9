--------------------------- MODULE ResultDelivery ---------------------------
(***************************************************************************)
(* Result delivery beside signed posting: result_delivery_preview,         *)
(* send_result_delivery and reconcile_result_delivery (execution.py), over *)
(* the nonce counter that posting uses too, while executions complete and  *)
(* verification results are imported (ImportedOnce, which                  *)
(* VerificationImport implements).                                         *)
(*                                                                         *)
(* An attempt is a `post send' or a `result send'; which, its text says.   *)
(* The text of a result names its request and its destination, so equal    *)
(* texts go to one room; the rooms are taken together, room holding the    *)
(* messages of all of them and visible what a read returns.  text is a     *)
(* constant of a behaviour: an attempt begins only when it is the text the *)
(* preview returns, and otherwise never begins.                            *)
(*                                                                         *)
(* A delivery has the steps of a post without the owner check: in the      *)
(* state "owner" it goes straight on to the nonce.                         *)
(***************************************************************************)
EXTENDS SignedPosting

CONSTANTS
  Request, Version, Route,  \* as in ImportedOnce
  Executed  \* in place of a version and a route: the executed result of a request, which goes
            \* to the request's own reply room and sender

ASSUME DeliveryAssumption == Null \notin Version \union Route /\ Executed \notin Version \union Route

VARIABLES
  completed,  \* requests with a completed execution
  imported,   \* verification_result_imports
  preview     \* each delivery: what it has looked up, "none", "no import", "ready"

results == <<completed, imported, preview>>
allVars == <<vars, results>>

Import == INSTANCE ImportedOnce

ExecutedResult(r) == [request |-> r, version |-> Executed, route |-> Executed]

Result == {ExecutedResult(r) : r \in Request}
          \union [request : Request, version : Version, route : Route]

Delivers(a) == text[a] \in Result

DeliveryInit ==
  /\ Init
  /\ Import!Init
  /\ completed = {}
  /\ preview = [a \in Attempt |-> "none"]

RowOf(t) == Import!ImportRow(t.version, t.route)

Stored(t) == imported[t.request] = RowOf(t)

OnRecord(t) == IF t.version = Executed THEN t.request \in completed ELSE Stored(t)

-----------------------------------------------------------------------------
(* result send.                                                            *)

\* execute_passive completes a request.
CompleteExecution(r) ==
  /\ completed' = completed \union {r}
  /\ UNCHANGED <<vars, imported, preview>>

Look(a, what) ==
  /\ preview' = [preview EXCEPT ![a] = what]
  /\ UNCHANGED <<vars, completed, imported>>

\* An import outranks an execution; without a route it blocks the delivery.
LookForImport(a) ==
  /\ Delivers(a) /\ preview[a] = "none"
  /\ \/ text[a].version # Executed /\ Stored(text[a]) /\ Look(a, "ready")
     \/ text[a].version = Executed /\ imported[text[a].request] = Import!NoImport /\ Look(a, "no import")

\* Fault: a reserved or failed execution will do.
LookForExecutionOfAnyStatus(a) == preview[a] = "no import" /\ Look(a, "ready")

LookForExecution(a) ==
  /\ preview[a] = "no import"
  /\ text[a].request \in completed
  /\ Look(a, "ready")

BeginDelivery(a) ==
  /\ preview[a] = "ready"
  /\ Start(a)

\* Fault: an incomplete scan is not a failed preflight.
SearchDestinationSome(a) ==
  \/ \E n \in 0..visible :
       /\ pc[a] = "preflight" /\ SearchedSome(a, n)
       /\ pc' = [pc EXCEPT ![a] = "owner"] /\ saw' = [saw EXCEPT ![a] = visible]
       /\ UNCHANGED <<text, remote, row, lastNonce, nonce, reviews>>
  \/ AlreadyPosted(a)

SearchDestination(a) ==
  \/ PreflightAbsent(a) \/ AlreadyPosted(a)
  \/ pc[a] = "preflight" /\ PreflightFails(a)

SignDelivery(a) == TakeNonce(a) \/ SigningFails(a)

PostDelivery(a) == Transmit(a) \/ PresumedUnsent(a) \/ Posted(a) \/ NotConfirmed(a)

Deliver(a) ==
  /\ Delivers(a)
  /\ BeginDelivery(a) \/ SearchDestination(a) \/ SignDelivery(a) \/ PostDelivery(a) \/ Die(a)

-----------------------------------------------------------------------------
(* result reconcile, with the steps of post reconcile on its own table.    *)

ReadDelivery(r) == \E a \in Attempt : ReadAttempt(r, a)

ScanDestination(r) == Scan(r)

\* _result_delivery_transition has the rules of monotonic_reconciliation_transition.
SettleDelivery(r) == WriteBack(r)

ReconcileDelivery(r) == ReadDelivery(r) \/ ScanDestination(r) \/ SettleDelivery(r) \/ Quit(r)

-----------------------------------------------------------------------------
Messaging ==
  \/ \E a \in Attempt : Deliver(a) \/ (~ Delivers(a) /\ Send(a)) \/ Accept(a) \/ Refuse(a)
  \/ Show
  \/ \E r \in Reconciler : ReconcileDelivery(r)

DeliveryNext ==
  \/ Messaging /\ UNCHANGED results
  \/ \E a \in Attempt : LookForImport(a) \/ LookForExecution(a)
  \/ \E r \in Request : CompleteExecution(r)
  \/ Import!Next /\ UNCHANGED <<vars, completed, preview>>

DeliverySpec == DeliveryInit /\ [][DeliveryNext]_allVars

-----------------------------------------------------------------------------
(* Properties.                                                             *)

\* Every variable of this module has its type.
DeliveryTypeOK ==
  /\ completed \subseteq Request
  /\ imported \in [Request -> Import!ImportRows]
  /\ preview \in [Attempt -> {"none", "no import", "ready"}]

\* What reaches a reply room is what the database holds, also much later: the executed result
\* of the request or its imported result, to its one route, however long ago the delivery
\* previewed.
DeliveredIsOnRecord ==
  \A i \in 1..Len(room) : text[room[i]] \in Result => OnRecord(text[room[i]])
=============================================================================
