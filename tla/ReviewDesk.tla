----------------------------- MODULE ReviewDesk -----------------------------
(***************************************************************************)
(* What mailbox intake promises of each request id: it is taken in once,   *)
(* for review or turned away because intake is inactive, all requests of a *)
(* batch alike; a person decides once on what waits for review; and there  *)
(* is no way back, so what was turned away is never reviewed, however      *)
(* often it is sent again.                                                 *)
(***************************************************************************)
CONSTANT Request

VARIABLE verdict

Decisions == {"approved_for_manual_execution", "rejected"}

Init == verdict = [r \in Request |-> "none"]

\* A batch of new requests.
TakeIn(batch, review) ==
  /\ \A r \in batch : verdict[r] = "none"
  /\ verdict' = [r \in Request |-> IF r \in batch THEN review ELSE verdict[r]]

Decide(r, decision) ==
  /\ verdict[r] = "pending_human_review"
  /\ verdict' = [verdict EXCEPT ![r] = decision]

Next ==
  \/ \E batch \in (SUBSET Request) \ {{}}, review \in {"pending_human_review", "rejected"} :
       TakeIn(batch, review)
  \/ \E r \in Request, decision \in Decisions : Decide(r, decision)

Spec == Init /\ [][Next]_verdict
=============================================================================
