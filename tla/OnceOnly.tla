------------------------------ MODULE OnceOnly ------------------------------
(***************************************************************************)
(* What manual execution promises of each request: it is claimed at most   *)
(* once, only a claimed request gets a result, one at most, and a request  *)
(* whose claimant is gone is never claimed again.                          *)
(***************************************************************************)
CONSTANTS Executor, Request, Nobody

VARIABLES
  claimant,  \* who claimed the request, Nobody before
  finished   \* the requests with a result

Init == claimant = [r \in Request |-> Nobody] /\ finished = {}

Claim(r, e) ==
  /\ claimant[r] = Nobody
  /\ claimant' = [claimant EXCEPT ![r] = e]
  /\ UNCHANGED finished

Finish(r) ==
  /\ claimant[r] # Nobody
  /\ r \notin finished
  /\ finished' = finished \union {r}
  /\ UNCHANGED claimant

Next == \E r \in Request : Finish(r) \/ \E e \in Executor : Claim(r, e)

Spec == Init /\ [][Next]_<<claimant, finished>>
=============================================================================
