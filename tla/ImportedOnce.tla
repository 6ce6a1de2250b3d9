---------------------------- MODULE ImportedOnce ----------------------------
(***************************************************************************)
(* What the table verification_result_imports promises: a request has at   *)
(* most one imported result, and that result at most one reply route,      *)
(* neither of which is ever replaced.                                      *)
(***************************************************************************)
CONSTANTS
  Request,  \* request ids
  Version,  \* verification results of a request, by result_hash
  Route,    \* a reply room and a target DID
  Null      \* SQL NULL

VARIABLE imported

ImportRow(v, g) == [version |-> v, route |-> g]
NoImport == ImportRow(Null, Null)

ImportRows == {NoImport} \union [version : Version, route : Route \union {Null}]

\* Rows of before migration 12 have no route.
Init == imported \in [Request -> {NoImport} \union {ImportRow(v, Null) : v \in Version}]

Record(r) ==
  \E v \in Version, g \in Route :
    /\ imported[r] = NoImport
    /\ imported' = [imported EXCEPT ![r] = ImportRow(v, g)]

SetRoute(r) ==
  \E v \in Version, g \in Route :
    /\ imported[r] = ImportRow(v, Null)
    /\ imported' = [imported EXCEPT ![r] = ImportRow(v, g)]

Next == \E r \in Request : Record(r) \/ SetRoute(r)

Spec == Init /\ [][Next]_imported
=============================================================================
