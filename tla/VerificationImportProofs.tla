---------------------- MODULE VerificationImportProofs ----------------------
(***************************************************************************)
(* Type correctness, the truth of the answers and the refinement of        *)
(* ImportedOnce, for any number of preparations, requests, results and     *)
(* routes.                                                                 *)
(***************************************************************************)
EXTENDS VerificationImport, TLAPS

\* What a preparation has read is what is recorded or what was recorded before it: the result
\* is still that one, the route, if there was one, too.
ReadBefore ==
  \A q \in Preparer :
    LET now == imported[want[q].request] IN
    /\ read[q].route # Null => now = read[q]
    /\ read[q].version # Null => now.version = read[q].version

\* A row that appeared since has its route from the start.
AppearsRouted ==
  \A q \in Preparer : step[q] # "start" /\ read[q] = NoImport =>
    imported[want[q].request] = NoImport \/ imported[want[q].request].route # Null

\* A positive answer leaves a row with a route behind, and unless the row is the wanted one the
\* preparation had not seen it.
Settled ==
  \A q \in Preparer : step[q] = "prepared" =>
    /\ imported[want[q].request].route # Null
    /\ imported[want[q].request] = RowOf(want[q]) \/ read[q].route = Null

Inv == TypeOK /\ ReadBefore /\ AppearsRouted /\ Settled

LEMMA Rows ==
  /\ NoImport = [version |-> Null, route |-> Null]
  /\ \A v, g : ImportRow(v, g) = [version |-> v, route |-> g]
  /\ Once!ImportRows = {NoImport} \union [version : Version, route : Route \union {Null}]
  /\ Once!NoImport = NoImport
  /\ \A v, g : Once!ImportRow(v, g) = ImportRow(v, g)
BY DEF NoImport, ImportRow, Once!ImportRow, Once!NoImport, Once!ImportRows

\* The initial states.
LEMMA InitInv == Init => Inv
<1> SUFFICES ASSUME Init PROVE Inv
  OBVIOUS
<1>1. TypeOK
  BY Rows DEF Init, Once!Init, TypeOK
<1>2. ReadBefore /\ AppearsRouted /\ Settled
  BY Rows DEF Init, ReadBefore, AppearsRouted, Settled
<1> QED BY <1>1, <1>2 DEF Inv

\* What writing a preparation's answer does to the row of its request: nothing, or the request
\* gets its first result with a route, or its result the first route.
Grows(r, t) ==
  /\ r = t.request
  /\ \/ imported[r] = NoImport /\ imported' = [imported EXCEPT ![r] = RowOf(t)]
     \/ imported[r] = ImportRow(t.version, Null) /\ imported' = [imported EXCEPT ![r] = RowOf(t)]

\* Every write of the table is of one of these forms.
LEMMA WritesGrow ==
  ASSUME Inv, NEW q \in Preparer, Prepare(q)
  PROVE  imported' = imported \/ Grows(want[q].request, want[q])
<1> DEFINE r == want[q].request
<1>t. want[q] \in Prepared /\ r \in Request /\ imported[r] \in Once!ImportRows
      /\ read[q] \in Once!ImportRows /\ want[q].version \in Version /\ want[q].route \in Route
  BY DEF Inv, TypeOK, Prepared
<1>1. CASE Record(q)
  BY <1>1, <1>t, Rows DEF Record, Insert, Grows, RowOf
<1>2. CASE SetRoute(q)
  <2>1. read[q] = ImportRow(want[q].version, Null) /\ read[q].version # Null
    BY <1>2, <1>t, Rows, ImportAssumption DEF SetRoute, Unrouted
  <2>2. imported[r].version = want[q].version
    BY <2>1, Rows DEF Inv, ReadBefore
  <2>3. CASE imported[r].route = Null
    <3>1. imported[r] = ImportRow(want[q].version, Null)
      BY <2>2, <2>3, <1>t, Rows, ImportAssumption
    <3>2. imported' = [imported EXCEPT ![r].route = want[q].route]
      BY <1>2, <2>3 DEF SetRoute
    <3>3. [imported[r] EXCEPT !.route = want[q].route] = RowOf(want[q])
      BY <3>1, Rows DEF RowOf
    <3>4. imported' = [imported EXCEPT ![r] = RowOf(want[q])]
      BY <3>2, <3>3
    <3> QED BY <3>1, <3>4 DEF Grows
  <2>4. CASE imported[r].route # Null
    BY <1>2, <2>4 DEF SetRoute
  <2> QED BY <2>3, <2>4
<1>3. CASE ReadImport(q) \/ AlreadyPrepared(q) \/ Refuse(q)
  BY <1>3 DEF ReadImport, AlreadyPrepared, Refuse
<1> QED BY <1>1, <1>2, <1>3 DEF Prepare

\* A row that has a route stays as it is, one that has a result keeps it, and every row keeps
\* its type.
LEMMA GrowsMonotonic ==
  ASSUME TypeOK, NEW t \in Prepared, NEW s \in Request,
         imported' = imported \/ Grows(t.request, t)
  PROVE  /\ imported' \in [Request -> Once!ImportRows]
         /\ imported[s].route # Null => imported'[s] = imported[s]
         /\ imported[s].version # Null => imported'[s].version = imported[s].version
         /\ imported'[s] = imported[s] \/ imported'[s].route # Null
<1>1. t.request \in Request /\ t.version \in Version /\ t.route \in Route
      /\ RowOf(t) \in Once!ImportRows
  BY Rows DEF Prepared, RowOf
<1>2. CASE imported' = imported
  BY <1>2 DEF TypeOK
<1>3. CASE Grows(t.request, t)
  <2>1. imported' = [imported EXCEPT ![t.request] = RowOf(t)]
        /\ imported[t.request].route = Null
        /\ (imported[t.request].version = Null \/ imported[t.request].version = t.version)
    BY <1>3, <1>1, Rows DEF Grows
  <2>2. RowOf(t).route # Null /\ RowOf(t).version = t.version
    BY <1>1, Rows, ImportAssumption DEF RowOf
  <2> QED BY <2>1, <2>2, <1>1 DEF TypeOK
<1> QED BY <1>2, <1>3

\* Every step keeps the invariant.
LEMMA NextInv == Inv /\ [Next]_vars => Inv'
<1> SUFFICES ASSUME Inv, [Next]_vars PROVE Inv'
  OBVIOUS
<1>1. CASE UNCHANGED vars
  BY <1>1 DEF vars, Inv, TypeOK, ReadBefore, AppearsRouted, Settled
<1>2. ASSUME NEW q \in Preparer, Prepare(q) PROVE Inv'
  <2> DEFINE r == want[q].request
  <2>t. /\ \A p \in Preparer : want[p] \in Prepared /\ want[p].request \in Request
        /\ \A p \in Preparer : imported[want[p].request] \in Once!ImportRows
                               /\ read[p] \in Once!ImportRows
        /\ want[q].version \in Version /\ want[q].route \in Route
    BY DEF Inv, TypeOK, Prepared
  <2>w. want' = want
    BY <1>2 DEF Prepare, ReadImport, AlreadyPrepared, Refuse, Record, SetRoute, Answer
  <2>g. imported' = imported \/ Grows(r, want[q])
    BY <1>2, WritesGrow
  <2>m. /\ imported' \in [Request -> Once!ImportRows]
        /\ \A s \in Request :
             /\ imported[s].route # Null => imported'[s] = imported[s]
             /\ imported[s].version # Null => imported'[s].version = imported[s].version
             /\ imported'[s] = imported[s] \/ imported'[s].route # Null
    BY <2>g, <2>t, GrowsMonotonic DEF Inv
  <2>1. CASE ReadImport(q)
    <3>1. /\ step' = [step EXCEPT ![q] = "looked"]
          /\ read' = [read EXCEPT ![q] = imported[r]]
          /\ imported' = imported
      BY <2>1 DEF ReadImport
    <3>2. TypeOK'
      BY <3>1, <2>t, <2>w DEF Inv, TypeOK
    <3>3. ReadBefore'
      BY <3>1, <2>t, <2>w DEF Inv, TypeOK, ReadBefore
    <3>4. AppearsRouted'
      BY <3>1, <2>t, <2>w, Rows DEF Inv, TypeOK, AppearsRouted
    <3>5. Settled'
      BY <3>1, <2>t, <2>w, <2>1 DEF Inv, TypeOK, Settled, ReadImport
    <3> QED BY <3>2, <3>3, <3>4, <3>5 DEF Inv
  <2>2. CASE AlreadyPrepared(q) \/ Refuse(q) \/ Record(q) \/ SetRoute(q)
    <3>1. PICK answer \in {"prepared", "refused"} :
            /\ step[q] = "looked" /\ step' = [step EXCEPT ![q] = answer] /\ read' = read
            /\ answer = "prepared" => AlreadyPrepared(q) \/ Record(q) \/ SetRoute(q)
      BY <2>2 DEF AlreadyPrepared, Refuse, Record, SetRoute, Answer
    <3>2. TypeOK'
      BY <3>1, <2>m, <2>w DEF Inv, TypeOK
    <3>3. ReadBefore'
      BY <3>1, <2>m, <2>w, <2>t, Rows DEF Inv, TypeOK, ReadBefore
    <3>4. AppearsRouted'
      BY <3>1, <2>m, <2>w, <2>t, Rows DEF Inv, TypeOK, AppearsRouted
    <3>5. ASSUME NEW p \in Preparer, step'[p] = "prepared", p # q
          PROVE  /\ imported'[want[p].request].route # Null
                 /\ imported'[want[p].request] = RowOf(want[p]) \/ read[p].route = Null
      BY <3>1, <3>5, <2>m, <2>t DEF Inv, TypeOK, Settled
    <3>6. ASSUME answer = "prepared"
          PROVE  /\ imported'[r].route # Null
                 /\ imported'[r] = RowOf(want[q]) \/ read[q].route = Null
      <4>1. CASE AlreadyPrepared(q)
        <5>1. read[q] = RowOf(want[q]) /\ read[q].route # Null
          BY <4>1, <2>t, Rows, ImportAssumption DEF AlreadyPrepared, Agrees, RowOf
        <5>2. imported[r] = read[q] /\ imported' = imported
          BY <5>1, <4>1 DEF Inv, ReadBefore, AlreadyPrepared
        <5> QED BY <5>1, <5>2
      <4>2. CASE Record(q)
        <5>1. read[q] = NoImport /\ read[q].route = Null
          BY <4>2, Rows DEF Record
        <5>2. imported[r] = NoImport \/ imported[r].route # Null
          BY <5>1, <3>1 DEF Inv, AppearsRouted
        <5>3. CASE imported[r] = NoImport
          BY <5>3, <5>1, <4>2, <2>t, Rows, ImportAssumption
          DEF Record, Insert, RowOf, Inv, TypeOK
        <5>4. CASE imported[r].route # Null
          BY <5>4, <5>1, <2>m, <2>t
        <5> QED BY <5>2, <5>3, <5>4
      <4>3. CASE SetRoute(q)
        <5>1. read[q].route = Null
          BY <4>3, Rows DEF SetRoute, Unrouted
        <5>2. CASE imported[r].route = Null
          <6>1. imported' = [imported EXCEPT ![r].route = want[q].route]
            BY <5>2, <4>3 DEF SetRoute
          <6>2. imported[r] = [version |-> imported[r].version, route |-> Null]
            BY <5>2, <2>t, Rows, ImportAssumption
          <6>3. imported'[r].route = want[q].route
            BY <6>1, <6>2, <2>t DEF Inv, TypeOK
          <6> QED BY <5>1, <6>3, <2>t, ImportAssumption
        <5>3. CASE imported[r].route # Null
          BY <5>3, <5>1, <2>m, <2>t
        <5> QED BY <5>2, <5>3
      <4> QED BY <3>6, <3>1, <4>1, <4>2, <4>3
    <3>7. Settled'
      <4> SUFFICES ASSUME NEW p \in Preparer, step'[p] = "prepared"
                   PROVE  /\ imported'[want[p].request].route # Null
                          /\ imported'[want[p].request] = RowOf(want[p]) \/ read[p].route = Null
        BY <3>1, <2>w DEF Settled, RowOf, ImportRow, Once!ImportRow
      <4>1. CASE p = q
        BY <4>1, <3>6, <3>1 DEF Inv, TypeOK
      <4>2. CASE p # q
        BY <4>2, <3>5
      <4> QED BY <4>1, <4>2
    <3> QED BY <3>2, <3>3, <3>4, <3>7 DEF Inv
  <2> QED BY <1>2, <2>1, <2>2 DEF Prepare
<1> QED BY <1>1, <1>2 DEF Next

\* The invariant holds.
LEMMA AlwaysInv == Spec => []Inv
BY InitInv, NextInv, PTL DEF Spec

\* The variables have their types.
THEOREM ImportTypes == Spec => []TypeOK
<1>1. Inv => TypeOK
  BY DEF Inv
<1> QED BY <1>1, AlwaysInv, PTL

\* A positive answer that is not what the table holds was given by a preparation that had
\* not seen the row it lost to.
THEOREM PositiveAnswers == Spec => []AnswersAreTrue
<1>1. Inv => AnswersAreTrue
  <2> SUFFICES ASSUME Inv, NEW q \in Preparer, step[q] = "prepared",
                      imported[want[q].request] # RowOf(want[q])
               PROVE  read[q] # imported[want[q].request] /\ read[q] # RowOf(want[q])
    BY DEF AnswersAreTrue
  <2>1. imported[want[q].request].route # Null /\ read[q].route = Null
    BY DEF Inv, Settled
  <2>2. RowOf(want[q]).route # Null
    BY Rows, ImportAssumption DEF Inv, TypeOK, Prepared, RowOf
  <2> QED BY <2>1, <2>2
<1> QED BY <1>1, AlwaysInv, PTL

\* Preparations implement a table whose rows keep their first result and their first route.
THEOREM FirstImportStays == Spec => KeepsFirst
<1>1. Init => Once!Init
  BY DEF Init
<1>2. Inv /\ [Next]_vars => [Once!Next]_imported
  <2> SUFFICES ASSUME Inv, NEW q \in Preparer, Prepare(q), imported' # imported
               PROVE  Once!Next
    BY DEF Next, vars
  <2> DEFINE r == want[q].request
  <2>1. Grows(r, want[q])
    BY WritesGrow
  <2>2. r \in Request /\ want[q].version \in Version /\ want[q].route \in Route
    BY DEF Inv, TypeOK, Prepared
  <2>3. Once!Record(r) \/ Once!SetRoute(r)
    BY <2>1, <2>2, Rows DEF Grows, RowOf, Once!Record, Once!SetRoute
  <2> QED BY <2>2, <2>3 DEF Once!Next
<1> QED BY <1>1, <1>2, AlwaysInv, PTL DEF Spec, KeepsFirst, Once!Spec
=============================================================================
