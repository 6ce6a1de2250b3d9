------------------------ MODULE MailboxIntakeProofs ------------------------
(***************************************************************************)
(* Proofs about MailboxIntake for any number of pollers, any request ids   *)
(* and any page sizes: no message up to the cursor is missing, rows have   *)
(* no holes, and a request id reaches review once.                         *)
(***************************************************************************)
EXTENDS MailboxIntake, TLAPS

\* The data each step handles, without the flags.
DataOK ==
  /\ room \in Seq(Request \union {Junk}) /\ Len(room) <= MaxSeq
  /\ volume \in Seq(Nat) /\ Len(volume) = Len(room)
  /\ expired \subseteq Seqs
  /\ cursor \in 0..MaxSeq /\ base \in [Poller -> 0..MaxSeq]
  /\ rows \in [Seqs -> Row \union {NoRow}]
  /\ pc \in [Poller -> {"idle", "switch", "scan", "store"}]
  /\ pages \in [Poller -> 0..MaxPages]
  /\ items \in [Poller -> Seq(Row)]

\* The cursor and every scan stay within the room, and only a scan has items.
WithinRoom ==
  /\ cursor <= Len(room)
  /\ \A p \in Poller : /\ base[p] + Len(items[p]) <= Len(room)
                       /\ pc[p] \in {"idle", "switch"} => items[p] = <<>>

TypeInv == DataOK /\ WithinRoom

LEMMA ClassifyRow == \A s, on : Classify(s, on) \in Row
  BY DEF Classify, Row

LEMMA DuplicateRow == Duplicate \in Row
  BY DEF Duplicate, Row

LEMMA Lengths ==
  ASSUME TypeInv, NEW p \in Poller
  PROVE  /\ Len(room) \in Nat /\ cursor \in Nat /\ base[p] \in Nat
         /\ items[p] \in Seq(Row) /\ Len(items[p]) \in Nat
         /\ Since(p) = base[p] + Len(items[p]) /\ Since(p) \in Nat /\ Since(p) <= Len(room)
  BY IntakeAssumption DEF TypeInv, DataOK, WithinRoom, Since

\* The bytes of a part of the room, and of the room after one more message.
LEMMA VolumeIsNat ==
  ASSUME TypeInv, NEW n \in 0..Len(room)
  PROVE  Volume(n) \in Nat
<1>1. Len(room) \in Nat /\ volume \in Seq(Nat) /\ Len(volume) = Len(room)
  BY DEF TypeInv, DataOK
<1>2. n # 0 => n \in 1..Len(volume)
  BY <1>1
<1> QED BY <1>1, <1>2 DEF Volume

LEMMA InitTypeInv == Init => TypeInv
  BY IntakeAssumption DEF Init, TypeInv, DataOK, WithinRoom, Seqs

LEMMA NextTypeInv == TypeInv /\ [Next]_vars => TypeInv'
<1> SUFFICES ASSUME TypeInv, [Next]_vars PROVE TypeInv'
  OBVIOUS
<1> USE IntakeAssumption DEF TypeInv, DataOK, WithinRoom, env, db, scan
<1>1. ASSUME NEW m \in Request \union {Junk}, NEW size \in Sizes, Send(m, size) PROVE TypeInv'
  <2>1. Volume(Len(room)) + size \in Nat
    <3> HIDE DEF TypeInv, DataOK, WithinRoom
    <3>1. Len(room) \in 0..Len(room)
      BY DEF TypeInv, DataOK
    <3> QED BY <3>1, VolumeIsNat
  <2>2. /\ volume' = Append(volume, Volume(Len(room)) + size) /\ room' = Append(room, m)
        /\ Len(room) < MaxSeq /\ UNCHANGED <<env, db, scan>>
    BY <1>1 DEF Send
  <2>3. volume' \in Seq(Nat) /\ Len(volume') = Len(volume) + 1
    BY <2>1, <2>2
  <2>4. room' \in Seq(Request \union {Junk}) /\ Len(room') = Len(room) + 1 /\ Len(room) \in Nat
    BY <2>2
  <2> QED BY <2>2, <2>3, <2>4
<1>2. ASSUME NEW s \in 1..Len(room), Expire(s) PROVE TypeInv'
  BY <1>2 DEF Expire, Seqs
<1>3. ASSUME Settle \/ \E on \in BOOLEAN : SetActive(on) PROVE TypeInv'
  BY <1>3 DEF Settle, SetActive
<1>4. ASSUME NEW r \in Request, NEW status \in {"approved_for_manual_execution", "rejected"},
             Review(r, status)
      PROVE  TypeInv'
  <2>1. PICK s \in Seqs : /\ rows[s].id = r /\ rows[s].review = "pending_human_review"
                          /\ rows' = [rows EXCEPT ![s].review = status]
                          /\ UNCHANGED <<room, volume, env, active, cursor, scan>>
    BY <1>4 DEF Review
  <2>2. rows[s] \in Row
    BY <2>1 DEF NoRow
  <2>3. [rows[s] EXCEPT !.review = status] \in Row
    BY <2>2 DEF Row
  <2> QED BY <2>1, <2>3
<1>5. ASSUME NEW p \in Poller, ReadCursor(p) \/ ReadSwitch(p) PROVE TypeInv'
  <2>1. DataOK'
    BY <1>5 DEF ReadCursor, ReadSwitch
  <2>2. UNCHANGED <<items, room, cursor>>
    BY <1>5 DEF ReadCursor, ReadSwitch
  <2>3. \A q \in Poller : base'[q] = base[q] \/ (items[q] = <<>> /\ base'[q] = cursor)
    BY <1>5 DEF ReadCursor, ReadSwitch
  <2>4. ASSUME NEW q \in Poller, pc'[q] \in {"idle", "switch"} PROVE items[q] = <<>>
    <3>1. pc[q] \in {"idle", "switch"}
      BY <1>5, <2>4 DEF ReadCursor, ReadSwitch
    <3> QED BY <3>1
  <2>5. ASSUME NEW q \in Poller PROVE base'[q] + Len(items[q]) <= Len(room)
    <3>1. /\ base[q] + Len(items[q]) <= Len(room) /\ cursor <= Len(room)
          /\ cursor \in Nat /\ Len(<<>>) = 0
      BY Lengths
    <3>2. base'[q] = base[q] \/ (items[q] = <<>> /\ base'[q] = cursor)
      BY <2>3
    <3> HIDE DEF TypeInv, DataOK, WithinRoom
    <3> QED BY <3>1, <3>2
  <2> QED BY <2>1, <2>2, <2>4, <2>5
<1>6. ASSUME NEW p \in Poller, Fetch(p) PROVE TypeInv'
  <2> DEFINE n == PageSize(p)
             page == [i \in 1..n |-> Classify(Since(p) + i, seen[p])]
  <2>1. n \in Nat /\ Since(p) + n <= Len(room)
    <3> HIDE DEF TypeInv
    <3>1. Since(p) \in Nat /\ Len(room) \in Nat /\ Since(p) <= Len(room) /\ PageLimit \in Nat
      BY Lengths
    <3> QED BY <3>1 DEF PageSize
  <2> HIDE DEF n
  <2>2. page \in Seq(Row) /\ Len(page) = n
    BY <2>1, ClassifyRow
  <2>3. items' = [items EXCEPT ![p] = items[p] \o page]
    BY <1>6 DEF Fetch, n
  <2> HIDE DEF page
  <2>4. items'[p] = items[p] \o page
    BY <2>3
  <2>5. items[p] \in Seq(Row) /\ Len(items[p]) \in Nat /\ Since(p) = base[p] + Len(items[p])
        /\ base[p] \in Nat /\ Len(room) \in Nat
    BY Lengths
  <2>6. items'[p] \in Seq(Row) /\ Len(items'[p]) = Len(items[p]) + n
    <3> HIDE DEF TypeInv
    <3> HIDE DEF DataOK
    <3>1. ASSUME NEW f \in Seq(Row), NEW g \in Seq(Row)
          PROVE  f \o g \in Seq(Row) /\ Len(f \o g) = Len(f) + Len(g)
      OBVIOUS
    <3> QED BY <2>2, <2>4, <2>5, <3>1
  <2>7. base[p] + Len(items'[p]) <= Len(room)
    BY <2>1, <2>5, <2>6
  <2>8. items' \in [Poller -> Seq(Row)]
    BY <2>3, <2>4, <2>6
  <2>9. pages' \in [Poller -> 0..MaxPages]
    BY <1>6 DEF Fetch
  <2>10. /\ pc' \in [Poller -> {"idle", "switch", "scan", "store"}]
         /\ pc'[p] \in {"scan", "store"} /\ \A q \in Poller \ {p} : pc'[q] = pc[q]
         /\ UNCHANGED <<room, volume, expired, cursor, base, rows>>
    BY <1>6 DEF Fetch
  <2> QED BY <2>3, <2>7, <2>8, <2>9, <2>10
<1>7. ASSUME NEW p \in Poller, NotFound(p) PROVE TypeInv'
  BY <1>7 DEF NotFound
<1>8. ASSUME NEW p \in Poller, Forget(p), UNCHANGED <<room, volume, env, db>> PROVE TypeInv'
  BY <1>8 DEF Forget
<1>9. ASSUME NEW p \in Poller, Store(p) PROVE TypeInv'
  <2>1. ASSUME NEW s \in Fresh(p) PROVE Item(p, s) \in Row
    BY <2>1 DEF Fresh, Item, Since, Seqs
  <2>2. Stored(p) \in [Seqs -> Row \union {NoRow}]
    BY <2>1, DuplicateRow DEF Stored
  <2> QED BY <1>9, <2>2 DEF Store, NewCursor, Since, Forget
<1>10. CASE UNCHANGED vars
  BY <1>10 DEF vars
<1> QED BY <1>1, <1>2, <1>3, <1>4, <1>5, <1>6, <1>7, <1>8, <1>9, <1>10
         DEF Next, Poll, GiveUp, TimeOut, Oversize, Fail, Abandon

-----------------------------------------------------------------------------
\* Type correctness: the flags the data invariant leaves out change by Boolean values only.
FlagsOK == steady \in BOOLEAN /\ active \in BOOLEAN /\ seen \in [Poller -> BOOLEAN]

LEMMA NextFlags == FlagsOK /\ [Next]_vars => FlagsOK'
<1> SUFFICES ASSUME FlagsOK, [Next]_vars PROVE FlagsOK'
  OBVIOUS
<1> USE DEF FlagsOK, env, db, scan
<1>1. CASE \E m \in Request \union {Junk}, size \in Sizes : Send(m, size)
  BY <1>1 DEF Send
<1>2. CASE \E s \in 1..Len(room) : Expire(s)
  BY <1>2 DEF Expire
<1>3. CASE Settle
  BY <1>3 DEF Settle
<1>4. CASE \E on \in BOOLEAN : SetActive(on)
  BY <1>4 DEF SetActive
<1>5. CASE \E r \in Request, status \in {"approved_for_manual_execution", "rejected"} :
             Review(r, status)
  BY <1>5 DEF Review
<1>6. ASSUME NEW p \in Poller, Poll(p) \/ NotFound(p) \/ Fail(p) PROVE FlagsOK'
  <2>1. CASE ReadCursor(p) \/ Fetch(p) \/ NotFound(p)
    BY <2>1 DEF ReadCursor, Fetch, NotFound
  <2>2. CASE ReadSwitch(p)
    BY <2>2 DEF ReadSwitch
  <2>3. CASE GiveUp(p) \/ TimeOut(p) \/ Oversize(p) \/ Fail(p)
    BY <2>3 DEF GiveUp, TimeOut, Oversize, Fail, Abandon, Forget
  <2>4. CASE Store(p)
    BY <2>4 DEF Store, Forget
  <2> QED BY <1>6, <2>1, <2>2, <2>3, <2>4 DEF Poll
<1>7. CASE UNCHANGED vars
  BY <1>7 DEF vars
<1> QED BY <1>1, <1>2, <1>3, <1>4, <1>5, <1>6, <1>7 DEF Next

\* Every variable keeps its type, and no cursor runs past the room: for any number of
\* pollers, pages and messages.
THEOREM TypeCorrect == Spec => []TypeOK
<1>1. Init => TypeInv /\ FlagsOK
  BY InitTypeInv DEF Init, FlagsOK
<1>2. TypeInv /\ FlagsOK /\ [Next]_vars => (TypeInv /\ FlagsOK)'
  BY NextTypeInv, NextFlags
<1>3. TypeInv /\ FlagsOK => TypeOK
  BY DEF TypeInv, DataOK, FlagsOK, TypeOK
<1> QED BY <1>1, <1>2, <1>3, PTL DEF Spec

LEMMA AlwaysTypeInv == Spec => []TypeInv
  BY InitTypeInv, NextTypeInv, PTL DEF Spec

-----------------------------------------------------------------------------
(* What a batch does to the rows.                                          *)

LEMMA RowIsNoNoRow == NoRow \notin Row
  BY DEF NoRow, Row

\* What is inserted is a row, from a message the scan covers.
LEMMA FreshItems ==
  ASSUME TypeInv, NEW p \in Poller, NEW s \in Fresh(p)
  PROVE  /\ Item(p, s) \in Row /\ s \in Seqs /\ s \in Nat
         /\ s - base[p] \in 1..Len(items[p]) /\ s \in 1..Len(room) /\ rows[s] = NoRow
<1>1. /\ items[p] \in Seq(Row) /\ Len(items[p]) \in Nat /\ base[p] \in Nat /\ Len(room) \in Nat
      /\ Since(p) = base[p] + Len(items[p]) /\ Since(p) <= Len(room)
  BY Lengths
<1>2. s \in Seqs /\ s \in Nat /\ s > base[p] /\ s <= Since(p) /\ rows[s] = NoRow
  BY IntakeAssumption DEF Fresh, Seqs
<1>3. s - base[p] \in 1..Len(items[p]) /\ s \in 1..Len(room)
  BY <1>1, <1>2
<1> QED BY <1>1, <1>2, <1>3 DEF Item

\* A batch keeps every row there is and fills in the rest of what it scanned.
LEMMA Batch ==
  ASSUME TypeInv, NEW p \in Poller, NEW s \in Seqs
  PROVE  /\ rows[s] # NoRow => Stored(p)[s] = rows[s]
         /\ s > base[p] /\ s <= Since(p) => Stored(p)[s] # NoRow
         /\ Stored(p)[s] # NoRow => rows[s] # NoRow \/ s \in Fresh(p)
<1>1. s \in Fresh(p) => Stored(p)[s] \in Row
  BY FreshItems, DuplicateRow DEF Stored
<1>2. s \notin Fresh(p) => Stored(p)[s] = rows[s]
  BY DEF Stored
<1> QED BY <1>1, <1>2, RowIsNoNoRow DEF Fresh

\* The steps by which rows or cursors change are the review, the cursor read and the store.
Quiet ==
  /\ UNCHANGED <<rows, cursor>>
  /\ \A p \in Poller : base'[p] = base[p] \/ base'[p] = 0 \/ base'[p] = cursor

Reviewed ==
  \E s \in Seqs, r \in Request, status \in {"approved_for_manual_execution", "rejected"} :
    /\ rows[s].id = r /\ rows[s].review = "pending_human_review"
    /\ rows' = [rows EXCEPT ![s].review = status]
    /\ UNCHANGED <<room, cursor, base, items>>
    /\ Review(r, status)

Batched == \E p \in Poller :
  /\ Store(p)
  /\ UNCHANGED room
  /\ rows' = Stored(p) /\ cursor' = Since(p)
  /\ base' = [base EXCEPT ![p] = 0] /\ items' = [items EXCEPT ![p] = <<>>]

LEMMA StepKinds == TypeInv /\ [Next]_vars => Quiet \/ Reviewed \/ Batched
<1> SUFFICES ASSUME TypeInv, [Next]_vars PROVE Quiet \/ Reviewed \/ Batched
  OBVIOUS
<1> USE DEF TypeInv, DataOK, env, db, scan
<1>1. ASSUME NEW m \in Request \union {Junk}, NEW size \in Sizes, Send(m, size) PROVE Quiet
  BY <1>1 DEF Send, Quiet
<1>2. CASE \E s \in 1..Len(room) : Expire(s)
  BY <1>2 DEF Expire, Quiet
<1>3. CASE Settle \/ \E on \in BOOLEAN : SetActive(on)
  BY <1>3 DEF Settle, SetActive, Quiet
<1>4. CASE \E r \in Request, status \in {"approved_for_manual_execution", "rejected"} :
             Review(r, status)
  BY <1>4 DEF Review, Reviewed
<1>5. ASSUME NEW p \in Poller, ReadCursor(p) \/ ReadSwitch(p) \/ Fetch(p) \/ NotFound(p)
      PROVE  Quiet
  BY <1>5 DEF ReadCursor, ReadSwitch, Fetch, NotFound, Quiet
<1>6. ASSUME NEW p \in Poller, GiveUp(p) \/ TimeOut(p) \/ Oversize(p) \/ Fail(p) PROVE Quiet
  BY <1>6 DEF GiveUp, TimeOut, Oversize, Fail, Abandon, Forget, Quiet
<1>7. ASSUME NEW p \in Poller, Store(p) PROVE Batched
  BY <1>7 DEF Store, NewCursor, Forget, Batched
<1>8. CASE UNCHANGED vars
  BY <1>8 DEF vars, Quiet
<1> QED BY <1>1, <1>2, <1>3, <1>4, <1>5, <1>6, <1>7, <1>8 DEF Next, Poll

-----------------------------------------------------------------------------
(* Nothing is lost: the cursor and what every poller read of it are        *)
(* covered, whichever store comes last.                                    *)

BaseCovered == \A p \in Poller : \A s \in Seqs : s <= base[p] => rows[s] # NoRow

Coverage == TypeInv /\ CursorCovered /\ NoHoles /\ BaseCovered

\* A review turns a row into a row.
LEMMA ReviewKeeps ==
  ASSUME TypeInv, NEW s \in Seqs, NEW status, rows[s].review = "pending_human_review"
  PROVE  \A t \in Seqs : /\ rows[t] # NoRow <=> [rows EXCEPT ![s].review = status][t] # NoRow
                         /\ [rows EXCEPT ![s].review = status][t].id = rows[t].id
<1>1. rows[s] \in Row /\ rows \in [Seqs -> Row \union {NoRow}]
  BY DEF TypeInv, DataOK, NoRow
<1>2. [rows[s] EXCEPT !.review = status] # NoRow
      /\ [rows[s] EXCEPT !.review = status].id = rows[s].id
  BY <1>1 DEF Row, NoRow
<1> QED BY <1>1, <1>2, RowIsNoNoRow

LEMMA NextCoverage == Coverage /\ [Next]_vars => Coverage'
<1> SUFFICES ASSUME Coverage, [Next]_vars PROVE (CursorCovered /\ NoHoles /\ BaseCovered)'
  BY NextTypeInv DEF Coverage
<1> TypeInv
  BY DEF Coverage
<1> USE DEF Coverage, CursorCovered, NoHoles, BaseCovered
<1>1. CASE Quiet
  BY <1>1, IntakeAssumption DEF Quiet, Seqs
<1>2. CASE Reviewed
  BY <1>2, ReviewKeeps DEF Reviewed
<1>3. CASE Batched
  <2>1. PICK p \in Poller : /\ rows' = Stored(p) /\ cursor' = Since(p)
                            /\ base' = [base EXCEPT ![p] = 0]
    BY <1>3 DEF Batched
  <2>2. \A s \in Seqs : rows[s] # NoRow => rows'[s] # NoRow
    BY <2>1, Batch
  <2>3. \A s \in Seqs : s <= Since(p) => rows'[s] # NoRow
    <3> SUFFICES ASSUME NEW s \in Seqs, s <= Since(p) PROVE rows'[s] # NoRow
      OBVIOUS
    <3>1. s > base[p] \/ s <= base[p]
      BY Lengths, IntakeAssumption DEF Seqs
    <3> QED BY <2>1, <2>2, <3>1, Batch
  <2>4. \A s, t \in Seqs : s < t /\ rows'[t] # NoRow => rows'[s] # NoRow
    <3> SUFFICES ASSUME NEW s \in Seqs, NEW t \in Seqs, s < t, rows'[t] # NoRow
                 PROVE  rows'[s] # NoRow
      OBVIOUS
    <3>1. rows[t] # NoRow \/ t \in Fresh(p)
      BY <2>1, Batch
    <3>2. CASE rows[t] # NoRow
      BY <2>2, <3>2
    <3>3. CASE t \in Fresh(p)
      <4>1. s <= Since(p)
        BY <3>3, Lengths, IntakeAssumption DEF Fresh, Seqs
      <4> QED BY <4>1, <2>3
    <3> QED BY <3>1, <3>2, <3>3
  <2>5. \A q \in Poller : base'[q] = base[q] \/ base'[q] = 0
    BY <2>1 DEF TypeInv, DataOK
  <2>6. \A q \in Poller : \A s \in Seqs : s <= base'[q] => rows'[s] # NoRow
    BY <2>2, <2>5, IntakeAssumption DEF Seqs
  <2> QED BY <2>1, <2>3, <2>4, <2>6
<1> QED BY <1>1, <1>2, <1>3, StepKinds

LEMMA InitCoverage == Init => Coverage
  BY InitTypeInv, IntakeAssumption
  DEF Init, Coverage, CursorCovered, NoHoles, BaseCovered, Seqs

\* No message up to the cursor is missing: poll_mailbox writes the
\* cursor it computed from a stale one, and store_mailbox_poll takes it unconditionally.
THEOREM NothingLost == Spec => []CursorCovered
<1>1. Coverage => CursorCovered
  BY DEF Coverage
<1> QED BY <1>1, InitCoverage, NextCoverage, PTL DEF Spec

\* Stored messages have no holes between them, whatever pollers race or die.
THEOREM NoHolesLeft == Spec => []NoHoles
<1>1. Coverage => NoHoles
  BY DEF Coverage
<1> QED BY <1>1, InitCoverage, NextCoverage, PTL DEF Spec

-----------------------------------------------------------------------------
(* Decisions stand.                                                        *)

\* A row changes only by the review of a pending one, whatever polls store.
THEOREM StandingDecisions == Spec => DecisionsStand
<1> DEFINE Stands ==
      \A s \in Seqs : rows[s] # NoRow /\ rows'[s] # rows[s] =>
        /\ rows[s].review = "pending_human_review"
        /\ \E r \in Request, status \in {"approved_for_manual_execution", "rejected"} :
             Review(r, status)
<1>1. TypeInv /\ [Next]_vars => Stands
  <2> SUFFICES ASSUME TypeInv, [Next]_vars, NEW s \in Seqs,
                      rows[s] # NoRow, rows'[s] # rows[s]
               PROVE  /\ rows[s].review = "pending_human_review"
                      /\ \E r \in Request, status \in {"approved_for_manual_execution", "rejected"} :
                           Review(r, status)
    OBVIOUS
  <2>1. CASE Quiet
    BY <2>1 DEF Quiet
  <2>2. CASE Reviewed
    <3>1. PICK t \in Seqs, r \in Request, status \in {"approved_for_manual_execution", "rejected"} :
            /\ rows[t].review = "pending_human_review"
            /\ rows' = [rows EXCEPT ![t].review = status] /\ Review(r, status)
      BY <2>2 DEF Reviewed
    <3>2. s = t
      BY <3>1 DEF TypeInv, DataOK
    <3> QED BY <3>1, <3>2
  <2>3. CASE Batched
    BY <2>3, Batch DEF Batched
  <2> QED BY <2>1, <2>2, <2>3, StepKinds
<1>2. TypeInv /\ [Next]_vars => [Stands]_vars
  BY <1>1
<1> HIDE DEF Stands
<1>3. Spec => [][Stands]_vars
  BY <1>2, AlwaysTypeInv, PTL DEF Spec
<1> QED BY <1>3 DEF Stands, DecisionsStand

-----------------------------------------------------------------------------
(* One review per request id.                                              *)

Live == {"pending_human_review", "approved_for_manual_execution"}

\* A row or an item is about a message: under review it carries that message's request id.
About(row, m) == row.review \in Live => row.id = m /\ row.id \in Request

\* No request id is stored twice: what the unique index guarantees, and Taken computes.
UniqueIds == \A s, t \in Seqs : rows[s].id \in Request /\ rows[s].id = rows[t].id => s = t

RowsFromRoom == \A s \in Seqs : rows[s] # NoRow => s <= Len(room) /\ About(rows[s], room[s])

ItemsFromRoom ==
  \A p \in Poller : \A i \in 1..Len(items[p]) : About(items[p][i], room[base[p] + i])

Identified == TypeInv /\ UniqueIds /\ RowsFromRoom /\ ItemsFromRoom

LEMMA InitIdentified == Init => Identified
  BY InitTypeInv, IntakeAssumption
  DEF Init, Identified, UniqueIds, RowsFromRoom, ItemsFromRoom, NoRow

\* A classified message is about the message it was made from.
LEMMA ClassifyAbout == \A s, on : About(Classify(s, on), room[s])
  BY DEF Classify, About, Live

\* The rows after a batch, for a row of the batch: it carries an id nobody else has.
LEMMA BatchIds ==
  ASSUME Identified, NEW p \in Poller, NEW s \in Seqs, NEW t \in Seqs, s < t,
         Stored(p)[s].id \in Request, Stored(p)[s].id = Stored(p)[t].id
  PROVE  FALSE
<1> USE DEF Identified
<1>1. ASSUME NEW u \in Fresh(p), Stored(p)[u].id \in Request
      PROVE  Stored(p)[u] = Item(p, u) /\ ~Taken(p, u)
  BY <1>1, FreshItems, IntakeAssumption DEF Stored, Duplicate
<1>2. ASSUME NEW u \in Seqs, u \notin Fresh(p) PROVE Stored(p)[u] = rows[u]
  BY <1>2 DEF Stored
<1>3. CASE s \notin Fresh(p) /\ t \notin Fresh(p)
  BY <1>2, <1>3, IntakeAssumption DEF UniqueIds, Seqs
<1>4. CASE s \notin Fresh(p) /\ t \in Fresh(p)
  BY <1>1, <1>2, <1>4, IntakeAssumption DEF Taken
<1>5. CASE s \in Fresh(p) /\ t \notin Fresh(p)
  BY <1>1, <1>2, <1>5, IntakeAssumption DEF Taken
<1>6. CASE s \in Fresh(p) /\ t \in Fresh(p)
  BY <1>1, <1>6, IntakeAssumption DEF Taken
<1> QED BY <1>3, <1>4, <1>5, <1>6

\* The room only grows, and a message stays where it is.
LEMMA RoomGrows ==
  TypeInv /\ [Next]_vars =>
    /\ Len(room') \in Nat /\ Len(room') >= Len(room)
    /\ \A s \in 1..Len(room) : room'[s] = room[s]
<1> SUFFICES ASSUME TypeInv, [Next]_vars
             PROVE  /\ Len(room') \in Nat /\ Len(room') >= Len(room)
                    /\ \A s \in 1..Len(room) : room'[s] = room[s]
  OBVIOUS
<1> USE DEF TypeInv, DataOK, env, db, scan
<1>1. ASSUME NEW m \in Request \union {Junk}, NEW size \in Sizes, Send(m, size)
      PROVE  /\ Len(room') \in Nat /\ Len(room') >= Len(room)
             /\ \A s \in 1..Len(room) : room'[s] = room[s]
  BY <1>1 DEF Send
<1>2. ASSUME NEW p \in Poller, Poll(p) \/ NotFound(p) \/ Fail(p) PROVE UNCHANGED room
  BY <1>2 DEF Poll, ReadCursor, ReadSwitch, Fetch, GiveUp, TimeOut, Oversize, Store, NotFound, Fail,
              Abandon
<1>3. ASSUME \/ \E s \in 1..Len(room) : Expire(s)
             \/ Settle
             \/ \E on \in BOOLEAN : SetActive(on)
             \/ \E r \in Request, status \in {"approved_for_manual_execution", "rejected"} :
                  Review(r, status)
      PROVE  UNCHANGED room
  BY <1>3 DEF Expire, Settle, SetActive, Review
<1>4. UNCHANGED vars => UNCHANGED room
  BY DEF vars
<1>5. Len(room) \in Nat
  OBVIOUS
<1> HIDE DEF TypeInv, DataOK, env, db, scan
<1>6. UNCHANGED room \/ \E m \in Request \union {Junk}, size \in Sizes : Send(m, size)
  BY <1>2, <1>3, <1>4 DEF Next
<1> QED BY <1>1, <1>5, <1>6

LEMMA NextItems == Identified /\ [Next]_vars => ItemsFromRoom'
<1> SUFFICES ASSUME Identified, [Next]_vars, NEW q \in Poller, NEW i \in 1..Len(items'[q])
             PROVE  About(items'[q][i], room'[base'[q] + i])
  BY DEF ItemsFromRoom
<1> USE DEF Identified, TypeInv, DataOK, WithinRoom
<1>1. ASSUME items'[q] = items[q], base'[q] = base[q] \/ items[q] = <<>>
      PROVE  About(items'[q][i], room'[base'[q] + i])
  <2>1. base'[q] = base[q] /\ i \in 1..Len(items[q])
    BY <1>1
  <2>2. About(items[q][i], room[base[q] + i]) /\ base[q] + i \in 1..Len(room)
    <3>1. /\ items[q] \in Seq(Row) /\ Len(items[q]) \in Nat /\ base[q] \in Nat
          /\ Len(room) \in Nat /\ base[q] + Len(items[q]) <= Len(room)
      BY Lengths
    <3> HIDE DEF TypeInv, DataOK, WithinRoom
    <3> QED BY <2>1, <3>1 DEF ItemsFromRoom
  <2> QED BY <1>1, <2>1, <2>2, RoomGrows DEF About
<1>2. ASSUME NEW p \in Poller, Fetch(p) PROVE About(items'[q][i], room'[base'[q] + i])
  <2> DEFINE n == PageSize(p)
             page == [j \in 1..n |-> Classify(Since(p) + j, seen[p])]
  <2>1. /\ items' = [items EXCEPT ![p] = items[p] \o page]
        /\ UNCHANGED <<base, room>>
    BY <1>2 DEF Fetch, db, env
  <2>2. n \in Nat
    <3>1. Since(p) \in Nat /\ Len(room) \in Nat /\ Since(p) <= Len(room) /\ PageLimit \in Nat
      BY Lengths, IntakeAssumption
    <3> HIDE DEF Identified, TypeInv
    <3> QED BY <3>1 DEF PageSize
  <2> HIDE DEF n
  <2>3. page \in Seq(Row) /\ Len(page) = n /\ \A j \in 1..n : About(page[j], room[Since(p) + j])
    BY <2>2, ClassifyRow, ClassifyAbout
  <2> HIDE DEF page
  <2>4. CASE q # p
    BY <1>1, <2>1, <2>4
  <2>5. CASE q = p
    <3>1. items'[p] = items[p] \o page
      BY <2>1
    <3>2. /\ items[p] \in Seq(Row) /\ Len(items[p]) \in Nat /\ base[p] \in Nat
          /\ Since(p) = base[p] + Len(items[p])
      BY Lengths
    <3>3. /\ i \in 1..(Len(items[p]) + n)
          /\ items'[p][i] = IF i <= Len(items[p]) THEN items[p][i] ELSE page[i - Len(items[p])]
      <4> HIDE DEF Identified, TypeInv, DataOK, WithinRoom
      <4>1. ASSUME NEW f \in Seq(Row), NEW g \in Seq(Row), NEW k \in 1..Len(f \o g)
            PROVE  /\ k \in 1..(Len(f) + Len(g))
                   /\ (f \o g)[k] = IF k <= Len(f) THEN f[k] ELSE g[k - Len(f)]
        OBVIOUS
      <4>2. i \in 1..Len(items[p] \o page)
        BY <2>5, <3>1
      <4>3. items[p] \in Seq(Row) /\ page \in Seq(Row) /\ Len(page) = n
        BY <2>3, <3>2
      <4> QED BY <3>1, <4>1, <4>2, <4>3
    <3>4. About(items'[p][i], room[base[p] + i])
      <4>1. CASE i <= Len(items[p])
        BY <3>2, <3>3, <4>1, <2>2 DEF ItemsFromRoom
      <4>2. CASE i > Len(items[p])
        <5>1. i - Len(items[p]) \in 1..n /\ Since(p) + (i - Len(items[p])) = base[p] + i
          BY <2>2, <3>2, <3>3, <4>2
        <5> QED BY <2>3, <3>2, <3>3, <4>2, <5>1
      <4> QED BY <3>2, <3>3, <2>2, <4>1, <4>2
    <3> QED BY <2>1, <2>5, <3>4 DEF About
  <2> QED BY <2>4, <2>5
<1>3. ASSUME NEW p \in Poller, Forget(p) PROVE About(items'[q][i], room'[base'[q] + i])
  BY <1>1, <1>3 DEF Forget
<1>4. ASSUME NEW p \in Poller, ReadCursor(p) \/ ReadSwitch(p) \/ NotFound(p)
      PROVE  About(items'[q][i], room'[base'[q] + i])
  BY <1>1, <1>4 DEF ReadCursor, ReadSwitch, NotFound
<1>5. ASSUME UNCHANGED scan PROVE About(items'[q][i], room'[base'[q] + i])
  BY <1>1, <1>5 DEF scan
<1>6. CASE UNCHANGED vars
  BY <1>5, <1>6 DEF vars
<1> QED BY <1>2, <1>3, <1>4, <1>5, <1>6
        DEF Next, Poll, Send, Expire, Settle, SetActive, Review, GiveUp, TimeOut, Oversize, Fail,
            Abandon, Store

LEMMA NextIdentified == Identified /\ [Next]_vars => Identified'
<1> SUFFICES ASSUME Identified, [Next]_vars PROVE UniqueIds' /\ RowsFromRoom'
  BY NextTypeInv, NextItems DEF Identified
<1>0. TypeInv /\ RowsFromRoom /\ UniqueIds
  BY DEF Identified
<1>1. ASSUME NEW s \in Seqs, rows[s] # NoRow
      PROVE  s <= Len(room') /\ room[s] = room'[s]
  BY <1>0, <1>1, RoomGrows, Lengths, IntakeAssumption
  DEF RowsFromRoom, Seqs, TypeInv, DataOK
<1>2. CASE Quiet
  BY <1>0, <1>1, <1>2 DEF Quiet, UniqueIds, RowsFromRoom, About
<1>3. CASE Reviewed
  <2>1. PICK s \in Seqs, status \in {"approved_for_manual_execution", "rejected"} :
          /\ rows[s].review = "pending_human_review"
          /\ rows' = [rows EXCEPT ![s].review = status]
          /\ UNCHANGED room
    BY <1>3 DEF Reviewed
  <2>2. \A t \in Seqs : /\ rows[t] # NoRow <=> rows'[t] # NoRow
                        /\ rows'[t].id = rows[t].id
    BY <1>0, <2>1, ReviewKeeps
  <2>3. \A t \in Seqs : t # s => rows'[t] = rows[t]
    BY <1>0, <2>1 DEF TypeInv, DataOK
  <2>4. rows[s] # NoRow /\ rows[s].id = room[s] /\ rows[s].id \in Request
    BY <1>0, <2>1 DEF RowsFromRoom, About, Live, NoRow
  <2> QED BY <1>0, <1>1, <2>1, <2>2, <2>3, <2>4 DEF UniqueIds, RowsFromRoom, About
<1>4. CASE Batched
  <2>1. PICK p \in Poller : rows' = Stored(p) /\ UNCHANGED room
    BY <1>4 DEF Batched
  <2>2. \A s, t \in Seqs : rows'[s].id \in Request /\ rows'[s].id = rows'[t].id => s = t
    <3> SUFFICES ASSUME NEW s \in Seqs, NEW t \in Seqs,
                        Stored(p)[s].id \in Request, Stored(p)[s].id = Stored(p)[t].id,
                        s # t
                 PROVE  FALSE
      BY <2>1
    <3>1. s < t \/ t < s
      BY IntakeAssumption DEF Seqs
    <3> QED BY <3>1, BatchIds
  <2>3. ASSUME NEW s \in Seqs, Stored(p)[s] # NoRow
        PROVE  s <= Len(room) /\ About(Stored(p)[s], room[s])
    <3>1. CASE s \notin Fresh(p)
      BY <1>0, <2>3, <3>1 DEF Stored, RowsFromRoom
    <3>2. CASE s \in Fresh(p)
      <4>1. /\ s - base[p] \in 1..Len(items[p]) /\ s \in 1..Len(room)
            /\ base[p] \in Nat /\ base[p] + (s - base[p]) = s
        BY <1>0, <3>2, FreshItems, Lengths
      <4>2. About(Item(p, s), room[s])
        BY <4>1 DEF Identified, ItemsFromRoom, Item
      <4>3. About(Duplicate, room[s])
        BY DEF Duplicate, About, Live
      <4>4. Stored(p)[s] = Duplicate \/ Stored(p)[s] = Item(p, s)
        BY <3>2 DEF Stored
      <4> QED BY <4>1, <4>2, <4>3, <4>4, Lengths, <1>0
    <3> QED BY <3>1, <3>2
  <2> QED BY <2>1, <2>2, <2>3 DEF UniqueIds, RowsFromRoom, About
<1> QED BY <1>0, <1>2, <1>3, <1>4, StepKinds

\* Of all messages with one request id, at most one ever reaches human review, whichever
\* pollers store them and however often the sender repeats them.
THEOREM OneReview == Spec => []OneReviewPerRequest
<1>1. Identified => OneReviewPerRequest
  <2> SUFFICES ASSUME Identified, NEW s \in Seqs, NEW t \in Seqs,
                      rows[s].review \in Live, rows[t].review \in Live, room[s] = room[t]
               PROVE  s = t
    BY DEF OneReviewPerRequest, Live
  <2>1. rows[s] # NoRow /\ rows[t] # NoRow
    BY DEF NoRow, Live
  <2> QED BY <2>1 DEF Identified, RowsFromRoom, About, UniqueIds
<1> QED BY <1>1, InitIdentified, NextIdentified, PTL DEF Spec

-----------------------------------------------------------------------------
(* Intake implements the review desk.                                      *)

Answer(p) == IF seen[p] THEN "pending_human_review" ELSE "rejected"

\* All requests of a scan are treated alike, by the switch as the poller read it.
Alike ==
  \A p \in Poller : \A i \in 1..Len(items[p]) :
    items[p][i].id \in Request => items[p][i].review = Answer(p)

DeskInv == Identified /\ Alike

LEMMA NextAlike == DeskInv /\ [Next]_vars => Alike'
<1> SUFFICES ASSUME DeskInv, [Next]_vars, NEW q \in Poller, NEW i \in 1..Len(items'[q]),
                    items'[q][i].id \in Request
             PROVE  items'[q][i].review = Answer(q)'
  BY DEF Alike
<1> USE DEF DeskInv, Identified, TypeInv, DataOK
<1>1. ASSUME items'[q] = items[q], seen'[q] = seen[q] \/ items[q] = <<>>
      PROVE  items'[q][i].review = Answer(q)'
  <2>1. seen'[q] = seen[q] /\ i \in 1..Len(items[q])
    BY <1>1
  <2> QED BY <1>1, <2>1 DEF Alike, Answer
<1>2. ASSUME NEW p \in Poller, Fetch(p) PROVE items'[q][i].review = Answer(q)'
  <2> DEFINE n == PageSize(p)
             page == [j \in 1..n |-> Classify(Since(p) + j, seen[p])]
  <2>1. items' = [items EXCEPT ![p] = items[p] \o page] /\ seen' = seen
    BY <1>2 DEF Fetch
  <2>2. n \in Nat
    <3>1. Since(p) \in Nat /\ Len(room) \in Nat /\ Since(p) <= Len(room) /\ PageLimit \in Nat
      BY Lengths, IntakeAssumption
    <3> HIDE DEF DeskInv, Identified, TypeInv
    <3> QED BY <3>1 DEF PageSize
  <2> HIDE DEF n
  <2>3. page \in Seq(Row) /\ Len(page) = n
    <3> HIDE DEF DeskInv, Identified, TypeInv, DataOK
    <3> QED BY <2>2, ClassifyRow
  <2>4. \A j \in 1..n : page[j].id \in Request => page[j].review = Answer(p)
    BY IntakeAssumption DEF Classify, Answer
  <2> HIDE DEF page
  <2>5. CASE q # p
    BY <1>1, <2>1, <2>5
  <2>6. CASE q = p
    <3>1. items'[p] = items[p] \o page
      BY <2>1
    <3>2. items[p] \in Seq(Row) /\ Len(items[p]) \in Nat
      BY Lengths
    <3>3. /\ i \in 1..(Len(items[p]) + n)
          /\ items'[p][i] = IF i <= Len(items[p]) THEN items[p][i] ELSE page[i - Len(items[p])]
      <4> HIDE DEF DeskInv, Identified, TypeInv, DataOK
      <4>1. ASSUME NEW f \in Seq(Row), NEW g \in Seq(Row), NEW k \in 1..Len(f \o g)
            PROVE  /\ k \in 1..(Len(f) + Len(g))
                   /\ (f \o g)[k] = IF k <= Len(f) THEN f[k] ELSE g[k - Len(f)]
        OBVIOUS
      <4>2. i \in 1..Len(items[p] \o page)
        BY <2>6, <3>1
      <4> QED BY <2>3, <3>1, <3>2, <4>1, <4>2
    <3>4. \A j \in 1..Len(items[p]) :
            items[p][j].id \in Request => items[p][j].review = Answer(p)
      BY DEF Alike
    <3>5. i <= Len(items[p]) => i \in 1..Len(items[p])
      BY <3>2, <3>3
    <3>6. i > Len(items[p]) => i - Len(items[p]) \in 1..n
      BY <2>2, <3>2, <3>3
    <3>7. items'[p][i].id \in Request => items'[p][i].review = Answer(p)
      BY <2>2, <2>4, <3>2, <3>3, <3>4, <3>5, <3>6
    <3> QED BY <2>1, <2>6, <3>7 DEF Answer
  <2> QED BY <2>5, <2>6
<1>3. ASSUME NEW p \in Poller, Forget(p) PROVE items'[q][i].review = Answer(q)'
  <2>1. q # p
    BY <1>3 DEF Forget
  <2>2. items'[q] = items[q] /\ seen'[q] = seen[q]
    <3>1. items' = [items EXCEPT ![p] = <<>>] /\ seen' = [seen EXCEPT ![p] = FALSE]
      BY <1>3 DEF Forget
    <3> QED BY <2>1, <3>1
  <2> QED BY <1>1, <2>2
<1>4. ASSUME NEW p \in Poller, ReadSwitch(p) PROVE items'[q][i].review = Answer(q)'
  <2>1. items[p] = <<>>
    BY <1>4 DEF ReadSwitch, WithinRoom
  <2>2. items' = items /\ seen' = [seen EXCEPT ![p] = active]
    BY <1>4 DEF ReadSwitch
  <2>3. seen'[q] = seen[q] \/ q = p
    BY <2>2
  <2> QED BY <1>1, <2>1, <2>2, <2>3
<1>5. ASSUME NEW p \in Poller, ReadCursor(p) \/ NotFound(p)
      PROVE  items'[q][i].review = Answer(q)'
  BY <1>1, <1>5 DEF ReadCursor, NotFound
<1>6. ASSUME UNCHANGED scan PROVE items'[q][i].review = Answer(q)'
  BY <1>1, <1>6 DEF scan
<1>7. CASE UNCHANGED vars
  BY <1>6, <1>7 DEF vars
<1> QED BY <1>2, <1>3, <1>4, <1>5, <1>6, <1>7
        DEF Next, Poll, Send, Expire, Settle, SetActive, Review, GiveUp, TimeOut, Oversize, Fail,
            Abandon, Store

\* The verdict is the review of the one row that carries the request id.
LEMMA VerdictOf ==
  Identified => \A r \in Request :
    /\ \A s \in Seqs : rows[s].id = r => Verdict[r] = rows[s].review
    /\ (\A s \in Seqs : rows[s].id # r) => Verdict[r] = "none"
<1> SUFFICES ASSUME Identified, NEW r \in Request
             PROVE  /\ \A s \in Seqs : rows[s].id = r => Verdict[r] = rows[s].review
                    /\ (\A s \in Seqs : rows[s].id # r) => Verdict[r] = "none"
  OBVIOUS
<1>1. ASSUME NEW s \in Seqs, rows[s].id = r PROVE Verdict[r] = rows[s].review
  <2>1. RowsOf(r) = {s}
    BY <1>1 DEF RowsOf, Identified, UniqueIds
  <2> QED BY <2>1 DEF Verdict
<1>2. (\A s \in Seqs : rows[s].id # r) => Verdict[r] = "none"
  BY DEF Verdict, RowsOf
<1> QED BY <1>1, <1>2

LEMMA DeskStep == DeskInv /\ DeskInv' /\ [Next]_vars => [Desk!Next]_Verdict
<1> SUFFICES ASSUME DeskInv, DeskInv', [Next]_vars PROVE Desk!Next \/ Verdict' = Verdict
  OBVIOUS
<1>0. /\ Identified /\ TypeInv /\ Identified'
      /\ \A s \in Seqs : rows[s].id \in Request => rows[s] # NoRow
  BY IntakeAssumption DEF DeskInv, Identified, NoRow
<1>1. \A r \in Request :
        /\ \A s \in Seqs : rows[s].id = r => Verdict[r] = rows[s].review
        /\ (\A s \in Seqs : rows[s].id # r) => Verdict[r] = "none"
  BY <1>0, VerdictOf
<1>2. (Identified => \A r \in Request :
         /\ \A s \in Seqs : rows[s].id = r => Verdict[r] = rows[s].review
         /\ (\A s \in Seqs : rows[s].id # r) => Verdict[r] = "none")'
  BY VerdictOf, PTL
<1>3. \A r \in Request :
        /\ \A s \in Seqs : rows'[s].id = r => Verdict'[r] = rows'[s].review
        /\ (\A s \in Seqs : rows'[s].id # r) => Verdict'[r] = "none"
  BY <1>0, <1>2
<1>4. Verdict = [r \in Request |-> Verdict[r]] /\ Verdict' = [r \in Request |-> Verdict'[r]]
  BY DEF Verdict
<1>5. ASSUME NEW r \in Request, NEW s \in Seqs, rows'[s] = rows[s], rows[s].id = r
      PROVE  Verdict'[r] = Verdict[r]
  BY <1>1, <1>3, <1>5
<1>6. CASE Quiet
  BY <1>6 DEF Quiet, Verdict, RowsOf
<1>7. CASE Reviewed
  <2>1. PICK s \in Seqs, r \in Request, status \in {"approved_for_manual_execution", "rejected"} :
          /\ rows[s].id = r /\ rows[s].review = "pending_human_review"
          /\ rows' = [rows EXCEPT ![s].review = status]
    BY <1>7 DEF Reviewed
  <2>2. \A t \in Seqs : rows'[t].id = rows[t].id /\ (t # s => rows'[t] = rows[t])
    BY <1>0, <2>1, ReviewKeeps DEF TypeInv, DataOK
  <2>3. rows'[s].review = status
    BY <1>0, <2>1, RowIsNoNoRow DEF TypeInv, DataOK, Row
  <2>4. Verdict[r] = "pending_human_review" /\ Verdict'[r] = status
    BY <1>1, <1>3, <2>1, <2>2, <2>3
  <2>5. ASSUME NEW q \in Request, q # r PROVE Verdict'[q] = Verdict[q]
    <3>1. CASE \E t \in Seqs : rows[t].id = q
      BY <1>5, <2>1, <2>2, <2>5, <3>1
    <3>2. CASE \A t \in Seqs : rows[t].id # q
      BY <1>1, <1>3, <2>2, <3>2
    <3> QED BY <3>1, <3>2
  <2>6. Verdict' = [Verdict EXCEPT ![r] = status]
    BY <1>4, <2>4, <2>5
  <2> QED BY <2>4, <2>6 DEF Desk!Next, Desk!Decide, Desk!Decisions
<1>8. CASE Batched
  <2>1. PICK p \in Poller : rows' = Stored(p)
    BY <1>8 DEF Batched
  <2> DEFINE batch == {r \in Request : \E s \in Fresh(p) : Stored(p)[s].id = r}
  <2>2. ASSUME NEW r \in batch PROVE Verdict[r] = "none" /\ Verdict'[r] = Answer(p)
    <3>1. PICK s \in Fresh(p) : Stored(p)[s].id = r
      OBVIOUS
    <3>2. Stored(p)[s] = Item(p, s) /\ ~Taken(p, s)
      BY <3>1, <1>0, FreshItems, IntakeAssumption DEF Stored, Duplicate
    <3>3. \A t \in Seqs : rows[t].id # r
      BY <3>1, <3>2, IntakeAssumption DEF Taken
    <3>4. s - base[p] \in 1..Len(items[p]) /\ s \in Seqs
      BY <1>0, FreshItems
    <3>5. Item(p, s).review = Answer(p)
      BY <3>1, <3>2, <3>4 DEF DeskInv, Alike, Item
    <3> QED BY <1>1, <1>3, <2>1, <3>1, <3>2, <3>3, <3>4, <3>5
  <2>3. ASSUME NEW r \in Request, r \notin batch PROVE Verdict'[r] = Verdict[r]
    <3>1. CASE \E t \in Seqs : rows[t].id = r
      <4>1. PICK t \in Seqs : rows[t].id = r
        BY <3>1
      <4>2. rows'[t] = rows[t]
        BY <1>0, <2>1, <4>1, Batch
      <4> QED BY <1>5, <4>1, <4>2
    <3>2. CASE \A t \in Seqs : rows[t].id # r
      <4>1. \A t \in Seqs : rows'[t].id # r
        BY <2>1, <2>3, <3>2 DEF Stored
      <4> QED BY <1>1, <1>3, <3>2, <4>1
    <3> QED BY <3>1, <3>2
  <2>4. Verdict' = [r \in Request |-> IF r \in batch THEN Answer(p) ELSE Verdict[r]]
    BY <1>4, <2>2, <2>3
  <2>5. Answer(p) \in {"pending_human_review", "rejected"} /\ batch \in SUBSET Request
    BY DEF Answer
  <2> HIDE DEF batch
  <2>7. batch = {} => Verdict' = Verdict
    BY <1>4, <2>4
  <2>6. Desk!TakeIn(batch, Answer(p))
    BY <2>2, <2>4 DEF Desk!TakeIn
  <2> QED BY <2>5, <2>6, <2>7 DEF Desk!Next
<1> QED BY <1>0, <1>6, <1>7, <1>8, StepKinds

\* Whatever pollers race, repeat or die, each request id is taken in at most once, a batch of
\* them by one answer, and only a review of what waits changes the verdict (store_mailbox_poll
\* and _set_review_status).
THEOREM IntakeImplementsDesk == Spec => ReviewContract
<1>1. Init => DeskInv /\ Desk!Init
  <2>1. Init => DeskInv
    BY InitIdentified DEF Init, DeskInv, Alike
  <2>2. Init => Desk!Init
    BY IntakeAssumption DEF Init, Desk!Init, Verdict, RowsOf, NoRow
  <2> QED BY <2>1, <2>2
<1>2. DeskInv /\ [Next]_vars => DeskInv'
  BY NextIdentified, NextAlike DEF DeskInv
<1> QED BY <1>1, <1>2, DeskStep, PTL DEF Spec, ReviewContract, Desk!Spec

-----------------------------------------------------------------------------
(* How far a poll gets: what EventuallyStored rests on.                    *)

\* A scan that goes on has met full pages only.
FullPages == \A p \in Poller :
  /\ pc[p] = "scan" => Len(items[p]) = pages[p] * PageLimit
  /\ pc[p] \in {"idle", "switch"} => pages[p] = 0

\* The bytes of a longer part of the room are no fewer.
Growing == \A i, j \in 1..Len(volume) : i <= j => volume[i] <= volume[j]

ScanInv == TypeInv /\ FullPages /\ Growing

\* What a page adds to a scan.
LEMMA PageAdded ==
  ASSUME TypeInv, NEW p \in Poller, Fetch(p)
  PROVE  /\ PageSize(p) \in Nat /\ PageSize(p) <= PageLimit
         /\ PageSize(p) < PageLimit => PageSize(p) = Len(room) - Since(p)
         /\ Len(items'[p]) = Len(items[p]) + PageSize(p)
         /\ \A q \in Poller \ {p} : items'[q] = items[q]
<1> DEFINE page == [i \in 1..PageSize(p) |-> Classify(Since(p) + i, seen[p])]
<1>1. /\ PageSize(p) \in Nat /\ PageSize(p) <= PageLimit
      /\ PageSize(p) < PageLimit => PageSize(p) = Len(room) - Since(p)
  <2>1. /\ Since(p) \in Nat /\ Len(room) \in Nat /\ Since(p) <= Len(room)
        /\ PageLimit \in Nat \ {0}
    BY Lengths, IntakeAssumption
  <2> QED BY <2>1 DEF PageSize
<1>2. page \in Seq(Row) /\ Len(page) = PageSize(p)
  BY <1>1, ClassifyRow
<1>3. items' = [items EXCEPT ![p] = items[p] \o page]
  BY DEF Fetch
<1> HIDE DEF page
<1>4. items'[p] = items[p] \o page /\ \A q \in Poller \ {p} : items'[q] = items[q]
  BY <1>3 DEF TypeInv, DataOK
<1>5. ASSUME NEW f \in Seq(Row), NEW g \in Seq(Row) PROVE Len(f \o g) = Len(f) + Len(g)
  OBVIOUS
<1>6. Len(items'[p]) = Len(items[p]) + PageSize(p)
  BY <1>2, <1>4, <1>5, Lengths
<1> QED BY <1>1, <1>4, <1>6

LEMMA InitScanInv == Init => ScanInv
  BY InitTypeInv DEF Init, ScanInv, FullPages, Growing

\* Only a message sent adds to the bytes of the room, at its end.
LEMMA NextGrowing == TypeInv /\ Growing /\ [Next]_vars => Growing'
<1> SUFFICES ASSUME TypeInv, Growing, [Next]_vars PROVE Growing'
  OBVIOUS
<1> USE DEF env, db, scan
<1>1. ASSUME NEW m \in Request \union {Junk}, NEW size \in Sizes, Send(m, size) PROVE Growing'
  <2> DEFINE n == Len(volume)
             new == Volume(Len(room)) + size
  <2>1. volume \in Seq(Nat) /\ n \in Nat /\ n = Len(room) /\ size \in Nat
    BY IntakeAssumption DEF TypeInv, DataOK
  <2>2. new \in Nat /\ \A i \in 1..n : volume[i] <= new
    <3>1. Volume(Len(room)) \in Nat
      BY <2>1, VolumeIsNat
    <3>2. \A i \in 1..n : n \in 1..n /\ volume[i] <= volume[n] /\ volume[i] \in Nat
      BY <2>1 DEF Growing
    <3>3. n # 0 => Volume(Len(room)) = volume[n]
      BY <2>1 DEF Volume
    <3> QED BY <2>1, <3>1, <3>2, <3>3
  <2>3. volume' = Append(volume, new)
    BY <1>1 DEF Send
  <2> HIDE DEF new
  <2>4. /\ Len(volume') = n + 1 /\ volume'[n + 1] = new
        /\ \A i \in 1..n : volume'[i] = volume[i]
    BY <2>1, <2>2, <2>3
  <2> QED BY <2>1, <2>2, <2>4 DEF Growing
<1>2. ASSUME NEW p \in Poller, Poll(p) \/ NotFound(p) \/ Fail(p) PROVE UNCHANGED volume
  BY <1>2 DEF Poll, ReadCursor, ReadSwitch, Fetch, GiveUp, TimeOut, Oversize, Store, NotFound,
              Fail, Abandon
<1>3. ASSUME \/ \E s \in 1..Len(room) : Expire(s)
             \/ Settle
             \/ \E on \in BOOLEAN : SetActive(on)
             \/ \E r \in Request, status \in {"approved_for_manual_execution", "rejected"} :
                  Review(r, status)
      PROVE  UNCHANGED volume
  BY <1>3 DEF Expire, Settle, SetActive, Review
<1>4. UNCHANGED vars => UNCHANGED volume
  BY DEF vars
<1>5. UNCHANGED volume => Growing'
  BY DEF Growing
<1> QED BY <1>1, <1>2, <1>3, <1>4, <1>5 DEF Next

LEMMA NextScanInv == ScanInv /\ [Next]_vars => ScanInv'
<1> SUFFICES ASSUME ScanInv, [Next]_vars PROVE FullPages'
  BY NextTypeInv, NextGrowing DEF ScanInv
<1> USE DEF ScanInv, TypeInv, DataOK, FullPages, env, db, scan
<1>1. ASSUME \/ \E m \in Request \union {Junk}, size \in Sizes : Send(m, size)
             \/ \E s \in 1..Len(room) : Expire(s)
             \/ Settle \/ \E on \in BOOLEAN : SetActive(on)
             \/ \E r \in Request, status \in {"approved_for_manual_execution", "rejected"} :
                  Review(r, status)
             \/ UNCHANGED vars
      PROVE  FullPages'
  BY <1>1 DEF Send, Expire, Settle, SetActive, Review, vars
<1>2. ASSUME NEW p \in Poller, ReadCursor(p) \/ NotFound(p) PROVE FullPages'
  BY <1>2 DEF ReadCursor, NotFound
<1>3. ASSUME NEW p \in Poller, ReadSwitch(p) PROVE FullPages'
  <2>1. pages[p] = 0 /\ items[p] = <<>>
    BY <1>3 DEF ReadSwitch, WithinRoom
  <2>2. Len(items[p]) = pages[p] * PageLimit
    BY <2>1, IntakeAssumption
  <2> QED BY <1>3, <2>2 DEF ReadSwitch
<1>4. ASSUME NEW p \in Poller, Fetch(p) PROVE FullPages'
  <2> HIDE DEF ScanInv
  <2>1. /\ PageSize(p) \in Nat /\ PageSize(p) <= PageLimit
        /\ Len(items'[p]) = Len(items[p]) + PageSize(p)
        /\ \A q \in Poller \ {p} : items'[q] = items[q]
    BY <1>4, PageAdded DEF ScanInv
  <2>2. /\ pc'[p] \in {"scan", "store"} /\ (pc'[p] = "scan" => ~(PageSize(p) < PageLimit))
        /\ pages[p] \in Nat /\ pages'[p] = pages[p] + 1
        /\ Len(items[p]) = pages[p] * PageLimit
        /\ \A q \in Poller \ {p} : pc'[q] = pc[q] /\ pages'[q] = pages[q]
    BY <1>4, IntakeAssumption DEF Fetch, ScanInv
  <2>3. pc'[p] = "scan" => PageSize(p) = PageLimit
    BY <2>1, <2>2, IntakeAssumption
  <2>4. (pages[p] + 1) * PageLimit = pages[p] * PageLimit + PageLimit
    BY <2>2, IntakeAssumption
  <2>5. pc'[p] = "scan" => Len(items'[p]) = pages'[p] * PageLimit
    BY <2>1, <2>2, <2>3, <2>4
  <2>6. ASSUME NEW q \in Poller
        PROVE  /\ pc'[q] = "scan" => Len(items'[q]) = pages'[q] * PageLimit
               /\ pc'[q] \in {"idle", "switch"} => pages'[q] = 0
    BY <2>1, <2>2, <2>5 DEF ScanInv
  <2> QED BY <2>6
<1>5. ASSUME NEW p \in Poller, Forget(p) PROVE FullPages'
  BY <1>5 DEF Forget
<1> QED BY <1>1, <1>2, <1>3, <1>4, <1>5
        DEF Next, Poll, GiveUp, TimeOut, Oversize, Fail, Abandon, Store

\* While Technocore answers, a poll throws its scan away only if the end of the room is out of its
\* reach, in pages, in time or in bytes, and one that completes its scan has seen the whole room.
PollsReach ==
  [][\A p \in Poller :
       /\ steady /\ pc[p] = "scan" /\ pc'[p] = "idle" => ~Reachable(base[p])
       /\ Fetch(p) /\ pc'[p] = "store" => base[p] + Len(items'[p]) = Len(room)]_vars

\* A scan that has met as many pages as are sure to come cannot have the room's end within reach.
LEMMA ManyPages ==
  ASSUME ScanInv, NEW p \in Poller, pc[p] = "scan", pages[p] >= Reach
  PROVE  ~Reachable(base[p])
<1>1. /\ base[p] \in Nat /\ Len(items[p]) \in Nat /\ Len(room) \in Nat
      /\ base[p] + Len(items[p]) <= Len(room)
  BY Lengths DEF ScanInv
<1>2. Len(items[p]) = pages[p] * PageLimit /\ pages[p] \in Nat
  BY IntakeAssumption DEF ScanInv, FullPages, TypeInv, DataOK
<1>3. Reach \in Nat /\ PageLimit \in Nat
  BY IntakeAssumption DEF Reach
<1>4. \A a, b, c \in Nat : a >= b => a * c >= b * c
  OBVIOUS
<1>5. pages[p] * PageLimit >= Reach * PageLimit /\ Reach * PageLimit \in Nat
  BY <1>2, <1>3, <1>4
<1>6. ~(Len(room) - base[p] < Reach * PageLimit)
  BY <1>1, <1>2, <1>5
<1> QED BY <1>6 DEF Reachable

\* A page over the budget is one of the room's, so the whole room is.
LEMMA ManyBytes ==
  ASSUME ScanInv, NEW p \in Poller, OverBudget(p)
  PROVE  ~Reachable(base[p])
<1> DEFINE to == Since(p) + PageSize(p)
           n == Len(room)
<1>1. /\ Since(p) \in Nat /\ n \in Nat /\ Since(p) <= n /\ PageLimit \in Nat /\ base[p] \in Nat
      /\ base[p] <= n
  BY Lengths, IntakeAssumption DEF ScanInv
<1>2. to \in 0..n
  BY <1>1 DEF PageSize
<1>3. Volume(to) \in Nat /\ Volume(n) \in Nat /\ Volume(base[p]) \in Nat
  BY <1>1, <1>2, VolumeIsNat DEF ScanInv
<1>4. Volume(to) <= Volume(n)
  <2>1. to = 0 => Volume(to) = 0
    BY DEF Volume
  <2>2. to # 0 => volume[to] <= volume[n] /\ n # 0
    <3>1. Len(volume) = n
      BY DEF ScanInv, TypeInv, DataOK
    <3> HIDE DEF to
    <3> QED BY <1>1, <1>2, <3>1 DEF ScanInv, Growing
  <2> QED BY <1>3, <2>1, <2>2 DEF Volume
<1>5. Volume(to) - Volume(base[p]) > MaxBytes
  BY DEF OverBudget, BytesRead
<1> HIDE DEF to
<1>6. ~(Volume(n) - Volume(base[p]) <= MaxBytes)
  BY <1>3, <1>4, <1>5, IntakeAssumption
<1> QED BY <1>6 DEF Reachable

\* While Technocore answers, a poll throws its scan away only where the backlog it read is beyond
\* its pages (history_scan_incomplete), its time (mailbox_poll_timeout) or its bytes
\* (oversized_response), and a scan it completes misses no message of the room.
THEOREM ReachOfPolls == Spec => PollsReach
<1> DEFINE Reaches == \A p \in Poller :
             /\ steady /\ pc[p] = "scan" /\ pc'[p] = "idle" => ~Reachable(base[p])
             /\ Fetch(p) /\ pc'[p] = "store" => base[p] + Len(items'[p]) = Len(room)
<1>1. ScanInv /\ [Next]_vars => [Reaches]_vars
  <2> SUFFICES ASSUME ScanInv, Next, NEW p \in Poller
               PROVE  /\ steady /\ pc[p] = "scan" /\ pc'[p] = "idle" => ~Reachable(base[p])
                      /\ Fetch(p) /\ pc'[p] = "store" => base[p] + Len(items'[p]) = Len(room)
    OBVIOUS
  <2>1. /\ Since(p) = base[p] + Len(items[p]) /\ Since(p) \in Nat /\ Since(p) <= Len(room)
        /\ Len(room) \in Nat /\ Len(items[p]) \in Nat /\ base[p] \in Nat
        /\ items[p] \in Seq(Row)
    BY Lengths DEF ScanInv
  <2>2. ASSUME steady, pc[p] = "scan", pc'[p] = "idle" PROVE ~Reachable(base[p])
    <3>1. GiveUp(p) \/ TimeOut(p) \/ Oversize(p)
      <4> USE DEF ScanInv, TypeInv, DataOK
      <4>1. ASSUME NEW q \in Poller, q # p, Poll(q) \/ NotFound(q) \/ Fail(q) PROVE pc'[p] = pc[p]
        BY <4>1 DEF Poll, ReadCursor, ReadSwitch, Fetch, NotFound, GiveUp, TimeOut, Oversize, Fail,
                    Abandon, Store, Forget
      <4>2. ASSUME UNCHANGED scan PROVE FALSE
        BY <2>2, <4>2 DEF scan
      <4>3. ASSUME ReadCursor(p) \/ ReadSwitch(p) \/ Fetch(p) \/ Store(p) \/ NotFound(p)
            PROVE  FALSE
        BY <2>2, <4>3 DEF ReadCursor, ReadSwitch, Fetch, Store, NotFound
      <4>4. ~Fail(p)
        BY <2>2 DEF Fail
      <4>5. \E q \in Poller : Poll(q) \/ NotFound(q) \/ Fail(q)
        BY <4>2 DEF Next, Send, Expire, Settle, SetActive, Review
      <4>6. Poll(p) \/ NotFound(p) \/ Fail(p)
        BY <2>2, <4>1, <4>5
      <4> QED BY <4>3, <4>4, <4>6 DEF Poll
    <3>2. CASE GiveUp(p) \/ TimeOut(p)
      <4>1. pages[p] >= Reach
        BY <3>2, IntakeAssumption DEF GiveUp, TimeOut, Reach, ScanInv, TypeInv, DataOK
      <4> QED BY <2>2, <4>1, ManyPages
    <3>3. CASE Oversize(p)
      BY <3>3, ManyBytes DEF Oversize
    <3> QED BY <3>1, <3>2, <3>3
  <2>3. ASSUME Fetch(p), pc'[p] = "store" PROVE base[p] + Len(items'[p]) = Len(room)
    <3>1. PageSize(p) < PageLimit
      BY <2>3 DEF Fetch, ScanInv, TypeInv, DataOK
    <3>2. PageSize(p) = Len(room) - Since(p) /\ Len(items'[p]) = Len(items[p]) + PageSize(p)
      BY <2>3, <3>1, PageAdded DEF ScanInv
    <3> QED BY <2>1, <3>2
  <2> QED BY <2>2, <2>3
<1> QED BY <1>1, InitScanInv, NextScanInv, PTL DEF Spec, PollsReach
=============================================================================
