--------------------------- MODULE MailboxIntake ---------------------------
(***************************************************************************)
(* Mailbox intake: poll_mailbox (mailbox.py) run by any number of          *)
(* processes, store_mailbox_poll (state.py), the intake switch and the     *)
(* human review of a request.                                              *)
(*                                                                         *)
(* A poll reads the cursor and the switch once, then fetches pages from    *)
(* Technocore, and commits everything it classified, with the new cursor,  *)
(* in one transaction at the end.  Between those points other pollers, the *)
(* operator and the senders go on.                                         *)
(*                                                                         *)
(* A message is the request id of its signed envelope, or Junk for any     *)
(* text classify_mailbox_message rejects.  Message ids are derived from    *)
(* the sequence number, so a row is identified by it.  How many bytes a    *)
(* message takes in a page is kept beside the room, since a poll stops     *)
(* reading at a number of bytes.                                           *)
(***************************************************************************)
EXTENDS Integers, Sequences

CONSTANTS
  Poller,     \* processes that poll: the worker, `mailbox poll --network'
  Request,    \* request ids senders use
  Junk,       \* a message that is no valid request
  NoId,       \* a NULL request_id
  PageLimit,  \* messages per page (200)
  MaxPages,   \* pages per poll (10); max_items is their product
  MaxBytes,   \* bytes per poll (1,000,000)
  InTime,     \* pages that a steady Technocore answers, at least, within the 20 s of a poll
  Sizes,      \* bytes a message may take
  MaxSeq      \* bound: messages in the room

ASSUME IntakeAssumption ==
  /\ Junk \notin Request /\ NoId \notin Request
  /\ PageLimit \in Nat \ {0} /\ MaxPages \in Nat \ {0}
  /\ MaxBytes \in Nat /\ InTime \in Nat \ {0} /\ Sizes \subseteq Nat
  /\ MaxSeq \in Nat

VARIABLES
  room,     \* the append-only Technocore room mb-flop-bench
  volume,   \* volume[s]: the bytes of its messages up to s
  steady,   \* from here on Technocore answers, as fast as InTime says, and no poller dies
  expired,  \* messages past the expires_at of their envelope
  active,   \* mailbox_intake_activation
  cursor,   \* metadata mailbox:mb-flop-bench:cursor
  rows,     \* mailbox_messages by seq
  pc,       \* each poller: "idle", "switch", "scan", "store"
  seen,     \* the switch as the poller read it
  base,     \* the cursor as the poller read it
  pages,    \* pages it has fetched
  items     \* what it classified, items[p][i] being message base[p] + i

db   == <<active, cursor, rows>>
scan == <<pc, seen, base, pages, items>>
env  == <<steady, expired>>
vars == <<room, volume, env, db, scan>>

Seqs == 1..MaxSeq

Row == [class : {"valid_request", "intake_inactive", "duplicate_request_id", "rejected"},
        id    : Request \union {NoId},
        review: {"pending_human_review", "approved_for_manual_execution", "rejected"}]

NoRow == [class |-> "none", id |-> NoId, review |-> "none"]

Init ==
  /\ room = <<>> /\ volume = <<>>
  /\ steady = FALSE
  /\ expired = {}
  /\ active = FALSE
  /\ cursor = 0
  /\ rows = [s \in Seqs |-> NoRow]
  /\ pc = [p \in Poller |-> "idle"]
  /\ seen = [p \in Poller |-> FALSE]
  /\ base = [p \in Poller |-> 0]
  /\ pages = [p \in Poller |-> 0]
  /\ items = [p \in Poller |-> <<>>]

-----------------------------------------------------------------------------
(* Senders and time.                                                       *)

\* The bytes of the first n messages.
Volume(n) == IF n = 0 THEN 0 ELSE volume[n]

Send(m, size) ==
  /\ Len(room) < MaxSeq
  /\ room' = Append(room, m)
  /\ volume' = Append(volume, Volume(Len(room)) + size)
  /\ UNCHANGED <<env, db, scan>>

Expire(s) ==
  /\ room[s] \in Request
  /\ expired' = expired \union {s}
  /\ UNCHANGED <<room, volume, steady, db, scan>>

Settle ==
  /\ steady' = TRUE
  /\ UNCHANGED <<room, volume, expired, db, scan>>

-----------------------------------------------------------------------------
(* Operator commands.                                                      *)

SetActive(on) ==
  /\ active' = on
  /\ UNCHANGED <<room, volume, env, cursor, rows, scan>>

\* One UPDATE: request_id matches and the row is still pending.
Review(r, status) ==
  \E s \in Seqs :
    /\ rows[s].id = r
    /\ rows[s].review = "pending_human_review"
    /\ rows' = [rows EXCEPT ![s].review = status]
    /\ UNCHANGED <<room, volume, env, active, cursor, scan>>

-----------------------------------------------------------------------------
(* Classification.                                                         *)

\* An inactive intake keeps the request id of what it turns away.
Classify(s, on) ==
  IF room[s] \in Request /\ s \notin expired
  THEN [class  |-> IF on THEN "valid_request" ELSE "intake_inactive",
        id     |-> room[s],
        review |-> IF on THEN "pending_human_review" ELSE "rejected"]
  ELSE [class |-> "rejected", id |-> NoId, review |-> "rejected"]

Duplicate == [class |-> "duplicate_request_id", id |-> NoId, review |-> "rejected"]

-----------------------------------------------------------------------------
(* One poll.                                                               *)

\* Fault: the saved cursor is ignored and every poll starts at the first message.
ReadCursorFromStart(p) ==
  /\ pc[p] = "idle"
  /\ pc' = [pc EXCEPT ![p] = "switch"]
  /\ UNCHANGED <<room, volume, env, db, seen, base, pages, items>>

\* The cursor and the switch are read in two transactions.
ReadCursor(p) ==
  /\ pc[p] = "idle"
  /\ pc' = [pc EXCEPT ![p] = "switch"]
  /\ base' = [base EXCEPT ![p] = cursor]
  /\ UNCHANGED <<room, volume, env, db, seen, pages, items>>

ReadSwitch(p) ==
  /\ pc[p] = "switch"
  /\ pc' = [pc EXCEPT ![p] = "scan"]
  /\ seen' = [seen EXCEPT ![p] = active]
  /\ UNCHANGED <<room, volume, env, db, base, pages, items>>

Since(p) == base[p] + Len(items[p])

\* How many messages the next page holds.
PageSize(p) ==
  IF Since(p) + PageLimit <= Len(room) THEN PageLimit ELSE Len(room) - Since(p)

\* What the scan has read once it has the first n messages: it started after message base.
BytesRead(p, n) == Volume(n) - Volume(base[p])

OverBudget(p) == BytesRead(p, Since(p) + PageSize(p)) > MaxBytes

\* GET ...&since=: a short page completes the scan.
Fetch(p) ==
  /\ pc[p] = "scan"
  /\ pages[p] < MaxPages
  /\ ~OverBudget(p)
  /\ items' = [items EXCEPT ![p] =
                 @ \o [i \in 1..PageSize(p) |-> Classify(Since(p) + i, seen[p])]]
  /\ pages' = [pages EXCEPT ![p] = @ + 1]
  /\ pc' = [pc EXCEPT ![p] = IF PageSize(p) < PageLimit THEN "store" ELSE "scan"]
  /\ UNCHANGED <<room, volume, env, db, seen, base>>

\* 404 means an unused room and completes the scan with what it has.
NotFound(p) ==
  /\ ~steady
  /\ pc[p] = "scan"
  /\ pages[p] < MaxPages
  /\ pc' = [pc EXCEPT ![p] = "store"]
  /\ UNCHANGED <<room, volume, env, db, seen, base, pages, items>>

Forget(p) ==
  /\ pc' = [pc EXCEPT ![p] = "idle"]
  /\ seen' = [seen EXCEPT ![p] = FALSE]
  /\ base' = [base EXCEPT ![p] = 0]
  /\ pages' = [pages EXCEPT ![p] = 0]
  /\ items' = [items EXCEPT ![p] = <<>>]

\* Fault: an incomplete scan saves how far it got.
AbandonSavingCursor(p) ==
  /\ cursor' = Since(p)
  /\ Forget(p)
  /\ UNCHANGED <<room, volume, env, active, rows>>

\* An incomplete scan stores nothing.
Abandon(p) ==
  /\ Forget(p)
  /\ UNCHANGED <<room, volume, env, db>>

\* history_scan_incomplete: the page budget is spent.
GiveUp(p) ==
  /\ pc[p] = "scan"
  /\ pages[p] = MaxPages
  /\ Abandon(p)

\* mailbox_poll_timeout: checked before each page.  A steady Technocore answers InTime pages
\* in time and may answer more; before it is steady, Fail stands for this.
TimeOut(p) ==
  /\ pc[p] = "scan"
  /\ pages[p] < MaxPages
  /\ steady /\ pages[p] >= InTime
  /\ Abandon(p)

\* oversized_response: the page is read, and the scan with it thrown away.
Oversize(p) ==
  /\ pc[p] = "scan"
  /\ pages[p] < MaxPages
  /\ OverBudget(p)
  /\ Abandon(p)

\* A transport error, a bad response, a timeout, or the process dies.
Fail(p) ==
  /\ ~steady
  /\ pc[p] # "idle"
  /\ Abandon(p)

Item(p, s) == items[p][s - base[p]]

\* Fault: INSERT OR REPLACE.
FreshReplacing(p) == {s \in Seqs : s > base[p] /\ s <= Since(p)}

\* Fault: rejected messages are not kept.
FreshValidOnly(p) ==
  {s \in Seqs : /\ s > base[p] /\ s <= Since(p) /\ rows[s] = NoRow
                /\ Item(p, s).class # "rejected"}

\* What the batch inserts: message_id is unique, so known messages stay as they are.
Fresh(p) == {s \in Seqs : s > base[p] /\ s <= Since(p) /\ rows[s] = NoRow}

\* Fault: the check for a taken request id looks at the rows before the batch only.
TakenBefore(p, s) ==
  /\ Item(p, s).id # NoId
  /\ \E t \in Seqs : rows[t].id = Item(p, s).id

\* The unique index on request_id: an earlier row has the id, or an earlier message of
\* this very batch does.
Taken(p, s) ==
  /\ Item(p, s).id # NoId
  /\ \/ \E t \in Seqs : rows[t].id = Item(p, s).id
     \/ \E t \in Fresh(p) : t < s /\ Item(p, t).id = Item(p, s).id

\* The rows after the batch: a taken request_id is stored as a rejected duplicate without it.
Stored(p) ==
  [s \in Seqs |-> IF s \notin Fresh(p) THEN rows[s]
                  ELSE IF Taken(p, s) THEN Duplicate ELSE Item(p, s)]

NewCursor(p) == Since(p)

\* store_mailbox_poll: rows and cursor in one transaction, the cursor unconditionally.
Store(p) ==
  /\ pc[p] = "store"
  /\ rows' = Stored(p)
  /\ cursor' = NewCursor(p)
  /\ Forget(p)
  /\ UNCHANGED <<room, volume, env, active>>

-----------------------------------------------------------------------------
Poll(p) == \/ ReadCursor(p) \/ ReadSwitch(p) \/ Fetch(p) \/ Store(p)
           \/ GiveUp(p) \/ TimeOut(p) \/ Oversize(p)

Next ==
  \/ \E m \in Request \union {Junk}, size \in Sizes : Send(m, size)
  \/ \E s \in 1..Len(room) : Expire(s)
  \/ Settle
  \/ \E on \in BOOLEAN : SetActive(on)
  \/ \E r \in Request, status \in {"approved_for_manual_execution", "rejected"} :
       Review(r, status)
  \/ \E p \in Poller : Poll(p) \/ NotFound(p) \/ Fail(p)

Fairness == \A p \in Poller : WF_vars(Poll(p))

Spec == Init /\ [][Next]_vars
FairSpec == Spec /\ Fairness

-----------------------------------------------------------------------------
(* Properties.                                                             *)

\* Every variable has its type.
TypeOK ==
  /\ room \in Seq(Request \union {Junk}) /\ Len(room) <= MaxSeq
  /\ volume \in Seq(Nat) /\ Len(volume) = Len(room)
  /\ expired \subseteq Seqs
  /\ steady \in BOOLEAN /\ active \in BOOLEAN /\ seen \in [Poller -> BOOLEAN]
  /\ cursor \in 0..MaxSeq /\ base \in [Poller -> 0..MaxSeq]
  /\ rows \in [Seqs -> Row \union {NoRow}]
  /\ pc \in [Poller -> {"idle", "switch", "scan", "store"}]
  /\ pages \in [Poller -> 0..MaxPages]
  /\ items \in [Poller -> Seq(Row)]

\* No message is lost: whatever pollers race, fail or write stale cursors, every message up
\* to the cursor is stored, so the next poll starts before the first missing one.
CursorCovered == \A s \in Seqs : s <= cursor => rows[s] # NoRow

\* Messages are stored in room order, without holes.
NoHoles == \A s, t \in Seqs : s < t /\ rows[t] # NoRow => rows[s] # NoRow

\* Of all messages that carry one request id, at most one ever reaches human review, however
\* often the sender repeats it and whichever poller stores it.
OneReviewPerRequest ==
  \A s, t \in Seqs :
    /\ rows[s].review \in {"pending_human_review", "approved_for_manual_execution"}
    /\ rows[t].review \in {"pending_human_review", "approved_for_manual_execution"}
    /\ room[s] = room[t]
    => s = t

\* A stored row only ever changes by a review of a pending one: a later or repeated poll
\* neither reopens a decision nor rewrites a message.
DecisionsStand ==
  [][\A s \in Seqs : rows[s] # NoRow /\ rows'[s] # rows[s] =>
       /\ rows[s].review = "pending_human_review"
       /\ \E r \in Request, status \in {"approved_for_manual_execution", "rejected"} :
            Review(r, status)]_vars

\* The verdict on a request id is the review of the row that carries it.
RowsOf(r) == {s \in Seqs : rows[s].id = r}

Verdict ==
  [r \in Request |-> IF RowsOf(r) = {} THEN "none" ELSE rows[CHOOSE s \in RowsOf(r) : TRUE].review]

Desk == INSTANCE ReviewDesk WITH verdict <- Verdict

\* Intake implements the review desk: whatever pollers race, repeat or die while the operator
\* switches and reviews, each request id gets one verdict, a batch's new ones all the same, and
\* only a review changes it.
ReviewContract == Desk!Spec

\* A poll that starts after message n reaches the end of the room only if that is less than
\* all its pages away, those it may ask for and those that come in time, and its bytes are
\* within the budget.
Reach == IF InTime < MaxPages THEN InTime ELSE MaxPages
Reachable(n) == /\ Len(room) - n < Reach * PageLimit
                /\ Volume(Len(room)) - Volume(n) <= MaxBytes
WithinReach == Reachable(cursor)

\* Every message is stored in the end if polling goes on, the remote side eventually answers,
\* and the backlog stays within one poll's reach in pages, time and bytes.  (Beyond it every
\* poll gives up at the same page: poll_mailbox keeps nothing of an incomplete scan.)
EventuallyStored ==
  <>steady /\ []WithinReach
  => \A s \in Seqs : s <= Len(room) ~> rows[s] # NoRow
=============================================================================
