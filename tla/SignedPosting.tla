--------------------------- MODULE SignedPosting ---------------------------
(***************************************************************************)
(* Signed posts to the room d-flop-bench: send_post and reconcile_post     *)
(* (posting.py), each run by any number of processes, their audit rows in  *)
(* post_attempts (state.py), and Technocore's room, which accepts, refuses *)
(* or loses what is sent to it, early or late.                             *)
(*                                                                         *)
(* One attempt is one run of `post send'.  A message of the room is the    *)
(* attempt that posted it: it carries text[a] and the nonce of a, and its  *)
(* seq is its position among Bench's messages.                             *)
(*                                                                         *)
(* A history scan reads page after page of an append-only room from its    *)
(* start, so a complete one has seen what was visible at its last page and *)
(* is one step here; an incomplete one has seen some prefix of it.  An     *)
(* accepted message may become visible later than it is acknowledged.      *)
(***************************************************************************)
EXTENDS Integers, Sequences, Functions

CONSTANTS
  Attempt,     \* runs of `post send', and their audit rows
  Reconciler,  \* processes running `post reconcile'
  Text,        \* texts sent
  Null,        \* SQL NULL, and no attempt
  MaxNonce     \* bound: the latest time at which a nonce is taken

ASSUME PostingAssumption == Null \notin Attempt \union Nat /\ MaxNonce \in Nat

VARIABLES
  text,       \* the message file of each attempt
  room,       \* Bench's messages in d-flop-bench
  visible,    \* how many of them a read returns
  wire,       \* requests on their way to Technocore's handler
  row,        \* post_attempts
  lastNonce,  \* metadata last_post_nonce
  pc,         \* each send: "start", "preflight", "owner", "send", "wait", "done"
  nonce,      \* the nonce a send holds
  saw,        \* history: how much of the room a send's preflight searched
  target,     \* each reconcile: the attempt it works on
  copy,       \* the row as it read it
  found       \* what its scan found

remote  == <<room, visible, wire>>
sends   == <<pc, nonce, saw>>
reviews == <<target, copy, found>>
vars    == <<text, remote, row, lastNonce, sends, reviews>>

Strong == {"posted", "already-posted", "reconciled_posted"}

\* The other statuses of a row; "none" is no row yet.
Weak == {"started", "failed_preflight", "failed_pre_transmission", "unknown_outcome",
         "confirmed_rejected", "failed", "reconciled_absent"}

Entry(status, n, seq) == [status |-> status, nonce |-> n, seq |-> seq]
NoEntry == Entry("none", Null, Null)

Unseen == [status |-> "none", seq |-> Null]

Init ==
  /\ text \in [Attempt -> Text]
  /\ room = <<>>
  /\ visible = 0
  /\ wire = {}
  /\ row = [a \in Attempt |-> NoEntry]
  /\ lastNonce = 0
  /\ pc = [a \in Attempt |-> "start"]
  /\ nonce = [a \in Attempt |-> Null]
  /\ saw = [a \in Attempt |-> 0]
  /\ target = [r \in Reconciler |-> Null]
  /\ copy = [r \in Reconciler |-> NoEntry]
  /\ found = [r \in Reconciler |-> Unseen]

-----------------------------------------------------------------------------
(* Technocore.                                                             *)

Accept(a) ==
  /\ a \in wire
  /\ room' = Append(room, a)
  /\ wire' = wire \ {a}
  /\ UNCHANGED <<text, visible, row, lastNonce, sends, reviews>>

Refuse(a) ==
  /\ a \in wire
  /\ wire' = wire \ {a}
  /\ UNCHANGED <<text, room, visible, row, lastNonce, sends, reviews>>

\* What was accepted shows up in order.
Show ==
  /\ visible < Len(room)
  /\ visible' = visible + 1
  /\ UNCHANGED <<text, room, wire, row, lastNonce, sends, reviews>>

\* Positions of the first n messages that have the text of a: did and hash match.
Matches(a, n) == {i \in 1..n : text[room[i]] = text[a]}

First(S) == CHOOSE i \in S : \A j \in S : i <= j

-----------------------------------------------------------------------------
(* post send.                                                              *)

\* The audit row is there before the first request.
Start(a) ==
  /\ pc[a] = "start"
  /\ row' = [row EXCEPT ![a] = Entry("started", Null, Null)]
  /\ pc' = [pc EXCEPT ![a] = "preflight"]
  /\ UNCHANGED <<text, remote, lastNonce, nonce, saw, reviews>>

\* A send ends with one write of its row, whatever the row holds by then.
Finish(a, status, n, seq) ==
  /\ row' = [row EXCEPT ![a] = Entry(status, n, seq)]
  /\ pc' = [pc EXCEPT ![a] = "done"]
  /\ UNCHANGED <<text, lastNonce, nonce, saw, reviews>>

\* Fault: an incomplete scan counts as absence.
SearchedSome(a, n) == n <= visible /\ Matches(a, n) = {}

\* Absence is claimed by a complete scan only.
Searched(a, n) == n = visible /\ Matches(a, n) = {}

PreflightAbsent(a) ==
  \E n \in 0..visible :
    /\ pc[a] = "preflight"
    /\ Searched(a, n)
    /\ pc' = [pc EXCEPT ![a] = "owner"]
    /\ saw' = [saw EXCEPT ![a] = visible]
    /\ UNCHANGED <<text, remote, row, lastNonce, nonce, reviews>>

AlreadyPosted(a) ==
  /\ pc[a] = "preflight"
  /\ Matches(a, visible) # {}
  /\ Finish(a, "already-posted", Null, First(Matches(a, visible)))
  /\ UNCHANGED remote

\* The scan is incomplete, the owner note cannot be read or names somebody else.
PreflightFails(a) ==
  /\ pc[a] \in {"preflight", "owner"}
  /\ Finish(a, "failed_preflight", Null, Null)
  /\ UNCHANGED remote

\* Fault: a nonce of this very millisecond is taken again.
NextNonceOfNow(n) == n >= lastNonce /\ n > 0

\* max(now, previous + 1), the clock being anything.
NextNonce(n) == n >= lastNonce + 1

\* next_post_nonce, in one immediate transaction.
TakeNonce(a) ==
  \E n \in 1..MaxNonce :
    /\ pc[a] = "owner"
    /\ NextNonce(n)
    /\ lastNonce' = n
    /\ nonce' = [nonce EXCEPT ![a] = n]
    /\ pc' = [pc EXCEPT ![a] = "send"]
    /\ UNCHANGED <<text, remote, row, saw, reviews>>

SigningFails(a) ==
  /\ pc[a] = "send"
  /\ Finish(a, "failed", nonce[a], Null)
  /\ UNCHANGED remote

Transmit(a) ==
  /\ pc[a] = "send"
  /\ wire' = wire \union {a}
  /\ pc' = [pc EXCEPT ![a] = "wait"]
  /\ UNCHANGED <<text, room, visible, row, lastNonce, nonce, saw, reviews>>

\* DNS or connect failures come before the request; a TLS error is classified with them
\* although it may come while the answer is read.
PresumedUnsent(a) ==
  /\ pc[a] \in {"send", "wait"}
  /\ Finish(a, "failed_pre_transmission", nonce[a], Null)
  /\ UNCHANGED remote

\* HTTP 200 with the posted record; its seq is where the message is.
Posted(a) ==
  /\ pc[a] = "wait"
  /\ \E i \in 1..Len(room) : room[i] = a /\ Finish(a, "posted", nonce[a], i)
  /\ UNCHANGED remote

\* A timeout or reset, any other answer than 200, or a 200 whose body is not the record; the
\* seq of a record that is not the one posted is kept in the failed row.
NotConfirmed(a) ==
  /\ pc[a] = "wait"
  /\ \/ \E status \in {"unknown_outcome", "confirmed_rejected"} :
          Finish(a, status, nonce[a], Null)
     \/ \E seq \in 1..Len(room) \union {Null} : Finish(a, "failed", nonce[a], seq)
  /\ UNCHANGED remote

\* The process dies: the row stays "started", without a nonce.
Die(a) ==
  /\ pc[a] \in {"preflight", "owner", "send", "wait"}
  /\ pc' = [pc EXCEPT ![a] = "done"]
  /\ UNCHANGED <<text, remote, row, lastNonce, nonce, saw, reviews>>

-----------------------------------------------------------------------------
(* post reconcile.                                                         *)

\* An attempt without a recorded nonce is refused.
ReadAttempt(r, a) ==
  /\ target[r] = Null
  /\ row[a].nonce # Null
  /\ target' = [target EXCEPT ![r] = a]
  /\ copy' = [copy EXCEPT ![r] = row[a]]
  /\ UNCHANGED <<text, remote, row, lastNonce, sends, found>>

\* Matches among the first n messages that are served with a nonce to go by.
Legible(a, n, bare) == Matches(a, n) \ bare

\* Fault: the first message with the same text is taken for the attempt's own.
OwnByContent(a, m, n, bare) == {i \in Matches(a, n) : i = First(Matches(a, n))}

\* Attribution is by text and by m, the nonce the row has recorded.
Own(a, m, n, bare) == {i \in Legible(a, n, bare) : nonce[room[i]] = m}

\* What a scan of the first n messages lets reconcile_post conclude; a match without a legible
\* nonce counts for nothing.
Observed(a, m, n, bare, complete) ==
  CASE Own(a, m, n, bare) # {} ->
         [status |-> "reconciled_posted", seq |-> First(Own(a, m, n, bare))]
    [] Own(a, m, n, bare) = {} /\ Legible(a, n, bare) # {} ->
         [status |-> "matching_message_different_nonce", seq |-> Null]
    [] Legible(a, n, bare) = {} ->
         [status |-> IF complete THEN "reconciled_absent" ELSE "reconciliation_incomplete",
          seq    |-> Null]

Scan(r) ==
  /\ target[r] # Null
  /\ found[r] = Unseen
  /\ \E n \in 0..visible, complete \in BOOLEAN :
       /\ complete => n = visible
       /\ \E bare \in SUBSET (1..n) :
            found' = [found EXCEPT ![r] = Observed(target[r], copy[r].nonce, n, bare, complete)]
  /\ UNCHANGED <<text, remote, row, lastNonce, sends, target, copy>>

\* Fault: strong statuses are not exempt.
TransitionOfAnything(current, observed) ==
  CASE observed.status = "reconciled_posted" -> Entry(observed.status, current.nonce, observed.seq)
    [] observed.status = "reconciled_absent" -> Entry(observed.status, current.nonce, current.seq)
    [] OTHER                                 -> current

\* monotonic_reconciliation_transition: the row to be written, or the one that was read.
Transition(current, observed) ==
  CASE observed.status = "reconciled_posted" ->
         Entry("reconciled_posted", current.nonce, observed.seq)
    [] observed.status = "reconciled_absent" /\ current.status \notin Strong ->
         Entry("reconciled_absent", current.nonce, current.seq)
    [] OTHER -> current

Forget(r) ==
  /\ target' = [target EXCEPT ![r] = Null]
  /\ copy' = [copy EXCEPT ![r] = NoEntry]
  /\ found' = [found EXCEPT ![r] = Unseen]

\* Nothing is written when the transition keeps what was read; otherwise the write does not
\* look at the row again.
WriteBack(r) ==
  /\ found[r] # Unseen
  /\ row' = LET next == Transition(copy[r], found[r])
            IN  IF next = copy[r] THEN row ELSE [row EXCEPT ![target[r]] = next]
  /\ Forget(r)
  /\ UNCHANGED <<text, remote, lastNonce, sends>>

Quit(r) ==
  /\ target[r] # Null
  /\ Forget(r)
  /\ UNCHANGED <<text, remote, row, lastNonce, sends>>

-----------------------------------------------------------------------------
Send(a) ==
  \/ Start(a) \/ PreflightAbsent(a) \/ AlreadyPosted(a) \/ PreflightFails(a)
  \/ TakeNonce(a) \/ SigningFails(a) \/ Transmit(a)
  \/ PresumedUnsent(a) \/ Posted(a) \/ NotConfirmed(a) \/ Die(a)

Reconcile(r) == (\E a \in Attempt : ReadAttempt(r, a)) \/ Scan(r) \/ WriteBack(r) \/ Quit(r)

Next ==
  \/ \E a \in Attempt : Send(a) \/ Accept(a) \/ Refuse(a)
  \/ Show
  \/ \E r \in Reconciler : Reconcile(r)

Spec == Init /\ [][Next]_vars

-----------------------------------------------------------------------------
(* Properties.                                                             *)

\* Every variable has its type.
TypeOK ==
  /\ text \in [Attempt -> Text]
  /\ room \in Seq(Attempt) /\ visible \in 0..Len(room) /\ wire \subseteq Attempt
  /\ row \in [Attempt -> [status : Strong \union Weak \union {"none"},
                          nonce : 1..MaxNonce \union {Null}, seq : 1..Len(room) \union {Null}]]
  /\ lastNonce \in 0..MaxNonce
  /\ pc \in [Attempt -> {"start", "preflight", "owner", "send", "wait", "done"}]
  /\ nonce \in [Attempt -> 1..MaxNonce \union {Null}]
  /\ saw \in [Attempt -> 0..Len(room)]
  /\ target \in [Reconciler -> Attempt \union {Null}]

\* Confirmed evidence is true: the seq of a strong row is that of a message with this text, of
\* this very attempt unless the row says "already-posted", and then the attempt sent nothing.
StrongIsTrue ==
  \A a \in Attempt : row[a].status \in Strong =>
    /\ row[a].seq \in 1..Len(room)
    /\ text[room[row[a].seq]] = text[a]
    /\ IF row[a].status = "already-posted" THEN a \notin wire \union Range(room)
       ELSE room[row[a].seq] = a

\* No nonce is used twice, also after ambiguous attempts and crashes.
NoncesDiffer ==
  \A a, b \in Attempt : a # b /\ nonce[a] # Null => nonce[a] # nonce[b]

\* A text is posted twice only by overlap: the preflight of the later message was over before
\* the earlier one could be seen.
RepeatsOverlap ==
  \A i, j \in 1..Len(room) :
    i < j /\ text[room[i]] = text[room[j]] => saw[room[j]] < i

\* A confirmed row is weakened only by a reconcile that read it before it was confirmed and
\* completed a scan without the message: no scan made of a confirmed row weakens it.
WeakenedByStaleOnly ==
  [][\A a \in Attempt : row[a].status \in Strong /\ row'[a].status \notin Strong =>
       \E r \in Reconciler :
         /\ target[r] = a /\ copy[r].status \in Weak
         /\ found[r].status = "reconciled_absent"]_vars

\* README.md: "Strong confirmed states ... are preserved when later scans are incomplete,
\* unavailable, absent".  Two overlapping reconciles of one attempt do not preserve them.
StrongPreserved ==
  [][\A a \in Attempt : row[a].status \in Strong => row'[a].status \in Strong]_vars
=============================================================================
