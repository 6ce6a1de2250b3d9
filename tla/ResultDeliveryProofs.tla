------------------------ MODULE ResultDeliveryProofs ------------------------
(***************************************************************************)
(* Proofs about signed posting and result delivery, for any number of      *)
(* attempts, reconciling processes, texts, requests, results and routes.   *)
(* First SignedPosting alone: nonces differ, confirmed rows are true,      *)
(* repeats need overlap, only a stale reconcile weakens a confirmed row.   *)
(* Then ResultDelivery: posts and deliveries together implement            *)
(* SignedPosting, so all of that holds of results too, and what is         *)
(* delivered is on record.                                                 *)
(***************************************************************************)
EXTENDS ResultDelivery, WellFoundedInduction, TLAPS

\* The least seq of a scan's matches is one of them.
LEMMA Least ==
  ASSUME NEW n \in Nat, NEW S \in SUBSET (1..n), S # {}
  PROVE  First(S) \in S
<1> DEFINE R == OpToRel(<, Nat)
<1>1. IsWellFoundedOn(R, Nat)
  BY NatLessThanWellFounded
<1>2. \A i, j \in Nat : i < j => <<i, j>> \in R
  BY DEF OpToRel
<1> HIDE DEF R
<1>3. S \subseteq Nat
  OBVIOUS
<1>4. PICK x \in S : \A y \in S : ~ (<<y, x>> \in R)
  BY <1>1, <1>3, WFMin
<1>5. ASSUME NEW y \in S PROVE x <= y
  <2>1. x \in Nat /\ y \in Nat
    BY <1>3
  <2>2. ~ (y < x)
    BY <1>2, <1>4, <2>1, Zenon
  <2> QED BY <2>1, <2>2
<1> QED BY <1>5 DEF First

-----------------------------------------------------------------------------
(* Types.                                                                  *)

Nonces == 1..MaxNonce

Seen == [status : {"none", "reconciled_posted", "reconciled_absent",
                   "matching_message_different_nonce", "reconciliation_incomplete"},
         seq : Nat \union {Null}]

Rows == [status : Strong \union Weak \union {"none"},
         nonce : Nonces \union {Null}, seq : Nat \union {Null}]

TypeInv ==
  /\ text \in [Attempt -> Text]
  /\ room \in Seq(Attempt) /\ visible \in Nat /\ visible <= Len(room)
  /\ wire \in SUBSET Attempt
  /\ row \in [Attempt -> Rows]
  /\ lastNonce \in Nat /\ lastNonce <= MaxNonce
  /\ pc \in [Attempt -> {"start", "preflight", "owner", "send", "wait", "done"}]
  /\ nonce \in [Attempt -> Nonces \union {Null}]
  /\ saw \in [Attempt -> Nat]
  /\ target \in [Reconciler -> Attempt \union {Null}]
  /\ copy \in [Reconciler -> Rows]
  /\ found \in [Reconciler -> Seen]

LEMMA EntryType ==
  ASSUME NEW status \in Strong \union Weak \union {"none"},
         NEW n \in Nonces \union {Null}, NEW seq \in Nat \union {Null}
  PROVE  Entry(status, n, seq) \in Rows
  BY DEF Entry, Rows

LEMMA NullTypes == NoEntry \in Rows /\ Unseen \in Seen
  BY EntryType DEF NoEntry, Unseen, Seen

LEMMA MatchesType ==
  ASSUME TypeInv, NEW a \in Attempt, NEW n \in Nat, Matches(a, n) # {}
  PROVE  First(Matches(a, n)) \in Matches(a, n) /\ First(Matches(a, n)) \in 1..n
  BY Least DEF Matches

LEMMA OwnType ==
  ASSUME TypeInv, NEW a \in Attempt, NEW m, NEW n \in Nat, NEW bare, Own(a, m, n, bare) # {}
  PROVE  First(Own(a, m, n, bare)) \in Own(a, m, n, bare) /\ First(Own(a, m, n, bare)) \in 1..n
<1>1. Own(a, m, n, bare) \in SUBSET (1..n)
  BY DEF Own, Legible, Matches
<1> QED BY <1>1, Least

\* A scan that attributes a message to the attempt names a seq where it is: no other message
\* has the nonce.
LEMMA ObservedOwn ==
  ASSUME TypeInv, NoncesDiffer, NEW a \in Attempt, NEW m, m # Null, m = nonce[a],
         NEW n \in Nat, n <= Len(room), NEW bare \in SUBSET (1..n), NEW complete \in BOOLEAN
  PROVE  /\ Observed(a, m, n, bare, complete) \in Seen
         /\ Observed(a, m, n, bare, complete).status = "reconciled_posted" =>
              /\ Observed(a, m, n, bare, complete).seq \in 1..Len(room)
              /\ room[Observed(a, m, n, bare, complete).seq] = a
<1>1. CASE Own(a, m, n, bare) # {}
  <2> DEFINE i == First(Own(a, m, n, bare))
  <2>1. i \in 1..n /\ i \in Own(a, m, n, bare)
    BY <1>1, OwnType
  <2>2. Observed(a, m, n, bare, complete) = [status |-> "reconciled_posted", seq |-> i]
    BY <1>1 DEF Observed, Own
  <2> HIDE DEF i
  <2>3. i \in 1..Len(room) /\ room[i] \in Attempt
    BY <2>1 DEF TypeInv
  <2>4. nonce[room[i]] = m
    BY <2>1 DEF Own
  <2>5. room[i] = a
    BY <2>3, <2>4 DEF NoncesDiffer
  <2> QED BY <2>2, <2>3, <2>5 DEF Seen
<1>2. CASE Own(a, m, n, bare) = {} /\ Legible(a, n, bare) # {}
  BY <1>2 DEF Observed, Seen
<1>3. CASE Legible(a, n, bare) = {}
  <2>1. Own(a, m, n, bare) = {}
    BY <1>3 DEF Own
  <2>2. Observed(a, m, n, bare, complete) = [status |-> IF complete THEN "reconciled_absent"
                                                        ELSE "reconciliation_incomplete",
                                             seq |-> Null]
    BY <1>3, <2>1 DEF Observed
  <2> QED BY <2>2 DEF Seen
<1> QED BY <1>1, <1>2, <1>3

\* Whatever nonce is looked for, a scan's result is well-formed.
LEMMA ObservedType ==
  ASSUME TypeInv, NEW a \in Attempt, NEW m, NEW n \in Nat, NEW bare \in SUBSET (1..n), NEW complete \in BOOLEAN
  PROVE  Observed(a, m, n, bare, complete) \in Seen
<1>1. CASE Own(a, m, n, bare) # {}
  BY <1>1, OwnType DEF Observed, Own, Seen
<1>2. CASE Own(a, m, n, bare) = {} /\ Legible(a, n, bare) # {}
  BY <1>2 DEF Observed, Seen
<1>3. CASE Legible(a, n, bare) = {}
  BY <1>3 DEF Observed, Own, Seen
<1> QED BY <1>1, <1>2, <1>3

LEMMA TransitionType ==
  ASSUME NEW current \in Rows, NEW observed \in Seen
  PROVE  Transition(current, observed) \in Rows
  BY EntryType DEF Transition, Rows, Seen, Strong, Weak, Entry

-----------------------------------------------------------------------------
(* How rows change.                                                        *)

\* What a send knows when it ends: where the message is if it reports one.
Known(a, e) ==
  /\ e \in Rows /\ e.status \in Strong \union Weak
  /\ e.nonce # Null => e.status # "already-posted" /\ e.nonce = nonce[a]
  /\ e.seq # Null => e.seq \in 1..Len(room)
  /\ e.status \in Strong => e.seq \in 1..Len(room) /\ text[room[e.seq]] = text[a]
  /\ e.status = "already-posted" => pc[a] = "preflight"
  /\ e.status \in Strong /\ e.status # "already-posted" => room[e.seq] = a

Finished ==
  \E a \in Attempt, e \in Rows :
    /\ pc[a] \in {"preflight", "owner", "send", "wait"}
    /\ Known(a, e)
    /\ row' = [row EXCEPT ![a] = e] /\ pc' = [pc EXCEPT ![a] = "done"]
    /\ UNCHANGED <<text, remote, lastNonce, nonce, saw, reviews>>

FinalSend(a) ==
  AlreadyPosted(a) \/ PreflightFails(a) \/ SigningFails(a) \/ PresumedUnsent(a)
  \/ Posted(a) \/ NotConfirmed(a)

LEMMA SendFinishes == ASSUME TypeInv, NEW a \in Attempt, FinalSend(a) PROVE Finished
<1> USE PostingAssumption DEF TypeInv
<1>1. ASSUME NEW status \in Weak, NEW n \in {nonce[a], Null},
             NEW seq \in 1..Len(room) \union {Null},
             pc[a] \in {"preflight", "owner", "send", "wait"},
             Finish(a, status, n, seq), UNCHANGED remote
      PROVE  Finished
  <2> DEFINE e == Entry(status, n, seq)
  <2>1. Known(a, e)
    <3>1. e \in Rows /\ n \in Nonces \union {Null}
      <4>1. seq \in Nat \union {Null} /\ n \in Nonces \union {Null}
        OBVIOUS
      <4> QED BY <4>1, EntryType
    <3>2. e.nonce = n /\ e.status = status /\ e.seq = seq
      BY DEF Entry
    <3>3. status \notin Strong
      BY DEF Weak, Strong
    <3> QED BY <3>1, <3>2, <3>3 DEF Known, Strong
  <2> QED BY <1>1, <2>1 DEF Finished, Finish, Known
<1>2. CASE PreflightFails(a)
  BY <1>1, <1>2 DEF PreflightFails, Weak
<1>3. CASE SigningFails(a)
  BY <1>1, <1>3 DEF SigningFails, Weak
<1>4. CASE PresumedUnsent(a)
  BY <1>1, <1>4 DEF PresumedUnsent, Weak
<1>5. CASE NotConfirmed(a)
  BY <1>1, <1>5 DEF NotConfirmed, Weak
<1>6. CASE AlreadyPosted(a)
  <2> DEFINE i == First(Matches(a, visible))
             e == Entry("already-posted", Null, i)
  <2>1. i \in 1..Len(room) /\ text[room[i]] = text[a]
    <3>1. visible \in Nat /\ Len(room) \in Nat /\ visible <= Len(room)
      OBVIOUS
    <3>2. Matches(a, visible) # {}
      BY <1>6 DEF AlreadyPosted
    <3> HIDE DEF TypeInv
    <3>3. i \in Matches(a, visible) /\ i \in 1..visible
      BY <3>1, <3>2, MatchesType
    <3> HIDE DEF i
    <3> QED BY <3>1, <3>3 DEF Matches
  <2> HIDE DEF i
  <2>2. e \in Rows
    <3>1. i \in Nat /\ "already-posted" \in Strong
      BY <2>1 DEF Strong
    <3> QED BY <3>1, EntryType
  <2>3. Known(a, e)
    BY <1>6, <2>1, <2>2 DEF Known, Entry, Strong, AlreadyPosted
  <2> QED BY <1>6, <2>2, <2>3 DEF AlreadyPosted, Finish, Finished, i
<1>7. CASE Posted(a)
  <2>1. PICK i \in 1..Len(room) : room[i] = a /\ Finish(a, "posted", nonce[a], i)
    BY <1>7 DEF Posted
  <2> DEFINE e == Entry("posted", nonce[a], i)
  <2>2. e \in Rows
    <3>1. i \in Nat /\ "posted" \in Strong /\ nonce[a] \in Nonces \union {Null}
      BY <2>1 DEF Strong
    <3> QED BY <3>1, EntryType
  <2>3. Known(a, e)
    BY <2>1, <2>2 DEF Known, Entry, Strong
  <2> QED BY <1>7, <2>1, <2>2, <2>3 DEF Posted, Finish, Finished
<1> QED BY <1>2, <1>3, <1>4, <1>5, <1>6, <1>7 DEF FinalSend

\* What WriteBack may put into a row.
Verdict(r, e) ==
  \/ found[r].status = "reconciled_posted"
     /\ e = Entry("reconciled_posted", copy[r].nonce, found[r].seq)
  \/ found[r].status = "reconciled_absent" /\ copy[r].status \notin Strong
     /\ e = Entry("reconciled_absent", copy[r].nonce, copy[r].seq)

Written ==
  \E r \in Reconciler :
    /\ found[r] # Unseen /\ Forget(r) /\ UNCHANGED <<text, remote, lastNonce, sends>>
    /\ row' = row \/ \E e \in Rows : Verdict(r, e) /\ row' = [row EXCEPT ![target[r]] = e]

LEMMA WriteBackWrites == ASSUME TypeInv, NEW r \in Reconciler, WriteBack(r) PROVE Written
<1> DEFINE next == Transition(copy[r], found[r])
<1>1. row' = IF next = copy[r] THEN row ELSE [row EXCEPT ![target[r]] = next]
  BY DEF WriteBack
<1>2. next \in Rows
  BY TransitionType DEF TypeInv
<1>3. next = copy[r] \/ Verdict(r, next)
  BY DEF Transition, Verdict
<1> HIDE DEF next
<1> QED BY <1>1, <1>2, <1>3 DEF WriteBack, Written

\* The steps that end neither a send nor a reconcile.
OtherStep ==
  \/ \E a \in Attempt : \/ Start(a) \/ PreflightAbsent(a) \/ TakeNonce(a) \/ Transmit(a)
                        \/ Die(a) \/ Accept(a) \/ Refuse(a)
  \/ Show
  \/ \E r \in Reconciler : (\E a \in Attempt : ReadAttempt(r, a)) \/ Scan(r) \/ Quit(r)

LEMMA StepKinds == TypeInv /\ [Next]_vars => Finished \/ Written \/ OtherStep \/ UNCHANGED vars
<1> SUFFICES ASSUME TypeInv, [Next]_vars
             PROVE  Finished \/ Written \/ OtherStep \/ UNCHANGED vars
  OBVIOUS
<1>1. ASSUME NEW a \in Attempt, Send(a) PROVE Finished \/ OtherStep
  <2>1. CASE FinalSend(a)
    BY <2>1, SendFinishes
  <2>2. CASE Start(a) \/ PreflightAbsent(a) \/ TakeNonce(a) \/ Transmit(a) \/ Die(a)
    BY <2>2 DEF OtherStep
  <2> QED BY <1>1, <2>1, <2>2 DEF Send, FinalSend
<1>2. ASSUME NEW a \in Attempt, Accept(a) \/ Refuse(a) PROVE OtherStep
  BY <1>2 DEF OtherStep
<1>3. CASE Show
  BY <1>3 DEF OtherStep
<1>4. ASSUME NEW r \in Reconciler, Reconcile(r) PROVE Written \/ OtherStep
  <2>1. CASE WriteBack(r)
    BY <2>1, WriteBackWrites
  <2>2. CASE (\E a \in Attempt : ReadAttempt(r, a)) \/ Scan(r) \/ Quit(r)
    BY <2>2 DEF OtherStep
  <2> QED BY <1>4, <2>1, <2>2 DEF Reconcile
<1> QED BY <1>1, <1>2, <1>3, <1>4 DEF Next

LEMMA InitTypeInv == Init => TypeInv
  BY PostingAssumption, NullTypes DEF Init, TypeInv

LEMMA NextTypeInv == TypeInv /\ [Next]_vars => TypeInv'
<1> SUFFICES ASSUME TypeInv, [Next]_vars PROVE TypeInv'
  OBVIOUS
<1> USE PostingAssumption DEF TypeInv, remote, sends, reviews
<1>1. CASE Finished
  BY <1>1 DEF Finished
<1>2. CASE Written
  <2>1. PICK r \in Reconciler :
          /\ Forget(r) /\ UNCHANGED <<text, remote, lastNonce, sends>>
          /\ row' = row \/ \E e \in Rows : Verdict(r, e) /\ row' = [row EXCEPT ![target[r]] = e]
    BY <1>2 DEF Written
  <2>2. row' \in [Attempt -> Rows]
    BY <2>1
  <2>3. /\ target' \in [Reconciler -> Attempt \union {Null}]
        /\ copy' \in [Reconciler -> Rows] /\ found' \in [Reconciler -> Seen]
    BY <2>1, NullTypes DEF Forget
  <2> QED BY <2>1, <2>2, <2>3
<1>3. ASSUME NEW a \in Attempt, Start(a) PROVE TypeInv'
  <2>1. "started" \in Weak
    BY DEF Weak
  <2>2. Entry("started", Null, Null) \in Rows
    BY <2>1, EntryType
  <2> QED BY <1>3, <2>2 DEF Start
<1>4. ASSUME NEW a \in Attempt, PreflightAbsent(a) \/ Transmit(a) \/ Die(a) \/ Refuse(a)
      PROVE  TypeInv'
  <2>1. CASE PreflightAbsent(a)
    BY <2>1 DEF PreflightAbsent
  <2>2. CASE Transmit(a)
    BY <2>2 DEF Transmit
  <2>3. CASE Die(a)
    BY <2>3 DEF Die
  <2>4. CASE Refuse(a)
    BY <2>4 DEF Refuse
  <2> QED BY <1>4, <2>1, <2>2, <2>3, <2>4
<1>5. ASSUME NEW a \in Attempt, TakeNonce(a) PROVE TypeInv'
  <2>1. PICK n \in Nonces : /\ lastNonce' = n /\ nonce' = [nonce EXCEPT ![a] = n]
                            /\ pc' = [pc EXCEPT ![a] = "send"]
                            /\ UNCHANGED <<text, remote, row, saw, reviews>>
    BY <1>5 DEF TakeNonce, Nonces
  <2>2. n \in Nat /\ n <= MaxNonce
    BY DEF Nonces
  <2> QED BY <2>1, <2>2
<1>6. ASSUME NEW a \in Attempt, Accept(a) PROVE TypeInv'
  <2>1. Append(room, a) \in Seq(Attempt) /\ Len(Append(room, a)) = Len(room) + 1
    OBVIOUS
  <2> QED BY <1>6, <2>1 DEF Accept
<1>7. CASE Show
  BY <1>7 DEF Show
<1>8. ASSUME NEW r \in Reconciler, NEW a \in Attempt, ReadAttempt(r, a) PROVE TypeInv'
  BY <1>8 DEF ReadAttempt
<1>9. ASSUME NEW r \in Reconciler, Scan(r) PROVE TypeInv'
  <2>0. PICK n \in 0..visible, complete \in BOOLEAN :
          \E bare \in SUBSET (1..n) :
            found' = [found EXCEPT ![r] = Observed(target[r], copy[r].nonce, n, bare, complete)]
    BY <1>9 DEF Scan
  <2>1. PICK bare \in SUBSET (1..n) :
          found' = [found EXCEPT ![r] = Observed(target[r], copy[r].nonce, n, bare, complete)]
    BY <2>0
  <2>2. Observed(target[r], copy[r].nonce, n, bare, complete) \in Seen
    <3>1. target[r] \in Attempt /\ n \in Nat
      BY <1>9 DEF Scan
    <3> HIDE DEF TypeInv
    <3> QED BY <3>1, ObservedType
  <2> QED BY <1>9, <2>1, <2>2 DEF Scan
<1>10. ASSUME NEW r \in Reconciler, Quit(r) PROVE TypeInv'
  BY <1>10, NullTypes DEF Quit, Forget
<1>11. CASE UNCHANGED vars
  BY <1>11 DEF vars
<1> QED BY <1>1, <1>2, <1>3, <1>4, <1>5, <1>6, <1>7, <1>8, <1>9, <1>10, <1>11, StepKinds
        DEF OtherStep

LEMMA AlwaysTypeInv == Spec => []TypeInv
  BY InitTypeInv, NextTypeInv, PTL DEF Spec

-----------------------------------------------------------------------------
(* Nonces.                                                                 *)

NonceInv ==
  /\ TypeInv /\ NoncesDiffer
  /\ \A a \in Attempt : nonce[a] # Null => nonce[a] <= lastNonce

LEMMA NonceSteps ==
  TypeInv /\ [Next]_vars =>
    \/ UNCHANGED <<nonce, lastNonce>>
    \/ \E a \in Attempt, n \in Nonces :
         n > lastNonce /\ lastNonce' = n /\ nonce' = [nonce EXCEPT ![a] = n]
<1> SUFFICES ASSUME TypeInv, [Next]_vars
             PROVE  \/ UNCHANGED <<nonce, lastNonce>>
                    \/ \E a \in Attempt, n \in Nonces :
                         n > lastNonce /\ lastNonce' = n /\ nonce' = [nonce EXCEPT ![a] = n]
  OBVIOUS
<1> USE DEF remote, sends, reviews
<1>1. CASE Finished \/ Written \/ UNCHANGED vars
  BY <1>1 DEF Finished, Written, vars
<1>2. ASSUME NEW a \in Attempt, TakeNonce(a)
      PROVE  \E n \in Nonces : n > lastNonce /\ lastNonce' = n /\ nonce' = [nonce EXCEPT ![a] = n]
  <2>1. PICK n \in 1..MaxNonce : NextNonce(n) /\ lastNonce' = n /\ nonce' = [nonce EXCEPT ![a] = n]
    BY <1>2 DEF TakeNonce
  <2>2. n > lastNonce
    BY <2>1, PostingAssumption DEF NextNonce, TypeInv
  <2> QED BY <2>1, <2>2 DEF Nonces
<1>3. ASSUME NEW a \in Attempt, \/ Start(a) \/ PreflightAbsent(a) \/ Transmit(a)
                                \/ Die(a) \/ Accept(a) \/ Refuse(a)
      PROVE  UNCHANGED <<nonce, lastNonce>>
  BY <1>3 DEF Start, PreflightAbsent, Transmit, Die, Accept, Refuse
<1>4. CASE Show
  BY <1>4 DEF Show
<1>5. ASSUME NEW r \in Reconciler, (\E a \in Attempt : ReadAttempt(r, a)) \/ Scan(r) \/ Quit(r)
      PROVE  UNCHANGED <<nonce, lastNonce>>
  BY <1>5 DEF ReadAttempt, Scan, Quit
<1> QED BY <1>1, <1>2, <1>3, <1>4, <1>5, StepKinds DEF OtherStep

LEMMA InitNonceInv == Init => NonceInv
  BY InitTypeInv DEF Init, NonceInv, NoncesDiffer

LEMMA NextNonceInv == NonceInv /\ [Next]_vars => NonceInv'
<1> SUFFICES ASSUME NonceInv, [Next]_vars
             PROVE  (NoncesDiffer /\ \A a \in Attempt : nonce[a] # Null => nonce[a] <= lastNonce)'
  BY NextTypeInv DEF NonceInv
<1>1. TypeInv /\ lastNonce \in Nat
  BY DEF NonceInv, TypeInv
<1>2. CASE UNCHANGED <<nonce, lastNonce>>
  BY <1>2 DEF NonceInv, NoncesDiffer
<1>3. ASSUME NEW a \in Attempt, NEW n \in Nonces,
             n > lastNonce, lastNonce' = n, nonce' = [nonce EXCEPT ![a] = n]
      PROVE  (NoncesDiffer /\ \A b \in Attempt : nonce[b] # Null => nonce[b] <= lastNonce)'
  <2>1. nonce'[a] = n /\ \A b \in Attempt : b # a => nonce'[b] = nonce[b]
    BY <1>1, <1>3 DEF TypeInv
  <2>2. \A b \in Attempt : nonce[b] # Null => nonce[b] \in Nat /\ nonce[b] <= lastNonce
    BY <1>1 DEF NonceInv, TypeInv, Nonces
  <2> QED BY <1>1, <1>3, <2>1, <2>2, PostingAssumption DEF NonceInv, NoncesDiffer, Nonces
<1> QED BY <1>1, <1>2, <1>3, NonceSteps

\* No nonce is used twice: next_post_nonce reserves above the largest one ever reserved.
THEOREM FreshNonces == Spec => []NoncesDiffer
<1>1. NonceInv => NoncesDiffer
  BY DEF NonceInv
<1> QED BY <1>1, InitNonceInv, NextNonceInv, PTL DEF Spec

-----------------------------------------------------------------------------
(* The room, and what a preflight saw of it.                               *)

LEMMA RoomGrows ==
  TypeInv /\ [Next]_vars =>
    /\ text' = text /\ Len(room') \in Nat /\ Len(room) \in Nat /\ Len(room) <= Len(room')
    /\ \A i \in 1..Len(room) : room'[i] = room[i]
<1> SUFFICES ASSUME TypeInv, [Next]_vars
             PROVE  /\ text' = text /\ Len(room') \in Nat /\ Len(room) \in Nat
                    /\ Len(room) <= Len(room')
                    /\ \A i \in 1..Len(room) : room'[i] = room[i]
  OBVIOUS
<1> USE DEF remote, sends, reviews
<1>1. Len(room) \in Nat
  BY DEF TypeInv
<1>2. CASE Finished \/ Written \/ UNCHANGED vars
  BY <1>1, <1>2 DEF Finished, Written, vars
<1>3. ASSUME NEW a \in Attempt, Accept(a)
      PROVE  /\ text' = text /\ Len(room') \in Nat /\ Len(room) <= Len(room')
             /\ \A i \in 1..Len(room) : room'[i] = room[i]
  <2>1. room' = Append(room, a) /\ text' = text
    BY <1>3 DEF Accept
  <2>2. room \in Seq(Attempt)
    BY DEF TypeInv
  <2> QED BY <2>1, <2>2
<1>4. ASSUME NEW a \in Attempt, Start(a) \/ PreflightAbsent(a) \/ Transmit(a)
                                \/ TakeNonce(a) \/ Die(a) \/ Refuse(a)
      PROVE  UNCHANGED <<text, room>>
  BY <1>4 DEF Start, PreflightAbsent, Transmit, TakeNonce, Die, Refuse
<1>5. CASE Show
  BY <1>1, <1>5 DEF Show
<1>6. ASSUME NEW r \in Reconciler, (\E a \in Attempt : ReadAttempt(r, a)) \/ Scan(r) \/ Quit(r)
      PROVE  UNCHANGED <<text, room>>
  BY <1>6 DEF ReadAttempt, Scan, Quit
<1> QED BY <1>1, <1>2, <1>3, <1>4, <1>5, <1>6, StepKinds DEF OtherStep

\* What a preflight saw of the room had no message with the text, and never gets one.
Clean ==
  /\ TypeInv
  /\ \A b \in Attempt : /\ saw[b] <= Len(room)
                        /\ \A i \in 1..saw[b] : text[room[i]] # text[b]

LEMMA SawSteps ==
  TypeInv /\ [Next]_vars =>
    \/ UNCHANGED saw
    \/ \E a \in Attempt : saw' = [saw EXCEPT ![a] = visible] /\ Matches(a, visible) = {}
<1> SUFFICES ASSUME TypeInv, [Next]_vars
             PROVE  \/ UNCHANGED saw
                    \/ \E a \in Attempt : saw' = [saw EXCEPT ![a] = visible]
                                          /\ Matches(a, visible) = {}
  OBVIOUS
<1> USE DEF remote, sends, reviews
<1>1. CASE Finished \/ Written \/ UNCHANGED vars
  BY <1>1 DEF Finished, Written, vars
<1>2. ASSUME NEW a \in Attempt, PreflightAbsent(a)
      PROVE  saw' = [saw EXCEPT ![a] = visible] /\ Matches(a, visible) = {}
  BY <1>2 DEF PreflightAbsent, Searched
<1>3. ASSUME NEW a \in Attempt, \/ Start(a) \/ TakeNonce(a) \/ Transmit(a)
                                \/ Die(a) \/ Accept(a) \/ Refuse(a)
      PROVE  UNCHANGED saw
  BY <1>3 DEF Start, TakeNonce, Transmit, Die, Accept, Refuse
<1>4. CASE Show
  BY <1>4 DEF Show
<1>5. ASSUME NEW r \in Reconciler, (\E a \in Attempt : ReadAttempt(r, a)) \/ Scan(r) \/ Quit(r)
      PROVE  UNCHANGED saw
  BY <1>5 DEF ReadAttempt, Scan, Quit
<1> QED BY <1>1, <1>2, <1>3, <1>4, <1>5, StepKinds DEF OtherStep

LEMMA NextClean == Clean /\ [Next]_vars => Clean'
<1> SUFFICES ASSUME Clean, [Next]_vars, NEW b \in Attempt
             PROVE  /\ saw'[b] <= Len(room')
                    /\ \A i \in 1..saw'[b] : text'[room'[i]] # text'[b]
  BY NextTypeInv DEF Clean
<1>1. TypeInv /\ saw[b] \in Nat /\ visible \in Nat /\ visible <= Len(room) /\ Len(room) \in Nat
  BY DEF Clean, TypeInv
<1>2. CASE saw'[b] = saw[b]
  BY <1>1, <1>2, RoomGrows DEF Clean
<1>3. CASE saw'[b] = visible /\ Matches(b, visible) = {}
  BY <1>1, <1>3, RoomGrows DEF Matches
<1>4. saw'[b] = saw[b] \/ (saw'[b] = visible /\ Matches(b, visible) = {})
  BY <1>1, SawSteps DEF TypeInv
<1> QED BY <1>2, <1>3, <1>4

\* A text is posted twice only by overlap: the content-based preflight of the later message
\* was over before the earlier one could be seen.
THEOREM RepeatsNeedOverlap == Spec => []RepeatsOverlap
<1>1. Init => Clean
  BY InitTypeInv DEF Init, Clean
<1>2. Clean => RepeatsOverlap
  <2> SUFFICES ASSUME Clean, NEW i \in 1..Len(room), NEW j \in 1..Len(room),
                      i < j, text[room[i]] = text[room[j]]
               PROVE  saw[room[j]] < i
    BY DEF RepeatsOverlap
  <2>1. room[j] \in Attempt /\ saw[room[j]] \in Nat /\ i \in Nat /\ i >= 1
    BY DEF Clean, TypeInv
  <2>2. i \notin 1..saw[room[j]]
    BY <2>1 DEF Clean
  <2> QED BY <2>1, <2>2
<1> QED BY <1>1, <1>2, NextClean, PTL DEF Spec

-----------------------------------------------------------------------------
(* Evidence.                                                               *)

Busy == {"preflight", "owner", "send", "wait"}

\* A row is open until its send ends; only then does it have a nonce, and a row with a nonce is
\* never "already-posted".
Phases ==
  \A a \in Attempt :
    /\ pc[a] = "start" => row[a] = NoEntry
    /\ pc[a] \in Busy => row[a] = Entry("started", Null, Null)
    /\ row[a].nonce # Null => /\ pc[a] = "done" /\ row[a].nonce = nonce[a]
                              /\ row[a].status # "already-posted"
                              /\ row[a].status \in Strong \union Weak

\* What is or was on the wire was sent by an attempt that found nothing.
Sent ==
  \A a \in Attempt : a \in wire \/ (\E i \in 1..Len(room) : room[i] = a) =>
    pc[a] \in {"wait", "done"} /\ row[a].status # "already-posted"

\* Rows and what reconciles hold name messages of the room; strong ones name the right one.
Located ==
  /\ \A a \in Attempt :
       /\ row[a].seq # Null => row[a].seq \in 1..Len(room)
       /\ row[a].status \in Strong =>
            /\ row[a].seq \in 1..Len(room) /\ text[room[row[a].seq]] = text[a]
            /\ row[a].status # "already-posted" => room[row[a].seq] = a
  /\ \A r \in Reconciler :
       /\ copy[r].seq # Null => copy[r].seq \in 1..Len(room)
       /\ found[r].status = "reconciled_posted" =>
            found[r].seq \in 1..Len(room) /\ room[found[r].seq] = target[r]

\* A reconcile works on a row that had a nonce when it was read, and still has.
Held ==
  \A r \in Reconciler :
    /\ found[r] # Unseen => target[r] # Null
    /\ target[r] # Null => /\ row[target[r]].nonce # Null /\ copy[r].nonce # Null
                           /\ copy[r].nonce = nonce[target[r]]
                           /\ copy[r].status \in Strong \union Weak

Evidence == NonceInv /\ TypeInv /\ Phases /\ Sent /\ Located /\ Held

LEMMA InitEvidence == Init => Evidence
  BY InitTypeInv, InitNonceInv, PostingAssumption
  DEF Init, Evidence, Phases, Sent, Located, Held, NoEntry, Unseen, Entry, Busy, Strong

LEMMA Statuses == /\ Strong \intersect Weak = {} /\ "none" \notin Strong \union Weak
                  /\ "started" \in Weak /\ "reconciled_posted" \in Strong
                  /\ "reconciled_absent" \in Weak /\ "already-posted" \in Strong
  BY DEF Strong, Weak

LEMMA FinishedEvidence == Evidence /\ Finished /\ TypeInv' /\ NonceInv' => Evidence'
<1> SUFFICES ASSUME Evidence, Finished, TypeInv', NonceInv' PROVE Evidence'
  OBVIOUS
<1>1. PICK a \in Attempt, e \in Rows :
        /\ pc[a] \in Busy /\ Known(a, e)
        /\ row' = [row EXCEPT ![a] = e] /\ pc' = [pc EXCEPT ![a] = "done"]
        /\ UNCHANGED <<text, remote, lastNonce, nonce, saw, reviews>>
  BY DEF Finished, Busy
<1> USE DEF Evidence, remote, reviews
<1>2. /\ row'[a] = e /\ pc'[a] = "done"
      /\ \A b \in Attempt \ {a} : row'[b] = row[b] /\ pc'[b] = pc[b]
      /\ UNCHANGED <<text, room, wire, nonce, target, copy, found>>
  BY <1>1 DEF TypeInv
<1>3. row[a] = Entry("started", Null, Null)
  BY <1>1 DEF Phases
<1>4. Phases'
  BY <1>1, <1>2 DEF Phases, Known, Busy
<1>5. Sent'
  <2>1. e.status = "already-posted" => pc[a] = "preflight"
    BY <1>1 DEF Known
  <2> QED BY <1>2, <2>1 DEF Sent
<1>6. Located'
  BY <1>1, <1>2 DEF Located, Known
<1>7. Held'
  <2>1. \A r \in Reconciler : target[r] # a
    BY <1>3, PostingAssumption DEF Held, Entry
  <2> QED BY <1>2, <2>1 DEF Held, TypeInv
<1> QED BY <1>4, <1>5, <1>6, <1>7

LEMMA WrittenEvidence == Evidence /\ Written /\ TypeInv' /\ NonceInv' => Evidence'
<1> SUFFICES ASSUME Evidence, Written, TypeInv', NonceInv' PROVE Evidence'
  OBVIOUS
<1>1. PICK r \in Reconciler :
        /\ found[r] # Unseen /\ Forget(r) /\ UNCHANGED <<text, remote, lastNonce, sends>>
        /\ row' = row \/ \E e \in Rows : Verdict(r, e) /\ row' = [row EXCEPT ![target[r]] = e]
  BY DEF Written
<1> USE DEF Evidence, remote, sends
<1>2. /\ target'[r] = Null /\ copy'[r] = NoEntry /\ found'[r] = Unseen
      /\ \A q \in Reconciler \ {r} :
           target'[q] = target[q] /\ copy'[q] = copy[q] /\ found'[q] = found[q]
      /\ UNCHANGED <<text, room, wire, pc, nonce>>
  BY <1>1 DEF Forget, TypeInv
<1>3. CASE row' = row
  <2>1. Phases' /\ Sent'
    BY <1>2, <1>3 DEF Phases, Sent
  <2>2. Located'
    BY <1>2, <1>3 DEF Located, NoEntry, Unseen, Entry
  <2>3. Held'
    BY <1>2, <1>3 DEF Held
  <2> QED BY <2>1, <2>2, <2>3
<1>4. ASSUME NEW e \in Rows, Verdict(r, e), row' = [row EXCEPT ![target[r]] = e]
      PROVE  Evidence'
  <2> DEFINE a == target[r]
  <2>1. a \in Attempt /\ a # Null
    BY <1>1 DEF Held, TypeInv
  <2>2. row'[a] = e /\ \A b \in Attempt \ {a} : row'[b] = row[b]
    BY <1>4, <2>1 DEF TypeInv
  <2>3. pc[a] = "done" /\ row[a].nonce # Null /\ row[a].status # "already-posted"
    BY <2>1 DEF Held, Phases
  <2>4. /\ e.nonce # Null /\ e.status \in Strong \union Weak /\ e.status # "already-posted"
        /\ e.seq # Null => e.seq \in 1..Len(room)
        /\ e.status \in Strong => e.seq \in 1..Len(room) /\ room[e.seq] = a
    <3>1. copy[r].nonce # Null
      BY <2>1 DEF Held
    <3>2. CASE found[r].status = "reconciled_posted"
               /\ e = Entry("reconciled_posted", copy[r].nonce, found[r].seq)
      BY <3>1, <3>2, Statuses DEF Entry, Located
    <3>3. CASE found[r].status = "reconciled_absent" /\ copy[r].status \notin Strong
               /\ e = Entry("reconciled_absent", copy[r].nonce, copy[r].seq)
      <4>1. e.status = "reconciled_absent" /\ e.nonce = copy[r].nonce /\ e.seq = copy[r].seq
        BY <3>3 DEF Entry
      <4>2. e.status \notin Strong /\ e.status \in Weak
        BY <4>1, Statuses
      <4> QED BY <3>1, <4>1, <4>2 DEF Located
    <3> QED BY <1>4, <3>2, <3>3 DEF Verdict
  <2> HIDE DEF a
  <2>5. Phases'
    <3>1. e.nonce = nonce[a]
      BY <1>4, <2>1 DEF Verdict, Entry, Held, a
    <3> QED BY <1>2, <2>1, <2>2, <2>3, <2>4, <3>1 DEF Phases, Busy
  <2>6. Sent'
    BY <1>2, <2>2, <2>3, <2>4 DEF Sent
  <2>7. Located'
    BY <1>2, <2>1, <2>2, <2>4 DEF Located, NoEntry, Unseen, Entry
  <2>8. Held'
    <3>1. \A b \in Attempt : row[b].nonce # Null => row'[b].nonce # Null
      BY <2>2, <2>4
    <3>2. \A q \in Reconciler : target[q] \in Attempt \union {Null}
      BY DEF TypeInv
    <3>3. ASSUME NEW q \in Reconciler \ {r}
          PROVE  /\ found'[q] # Unseen => target'[q] # Null
                 /\ target'[q] # Null =>
                      /\ row'[target'[q]].nonce # Null /\ copy'[q].nonce # Null
                      /\ copy'[q].status \in Strong \union Weak
      BY <1>2, <3>1, <3>2 DEF Held
    <3> QED BY <1>2, <3>3 DEF Held
  <2> QED BY <2>5, <2>6, <2>7, <2>8
<1> QED BY <1>1, <1>3, <1>4

LEMMA OtherEvidence == Evidence /\ OtherStep /\ TypeInv' /\ NonceInv' => Evidence'
<1> SUFFICES ASSUME Evidence, OtherStep, TypeInv', NonceInv' PROVE Evidence'
  OBVIOUS
<1> USE DEF Evidence, remote, sends, reviews
<1>1. ASSUME NEW a \in Attempt, Start(a) PROVE Evidence'
  <2> DEFINE e == Entry("started", Null, Null)
  <2>1. /\ row' = [row EXCEPT ![a] = e] /\ pc' = [pc EXCEPT ![a] = "preflight"]
        /\ pc[a] = "start" /\ UNCHANGED <<text, remote, nonce, reviews>>
    BY <1>1 DEF Start
  <2>2. /\ row'[a] = e /\ pc'[a] = "preflight"
        /\ \A b \in Attempt \ {a} : row'[b] = row[b] /\ pc'[b] = pc[b]
    BY <2>1 DEF TypeInv
  <2>3. e.status \notin Strong /\ e.nonce = Null /\ e.seq = Null /\ e.status # "already-posted"
    BY DEF Entry, Strong
  <2>4. row[a].nonce = Null
    BY <2>1 DEF Phases, NoEntry, Entry
  <2>5. Phases'
    BY <2>1, <2>2, <2>3 DEF Phases, Busy
  <2>6. Sent'
    BY <2>1, <2>2 DEF Sent
  <2>7. Located'
    BY <2>1, <2>2, <2>3 DEF Located
  <2>8. Held'
    BY <2>1, <2>2, <2>4 DEF Held, TypeInv
  <2> QED BY <2>5, <2>6, <2>7, <2>8
<1>2. ASSUME NEW a \in Attempt, PreflightAbsent(a) \/ TakeNonce(a) \/ Die(a) PROVE Evidence'
  <2>1. /\ UNCHANGED <<text, remote, row, reviews>>
        /\ pc[a] \in Busy /\ pc'[a] \in Busy \union {"done"}
        /\ \A b \in Attempt \ {a} : pc'[b] = pc[b] /\ nonce'[b] = nonce[b]
        /\ pc'[a] # "done" => pc[a] \in {"preflight", "owner"}
    BY <1>2 DEF PreflightAbsent, TakeNonce, Die, Busy, TypeInv
  <2>2. row[a] = Entry("started", Null, Null) /\ row[a].nonce = Null
    BY <2>1 DEF Phases, Entry
  <2>3. Phases'
    BY <2>1, <2>2 DEF Phases, Busy
  <2>4. Sent'
    BY <2>1 DEF Sent
  <2>5. Held'
    <3>1. ASSUME NEW r \in Reconciler, target[r] # Null
          PROVE  target[r] \in Attempt \ {a}
      BY <2>2, <3>1 DEF Held, TypeInv
    <3> QED BY <2>1, <3>1 DEF Held
  <2> QED BY <2>1, <2>3, <2>4, <2>5 DEF Located
<1>3. ASSUME NEW a \in Attempt, Transmit(a) PROVE Evidence'
  <2>1. /\ UNCHANGED <<text, room, row, nonce, reviews>> /\ wire' = wire \union {a}
        /\ pc[a] = "send" /\ pc'[a] = "wait" /\ \A b \in Attempt \ {a} : pc'[b] = pc[b]
    BY <1>3 DEF Transmit, TypeInv
  <2>2. row[a].status = "started" /\ row[a].nonce = Null
        /\ row[a] = Entry("started", Null, Null)
    BY <2>1 DEF Phases, Busy, Entry
  <2>3. Phases'
    BY <2>1, <2>2 DEF Phases, Busy
  <2>4. Sent'
    BY <2>1, <2>2 DEF Sent
  <2> QED BY <2>1, <2>3, <2>4 DEF Located, Held
<1>4. ASSUME NEW a \in Attempt, Accept(a) PROVE Evidence'
  <2>1. /\ a \in wire /\ room' = Append(room, a) /\ wire' = wire \ {a}
        /\ UNCHANGED <<text, row, pc, nonce, reviews>>
    BY <1>4 DEF Accept
  <2>2. /\ Len(room') = Len(room) + 1 /\ Len(room) \in Nat
        /\ \A i \in 1..Len(room') : room'[i] = IF i = Len(room) + 1 THEN a ELSE room[i]
    BY <2>1 DEF TypeInv
  <2>3. 1..Len(room) \subseteq 1..Len(room') /\ \A i \in 1..Len(room) : room'[i] = room[i]
    BY <2>2
  <2>4. Phases' /\ Held'
    BY <2>1 DEF Phases, Held
  <2>5. Sent'
    <3>1. \A i \in 1..Len(room') : room'[i] = a \/ \E j \in 1..Len(room) : room[j] = room'[i]
      BY <2>2
    <3> QED BY <2>1, <3>1 DEF Sent
  <2>6. Located'
    BY <2>1, <2>3 DEF Located
  <2> QED BY <2>4, <2>5, <2>6
<1>5. ASSUME NEW a \in Attempt, Refuse(a) PROVE Evidence'
  BY <1>5 DEF Refuse, Phases, Sent, Located, Held
<1>6. CASE Show
  BY <1>6 DEF Show, Phases, Sent, Located, Held
<1>7. ASSUME NEW r \in Reconciler, NEW a \in Attempt, ReadAttempt(r, a) PROVE Evidence'
  <2>1. /\ UNCHANGED <<text, remote, row, sends, found>>
        /\ row[a].nonce # Null /\ target[r] = Null /\ target'[r] = a /\ copy'[r] = row[a]
        /\ \A q \in Reconciler \ {r} : target'[q] = target[q] /\ copy'[q] = copy[q]
    BY <1>7 DEF ReadAttempt, TypeInv
  <2>2. found[r] = Unseen
    BY <2>1 DEF Held
  <2>3. Phases' /\ Sent'
    BY <2>1 DEF Phases, Sent
  <2>4. Located'
    BY <2>1, <2>2 DEF Located, Unseen
  <2>5. Held'
    BY <2>1, <2>2, PostingAssumption DEF Held, Phases
  <2> QED BY <2>3, <2>4, <2>5
<1>8. ASSUME NEW r \in Reconciler, Scan(r) PROVE Evidence'
  <2>0. PICK n \in 0..visible, complete \in BOOLEAN :
          \E bare \in SUBSET (1..n) :
            found' = [found EXCEPT ![r] = Observed(target[r], copy[r].nonce, n, bare, complete)]
    BY <1>8 DEF Scan
  <2>1. PICK bare \in SUBSET (1..n) :
          found' = [found EXCEPT ![r] = Observed(target[r], copy[r].nonce, n, bare, complete)]
    BY <2>0
  <2>2. target[r] \in Attempt /\ n \in Nat /\ n <= Len(room)
    BY <1>8 DEF Scan, TypeInv
  <2>3. /\ UNCHANGED <<text, remote, row, sends, target, copy>>
        /\ \A q \in Reconciler \ {r} : found'[q] = found[q]
        /\ found'[r] = Observed(target[r], copy[r].nonce, n, bare, complete) /\ target[r] # Null
    BY <1>8, <2>1 DEF Scan, TypeInv
  <2>4. found'[r].status = "reconciled_posted" =>
          found'[r].seq \in 1..Len(room) /\ room[found'[r].seq] = target[r]
    <3>1. /\ TypeInv /\ NoncesDiffer
          /\ copy[r].nonce # Null /\ copy[r].nonce = nonce[target[r]]
      BY <2>3 DEF NonceInv, Held
    <3> DEFINE m == copy[r].nonce
               seen == Observed(target[r], m, n, bare, complete)
    <3>2. seen.status = "reconciled_posted" =>
            seen.seq \in 1..Len(room) /\ room[seen.seq] = target[r]
      <4> HIDE DEF Evidence, m
      <4>1. m # Null /\ m = nonce[target[r]]
        BY <3>1 DEF m
      <4> QED BY <2>2, <3>1, <4>1, ObservedOwn
    <3> QED BY <2>3, <3>2
  <2>5. Phases' /\ Sent'
    BY <2>3 DEF Phases, Sent
  <2>6. Located'
    BY <2>3, <2>4 DEF Located
  <2>7. Held'
    BY <2>3 DEF Held
  <2> QED BY <2>5, <2>6, <2>7
<1>9. ASSUME NEW r \in Reconciler, Quit(r) PROVE Evidence'
  <2>1. /\ target'[r] = Null /\ copy'[r] = NoEntry /\ found'[r] = Unseen
        /\ \A q \in Reconciler \ {r} :
             target'[q] = target[q] /\ copy'[q] = copy[q] /\ found'[q] = found[q]
        /\ UNCHANGED <<text, remote, row, sends>>
    BY <1>9 DEF Quit, Forget, TypeInv
  <2>2. Phases' /\ Sent'
    BY <2>1 DEF Phases, Sent
  <2>3. Located'
    BY <2>1 DEF Located, NoEntry, Unseen, Entry
  <2>4. Held'
    BY <2>1 DEF Held
  <2> QED BY <2>2, <2>3, <2>4
<1> QED BY <1>1, <1>2, <1>3, <1>4, <1>5, <1>6, <1>7, <1>8, <1>9 DEF OtherStep

LEMMA NextEvidence == Evidence /\ [Next]_vars => Evidence'
<1> SUFFICES ASSUME Evidence, [Next]_vars PROVE Evidence'
  OBVIOUS
<1>1. TypeInv /\ TypeInv' /\ NonceInv'
  BY NextTypeInv, NextNonceInv DEF Evidence
<1>2. CASE UNCHANGED vars
  BY <1>1, <1>2 DEF vars, remote, sends, reviews, Evidence, Phases, Sent, Located, Held
<1> QED BY <1>1, <1>2, StepKinds, FinishedEvidence, WrittenEvidence, OtherEvidence

LEMMA AlwaysEvidence == Spec => []Evidence
  BY InitEvidence, NextEvidence, PTL DEF Spec

\* Every variable keeps its type, and every seq recorded is one of the room.
THEOREM TypeCorrect == Spec => []TypeOK
<1>1. Evidence /\ Clean => TypeOK
  <2> SUFFICES ASSUME Evidence, Clean PROVE TypeOK
    OBVIOUS
  <2>1. row \in [Attempt -> [status : Strong \union Weak \union {"none"},
                             nonce : 1..MaxNonce \union {Null},
                             seq : 1..Len(room) \union {Null}]]
    BY DEF Evidence, Located, TypeInv, Rows, Nonces
  <2>2. visible \in 0..Len(room) /\ lastNonce \in 0..MaxNonce /\ saw \in [Attempt -> 0..Len(room)]
    BY PostingAssumption DEF Clean, TypeInv
  <2> QED BY <2>1, <2>2 DEF TypeOK, Clean, TypeInv, Nonces
<1>2. Init => Clean
  BY InitTypeInv DEF Init, Clean
<1> QED BY <1>1, <1>2, NextClean, AlwaysEvidence, PTL DEF Spec

\* Confirmed evidence is true: a strong row names the seq of a message with its text, of this
\* very attempt unless it says "already-posted", and then the attempt sent nothing.
THEOREM ConfirmedIsTrue == Spec => []StrongIsTrue
<1>1. Evidence => StrongIsTrue
  <2> SUFFICES ASSUME Evidence, NEW a \in Attempt, row[a].status \in Strong
               PROVE  /\ row[a].seq \in 1..Len(room)
                      /\ text[room[row[a].seq]] = text[a]
                      /\ IF row[a].status = "already-posted" THEN a \notin wire \union Range(room)
                         ELSE room[row[a].seq] = a
    BY DEF StrongIsTrue
  <2>1. a \in Range(room) => \E i \in 1..Len(room) : room[i] = a
    BY DEF Range, Evidence, TypeInv
  <2> QED BY <2>1 DEF Evidence, Located, Sent
<1> QED BY <1>1, AlwaysEvidence, PTL

\* Only a reconcile that read the row before it was confirmed weakens a confirmed row.
THEOREM OnlyStaleWeakens == Spec => WeakenedByStaleOnly
<1> DEFINE Guarded ==
      \A a \in Attempt : row[a].status \in Strong /\ row'[a].status \notin Strong =>
        \E r \in Reconciler :
          /\ target[r] = a /\ copy[r].status \in Weak
          /\ found[r].status = "reconciled_absent"
<1>1. Evidence /\ [Next]_vars => Guarded
  <2> SUFFICES ASSUME Evidence, [Next]_vars, NEW a \in Attempt,
                      row[a].status \in Strong, row'[a].status \notin Strong
               PROVE  \E r \in Reconciler :
                        /\ target[r] = a /\ copy[r].status \in Weak
                        /\ found[r].status = "reconciled_absent"
    OBVIOUS
  <2> USE DEF Evidence
  <2>1. pc[a] = "done"
    <3>1. pc[a] = "start" => row[a].status = "none"
      BY DEF Phases, NoEntry, Entry
    <3>2. pc[a] \in Busy => row[a].status = "started"
      BY DEF Phases, Entry
    <3>3. "none" \notin Strong /\ "started" \notin Strong
      BY DEF Strong
    <3> QED BY <3>1, <3>2, <3>3 DEF TypeInv, Busy
  <2>2. CASE Finished
    BY <2>1, <2>2 DEF Finished, TypeInv
  <2>3. CASE Written
    <3>1. PICK r \in Reconciler :
            /\ found[r] # Unseen
            /\ row' = row \/ \E e \in Rows : Verdict(r, e) /\ row' = [row EXCEPT ![target[r]] = e]
      BY <2>3 DEF Written
    <3>2. PICK e \in Rows : Verdict(r, e) /\ row' = [row EXCEPT ![target[r]] = e]
      BY <3>1
    <3>3. target[r] = a /\ row'[a] = e
      BY <3>2 DEF TypeInv
    <3>4. found[r].status = "reconciled_absent" /\ copy[r].status \notin Strong
      BY <3>2, <3>3, Statuses DEF Verdict, Entry
    <3>5. copy[r].status \in Strong \union Weak
      BY <3>1 DEF Held
    <3> QED BY <3>3, <3>4, <3>5
  <2>4. CASE OtherStep
    <3>1. ASSUME NEW b \in Attempt, Start(b) PROVE row'[a] = row[a]
      BY <2>1, <3>1 DEF Start, TypeInv
    <3>2. ASSUME NEW b \in Attempt, \/ PreflightAbsent(b) \/ TakeNonce(b) \/ Transmit(b)
                                    \/ Die(b) \/ Accept(b) \/ Refuse(b)
          PROVE  row'[a] = row[a]
      BY <3>2 DEF PreflightAbsent, TakeNonce, Transmit, Die, Accept, Refuse
    <3>3. CASE Show
      BY <3>3 DEF Show
    <3>4. ASSUME NEW r \in Reconciler,
                 (\E b \in Attempt : ReadAttempt(r, b)) \/ Scan(r) \/ Quit(r)
          PROVE  row'[a] = row[a]
      BY <3>4 DEF ReadAttempt, Scan, Quit
    <3> QED BY <2>4, <3>1, <3>2, <3>3, <3>4 DEF OtherStep
  <2>5. CASE UNCHANGED vars
    BY <2>5 DEF vars
  <2> QED BY <2>2, <2>3, <2>4, <2>5, StepKinds
<1>2. Evidence /\ [Next]_vars => [Guarded]_vars
  BY <1>1
<1> HIDE DEF Guarded
<1>3. Spec => [][Guarded]_vars
  BY <1>2, AlwaysEvidence, PTL DEF Spec
<1> QED BY <1>3 DEF Guarded, WeakenedByStaleOnly

-----------------------------------------------------------------------------
(* The refinement.                                                         *)

\* Every step of a delivery is a step of signed posting.
LEMMA DeliversAsSent == ASSUME NEW a \in Attempt, Deliver(a) PROVE Send(a)
  BY DEF Deliver, BeginDelivery, SearchDestination, SignDelivery, PostDelivery, Send

LEMMA MessagingIsNext == Messaging => Next
<1>1. ASSUME NEW a \in Attempt, Deliver(a) \/ (~ Delivers(a) /\ Send(a)) \/ Accept(a) \/ Refuse(a)
      PROVE  Next
  BY <1>1, DeliversAsSent DEF Next
<1>2. ASSUME NEW r \in Reconciler, ReconcileDelivery(r) PROVE Next
  BY <1>2 DEF ReconcileDelivery, ReadDelivery, ScanDestination, SettleDelivery, Reconcile, Next
<1>3. CASE Show
  BY <1>3 DEF Next
<1> QED BY <1>1, <1>2, <1>3 DEF Messaging

LEMMA DeliveryStep == [DeliveryNext]_allVars => [Next]_vars
<1> SUFFICES ASSUME [DeliveryNext]_allVars PROVE [Next]_vars
  OBVIOUS
<1>1. CASE Messaging
  BY <1>1, MessagingIsNext
<1>2. ASSUME NEW a \in Attempt, LookForImport(a) \/ LookForExecution(a) PROVE UNCHANGED vars
  BY <1>2 DEF LookForImport, LookForExecution, Look
<1>3. ASSUME NEW r \in Request, CompleteExecution(r) PROVE UNCHANGED vars
  BY <1>3 DEF CompleteExecution
<1>4. CASE UNCHANGED allVars
  BY <1>4 DEF allVars
<1> QED BY <1>1, <1>2, <1>3, <1>4 DEF DeliveryNext

\* Deliveries and posts over one nonce counter behave as posts do.
THEOREM DeliveryIsPosting == DeliverySpec => Spec
<1>1. DeliveryInit => Init
  BY DEF DeliveryInit
<1> QED BY <1>1, DeliveryStep, PTL DEF DeliverySpec, Spec

\* Also of deliveries and posts together no nonce is used twice.
THEOREM DeliveryNonces == DeliverySpec => []NoncesDiffer
  BY DeliveryIsPosting, FreshNonces, PTL

\* A result, like a post, is repeated only by overlap.
THEOREM DeliveryRepeats == DeliverySpec => []RepeatsOverlap
  BY DeliveryIsPosting, RepeatsNeedOverlap, PTL

\* A confirmed delivery row names its message, and is weakened by a stale reconcile only.
THEOREM DeliveryEvidence == DeliverySpec => []StrongIsTrue /\ WeakenedByStaleOnly
  BY DeliveryIsPosting, ConfirmedIsTrue, OnlyStaleWeakens, PTL

-----------------------------------------------------------------------------
(* Types.                                                                  *)

LEMMA ImportFacts ==
  /\ Import!NoImport = [version |-> Null, route |-> Null]
  /\ \A v, g : Import!ImportRow(v, g) = [version |-> v, route |-> g]
  /\ Import!ImportRows = {Import!NoImport} \union [version : Version, route : Route \union {Null}]
BY DEF Import!NoImport, Import!ImportRow, Import!ImportRows

\* A full row of the import table stays.
LEMMA ImportsStay ==
  ASSUME DeliveryTypeOK, Import!Next, NEW s \in Request
  PROVE  /\ imported' \in [Request -> Import!ImportRows]
         /\ imported[s].route # Null => imported'[s] = imported[s]
<1>1. PICK r \in Request, v \in Version, g \in Route :
        /\ imported[r].route = Null
        /\ imported' = [imported EXCEPT ![r] = Import!ImportRow(v, g)]
  BY ImportFacts DEF Import!Next, Import!Record, Import!SetRoute
<1>2. Import!ImportRow(v, g) \in Import!ImportRows
  BY ImportFacts
<1> QED BY <1>1, <1>2 DEF DeliveryTypeOK

LEMMA DeliveryInitTypes == DeliveryInit => DeliveryTypeOK
<1>1. ASSUME NEW v \in Version PROVE Import!ImportRow(v, Null) \in Import!ImportRows
  BY ImportFacts
<1> QED BY <1>1, ImportFacts DEF DeliveryInit, DeliveryTypeOK, Import!Init

LEMMA DeliveryNextTypes == DeliveryTypeOK /\ [DeliveryNext]_allVars => DeliveryTypeOK'
<1> SUFFICES ASSUME DeliveryTypeOK, [DeliveryNext]_allVars PROVE DeliveryTypeOK'
  OBVIOUS
<1>1. CASE Messaging /\ UNCHANGED results
  BY <1>1 DEF results, DeliveryTypeOK
<1>2. ASSUME NEW a \in Attempt, LookForImport(a) \/ LookForExecution(a) PROVE DeliveryTypeOK'
  BY <1>2 DEF LookForImport, LookForExecution, Look, DeliveryTypeOK
<1>3. ASSUME NEW r \in Request, CompleteExecution(r) PROVE DeliveryTypeOK'
  BY <1>3 DEF CompleteExecution, DeliveryTypeOK
<1>4. CASE Import!Next /\ UNCHANGED <<vars, completed, preview>>
  <2>1. PICK s \in Request : TRUE
    BY <1>4 DEF Import!Next
  <2>2. imported' \in [Request -> Import!ImportRows]
    BY <1>4, <2>1, ImportsStay
  <2> QED BY <1>4, <2>2 DEF DeliveryTypeOK
<1>5. CASE UNCHANGED allVars
  BY <1>5 DEF allVars, results, DeliveryTypeOK
<1> QED BY <1>1, <1>2, <1>3, <1>4, <1>5 DEF DeliveryNext

\* The variables of delivery have their types.
THEOREM DeliveryTypes == DeliverySpec => []DeliveryTypeOK
  BY DeliveryInitTypes, DeliveryNextTypes, PTL DEF DeliverySpec

-----------------------------------------------------------------------------
(* What is delivered.                                                      *)

\* What a delivery has looked up stays true while it goes on.
LookedUp ==
  \A a \in Attempt :
    /\ preview[a] # "none" => Delivers(a)
    /\ preview[a] = "no import" => text[a].version = Executed
    /\ preview[a] = "ready" => OnRecord(text[a])

\* Whatever has begun was ready, all the way into the room.
ReadyBefore ==
  \A a \in Attempt : Delivers(a) /\ preview[a] # "ready" =>
    pc[a] = "start" /\ a \notin wire /\ \A i \in 1..Len(room) : room[i] # a

RecordInv == TypeInv /\ DeliveryTypeOK /\ LookedUp /\ ReadyBefore

\* How a step of the messaging may move one attempt.
Moves(a) ==
  /\ pc[a] = "start" /\ pc'[a] # "start" => ~ Delivers(a) \/ preview[a] = "ready"
  /\ a \in wire' /\ a \notin wire => pc[a] # "start"
  /\ \A i \in 1..Len(room') : room'[i] = a => a \in wire \/ \E j \in 1..Len(room) : room[j] = a

LEMMA SameRoom ==
  ASSUME NEW a \in Attempt, pc' = pc, wire' \subseteq wire, room' = room
  PROVE  Moves(a)
  BY DEF Moves

LEMMA MessagingMoves ==
  ASSUME TypeInv, Messaging, NEW a \in Attempt
  PROVE  text' = text /\ Moves(a)
<1> USE DEF remote, sends, reviews
<1>0. text' = text
  BY MessagingIsNext, RoomGrows
<1>1. ASSUME NEW b \in Attempt, Deliver(b) \/ (~ Delivers(b) /\ Send(b)) PROVE Moves(a)
  <2>1. CASE FinalSend(b)
    <3>1. pc[b] # "start" /\ pc' = [pc EXCEPT ![b] = "done"] /\ UNCHANGED <<room, wire>>
      BY <2>1 DEF FinalSend, AlreadyPosted, PreflightFails, SigningFails, PresumedUnsent,
                  Posted, NotConfirmed, Finish
    <3> QED BY <3>1 DEF Moves, TypeInv
  <2>2. CASE Start(b)
    <3>1. pc' = [pc EXCEPT ![b] = "preflight"] /\ UNCHANGED <<room, wire>> /\ pc[b] = "start"
      BY <2>2 DEF Start
    <3>2. Delivers(b) => BeginDelivery(b)
      BY <1>1, <3>1 DEF Deliver, SearchDestination, SignDelivery, PostDelivery, PreflightAbsent,
           AlreadyPosted, PreflightFails, TakeNonce, SigningFails, Transmit, PresumedUnsent,
           Posted, NotConfirmed, Die
    <3> QED BY <3>1, <3>2 DEF Moves, TypeInv, BeginDelivery
  <2>3. CASE PreflightAbsent(b) \/ TakeNonce(b) \/ Die(b)
    <3>1. UNCHANGED <<room, wire>> /\ pc[b] # "start"
          /\ \E next : pc' = [pc EXCEPT ![b] = next]
      BY <2>3 DEF PreflightAbsent, TakeNonce, Die
    <3> QED BY <3>1 DEF Moves, TypeInv
  <2>4. CASE Transmit(b)
    BY <2>4 DEF Transmit, Moves, TypeInv
  <2> QED BY <1>1, <2>1, <2>2, <2>3, <2>4, DeliversAsSent DEF Send, FinalSend
<1>2. ASSUME NEW b \in Attempt, Accept(b) PROVE Moves(a)
  <2>1. room' = Append(room, b) /\ b \in wire /\ wire' \subseteq wire /\ pc' = pc
    BY <1>2 DEF Accept
  <2>2. ASSUME NEW i \in 1..Len(room'), room'[i] = a
        PROVE  a \in wire \/ \E j \in 1..Len(room) : room[j] = a
    <3>1. room \in Seq(Attempt) /\ Len(room') = Len(room) + 1
      BY <2>1 DEF TypeInv
    <3>2. CASE i \in 1..Len(room)
      BY <3>1, <3>2, <2>1, <2>2
    <3>3. CASE i = Len(room) + 1
      BY <3>1, <3>3, <2>1, <2>2
    <3> QED BY <3>1, <3>2, <3>3
  <2> QED BY <2>1, <2>2 DEF Moves
<1>3. ASSUME NEW b \in Attempt, Refuse(b) PROVE Moves(a)
  BY <1>3, SameRoom DEF Refuse
<1>4. CASE Show
  BY <1>4, SameRoom DEF Show
<1>5. ASSUME NEW r \in Reconciler, ReconcileDelivery(r) PROVE Moves(a)
  <2>1. pc' = pc /\ wire' = wire /\ room' = room
    BY <1>5 DEF ReconcileDelivery, ReadDelivery, ScanDestination, SettleDelivery,
                ReadAttempt, Scan, WriteBack, Quit
  <2> QED BY <2>1, SameRoom
<1> QED BY <1>0, <1>1, <1>2, <1>3, <1>4, <1>5 DEF Messaging

\* What is on record stays on record.
LEMMA RecordStays ==
  ASSUME DeliveryTypeOK, DeliveryNext, NEW t \in Result, OnRecord(t)
  PROVE  OnRecord(t)'
<1>1. t.request \in Request /\ (t.version # Executed => t.route \in Route)
  BY DEF Result, ExecutedResult
<1>2. completed \subseteq completed'
  BY DEF DeliveryNext, CompleteExecution, results, LookForImport, LookForExecution, Look
<1>3. CASE t.version = Executed
  BY <1>2, <1>3 DEF OnRecord
<1>4. CASE t.version # Executed
  <2>1. imported[t.request] = RowOf(t) /\ imported[t.request].route # Null
    BY <1>1, <1>4, ImportFacts, DeliveryAssumption DEF OnRecord, Stored, RowOf
  <2>2. imported' = imported \/ Import!Next
    BY DEF DeliveryNext, CompleteExecution, results, LookForImport, LookForExecution, Look
  <2>3. imported'[t.request] = RowOf(t)
    BY <2>1, <2>2, <1>1, ImportsStay
  <2> QED BY <1>4, <2>3 DEF OnRecord, Stored, RowOf, Import!ImportRow
<1> QED BY <1>3, <1>4

LEMMA RecordInit == DeliveryInit => RecordInv
<1> SUFFICES ASSUME DeliveryInit PROVE RecordInv
  OBVIOUS
<1>1. TypeInv /\ DeliveryTypeOK
  BY InitTypeInv, DeliveryInitTypes DEF DeliveryInit
<1>2. LookedUp /\ ReadyBefore
  BY DEF DeliveryInit, Init, LookedUp, ReadyBefore
<1> QED BY <1>1, <1>2 DEF RecordInv

LEMMA RecordNext == RecordInv /\ [DeliveryNext]_allVars => RecordInv'
<1> SUFFICES ASSUME RecordInv, [DeliveryNext]_allVars PROVE RecordInv'
  OBVIOUS
<1>t. TypeInv' /\ DeliveryTypeOK' /\ TypeInv /\ DeliveryTypeOK
  BY NextTypeInv, DeliveryStep, DeliveryNextTypes DEF RecordInv
<1>1. CASE UNCHANGED allVars
  BY <1>t, <1>1 DEF allVars, vars, remote, sends, results, RecordInv, LookedUp, ReadyBefore,
       Delivers, OnRecord, Stored
<1>2. CASE DeliveryNext
  <2>s. text' = text
    BY <1>t, DeliveryStep, RoomGrows
  <2>1. LookedUp'
    <3> SUFFICES ASSUME NEW a \in Attempt
                 PROVE  /\ preview'[a] # "none" => Delivers(a)
                        /\ preview'[a] = "no import" => text[a].version = Executed
                        /\ preview'[a] = "ready" => OnRecord(text[a])'
      BY <2>s DEF LookedUp, Delivers
    <3>1. CASE preview'[a] = preview[a]
      <4>1. /\ preview[a] # "none" => Delivers(a)
            /\ preview[a] = "no import" => text[a].version = Executed
            /\ preview[a] = "ready" => OnRecord(text[a])
        BY DEF RecordInv, LookedUp
      <4>2. ASSUME preview[a] = "ready" PROVE OnRecord(text[a])'
        <5>1. PICK t : t = text[a]
          OBVIOUS
        <5>2. t \in Result /\ OnRecord(t)
          BY <4>1, <4>2, <5>1 DEF Delivers
        <5>3. OnRecord(t)'
          BY <1>2, <1>t, <5>2, RecordStays
        <5> QED BY <2>s, <5>1, <5>3 DEF OnRecord, Stored, RowOf, Import!ImportRow
      <4> QED BY <3>1, <4>1, <4>2
    <3>2. ASSUME NEW b \in Attempt, LookForImport(b), preview'[a] # preview[a]
          PROVE  /\ preview'[a] # "none" => Delivers(a)
                 /\ preview'[a] = "no import" => text[a].version = Executed
                 /\ preview'[a] = "ready" => OnRecord(text[a])'
      <4>1. b = a /\ UNCHANGED <<completed, imported, text>> /\ Delivers(a)
        BY <3>2, <1>t DEF LookForImport, Look, vars, DeliveryTypeOK
      <4>2. \/ preview'[a] = "ready" /\ text[a].version # Executed /\ Stored(text[a])
            \/ preview'[a] = "no import" /\ text[a].version = Executed
        BY <3>2, <4>1, <1>t DEF LookForImport, Look, DeliveryTypeOK
      <4> QED BY <4>1, <4>2 DEF OnRecord, Stored, RowOf
    <3>3. ASSUME NEW b \in Attempt, LookForExecution(b), preview'[a] # preview[a]
          PROVE  /\ preview'[a] # "none" => Delivers(a)
                 /\ preview'[a] = "no import" => text[a].version = Executed
                 /\ preview'[a] = "ready" => OnRecord(text[a])'
      <4>1. /\ b = a /\ UNCHANGED <<completed, imported, text>> /\ preview'[a] = "ready"
            /\ preview[a] = "no import" /\ text[a].request \in completed
        BY <3>3, <1>t DEF LookForExecution, Look, vars, DeliveryTypeOK
      <4>2. Delivers(a) /\ text[a].version = Executed
        BY <4>1 DEF RecordInv, LookedUp
      <4> QED BY <4>1, <4>2 DEF OnRecord
    <3>4. preview' = preview \/ \E b \in Attempt : LookForImport(b) \/ LookForExecution(b)
      BY <1>2 DEF DeliveryNext, CompleteExecution, results
    <3> QED BY <3>1, <3>2, <3>3, <3>4
  <2>2. ReadyBefore'
    <3> SUFFICES ASSUME NEW a \in Attempt, Delivers(a), preview'[a] # "ready"
                 PROVE  pc'[a] = "start" /\ a \notin wire'
                        /\ \A i \in 1..Len(room') : room'[i] # a
      BY <2>s DEF ReadyBefore, Delivers
    <3>1. CASE Messaging /\ UNCHANGED results
      <4>1. Moves(a) /\ preview[a] # "ready"
        BY <3>1, <1>t, MessagingMoves DEF results
      <4> QED BY <4>1 DEF Moves, RecordInv, ReadyBefore
    <3>2. ASSUME UNCHANGED <<pc, wire, room>>, preview[a] # "ready"
          PROVE  pc'[a] = "start" /\ a \notin wire' /\ \A i \in 1..Len(room') : room'[i] # a
      BY <3>2 DEF RecordInv, ReadyBefore
    <3>3. ASSUME NEW b \in Attempt, LookForImport(b) \/ LookForExecution(b)
          PROVE  UNCHANGED <<pc, wire, room>> /\ preview[a] # "ready"
      BY <3>3, <1>t DEF LookForImport, LookForExecution, Look, vars, remote, sends, DeliveryTypeOK
    <3>4. CASE (\E r \in Request : CompleteExecution(r))
               \/ (Import!Next /\ UNCHANGED <<vars, completed, preview>>)
      BY <3>2, <3>4 DEF CompleteExecution, vars, remote, sends
    <3> QED BY <1>2, <3>1, <3>2, <3>3, <3>4 DEF DeliveryNext
  <2> QED BY <1>t, <2>1, <2>2 DEF RecordInv
<1> QED BY <1>1, <1>2

\* Every result in a reply room is the one the database holds, and goes where it says.
THEOREM Delivered == DeliverySpec => []DeliveredIsOnRecord
<1>1. RecordInv => DeliveredIsOnRecord
  <2> SUFFICES ASSUME RecordInv, NEW i \in 1..Len(room), text[room[i]] \in Result
               PROVE  OnRecord(text[room[i]])
    BY DEF DeliveredIsOnRecord
  <2>1. room[i] \in Attempt
    BY DEF RecordInv, TypeInv
  <2>2. preview[room[i]] = "ready"
    BY <2>1 DEF RecordInv, ReadyBefore, Delivers
  <2> QED BY <2>1, <2>2 DEF RecordInv, LookedUp
<1> QED BY <1>1, RecordInit, RecordNext, PTL DEF DeliverySpec
=============================================================================
