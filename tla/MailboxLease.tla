--------------------------- MODULE MailboxLease ---------------------------
(***************************************************************************)
(* What the one row of mailbox_intake_worker promises to its clients: an   *)
(* exclusive lease that expires.  A holder is replaced only after it gave  *)
(* the lease back or let it run out; renewing is the holder's right even   *)
(* after expiry, as long as nobody took the row over.  `left' is           *)
(* lease_expires_at - now, so the lease is valid while left > 0.  A grant  *)
(* or a renewal may come with part of its time, or all of it, gone, since  *)
(* its client read the clock earlier; but no renewal moves the expiry      *)
(* back.  MailboxWorker implements this specification.                     *)
(***************************************************************************)
EXTENDS Integers

CONSTANTS Worker, NoWorker, Lease,
          Overdue  \* how far `left' follows a lease past its expiry

VARIABLES holder, left

vars == <<holder, left>>

Init == holder = NoWorker /\ left = -Overdue

Grant(w) == /\ holder = NoWorker \/ left <= 0
            /\ holder' = w
            /\ left' \in -Overdue..Lease

Renew == /\ holder \in Worker
         /\ left' \in left..Lease
         /\ UNCHANGED holder

Release == /\ holder \in Worker
           /\ holder' = NoWorker
           /\ left' = -Overdue

Pass == /\ left > -Overdue
        /\ left' = left - 1
        /\ UNCHANGED holder

Next == (\E w \in Worker : Grant(w)) \/ Renew \/ Release \/ Pass

Spec == Init /\ [][Next]_vars
=============================================================================
