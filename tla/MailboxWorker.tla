--------------------------- MODULE MailboxWorker ---------------------------
(***************************************************************************)
(* The supervised mailbox worker (worker.py) and the lease it keeps in the *)
(* mailbox_intake_worker row (state.py).  Every `worker run' is a process  *)
(* of its own with a fresh instance id; all of them share one SQLite row.  *)
(*                                                                         *)
(* One action per transaction or read of the shared database: what another *)
(* process commits between two of them is visible to the second.           *)
(*                                                                         *)
(* Time is kept relative to now (lease_expires_at - now, the rest of a     *)
(* sleep, the time since a step), so Tick moves every timer.  A lease is   *)
(* counted from a clock reading made before its transaction begins: the    *)
(* step that commits chooses that moment among those since the step before *)
(* it, and the lag of the reading is what the lease has lost already.      *)
(*                                                                         *)
(* An instance id is used again only when no row holds it, which no reader *)
(* can tell from a fresh uuid4.                                            *)
(***************************************************************************)
EXTENDS Integers

CONSTANTS
  Worker,         \* worker processes (instance ids)
  NoWorker,       \* the NULL instance_id of a released row
  PollInterval,   \* seconds between successful polls, in ticks
  MaxBackoff,     \* longest sleep after failed polls
  MinLease,       \* the 60 s floor of the lease
  MaxHold,        \* bound: longest hold-up of a process that is about to write the row
  MaxExponent,    \* 2 ** n of this n no longer converts to a float (1024)
  MaxInterrupts   \* bound: kills and stop signals in one behaviour

Lease == IF MinLease < 2 * PollInterval THEN 2 * PollInterval ELSE MinLease

ASSUME WorkerAssumption ==
  /\ NoWorker \notin Worker
  /\ PollInterval \in Nat \ {0} /\ MaxBackoff \in Nat /\ MaxBackoff >= PollInterval
  /\ MinLease \in Nat \ {0}
  /\ MaxHold \in Nat
  /\ MaxExponent \in Nat \ {0}
  /\ MaxInterrupts \in Nat

VARIABLES
  intake,      \* mailbox_intake_activation of mb-flop-bench
  supervised,  \* the same table's row for supervised continuous polling
  holder,      \* mailbox_intake_worker.instance_id
  left,        \* lease_expires_at - now, followed down to -MaxHold (where it is NULL, too)
  failures,    \* consecutive_failures: survives release and take-over
  pc,          \* where each process stands
  once,        \* started with --once
  stop,        \* the stop event its signal handler sets
  delay,       \* rest of its sleep, or the sleep it has just computed
  since,       \* time since its last step, or since the clock reading its poll began with
  late,        \* history: polls it began since supervised polling was disabled, up to 2
  interrupts   \* history: kills and stop signals so far

row   == <<holder, left, failures>>
local == <<pc, once, stop, delay, since, late>>
vars  == <<intake, supervised, row, local, interrupts>>

PCs == {"idle", "acquire", "loop", "begin", "polling", "ok", "failed",
        "record", "sleep", "release", "dead"}

Goto(w, label) == pc' = [pc EXCEPT ![w] = label]

\* The process is gone, and what it had in memory with it.
Leave(w, label) ==
  /\ Goto(w, label)
  /\ once' = [once EXCEPT ![w] = FALSE]
  /\ stop' = [stop EXCEPT ![w] = FALSE]
  /\ delay' = [delay EXCEPT ![w] = 0]
  /\ since' = [since EXCEPT ![w] = 0]
  /\ late' = [late EXCEPT ![w] = 0]

Init ==
  /\ intake = TRUE /\ supervised = FALSE
  /\ holder = NoWorker /\ left = -MaxHold /\ failures = 0
  /\ pc = [w \in Worker |-> "idle"]
  /\ once = [w \in Worker |-> FALSE]
  /\ stop = [w \in Worker |-> FALSE]
  /\ delay = [w \in Worker |-> 0]
  /\ since = [w \in Worker |-> 0]
  /\ late = [w \in Worker |-> 0]
  /\ interrupts = 0

-----------------------------------------------------------------------------
(* Operator commands.                                                      *)

SetIntake(on) ==
  /\ intake' = on
  /\ UNCHANGED <<supervised, row, local, interrupts>>

\* worker_activate refuses while mailbox intake is inactive.
WorkerActivate ==
  /\ intake
  /\ supervised' = TRUE
  /\ UNCHANGED <<intake, row, local, interrupts>>

WorkerDeactivate ==
  /\ supervised' = FALSE
  /\ late' = IF supervised THEN [w \in Worker |-> 0] ELSE late
  /\ UNCHANGED <<intake, row, pc, once, stop, delay, since, interrupts>>

-----------------------------------------------------------------------------
(* The lease transactions of state.py.                                     *)

\* Faults: the expiry compared off by one; the expiry not looked at.
ValidOtherEarly(w, lag) == holder # NoWorker /\ holder # w /\ left > 1 - lag
ValidOtherForever(w, lag) == holder # NoWorker /\ holder # w

\* lease_expires_at > now, for the now that was read lag ago.
ValidOther(w, lag) == holder # NoWorker /\ holder # w /\ left > -lag

AcquireLease(w, lag) ==
  /\ holder' = w
  /\ left' = Lease - lag
  /\ UNCHANGED failures

\* Fault: an upsert that does not compare the instance id.
UpdateRowUnchecked(w, newFailures, lag) ==
  holder' = w /\ left' = Lease - lag /\ failures' = newFailures

\* update_mailbox_worker compares the instance id, not the expiry; what it writes may have
\* expired already.
UpdateRow(w, newFailures, lag) ==
  IF holder = w
  THEN left' = Lease - lag /\ failures' = newFailures /\ UNCHANGED holder
  ELSE UNCHANGED row

ReleaseLease(w) ==
  IF holder = w
  THEN holder' = NoWorker /\ left' = -MaxHold /\ UNCHANGED failures
  ELSE UNCHANGED row

\* min(max_backoff, poll_interval * 2 ** (failures - 1)); the CLI adds no jitter.
Delay(n) ==
  LET base == PollInterval * 2^(n - 1)
  IN  IF base \in PollInterval..MaxBackoff THEN base ELSE MaxBackoff

-----------------------------------------------------------------------------
(* run_worker.                                                             *)

Launch(w, single) ==
  /\ pc[w] = "idle"
  /\ single \/ supervised
  /\ Goto(w, "acquire")
  /\ once' = [once EXCEPT ![w] = single]
  /\ UNCHANGED <<intake, supervised, row, stop, delay, since, late, interrupts>>

Acquire(w) ==
  /\ pc[w] = "acquire"
  /\ \E lag \in 0..since[w] :
       IF ValidOther(w, lag)
       THEN Leave(w, "idle") /\ UNCHANGED row
       ELSE /\ AcquireLease(w, lag)
            /\ Goto(w, "loop")
            /\ since' = [since EXCEPT ![w] = 0]
            /\ UNCHANGED <<once, stop, delay, late>>
  /\ UNCHANGED <<intake, supervised, interrupts>>

\* Fault: supervised polling checked at start only.
MayContinueUnsupervised(w) == ~stop[w]

MayContinue(w) == ~stop[w] /\ (once[w] \/ supervised)

LoopTop(w) ==
  /\ pc[w] = "loop"
  /\ Goto(w, IF MayContinue(w) THEN "begin" ELSE "release")
  /\ UNCHANGED <<intake, supervised, row, once, stop, delay, since, late, interrupts>>

\* The heartbeat that opens a poll, dated from a clock reading before the transaction; a
\* lost lease raises and runs the finally block.
BeginPoll(w) ==
  /\ pc[w] = "begin"
  /\ \E lag \in 0..since[w] : /\ UpdateRow(w, failures, lag)
                             /\ since' = [since EXCEPT ![w] = IF holder = w THEN lag ELSE 0]
  /\ Goto(w, IF holder = w THEN "polling" ELSE "release")
  /\ late' = IF holder = w /\ ~once[w] /\ ~supervised
             THEN [late EXCEPT ![w] = IF @ = 0 THEN 1 ELSE 2] ELSE late
  /\ UNCHANGED <<intake, supervised, once, stop, delay, interrupts>>

\* poll_mailbox returns (or raises, which counts as incomplete).
EndPoll(w) ==
  /\ pc[w] = "polling"
  /\ \E outcome \in {"ok", "failed"} : Goto(w, outcome)
  /\ since' = [since EXCEPT ![w] = 0]
  /\ UNCHANGED <<intake, supervised, row, once, stop, delay, late, interrupts>>

AfterPoll(w) == /\ Goto(w, IF once[w] THEN "release" ELSE "sleep")
                /\ since' = [since EXCEPT ![w] = 0]

\* The result of update_mailbox_worker is ignored here: a lost lease goes unnoticed.
RecordSuccess(w) ==
  /\ pc[w] = "ok"
  /\ \E lag \in 0..since[w] : UpdateRow(w, 0, lag)
  /\ AfterPoll(w)
  /\ delay' = [delay EXCEPT ![w] = PollInterval]
  /\ UNCHANGED <<intake, supervised, once, stop, late, interrupts>>

\* Fault: no limit on the exponent seen.
ReadFailuresOffByOne(w) ==
  /\ pc[w] = "failed"
  /\ failures <= MaxExponent
  /\ Goto(w, "record")
  /\ delay' = [delay EXCEPT ![w] = Delay(failures + 1)]
  /\ UNCHANGED <<intake, supervised, row, once, stop, since, late, interrupts>>

\* The failure count is read in one transaction and incremented in the next.  Past
\* MaxExponent the product poll_interval * 2 ** n raises OverflowError before the update.
ReadFailures(w) ==
  /\ pc[w] = "failed"
  /\ IF failures < MaxExponent
     THEN Goto(w, "record") /\ delay' = [delay EXCEPT ![w] = Delay(failures + 1)]
     ELSE Goto(w, "release") /\ UNCHANGED delay
  /\ UNCHANGED <<intake, supervised, row, once, stop, since, late, interrupts>>

RecordFailure(w) ==
  /\ pc[w] = "record"
  /\ \E lag \in 0..since[w] : UpdateRow(w, failures + 1, lag)
  /\ AfterPoll(w)
  /\ UNCHANGED <<intake, supervised, once, stop, delay, late, interrupts>>

\* Fault: stop.wait() without its timeout.
WakeOnSignal(w) ==
  /\ pc[w] = "sleep"
  /\ stop[w]
  /\ Goto(w, "loop")
  /\ delay' = [delay EXCEPT ![w] = 0]
  /\ UNCHANGED <<intake, supervised, row, once, stop, since, late, interrupts>>

\* stop.wait(delay): the sleep ends early when a signal sets the event.
Wake(w) ==
  /\ pc[w] = "sleep"
  /\ delay[w] = 0 \/ stop[w]
  /\ Goto(w, "loop")
  /\ delay' = [delay EXCEPT ![w] = 0]
  /\ UNCHANGED <<intake, supervised, row, once, stop, since, late, interrupts>>

Release(w) ==
  /\ pc[w] = "release"
  /\ ReleaseLease(w)
  /\ Leave(w, "idle")
  /\ UNCHANGED <<intake, supervised, interrupts>>

-----------------------------------------------------------------------------
(* The environment: signals, kills, restarts and time.                     *)

Interrupt ==
  /\ interrupts < MaxInterrupts
  /\ interrupts' = interrupts + 1

Signal(w) ==
  /\ Interrupt
  /\ pc[w] \notin {"idle", "dead"}
  /\ stop' = [stop EXCEPT ![w] = TRUE]
  /\ UNCHANGED <<intake, supervised, row, pc, once, delay, since, late>>

\* SIGKILL or a power cut: no finally block, the row keeps the dead instance.
Kill(w) ==
  /\ Interrupt
  /\ pc[w] \notin {"idle", "dead"}
  /\ Leave(w, "dead")
  /\ UNCHANGED <<intake, supervised, row>>

Reuse(w) ==
  /\ pc[w] = "dead"
  /\ holder # w
  /\ Goto(w, "idle")
  /\ UNCHANGED <<intake, supervised, row, once, stop, delay, since, late, interrupts>>

Down(n) == IF n > 0 THEN n - 1 ELSE 0

\* Where the clock has been, or will be, read for a transaction that is still to come.
Pending == {"acquire", "begin", "ok", "record"}

\* A poll may outlast its lease by any time; how long it runs is followed up to the lease.
Elapsed(w) ==
  IF pc[w] \in Pending \/ (pc[w] = "polling" /\ since[w] < Lease) THEN since[w] + 1 ELSE since[w]

Tick ==
  /\ \A w \in Worker : pc[w] \in Pending => since[w] < MaxHold
  /\ left' = IF left > -MaxHold THEN left - 1 ELSE left
  /\ delay' = [w \in Worker |-> IF pc[w] = "sleep" THEN Down(delay[w]) ELSE delay[w]]
  /\ since' = [w \in Worker |-> Elapsed(w)]
  /\ UNCHANGED <<intake, supervised, holder, failures, pc, once, stop, late, interrupts>>

-----------------------------------------------------------------------------
Step(w) == \/ Acquire(w) \/ LoopTop(w) \/ BeginPoll(w) \/ EndPoll(w)
           \/ RecordSuccess(w) \/ ReadFailures(w) \/ RecordFailure(w)
           \/ Wake(w) \/ Release(w)

Environment(w) == Signal(w) \/ Kill(w) \/ Reuse(w)

Command == (\E on \in BOOLEAN : SetIntake(on)) \/ WorkerActivate \/ WorkerDeactivate

Next == \/ Command
        \/ \E w \in Worker : \/ \E single \in BOOLEAN : Launch(w, single)
                             \/ Step(w)
                             \/ Environment(w)
        \/ Tick

\* A process that runs keeps running, time passes, and the external supervisor
\* starts the persistent worker again whenever it may run.
Fairness == /\ \A w \in Worker : WF_vars(Step(w)) /\ WF_vars(Launch(w, FALSE)) /\ WF_vars(Reuse(w))
            /\ WF_vars(Tick)

Spec == Init /\ [][Next]_vars
FairSpec == Spec /\ Fairness
-----------------------------------------------------------------------------
(* Properties.                                                             *)

FlagsOK == /\ intake \in BOOLEAN /\ supervised \in BOOLEAN
           /\ once \in [Worker -> BOOLEAN] /\ stop \in [Worker -> BOOLEAN]

\* Every variable has its type; the ages and timers stay within their bounds.
TypeOK ==
  /\ FlagsOK
  /\ holder \in Worker \union {NoWorker}
  /\ left \in -MaxHold..Lease
  /\ failures \in 0..MaxExponent
  /\ pc \in [Worker -> PCs]
  /\ delay \in [Worker -> 0..MaxBackoff]
  /\ since \in [Worker -> 0..(Lease + MaxHold)]
  /\ late \in [Worker -> {0, 1, 2}]
  /\ interrupts \in 0..MaxInterrupts

\* Two workers read the mailbox at once only if one of them has been at its poll for a whole
\* lease, counted from the clock reading that dates it: a lease is never shared, whatever was
\* killed, held up before its commit, put to sleep or taken over.  (Nothing stops a worker
\* that outlasts its lease, so more than this is not so.)
Outlasted(w) == since[w] >= Lease

ExclusivePolling ==
  \A v, w \in Worker :
    v # w /\ pc[v] = "polling" /\ pc[w] = "polling" => Outlasted(v) \/ Outlasted(w)

\* A lease is given back only by its holder on its way out, never by a worker that overslept
\* and was replaced; and while it is valid it stays its holder's and only time shortens it:
\* no renewal, however old its clock reading, moves the expiry back.
OnlyHolderReleases ==
  [][\A w \in Worker : holder = w =>
       /\ holder' = NoWorker => pc[w] = "release" /\ pc'[w] = "idle"
       /\ left > 0 /\ holder' # NoWorker => holder' = w /\ (left' >= left \/ Tick)]_vars

\* The row behaves as an expiring exclusive lease (MailboxLease).
Contract == INSTANCE MailboxLease WITH Overdue <- MaxHold
LeaseContract == Contract!Spec

\* "running_workers_exit_after_current_poll_or_sleep" (worker_deactivate): a persistent
\* worker begins at most one more poll after supervised polling is disabled, the one
\* whose check it had already passed.
OneLatePoll == \A w \in Worker : late[w] \in {0, 1}

\* The same promise as liveness: disabled for good, every persistent worker is gone in the end.
DeactivationDrains ==
  <>[]~supervised => <>[](\A w \in Worker : once[w] \/ pc[w] \in {"idle", "dead"})

\* From some point on, no process is held up between two of its own steps: time passes only
\* while every process polls, sleeps or is not running.
Prompt == <>[][Tick => \A w \in Worker : pc[w] \in {"idle", "dead", "polling", "sleep"}]_vars

\* Enabled for good and run promptly, the mailbox is polled again and again: no crash, sleep,
\* lost lease or run of failures leaves the row blocked for every later instance.  (Without
\* Prompt two workers that oversleep every lease can keep taking it from each other.)
PollingResumes ==
  Prompt /\ <>[]supervised => []<>(\E w \in Worker : pc[w] = "polling")

\* A failed poll is recorded and followed by a bounded backoff; README.md: "holds one expiring
\* SQLite lease, uses bounded backoff".  The code breaks it at MaxExponent failures.
FailedPollBacksOff ==
  [][\A w \in Worker : pc[w] = "failed" /\ pc'[w] # "failed" => pc'[w] \in {"record", "dead"}]_vars
=============================================================================
