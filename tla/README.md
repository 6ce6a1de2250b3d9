# flop-bench in TLA+

TLA+ models of flop-bench v0.2 (`src/src/flop_bench`), the TLC runs that check them on small
instances, and theorems about them checked by TLAPS for every value of the constants. Paths
below are relative to `src/src/flop_bench/` unless they begin with `src/`.

## 1. The system

flop-bench is a command-line program. Every command is a process of its own; there is no server
and no in-process concurrency except one signal handler. What the processes share:

| shared state | kept by | how it is accessed |
|---|---|---|
| `state.sqlite` (WAL, busy timeout 10 s) | `state.py` | one short transaction per function; `BEGIN IMMEDIATE` where a read and a write belong together |
| `ledger.jsonl` | `ledger.py` | read the last hash, then `O_APPEND`; no lock |
| `evidence/*.json`, result files, identity files | `canonical.py`, `execution.py`, `identity.py` | temporary file and rename |
| Technocore rooms and key-value notes | remote | HTTP, at most a few requests per command, never trusted |

So the hard behaviour is between commands: what one reads, another changes before the first
acts on it; any process may die between two of its effects; a request may be acted on by
Technocore although its sender saw a failure; and nothing recovers on its own.

### Components

**Mailbox worker and lease** (`worker.py`, `state.py` 570–878, `cli.py` 600–640). State: the row
`mailbox_intake_worker` (instance, expiry, consecutive failures), the activation rows of mailbox
and worker; per process a stop event and a sleep. Operations: `worker activate`, `deactivate`,
`run [--once]`; acquire, heartbeat, release. Correct when two workers poll at once only if one has
outlasted its lease, a crash never blocks the row for good, a replaced worker leaves its successor
alone, and deactivation empties the system. Hard: expiry under a slow holder, a lease dated by a
clock reading older than its commit, the loop's check-then-act, signals.

**Mailbox intake** (`mailbox.py`, `state.py` 448–479, 983–1143, 1440–1566). State: cursor,
`mailbox_messages`, the intake switch. Operations: poll (up to 10 pages of 200, 1,000,000 bytes and
20 s, then one storing transaction), approve, reject, activate, deactivate. Correct when no message is skipped, one
request identifier gets at most one review and a decision stands. Hard: concurrent polls with
stale cursors and a stale switch, aborted scans, duplicates inside and across batches.

**Evidence ledger** (`ledger.py`). State: the file. Operations: append, verify. Correct when the
file is append-only and the chain verifies. Hard: two appends at once, short writes.

**Passive execution** (`execution.py` 1–526, `state.py` 525–562, 1704–1811). State: the execution
row, the evidence file, the run row, the ledger. Operation: `request execute-passive`. Correct when
a request is executed at most once, only on grounds that held, and completed means everything is
there. Hard: two operators, a crash between any two of six effects, grounds that lapse midway.

**Signed posting** (`posting.py`, `state.py` 429–447, 1270–1365, `activation.py` 84–181). State:
`post_attempts`, `last_post_nonce`; remotely the room `d-flop-bench`. Operations: `post send`,
`post reconcile`. Correct when a confirmed status is true of the room, nonces never repeat,
nothing is posted twice by retrying, and evidence is never weakened. Hard: unknown outcomes,
delayed visibility, concurrent reconciliations, the same text under another nonce.

**Result delivery** (`execution.py` 528–1186). State: `result_deliveries`; remotely the reply rooms.
Operations: `result preview`, `send`, `reconcile`. The shape of signed posting for a request's reply
room, with the same nonce counter, no owner check, and a preview that takes an imported verification
or, failing that, a completed execution. Correct when what reaches a reply room is what the database
holds and a result is not delivered twice by repeating the command. Hard: what posting has, and a
text taken from two tables that change between the preview and the send.

**Room activation** (`activation.py` 242–818). Owner note, room nonce, up to three signed attempts,
retry on 409, 422 and 429, owner verification; every outcome is an SQL update and then a ledger
append. Correct when ownership is reported only if it is true, a write of unknown fate is never
repeated, and rows and ledger agree. Hard: ambiguous timeouts, nonce races, death between the two effects.

**DID note** (`identity_note.py`, `state.py` 1908–1980, `mailbox.py` 127–204). State: the rows of
`did_note_observations`, the intake switch; remotely one unsigned entry that anybody may write.
Operations: `identity-note publish` and `reconcile`, `mailbox activate` and `deactivate`. Correct
when no write goes out unrecorded and what is recorded, or activated on, was true. Hard: the
observation is checked for and then inserted; a POST whose answer is lost and which arrives late.

**Verification import** (`verification.py`, `state.py`). State: `verification_result_imports`.
Operation: `verification prepare-delivery`. Correct when the first result and the first route of a
request stay and the answer tells the row. Hard: the row is read in one connection and written in
another.

**Identity ceremony** (`identity.py`). State: `identity.pem`, `identity.json`, temporary files.
Operation: `identity create-production`. Correct when a reported identity stays and a failure leaves
nothing. Hard: look-then-rename, and a cleanup that removes files by name, whoever wrote them.

**Request verification** (`service.py`, `state.reserve_request`, `engine.py`): an insert guarded by
two unique keys, an evidence file, a ledger append; replay protection.

**Pure parts**: `schemas.py`, `protocol.py`, `models.py`, `canonical.py`, `adapters.py`,
`redaction.py`, `transport.py`, `provenance.py`; **wiring**: `cli.py`, `config.py`.

Interactions: the worker calls the poll; a polled request becomes executable by approval; execution
appends to the ledger as verification and activation do; delivery takes a completed execution or an
imported verification and shares the nonce counter with posting; activation must have made the rooms
that posting posts to; intake is activated on the last observation of the DID note.

## 2. Plan

In order of importance, and what is done:

1. `MailboxLease` (abstract lease), `MailboxWorker` (implements it) — done, proved.
2. `ReviewDesk` (abstract review), `MailboxIntake` (implements it) — done, proved.
3. `EvidenceLedger`; `OnceOnly` (abstract one-time claim); `PassiveExecution`, which extends the
   ledger, runs over `ReviewDesk` and implements `OnceOnly` — done, proved.
4. `SignedPosting` — done, proved.
5. `RoomActivation`, which extends the ledger — done, proved except for termination under fairness.
6. `ImportedOnce` (abstract table), `VerificationImport` (implements it) — done, proved.
7. `ResultDelivery`, which extends `SignedPosting` and runs over `ImportedOnce` — done, proved.
8. `IdentityNote`: publication, observations and the activation they gate — done, proved.
9. `IdentityCeremony` — done, proved.
10. Left: the evidence file of request verification (`canonical.py:37`: one temporary name per
    target) beside `EvidenceLedger`.

## 3. Modules

### MailboxLease and MailboxWorker

`MailboxWorker` has one action per transaction of `run_worker`: `Launch`, `Acquire` (the take-over
test and the upsert), `LoopTop` (stop event and supervised flag), `BeginPoll` (the heartbeat that
must still hold the row), `EndPoll`, `RecordSuccess`, `ReadFailures` and `RecordFailure` (two
transactions), `Wake`, `Release` (the finally block). `UpdateRow` and `ReleaseLease` compare the
instance id but not the expiry, as the SQL does. Operators change both switches at any time;
`worker_activate`'s check and write are two transactions, and a deactivation between them is one
right after them. `Signal` sets the stop event, `Kill` leaves the row as it is, `Reuse` stands for
the external supervisor that starts a fresh instance. `late` counts polls begun after a deactivation.

Time is relative: `left` is expiry minus now, so no clock has to be bounded. The code reads the clock
(`worker.py:295`, `:310`, `:337`, `:354`) before it takes `BEGIN IMMEDIATE` (at `:310` before it
even connects), and counts the new expiry from that reading. So a commit picks its `lag`, the age of the reading, from the time
`since` the step before it: the lease it writes has `Lease - lag` left, which may be nothing, and the
take-over test compares the old expiry with that earlier now. During a poll `since` goes on from the
reading that dates it. `MaxHold` bounds how long a process is held up before a write, and how far
`left` is followed past an expiry; a poll may take any time.

`MailboxLease` is what the row promises: an exclusive lease, granted when free or expired, renewed
by its holder even late as long as nobody took it. A grant or renewal may come with its time partly
or wholly gone, but no renewal moves the expiry back. `LeaseContract` is `MailboxLease!Spec` with the
worker's own `holder` and `left`.

### ReviewDesk and MailboxIntake

A poll is `ReadCursor`, `ReadSwitch`, any number of `Fetch`, and `Store`; `NotFound` (404) completes
a scan; `GiveUp` (pages), `Oversize` (bytes), `TimeOut` (the 20 s, looked at before each page) and
`Fail` end it with nothing stored. `volume` is what the room's messages up to each one take in a page;
it grows with `Send` and serves the byte limit, which a healthy service meets as well. `InTime` is how
many pages a steady Technocore answers, at least, before the time is up. The room is append-only; a message is its
request identifier or junk. `Stored` is the loop of `store_mailbox_poll` with the two unique indexes
(message id; request id) folded into `Fresh` and `Taken`; the cursor is written unconditionally, as
in the code. Expiry of an envelope is free. `steady` marks the moment from which Technocore answers
and processes live; it guards faults only and serves the liveness premise.

`ReviewDesk` is what intake promises of a request identifier: it is taken in once, for review or
turned away, all new ones of a batch alike; a person decides once on what waits; nothing leads back.
`ReviewContract` is `ReviewDesk!Spec` with `Verdict`, the review of the row that carries the
identifier. That all of a batch are answered alike is the switch, read once per poll.

### EvidenceLedger, OnceOnly, PassiveExecution

The ledger's lines carry the position of the line whose hash the writer read, which is what a unique
hash commits to. `AppendRecord`, `AppendShort` and `AppendNothing` are the outcomes of one
`os.write`; `open` says that the file ends without a newline, so the next append joins its bytes to
the last line. `overlaps` records that two writers were ever between read and write.

`PassiveExecution` follows `execute_passive`: switch and row read for eligibility, `Reserve`
(immediate transaction), the two reads again, `MarkRunning`, ledger read and append, the evidence
file written twice (before and after it carries its own hash), `InsertRun`, `Complete`. `Die` ends a
process anywhere. Other commands that append are `OtherWriter`. `claimant` and `grounds` are history
variables for the properties; no guard reads them. The reviews it reads are `ReviewDesk`'s
(`Review` is `ReviewDesk!Next`), so what is shown of execution holds over any intake that keeps
`ReviewContract`, as `MailboxIntake` does; expiry and the switch are free.

`OnceOnly` is the promise: a request is claimed once and finished once. `ClaimedOnce` is
`OnceOnly!Spec` with `finished` mapped to the requests whose status is completed.

### SignedPosting

`send_post`: `Start` (audit row), preflight scan with its three results, owner check, `TakeNonce`,
`Transmit`, and the outcome; `reconcile_post`: `ReadAttempt`, `Scan`, `WriteBack`. Technocore is
`Accept`, `Refuse` and `Show`: a request is acted on at any time after it was sent, also after its
sender gave up, and becomes visible later still (the tests for delayed visibility,
`src/tests/test_flop_bench.py:3517` and `:3624`, expect that). A scan sees some prefix of what is
visible and may only claim absence when it saw all of it; the nonce of any message may be illegible
(`bare`), and a match without one counts neither for nor against the attempt. `Transition` is
`monotonic_reconciliation_transition`. `saw` is history.

### RoomActivation

`create_service` for the room: `Start` writes the audit row, `ReadOwner` decides whether there is
anything to do, `ReadNonce` computes the nonce of the next write (base + 1 + attempt), `Transmit`
sends it. A 409, 422 or 429 leads back to the nonce read (`Retry`) while attempts are left,
everything else that is no success ends the run (`NoAnswer`, `Rejected`), and a 2xx leads to
`Verify`, the second read of the owner note. Every ending is `Conclude` (the SQL update), then
`ReadLedger` and `AppendLedger`; `Die` ends a run anywhere. The code after the retry loop cannot be
reached with at least one attempt and has no action. Technocore is `Accept`, `Refuse` and `Others`;
`wire` holds the writes that are not handled yet, also those nobody waits for any more. `sent` is
history: it counts the writes for the properties. (`IF @ > MaxAttempts` in `Transmit` keeps that
count finite when the loop is changed; `RoomActivationProofs` shows that it never applies.)

### ImportedOnce and VerificationImport

A preparation reads the row of its request (`ReadImport`) in one connection and acts on what it read
in another: `AlreadyPrepared`, `Refuse`, `Record` (INSERT OR IGNORE, so a row that appeared meanwhile
stays, and the answer is positive all the same) or `SetRoute` (an UPDATE that applies to a row
without a route only). A preparation that dies takes no further step. `ImportedOnce` is the promise
of the table: one result per request, one route per result, neither replaced; `KeepsFirst` is
`ImportedOnce!Spec` with the same variable.

### ResultDelivery

The module extends `SignedPosting`: an attempt is a post or the delivery of a result, which its text
says, and all of them draw from one nonce counter. `LookForImport` and `LookForExecution` are the two
looks of `result_delivery_preview`, in two connections: an import with a route outranks an
execution, one without a route blocks the delivery. `BeginDelivery`, `SearchDestination`,
`SignDelivery` and `PostDelivery` are the steps of a post without the owner check; `ReadDelivery`,
`ScanDestination` and `SettleDelivery` are those of its reconciliation. Underneath, executions complete
(`CompleteExecution`, one step here because `PassiveExecution` has the rest) and imports arrive
(`ImportedOnce!Next`, which `VerificationImport` implements). The text of a result names its request
and its destination, so equal texts go to one room and the rooms are taken together. Every behaviour
of `DeliverySpec` is one of `SignedPosting!Spec` (`DeliveryIsPosting`), so what was proved of posting
holds of deliveries.

### IdentityNote

A run is one invocation of publish, reconcile or activate. `ReconcileReads` and `PublishReads` read
the entry; `LookAtLatest` and `Insert` are the two halves of recording a row, with a match preserved
against weaker statuses; `Post` puts the write on the wire and `Arrive` is Technocore acting on it,
at any later time, also when its run has ended with `Unknown`. `RequireAdvertisement` and `Activate`
are the two connections of `mailbox activate`. `Overwrite` is anybody. `Abandon` is every ending
without a row, death included. `rows` keeps the statuses of the rows each run inserted. `ours` and
`prior` are history. That a POST does not replace an entry is Technocore's `if_absent`, which the code
asks for at `identity_note.py:375`: `Written` is taken from there and nothing is claimed about it.

### IdentityCeremony

One action per file operation: the looks before the try (`LookForKey`, `LookForMetadata`: what they
refuse is not cleaned up after), the no-replace write (`WriteTemp`,
`LookAgain`, `Replace`, `Chmod`) for the key and then the metadata, the two reads of
`verify_identity`, and the cleanup (`CleanFile`, `CleanTemp`). `stage` says where a ceremony stands
and `target` which of the two files it is at. A file is known by the ceremony whose key it
holds. `Fail` stands for whatever makes a step raise: a full disk, a passphrase that does not open
the key read back, the state directory re-created by another ceremony. `Cut` is a death, or a cleanup
that raises because a file it saw is gone. `mates` and `cut` are history.

### MC modules

`MCMailboxIntake` adds the symmetry of pollers and request identifiers, `MCPassiveExecution` and
`MCSignedPosting` that of executors and requests, and of attempts, reconcilers and texts; `MCResultDelivery` that of attempts and imported results (and one
announcement as the text of a post), `MCVerificationImport` that of preparations, results and routes,
`MCIdentityNote` that of runs, `MCIdentityCeremony` that of ceremonies. No property of these runs distinguishes them and none is a liveness
property, so the reduction is sound. `MCRoomActivation` only names the set of ledger records; its
run checks liveness and uses no symmetry.

## 4. Runs

| run | shows |
|---|---|
| `worker` | two polls meet only if one has outlasted its lease, the row is a lease, a late worker harms nobody; deactivation drains, polling resumes |
| `intake` | nothing below the cursor is missing, no holes, one review per request; intake implements the review desk |
| `intake_live` | a backlog within reach is stored in the end |
| `execution` | one executor, one record, completed is backed, grounds, one-time claim, interrupted stays, chain unless overlap |
| `posting` | confirmed is true, nonces differ, a repeat needs overlap, only stale reconciliations weaken |
| `activation` | reported ownership is true, unanswered writes are not repeated, row and ledger agree, every run ends |
| `worker_outage` | violation: the backoff computation overflows |
| `posting_stale` | violation: a stale reconciliation weakens a confirmed status |
| `delivery` | what reaches a reply room is on record, a result is delivered twice only by overlap |
| `import` | the first result and route stay, a wrong positive answer takes an overlap |
| `note` | no POST is unrecorded, its outcome is as answered, what is recorded or activated on was true, a match gives way to overlap only |
| `ceremony` | a reported identity stays, failures leave nothing, nobody touches a stranger's files |

### Bounds, and why they suffice

- `worker`: two workers (a holder and a successor are all the lease knows), lease 2, `MaxHold` 2, so
  that a commit may write a lease that is whole, half gone or over already; polls of any length; the
  longest sleep reaches the lease, so a sleeping worker loses it; one interruption, a kill or a signal
  at any point. The failure count is cut at `MaxExponent` = 2 in place of 1024. The proofs cover any
  hold-up. `worker_outage` allows two interruptions.
- `intake`: two polls and two messages of two identifiers, the same or different: duplicates within
  a batch, across batches and across polls, and batches of two new identifiers; `PageLimit` 1 makes
  every page a point of interleaving. 1.24 million states up to symmetry.
  `intake_live` has three messages of two sizes, polls of three pages and three bytes, and a service
  that is sure of two pages in time, so each of the three limits ends some poll, and each decides for
  some backlog whether it is within reach.
- `execution`: two executors and a third writer, two requests, two ledger lines.
- `posting`: two attempts, two reconcilers, texts equal or different, three nonces (gaps between
  consecutive nonces occur). `MaxNonce` bounds the clock only.
- `activation`: two runs (one wins, the other loses or finds the room owned), two attempts each in
  place of three (a first and a last one), room nonces up to 1 besides those the runs write, and
  room for both records in the ledger. The proofs cover three attempts and more.
- `delivery`: two attempts over one request with two imported results, one route and the executed
  result, or an announcement in place of one of them; one reconciliation and two nonces, since two
  reconciliations of one attempt are in `posting`. 326 000 states up to symmetry.
- `import`: three preparations (two that race and one that comes before or after), two results and
  two routes that disagree, and a second request that none of them may touch.
- `note`: three runs, so that a publication, a reconciliation and an activation overlap.
- `ceremony`: three ceremonies: one that is reported, one that overlaps it and a stranger.

Deadlock is checked in `worker`, `intake` and `execution`. In the other models every run of a command
ends, so their configurations turn it off.

### Fairness

Only `worker`, `intake_live` and `activation` use it. A process that is running takes its next step (weak fairness
of `Step`, of `Poll`): the scheduler's promise. For `activation` that includes every
request's return: the transport gives each a timeout. `Launch` and `Reuse`: `worker run` is meant to be kept
alive by an external supervisor, and polls by the worker. `Tick`: time passes. No fairness is
assumed of operators, senders, signals or Technocore. The premises are stated in the properties:
`PollingResumes` assumes that from some point on no process oversleeps between two of its own steps
(two workers that always oversleep their lease can take it from each other for ever);
`EventuallyStored` assumes that Technocore answers from some point on and that the backlog stays
within what one poll can read: fewer messages than the pages it may ask for, and than those that come
in time, and no more than `MaxBytes`. Beyond any of the three the code really stores nothing, poll
after poll: 10 pages of 200 would be 2,000 messages, but at 4 KB each about 250 reach the byte limit.

## 5. Proofs

The theorems assume nothing beyond the types of the constants (`WorkerAssumption` and its like, in
the module that declares the constants), and that the constants which stand for absence are no members
of the sets they are beside.

| module | argument |
|---|---|
| `MailboxWorkerProofs` | `TypeInv` adds that a holder about to record a failure has room to count it. `PollHolds`: a worker whose poll has not outlasted its lease holds the row, with `left + since >= Lease`, so nobody could take over from it; two such pollers would both be the holder. `HoldUpsCounted`: a holder about to write has `left + since <= Lease`, so no clock reading it can pick moves the expiry back. The refinement goes action by action to Grant, Renew, Release, Pass or a stutter. `LateOnce` ties the counter to the program point: a worker that used its late poll is past the check. |
| `MailboxIntakeProofs` | `Coverage`: every poll's base, like the cursor, is below the first message missing, so a stale cursor only repeats work. Steps are reduced to three kinds (quiet, review, batch) before the invariants are shown. `Identified`: identifiers in rows are unique and both rows and pending items say what the room says, which gives one review per identifier. `Alike`: the valid items of a scan carry the answer of the switch the poll read, so a batch is one `TakeIn` of the desk (none of them new: a stutter), a review is a `Decide`, and every other step leaves the verdicts alone (`DeskStep`). `FullPages`: a scan that goes on has met full pages only, so giving up takes `MaxPages` of them and timing out `InTime`; `Growing`: what a scan has read is at most the whole backlog's bytes. |
| `EvidenceLedgerProofs` | `LedgerInv`: without overlap there is at most one writer holding the last hash and it is current. |
| `PassiveExecutionProofs` | Every step is a ledger step (`ImplementsLedger`), so the chain theorem carries over. `IInv`: a row exists exactly when it has a claimant, a process past the reservation is the claimant of its request, its grounds were collected, and its request is approved, which the desk never takes back. `RecordInv`: before the append step there is no record of the request. `BackedInv`: what each program point has already written. |
| `RoomActivationProofs` | `Counted` ties the writes sent to the attempt and the program point; `NonceKnown` and `Settled` say that a run that may still write has no write under way and knows the nonce of the last. `Concluded`: only a run with an outcome goes to the ledger. Records belong to runs that have ended, whose rows stay (`EndedStays`), so a record and its row agree for ever; `ToldStays` of the ledger carries them along. `Remaining` bounds the steps a run has left by its attempt and its program point; every step of the run lessens it (`StepsShrink`) and nobody else's touches it (`OtherSteps`). |
| `VerificationImportProofs` | `ReadBefore`: a row that was read is still there, at most given a route since. `AppearsRouted`: a row that appeared since has its route. `Settled`: a positive answer leaves a routed row behind. All three follow from `WritesGrow`: no write takes anything from a row. |
| `ResultDeliveryProofs` | Posting first. `NonceInv`: nonces held are at most the counter and differ. `Clean`: a preflight that claimed absence saw no message of its text. `Evidence`: which statuses are possible at which program point, that a copy with a nonce is of an attempt that took it, and that what a scan located stays located, because the room only grows. Then each step of a delivery is a step of a post or leaves posting alone, which gives `DeliverySpec => Spec` and with it all of the above. `RecordInv`: a delivery past its preview has its text on record (`LookedUp`), whatever has begun was past its preview, all the way into the room (`ReadyBefore`), and imports and completions never take a text off the record. |
| `IdentityProofs` | `Told`: a run past its first insert has its `publish_started` row, and what it is to record afterwards is what Technocore answered it, which gives `PublicationsAreTold`. `Evidence`: an answer, a status to record, a row or an activation that affirms the note implies that it was `Ours` at some time. `Checked`: a run inserts a weaker status only if it had not seen a match. Ceremony: `Owned`: a file there is either holds the key of a ceremony that was cut or of one that has placed it and not yet removed it; `TempsOwned` says the same of temporary files, and together they give `FailureLeavesNothing`. `Met`: ceremonies under way together are in each other's `mates`, and so is each of them in those of the owner of any file it can see, unless it has looked for the key only and the file is the metadata, in which case it is about to be refused; this gives `KeptFromStrangers`. `Alone`: a ceremony without mates finds every file as it left it. |

Proved: type correctness of all models (only `worker` also runs it as an invariant: where it is a
theorem, a run adds nothing); `ExclusivePolling`, `OneLatePoll`, `OnlyHolderReleases`,
`LeaseContract`; `CursorCovered`, `NoHoles`, `OneReviewPerRequest`, `ReviewContract` and, of the
rows themselves, `DecisionsStand`; `SerialAppendsVerify`, `AppendOnly`; `OneExecutor`, `OneRecord`,
`CompletedIsBacked`, `RunsOnGrounds`, `ClaimedOnce`, `NoSilentRerun`; `StrongIsTrue`,
`NoncesDiffer`, `RepeatsOverlap`, `WeakenedByStaleOnly`; `OwnershipIsTrue`, `NoNonceNothingSent`,
`RetriesAreAnswered`, `OneOutcome`, `LedgerTellsRow`, `CompletionIsAudited`; `AnswersAreTrue`,
`KeepsFirst`; `DeliveredIsOnRecord`, and `RepeatsOverlap` of deliveries; `PublicationsAreTold`,
`AdvertisedWasTrue`, `MatchGivesWayToOverlap`; `CreatedStays`, `FailureLeavesNothing`,
`KeptFromStrangers`. Every safety property of the passing runs is among them.

Model-checked only: `DeactivationDrains`, `PollingResumes`, `EventuallyStored` and `RunsEnd`, because
liveness under fairness is out of TLAPS's reach. What two of them rest on is proved: a run of
`create_service` has at most `3 * MaxAttempts + 4` steps left and each of its steps leaves fewer
(`RunsAreFinite`), so it ends if it keeps running; and once the service is steady a scan that ends with
nothing stored was of a backlog beyond its reach, in pages, time or bytes, while one completed by a
short page has met the whole room (`ReachOfPolls`).

## 6. What disagrees with the documents

Two statements of the documents have a run whose counterexample shows what the code does instead:

- bounded backoff: after a long outage the failure count no longer converts (`worker_outage`);
- strong states are preserved: a stale reconciliation weakens one (`posting_stale`;
  `WeakenedByStaleOnly` says what does hold).

Others were met while modelling; the models behave like the code, and the property named says what
does hold:

- `worker run` polls while a lease is held (`src/SECURITY.md:101`): a worker held up between its clock
  reading and its heartbeat begins a poll on a lease that is nearly over or over already
  (`worker.py:310`), and nothing ends a poll that outlasts its lease, so a successor may poll beside
  it. `ExclusivePolling` says when: one of the two is older than a lease, counted from its reading.
- `deactivate` stops intake (`src/README.md:128`): a poll that is running still stores
  (`mailbox.py:557`). `OneLatePoll`, `ReviewContract`.
- The ledger is hash-chained (`src/README.md:14`): two overlapping appends fork it (`ledger.py:36`).
  `SerialAppendsVerify`.
- Completed executions are idempotent (`src/README.md:144`): a completed request is refused when it
  is repeated after its grounds have lapsed (`execution.py:439`). `CompletedIsBacked`.
- `failed_pre_transmission` means nothing was sent (`src/README.md:202`): an attempt of that status
  may be in the room when its transport error came after the send (`activation.py:156`).
- A ceremony refuses existing files (`src/SECURITY.md`, `identity.py:163`): the cleanup of a ceremony
  that was refused removes the files of one it overlapped, even an identity that was reported as
  created. `CreatedStays` and `KeptFromStrangers` are about ceremonies that did not overlap, and allow it.

## 7. Not modelled

Cryptography, schema rules, what a deterministic check computes, wording and exit codes: the models
keep the verdicts. A room whose history has permanent gaps or changes: the code refuses it, the
models serve an append-only room. Wall-clock jumps: the worker's timers assume time that does not
run backwards, the nonce clock may be anything. SQLite itself is taken to be serializable; a busy
timeout is a failed command.

Request reservation is one INSERT decided by two unique keys, with nothing between a read and a write
that a model could interleave; of `verify_spec` only the ledger append is modelled
(`PassiveExecution!OtherWriter`). Adapters, schemas, protocol, models, canonical form and redaction are
pure functions whose verdicts the models choose freely. Provenance and exports read only. Transport,
`config.py` and the rest of `cli.py` are wiring. `technocore_status` and the status and preview commands
change nothing.
