------------------------ MODULE MailboxWorkerProofs ------------------------
(***************************************************************************)
(* Proofs about MailboxWorker for any number of workers and any timing:    *)
(* the type invariant, that polls within their leases exclude each other,  *)
(* that only the holder gives a valid lease up, and that the row           *)
(* implements MailboxLease.                                                *)
(***************************************************************************)
EXTENDS MailboxWorker, TLAPS

\* A process between computing a backoff and recording it, and still holding the row,
\* leaves room for one more failure.
RecordRoom == \A w \in Worker : pc[w] = "record" /\ holder = w => failures < MaxExponent

\* A process that has not acquired the lease yet does not hold the row.
Newcomers == \A w \in Worker : pc[w] \in {"idle", "acquire"} => holder # w

\* A holder about to write the row again has counted its lease from before its last step: no
\* clock reading since then brings the expiry back.
HoldUpsCounted == \A w \in Worker : holder = w /\ pc[w] \in Pending => left + since[w] <= Lease

\* A process whose poll has not outlasted its lease holds the row, with what the poll has
\* left of the lease.
PollHolds ==
  \A w \in Worker : pc[w] = "polling" /\ since[w] < Lease => holder = w /\ left + since[w] >= Lease

DataOK ==
  /\ holder \in Worker \union {NoWorker}
  /\ left \in -MaxHold..Lease
  /\ failures \in 0..MaxExponent
  /\ pc \in [Worker -> PCs]
  /\ delay \in [Worker -> 0..MaxBackoff]
  /\ since \in [Worker -> 0..(Lease + MaxHold)]
  /\ \A w \in Worker : IF pc[w] \in Pending THEN since[w] <= MaxHold
                      ELSE pc[w] = "polling" \/ since[w] = 0
  /\ late \in [Worker -> {0, 1, 2}]
  /\ interrupts \in 0..MaxInterrupts

TypeInv == DataOK /\ RecordRoom /\ Newcomers /\ HoldUpsCounted

LEMMA LeaseNat == Lease \in Nat \ {0}
  BY WorkerAssumption DEF Lease

LEMMA DelayRange == \A n \in Nat : Delay(n) \in 0..MaxBackoff
  BY WorkerAssumption DEF Delay

LEMMA InitTypeInv == Init => TypeInv
  <1> SUFFICES ASSUME Init PROVE TypeInv
    OBVIOUS
  <1>1. DataOK
    BY WorkerAssumption, LeaseNat DEF Init, DataOK, PCs, Pending
  <1>2. RecordRoom /\ Newcomers /\ HoldUpsCounted
    BY WorkerAssumption DEF Init, RecordRoom, Newcomers, HoldUpsCounted
  <1>3. QED
    BY <1>1, <1>2 DEF TypeInv

\* The flags are only ever set to Booleans.
LEMMA NextFlags == FlagsOK /\ [Next]_vars => FlagsOK'
  <1> SUFFICES ASSUME FlagsOK, [Next]_vars PROVE FlagsOK'
    OBVIOUS
  <1> USE DEF FlagsOK, Leave, row
  <1>1. ASSUME Command PROVE FlagsOK'
    BY <1>1 DEF Command, SetIntake, WorkerActivate, WorkerDeactivate, local
  <1>2. ASSUME NEW w \in Worker, NEW single \in BOOLEAN, Launch(w, single) PROVE FlagsOK'
    BY <1>2 DEF Launch
  <1>3. ASSUME NEW w \in Worker, Step(w) PROVE FlagsOK'
    BY <1>3 DEF Step, Acquire, LoopTop, BeginPoll, EndPoll, RecordSuccess, ReadFailures,
                RecordFailure, Wake, Release
  <1>4. ASSUME NEW w \in Worker, Environment(w) PROVE FlagsOK'
    BY <1>4 DEF Environment, Signal, Kill, Reuse
  <1>5. CASE Tick
    BY <1>5 DEF Tick
  <1>6. CASE UNCHANGED vars
    BY <1>6 DEF vars, local
  <1>7. QED
    BY <1>1, <1>2, <1>3, <1>4, <1>5, <1>6 DEF Next

LEMMA NextTypeInv == TypeInv /\ [Next]_vars => TypeInv'
  <1> USE WorkerAssumption, LeaseNat
  <1> SUFFICES ASSUME TypeInv, [Next]_vars PROVE TypeInv'
    OBVIOUS
  <1> USE DEF TypeInv, DataOK, RecordRoom, Newcomers, HoldUpsCounted, Pending, PCs, Goto, Leave, row
  <1>1. ASSUME Command PROVE TypeInv'
    BY <1>1 DEF Command, SetIntake, WorkerActivate, WorkerDeactivate, local
  <1>2. ASSUME NEW w \in Worker, NEW single \in BOOLEAN, Launch(w, single) PROVE TypeInv'
    BY <1>2 DEF Launch
  <1>3. ASSUME NEW w \in Worker, Step(w) PROVE TypeInv'
    <2>1. CASE Acquire(w)
      BY <2>1 DEF Acquire, AcquireLease
    <2>2. CASE LoopTop(w)
      BY <2>2 DEF LoopTop
    <2>3. CASE BeginPoll(w)
      BY <2>3 DEF BeginPoll, UpdateRow
    <2>4. CASE EndPoll(w)
      BY <2>4 DEF EndPoll
    <2>5. CASE RecordSuccess(w)
      BY <2>5 DEF RecordSuccess, UpdateRow, AfterPoll
    <2>6. CASE ReadFailures(w)
      <3>1. Delay(failures + 1) \in 0..MaxBackoff
        BY DelayRange
      <3>2. QED
        BY <2>6, <3>1 DEF ReadFailures
    <2>7. CASE RecordFailure(w)
      BY <2>7 DEF RecordFailure, UpdateRow, AfterPoll
    <2>8. CASE Wake(w)
      BY <2>8 DEF Wake
    <2>9. CASE Release(w)
      BY <2>9 DEF Release, ReleaseLease
    <2>10. QED
      BY <1>3, <2>1, <2>2, <2>3, <2>4, <2>5, <2>6, <2>7, <2>8, <2>9 DEF Step
  <1>4. ASSUME NEW w \in Worker, Environment(w) PROVE TypeInv'
    BY <1>4 DEF Environment, Signal, Kill, Reuse, Interrupt
  <1>5. CASE Tick
    BY <1>5 DEF Tick, Down, Elapsed
  <1>6. CASE UNCHANGED vars
    BY <1>6 DEF vars, local
  <1>7. QED
    BY <1>1, <1>2, <1>3, <1>4, <1>5, <1>6 DEF Next

\* Every reachable state is well typed; in particular the stored failure count never
\* passes the exponent at which the backoff computation fails.
THEOREM TypeCorrect == Spec => []TypeOK
  <1>1. Init => FlagsOK
    BY DEF Init, FlagsOK
  <1>2. FlagsOK /\ TypeInv => TypeOK
    BY DEF TypeInv, DataOK, TypeOK
  <1>3. QED
    BY InitTypeInv, NextTypeInv, NextFlags, <1>1, <1>2, PTL DEF Spec

-----------------------------------------------------------------------------
LEMMA NextPollHolds == TypeInv /\ PollHolds /\ [Next]_vars => PollHolds'
  <1> USE WorkerAssumption, LeaseNat
  <1> SUFFICES ASSUME TypeInv, PollHolds, [Next]_vars PROVE PollHolds'
    OBVIOUS
  <1> USE DEF TypeInv, DataOK, PollHolds, Pending, PCs, Goto, Leave, row
  <1>1. ASSUME Command PROVE PollHolds'
    BY <1>1 DEF Command, SetIntake, WorkerActivate, WorkerDeactivate, local
  <1>2. ASSUME NEW w \in Worker, NEW single \in BOOLEAN, Launch(w, single) PROVE PollHolds'
    BY <1>2 DEF Launch
  <1>3. ASSUME NEW w \in Worker, Step(w) PROVE PollHolds'
    <2>1. CASE Acquire(w)
      \* Taking the row over needs left <= 0, and a poll within its lease keeps left > 0.
      <3>1. PICK lag \in 0..since[w] :
              IF ValidOther(w, lag)
              THEN Leave(w, "idle") /\ UNCHANGED row
              ELSE /\ AcquireLease(w, lag) /\ Goto(w, "loop")
                   /\ since' = [since EXCEPT ![w] = 0]
        BY <2>1 DEF Acquire
      <3>2. lag \in Nat
        BY <3>1
      <3>3. ASSUME NEW v \in Worker, pc[v] = "polling", since[v] < Lease, v # w
            PROVE  ValidOther(w, lag)
        BY <3>2, <3>3 DEF ValidOther
      <3>4. QED
        BY <2>1, <3>1, <3>3 DEF Acquire, AcquireLease
    <2>2. CASE LoopTop(w)
      BY <2>2 DEF LoopTop
    <2>3. CASE BeginPoll(w)
      BY <2>3 DEF BeginPoll, UpdateRow
    <2>4. CASE EndPoll(w)
      BY <2>4 DEF EndPoll
    <2>5. CASE RecordSuccess(w)
      BY <2>5 DEF RecordSuccess, UpdateRow, AfterPoll
    <2>6. CASE ReadFailures(w)
      BY <2>6 DEF ReadFailures
    <2>7. CASE RecordFailure(w)
      BY <2>7 DEF RecordFailure, UpdateRow, AfterPoll
    <2>8. CASE Wake(w)
      BY <2>8 DEF Wake
    <2>9. CASE Release(w)
      BY <2>9 DEF Release, ReleaseLease
    <2>10. QED
      BY <1>3, <2>1, <2>2, <2>3, <2>4, <2>5, <2>6, <2>7, <2>8, <2>9 DEF Step
  <1>4. ASSUME NEW w \in Worker, Environment(w) PROVE PollHolds'
    BY <1>4 DEF Environment, Signal, Kill, Reuse, Interrupt
  <1>5. CASE Tick
    BY <1>5 DEF Tick, Elapsed
  <1>6. CASE UNCHANGED vars
    BY <1>6 DEF vars, local
  <1>7. QED
    BY <1>1, <1>2, <1>3, <1>4, <1>5, <1>6 DEF Next

\* Two workers poll at once only if one of them has outlasted its lease: for any number of
\* workers, any intervals, polls of any length and any hold-up before a commit.
THEOREM PollsExclude == Spec => []ExclusivePolling
  <1>1. Init => PollHolds
    BY DEF Init, PollHolds
  <1>2. TypeInv /\ PollHolds => ExclusivePolling
    BY LeaseNat DEF TypeInv, DataOK, PollHolds, ExclusivePolling, Outlasted
  <1>3. QED
    BY InitTypeInv, NextTypeInv, NextPollHolds, <1>1, <1>2, PTL DEF Spec

-----------------------------------------------------------------------------
(* What a step does to the row, in the terms of the abstract lease.        *)

\* Someone acquires a row that is nobody's any more.
Taken(w) == /\ pc[w] = "acquire" /\ holder # w /\ holder' = w
            /\ holder = NoWorker \/ left <= 0
            /\ left' \in -MaxHold..Lease

\* The holder counts its lease anew.
Renewed == holder \in Worker /\ holder' = holder /\ left' \in left..Lease

GivenBack(w) == /\ holder = w /\ holder' = NoWorker /\ left' = -MaxHold
                /\ pc[w] = "release" /\ pc'[w] = "idle"

LEMMA RowSteps ==
  TypeInv /\ [Next]_vars => \/ UNCHANGED <<holder, left>>
                            \/ Renewed
                            \/ Tick
                            \/ \E w \in Worker : Taken(w) \/ GivenBack(w)
  <1> USE WorkerAssumption, LeaseNat
  <1> SUFFICES ASSUME TypeInv, [Next]_vars
               PROVE  \/ UNCHANGED <<holder, left>>
                      \/ Renewed
                      \/ Tick
                      \/ \E w \in Worker : Taken(w) \/ GivenBack(w)
    OBVIOUS
  <1> USE DEF TypeInv, DataOK, Pending, row
  <1>1. CASE Command
    BY <1>1 DEF Command, SetIntake, WorkerActivate, WorkerDeactivate
  <1>2. ASSUME NEW w \in Worker, NEW single \in BOOLEAN, Launch(w, single)
        PROVE UNCHANGED <<holder, left>>
    BY <1>2 DEF Launch
  <1>3. ASSUME NEW w \in Worker, Acquire(w) PROVE UNCHANGED <<holder, left>> \/ Taken(w)
    <2>1. PICK lag \in 0..since[w] :
            IF ValidOther(w, lag) THEN UNCHANGED row ELSE AcquireLease(w, lag)
      BY <1>3 DEF Acquire
    <2>2. lag \in 0..MaxHold /\ pc[w] = "acquire" /\ holder # w
      BY <1>3, <2>1 DEF Acquire, Newcomers
    <2>3. CASE ValidOther(w, lag)
      BY <2>1, <2>3
    <2>4. CASE ~ValidOther(w, lag)
      BY <2>1, <2>2, <2>4 DEF AcquireLease, ValidOther, Taken
    <2>5. QED
      BY <2>3, <2>4
  <1>4. ASSUME NEW w \in Worker, pc[w] \in Pending, NEW lag \in 0..since[w], NEW f,
               UpdateRow(w, f, lag)
        PROVE  UNCHANGED <<holder, left>> \/ Renewed
    <2>1. CASE holder = w
      <3>1. lag \in Nat /\ lag <= since[w] /\ left + since[w] <= Lease /\ since[w] \in Nat
        BY <1>4, <2>1 DEF HoldUpsCounted
      <3>2. left \in Int /\ Lease \in Int /\ left' = Lease - lag /\ holder' = holder
        BY <1>4, <2>1 DEF UpdateRow
      <3>3. QED
        BY <2>1, <3>1, <3>2 DEF Renewed
    <2>2. CASE holder # w
      BY <1>4, <2>2 DEF UpdateRow
    <2>3. QED
      BY <2>1, <2>2
  <1>5. ASSUME NEW w \in Worker, BeginPoll(w) \/ RecordSuccess(w) \/ RecordFailure(w)
        PROVE  UNCHANGED <<holder, left>> \/ Renewed
    <2>1. pc[w] \in Pending /\ \E lag \in 0..since[w], f \in {0, failures, failures + 1} :
                                 UpdateRow(w, f, lag)
      BY <1>5 DEF BeginPoll, RecordSuccess, RecordFailure
    <2>2. QED
      BY <1>4, <2>1
  <1>6. ASSUME NEW w \in Worker, Release(w)
        PROVE  UNCHANGED <<holder, left>> \/ GivenBack(w)
    BY <1>6 DEF Release, ReleaseLease, GivenBack, Leave, Goto
  <1>7. ASSUME NEW w \in Worker, LoopTop(w) \/ EndPoll(w) \/ ReadFailures(w) \/ Wake(w)
        PROVE  UNCHANGED <<holder, left>>
    BY <1>7 DEF LoopTop, EndPoll, ReadFailures, Wake
  <1>8. ASSUME NEW w \in Worker, Environment(w) PROVE UNCHANGED <<holder, left>>
    BY <1>8 DEF Environment, Signal, Kill, Reuse
  <1>9. CASE UNCHANGED vars
    BY <1>9 DEF vars
  <1>10. QED
    <2> HIDE DEF TypeInv, Pending, row
    <2> QED BY <1>1, <1>2, <1>3, <1>5, <1>6, <1>7, <1>8, <1>9 DEF Next, Step

\* A lease in the row is given back by its holder alone, on its way out; as long as it is valid
\* nobody else gets it, and only time shortens it, though its holder renews it by clock
\* readings of any age.
THEOREM HolderReleases == Spec => OnlyHolderReleases
  <1> DEFINE Kept == \A w \in Worker : holder = w =>
                /\ holder' = NoWorker => pc[w] = "release" /\ pc'[w] = "idle"
                /\ left > 0 /\ holder' # NoWorker => holder' = w /\ (left' >= left \/ Tick)
  <1>1. TypeInv /\ [Next]_vars => [Kept]_vars
    <2> SUFFICES ASSUME TypeInv, [Next]_vars, NEW w \in Worker, holder = w
                 PROVE  /\ holder' = NoWorker => pc[w] = "release" /\ pc'[w] = "idle"
                        /\ left > 0 /\ holder' # NoWorker
                             => holder' = w /\ (left' >= left \/ Tick)
      OBVIOUS
    <2>1. w # NoWorker /\ left \in Int /\ Lease \in Int /\ 0 \in Int
      BY WorkerAssumption, LeaseNat DEF TypeInv, DataOK
    <2>2. CASE UNCHANGED <<holder, left>>
      BY <2>1, <2>2
    <2>3. CASE Renewed
      BY <2>1, <2>3 DEF Renewed
    <2>4. CASE Tick
      BY <2>1, <2>4 DEF Tick
    <2>5. ASSUME NEW v \in Worker, Taken(v) PROVE holder' # NoWorker /\ ~(left > 0)
      BY <2>1, <2>5, WorkerAssumption DEF Taken
    <2>6. ASSUME NEW v \in Worker, GivenBack(v)
          PROVE  holder' = NoWorker /\ pc[w] = "release" /\ pc'[w] = "idle"
      BY <2>6 DEF GivenBack
    <2>7. QED
      BY <2>2, <2>3, <2>4, <2>5, <2>6, RowSteps
  <1>2. QED
    BY InitTypeInv, NextTypeInv, <1>1, PTL DEF Spec, OnlyHolderReleases

\* The worker row implements the abstract lease: take-over only of a released or expired row,
\* and no renewal that moves the expiry back.
THEOREM ImplementsLease == Spec => LeaseContract
  <1>1. Init => Contract!Init
    BY DEF Init, Contract!Init
  <1>2. TypeInv /\ [Next]_vars => [Contract!Next]_(Contract!vars)
    <2> SUFFICES ASSUME TypeInv, [Next]_vars
                 PROVE  Contract!Next \/ UNCHANGED <<holder, left>>
      BY DEF Contract!vars
    <2>1. ASSUME NEW w \in Worker, Taken(w) PROVE Contract!Grant(w)
      BY <2>1 DEF Taken, Contract!Grant
    <2>2. CASE Renewed
      BY <2>2 DEF Renewed, Contract!Renew, Contract!Next
    <2>3. ASSUME NEW w \in Worker, GivenBack(w) PROVE Contract!Release
      BY <2>3 DEF GivenBack, Contract!Release
    <2>4. CASE Tick
      BY <2>4 DEF Tick, Contract!Pass, Contract!Next
    <2>5. QED
      BY <2>1, <2>2, <2>3, <2>4, RowSteps DEF Contract!Next
  <1>3. QED
    BY InitTypeInv, NextTypeInv, <1>1, <1>2, PTL DEF Spec, LeaseContract, Contract!Spec

-----------------------------------------------------------------------------
\* A persistent worker that has begun its late poll passes no further check until
\* supervised polling is enabled again.
LateOnce == \A w \in Worker : /\ late[w] \in {0, 1}
                              /\ late[w] = 1 /\ pc[w] = "begin" /\ ~once[w] => supervised

\* Disabling supervised polling lets every persistent worker begin at most one more poll.
THEOREM AtMostOneLatePoll == Spec => []OneLatePoll
  <1>1. Init => LateOnce
    BY DEF Init, LateOnce
  <1>2. FlagsOK /\ TypeInv /\ LateOnce /\ [Next]_vars => LateOnce'
    <2> SUFFICES ASSUME FlagsOK, TypeInv, LateOnce, [Next]_vars PROVE LateOnce'
      OBVIOUS
    <2> USE DEF FlagsOK, TypeInv, DataOK, LateOnce, PCs, Goto, Leave, row
    <2>1. ASSUME Command PROVE LateOnce'
      BY <2>1 DEF Command, SetIntake, WorkerActivate, WorkerDeactivate, local
    <2>2. ASSUME NEW w \in Worker, NEW single \in BOOLEAN, Launch(w, single) PROVE LateOnce'
      BY <2>2 DEF Launch
    <2>3. ASSUME NEW w \in Worker, Step(w) PROVE LateOnce'
      <3>1. CASE LoopTop(w)
        BY <3>1 DEF LoopTop, MayContinue
      <3>2. CASE BeginPoll(w)
        BY <3>2 DEF BeginPoll
      <3>3. CASE Acquire(w)
        BY <3>3 DEF Acquire
      <3>4. CASE RecordSuccess(w) \/ RecordFailure(w)
        BY <3>4 DEF RecordSuccess, RecordFailure, AfterPoll
      <3>5. CASE EndPoll(w) \/ ReadFailures(w) \/ Wake(w) \/ Release(w)
        BY <3>5 DEF EndPoll, ReadFailures, Wake, Release
      <3>6. QED
        BY <2>3, <3>1, <3>2, <3>3, <3>4, <3>5 DEF Step
    <2>4. ASSUME NEW w \in Worker, Environment(w) PROVE LateOnce'
      BY <2>4 DEF Environment, Signal, Kill, Reuse
    <2>5. CASE Tick
      BY <2>5 DEF Tick
    <2>6. CASE UNCHANGED vars
      BY <2>6 DEF vars, local
    <2>7. QED
      BY <2>1, <2>2, <2>3, <2>4, <2>5, <2>6 DEF Next
  <1>3. LateOnce => OneLatePoll
    BY DEF LateOnce, OneLatePoll
  <1>4. Init => FlagsOK
    BY DEF Init, FlagsOK
  <1>5. QED
    BY InitTypeInv, NextTypeInv, NextFlags, <1>1, <1>2, <1>3, <1>4, PTL DEF Spec
=============================================================================
