---------------------------- MODULE IdentityNote ----------------------------
(***************************************************************************)
(* The DID note that advertises the mailbox: publish_identity_note and     *)
(* reconcile_identity_note (identity_note.py), the table                   *)
(* did_note_observations (state.py), Technocore's unsigned key-value entry *)
(* that anybody may write, and mailbox_activate and mailbox_deactivate     *)
(* (mailbox.py), which read the last observation.                          *)
(*                                                                         *)
(* A run is one invocation of identity-note publish, identity-note         *)
(* reconcile or mailbox activate; any number of them overlap.  The         *)
(* expected value and its hash are those of the one Bench DID; what a run  *)
(* recorded as seen follows from the status of its row.                    *)
(***************************************************************************)
CONSTANTS
  Run,    \* runs of the commands
  Ours,   \* the value Bench expects
  Other,  \* any other value
  Null    \* no entry, and no answer

ASSUME NoteAssumption ==
  /\ Ours # Other /\ Null \notin {Ours, Other}
  /\ "stored" \notin {Null, Ours, Other}  \* an answer that is not a value

VARIABLES
  note,    \* Technocore's entry
  wire,    \* runs whose POST may still reach Technocore
  answer,  \* what Technocore answered to the POST of a run
  latest,  \* status of the last row of did_note_observations, "none" before the first
  rows,    \* the statuses of the rows each run inserted there
  active,  \* mailbox_intake_activation
  pc,      \* each run: "start", "record", "insert", "send", "wait", "activate", "done"
  due,     \* the status a run is to record
  prior,   \* history: the status of the last row when the run looked at it
  ours     \* history: the note has been Ours at some time

remote == <<note, wire, answer, ours>>
local  == <<latest, rows, active>>
runs   == <<pc, due, prior>>
vars   == <<remote, local, runs>>

Weaker == {"absent", "conflict", "publish_unknown"}

Statuses == {"none", "already-matching", "publish_started", "published"} \union Weaker

Init ==
  /\ note \in {Null, Ours, Other}
  /\ ours = (note = Ours)
  /\ wire = {}
  /\ answer = [c \in Run |-> Null]
  /\ latest = "none"
  /\ rows = [c \in Run |-> {}]
  /\ active = FALSE
  /\ pc = [c \in Run |-> "start"]
  /\ due = [c \in Run |-> "none"]
  /\ prior = [c \in Run |-> "none"]

-----------------------------------------------------------------------------
(* Technocore.                                                             *)

Becomes(value) == note' = value /\ ours' = (ours \/ value = Ours)

\* Anybody writes or removes the entry.
Overwrite ==
  /\ \E value \in {Null, Ours, Other} : value # note /\ Becomes(value)
  /\ UNCHANGED <<wire, answer, local, runs>>

\* What a POST with if_absent leaves behind.
Written == IF note = Null THEN Ours ELSE note

\* A POST arrives, early or late: stored, or refused with 409 and the present value.
Arrive(c) ==
  /\ c \in wire
  /\ wire' = wire \ {c}
  /\ Becomes(Written)
  /\ answer' = [answer EXCEPT ![c] = IF note = Null THEN "stored" ELSE note]
  /\ UNCHANGED <<local, runs>>

-----------------------------------------------------------------------------
(* Recording an observation: a select of the last row, then an insert in a *)
(* transaction that does not include it.                                   *)

\* The run is to record a status.
Owes(c, status) ==
  /\ pc' = [pc EXCEPT ![c] = "record"]
  /\ due' = [due EXCEPT ![c] = status]
  /\ UNCHANGED <<remote, local, prior>>

\* Fault: nothing is preserved.
PreservesNothing(c) == FALSE

\* Fault: the start of a publication counts as weaker than a match.
PreservesStarted(c) ==
  latest = "already-matching" /\ due[c] \in Weaker \union {"publish_started"}

\* A match is not followed by a weaker status.
Preserves(c) == latest = "already-matching" /\ due[c] \in Weaker

\* Whether the row was inserted or not, the run goes on: after the first row of a publication it
\* sends.
Onward(c) == IF due[c] = "publish_started" THEN "send" ELSE "done"

LookAtLatest(c) ==
  /\ pc[c] = "record"
  /\ pc' = [pc EXCEPT ![c] = IF Preserves(c) THEN Onward(c) ELSE "insert"]
  /\ prior' = [prior EXCEPT ![c] = latest]
  /\ UNCHANGED <<remote, local, due>>

Insert(c) ==
  /\ pc[c] = "insert"
  /\ latest' = due[c]
  /\ rows' = [rows EXCEPT ![c] = @ \union {due[c]}]
  /\ pc' = [pc EXCEPT ![c] = Onward(c)]
  /\ UNCHANGED <<remote, active, due, prior>>

-----------------------------------------------------------------------------
(* identity-note reconcile and identity-note publish.                      *)

Compared(value) ==
  CASE value = Null  -> "absent"
    [] value = Ours  -> "already-matching"
    [] OTHER         -> "conflict"

\* A read that fails records nothing.
ReconcileReads(c) ==
  /\ pc[c] = "start"
  /\ Owes(c, Compared(note))

\* Publishing over another value is refused, without a row.
PublishReads(c) ==
  /\ pc[c] = "start"
  /\ \/ note = Ours /\ Owes(c, "already-matching")
     \/ note = Null /\ Owes(c, "publish_started")

Post(c) ==
  /\ pc[c] = "send"
  /\ pc' = [pc EXCEPT ![c] = "wait"]
  /\ wire' = wire \union {c}
  /\ UNCHANGED <<note, answer, ours, local, due, prior>>

\* A 2xx; the entry is not read again.
Published(c) ==
  /\ pc[c] = "wait" /\ answer[c] = "stored"
  /\ Owes(c, "published")

\* A 409 carries the entry; without a body it counts as a conflict.
AlreadyThere(c) ==
  /\ pc[c] = "wait" /\ answer[c] \in {Ours, Other}
  /\ \/ answer[c] = Ours /\ Owes(c, "already-matching")
     \/ Owes(c, "conflict")

\* A transport error, whether or not the POST was sent or stored, or another HTTP status.
Unknown(c) ==
  /\ pc[c] \in {"send", "wait"}
  /\ Owes(c, "publish_unknown")

\* A redirect, a 409 that cannot be parsed, or the death of the process: no further row.
Abandon(c) ==
  /\ pc[c] \in {"record", "insert", "send", "wait", "activate"}
  /\ pc' = [pc EXCEPT ![c] = "done"]
  /\ UNCHANGED <<remote, local, due, prior>>

-----------------------------------------------------------------------------
(* mailbox activate and deactivate.                                        *)

\* Fault: a publication that was started will do.
AdvertisedOrStarted == latest \in {"already-matching", "publish_started", "published"}

\* The last row is a match of the expected value.
Advertised == latest = "already-matching"

RequireAdvertisement(c) ==
  /\ pc[c] = "start"
  /\ Advertised
  /\ pc' = [pc EXCEPT ![c] = "activate"]
  /\ UNCHANGED <<remote, local, due, prior>>

\* A transaction of its own, which does not look at the observations again.
Activate(c) ==
  /\ pc[c] = "activate"
  /\ active' = TRUE
  /\ pc' = [pc EXCEPT ![c] = "done"]
  /\ UNCHANGED <<remote, latest, rows, due, prior>>

Deactivate ==
  /\ active
  /\ active' = FALSE
  /\ UNCHANGED <<remote, latest, rows, runs>>

-----------------------------------------------------------------------------
Step(c) ==
  \/ ReconcileReads(c) \/ PublishReads(c) \/ LookAtLatest(c) \/ Insert(c)
  \/ Post(c) \/ Published(c) \/ AlreadyThere(c) \/ Unknown(c) \/ Abandon(c)
  \/ RequireAdvertisement(c) \/ Activate(c)

Next ==
  \/ \E c \in Run : Step(c) \/ Arrive(c)
  \/ Overwrite \/ Deactivate

Spec == Init /\ [][Next]_vars

-----------------------------------------------------------------------------
(* Properties.                                                             *)

\* Every variable has its type.
TypeOK ==
  /\ note \in {Null, Ours, Other} /\ ours \in BOOLEAN
  /\ wire \subseteq Run
  /\ answer \in [Run -> {Null, Ours, Other, "stored"}]
  /\ latest \in Statuses /\ rows \in [Run -> SUBSET Statuses] /\ active \in BOOLEAN
  /\ pc \in [Run -> {"start", "record", "insert", "send", "wait", "activate", "done"}]
  /\ due \in [Run -> Statuses]
  /\ prior \in [Run -> Statuses]

\* A POST that may reach Technocore, or has, was recorded as started before it was sent, whatever
\* other runs record meanwhile and whenever its run dies; and a run that started a publication
\* records it as published, refused or matching only as Technocore answered its own POST, never
\* by guess when the answer is lost or late.
PublicationsAreTold ==
  \A c \in Run :
    /\ c \in wire \/ answer[c] # Null => "publish_started" \in rows[c]
    /\ "published" \in rows[c] => answer[c] = "stored"
    /\ {"publish_started", "conflict"} \subseteq rows[c] => answer[c] \in {Ours, Other}
    /\ {"publish_started", "already-matching"} \subseteq rows[c] => answer[c] = Ours

\* What is recorded as matching or published, and what intake is activated on, was true: the
\* note has had the expected value.
AdvertisedWasTrue ==
  latest \in {"already-matching", "published"} \/ active => ours

\* A recorded match gives way to a new publication, or to what a run inserts that had looked at
\* the last row before the match was recorded; to no other.
MatchGivesWayToOverlap ==
  [][latest = "already-matching" /\ latest' # latest =>
       \/ latest' \in {"publish_started", "published"}
       \/ \E c \in Run : Insert(c) /\ prior[c] # "already-matching"]_vars
=============================================================================
