--------------------------- MODULE IdentityProofs ---------------------------
(***************************************************************************)
(* Proofs about IdentityNote for any number of overlapping runs (types,    *)
(* that publications are told as they went, that what is recorded and      *)
(* acted on was true, what a match may give way to) and IdentityCeremony   *)
(* for any number of ceremonies (types, that a reported identity stays,    *)
(* that failures leave nothing, whose files a ceremony touches).           *)
(***************************************************************************)
EXTENDS IdentityNote, IdentityCeremony, TLAPS

-----------------------------------------------------------------------------
(* IdentityNote: types.                                                    *)

LEMMA InitTypes == Init => TypeOK
  BY DEF Init, TypeOK, Statuses

\* A run that owes a status is typed as before.
LEMMA OwesTypes ==
  ASSUME TypeOK, NEW c \in Run, NEW status \in Statuses, Owes(c, status)
  PROVE  TypeOK'
  BY DEF Owes, TypeOK, remote, local

LEMMA NextTypes == TypeOK /\ [Next]_vars => TypeOK'
<1> SUFFICES ASSUME TypeOK, [Next]_vars PROVE TypeOK'
  OBVIOUS
<1> USE DEF remote, local, runs
<1>1. ASSUME NEW c \in Run, ReconcileReads(c) \/ PublishReads(c) PROVE TypeOK'
  <2>1. PICK status \in Statuses : Owes(c, status)
    BY <1>1 DEF ReconcileReads, PublishReads, Compared, Statuses, Weaker
  <2> QED BY <2>1, OwesTypes
<1>2. ASSUME NEW c \in Run, Published(c) \/ AlreadyThere(c) \/ Unknown(c) PROVE TypeOK'
  <2>1. PICK status \in Statuses : Owes(c, status)
    BY <1>2 DEF Published, AlreadyThere, Unknown, Statuses, Weaker
  <2> QED BY <2>1, OwesTypes
<1>3. ASSUME NEW c \in Run, LookAtLatest(c) PROVE TypeOK'
  BY <1>3 DEF LookAtLatest, Onward, TypeOK
<1>4. ASSUME NEW c \in Run, Insert(c) PROVE TypeOK'
  BY <1>4 DEF Insert, Onward, TypeOK
<1>5. ASSUME NEW c \in Run, Post(c) PROVE TypeOK'
  BY <1>5 DEF Post, TypeOK
<1>6. ASSUME NEW c \in Run, Abandon(c) \/ RequireAdvertisement(c) PROVE TypeOK'
  BY <1>6 DEF Abandon, RequireAdvertisement, TypeOK
<1>7. ASSUME NEW c \in Run, Activate(c) PROVE TypeOK'
  BY <1>7 DEF Activate, TypeOK
<1>8. ASSUME NEW c \in Run, Arrive(c) PROVE TypeOK'
  <2>1. note' \in {Null, Ours, Other} /\ ours' \in BOOLEAN
    BY <1>8 DEF Arrive, Becomes, Written, TypeOK
  <2>2. answer' \in [Run -> {Null, Ours, Other, "stored"}]
    BY <1>8 DEF Arrive, TypeOK
  <2> QED BY <1>8, <2>1, <2>2 DEF Arrive, TypeOK
<1>9. CASE Overwrite
  <2>1. note' \in {Null, Ours, Other} /\ ours' \in BOOLEAN
    BY <1>9 DEF Overwrite, Becomes
  <2> QED BY <1>9, <2>1 DEF Overwrite, TypeOK
<1>10. CASE Deactivate
  BY <1>10 DEF Deactivate, TypeOK
<1>11. CASE UNCHANGED vars
  BY <1>11 DEF vars, TypeOK
<1> QED BY <1>1, <1>2, <1>3, <1>4, <1>5, <1>6, <1>7, <1>8, <1>9, <1>10, <1>11 DEF Next, Step

\* The variables have their types.
THEOREM NoteTypes == Spec => []TypeOK
  BY InitTypes, NextTypes, PTL DEF Spec

-----------------------------------------------------------------------------
(* Publications are told as they went.                                     *)

\* Before its first row a publishing run has nothing under way; after it, it has that row.
Unsent(c) == c \notin wire /\ answer[c] = Null

Told ==
  \A c \in Run :
    /\ pc[c] = "start" => rows[c] = {} /\ Unsent(c)
    /\ pc[c] = "send" => "publish_started" \in rows[c] /\ Unsent(c)
    /\ pc[c] = "wait" => "publish_started" \in rows[c]
    /\ pc[c] \in {"record", "insert"} =>
         /\ due[c] = "publish_started" => rows[c] = {} /\ Unsent(c)
         /\ due[c] = "published" => answer[c] = "stored"
         /\ "publish_started" \in rows[c] /\ due[c] = "conflict" => answer[c] \in {Ours, Other}
         /\ "publish_started" \in rows[c] /\ due[c] = "already-matching" => answer[c] = Ours
    /\ c \in wire => answer[c] = Null

ToldInv == TypeOK /\ Told /\ PublicationsAreTold

\* A run that owes a status which its answer bears out keeps the invariant.
LEMMA OwesTold ==
  ASSUME ToldInv, NEW c \in Run, NEW status \in Statuses, Owes(c, status),
         status = "publish_started" => rows[c] = {} /\ Unsent(c),
         status = "published" => answer[c] = "stored",
         "publish_started" \in rows[c] /\ status = "conflict" => answer[c] \in {Ours, Other},
         "publish_started" \in rows[c] /\ status = "already-matching" => answer[c] = Ours
  PROVE  (Told /\ PublicationsAreTold)'
<1> USE DEF remote, local
<1>1. UNCHANGED <<wire, answer, rows>>
      /\ pc' = [pc EXCEPT ![c] = "record"] /\ due' = [due EXCEPT ![c] = status]
  BY DEF Owes
<1>2. PublicationsAreTold'
  BY <1>1 DEF ToldInv, PublicationsAreTold
<1>3. Told'
  BY <1>1 DEF ToldInv, Told, TypeOK, Unsent
<1> QED BY <1>2, <1>3

LEMMA NextTold == ToldInv /\ [Next]_vars => ToldInv'
<1> SUFFICES ASSUME ToldInv, [Next]_vars PROVE (Told /\ PublicationsAreTold)'
  BY NextTypes DEF ToldInv
<1> USE DEF remote, local, runs
<1>1. ASSUME NEW c \in Run, ReconcileReads(c) \/ PublishReads(c)
      PROVE  (Told /\ PublicationsAreTold)'
  <2>1. rows[c] = {} /\ Unsent(c)
    BY <1>1 DEF ReconcileReads, PublishReads, ToldInv, Told
  <2>2. PICK status \in Statuses : Owes(c, status) /\ status # "published"
    BY <1>1 DEF ReconcileReads, PublishReads, Compared, Statuses, Weaker
  <2> QED BY <2>1, <2>2, OwesTold
<1>2. ASSUME NEW c \in Run, Published(c) \/ AlreadyThere(c) \/ Unknown(c)
      PROVE  (Told /\ PublicationsAreTold)'
  <2>1. PICK status \in Statuses :
          /\ Owes(c, status) /\ status # "publish_started"
          /\ status = "published" => answer[c] = "stored"
          /\ status = "conflict" => answer[c] \in {Ours, Other}
          /\ status = "already-matching" => answer[c] = Ours
    BY <1>2 DEF Published, AlreadyThere, Unknown, Statuses, Weaker
  <2> QED BY <2>1, OwesTold
<1>3. ASSUME NEW c \in Run, LookAtLatest(c) PROVE (Told /\ PublicationsAreTold)'
  <2>1. UNCHANGED <<wire, answer, rows, due>> /\ pc[c] = "record"
    BY <1>3 DEF LookAtLatest
  <2>2. PICK next \in {"insert", "done"} : pc' = [pc EXCEPT ![c] = next]
    <3>1. CASE Preserves(c)
      <4>1. Onward(c) = "done"
        BY <3>1 DEF Preserves, Onward, Weaker
      <4> QED BY <1>3, <3>1, <4>1 DEF LookAtLatest
    <3>2. CASE ~Preserves(c)
      BY <1>3, <3>2 DEF LookAtLatest
    <3> QED BY <3>1, <3>2
  <2>3. PublicationsAreTold'
    BY <2>1 DEF ToldInv, PublicationsAreTold
  <2>4. Told'
    BY <2>1, <2>2 DEF ToldInv, Told, TypeOK, Unsent
  <2> QED BY <2>3, <2>4
<1>4. ASSUME NEW c \in Run, Insert(c) PROVE (Told /\ PublicationsAreTold)'
  <2>1. /\ UNCHANGED <<wire, answer, due>> /\ pc[c] = "insert"
        /\ rows' = [rows EXCEPT ![c] = rows[c] \union {due[c]}]
    BY <1>4 DEF Insert
  <2>0. Onward(c) \in {"send", "done"} /\ (Onward(c) = "send" => due[c] = "publish_started")
    BY DEF Onward
  <2>2. PICK next \in {"send", "done"} : /\ pc' = [pc EXCEPT ![c] = next]
                                         /\ next = "send" => due[c] = "publish_started"
    BY <1>4, <2>0 DEF Insert
  <2>3. /\ rows'[c] = rows[c] \union {due[c]} /\ \A d \in Run \ {c} : rows'[d] = rows[d]
        /\ pc'[c] = next /\ \A d \in Run \ {c} : pc'[d] = pc[d]
    BY <2>1, <2>2 DEF ToldInv, TypeOK
  <2>4. ASSUME NEW d \in Run
        PROVE  /\ d \in wire \/ answer[d] # Null => "publish_started" \in rows'[d]
               /\ "published" \in rows'[d] => answer[d] = "stored"
               /\ {"publish_started", "conflict"} \subseteq rows'[d] => answer[d] \in {Ours, Other}
               /\ {"publish_started", "already-matching"} \subseteq rows'[d] => answer[d] = Ours
    <3>1. CASE d # c
      BY <2>3, <3>1 DEF ToldInv, PublicationsAreTold
    <3>2. CASE d = c /\ due[c] = "publish_started"
      <4>1. rows'[c] = {"publish_started"}
        BY <2>1, <2>3, <3>2 DEF ToldInv, Told
      <4> QED BY <4>1, <3>2
    <3>3. CASE d = c /\ due[c] # "publish_started"
      BY <2>1, <2>3, <3>3 DEF ToldInv, Told, PublicationsAreTold
    <3> QED BY <3>1, <3>2, <3>3
  <2>5. PublicationsAreTold'
    BY <2>1, <2>4 DEF PublicationsAreTold
  <2>6. Told'
    BY <2>1, <2>2, <2>3 DEF ToldInv, Told, Unsent
  <2> QED BY <2>5, <2>6
<1>5. ASSUME NEW c \in Run, Post(c) PROVE (Told /\ PublicationsAreTold)'
  BY <1>5 DEF Post, ToldInv, Told, PublicationsAreTold, TypeOK, Unsent
<1>6. ASSUME NEW c \in Run, Abandon(c) \/ RequireAdvertisement(c) \/ Activate(c)
      PROVE  (Told /\ PublicationsAreTold)'
  <2>1. UNCHANGED <<wire, answer, rows, due>>
    BY <1>6 DEF Abandon, RequireAdvertisement, Activate
  <2>2. PICK next \in {"activate", "done"} : pc' = [pc EXCEPT ![c] = next]
    BY <1>6 DEF Abandon, RequireAdvertisement, Activate
  <2>3. PublicationsAreTold'
    BY <2>1 DEF ToldInv, PublicationsAreTold
  <2>4. Told'
    BY <2>1, <2>2 DEF ToldInv, Told, TypeOK, Unsent
  <2> QED BY <2>3, <2>4
<1>7. ASSUME NEW c \in Run, Arrive(c) PROVE (Told /\ PublicationsAreTold)'
  <2>1. /\ wire' = wire \ {c} /\ c \in wire /\ answer[c] = Null /\ UNCHANGED <<rows, pc, due>>
        /\ answer'[c] # Null /\ \A d \in Run \ {c} : answer'[d] = answer[d]
    BY <1>7, NoteAssumption DEF Arrive, ToldInv, Told, TypeOK
  <2>2. "publish_started" \in rows[c] /\ "published" \notin rows[c]
    BY <2>1, NoteAssumption DEF ToldInv, PublicationsAreTold
  <2>3. "conflict" \notin rows[c] /\ "already-matching" \notin rows[c]
    BY <2>1, <2>2, NoteAssumption DEF ToldInv, PublicationsAreTold
  <2>4. PublicationsAreTold'
    BY <2>1, <2>2, <2>3 DEF ToldInv, PublicationsAreTold
  <2>5. Told'
    BY <2>1, <2>2, NoteAssumption DEF ToldInv, Told, Unsent
  <2> QED BY <2>4, <2>5
<1>8. CASE Overwrite \/ Deactivate \/ UNCHANGED vars
  BY <1>8 DEF Overwrite, Deactivate, vars, ToldInv, Told, PublicationsAreTold, Unsent
<1> QED BY <1>1, <1>2, <1>3, <1>4, <1>5, <1>6, <1>7, <1>8 DEF Next, Step

\* No POST is on its way, or answered, without the row that says a publication was started, and
\* its outcome is recorded only as Technocore answered it.
THEOREM PublicationsTold == Spec => []PublicationsAreTold
<1>1. Init => ToldInv
  BY InitTypes DEF Init, ToldInv, Told, PublicationsAreTold, Unsent
<1>2. ToldInv => PublicationsAreTold
  BY DEF ToldInv
<1> QED BY <1>1, <1>2, NextTold, PTL DEF Spec

-----------------------------------------------------------------------------
(* What is recorded was true.                                              *)

Affirmed == {"already-matching", "published"}

Evidence ==
  /\ note = Ours => ours
  /\ \A c \in Run : /\ answer[c] \in {Ours, "stored"} => ours
                    /\ pc[c] \in {"record", "insert"} /\ due[c] \in Affirmed => ours
                    /\ pc[c] = "activate" => ours
  /\ latest \in Affirmed \/ active => ours

EvidenceInv == TypeOK /\ Evidence

\* Owing a status that was seen keeps the evidence true.
LEMMA OwesEvidence ==
  ASSUME EvidenceInv, NEW c \in Run, NEW status \in Statuses, status \in Affirmed => ours,
         Owes(c, status)
  PROVE  Evidence'
<1> USE DEF remote, local
<1>1. UNCHANGED <<note, ours, answer, latest, active>>
      /\ pc' = [pc EXCEPT ![c] = "record"] /\ due' = [due EXCEPT ![c] = status]
  BY DEF Owes
<1>2. ASSUME NEW d \in Run
      PROVE  /\ answer'[d] \in {Ours, "stored"} => ours
             /\ pc'[d] \in {"record", "insert"} /\ due'[d] \in Affirmed => ours
             /\ pc'[d] = "activate" => ours
  BY <1>1 DEF EvidenceInv, Evidence, TypeOK
<1> QED BY <1>1, <1>2 DEF EvidenceInv, Evidence

LEMMA NextEvidence == EvidenceInv /\ [Next]_vars => EvidenceInv'
<1> SUFFICES ASSUME EvidenceInv, [Next]_vars PROVE Evidence'
  BY NextTypes DEF EvidenceInv
<1> USE DEF remote, local, runs
<1>1. ASSUME NEW c \in Run, ReconcileReads(c) \/ PublishReads(c) PROVE Evidence'
  <2>1. PICK status \in Statuses : Owes(c, status) /\ (status = "already-matching" => note = Ours)
                                   /\ status # "published"
    BY <1>1, NoteAssumption DEF ReconcileReads, PublishReads, Compared, Statuses, Weaker
  <2> QED BY <2>1, OwesEvidence DEF EvidenceInv, Evidence, Affirmed
<1>2. ASSUME NEW c \in Run, Published(c) \/ AlreadyThere(c) \/ Unknown(c) PROVE Evidence'
  <2>1. PICK status \in Statuses : Owes(c, status)
                                   /\ (status \in Affirmed => answer[c] \in {Ours, "stored"})
    BY <1>2 DEF Published, AlreadyThere, Unknown, Statuses, Weaker, Affirmed
  <2> QED BY <2>1, OwesEvidence DEF EvidenceInv, Evidence
<1>3. ASSUME NEW c \in Run, LookAtLatest(c) PROVE Evidence'
  BY <1>3 DEF LookAtLatest, Onward, EvidenceInv, Evidence, TypeOK
<1>4. ASSUME NEW c \in Run, Insert(c) PROVE Evidence'
  BY <1>4 DEF Insert, Onward, EvidenceInv, Evidence, TypeOK
<1>5. ASSUME NEW c \in Run, Post(c) PROVE Evidence'
  BY <1>5 DEF Post, EvidenceInv, Evidence, TypeOK
<1>6. ASSUME NEW c \in Run, Abandon(c) \/ RequireAdvertisement(c) PROVE Evidence'
  BY <1>6 DEF Abandon, RequireAdvertisement, Advertised, Affirmed, EvidenceInv, Evidence, TypeOK
<1>7. ASSUME NEW c \in Run, Activate(c) PROVE Evidence'
  BY <1>7 DEF Activate, EvidenceInv, Evidence, TypeOK
<1>8. ASSUME NEW c \in Run, Arrive(c) PROVE Evidence'
  <2>1. /\ note' = Ours => ours'
        /\ ours => ours'
        /\ answer' = [answer EXCEPT ![c] = IF note = Null THEN "stored" ELSE note]
        /\ note = Null => ours'
        /\ UNCHANGED <<local, runs>>
    BY <1>8, NoteAssumption DEF Arrive, Becomes, Written, EvidenceInv, Evidence
  <2>2. ASSUME NEW d \in Run, answer'[d] \in {Ours, "stored"} PROVE ours'
    <3>1. CASE d # c
      BY <2>1, <2>2, <3>1 DEF EvidenceInv, Evidence, TypeOK
    <3>2. CASE d = c /\ note = Null
      BY <2>1, <3>2
    <3>3. CASE d = c /\ note # Null
      <4>1. answer'[c] = note
        BY <2>1, <3>3 DEF EvidenceInv, TypeOK
      <4>2. note = Ours \/ note = "stored"
        BY <2>2, <3>3, <4>1
      <4> QED BY <2>1, <4>2, NoteAssumption DEF EvidenceInv, Evidence, TypeOK
    <3> QED BY <3>1, <3>2, <3>3
  <2> QED BY <2>1, <2>2 DEF EvidenceInv, Evidence
<1>9. CASE Overwrite
  <2>1. (note' = Ours => ours') /\ (ours => ours')
    BY <1>9 DEF Overwrite, Becomes
  <2> QED BY <1>9, <2>1 DEF Overwrite, EvidenceInv, Evidence
<1>10. CASE Deactivate
  BY <1>10 DEF Deactivate, EvidenceInv, Evidence
<1>11. CASE UNCHANGED vars
  BY <1>11 DEF vars, EvidenceInv, Evidence
<1> QED BY <1>1, <1>2, <1>3, <1>4, <1>5, <1>6, <1>7, <1>8, <1>9, <1>10, <1>11 DEF Next, Step

\* A match or a publication is recorded, and intake activated, only when the note has had the
\* expected value.
THEOREM AdvertisementWasTrue == Spec => []AdvertisedWasTrue
<1>1. Init => EvidenceInv
  BY InitTypes, NoteAssumption DEF Init, EvidenceInv, Evidence, Affirmed
<1>2. EvidenceInv => AdvertisedWasTrue
  BY DEF EvidenceInv, Evidence, AdvertisedWasTrue, Affirmed
<1> QED BY <1>1, <1>2, NextEvidence, PTL DEF Spec

-----------------------------------------------------------------------------
(* What a match gives way to.                                              *)

\* A run inserts a weaker status only when it had not seen a match.
Checked ==
  \A c \in Run : pc[c] \in {"record", "insert"} =>
    /\ due[c] # "none"
    /\ pc[c] = "insert" /\ due[c] \in Weaker => prior[c] # "already-matching"

CheckedInv == TypeOK /\ Checked

LEMMA NextChecked == CheckedInv /\ [Next]_vars => CheckedInv'
<1> SUFFICES ASSUME CheckedInv, [Next]_vars PROVE Checked'
  BY NextTypes DEF CheckedInv
<1> USE DEF remote, local, runs
<1>1. ASSUME NEW c \in Run, NEW status \in Statuses, Owes(c, status), status # "none"
      PROVE  Checked'
  BY <1>1 DEF Owes, CheckedInv, Checked, TypeOK
<1>2. ASSUME NEW c \in Run, ReconcileReads(c) \/ PublishReads(c) PROVE Checked'
  <2>1. PICK status \in Statuses : Owes(c, status) /\ status # "none"
    BY <1>2 DEF ReconcileReads, PublishReads, Compared, Statuses, Weaker
  <2> QED BY <2>1, <1>1
<1>3. ASSUME NEW c \in Run, Published(c) \/ AlreadyThere(c) \/ Unknown(c) PROVE Checked'
  <2>1. PICK status \in Statuses : Owes(c, status) /\ status # "none"
    BY <1>3 DEF Published, AlreadyThere, Unknown, Statuses, Weaker
  <2> QED BY <2>1, <1>1
<1>4. ASSUME NEW c \in Run, LookAtLatest(c) PROVE Checked'
  BY <1>4 DEF LookAtLatest, Preserves, Onward, CheckedInv, Checked, TypeOK
<1>5. ASSUME NEW c \in Run, Insert(c) \/ Post(c) \/ Abandon(c) \/ RequireAdvertisement(c)
                            \/ Activate(c)
      PROVE  Checked'
  <2>1. UNCHANGED <<due, prior>> /\ \E next : /\ pc' = [pc EXCEPT ![c] = next]
                                               /\ next \notin {"record", "insert"}
    BY <1>5 DEF Insert, Onward, Post, Abandon, RequireAdvertisement, Activate
  <2> QED BY <2>1 DEF CheckedInv, Checked, TypeOK
<1>6. ASSUME NEW c \in Run, Arrive(c) PROVE Checked'
  BY <1>6 DEF Arrive, CheckedInv, Checked
<1>7. CASE Overwrite \/ Deactivate \/ UNCHANGED vars
  BY <1>7 DEF Overwrite, Deactivate, vars, CheckedInv, Checked
<1> QED BY <1>2, <1>3, <1>4, <1>5, <1>6, <1>7 DEF Next, Step

\* A recorded match gives way only to a publication or to a run that looked before it.
THEOREM MatchesGiveWay == Spec => MatchGivesWayToOverlap
<1> DEFINE Overlap ==
      latest = "already-matching" /\ latest' # latest =>
        \/ latest' \in {"publish_started", "published"}
        \/ \E c \in Run : Insert(c) /\ prior[c] # "already-matching"
<1>1. CheckedInv /\ [Next]_vars => Overlap
  <2> SUFFICES ASSUME CheckedInv, [Next]_vars, latest' # latest, latest = "already-matching",
                      latest' \notin {"publish_started", "published"}
               PROVE  \E c \in Run : Insert(c) /\ prior[c] # "already-matching"
    OBVIOUS
  <2> USE DEF remote, local, runs
  <2>1. \E c \in Run : Insert(c)
    BY DEF Next, Step, ReconcileReads, PublishReads, LookAtLatest, Post, Published,
         AlreadyThere, Unknown, Abandon, RequireAdvertisement, Activate, Owes, Arrive,
         Overwrite, Deactivate, vars
  <2>2. PICK c \in Run : Insert(c)
    BY <2>1
  <2>3. pc[c] = "insert" /\ due[c] = latest' /\ due[c] \in Statuses /\ due[c] # "none"
    BY <2>2 DEF Insert, CheckedInv, Checked, TypeOK
  <2>4. due[c] \in Weaker
    BY <2>3 DEF Statuses
  <2> QED BY <2>2, <2>3, <2>4 DEF CheckedInv, Checked
<1>2. Init => CheckedInv
  BY InitTypes DEF Init, CheckedInv, Checked
<1>3. CheckedInv /\ [Next]_vars => [Overlap]_vars
  BY <1>1
<1> QED BY <1>2, <1>3, NextChecked, PTL DEF Spec, MatchGivesWayToOverlap

-----------------------------------------------------------------------------
(* IdentityCeremony: what a ceremony answers for, and what it can do.      *)

\* c has placed f and has not removed it again.
Placed(c, f) ==
  \/ stage[c] \in {"read json", "read pem", "created"} \/ At(c, "chmod", f) \/ At(c, "clean", f)
  \/ f = "pem" /\ stage[c] \in Writing /\ target[c] = "json"
  \/ f = "json" /\ stage[c] = "clean"

\* A file is there only while its ceremony answers for it, or was cut short.
Owned == \A f \in File : file[f] # Nobody => file[f] \in cut \/ Placed(file[f], f)

TempsOwned ==
  \A c \in Ceremony, f \in File :
    <<c, f>> \in temp => c \in cut \/ At(c, "place", f) \/ At(c, "replace", f)

\* Ceremonies that are under way together know each other, and know whose files they can see:
\* one that has looked for the key only may yet be refused for the metadata of a stranger.
Met ==
  /\ \A c, d \in UnderWay : d = c \/ d \in mates[c]
  /\ \A f \in File, d \in UnderWay :
       file[f] # Nobody => \/ d = file[f] \/ d \in mates[file[f]]
                           \/ stage[d] = "look" /\ f = "json"

\* A ceremony without mates finds the files as it left them.
Alone ==
  \A c \in Ceremony : mates[c] = {} =>
    /\ stage[c] \in Creating \union {"created"} =>
         \A f \in File : file[f] = IF Placed(c, f) THEN c ELSE Nobody
    /\ stage[c] = "look" => file["pem"] = Nobody

CeremonyInv == CeremonyTypeOK /\ Owned /\ TempsOwned /\ Met /\ Alone

\* The steps that leave the files alone, by where they lead.
Passes(c, where, f) ==
  /\ \/ At(c, "place", f) /\ file[f] = Nobody /\ where = "replace"
     \/ At(c, "chmod", "pem") /\ where = "write" /\ f = "json"
     \/ At(c, "chmod", "json") /\ where = "read json" /\ f = "json"
     \/ stage[c] = "read json" /\ where = "read pem" /\ f = "json"
     \/ stage[c] = "read pem" /\ where = "created" /\ f = "json"
  /\ Go(c, where, f)
  /\ UNCHANGED <<files, mates, cut>>

Places(c, f) ==
  /\ At(c, "replace", f) /\ <<c, f>> \in temp
  /\ file' = [file EXCEPT ![f] = c] /\ temp' = temp \ {<<c, f>>}
  /\ Go(c, "chmod", f)
  /\ UNCHANGED <<mates, cut>>

\* What a ceremony can do, a failure being one step wherever it occurs.
LEMMA Steps ==
  ASSUME NEW c \in Ceremony, Create(c)
  PROVE  \/ LookForKey(c) \/ LookForMetadata(c) \/ Fail(c) \/ CleanTemp(c)
         \/ \E f \in File : WriteTemp(c, f) \/ CleanFile(c, f) \/ Places(c, f)
         \/ \E where \in Creating \union {"created"}, f \in File : Passes(c, where, f)
<1> USE DEF files
<1>1. CASE LookForKey(c) \/ LookForMetadata(c) \/ CleanTemp(c)
  BY <1>1
<1>2. ASSUME NEW f \in File, WriteTemp(c, f) \/ CleanFile(c, f)
      PROVE  \E g \in File : WriteTemp(c, g) \/ CleanFile(c, g)
  BY <1>2
<1>3. ASSUME NEW f \in File, LookAgain(c, f) PROVE Fail(c) \/ Passes(c, "replace", f)
  BY <1>3 DEF LookAgain, Passes
<1>4. ASSUME NEW f \in File, Replace(c, f) PROVE Fail(c) \/ Places(c, f)
  BY <1>4 DEF Replace, Places
<1>5. ASSUME NEW f \in File, Chmod(c, f)
      PROVE  Fail(c) \/ Passes(c, "write", "json") \/ Passes(c, "read json", "json")
  BY <1>5 DEF Chmod, Passes, At, File
<1>6. ReadMetadata(c) => Fail(c) \/ Passes(c, "read pem", "json")
  BY DEF ReadMetadata, Passes
<1>7. ReadKey(c) => Passes(c, "created", "json")
  BY DEF ReadKey, Passes
<1>8. /\ "json" \in File
      /\ {"replace", "write", "read json", "read pem"} \subseteq Creating
  BY DEF File, Creating, Writing
<1> QED BY <1>1, <1>2, <1>3, <1>4, <1>5, <1>6, <1>7, <1>8 DEF Create

\* No ceremony has begun and no file is there.
LEMMA InitCeremony == CeremonyInit => CeremonyInv
  BY CeremonyAssumption DEF CeremonyInit, CeremonyInv, CeremonyTypeOK, Owned, TempsOwned, Met,
     Alone, UnderWay, Creating, Writing, Cleaning, File

Stages == {"start", "look", "created", "over"} \union Creating \union Cleaning

\* A ceremony goes from one stage to another.
LEMMA GoTypes ==
  ASSUME CeremonyTypeOK, NEW c \in Ceremony, NEW where \in Stages, NEW f \in File, Go(c, where, f)
  PROVE  stage' \in [Ceremony -> Stages] /\ target' \in [Ceremony -> File]
         /\ \A d \in Ceremony : /\ stage'[d] = IF d = c THEN where ELSE stage[d]
                              /\ target'[d] = IF d = c THEN f ELSE target[d]
  BY DEF CeremonyTypeOK, Go, Stages

\* Every step keeps the types.
LEMMA CeremonyTypes == CeremonyTypeOK /\ [CeremonyNext]_ceremonyVars => CeremonyTypeOK'
<1> SUFFICES ASSUME CeremonyTypeOK, [CeremonyNext]_ceremonyVars PROVE CeremonyTypeOK'
  OBVIOUS
<1> USE DEF files
<1>0. /\ Creating \union Cleaning \union {"look", "over", "created"} \subseteq Stages
      /\ {"write", "place", "chmod"} \subseteq Stages /\ {"clean", "clean temp"} \subseteq Stages
      /\ {"pem", "json"} \subseteq File
  BY DEF Stages, Creating, Writing, Cleaning, File
<1>1. ASSUME NEW c \in Ceremony, Create(c) \/ Fail(c) \/ Cut(c) PROVE CeremonyTypeOK'
  <2>1. \E where \in Stages, f \in File : Go(c, where, f)
    BY <1>0, <1>1, Steps DEF LookForKey, LookForMetadata, Fail, Cut, CleanTemp, WriteTemp,
       CleanFile, GoOnCleaning,
       Places, Passes, CeremonyTypeOK
  <2>2. file' \in [File -> Ceremony \union {Nobody}]
    <3>1. \/ file' = file
          \/ \E f \in File, x \in Ceremony \union {Nobody} : file' = [file EXCEPT ![f] = x]
      BY <1>1, Steps DEF LookForKey, LookForMetadata, Fail, Cut, CleanTemp, WriteTemp, CleanFile,
         Places, Passes
    <3> QED BY <3>1 DEF CeremonyTypeOK
  <2>3. temp' \subseteq Ceremony \X File
    <3>1. temp' \subseteq temp \/ \E f \in File : temp' = temp \union {<<c, f>>}
      BY <1>1, Steps DEF LookForKey, LookForMetadata, Fail, Cut, CleanTemp, WriteTemp, CleanFile,
         Places, Passes
    <3> QED BY <3>1 DEF CeremonyTypeOK
  <2>4. mates' \in [Ceremony -> SUBSET Ceremony]
    <3>1. mates' = mates \/ Joins(c)
      BY <1>1, Steps DEF LookForKey, LookForMetadata, Fail, Cut, CleanTemp, WriteTemp, CleanFile,
         Places, Passes
    <3>2. UnderWay \subseteq Ceremony
      BY DEF UnderWay
    <3> QED BY <3>1, <3>2 DEF Joins, CeremonyTypeOK
  <2>5. cut' \subseteq Ceremony
    BY <1>1, Steps DEF LookForKey, LookForMetadata, Fail, Cut, CleanTemp, WriteTemp, CleanFile,
       Places, Passes,
       CeremonyTypeOK
  <2>6. seen' \in [Ceremony -> Ceremony \union {Nobody}]
    <3>1. seen' = seen \/ seen' = [seen EXCEPT ![c] = file["json"]]
      BY <1>1 DEF Create, LookForKey, LookForMetadata, Fail, Cut, CleanTemp, WriteTemp, CleanFile,
         LookAgain, Replace,
         Chmod, ReadMetadata, ReadKey
    <3> QED BY <1>0, <3>1 DEF CeremonyTypeOK
  <2> QED BY <2>1, <2>2, <2>3, <2>4, <2>5, <2>6, GoTypes DEF CeremonyTypeOK, Stages
<1>2. CASE UNCHANGED ceremonyVars
  BY <1>2 DEF ceremonyVars, CeremonyTypeOK
<1> QED BY <1>1, <1>2 DEF CeremonyNext

-----------------------------------------------------------------------------
(* Files and temporary files are answered for.                             *)

\* A file stays answered for.
LEMMA OwnedKept == CeremonyTypeOK /\ Owned /\ [CeremonyNext]_ceremonyVars => Owned'
<1> SUFFICES ASSUME CeremonyTypeOK, Owned, [CeremonyNext]_ceremonyVars,
                    NEW f \in File, NEW o, file'[f] = o, o # Nobody
             PROVE  o \in cut' \/ Placed(o, f)'
  BY DEF Owned
<1> USE DEF files
<1>0. "pem" \in File /\ "json" \in File /\ f \in {"pem", "json"}
  BY DEF File
<1>1. o \in Ceremony
  BY CeremonyTypes DEF CeremonyTypeOK
<1>2. file[f] = o => o \in cut \/ Placed(o, f)
  BY <1>1, CeremonyAssumption DEF Owned
<1>3. ASSUME NEW c \in Ceremony, Create(c) \/ Fail(c)
      PROVE  o \in cut' \/ Placed(o, f)'
  <2>1. CASE LookForKey(c) \/ LookForMetadata(c)
    <3>1. PICK where \in {"look", "write", "over"}, g \in File : Go(c, where, g)
      BY <1>0, <2>1 DEF LookForKey, LookForMetadata
    <3>2. o = c \/ (stage'[o] = stage[o] /\ target'[o] = target[o])
      BY <1>1, <3>1 DEF Go, CeremonyTypeOK
    <3>3. file' = file /\ cut' = cut /\ stage[c] \in {"start", "look"}
      BY <2>1 DEF LookForKey, LookForMetadata
    <3> QED BY <1>2, <3>2, <3>3 DEF Placed, At, Writing
  <2>2. CASE Fail(c)
    <3>1. file' = file /\ cut' = cut /\ Go(c, "clean", "pem")
      BY <2>2 DEF Fail
    <3>2. /\ stage'[o] = IF o = c THEN "clean" ELSE stage[o]
          /\ target'[o] = IF o = c THEN "pem" ELSE target[o]
      BY <1>1, <3>1 DEF Go, CeremonyTypeOK
    <3> QED BY <1>0, <1>2, <3>1, <3>2 DEF Placed, At
  <2>3. CASE CleanTemp(c)
    <3>1. file' = file /\ cut' = cut /\ Go(c, "over", "json") /\ stage[c] = "clean temp"
      BY <2>3 DEF CleanTemp
    <3>2. o # c => stage'[o] = stage[o] /\ target'[o] = target[o]
      BY <1>1, <3>1 DEF Go, CeremonyTypeOK
    <3> QED BY <1>2, <3>1, <3>2 DEF Placed, At, Writing
  <2>4. ASSUME NEW g \in File, WriteTemp(c, g) PROVE o \in cut' \/ Placed(o, f)'
    <3>1. file' = file /\ cut' = cut /\ Go(c, "place", g) /\ stage[c] = "write" /\ target[c] = g
      BY <2>4 DEF WriteTemp, At
    <3>2. /\ stage'[o] = IF o = c THEN "place" ELSE stage[o]
          /\ target'[o] = IF o = c THEN g ELSE target[o]
      BY <1>1, <3>1 DEF Go, CeremonyTypeOK
    <3> QED BY <1>0, <1>2, <3>1, <3>2 DEF Placed, At, Writing
  <2>5. ASSUME NEW g \in File, CleanFile(c, g) PROVE o \in cut' \/ Placed(o, f)'
    <3>1. /\ file' = [file EXCEPT ![g] = Nobody] /\ cut' = cut /\ GoOnCleaning(c, g)
          /\ stage[c] = "clean" /\ target[c] = g
      BY <2>5 DEF CleanFile, At
    <3>2. f # g /\ file[f] = o
      BY <3>1 DEF CeremonyTypeOK
    <3>3. o # c => stage'[o] = stage[o] /\ target'[o] = target[o]
      BY <1>1, <3>1 DEF GoOnCleaning, Go, CeremonyTypeOK
    <3>4. g = "pem" => stage'[c] = "clean" /\ target'[c] = "json"
      BY <3>1 DEF GoOnCleaning, Go, CeremonyTypeOK
    <3> QED BY <1>0, <1>2, <3>1, <3>2, <3>3, <3>4 DEF Placed, At, Writing, File
  <2>6. ASSUME NEW g \in File, Places(c, g) PROVE o \in cut' \/ Placed(o, f)'
    <3>1. /\ file' = [file EXCEPT ![g] = c] /\ cut' = cut /\ Go(c, "chmod", g)
          /\ stage[c] = "replace" /\ target[c] = g
      BY <2>6 DEF Places, At
    <3>2. IF f = g THEN o = c ELSE file[f] = o
      BY <3>1 DEF CeremonyTypeOK
    <3>3. /\ stage'[o] = IF o = c THEN "chmod" ELSE stage[o]
          /\ target'[o] = IF o = c THEN g ELSE target[o]
      BY <1>1, <3>1 DEF Go, CeremonyTypeOK
    <3> QED BY <1>0, <1>2, <3>1, <3>2, <3>3 DEF Placed, At, Writing
  <2>7. ASSUME NEW where \in Creating \union {"created"}, NEW g \in File, Passes(c, where, g)
        PROVE  o \in cut' \/ Placed(o, f)'
    <3>1. file' = file /\ cut' = cut /\ Go(c, where, g)
      BY <2>7 DEF Passes
    <3>2. /\ stage'[o] = IF o = c THEN where ELSE stage[o]
          /\ target'[o] = IF o = c THEN g ELSE target[o]
      BY <1>1, <3>1 DEF Go, CeremonyTypeOK
    <3> QED BY <1>0, <1>2, <2>7, <3>1, <3>2 DEF Passes, Placed, At, Writing
  <2> QED BY <1>3, <2>1, <2>2, <2>3, <2>4, <2>5, <2>6, <2>7, Steps
<1>4. ASSUME NEW c \in Ceremony, Cut(c) PROVE o \in cut' \/ Placed(o, f)'
  <2>1. file' = file /\ cut' = cut \union {c} /\ Go(c, "over", target[c])
    BY <1>4 DEF Cut
  <2>2. o # c => stage'[o] = stage[o] /\ target'[o] = target[o]
    BY <1>1, <2>1 DEF Go, CeremonyTypeOK
  <2> QED BY <1>2, <2>1, <2>2 DEF Placed, At
<1>5. CASE UNCHANGED ceremonyVars
  BY <1>2, <1>5 DEF ceremonyVars, Placed, At
<1> QED BY <1>3, <1>4, <1>5 DEF CeremonyNext

\* So does a temporary file.
LEMMA TempsOwnedKept == CeremonyTypeOK /\ TempsOwned /\ [CeremonyNext]_ceremonyVars => TempsOwned'
<1> SUFFICES ASSUME CeremonyTypeOK, TempsOwned, [CeremonyNext]_ceremonyVars,
                    NEW o \in Ceremony, NEW f \in File, <<o, f>> \in temp'
             PROVE  o \in cut' \/ At(o, "place", f)' \/ At(o, "replace", f)'
  BY DEF TempsOwned
<1> USE DEF files
<1>0. "pem" \in File /\ "json" \in File
  BY DEF File
<1>1. <<o, f>> \in temp => o \in cut \/ At(o, "place", f) \/ At(o, "replace", f)
  BY DEF TempsOwned
<1>2. ASSUME NEW c \in Ceremony, Create(c) \/ Fail(c)
      PROVE  o \in cut' \/ At(o, "place", f)' \/ At(o, "replace", f)'
  <2>1. CASE LookForKey(c) \/ LookForMetadata(c)
    <3>1. PICK where \in {"look", "write", "over"}, g \in File : Go(c, where, g)
      BY <1>0, <2>1 DEF LookForKey, LookForMetadata
    <3>2. o = c \/ (stage'[o] = stage[o] /\ target'[o] = target[o])
      BY <3>1 DEF Go, CeremonyTypeOK
    <3>3. temp' = temp /\ cut' = cut /\ stage[c] \in {"start", "look"}
      BY <2>1 DEF LookForKey, LookForMetadata
    <3> QED BY <1>1, <3>2, <3>3 DEF At
  <2>2. CASE Fail(c)
    <3>1. temp' = temp \ ({c} \X File) /\ cut' = cut /\ Go(c, "clean", "pem")
      BY <2>2 DEF Fail
    <3>2. o # c
      BY <3>1
    <3>3. stage'[o] = stage[o] /\ target'[o] = target[o]
      BY <3>1, <3>2 DEF Go, CeremonyTypeOK
    <3> QED BY <1>1, <3>1, <3>3 DEF At
  <2>3. CASE CleanTemp(c)
    BY <2>3 DEF CleanTemp
  <2>4. ASSUME NEW g \in File, WriteTemp(c, g)
        PROVE  o \in cut' \/ At(o, "place", f)' \/ At(o, "replace", f)'
    <3>1. /\ temp' = temp \union {<<c, g>>} /\ cut' = cut /\ Go(c, "place", g)
          /\ stage[c] = "write"
      BY <2>4 DEF WriteTemp, At
    <3>2. /\ stage'[o] = IF o = c THEN "place" ELSE stage[o]
          /\ target'[o] = IF o = c THEN g ELSE target[o]
      BY <3>1 DEF Go, CeremonyTypeOK
    <3>3. <<o, f>> \in temp \/ (o = c /\ f = g)
      BY <3>1
    <3> QED BY <1>1, <3>1, <3>2, <3>3 DEF At
  <2>5. ASSUME NEW g \in File, CleanFile(c, g)
        PROVE  o \in cut' \/ At(o, "place", f)' \/ At(o, "replace", f)'
    <3>1. temp' = temp /\ cut' = cut /\ GoOnCleaning(c, g) /\ stage[c] = "clean"
      BY <2>5 DEF CleanFile, At
    <3>2. o # c => stage'[o] = stage[o] /\ target'[o] = target[o]
      BY <3>1 DEF GoOnCleaning, Go, CeremonyTypeOK
    <3> QED BY <1>1, <3>1, <3>2 DEF At
  <2>6. ASSUME NEW g \in File, Places(c, g)
        PROVE  o \in cut' \/ At(o, "place", f)' \/ At(o, "replace", f)'
    <3>1. /\ temp' = temp \ {<<c, g>>} /\ cut' = cut /\ Go(c, "chmod", g)
          /\ stage[c] = "replace" /\ target[c] = g
      BY <2>6 DEF Places, At
    <3>2. o # c => stage'[o] = stage[o] /\ target'[o] = target[o]
      BY <3>1 DEF Go, CeremonyTypeOK
    <3> QED BY <1>1, <3>1, <3>2 DEF At
  <2>7. ASSUME NEW where \in Creating \union {"created"}, NEW g \in File, Passes(c, where, g)
        PROVE  o \in cut' \/ At(o, "place", f)' \/ At(o, "replace", f)'
    <3>1. temp' = temp /\ cut' = cut /\ Go(c, where, g)
      BY <2>7 DEF Passes
    <3>2. /\ stage'[o] = IF o = c THEN where ELSE stage[o]
          /\ target'[o] = IF o = c THEN g ELSE target[o]
      BY <3>1 DEF Go, CeremonyTypeOK
    <3> QED BY <1>1, <2>7, <3>1, <3>2 DEF Passes, At
  <2> QED BY <1>2, <2>1, <2>2, <2>3, <2>4, <2>5, <2>6, <2>7, Steps
<1>3. ASSUME NEW c \in Ceremony, Cut(c)
      PROVE  o \in cut' \/ At(o, "place", f)' \/ At(o, "replace", f)'
  <2>1. temp' = temp /\ cut' = cut \union {c} /\ Go(c, "over", target[c])
    BY <1>3 DEF Cut
  <2>2. o # c => stage'[o] = stage[o] /\ target'[o] = target[o]
    BY <2>1 DEF Go, CeremonyTypeOK
  <2> QED BY <1>1, <2>1, <2>2 DEF At
<1>4. CASE UNCHANGED ceremonyVars
  BY <1>1, <1>4 DEF ceremonyVars, At
<1> QED BY <1>2, <1>3, <1>4 DEF CeremonyNext

-----------------------------------------------------------------------------
(* Who is under way with whom.                                             *)

\* c finds no key and is under way from then on.
Enters(c) ==
  /\ file["pem"] = Nobody /\ stage[c] = "start"
  /\ Go(c, "look", "json") /\ Joins(c)
  /\ UNCHANGED file

\* Apart from the one that lets a ceremony in, a step brings no new ceremony, and what it
\* changes of the files it changes for a ceremony that is under way and has found none.
LEMMA InOrUnderWay ==
  ASSUME CeremonyTypeOK, NEW c \in Ceremony, Create(c) \/ Fail(c) \/ Cut(c)
  PROVE  \/ Enters(c)
         \/ /\ mates' = mates
            /\ UnderWay' \subseteq UnderWay
            /\ \A d \in UnderWay' : stage[d] = "look" =>
                 stage'[d] = "look" \/ (d = c /\ file["json"] = Nobody)
            /\ file' # file => c \in UnderWay /\ stage[c] # "look"
            /\ \A f \in File : file'[f] # file[f] =>
                 file'[f] \in {c, Nobody} /\ <<stage[c], target[c]>> # <<stage[c], target[c]>>'
<1> USE DEF files
<1>1. CASE stage[c] = "start"
  <2>1. LookForKey(c)
    <3>1. \A where \in {"over", "look"} \union Creating \union Cleaning : stage[c] # where
      BY <1>1 DEF Creating, Writing, Cleaning
    <3>2. {"write", "place", "replace", "chmod", "read json", "read pem", "clean", "clean temp"}
            \subseteq Creating \union Cleaning
      BY DEF Creating, Writing, Cleaning
    <3> QED BY <3>1, <3>2 DEF Create, LookForMetadata, WriteTemp, LookAgain, Replace, Chmod,
           CleanFile, CleanTemp, At, ReadMetadata, ReadKey, Fail, Cut, UnderWay
  <2>2. CASE Enters(c)
    BY <2>2
  <2>3. CASE Go(c, "over", "pem") /\ UNCHANGED <<file, mates>>
    <3>1. \A d \in Ceremony : stage'[d] = IF d = c THEN "over" ELSE stage[d]
      BY <2>3 DEF Go, CeremonyTypeOK
    <3>2. UnderWay' \subseteq UnderWay /\ c \notin UnderWay'
      BY <3>1 DEF UnderWay, Creating, Writing, Cleaning
    <3>3. \A d \in UnderWay' : stage'[d] = stage[d]
      BY <3>1, <3>2 DEF UnderWay
    <3> QED BY <2>3, <3>2, <3>3
  <2> QED BY <2>1, <2>2, <2>3 DEF LookForKey, Present, Enters
<1>3. CASE stage[c] = "look"
  <2>1. LookForMetadata(c) \/ Cut(c)
    <3>1. \A where \in {"start"} \union Creating \union Cleaning : stage[c] # where
      BY <1>3 DEF Creating, Writing, Cleaning
    <3>2. {"write", "place", "replace", "chmod", "read json", "read pem", "clean", "clean temp"}
            \subseteq Creating \union Cleaning
      BY DEF Creating, Writing, Cleaning
    <3> QED BY <3>1, <3>2 DEF Create, LookForKey, WriteTemp, LookAgain, Replace, Chmod, CleanFile,
           CleanTemp, At, ReadMetadata, ReadKey, Fail
  <2>2. /\ UNCHANGED <<file, mates>>
        /\ \/ file["json"] = Nobody /\ Go(c, "write", "pem")
           \/ \E f : Go(c, "over", f)
    BY <2>1 DEF LookForMetadata, Present, Cut
  <2>3. /\ \A d \in Ceremony : d # c => stage'[d] = stage[d]
        /\ stage'[c] = "over" \/ (stage'[c] = "write" /\ file["json"] = Nobody)
    BY <2>2 DEF Go, CeremonyTypeOK
  <2>4. c \in UnderWay
    BY <1>3 DEF UnderWay
  <2>5. UnderWay' \subseteq UnderWay /\ (stage'[c] = "over" => c \notin UnderWay')
    BY <2>3, <2>4 DEF UnderWay, Creating, Writing, Cleaning
  <2>6. \A d \in UnderWay' : stage[d] = "look" =>
          stage'[d] = "look" \/ (d = c /\ file["json"] = Nobody)
    BY <2>3, <2>5 DEF UnderWay
  <2> QED BY <2>2, <2>5, <2>6
<1>2. CASE stage[c] # "start" /\ stage[c] # "look"
  <2>1. \E where \in Stages, f \in File : Go(c, where, f)
    <3>1. /\ Creating \union {"look", "over", "created"} \subseteq Stages
          /\ {"write", "place", "chmod", "clean", "clean temp"} \subseteq Stages
          /\ {"pem", "json"} \subseteq File
      BY DEF Stages, Creating, Writing, Cleaning, File
    <3> QED BY <3>1, Steps DEF LookForKey, LookForMetadata, Fail, Cut, CleanTemp, WriteTemp,
                   CleanFile, GoOnCleaning,
               Places, Passes, CeremonyTypeOK
  <2>2. \A d \in Ceremony : d # c => stage'[d] = stage[d]
    BY <2>1 DEF Go, CeremonyTypeOK
  <2>3. stage[c] \in Creating \union Cleaning /\ mates' = mates
    <3>1. {"write", "place", "replace", "chmod", "read json", "read pem", "clean", "clean temp"}
            \subseteq Creating \union Cleaning
      BY DEF Creating, Writing, Cleaning
    <3> QED BY <1>2, <3>1, Steps DEF LookForKey, LookForMetadata, Fail, Cut, CleanTemp, WriteTemp,
                   CleanFile, Places,
               Passes, At, UnderWay
  <2>4. c \in UnderWay
    BY <2>3 DEF UnderWay
  <2>5. /\ UnderWay' \subseteq UnderWay
        /\ \A d \in UnderWay' : stage[d] = "look" => stage'[d] = "look"
    BY <1>2, <2>2, <2>4 DEF UnderWay
  <2>6. ASSUME NEW f \in File, file'[f] # file[f]
        PROVE  file'[f] \in {c, Nobody} /\ <<stage[c], target[c]>> # <<stage[c], target[c]>>'
    <3>1. \E g \in File : CleanFile(c, g) \/ Places(c, g)
      BY <1>2, <2>6, Steps DEF LookForKey, LookForMetadata, Fail, Cut, CleanTemp, WriteTemp, Passes
    <3>2. PICK g \in File : CleanFile(c, g) \/ Places(c, g)
      BY <3>1
    <3>3. file'[f] \in {c, Nobody}
      BY <2>6, <3>2 DEF CleanFile, Places, CeremonyTypeOK
    <3>4. CASE CleanFile(c, g)
      <4>1. /\ stage[c] = "clean" /\ target[c] = g
            /\ (g = "pem" /\ Go(c, "clean", "json")) \/ Go(c, "clean temp", g)
        BY <3>4 DEF CleanFile, At, GoOnCleaning
      <4>2. \/ stage'[c] = "clean" /\ target'[c] = "json" /\ g = "pem"
            \/ stage'[c] = "clean temp"
        BY <4>1 DEF Go, CeremonyTypeOK
      <4> QED BY <3>3, <4>1, <4>2
    <3>5. CASE Places(c, g)
      BY <3>3, <3>5 DEF Places, At, Go, CeremonyTypeOK
    <3> QED BY <3>2, <3>4, <3>5
  <2> QED BY <1>2, <2>3, <2>4, <2>5, <2>6
<1> QED BY <1>1, <1>2, <1>3

\* Ceremonies under way keep knowing each other.
LEMMA MetKept == CeremonyTypeOK /\ Met /\ [CeremonyNext]_ceremonyVars => Met'
<1> SUFFICES ASSUME CeremonyTypeOK, Met, [CeremonyNext]_ceremonyVars PROVE Met'
  OBVIOUS
<1>1. ASSUME NEW c \in Ceremony, Create(c) \/ Fail(c) \/ Cut(c) PROVE Met'
  <2>1. CASE Enters(c)
    <3>1. UnderWay' \subseteq UnderWay \union {c}
      BY <2>1 DEF Enters, Go, UnderWay, CeremonyTypeOK
    <3>2. /\ file' = file /\ file["pem"] = Nobody /\ stage'[c] = "look"
          /\ \A d \in Ceremony : d # c => stage'[d] = stage[d]
      BY <2>1 DEF Enters, Go, CeremonyTypeOK
    <3>3. \A d \in Ceremony :
            mates'[d] = IF d = c THEN UnderWay
                        ELSE IF d \in UnderWay THEN mates[d] \union {c} ELSE mates[d]
      BY <2>1 DEF Enters, Joins
    <3>4. UnderWay \subseteq Ceremony /\ UnderWay' \subseteq Ceremony /\ c \notin UnderWay
      BY <2>1 DEF Enters, UnderWay, Creating, Writing, Cleaning
    <3>5. ASSUME NEW x \in UnderWay', NEW d \in UnderWay' PROVE d = x \/ d \in mates'[x]
      BY <3>1, <3>3, <3>4 DEF Met
    <3>6. ASSUME NEW f \in File, NEW d \in UnderWay', file'[f] # Nobody
          PROVE  \/ d = file'[f] \/ d \in mates'[file'[f]]
                 \/ stage'[d] = "look" /\ f = "json"
      <4>1. f = "json" /\ file[f] \in Ceremony
        BY <3>2, <3>6 DEF File, CeremonyTypeOK
      <4>2. CASE d = c
        BY <3>2, <4>1, <4>2
      <4>3. CASE d # c
        <5>1. d = file[f] \/ d \in mates[file[f]] \/ stage[d] = "look"
          BY <3>1, <3>2, <3>6, <4>3 DEF Met
        <5>2. mates[file[f]] \subseteq mates'[file[f]] \/ file[f] = c
          BY <3>3, <4>1
        <5>3. file[f] = c => d \in mates'[c]
          BY <3>1, <3>3, <4>3
        <5> QED BY <3>2, <3>4, <4>1, <4>3, <5>1, <5>2, <5>3
      <4> QED BY <4>2, <4>3
    <3> QED BY <3>5, <3>6 DEF Met
  <2>2. CASE ~ Enters(c)
    <3>1. /\ mates' = mates /\ UnderWay' \subseteq UnderWay
          /\ \A d \in UnderWay' : stage[d] = "look" =>
               stage'[d] = "look" \/ (d = c /\ file["json"] = Nobody)
          /\ file' # file => c \in UnderWay /\ stage[c] # "look"
          /\ \A f \in File : file'[f] # file[f] => file'[f] \in {c, Nobody}
      BY <1>1, <2>2, InOrUnderWay
    <3>2. ASSUME NEW f \in File, NEW d \in UnderWay', file'[f] # Nobody
          PROVE  \/ d = file'[f] \/ d \in mates'[file'[f]]
                 \/ stage'[d] = "look" /\ f = "json"
      <4>1. CASE file'[f] # file[f]
        BY <3>1, <3>2, <4>1 DEF Met
      <4>2. CASE file'[f] = file[f]
        <5>1. d = file[f] \/ d \in mates[file[f]] \/ (stage[d] = "look" /\ f = "json")
          BY <3>1, <3>2, <4>2 DEF Met
        <5> QED BY <3>1, <3>2, <4>2, <5>1
      <4> QED BY <4>1, <4>2
    <3> QED BY <3>1, <3>2 DEF Met
  <2> QED BY <2>1, <2>2
<1>2. CASE UNCHANGED ceremonyVars
  BY <1>2 DEF ceremonyVars, files, Met, UnderWay
<1> QED BY <1>1, <1>2 DEF CeremonyNext

\* A ceremony without mates keeps finding the files as it left them.
LEMMA AloneKept == CeremonyTypeOK /\ Met /\ Alone /\ [CeremonyNext]_ceremonyVars => Alone'
<1> DEFINE Stands(x) == stage[x] \in Creating \union {"created"} =>
                          \A f \in File : file[f] = IF Placed(x, f) THEN x ELSE Nobody
<1> DEFINE Looks(x) == stage[x] = "look" => file["pem"] = Nobody
<1> SUFFICES ASSUME CeremonyTypeOK, Met, Alone, [CeremonyNext]_ceremonyVars,
                    NEW x \in Ceremony, mates'[x] = {}
             PROVE  Stands(x)' /\ Looks(x)'
  BY DEF Alone
<1> USE DEF files
<1>0. mates[x] = {} => Stands(x) /\ Looks(x)
  BY DEF Alone
<1>p. "pem" \in File /\ "json" \in File /\ "look" \notin Creating \union {"created"}
  BY DEF File, Creating, Writing
<1>1. ASSUME NEW c \in Ceremony, Create(c) \/ Fail(c) \/ Cut(c) PROVE Stands(x)' /\ Looks(x)'
  <2>1. CASE Enters(c)
    <3>1. file' = file /\ file["pem"] = Nobody
      BY <2>1 DEF Enters
    <3>2. stage'[c] = "look" /\ (x # c => stage'[x] = stage[x])
      BY <2>1 DEF Enters, Go, CeremonyTypeOK
    <3>3. CASE x = c
      BY <1>p, <3>1, <3>2, <3>3
    <3>4. CASE x # c
      <4>1. x \notin UnderWay /\ mates[x] = {}
        BY <2>1, <3>4 DEF Enters, Joins
      <4>2. stage[x] \notin Creating /\ stage[x] # "look"
        BY <4>1 DEF UnderWay
      <4>3. stage[x] # "created"
        <5> SUFFICES ASSUME stage[x] = "created" PROVE FALSE
          OBVIOUS
        <5>1. Placed(x, "pem")
          BY DEF Placed
        <5>2. file["pem"] = x
          BY <1>0, <1>p, <4>1, <5>1
        <5> QED BY <3>1, <5>2, CeremonyAssumption
      <4> QED BY <3>2, <3>4, <4>2, <4>3
    <3> QED BY <3>3, <3>4
  <2>2. CASE ~ Enters(c) /\ x # c
    <3>1. /\ mates' = mates
          /\ file' # file => c \in UnderWay /\ stage[c] # "look"
      BY <1>1, <2>2, InOrUnderWay
    <3>2. \E where, g : Go(c, where, g)
      BY <1>1, Steps DEF LookForKey, LookForMetadata, Fail, Cut, CleanTemp, WriteTemp, CleanFile,
         GoOnCleaning, Places, Passes
    <3>3. stage'[x] = stage[x] /\ target'[x] = target[x]
      BY <2>2, <3>2 DEF Go, CeremonyTypeOK
    <3>4. Stands(x) /\ Looks(x)
      BY <1>0, <3>1
    <3>5. \A f \in File : Placed(x, f)' <=> Placed(x, f)
      BY <3>3 DEF Placed, At
    <3>6. CASE file' = file
      BY <3>3, <3>4, <3>5, <3>6
    <3>7. CASE file' # file
      <4>1. c \in UnderWay /\ stage[c] # "look" /\ mates[x] = {}
        BY <3>1, <3>7
      <4>2. x \notin UnderWay
        BY <2>2, <4>1 DEF Met
      <4>3. stage[x] \notin Creating /\ stage[x] # "look"
        BY <4>2 DEF UnderWay
      <4>4. stage[x] # "created"
        <5> SUFFICES ASSUME stage[x] = "created" PROVE FALSE
          OBVIOUS
        <5>1. Placed(x, "pem")
          BY DEF Placed
        <5>2. file["pem"] = x /\ x # Nobody
          BY <1>p, <3>4, <5>1, CeremonyAssumption
        <5> QED BY <1>p, <2>2, <4>1, <5>2 DEF Met
      <4> QED BY <3>3, <4>3, <4>4
    <3> QED BY <3>6, <3>7
  <2>3. CASE ~ Enters(c) /\ x = c
    <3>1. mates[c] = {} /\ Stands(c) /\ Looks(c)
      BY <1>0, <1>1, <2>3, InOrUnderWay
    <3>2. ASSUME NEW where, NEW g, Go(c, where, g)
          PROVE  stage'[c] = where /\ target'[c] = g
      BY <3>2 DEF Go, CeremonyTypeOK
    <3>3. \/ LookForMetadata(c) /\ Go(c, "write", "pem") /\ file["json"] = Nobody
          \/ stage'[c] \in Cleaning \union {"over"}
          \/ \E g \in File : WriteTemp(c, g) \/ Places(c, g)
          \/ \E where \in Creating \union {"created"}, g \in File : Passes(c, where, g)
      <4>1. LookForKey(c) => stage'[c] = "over"
        BY <2>3, <3>2 DEF LookForKey, Present, Enters
      <4>2. \/ ~ LookForMetadata(c) \/ stage'[c] = "over"
            \/ Go(c, "write", "pem") /\ file["json"] = Nobody
        BY <3>2 DEF LookForMetadata, Present
      <4>3. Fail(c) \/ CleanTemp(c) \/ Cut(c) => stage'[c] \in {"clean", "over"}
        BY <3>2 DEF Fail, CleanTemp, Cut
      <4>4. ASSUME NEW g \in File, CleanFile(c, g) PROVE stage'[c] \in {"clean", "clean temp"}
        BY <3>2, <4>4 DEF CleanFile, GoOnCleaning
      <4>5. {"clean", "clean temp"} \subseteq Cleaning
        BY DEF Cleaning
      <4> QED BY <1>1, <4>1, <4>2, <4>3, <4>4, <4>5, Steps
    <3>a. stage'[c] \in Cleaning \union {"over"} => stage'[c] \notin Creating \union {"created",
      "look"}
      BY DEF Cleaning, Creating, Writing
    <3>b. CASE LookForMetadata(c) /\ Go(c, "write", "pem") /\ file["json"] = Nobody
      <4>1. stage'[c] = "write" /\ target'[c] = "pem"
        BY <3>2, <3>b
      <4>2. file' = file /\ stage[c] = "look"
        BY <3>b DEF LookForMetadata
      <4>3. \A f \in File : file'[f] = Nobody
        BY <3>1, <3>b, <4>2 DEF File
      <4>4. \A f \in File : ~ Placed(c, f)'
        BY <4>1 DEF Placed, At
      <4> QED BY <2>3, <4>1, <4>3, <4>4
    <3>4. ASSUME NEW g \in File, WriteTemp(c, g) PROVE Stands(x)' /\ Looks(x)'
      <4>1. /\ stage[c] = "write" /\ target[c] = g /\ stage'[c] = "place" /\ target'[c] = g
            /\ file' = file
        BY <3>2, <3>4 DEF WriteTemp, At
      <4>2. \A f \in File : file[f] = IF Placed(c, f) THEN c ELSE Nobody
        BY <3>1, <4>1 DEF Creating, Writing
      <4>3. \A f \in File : Placed(c, f)' <=> Placed(c, f)
        BY <4>1 DEF Placed, At, Writing
      <4> QED BY <2>3, <4>1, <4>2, <4>3
    <3>5. ASSUME NEW g \in File, Places(c, g) PROVE Stands(x)' /\ Looks(x)'
      <4>1. /\ stage[c] = "replace" /\ target[c] = g /\ stage'[c] = "chmod" /\ target'[c] = g
            /\ \A f \in File : file'[f] = IF f = g THEN c ELSE file[f]
        BY <3>2, <3>5 DEF Places, At, CeremonyTypeOK
      <4>2. \A f \in File : file[f] = IF Placed(c, f) THEN c ELSE Nobody
        BY <3>1, <4>1 DEF Creating, Writing
      <4>3. \A f \in File : Placed(c, f)' <=> f = g \/ Placed(c, f)
        BY <4>1 DEF Placed, At, Writing, File
      <4> QED BY <2>3, <4>1, <4>2, <4>3
    <3>6. ASSUME NEW where \in Creating \union {"created"}, NEW g \in File, Passes(c, where, g)
          PROVE  Stands(x)' /\ Looks(x)'
      <4>1. stage'[c] = where /\ target'[c] = g /\ file' = file
        BY <3>2, <3>6 DEF Passes
      <4>2. stage[c] \in Creating
        BY <3>6 DEF Passes, At, Creating, Writing
      <4>3. \A f \in File : file[f] = IF Placed(c, f) THEN c ELSE Nobody
        BY <3>1, <4>2
      <4>4. \A f \in File : Placed(c, f)' <=> Placed(c, f)
        BY <3>6, <4>1 DEF Passes, Placed, At, Writing, File
      <4> QED BY <1>p, <2>3, <4>1, <4>3, <4>4
    <3> QED BY <2>3, <3>3, <3>a, <3>b, <3>4, <3>5, <3>6
  <2> QED BY <2>1, <2>2, <2>3
<1>2. CASE UNCHANGED ceremonyVars
  <2>1. file' = file /\ stage' = stage /\ target' = target /\ mates' = mates
    BY <1>2 DEF ceremonyVars
  <2>2. \A f \in File : Placed(x, f)' <=> Placed(x, f)
    BY <2>1 DEF Placed, At
  <2> QED BY <1>0, <2>1, <2>2
<1> QED BY <1>1, <1>2 DEF CeremonyNext

-----------------------------------------------------------------------------
(* What the ceremony guarantees.                                           *)

\* The inductive invariant.
THEOREM CeremonyInvariant == CeremonySpec => []CeremonyInv
<1>1. CeremonyInv /\ [CeremonyNext]_ceremonyVars => CeremonyInv'
  BY CeremonyTypes, OwnedKept, TempsOwnedKept, MetKept, AloneKept DEF CeremonyInv
<1> QED BY <1>1, InitCeremony, PTL DEF CeremonySpec

\* The variables have their types.
THEOREM CeremonyTypesHold == CeremonySpec => []CeremonyTypeOK
<1>1. CeremonyInv => CeremonyTypeOK
  BY DEF CeremonyInv
<1> QED BY <1>1, CeremonyInvariant, PTL

\* An identity reported by a ceremony that nobody overlapped stays whole (identity.py
\* create_production_identity).
THEOREM CreatedForGood == CeremonySpec => []CreatedStays
<1>1. CeremonyInv => CreatedStays
  BY DEF CeremonyInv, Alone, CreatedStays, Created, Placed
<1> QED BY <1>1, CeremonyInvariant, PTL

\* Ceremonies that all failed and ran to their end leave no file, however they overlapped
\* (_cleanup_identity_files).
THEOREM NothingLeft == CeremonySpec => []FailureLeavesNothing
<1>1. ASSUME CeremonyInv, UnderWay = {}, cut = {}, Created = {}
             PROVE (\A f \in File : file[f] = Nobody) /\ temp = {}
  <2>0. CeremonyTypeOK /\ "pem" \in File /\ "json" \in File
    BY <1>1 DEF CeremonyInv, File
  <2>1. ASSUME NEW c \in Ceremony
        PROVE  stage[c] \notin Creating \union Cleaning \union {"created"}
    BY <1>1 DEF UnderWay, Created
  <2>2. ASSUME NEW f \in File PROVE file[f] = Nobody
    <3> SUFFICES ASSUME file[f] # Nobody PROVE FALSE
      OBVIOUS
    <3>1. file[f] \in Ceremony /\ Placed(file[f], f)
      BY <1>1, <2>0 DEF CeremonyInv, CeremonyTypeOK, Owned
    <3>2. stage[file[f]] \in Creating \union Cleaning \union {"created"}
      BY <3>1 DEF Placed, At, Creating, Writing, Cleaning
    <3> QED BY <2>1, <3>1, <3>2
  <2>3. ASSUME NEW c \in Ceremony, NEW f \in File PROVE <<c, f>> \notin temp
    <3> SUFFICES ASSUME <<c, f>> \in temp PROVE FALSE
      OBVIOUS
    <3>1. At(c, "place", f) \/ At(c, "replace", f)
      BY <1>1 DEF CeremonyInv, TempsOwned
    <3> QED BY <2>1, <3>1 DEF At, Creating, Writing
  <2>4. temp \subseteq Ceremony \X File
    BY <2>0 DEF CeremonyTypeOK
  <2> QED BY <2>2, <2>3, <2>4
<1>2. CeremonyInv => FailureLeavesNothing
  BY <1>1 DEF FailureLeavesNothing
<1> QED BY <1>2, CeremonyInvariant, PTL

\* Only a ceremony or one it overlapped removes or replaces its files.
THEOREM StrangersKept == CeremonySpec => KeptFromStrangers
<1> DEFINE Kept == \A f \in File :
       file[f] # Nobody /\ file'[f] # file[f] =>
         \E c \in {file[f]} \union mates[file[f]] :
           <<stage[c], target[c]>> # <<stage[c], target[c]>>'
<1>1. ASSUME CeremonyInv, [CeremonyNext]_ceremonyVars PROVE Kept \/ UNCHANGED ceremonyVars
  <2>1. ASSUME NEW c \in Ceremony, Create(c) \/ Fail(c) \/ Cut(c),
               NEW f \in File, file[f] # Nobody, file'[f] # file[f]
        PROVE  \E d \in {file[f]} \union mates[file[f]] :
                 <<stage[d], target[d]>> # <<stage[d], target[d]>>'
    <3>1. ~ Enters(c)
      BY <2>1 DEF Enters
    <3>2. /\ c \in UnderWay /\ stage[c] # "look"
          /\ <<stage[c], target[c]>> # <<stage[c], target[c]>>'
      BY <1>1, <2>1, <3>1, InOrUnderWay DEF CeremonyInv
    <3>3. c = file[f] \/ c \in mates[file[f]]
      BY <1>1, <2>1, <3>2 DEF CeremonyInv, Met
    <3> QED BY <3>2, <3>3
  <2> QED BY <1>1, <2>1 DEF CeremonyNext
<1>2. CeremonyInv /\ [CeremonyNext]_ceremonyVars => [Kept]_ceremonyVars
  BY <1>1
<1> QED BY <1>2, CeremonyInvariant, PTL DEF CeremonySpec, KeptFromStrangers
=============================================================================
