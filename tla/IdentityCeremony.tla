-------------------------- MODULE IdentityCeremony --------------------------
(***************************************************************************)
(* `identity create-production': create_production_identity (identity.py)  *)
(* run by any number of processes on one state directory, with the two     *)
(* no-replace writes, the verification that reads both files back, and the *)
(* cleanup after a failure, which removes the files by name, whoever       *)
(* wrote them.                                                             *)
(*                                                                         *)
(* Whatever can go wrong with a step (a full disk, the state directory     *)
(* removed or re-created by another ceremony, a passphrase that does not   *)
(* open the key read) is a failure of that step; what is refused before    *)
(* the first look at the files does nothing and is left out.               *)
(***************************************************************************)
CONSTANTS
  Ceremony,  \* runs of the command
  Nobody     \* no file

ASSUME CeremonyAssumption == Nobody \notin Ceremony

VARIABLES
  file,    \* identity.pem and identity.json: the ceremony whose key they hold
  temp,    \* temporary files .identity.*.PID.tmp, as pairs of a ceremony and a file
  stage,   \* where each ceremony stands
  target,  \* the file it writes or removes
  seen,    \* whose identity.json verify_identity has read
  mates,   \* history: the ceremonies that were under way together with each one
  cut      \* history: ceremonies that died, or whose cleanup lost a race with another's

files == <<file, temp>>
ceremonyVars == <<files, stage, target, seen, mates, cut>>

File == {"pem", "json"}

Writing  == {"write", "place", "replace", "chmod"}
Creating == Writing \union {"read json", "read pem"}
Cleaning == {"clean", "clean temp"}

\* From the first look on.
UnderWay == {c \in Ceremony : stage[c] \in {"look"} \union Creating \union Cleaning}

CeremonyInit ==
  /\ file = [f \in File |-> Nobody]
  /\ temp = {}
  /\ stage = [c \in Ceremony |-> "start"]
  /\ target = [c \in Ceremony |-> "pem"]
  /\ seen = [c \in Ceremony |-> Nobody]
  /\ mates = [c \in Ceremony |-> {}]
  /\ cut = {}

At(c, where, f) == stage[c] = where /\ target[c] = f

Go(c, where, f) ==
  /\ stage' = [stage EXCEPT ![c] = where]
  /\ target' = [target EXCEPT ![c] = f]

\* c joins the ceremonies that are under way, and they meet it.
Joins(c) ==
  mates' = [d \in Ceremony |-> IF d = c THEN UnderWay
                              ELSE IF d \in UnderWay THEN mates[d] \union {c} ELSE mates[d]]

-----------------------------------------------------------------------------
(* _assert_no_identity_exists: the key file, then the metadata file.  It   *)
(* comes before the try: what it refuses is not cleaned up after.          *)

\* Fault: nothing is looked for.
PresentNever(f) == FALSE

\* Fault: only the metadata file is looked for.
PresentMetadata(f) == f = "json" /\ file[f] # Nobody

Present(f) == file[f] # Nobody

LookForKey(c) ==
  /\ stage[c] = "start"
  /\ \/ ~ Present("pem") /\ Go(c, "look", "json") /\ Joins(c)
     \/ Present("pem") /\ Go(c, "over", "pem") /\ UNCHANGED mates
  /\ UNCHANGED <<files, seen, cut>>

LookForMetadata(c) ==
  /\ stage[c] = "look"
  /\ \/ ~ Present("json") /\ Go(c, "write", "pem")
     \/ Present("json") /\ Go(c, "over", "json")
  /\ UNCHANGED <<files, seen, mates, cut>>

-----------------------------------------------------------------------------
(* _atomic_write_bytes_no_replace: exclusive temporary file, a look for    *)
(* the target, rename, chmod.                                              *)

\* Any exception leads to the cleanup; the write's own temporary file goes first.
Fail(c) ==
  /\ stage[c] \in Creating
  /\ temp' = temp \ ({c} \X File)
  /\ Go(c, "clean", "pem")
  /\ UNCHANGED <<file, seen, mates, cut>>

WriteTemp(c, f) ==
  /\ At(c, "write", f)
  /\ temp' = temp \union {<<c, f>>}
  /\ Go(c, "place", f)
  /\ UNCHANGED <<file, seen, mates, cut>>

\* "already exists; refusing to overwrite"
LookAgain(c, f) ==
  /\ At(c, "place", f)
  /\ \/ file[f] = Nobody /\ Go(c, "replace", f) /\ UNCHANGED <<files, seen, mates, cut>>
     \/ file[f] # Nobody /\ Fail(c)

\* rename replaces what another ceremony put there since; another one's cleanup may have
\* taken the temporary file away.
Replace(c, f) ==
  /\ At(c, "replace", f)
  /\ \/ /\ <<c, f>> \in temp
        /\ file' = [file EXCEPT ![f] = c]
        /\ temp' = temp \ {<<c, f>>}
        /\ Go(c, "chmod", f)
        /\ UNCHANGED <<seen, mates, cut>>
     \/ <<c, f>> \notin temp /\ Fail(c)

Chmod(c, f) ==
  /\ At(c, "chmod", f)
  /\ \/ /\ file[f] # Nobody
        /\ IF f = "pem" THEN Go(c, "write", "json") ELSE Go(c, "read json", f)
        /\ UNCHANGED <<files, seen, mates, cut>>
     \/ file[f] = Nobody /\ Fail(c)

-----------------------------------------------------------------------------
(* verify_identity: both files exist, the metadata is read, then the key.  *)

ReadMetadata(c) ==
  /\ stage[c] = "read json"
  /\ \/ /\ \A f \in File : file[f] # Nobody
        /\ seen' = [seen EXCEPT ![c] = file["json"]]
        /\ Go(c, "read pem", "json")
        /\ UNCHANGED <<files, mates, cut>>
     \/ (\E f \in File : file[f] = Nobody) /\ Fail(c)

\* The key must be the one the metadata describes; whether it is the one just generated is not
\* asked, and any failure to open it is Fail.
ReadKey(c) ==
  /\ stage[c] = "read pem"
  /\ file["pem"] = seen[c]
  /\ Go(c, "created", "json")
  /\ UNCHANGED <<files, seen, mates, cut>>

-----------------------------------------------------------------------------
(* _cleanup_identity_files                                                 *)

GoOnCleaning(c, f) == IF f = "pem" THEN Go(c, "clean", "json") ELSE Go(c, "clean temp", f)

\* Fault: the metadata file is left.
CleanFileKeyOnly(c, f) ==
  /\ At(c, "clean", f)
  /\ file' = [file EXCEPT !["pem"] = Nobody]
  /\ GoOnCleaning(c, f)
  /\ UNCHANGED <<temp, seen, mates, cut>>

CleanFile(c, f) ==
  /\ At(c, "clean", f)
  /\ file' = [file EXCEPT ![f] = Nobody]
  /\ GoOnCleaning(c, f)
  /\ UNCHANGED <<temp, seen, mates, cut>>

\* Every temporary file of any ceremony.
CleanTemp(c) ==
  /\ stage[c] = "clean temp"
  /\ temp' = {}
  /\ Go(c, "over", "json")
  /\ UNCHANGED <<file, seen, mates, cut>>

\* The process dies where it is, or its cleanup raises because a file it saw is gone.
Cut(c) ==
  /\ c \in UnderWay
  /\ cut' = cut \union {c}
  /\ Go(c, "over", target[c])
  /\ UNCHANGED <<files, seen, mates>>

-----------------------------------------------------------------------------
Create(c) ==
  \/ LookForKey(c) \/ LookForMetadata(c)
  \/ \E f \in File :
       WriteTemp(c, f) \/ LookAgain(c, f) \/ Replace(c, f) \/ Chmod(c, f) \/ CleanFile(c, f)
  \/ ReadMetadata(c) \/ ReadKey(c)
  \/ CleanTemp(c)

CeremonyNext == \E c \in Ceremony : Create(c) \/ Fail(c) \/ Cut(c)

CeremonySpec == CeremonyInit /\ [][CeremonyNext]_ceremonyVars

-----------------------------------------------------------------------------
(* Properties.                                                             *)

\* Every variable has its type.
CeremonyTypeOK ==
  /\ file \in [File -> Ceremony \union {Nobody}]
  /\ temp \subseteq Ceremony \X File
  /\ stage \in [Ceremony -> {"start", "look", "created", "over"} \union Creating \union Cleaning]
  /\ target \in [Ceremony -> File]
  /\ seen \in [Ceremony -> Ceremony \union {Nobody}]
  /\ mates \in [Ceremony -> SUBSET Ceremony]
  /\ cut \subseteq Ceremony

Created == {c \in Ceremony : stage[c] = "created"}

\* A reported identity is there, whole, for ever, if no other ceremony was under way together
\* with the one that reported it; one that starts later does no harm, however it fails.
CreatedStays ==
  \A c \in Created : mates[c] = {} => \A f \in File : file[f] = c

\* An identity file is removed or replaced by its own ceremony or by one that was under way
\* together with it, never by a stranger: what a death left behind stays for a person to see.
KeptFromStrangers ==
  [][\A f \in File :
       file[f] # Nobody /\ file'[f] # file[f] =>
         \E c \in {file[f]} \union mates[file[f]] :
           <<stage[c], target[c]>> # <<stage[c], target[c]>>']_ceremonyVars

\* When all ceremonies are over, none was cut short and none reported an identity, then none
\* left a key, metadata or a temporary file, however they overlapped.
FailureLeavesNothing ==
  UnderWay = {} /\ cut = {} /\ Created = {} =>
    (\A f \in File : file[f] = Nobody) /\ temp = {}
=============================================================================
