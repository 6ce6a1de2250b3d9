--------------------------- MODULE EvidenceLedger ---------------------------
(***************************************************************************)
(* ledger.jsonl: append_record (ledger.py) called by any number of         *)
(* processes (execute_passive, verify, the room activation audit) without  *)
(* a lock.  The hash of the last line is read first and the new line is    *)
(* appended later; the append can be cut short (ENOSPC, power).            *)
(*                                                                         *)
(* A record's hash is unique, so the position of its line stands for it,   *)
(* and 0 for the absent hash of an empty ledger.                           *)
(***************************************************************************)
EXTENDS Integers, Sequences

CONSTANTS
  Writer,    \* processes that append
  Content,   \* what they record
  Garbage,   \* a line that is no JSON record
  MaxLines   \* bound: lines of the ledger

ASSUME LedgerAssumption == MaxLines \in Nat /\ Garbage \notin [of : Content, prev : Nat]

VARIABLES
  lines,     \* the file
  open,      \* its last line has no newline yet
  holding,   \* history: writers between their read and their append
  last,      \* what each of them read
  overlaps   \* history: two writers were ever between read and append together

ledgerVars == <<lines, open, holding, last, overlaps>>

Record == [of : Content, prev : 0..MaxLines]

LedgerInit ==
  /\ lines = <<>>
  /\ open = FALSE
  /\ holding = {}
  /\ last = [w \in Writer |-> 0]
  /\ overlaps = FALSE

-----------------------------------------------------------------------------
\* previous_hash parses every line.
Readable == \A i \in 1..Len(lines) : lines[i] # Garbage

\* Fault: the hash of the line before the last one.
ReadLastOffByOne(w) ==
  /\ Readable
  /\ w \notin holding
  /\ last' = [last EXCEPT ![w] = IF lines = <<>> THEN 0 ELSE Len(lines) - 1]
  /\ holding' = holding \union {w}
  /\ overlaps' = (overlaps \/ holding # {})
  /\ UNCHANGED <<lines, open>>

ReadLast(w) ==
  /\ Readable
  /\ w \notin holding
  /\ last' = [last EXCEPT ![w] = Len(lines)]
  /\ holding' = holding \union {w}
  /\ overlaps' = (overlaps \/ holding # {})
  /\ UNCHANGED <<lines, open>>

Drop(w) ==
  /\ holding' = holding \ {w}
  /\ last' = [last EXCEPT ![w] = 0]
  /\ UNCHANGED overlaps

\* Fault: O_TRUNC.
ExtendedAfresh(line) == <<line>>

\* What O_APPEND does to the file: bytes that follow an unfinished line join it.
Extended(line) ==
  IF open THEN [lines EXCEPT ![Len(lines)] = Garbage] ELSE Append(lines, line)

AppendRecord(w, c) ==
  /\ w \in holding
  /\ Len(lines) < MaxLines
  /\ lines' = Extended([of |-> c, prev |-> last[w]])
  /\ open' = FALSE
  /\ Drop(w)

\* A short write: part of a record, or all of it but the newline.
AppendShort(w, c) ==
  /\ w \in holding
  /\ Len(lines) < MaxLines
  /\ \E line \in {Garbage, [of |-> c, prev |-> last[w]]} : lines' = Extended(line)
  /\ open' = TRUE
  /\ Drop(w)

\* The process dies, or os.open, fchmod or os.write fails, before anything is written.
AppendNothing(w) ==
  /\ w \in holding
  /\ Drop(w)
  /\ UNCHANGED <<lines, open>>

LedgerNext ==
  \E w \in Writer : \/ ReadLast(w) \/ AppendNothing(w)
                    \/ \E c \in Content : AppendRecord(w, c) \/ AppendShort(w, c)

LedgerSpec == LedgerInit /\ [][LedgerNext]_ledgerVars

-----------------------------------------------------------------------------
(* verify_ledger, and the properties.                                      *)

Verifies == \A i \in 1..Len(lines) : lines[i] # Garbage /\ lines[i].prev = i - 1

LedgerTypeOK ==
  /\ lines \in Seq(Record \union {Garbage}) /\ Len(lines) <= MaxLines
  /\ open \in BOOLEAN /\ overlaps \in BOOLEAN
  /\ holding \subseteq Writer
  /\ last \in [Writer -> 0..MaxLines]

\* As long as every line can be read and no two appends overlapped, the chain verifies:
\* neither crashes nor failed appends break it.
SerialAppendsVerify == Readable /\ ~overlaps => Verifies

\* A finished line is never changed again.
AppendOnly ==
  [][\A i \in 1..Len(lines) : i < Len(lines) \/ ~open => lines'[i] = lines[i]]_ledgerVars
=============================================================================
