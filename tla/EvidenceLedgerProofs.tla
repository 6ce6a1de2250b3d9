------------------------ MODULE EvidenceLedgerProofs ------------------------
(***************************************************************************)
(* Proofs about EvidenceLedger for any number of writers and contents: the *)
(* file's type, the hash chain without overlapping appends, what stays in  *)
(* the file.                                                               *)
(***************************************************************************)
EXTENDS EvidenceLedger, TLAPS

\* The flags apart: they are of no use to the arithmetic of the rest.
LedgerFlagsOK == open \in BOOLEAN /\ overlaps \in BOOLEAN

LedgerDataOK ==
  /\ lines \in Seq(Record \union {Garbage}) /\ Len(lines) <= MaxLines
  /\ holding \subseteq Writer
  /\ last \in [Writer -> 0..MaxLines]

\* Extending the file keeps its type, adds at most one line and changes no finished one.
LEMMA ExtendedFile ==
  ASSUME lines \in Seq(Record \union {Garbage}), NEW line \in Record \union {Garbage},
         open => lines # <<>>
  PROVE  /\ Extended(line) \in Seq(Record \union {Garbage})
         /\ Len(Extended(line)) = IF open THEN Len(lines) ELSE Len(lines) + 1
         /\ open => Extended(line)[Len(lines)] = Garbage
         /\ ~open => Extended(line)[Len(lines) + 1] = line
         /\ \A i \in 1..Len(lines) : i < Len(lines) \/ ~open => Extended(line)[i] = lines[i]
<1>1. CASE open
  BY <1>1 DEF Extended
<1>2. CASE ~open
  BY <1>2 DEF Extended
<1> QED BY <1>1, <1>2

-----------------------------------------------------------------------------
\* An unfinished line is a line.
OpenLine == open => lines # <<>>

\* Without overlap at most one writer is between its read and its append ...
Alone == ~overlaps => \A v, w \in holding : v = w

\* ... and what it read is still the end of the file.
Current == Readable /\ ~overlaps => \A w \in holding : last[w] = Len(lines)

LedgerInv == LedgerDataOK /\ OpenLine /\ Alone /\ Current /\ SerialAppendsVerify

LEMMA LedgerInitInv == LedgerInit => LedgerInv
  BY LedgerAssumption DEF LedgerInit, LedgerInv, LedgerDataOK, OpenLine, Alone, Current,
     SerialAppendsVerify, Verifies

\* A step that writes: the file is extended by a line of writer w, who leaves.
LEMMA WriteKeepsInv ==
  ASSUME LedgerInv, NEW w \in holding, NEW c \in Content, Len(lines) < MaxLines,
         NEW line \in {Garbage, [of |-> c, prev |-> last[w]]},
         lines' = Extended(line), Drop(w)
  PROVE  LedgerInv'
<1> USE DEF LedgerInv, LedgerDataOK
<1>1. line \in Record \union {Garbage}
  BY DEF Record
<1>2. /\ Extended(line) \in Seq(Record \union {Garbage})
      /\ Len(Extended(line)) = IF open THEN Len(lines) ELSE Len(lines) + 1
      /\ open => Extended(line)[Len(lines)] = Garbage
      /\ ~open => Extended(line)[Len(lines) + 1] = line
      /\ \A i \in 1..Len(lines) : i < Len(lines) \/ ~open => Extended(line)[i] = lines[i]
  BY <1>1, ExtendedFile DEF OpenLine
<1>3. Len(lines) \in Nat /\ (open => Len(lines) # 0)
  BY DEF OpenLine
<1>4. LedgerDataOK'
  BY <1>2, <1>3, LedgerAssumption DEF Drop
<1>5. OpenLine'
  BY <1>2, <1>3 DEF OpenLine
<1>6. Alone'
  BY DEF Alone, Drop
<1>7. Readable' => ~open /\ Readable /\ line # Garbage
  BY <1>2, <1>3 DEF Readable
<1>8. Current'
  BY <1>7 DEF Current, Alone, Drop
<1>9. ASSUME Readable', ~overlaps' PROVE Verifies'
  <2>1. ~overlaps
    BY <1>9 DEF Drop
  <2>2. ~open /\ Readable /\ line = [of |-> c, prev |-> last[w]] /\ last[w] = Len(lines)
    BY <1>7, <1>9, <2>1 DEF Current
  <2>3. Verifies
    BY <2>1, <2>2 DEF SerialAppendsVerify
  <2>4. lines'[Len(lines) + 1].prev = Len(lines)
    BY <1>2, <2>2
  <2>5. Len(lines') = Len(lines) + 1
    BY <1>2, <2>2
  <2>6. ASSUME NEW i \in 1..Len(lines') PROVE lines'[i].prev = i - 1
    <3>1. CASE i = Len(lines) + 1
      BY <3>1, <2>4, <1>3
    <3>2. CASE i # Len(lines) + 1
      BY <3>2, <2>2, <2>3, <2>5, <1>2, <1>3 DEF Verifies
    <3> QED BY <3>1, <3>2
  <2> QED BY <2>6, <1>9 DEF Verifies, Readable
<1>10. SerialAppendsVerify'
  BY <1>9 DEF SerialAppendsVerify
<1> QED BY <1>4, <1>5, <1>6, <1>8, <1>10

LEMMA LedgerNextInv == LedgerInv /\ [LedgerNext]_ledgerVars => LedgerInv'
<1> SUFFICES ASSUME LedgerInv, [LedgerNext]_ledgerVars PROVE LedgerInv'
  OBVIOUS
<1>1. ASSUME NEW w \in Writer, ReadLast(w) PROVE LedgerInv'
  <2> USE <1>1 DEF ReadLast, LedgerInv
  <2>1. LedgerDataOK'
    BY LedgerAssumption DEF LedgerDataOK
  <2>2. OpenLine' /\ SerialAppendsVerify'
    BY DEF OpenLine, SerialAppendsVerify, Verifies, Readable
  <2>3. Alone'
    BY DEF Alone
  <2>4. Current'
    BY DEF Current, LedgerDataOK
  <2> QED BY <2>1, <2>2, <2>3, <2>4
<1>2. ASSUME NEW w \in Writer, AppendNothing(w) PROVE LedgerInv'
  BY <1>2, LedgerAssumption DEF AppendNothing, Drop, LedgerInv, LedgerDataOK, OpenLine, Alone, Current,
     SerialAppendsVerify, Verifies, Readable
<1>3. ASSUME NEW w \in Writer, NEW c \in Content, AppendRecord(w, c) PROVE LedgerInv'
  BY <1>3, WriteKeepsInv DEF AppendRecord
<1>4. ASSUME NEW w \in Writer, NEW c \in Content, AppendShort(w, c) PROVE LedgerInv'
  BY <1>4, WriteKeepsInv DEF AppendShort
<1>5. CASE UNCHANGED ledgerVars
  BY <1>5 DEF ledgerVars, LedgerInv, LedgerDataOK, OpenLine, Alone, Current,
     SerialAppendsVerify, Verifies, Readable
<1> QED BY <1>1, <1>2, <1>3, <1>4, <1>5 DEF LedgerNext

-----------------------------------------------------------------------------
\* The flags are Booleans.
LEMMA LedgerFlags == LedgerFlagsOK /\ [LedgerNext]_ledgerVars => LedgerFlagsOK'
  BY Zenon DEF LedgerFlagsOK, LedgerNext, ledgerVars, ReadLast, AppendNothing, AppendRecord, AppendShort, Drop

\* After a write each line is garbage, an old line, or the new one at the end.
LEMMA ExtendedLines ==
  ASSUME LedgerInv, NEW line \in Record \union {Garbage}, lines' = Extended(line)
  PROVE  /\ Len(lines) \in Nat /\ Len(lines') \in Nat
         /\ \A i \in 1..Len(lines') :
              \/ lines'[i] = Garbage
              \/ i \in 1..Len(lines) /\ lines'[i] = lines[i]
              \/ i = Len(lines) + 1 /\ lines'[i] = line
  BY ExtendedFile DEF LedgerInv, LedgerDataOK, OpenLine

\* Content c has a record, if the ledger can be read at all.
Told(c) == Readable => \E i \in 1..Len(lines) : lines[i].of = c

\* A record stays in the ledger as long as the ledger can be read.
LEMMA ToldStays ==
  LedgerInv /\ [LedgerNext]_ledgerVars => \A c \in Content : Told(c) => Told(c)'
<1> SUFFICES ASSUME LedgerInv, [LedgerNext]_ledgerVars, NEW k \in Content, Told(k), Readable'
             PROVE  \E i \in 1..Len(lines') : lines'[i].of = k
  BY DEF Told
<1> USE DEF LedgerInv, LedgerDataOK, OpenLine
<1>1. CASE UNCHANGED lines
  BY <1>1 DEF Told, Readable
<1>2. ASSUME NEW w \in holding, NEW c \in Content,
             NEW line \in {Garbage, [of |-> c, prev |-> last[w]]}, lines' = Extended(line)
      PROVE  \E i \in 1..Len(lines') : lines'[i].of = k
  <2>1. line \in Record \union {Garbage}
    BY DEF Record
  <2>2. Len(lines') \in Nat /\ Len(lines) \in Nat /\ Len(lines) <= Len(lines')
    BY <1>2, <2>1, ExtendedFile
  <2>3. ~open /\ \A i \in 1..Len(lines) : lines'[i] = lines[i]
    BY <1>2, <2>1, <2>2, ExtendedFile DEF Readable
  <2>4. Readable
    BY <2>2, <2>3 DEF Readable
  <2> QED BY <2>2, <2>3, <2>4 DEF Told
<1> QED BY <1>1, <1>2 DEF LedgerNext, ReadLast, AppendNothing, AppendRecord, AppendShort, ledgerVars

\* An append that leaves the ledger readable leaves the record in it, cut short or not.
LEMMA AppendedIsTold ==
  ASSUME LedgerInv, NEW w \in holding, NEW c \in Content, AppendRecord(w, c) \/ AppendShort(w, c)
  PROVE  Told(c)'
<1> USE DEF LedgerInv, LedgerDataOK, OpenLine
<1>1. PICK line \in {Garbage, [of |-> c, prev |-> last[w]]} : lines' = Extended(line)
  BY DEF AppendRecord, AppendShort
<1>2. line \in Record \union {Garbage}
  BY DEF Record
<1>3. /\ Len(lines) \in Nat
      /\ open => Len(lines) # 0 /\ Len(lines') = Len(lines) /\ lines'[Len(lines)] = Garbage
      /\ ~open => Len(lines') = Len(lines) + 1 /\ lines'[Len(lines) + 1] = line
  BY <1>1, <1>2, ExtendedFile
<1>4. CASE open \/ line = Garbage
  BY <1>3, <1>4 DEF Told, Readable
<1>5. CASE ~open /\ line # Garbage
  BY <1>1, <1>3, <1>5 DEF Told
<1> QED BY <1>4, <1>5

-----------------------------------------------------------------------------
\* The chain verifies unless appends overlapped or a line was cut short (verify_ledger).
THEOREM SerialChain == LedgerSpec => []SerialAppendsVerify
<1>1. LedgerInv => SerialAppendsVerify
  BY DEF LedgerInv
<1> QED BY <1>1, LedgerInitInv, LedgerNextInv, PTL DEF LedgerSpec

\* Finished lines of the ledger never change, whatever writers die, overlap or are cut short.
THEOREM FinishedLinesStay == LedgerSpec => AppendOnly
<1> DEFINE Stays == \A i \in 1..Len(lines) : i < Len(lines) \/ ~open => lines'[i] = lines[i]
<1>1. LedgerInv /\ [LedgerNext]_ledgerVars => [Stays]_ledgerVars
  <2> SUFFICES ASSUME LedgerInv, [LedgerNext]_ledgerVars PROVE Stays
    OBVIOUS
  <2> USE DEF LedgerInv, LedgerDataOK, OpenLine
  <2>1. CASE UNCHANGED lines
    BY <2>1
  <2>2. ASSUME NEW w \in holding, NEW c \in Content,
               NEW line \in {Garbage, [of |-> c, prev |-> last[w]]}, lines' = Extended(line)
        PROVE  Stays
    <3>1. line \in Record \union {Garbage}
      BY DEF Record
    <3> QED BY <2>2, <3>1, ExtendedFile
  <2> QED BY <2>1, <2>2 DEF LedgerNext, ReadLast, AppendNothing, AppendRecord, AppendShort, ledgerVars
<1> QED BY <1>1, LedgerInitInv, LedgerNextInv, PTL DEF LedgerSpec, AppendOnly
=============================================================================
