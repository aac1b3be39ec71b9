----------------------------- MODULE LedgerFile -----------------------------
(***************************************************************************)
(* The hash-chained ledger file of observability/ledger.py: its lines, and *)
(* what appending to it, a write cut short and verify() make of them.      *)
(*                                                                         *)
(* SHA-256 is taken to be injective: the hash of an entry IS the sequence  *)
(* of the payloads up to it, so GENESIS is the empty sequence.             *)
(*                                                                         *)
(* A definition marked (fault) is a plausible bug in the definition after  *)
(* it; nothing uses it, and some property tells the two apart.             *)
(***************************************************************************)
EXTENDS Integers, FiniteSets, Sequences, SequencesExt

VARIABLES
    file,         \* the lines: entries, or Garbage where a line does not parse
    lineEnd       \* the last line: "ended", cut "within" or "before" its newline

ledgerVars == <<file, lineEnd>>

Garbage == [parses |-> FALSE]
GENESIS == << >>

EntryHash(prev, payload) == Append(prev, payload)

LedgerInit == file = << >> /\ lineEnd = "ended"

\* _last_hash: of the last line that parses
LastHashOf(lines) ==
    LET entries == {i \in DOMAIN lines : lines[i].parses}
    IN  IF entries = {} THEN GENESIS ELSE lines[Max(entries)].hash

LastHash == LastHashOf(file)

Entry(prev, payload) ==
    [parses |-> TRUE, prev |-> prev, hash |-> EntryHash(prev, payload),
     payload |-> payload]

\* Text that reaches the file starts where the last text ended: after a cut
\* line both are one line, which does not parse
Lines(line) ==
    IF lineEnd = "ended" THEN Append(file, line)
                         ELSE [file EXCEPT ![Len(file)] = Garbage]

WriteEntry(e) ==
    /\ file' = Lines(e)
    /\ lineEnd' = "ended"

\* The disk fills up, or the machine stops, while the line is written
CutWithin ==
    /\ file' = Lines(Garbage)
    /\ lineEnd' = "within"

CutBeforeNewline(e) ==
    /\ file' = Lines(e)
    /\ lineEnd' = IF lineEnd = "ended" THEN "before" ELSE "within"

-----------------------------------------------------------------------------
(* verify() *)

\* (fault) the link to the line before is not looked at
GoodFault(i) ==
    /\ file[i].parses
    /\ file[i].hash = EntryHash(file[i].prev, file[i].payload)

\* (fault) corrupt lines are skipped, as the ledger's other readers do
GoodSkippingFault(i) ==
    \/ ~ file[i].parses
    \/ /\ file[i].prev = LastHashOf(SubSeq(file, 1, i - 1))
       /\ file[i].hash = EntryHash(file[i].prev, file[i].payload)

Good(i) ==
    /\ file[i].parses
    /\ file[i].prev = (IF i = 1 THEN GENESIS ELSE file[i - 1].hash)
    /\ file[i].hash = EntryHash(file[i].prev, file[i].payload)

\* "entries": the lines before the first bad one
Verified ==
    CHOOSE n \in 0..Len(file) :
        /\ \A i \in 1..n : Good(i)
        /\ n = Len(file) \/ ~Good(n + 1)

\* "valid"
Valid == \A i \in 1..Len(file) : Good(i)

\* the payloads iterating over the ledger yields
Payloads == {file[i].payload : i \in {j \in 1..Len(file) : file[j].parses}}
=============================================================================
