------------------------------ MODULE CSVFormat ------------------------------
(***************************************************************************)
(* The CSV log-line parser of src/pkg/logs/csv.go.  NewCSVParser reads the *)
(* format line with encoding/csv and turns it into fields (name, column    *)
(* index) with createCSVFields; maxIndex is the index of the last field.  *)
(* ReadLine reads one record and csvFormat.parse rejects it when it has    *)
(* no more than maxIndex columns, else assigns record[idx] to every field. *)
(*                                                                         *)
(* A format entry is a name of Names; the CheckField hook maps each name   *)
(* to (name, offset, valid): an entry spans 1 + offset columns of the log  *)
(* line (a "$time_local" style entry whose value holds the delimiter), and *)
(* only valid entries become fields.  A record is abstracted to its number *)
(* of columns; a read error of encoding/csv is one more outcome.           *)
(***************************************************************************)
EXTENDS Integers, Sequences, SequencesExt

CONSTANTS
    Names,        \* the names a format entry may have
    Dollar,       \* the names checkCSVFormatField accepts ("$" and 2+ chars)
    Offsets,      \* the offsets a CheckField hook may return
    MaxFormat,    \* bound on the entries of a format line
    MaxRecord     \* bound on the columns of a log record

ASSUME Dollar \subseteq Names /\ Offsets \subseteq Nat /\ 0 \in Offsets

\* checkCSVFormatField, the default check: the name, offset 0, and valid
\* for "$"-prefixed names of length 2 or more.
DefaultCheck == [n \in Names |-> [name |-> n, off |-> 0, valid |-> n \in Dollar]]

\* The CheckField hooks a caller may set: any function of the name.
Checks == {[n \in Names |-> [name |-> n, off |-> o[n], valid |-> v[n]]] :
             o \in [Names -> Offsets], v \in [Names -> BOOLEAN]}

NoFields == <<>>

VARIABLES
    format,    \* the config: [raw : Seq(Names), check, readErr]
    phase,     \* "new", "ready" (NewCSVParser returned a parser), "failed"
    fields,    \* csvFormat.fields: a sequence of [name, idx]
    maxIndex,  \* csvFormat.maxIndex
    result     \* what the last ReadLine returned

vars == <<format, phase, fields, maxIndex, result>>

-----------------------------------------------------------------------------
\* Mutant: the offset added after the validity check, so the extra
\* columns of entries that are not fields are lost.
RECURSIVE CreateFieldsValidOffset(_, _, _, _, _, _)
CreateFieldsValidOffset(raw, check, i, offset, seen, acc) ==
    IF i > Len(raw) THEN [dup |-> FALSE, fs |-> acc]
    ELSE LET c == check[raw[i]]
         IN IF ~c.valid THEN CreateFieldsValidOffset(raw, check, i + 1, offset, seen, acc)
            ELSE IF c.name \in seen THEN [dup |-> TRUE, fs |-> <<>>]
            ELSE CreateFieldsValidOffset(raw, check, i + 1, offset + c.off,
                     seen \cup {c.name},
                     Append(acc, [name |-> c.name, idx |-> (i - 1) + offset + c.off]))

\* createCSVFields over the entries i.. of raw, offset accumulated so far,
\* names seen so far, fields built so far; dup on a repeated name.
RECURSIVE CreateFields(_, _, _, _, _, _)
CreateFields(raw, check, i, offset, seen, acc) ==
    IF i > Len(raw) THEN [dup |-> FALSE, fs |-> acc]
    ELSE LET c   == check[raw[i]]
             off == offset + c.off
         IN IF ~c.valid THEN CreateFields(raw, check, i + 1, off, seen, acc)
            ELSE IF c.name \in seen THEN [dup |-> TRUE, fs |-> <<>>]
            ELSE CreateFields(raw, check, i + 1, off, seen \cup {c.name},
                              Append(acc, [name |-> c.name, idx |-> (i - 1) + off]))

\* Mutant: maxIndex taken from the first field.
MaxIndexOfFirst(fs) == fs[1].idx

\* Mutant: maxIndex one less than the last field's index.
MaxIndexOfMinusOne(fs) == fs[Len(fs)].idx - 1

\* newCSVFormat: maxIndex is the index of the last field.
MaxIndexOf(fs) == fs[Len(fs)].idx

\* Reference: the column (0-based) at which the value of entry k ends,
\* when every entry spans 1 + offset columns.
Column(raw, check, k) ==
    FoldLeft(LAMBDA p, q : p + q, 0,
             [m \in 1..k |-> 1 + check[raw[m]].off]) - 1

-----------------------------------------------------------------------------
Init ==
    /\ format \in [raw : BoundedSeq(Names, MaxFormat),
                   check : Checks \cup {DefaultCheck}, readErr : BOOLEAN]
    /\ phase = "new"
    /\ fields = NoFields
    /\ maxIndex = 0
    /\ result = "none"

\* NewCSVParser(config, in): empty format, unreadable format line,
\* duplicate field and zero fields are errors; else the parser, with
\* maxIndex the index of the last field (newCSVFormat).
NewCSVParser ==
    /\ phase = "new"
    /\ LET r  == CreateFields(format.raw, format.check, 1, 0, {}, <<>>)
           fs == r.fs
       IN IF format.raw = <<>> \/ format.readErr \/ r.dup \/ fs = <<>>
          THEN phase' = "failed" /\ UNCHANGED <<fields, maxIndex>>
          ELSE /\ phase' = "ready"
               /\ fields' = fs
               /\ maxIndex' = MaxIndexOf(fs)
    /\ UNCHANGED <<format, result>>

\* ReadLine: reader.Read fails, or returns a record of n columns for
\* csvFormat.parse: "unmatched" when len(record) <= maxIndex; else each
\* field in order is assigned record[v.idx] (a Go index-out-of-range panic
\* when idx >= n), and line.Assign may reject a value.
ReadLine ==
    /\ phase = "ready"
    /\ \/ result' = "readErr"
       \/ \E n \in 0..MaxRecord :
            IF n <= maxIndex THEN result' = "unmatched"
            ELSE \E bad \in 0..Len(fields) :
                   LET upto == IF bad = 0 THEN Len(fields) ELSE bad
                       oob  == {k \in 1..upto : fields[k].idx >= n}
                   IN result' = IF oob # {} THEN "panic"
                                ELSE IF bad = 0 THEN "ok" ELSE "assignErr"
    /\ UNCHANGED <<format, phase, fields, maxIndex>>

Next == NewCSVParser \/ ReadLine

Spec == Init /\ [][Next]_vars

-----------------------------------------------------------------------------
TypeOK ==
    /\ phase \in {"new", "ready", "failed"}
    /\ fields \in Seq([name : Names, idx : Nat])
    /\ maxIndex \in Nat
    /\ result \in {"none", "readErr", "unmatched", "ok", "assignErr", "panic"}

\* A record that passes the maxIndex check of csvFormat.parse has a column
\* for every field: reading a log line never indexes past the record.
MatchedLinesInRange == result # "panic"

\* Reference: the valid entries of the format, in order, each at its column.
ExpectedFields(raw, check) ==
    LET vs == SelectSeq([m \in 1..Len(raw) |-> m], LAMBDA m : check[raw[m]].valid)
    IN [k \in 1..Len(vs) |-> [name |-> check[raw[vs[k]]].name,
                              idx |-> Column(raw, check, vs[k])]]

\* createCSVFields turns the valid entries of the format, in order, into
\* fields, each at the column where its value ends in the log line,
\* counting the extra columns of every entry before it, valid or not.
FieldsAtTheirColumns ==
    phase = "ready" => fields = ExpectedFields(format.raw, format.check)
====
