------------------------------ MODULE UnboundLine ------------------------------
(***************************************************************************)
(* One line of the unbound configuration as parse reads it                 *)
(* (src/modules/unbound/config/parse.go): the line is trimmed, empty lines *)
(* and lines starting with '#' are skipped, and parseLine splits it at     *)
(* every ':' and passes the first two parts to cleanKeyValue, which cuts   *)
(* the value before an inline '#' and trims spaces and quotes.             *)
(*                                                                         *)
(* A line is a sequence over a small alphabet: a letter K, the colon, the  *)
(* comment mark, a space, and a quote Q.                                   *)
(***************************************************************************)
EXTENDS Naturals, Sequences, SequencesExt

CONSTANTS
    K, Q,       \* a letter and a quote character (model values)
    MaxLen      \* bound on the length of a line

Colon == ":"
Hash  == "#"
Space == " "
Chars == {K, Q, Colon, Hash, Space}

\* strings.TrimSpace, and strings.Trim(s, cutset) for a set of characters.
TrimSet(s, cut) ==
    LET first == SelectInSeq(s, LAMBDA c : c \notin cut)
        lst   == SelectLastInSeq(s, LAMBDA c : c \notin cut)
    IN IF first = 0 THEN <<>> ELSE SubSeq(s, first, lst)
TrimSpace(s) == TrimSet(s, {Space})

\* The lines parse hands to parseLine: trimmed, not empty, not a comment.
Lines == {l \in BoundedSeq(Chars, MaxLen) :
            l # <<>> /\ TrimSpace(l) = l /\ l[1] # Hash}

\* strings.Split(s, sep) for a one-character separator.
RECURSIVE Split(_, _)
Split(s, sep) ==
    LET i == SelectInSeq(s, LAMBDA c : c = sep)
    IN IF i = 0 THEN <<s>>
       ELSE <<SubSeq(s, 1, i - 1)>> \o Split(SubSeq(s, i + 1, Len(s)), sep)

VARIABLES
    line,    \* the line read
    status,  \* "read", "ok", "err" (parseLine returned "bad syntax")
    key,     \* option.name
    value    \* option.value

vars == <<line, status, key, value>>

-----------------------------------------------------------------------------
\* cleanKeyValue's value: when strings.IndexByte(value, '#') = i > 0 the
\* value becomes value[:i-1]; then it is space-trimmed and quote-trimmed.
\* (i is 0-based in Go; index is 1-based here.)
CleanValue(v) ==
    LET i == SelectInSeq(v, LAMBDA c : c = Hash) - 1
        w == IF i > 0 THEN SubSeq(v, 1, i - 1) ELSE v
    IN TrimSet(TrimSpace(w), {Q})

\* parseLine: "bad syntax" with fewer than two parts, else key and value
\* from parts[0] and parts[1].
ParseLine(l) ==
    LET parts == Split(l, Colon)
    IN IF Len(parts) < 2 THEN [err |-> TRUE, key |-> <<>>, value |-> <<>>]
       ELSE [err |-> FALSE, key |-> TrimSpace(parts[1]),
             value |-> CleanValue(parts[2])]

-----------------------------------------------------------------------------
Init ==
    /\ line \in Lines
    /\ status = "read"
    /\ key = <<>>
    /\ value = <<>>

\* The call parseLine(line) in parse's scan loop.
Parse ==
    /\ status = "read"
    /\ LET r == ParseLine(line)
       IN /\ status' = IF r.err THEN "err" ELSE "ok"
          /\ key' = r.key
          /\ value' = r.value
    /\ UNCHANGED line

Spec == Init /\ [][Parse]_vars

-----------------------------------------------------------------------------
\* Reference, after unbound.conf(5) as quoted above isOptionUsed: an option
\* is "name: value"; the name is the text before the first ':', the value
\* everything after it up to a '#' that starts a comment, without the
\* surrounding spaces and quotes.
FirstColon(l) == SelectInSeq(l, LAMBDA c : c = Colon)
RefKey(l)     == TrimSpace(SubSeq(l, 1, FirstColon(l) - 1))
RefValue(l)   ==
    LET rest == SubSeq(l, FirstColon(l) + 1, Len(l))
        h    == SelectInSeq(rest, LAMBDA c : c = Hash)
        body == IF h = 0 THEN rest ELSE SubSeq(rest, 1, h - 1)
    IN TrimSet(TrimSpace(body), {Q})

\* The option parse returns for a line has the value unbound.conf(5) gives
\* it: everything after the first ':' (a control-interface such as "::1"
\* included), with an inline comment removed and nothing before it.
ValueAsConfigured ==
    status = "ok" => value = RefValue(line)
====
