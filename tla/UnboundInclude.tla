---------------------------- MODULE UnboundInclude ----------------------------
(***************************************************************************)
(* Reading of the unbound configuration, src/modules/unbound/config/       *)
(* parse.go: parse reads a file line by line, keeps the options unbound    *)
(* collector uses, and for an "include:" line parses the named files      *)
(* (several for a glob, none for a glob without match) where the line      *)
(* stands.  Any error (a line without ':', a file that cannot be opened)   *)
(* ends the whole Parse.  parse marks visited[filename] but never reads    *)
(* visited.                                                                *)
(*                                                                         *)
(* The recursion of parse/handleInclude is an explicit call stack; a push  *)
(* beyond MaxDepth frames stands for the exhausted goroutine stack (a      *)
(* fatal error in Go, which no recover catches).  A file's text is a       *)
(* sequence of lines; an option is identified by the line it comes from.   *)
(***************************************************************************)
EXTENDS Naturals, Sequences, FiniteSets

CONSTANTS
    Files,      \* the configuration files that exist
    Missing,    \* a name no regular file has
    Entry,      \* the file Parse is given
    MaxLines,   \* bound on the lines of the entry file
    MaxIncLines, \* bound on the lines of every other file
    MaxDepth,   \* frames of parse the goroutine stack holds
    GlobOrder   \* the Files in lexical order, the order of filepath.Glob

ASSUME /\ Entry \in Files /\ Missing \notin Files
       /\ MaxDepth > Cardinality(Files)
       /\ GlobOrder \in [1..Cardinality(Files) -> Files]
       /\ {GlobOrder[i] : i \in DOMAIN GlobOrder} = Files

\* What an include line expands to (filenamesFromInclude): the name itself,
\* which may not exist, or, for a glob, the existing files it matches in
\* lexical order: any subsequence of GlobOrder, possibly empty.
Targets == {<<f>> : f \in Files \cup {Missing}}
             \cup {SelectSeq(GlobOrder, LAMBDA f : f \in S) : S \in SUBSET Files}

\* A line: a used option, an option the collector ignores (isOptionUsed
\* false; comments and blank lines behave the same), a line without ':'
\* (parseLine: "bad syntax"), an include, or an include whose glob is
\* malformed (filepath.Glob returns ErrBadPattern).
\* A line is its kind and, for an include, the names it expands to.
Lines == {<<k, <<>>>> : k \in {"opt", "unused", "bad", "badglob"}}
            \cup {<<"include", t>> : t \in Targets}

Texts(n) == UNION {[1..k -> Lines] : k \in 0..n}

\* The possible contents of the files.
Contents == {[f \in Files |-> IF f = Entry THEN e ELSE o[f]] :
                e \in Texts(MaxLines),
                o \in [Files \ {Entry} -> Texts(MaxIncLines)]}

Err == "error"

VARIABLES
    text,     \* \in Contents: the content of the files
    stack,    \* the parse frames: [file, pos, rest]; rest are the names of
              \* the same include still to be parsed after this one
    out,      \* the options collected so far, in order
    visited,  \* the visited map of parse
    status    \* "running", "done", "error", or "overflow"

vars == <<text, stack, out, visited, status>>

-----------------------------------------------------------------------------
\* The textual inclusion the unbound documentation describes ("as if the
\* text from the included file was copied into the config file at that
\* point"): the options of file f, or Err.  Defined for acyclic includes.
RECURSIVE Expand(_), ExpandAll(_), ExpandLines(_, _)
Expand(f) == IF f \notin Files THEN Err ELSE ExpandLines(f, 1)
ExpandLines(f, i) ==
    IF i > Len(text[f]) THEN <<>>
    ELSE LET l    == text[f][i]
             here == CASE l[1] = "opt"    -> <<<<f, i>>>>
                       [] l[1] = "unused" -> <<>>
                       [] l[1] \in {"bad", "badglob"} -> Err
                       [] OTHER        -> ExpandAll(l[2])
             rest == ExpandLines(f, i + 1)
         IN IF here = Err \/ rest = Err THEN Err ELSE here \o rest
ExpandAll(fs) ==
    IF fs = <<>> THEN <<>>
    ELSE LET h == Expand(Head(fs)) t == ExpandAll(Tail(fs))
         IN IF h = Err \/ t = Err THEN Err ELSE h \o t

-----------------------------------------------------------------------------
\* open(filename): os.Open and Stat fail for a name that does not exist,
\* and a name that is not a regular file is an error too.
OpenFails(f) == f \notin Files

\* Mutant: the error of open ignored.
OpenNoErrCheck(f, rest, stk) ==
    /\ visited' = visited \cup {f}
    /\ IF Len(stk) = MaxDepth
       THEN status' = "overflow" /\ UNCHANGED stack
       ELSE /\ stack' = Append(stk, [file |-> f, pos |-> 1, rest |-> rest])
            /\ UNCHANGED status

\* parse(filename, visited): open the file (open fails for a name that is
\* not a regular file) and start reading it, rest being the remaining
\* names of the include that led here.
\* visited[filename] is set before the open and never consulted.
Open(f, rest, stk) ==
    /\ visited' = visited \cup {f}
    /\ IF OpenFails(f)
       THEN status' = "error" /\ UNCHANGED stack
       ELSE IF Len(stk) = MaxDepth
       THEN status' = "overflow" /\ UNCHANGED stack
       ELSE /\ stack' = Append(stk, [file |-> f, pos |-> 1, rest |-> rest])
            /\ UNCHANGED status

\* Parse(entryPath): parse(entryPath, nil) makes the visited map and
\* opens the entry file.
Init ==
    /\ text \in Contents
    /\ stack = <<[file |-> Entry, pos |-> 1, rest |-> <<>>]>>
    /\ out = <<>>
    /\ visited = {Entry}
    /\ status = "running"

Top == stack[Len(stack)]
CurLine == text[Top.file][Top.pos]
Kind == CurLine[1]
\* The stack with the current file moved past its current line.
Advanced == [stack EXCEPT ![Len(stack)].pos = @ + 1]

\* The sc.Scan() loop of parse, one line per step.
Reading == status = "running" /\ Top.pos <= Len(text[Top.file])

\* A used option other than include is appended to the options.
ReadOption ==
    /\ Reading /\ Kind = "opt"
    /\ out' = Append(out, <<Top.file, Top.pos>>)
    /\ stack' = Advanced
    /\ UNCHANGED <<text, visited, status>>

\* Mutant: the isOptionUsed filter dropped; every option is kept.
SkipUnusedKept ==
    /\ Reading /\ Kind = "unused"
    /\ out' = Append(out, <<Top.file, Top.pos>>)
    /\ stack' = Advanced
    /\ UNCHANGED <<text, visited, status>>

\* An option isOptionUsed rejects is skipped ("continue").
SkipUnused ==
    /\ Reading /\ Kind = "unused"
    /\ stack' = Advanced
    /\ UNCHANGED <<text, out, visited, status>>

\* parseLine fails: the error goes up through every parse and
\* handleInclude and Parse returns it.
BadLine ==
    /\ Reading /\ Kind = "bad"
    /\ status' = "error"
    /\ UNCHANGED <<text, stack, out, visited>>

\* handleInclude: the error of filenamesFromInclude ends Parse; otherwise
\* parse each name the include expands to, in order.
Include ==
    /\ Reading
    /\ \/ Kind = "badglob" /\ status' = "error" /\ UNCHANGED <<stack, visited>>
       \/ /\ Kind = "include"
          /\ LET t == CurLine[2] IN
               IF t = <<>> THEN stack' = Advanced /\ UNCHANGED <<visited, status>>
               ELSE Open(Head(t), Tail(t), Advanced)
    /\ UNCHANGED <<text, out>>

\* The end of a file: parse returns its options to handleInclude, which
\* goes on with the next name of the include, or to the parse that read
\* the include line, or to Parse.
EndOfFile ==
    /\ status = "running" /\ Top.pos > Len(text[Top.file])
    /\ LET popped == SubSeq(stack, 1, Len(stack) - 1) IN
         IF Top.rest # <<>> THEN Open(Head(Top.rest), Tail(Top.rest), popped)
         ELSE IF popped = <<>> THEN status' = "done" /\ UNCHANGED <<stack, visited>>
         ELSE stack' = popped /\ UNCHANGED <<visited, status>>
    /\ UNCHANGED <<text, out>>

Next == ReadOption \/ SkipUnused \/ BadLine \/ Include \/ EndOfFile

Spec == Init /\ [][Next]_vars /\ WF_vars(Next)

-----------------------------------------------------------------------------
TypeOK ==
    /\ text \in Contents
    /\ stack \in Seq([file : Files, pos : Nat, rest : Seq(Files \cup {Missing})])
    /\ out \in Seq(Files \X Nat)
    /\ visited \subseteq Files \cup {Missing}
    /\ status \in {"running", "done", "error", "overflow"}

\* When Parse returns, it returns what textual inclusion gives: the used
\* options of every included file at the place of its include line, in
\* order, or an error exactly when textual inclusion meets a bad line or a
\* missing file.
ParsedAsIncluded ==
    /\ status = "done" => out = Expand(Entry)
    /\ status = "error" => Expand(Entry) = Err

\* The comment above isOptionUsed: unbound stops on a recursive include
\* with an error.  Parse should end in "done" or "error", never by
\* exhausting the stack in an include cycle.
RecursiveIncludeRejected == status # "overflow"

====
