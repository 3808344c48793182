------------------------------- MODULE Dotenv -------------------------------
(***************************************************************************)
(* internal/dotenv: what a .env file says (parse.go), and what Load makes  *)
(* of it in the process environment (dotenv.go).                           *)
(*                                                                         *)
(* A text is a sequence of pieces, so that the empty text is <<>>:         *)
(*   [lit |-> t]    characters that mean nothing to the parser             *)
(*   [esc |-> t]    a backslash pair: \n, \r, \t or \\                     *)
(*   [char |-> t]   the character such a pair stands for                   *)
(*   [hash |-> t]   " #" and what follows it up to the end of the line     *)
(*   [var |-> k, op |-> o, arg |-> text]   $k or ${k}, ${k:-arg}, ...      *)
(* A line is [is |-> "blank"], [is |-> "comment"], or has the fields       *)
(*   text    the line as a multi-line block takes it, up to a backtick     *)
(*   ticks   whether the line has a backtick                               *)
(* and is [is |-> "malformed"] (no "=") or [is |-> "pair"] with `key`,     *)
(* `quote`, `value` (between the quotes), `rest` (behind the closing one)  *)
(* and `closed` (the closing quote is on the same line).                   *)
(***************************************************************************)
EXTENDS Integers, SequencesExt, Maps

-----------------------------------------------------------------------------
(* Interpolation. *)

\* A variable's value is {} while unset: an empty one is {<<>>}.
Lookup(k, values) == IF k \in DOMAIN values THEN {values[k]} ELSE {}

\* lookupVar: keys parsed before in this file, then the environment.
lookupVar(k, resolved, environ) ==
    IF k \in DOMAIN resolved THEN {resolved[k]} ELSE Lookup(k, environ)

\* resolveBraceExpr, and $k, which has no operator.
resolveBraceExpr(v, resolved, environ) ==
    LET found == lookupVar(v.var, resolved, environ)
        value == IF found = {} THEN <<>> ELSE CHOOSE t \in found : TRUE
    IN  CASE v.op = ":-" -> IF value = <<>> THEN v.arg ELSE value
          [] v.op = "-"  -> IF found = {} THEN v.arg ELSE value
          [] v.op = ":+" -> IF value # <<>> THEN v.arg ELSE <<>>
          [] v.op = "+"  -> IF found # {} THEN v.arg ELSE <<>>
          [] OTHER       -> value

resolveInterpolation(text, resolved, environ) ==
    FlattenSeq([i \in DOMAIN text |-> IF "var" \in DOMAIN text[i]
                                        THEN resolveBraceExpr(text[i], resolved, environ)
                                        ELSE <<text[i]>>])

HasVars(text) == \E i \in DOMAIN text : "var" \in DOMAIN text[i]

applyEscapes(text) ==
    [i \in DOMAIN text |-> IF "esc" \in DOMAIN text[i] THEN [char |-> text[i].esc] ELSE text[i]]

\* stripBareComment: everything from the first " #" on is dropped.
stripBareComment(text) ==
    LET comments == {i \in DOMAIN text : "hash" \in DOMAIN text[i]}
    IN  IF comments = {} THEN text
        ELSE SubSeq(text, 1, (CHOOSE i \in comments : \A j \in comments : i <= j) - 1)

-----------------------------------------------------------------------------
(* Lines. *)

\* parseValue for a value that closes on its own line.
parseValue(line, resolved, environ) ==
    LET content == line.value \o stripBareComment(line.rest)
    IN  CASE line.quote = "backtick" -> line.value           \* the rest is dropped
          [] line.quote = "single"   -> content
          [] line.quote = "double"   -> resolveInterpolation(applyEscapes(content), resolved, environ)
          [] OTHER -> resolveInterpolation(stripBareComment(line.value), resolved, environ)

\* extractBacktickBlock: the lines after `start` up to the one that closes the
\* block; {} if none does.
BlockEnd(lines, start) ==
    LET ends == {i \in DOMAIN lines : i > start /\ lines[i].ticks}
    IN  {i \in ends : \A j \in ends : i <= j}

extractBacktickBlock(lines, start, end) ==
    lines[start].value
      \o FlattenSeq([i \in 1 .. (end - start) |-> <<[char |-> "n"]>> \o lines[start + i].text])

\* What a line adds to the pairs before it: `line` is the next one to read,
\* `resolved` lets a line use the keys above it, of a key defined twice the last.
Defines(state, key, value, line) ==
    [state EXCEPT !.line = line,
                  !.pairs = Append(@, [key |-> key, value |-> value]),
                  !.resolved = Put(@, key, value)]

ParseLine(lines, i, state, environ) ==
    LET line == lines[i]
        ends == BlockEnd(lines, i)
        end == CHOOSE e \in ends : TRUE
    IN  IF i < state.line THEN state ELSE                             \* inside a block
        CASE line.is \in {"blank", "comment"} -> [state EXCEPT !.line = i + 1]
          [] line.is = "pair" /\ line.closed ->
               Defines(state, line.key, parseValue(line, state.resolved, environ), i + 1)
          [] line.is = "pair" /\ ~line.closed /\ line.quote = "backtick" /\ ends # {} ->
               Defines(state, line.key, extractBacktickBlock(lines, i, end), end + 1)
          [] OTHER -> [state EXCEPT !.fails = TRUE]

\* What is known after n lines; the first error ends the walk.
ParsedLines(lines, environ) ==
    LET after[n \in 0 .. Len(lines)] ==
          IF n = 0 THEN [line |-> 1, pairs |-> <<>>, resolved |-> <<>>, fails |-> FALSE]
          ELSE IF after[n - 1].fails THEN after[n - 1]
          ELSE ParseLine(lines, n, after[n - 1], environ)
    IN  after

\* parseFile: {} for an error, else {the pairs, in order}.
parseFile(lines, environ) ==
    LET parsed == ParsedLines(lines, environ)[Len(lines)]
    IN  IF parsed.fails THEN {} ELSE {parsed.pairs}

\* The value the first pair of a key gives it.
Given(pairs, k) == pairs[CHOOSE n \in DOMAIN pairs : pairs[n].key = k /\ \A m \in 1 .. (n - 1) : pairs[m].key # k].value

\* Mutant: what a file says replaces what is set.
SetenvAlways(pairs, environ) ==
    [k \in DOMAIN environ \cup {pairs[n].key : n \in DOMAIN pairs} |->
       IF \E n \in DOMAIN pairs : pairs[n].key = k THEN Given(pairs, k) ELSE environ[k]]

\* SafeLoad's inner loop: a key the environment has is never overwritten, so of
\* several pairs of a key only the first counts.
Setenv(pairs, environ) ==
    [k \in DOMAIN environ \cup {pairs[n].key : n \in DOMAIN pairs} |->
       IF k \in DOMAIN environ THEN environ[k] ELSE Given(pairs, k)]
=============================================================================
