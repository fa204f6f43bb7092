------------------------------- MODULE Shell --------------------------------
(***************************************************************************)
(* The shell from the text of a program to the arguments of its commands.  *)
(***************************************************************************)
EXTENDS Integers, Sequences, Functions, SequencesExt, FiniteSetsExt, TLC, ShellSyntax

(***************************************************************************)
(* Expansion of a command's words under the budget its pipeline shares     *)
(* (src/sandbox/expansion.rs).  An expansion x is what has been produced   *)
(* and what is left; left is -1 once a charge was refused.                 *)
(***************************************************************************)

CONSTANTS CommandSize,    \* size_of::<ExpandedCommand>
          FieldSize       \* size_of::<String>, and of a Vec of them

Spaces == {" ", "tab", "nl"}
Charge(left, n) == IF left >= n THEN left - n ELSE -1

-----------------------------------------------------------------------------
\* Budget::word
Start(left, split) == [left |-> left, fields |-> <<>>, current |-> <<>>, keep |-> ~split]
EndFieldUncharged(x) ==                                  \* mutant: a field costs its bytes only
    IF ~x.keep THEN x ELSE [x EXCEPT !.fields = Append(@, x.current), !.current = <<>>, !.keep = FALSE]
EndField(x) ==
    IF ~x.keep THEN x
    ELSE [x EXCEPT !.left = Charge(@, FieldSize), !.fields = Append(@, x.current), !.current = <<>>, !.keep = FALSE]
SplitChar(x, c) ==
    IF x.left < 0 THEN x
    ELSE IF c \in Spaces THEN EndField(x) ELSE [x EXCEPT !.current = Append(@, c), !.keep = TRUE]

ValueOf(segment, env, status) ==
    IF segment.lit THEN segment.value
    ELSE IF segment.value = <<"?">> THEN status
    ELSE IF segment.value \in DOMAIN env THEN env[segment.value] ELSE <<>>
ExpandSegment(x, value, splits) ==
    LET charged == [x EXCEPT !.left = Charge(@, Len(value))]
    IN  IF x.left < 0 \/ charged.left < 0 THEN [x EXCEPT !.left = -1]
        ELSE IF splits THEN FoldLeft(SplitChar, charged, value)
        ELSE [charged EXCEPT !.current = @ \o value, !.keep = TRUE]
ExpandWord(left, word, env, status, split) ==
    LET Step(x, segment) == ExpandSegment(x, ValueOf(segment, env, status), split /\ ~segment.lit /\ ~segment.quoted)
        x == FoldLeft(Step, Start(left, split), word)
        e == IF x.left < 0 THEN x ELSE EndField(x)
    IN  [left |-> e.left, fields |-> e.fields]

-----------------------------------------------------------------------------
\* Budget::expand: the environment is charged, then assignments see the ones
\* before them, words the session's environment, and redirections the
\* command's own only when there are no words.
ChargeEnv(left, env) == FoldSet(LAMBDA name, n : Charge(n, 2 * FieldSize + Len(name) + Len(env[name])), Charge(left, CommandSize), DOMAIN env)
ExpandAssignment(a, assignment, status) ==
    LET Assigned(w) == IF a.left < 0 \/ w.left < 0 THEN [a EXCEPT !.left = -1]
                       ELSE [left |-> w.left, env |-> assignment.name :> w.fields[1] @@ a.env]
    IN  Assigned(ExpandWord(Charge(a.left, FieldSize + Len(assignment.name)), assignment.value, a.env, status, FALSE))
ExpandAssignments(left, assignments, base, status) ==
    FoldLeft(LAMBDA x, assignment : ExpandAssignment(x, assignment, status), [left |-> ChargeEnv(left, base), env |-> base], assignments)
Add(x, w, fields) == [left |-> IF x.left < 0 THEN -1 ELSE w.left, all |-> x.all \o fields]
ExpandWords(left, words, env, status) ==
    LET AddWord(x, word) == LET Fields(w) == Add(x, w, w.fields) IN Fields(ExpandWord(x.left, word, env, status, TRUE))
    IN  FoldLeft(AddWord, [left |-> left, all |-> <<>>], words)
ExpandTargets(left, redirects, env, status) ==
    LET AddTarget(x, redirect) ==
            LET Target(w) == Add(x, w, <<w.fields>>) IN Target(ExpandWord(Charge(x.left, FieldSize), redirect.word, env, status, TRUE))
    IN  FoldLeft(AddTarget, [left |-> left, all |-> <<>>], redirects)
Expand(left, command, base, status) ==
    LET Expanded(a, words, targets) == [left |-> targets.left, env |-> a.env, words |-> words.all, targets |-> targets.all]
        WithWords(a, words) ==
            Expanded(a, words, ExpandTargets(words.left, command.redirects, IF words.all = <<>> THEN a.env ELSE base, status))
        WithEnv(a) == WithWords(a, ExpandWords(a.left, command.words, base, status))
    IN  WithEnv(ExpandAssignments(left, command.assignments, base, status))

-----------------------------------------------------------------------------
(***************************************************************************)
(* A shell program from its text to the arguments of its commands: lex,    *)
(* parse (src/shell) and the expansion of the pipelines that && and ||     *)
(* select, each under a budget of its own and with the environment and the *)
(* status the ones before it left (exec_and_or_list, exec_pipeline and     *)
(* exec_single_simple in src/sandbox/mod.rs).  What a pipeline runs is     *)
(* modelled by its status; its commands are not cd, export or unset.       *)
(***************************************************************************)

CONSTANT Programs         \* [text, env, status, budget, cut, plain, role]: the programs considered

VARIABLES program, shell

shellVars == <<program, shell>>

ShellInit ==
    /\ program \in Programs
    /\ shell = [pc |-> "lex", lex |-> Lexing, parse |-> Parsed(0, <<>>), items |-> <<>>, stages |-> <<>>, done |-> <<>>,
                left |-> program.budget, env |-> program.env, status |-> program.status]

Goes(pc, next) == shell' = [next EXCEPT !.pc = pc] /\ UNCHANGED program

LexToken ==
    /\ shell.pc = "lex" /\ shell.lex.pos < Len(program.text)
    /\ \E l \in {LexStep(program.text, shell.lex)} :
          Goes(IF l.err # Ok THEN "failed" ELSE "lex", [shell EXCEPT !.lex = l])
LexEnds ==
    /\ shell.pc = "lex" /\ shell.lex.pos >= Len(program.text)
    /\ Goes("parse", [shell EXCEPT !.parse = ParseBegins(shell.lex.tokens)])

ParseList ==
    /\ shell.pc = "parse" /\ shell.parse.cursor < Len(shell.lex.tokens)
    /\ \E p \in {ParseStep(program.text, shell.lex.tokens, shell.parse)} :
          Goes(IF p.err # Ok THEN "failed" ELSE "parse", [shell EXCEPT !.parse = p])
ParseEnds ==
    /\ shell.pc = "parse" /\ shell.parse.cursor >= Len(shell.lex.tokens)
    /\ Goes("next", [shell EXCEPT !.items = FlattenSeq(shell.parse.val)])

\* exec_and_or_list: the operator before a pipeline and the last status say whether it runs.
ShouldRun(op) == op = "first" \/ (op = "&&" /\ shell.status = <<"0">>) \/ (op = "||" /\ shell.status # <<"0">>)
NextPipeline ==
    /\ shell.pc = "next" /\ shell.items # <<>>
    /\ IF ShouldRun(shell.items[1].op)
       THEN Goes("expand", [shell EXCEPT !.stages = shell.items[1].pipeline, !.left = program.budget])
       ELSE Goes("next", [shell EXCEPT !.items = Tail(@)])

\* exec_pipeline expands its commands one after the other; a charge refused ends the script.
ExpandedAs(x) == [pipeline |-> Len(shell.items), size |-> Len(shell.items[1].pipeline), command |-> shell.stages[1],
                  status |-> shell.status, words |-> x.words, env |-> x.env, targets |-> x.targets, left |-> x.left]
ExpandCommand ==
    /\ shell.pc = "expand" /\ shell.stages # <<>>
    /\ \E x \in {Expand(shell.left, shell.stages[1], shell.env, shell.status)} :
           IF x.left < 0 THEN Goes("limit", shell)
           ELSE Goes("expand", [shell EXCEPT !.left = x.left, !.stages = Tail(@), !.done = Append(@, ExpandedAs(x))])

\* The pipeline runs.  Only a null command by itself leaves its assignments behind, even when
\* a redirect fails after them; without redirects it cannot fail.
Null(d) == d.size = 1 /\ d.words = <<>>
RunPipeline ==
    /\ shell.pc = "expand" /\ shell.stages = <<>>
    /\ \E last \in {Last(shell.done)} :
       \E status \in {<<"0">>} \cup (IF Null(last) /\ last.targets = <<>> THEN {} ELSE {<<"1">>}) :
           Goes("next", [shell EXCEPT !.items = Tail(@), !.env = IF Null(last) THEN last.env ELSE @, !.status = status])

ShellDone == shell.pc \in {"failed", "limit"} \/ (shell.pc = "next" /\ shell.items = <<>>)
ShellEnd == ShellDone /\ UNCHANGED shellVars
ShellNext == LexToken \/ LexEnds \/ ParseList \/ ParseEnds \/ NextPipeline \/ ExpandCommand \/ RunPipeline \/ ShellEnd
ShellSpec == ShellInit /\ [][ShellNext]_shellVars

-----------------------------------------------------------------------------
(* Reference definitions for the properties.                               *)

\* A word as the characters it expands to, each with whether a space there separates
\* fields; a part that is not split leaves an anchor, so that it makes a field by itself.
Anchor == [c |-> "", splits |-> FALSE]
Marked(word, env, status) ==
    LET Mark(segment) ==
            LET splits == ~segment.lit /\ ~segment.quoted
                value == ValueOf(segment, env, status)
            IN  (IF splits THEN <<>> ELSE <<Anchor>>) \o [i \in 1 .. Len(value) |-> [c |-> value[i], splits |-> splits]]
    IN  FlattenSeq([i \in 1 .. Len(word) |-> Mark(word[i])])
\* The fields are what lies between two separators next to each other.
FieldsOf(word, env, status) ==
    LET Text(part) == LET t == SelectSeq(part, LAMBDA x : x # Anchor) IN [i \in 1 .. Len(t) |-> t[i].c]
        Cut(m, cuts) ==
            LET Between(i) == SubSeq(m, i + 1, Min({j \in cuts : j > i}) - 1)
                Field(part) == IF part = <<>> THEN <<>> ELSE <<Text(part)>>
            IN  FlattenSeq([i \in 1 .. Len(m) + 1 |-> IF i - 1 \notin cuts THEN <<>> ELSE Field(Between(i - 1))])
        Split(m) == Cut(m, {0, Len(m) + 1} \cup {i \in DOMAIN m : m[i].splits /\ m[i].c \in Spaces})
    IN  Split(Marked(word, env, status))

\* The environment of the session when the i-th command is expanded: what the last null
\* command before it left.
EnvBefore(i) ==
    LET Latest(nulls) == IF nulls = {} THEN program.env ELSE shell.done[Max(nulls)].env
    IN  Latest({j \in 1 .. i - 1 : Null(shell.done[j])})
ExpandsTo(d, base) ==
    /\ d.words = FlattenSeq([j \in DOMAIN d.command.words |-> FieldsOf(d.command.words[j], base, d.status)])
    /\ d.targets = [j \in DOMAIN d.command.redirects |->
                       FieldsOf(d.command.redirects[j].word, IF d.words = <<>> THEN d.env ELSE base, d.status)]

\* The size of what a command's expansion holds: itself, two strings for each variable,
\* and a list of fields for each target, besides the fields and their bytes.
Bytes(fields) == FoldLeft(LAMBDA n, f : n + Len(f) + FieldSize, 0, fields)
Held(d) == CommandSize + Bytes(d.words) + FoldLeft(LAMBDA n, t : n + FieldSize + Bytes(t), 0, d.targets)
           + FoldSet(LAMBDA name, n : n + 2 * FieldSize + Len(name) + Len(d.env[name]), 0, DOMAIN d.env)

Shift(err, n) == Error(err[1].pos + n, err[1].kind)

-----------------------------------------------------------------------------
(* Properties.                                                             *)

\* Tokens are found in order and an error lies in the text: positions grow strictly
\* (every round of lex advances) and none is past the end of the input.
ShellTypeOK ==
    LET t == shell.lex.tokens
    IN  /\ \A i \in DOMAIN t : t[i].pos < shell.lex.pos /\ (i > 1 => t[i - 1].pos < t[i].pos)
        /\ shell.lex.pos <= Len(program.text)
        /\ \A e \in {shell.lex.err, shell.parse.err} : e # Ok => e[1].pos \in 0 .. Len(program.text)
        /\ shell.left \in 0 .. program.budget

\* A text that is quoted - in single quotes, in double quotes, by backslashes, or as the
\* value of a variable in double quotes - reaches its command, its assignment or its
\* redirection unchanged, whatever characters of the grammar it is made of.
ShellQuoting ==
    program.plain # <<>> =>
        /\ shell.pc \notin {"failed", "limit"}
        /\ ShellDone => \E d \in {shell.done[1]} : \E text \in {program.plain[1]} :
              CASE program.role = "word" -> Len(shell.done) = 1 /\ d.words = <<<<"c">>, text>>
                [] program.role = "assignment" -> d.words = <<>> /\ d.env[<<"A">>] = text
                [] program.role = "target" -> d.words = <<<<"c">>>> /\ d.targets = <<<<text>>>>

\* The lines of a program parse independently: what two lines mean together is what each
\* means by itself, and an error of the second is the same error, as far into the text as
\* the second line is.  (The lexer's state does not outlive a newline that it emits.)
ShellLines ==
    program.cut > 0 /\ shell.pc \notin {"lex", "parse"} /\ program.text[program.cut - 1] # Backslash =>
        \A a \in {Parse(SubSeq(program.text, 1, program.cut - 1))} :
            a.err = Ok =>
              \A b \in {Parse(SubSeq(program.text, program.cut + 1, Len(program.text)))} :
                 IF shell.pc = "failed"
                 THEN b.err # Ok /\ Shift(b.err, program.cut) \in {shell.lex.err, shell.parse.err}
                 ELSE b.err = Ok /\ shell.parse.val = a.val \o b.val

\* Expansion splits exactly the unquoted expansions of words and redirect targets, at every
\* space in their values, keeps a field that something quoted or literal belongs to even when
\* it is empty, and never reads a value as syntax again; the values are those the last null
\* command left, and for the targets of a null command its own; and what the expansions of a
\* pipeline hold together was charged to its budget before ("whitespace cannot amplify argv
\* freely").
ShellFields ==
    /\ \A i \in DOMAIN shell.done : ExpandsTo(shell.done[i], EnvBefore(i))
    /\ \A i \in DOMAIN shell.done : \E same \in {{j \in 1 .. i : shell.done[j].pipeline = shell.done[i].pipeline}} :
          MapThenSumSet(LAMBDA j : Held(shell.done[j]), same) <= program.budget - shell.done[i].left
=============================================================================
