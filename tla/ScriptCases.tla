---------------------------- MODULE ScriptCases ----------------------------
(***************************************************************************)
(* Programs for Shell: quoted texts in every role, pairs of lines, and     *)
(* words to expand under several budgets; and pipelines of three stages    *)
(* for Stages.                                                             *)
(***************************************************************************)
EXTENDS ShellSyntax

UpTo(S, n) == UNION {[1 .. k -> S] : k \in 0 .. n}
Join(seqs) == FlattenSeq(seqs)

New(text) == [text |-> text, env |-> <<>> , status |-> <<"0">>, budget |-> 60, cut |-> 0, plain |-> <<>>, role |-> "none"]

\* Quotation
SingleQuoted(t) ==
    <<SingleQuote>> \o Join([i \in 1 .. Len(t) |-> IF t[i] = SingleQuote THEN <<SingleQuote, Backslash, SingleQuote, SingleQuote>> ELSE <<t[i]>>]) \o <<SingleQuote>>
DoubleQuoted(t) ==
    <<DoubleQuote>> \o Join([i \in 1 .. Len(t) |-> IF t[i] \in {DoubleQuote, Backslash, Backtick, "$"} THEN <<Backslash, t[i]>> ELSE <<t[i]>>]) \o <<DoubleQuote>>
Escaped(t) == Join([i \in 1 .. Len(t) |-> <<Backslash, t[i]>>])
Texts == UpTo({"a", " ", "$", SingleQuote, DoubleQuote, Backslash, Newline, ">", "#", "~", "=", "*"}, 2)
Forms(t) == {SingleQuoted(t), DoubleQuoted(t)} \cup (IF t = <<>> \/ Contains(t, Newline) THEN {} ELSE {Escaped(t)})
InRole(role, form) == CASE role = "word" -> <<"c", " ">> \o form [] role = "assignment" -> <<"A", "=">> \o form [] role = "target" -> <<"c", ">">> \o form
Quotations ==
    {[New(InRole(q[2], q[3])) EXCEPT !.plain = <<q[1]>>, !.role = q[2]] :
        q \in UNION {{<<t, role, form>> : role \in {"word", "assignment", "target"}, form \in Forms(t)} : t \in Texts}}
    \cup {[New(InRole(role, <<DoubleQuote, "$", "B", DoubleQuote>>)) EXCEPT !.plain = <<t>>, !.role = role, !.env = [n \in {<<"B">>} |-> t]] :
             t \in Texts, role \in {"word", "assignment", "target"}}

\* Lines
Atoms == {<<"a">>, <<" ">>, <<"|">>, <<"&", "&">>, <<";">>, <<"#">>, <<SingleQuote>>, <<"2">>, <<">">>, <<"&", "1">>, <<"A", "=">>, <<"+", "=">>,
          <<Backslash, Newline>>, <<Backslash>>, <<"!">>, <<"$", "a">>}
Line(n) == {Join(s) : s \in UpTo(Atoms, n)}
Pairs == {[New(x \o <<Newline>> \o y) EXCEPT !.cut = Len(x) + 1] : x \in {<<"a">> \o l : l \in Line(2)}, y \in Line(1)}
Odd == {New(Join(s)) : s \in [1 .. 2 -> Atoms \cup {<<"$", "{", "A", "}">>, <<"{">>, <<"?">>, <<"<">>, <<"9">>, <<DoubleQuote>>, <<"&">>, <<"[">>, <<"]">>, <<"~">>, <<"(">>, <<Backtick>>}]}

\* Words and budgets
Pieces == {<<"$", "A">>, <<DoubleQuote, "$", "A", DoubleQuote>>, <<"a">>, <<DoubleQuote, DoubleQuote>>, <<"$", "?">>, <<"|">>, <<">">>, <<" ">>}
Values == UpTo({"a", " "}, 3)
Expansions == {[New(<<"c", " ">> \o Join(s)) EXCEPT !.env = [n \in {<<"A">>} |-> v], !.budget = b] :
                  s \in UpTo(Pieces, 2), v \in Values, b \in {8, 14, 18, 22, 60}}

\* What a pipeline leaves to the next, and targets
Steps == {<<"A", "=", "b">>, <<"A", "=", "$", "A", "$", "A">>, <<"c", " ", "$", "A", "$", "?">>, <<"c", ">", "$", "A">>,
          <<"A", "=", "b", " ", ">", "$", "A">>, <<"A", "=", "b", "|", "c">>}
Sessions == {[New(Join(<<x, op, y>>)) EXCEPT !.env = [n \in {<<"A">>} |-> v]] :
                x \in Steps, y \in Steps, op \in {<<";">>, <<"&", "&">>, <<"|", "|">>}, v \in {<<>>, <<"a", " ", "a">>}}

MCPrograms == Quotations \cup Pairs \cup Odd \cup Expansions \cup Sessions

-----------------------------------------------------------------------------
Cmd(fromFile, toPipe, sink) ==
  [kind |-> "command", fromFile |-> fromFile, toPipe |-> toPipe, sink |-> sink, counts |-> TRUE]

Plain == Cmd(FALSE, TRUE, FALSE)
Null == [Cmd(FALSE, TRUE, FALSE) EXCEPT !.kind = "assign", !.counts = FALSE]
Failed == [Cmd(FALSE, TRUE, FALSE) EXCEPT !.kind = "failed"]

\* a | b | c, and pipelines in which a stage is a null command, failed to open
\* a redirect, reads a file, or writes one, also together with its pipe
\* (2>&1 >file), between, before and after plain ones.
MCPlans ==
  LET FromFile == Cmd(TRUE, TRUE, FALSE)
      ToFile == Cmd(FALSE, FALSE, TRUE)
      ToBoth == Cmd(FALSE, TRUE, TRUE)
  IN  {<<Plain, Plain, Plain>>, <<Plain, Null, Plain>>, <<Plain, Failed, FromFile>>,
       <<Plain, FromFile, Plain>>, <<Plain, ToFile, ToBoth>>, <<Null, ToBoth, Plain>>,
       <<ToFile, Plain, Failed>>}
=============================================================================
