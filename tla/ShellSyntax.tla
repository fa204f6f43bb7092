---------------------------- MODULE ShellSyntax -----------------------------
(***************************************************************************)
(* The lexer and the parser of the shell (src/shell).                      *)
(***************************************************************************)
EXTENDS Naturals, Sequences, SequencesExt, FiniteSetsExt, FiniteSets

(***************************************************************************)
(* The lexer of the shell (src/shell/lex.rs).  A text is a sequence of     *)
(* one-character strings and a position counts the characters before it,   *)
(* as the code's byte positions do for ASCII.  LexStep is one round of     *)
(* the loop in lex.                                                        *)
(***************************************************************************)

CONSTANT MaxFd            \* u32::MAX

Eof == "end of input"
SingleQuote == "sq"
DoubleQuote == "dq"
Backslash == "bs"
Newline == "nl"
Tab == "tab"
Backtick == "bt"
Digits == {"0", "1", "2", "9"}
Letters == {"a", "b", "c", "A", "B", "_"}
NameChars == Letters \cup Digits
Blanks == {" ", Tab}
WordBreaks == Blanks \cup {Newline, "|", "&", ";", "<", ">"}
RejectedParameters == {"$", "!", "#", "*", "@", "-"}

PeekChar(s, p) == IF p < Len(s) THEN s[p + 1] ELSE Eof
StartsWith(s, p, text) == p + Len(text) <= Len(s) /\ SubSeq(s, p + 1, p + Len(text)) = text
\* The first position from p on whose character is not, or is, in the set.
Span(s, p, chars) == Min({q \in p .. Len(s) : PeekChar(s, q) \notin chars})
Until(s, p, chars) == Min({q \in p .. Len(s) : PeekChar(s, q) \in chars \cup {Eof}})
Slice(s, from, to) == SubSeq(s, from + 1, to)

DigitValue(c) == CASE c = "0" -> 0 [] c = "1" -> 1 [] c = "2" -> 2 [] c = "9" -> 9
ParseFd(s, from, to) == FoldLeft(LAMBDA n, c : 10 * n + DigitValue(c), 0, Slice(s, from, to))

Error(pos, kind) == <<[pos |-> pos, kind |-> kind]>>
Ok == <<>>

-----------------------------------------------------------------------------
\* scan_redirect: no token when the text at p is no redirection.
ScanRedirect(s, p) ==
    LET digits == Span(s, p, Digits)
        op == IF PeekChar(s, digits) \in {"<", ">"} THEN digits ELSE p
        kind == IF PeekChar(s, op) = "<" THEN "Read" ELSE IF StartsWith(s, op, <<">", ">">>) THEN "Append" ELSE "Write"
        after == IF kind = "Append" THEN op + 2 ELSE op + 1
        dup == PeekChar(s, after) = "&"
        end == Span(s, after + 1, Digits)
        fd == IF op > p THEN <<ParseFd(s, p, op)>> ELSE <<>>
        to == IF dup THEN <<ParseFd(s, after + 1, end)>> ELSE <<>>
        err == IF fd # <<>> /\ fd[1] > MaxFd THEN Error(p, "InvalidFileDescriptor")
               ELSE IF StartsWith(s, op, <<"<", "<">>) THEN Error(op, "Heredoc")
               ELSE IF dup /\ (kind # "Write" \/ end = after + 1) THEN Error(op, "RedirectFdDup")
               ELSE IF dup /\ PeekChar(s, end) \notin WordBreaks \cup {Eof} THEN Error(op, "AmbiguousRedirect")
               ELSE IF dup /\ to[1] > MaxFd THEN Error(after + 1, "InvalidFileDescriptor") ELSE Ok
    IN  IF PeekChar(s, op) \notin {"<", ">"} THEN [token |-> <<>>, next |-> p, err |-> Ok]
        ELSE [token |-> IF err = Ok THEN <<[k |-> "redirect", pos |-> p, fd |-> fd, op |-> kind, to |-> to]>> ELSE <<>>,
              next |-> IF dup THEN end ELSE after, err |-> err]

-----------------------------------------------------------------------------
(* Words.  w holds what scan_word has gathered: the segments, the literal  *)
(* that is not a segment yet, and what the tilde rule looks back at.       *)
Literal(text, quoted) == [lit |-> TRUE, value |-> text, quoted |-> quoted]
Expansion(name, quoted) == [lit |-> FALSE, value |-> name, quoted |-> quoted]

PushLiteral(segs, text, quoted) ==
    IF text = <<>> /\ ~quoted THEN segs
    ELSE IF text # <<>> /\ segs # <<>> /\ Last(segs).lit /\ Last(segs).quoted = quoted
    THEN Append(Front(segs), Literal(Last(segs).value \o text, quoted))
    ELSE Append(segs, Literal(text, quoted))

NewWord(p) == [pos |-> p, segs |-> <<>>, lit |-> <<>>, had |-> FALSE, last |-> Eof, equals |-> FALSE, err |-> Ok]
Bad(w, pos, kind) == [w EXCEPT !.err = Error(pos, kind)]
Flush(w, quoted) == [w EXCEPT !.segs = PushLiteral(@, w.lit, quoted), !.lit = <<>>]
Take(w, text, n) == [w EXCEPT !.lit = @ \o text, !.pos = @ + n]

ScanSingleQuoted(s, w) ==
    LET end == Until(s, w.pos + 1, {SingleQuote})
    IN  IF end = Len(s) THEN Bad(w, w.pos, "UnterminatedQuote")
        ELSE [w EXCEPT !.segs = PushLiteral(@, Slice(s, w.pos + 1, end), TRUE), !.pos = end + 1]

ScanUnquotedEscape(s, w) ==
    LET next == PeekChar(s, w.pos + 1)
    IN  CASE next = Eof -> [w EXCEPT !.pos = @ + 1]
          [] next = Newline -> [w EXCEPT !.pos = @ + 2]
          [] OTHER -> [Flush(w, FALSE) EXCEPT !.segs = PushLiteral(@, <<next>>, TRUE), !.pos = w.pos + 2, !.had = TRUE, !.last = Eof]

ScanDoubleQuotedEscapeKept(s, w) ==                      \* mutant: an escaped backslash stays two characters
    LET next == PeekChar(s, w.pos + 1)
    IN  CASE next = Eof -> Bad(w, w.pos, "UnterminatedEscape")
          [] next = Newline -> [w EXCEPT !.pos = @ + 2]
          [] next \in {"$", Backtick, DoubleQuote} -> Take(w, <<next>>, 2)
          [] OTHER -> Take(w, <<Backslash, next>>, 2)
ScanDoubleQuotedEscape(s, w) ==
    LET next == PeekChar(s, w.pos + 1)
    IN  CASE next = Eof -> Bad(w, w.pos, "UnterminatedEscape")
          [] next = Newline -> [w EXCEPT !.pos = @ + 2]
          [] next \in {"$", Backtick, DoubleQuote, Backslash} -> Take(w, <<next>>, 2)
          [] OTHER -> Take(w, <<Backslash, next>>, 2)

\* A named expansion ends the literal before it.
Named(w, name, next, quoted) ==
    IF name = <<"_">> THEN Bad(w, w.pos, "ParameterExpansion")
    ELSE [(IF w.lit # <<>> THEN Flush(w, quoted) ELSE w) EXCEPT !.segs = Append(@, Expansion(name, quoted)), !.pos = next]

ScanBracedExpansion(s, w, quoted) ==
    LET first == PeekChar(s, w.pos + 2)
        end == Span(s, w.pos + 2, IF first = "?" THEN {"?"} ELSE NameChars)
        stop == IF first = "?" THEN w.pos + 3 ELSE end
        close == PeekChar(s, stop)
    IN  CASE first = Eof -> Bad(w, w.pos, "UnterminatedBracedExpansion")
          [] first \in Digits \cup RejectedParameters -> Bad(w, w.pos, "ParameterExpansion")
          [] first \notin {Eof} \cup Digits \cup RejectedParameters ->
                IF first \notin Letters \cup {"?"} THEN Bad(w, w.pos, "InvalidParameterExpansion")
                ELSE IF close = "}" THEN Named(w, Slice(s, w.pos + 2, stop), stop + 1, quoted)
                ELSE IF close = Eof /\ first # "?" THEN Bad(w, w.pos, "UnterminatedBracedExpansion")
                ELSE Bad(w, w.pos, "InvalidParameterExpansion")

ScanExpansion(s, w, quoted) ==
    LET next == PeekChar(s, w.pos + 1)
    IN  CASE next = "(" -> Bad(w, w.pos, "CommandSubstitution")
          [] next = SingleQuote /\ ~quoted -> Bad(w, w.pos, "AnsiCString")
          [] next = DoubleQuote /\ ~quoted -> Bad(w, w.pos, "LocaleTranslation")
          [] next = "{" -> ScanBracedExpansion(s, w, quoted)
          [] next = "?" -> Named(w, <<"?">>, w.pos + 2, quoted)
          [] next \in Letters -> LET end == Span(s, w.pos + 1, NameChars) IN Named(w, Slice(s, w.pos + 1, end), end, quoted)
          [] next \in Digits \cup RejectedParameters -> Bad(w, w.pos, "ParameterExpansion")
          [] OTHER -> Take(w, <<"$">>, 1)

\* The characters up to the closing quote; had says whether the quotes held anything.
RECURSIVE ScanDoubleQuoted(_, _, _, _)
ScanDoubleQuoted(s, w, start, had) ==
    LET ch == PeekChar(s, w.pos)
        After(inner) == IF inner.err # Ok THEN inner
                        ELSE ScanDoubleQuoted(s, inner, start, had \/ ch # Backslash \/ inner.lit # w.lit)
    IN  IF ch = DoubleQuote THEN [(IF w.lit # <<>> \/ ~had THEN Flush(w, TRUE) ELSE w) EXCEPT !.pos = w.pos + 1]
        ELSE After(CASE ch = Backslash -> ScanDoubleQuotedEscape(s, w)
                     [] ch = "$" -> ScanExpansion(s, w, TRUE)
                     [] ch = Backtick -> Bad(w, w.pos, "Backticks")
                     [] ch = Eof -> Bad(w, start, "UnterminatedQuote")
                     [] OTHER -> Take(w, <<ch>>, 1))

HasClosingBracketBeforeWordEnd(s, p) == PeekChar(s, Until(s, p + 1, WordBreaks \cup {"]"})) = "]"
TildeExpands(w) == (~w.had /\ w.segs = <<>> /\ w.lit = <<>>) \/ w.last = "=" \/ (w.last = ":" /\ w.equals)

\* One character, quotation, escape or expansion of a word.
WordStep(s, w) ==
    LET ch == PeekChar(s, w.pos)
        Content(v) == [v EXCEPT !.had = TRUE, !.last = Eof]
        plain == [Take(w, <<ch>>, 1) EXCEPT !.had = TRUE, !.equals = @ \/ ch = "=", !.last = ch]
    IN  CASE ch = SingleQuote -> Content(ScanSingleQuoted(s, Flush(w, FALSE)))
          [] ch = DoubleQuote -> Content(ScanDoubleQuoted(s, [Flush(w, FALSE) EXCEPT !.pos = @ + 1], w.pos, FALSE))
          [] ch = Backslash -> ScanUnquotedEscape(s, w)
          [] ch = "$" -> Content(ScanExpansion(s, w, FALSE))
          [] ch \in {"*", "?"} -> Bad(w, w.pos, "Glob")
          [] ch = "[" -> IF HasClosingBracketBeforeWordEnd(s, w.pos) THEN Bad(w, w.pos, "Glob") ELSE plain
          [] ch = Backtick -> Bad(w, w.pos, "Backticks")
          [] ch \in {"(", ")"} -> Bad(w, w.pos, "Subshell")
          [] ch \in {"{", "}"} -> Bad(w, w.pos, "BraceExpansion")
          [] ch = "~" -> IF TildeExpands(w) THEN Bad(w, w.pos, "TildeExpansion") ELSE plain
          [] OTHER -> plain
RECURSIVE ScanWord(_, _)
ScanWord(s, w) ==
    IF w.err # Ok THEN w ELSE IF PeekChar(s, w.pos) \in WordBreaks \cup {Eof} THEN Flush(w, FALSE) ELSE ScanWord(s, WordStep(s, w))

-----------------------------------------------------------------------------
Lexing == [tokens |-> <<>>, pos |-> 0, err |-> Ok]
LexStep(s, l) ==
    LET p == Span(s, l.pos, Blanks)
        ch == PeekChar(s, p)
        Push(token, next) == [l EXCEPT !.tokens = Append(@, token), !.pos = next]
        Operator(k, n) == Push([k |-> k, pos |-> p], p + n)
        Word(word) == IF word.err # Ok THEN [l EXCEPT !.err = word.err]
                      ELSE IF word.had THEN Push([k |-> "word", pos |-> p, segs |-> word.segs], word.pos)
                      ELSE [l EXCEPT !.pos = word.pos]
        Other(redirect) == IF redirect.err # Ok THEN [l EXCEPT !.err = redirect.err]
                           ELSE IF redirect.token # <<>> THEN Push(redirect.token[1], redirect.next)
                           ELSE Word(ScanWord(s, NewWord(p)))
    IN  CASE ch = Eof -> [l EXCEPT !.pos = p]
          [] ch = "#" -> [l EXCEPT !.pos = Until(s, p, {Newline})]
          [] ch \in {Newline, ";"} -> Operator(ch, 1)
          [] ch = "|" -> IF StartsWith(s, p, <<"|", "|">>) THEN Operator("||", 2) ELSE Operator("|", 1)
          [] ch = "&" -> IF StartsWith(s, p, <<"&", "&">>) THEN Operator("&&", 2) ELSE [l EXCEPT !.err = Error(p, "Background")]
          [] OTHER -> Other(ScanRedirect(s, p))
RECURSIVE LexFrom(_, _)
LexFrom(s, l) == IF l.err # Ok \/ l.pos >= Len(s) THEN l ELSE LexFrom(s, LexStep(s, l))
Lex(s) == LexFrom(s, Lexing)

-----------------------------------------------------------------------------
(***************************************************************************)
(* The parser of the shell (src/shell/parse.rs): a program is a list of    *)
(* and-or lists of pipelines of simple commands.  A parse p has a cursor   *)
(* into the tokens t of the text s, the error if there is one, and what    *)
(* has been parsed.                                                        *)
(***************************************************************************)

Peek(t, c) == IF c < Len(t) THEN t[c + 1].k ELSE Eof
ConsumeNewlines(t, c) == Min({d \in c .. Len(t) : Peek(t, d) # Newline})

Unexpected(s, t, c) ==
    IF c < Len(t) THEN Error(t[c + 1].pos, "UnexpectedToken") ELSE Error(Len(s), "UnexpectedEof")
Parsed(c, v) == [cursor |-> c, val |-> v, err |-> Ok]
Fail(err) == [cursor |-> 0, val |-> <<>>, err |-> err]

-----------------------------------------------------------------------------
\* assignment_from_word: the place of the first "=", and of the first "+=".
Places(text, pattern) == {i \in 0 .. Len(text) : StartsWith(text, i, pattern)}
IsAssignmentName(name) == name # <<>> /\ name[1] \in Letters /\ \A i \in DOMAIN name : name[i] \in NameChars
\* The first n characters of the word's literal, with the continuations between them.
SourcePosition(s, p, n) ==
    LET Joined(q) == q > 0 /\ StartsWith(s, q - 1, <<Backslash, Newline>>)
        Shown(q) == ~Joined(q) /\ ~StartsWith(s, q, <<Backslash, Newline>>)
    IN  Min({q \in p .. Len(s) : Cardinality({r \in p .. q - 1 : Shown(r)}) = n})
AssignmentFromWord(s, word) ==
    LET text == word.segs[1].value
        name == SubSeq(text, 1, Min(Places(text, <<"=">>)))
        rest == SubSeq(text, Len(name) + 2, Len(text))
        appends == Places(text, <<"+", "=">>)
    IN  IF word.segs = <<>> \/ (word.segs # <<>> /\ (~word.segs[1].lit \/ word.segs[1].quoted)) THEN Parsed(0, <<>>)
        ELSE IF appends # {} /\ IsAssignmentName(SubSeq(text, 1, Min(appends)))
        THEN Fail(Error(SourcePosition(s, word.pos, Min(appends)), "AppendAssignment"))
        ELSE IF Places(text, <<"=">>) = {} \/ (Places(text, <<"=">>) # {} /\ ~IsAssignmentName(name)) THEN Parsed(0, <<>>)
        ELSE Parsed(0, <<[name |-> name, value |-> (IF rest = <<>> THEN <<>> ELSE <<Literal(rest, FALSE)>>) \o Tail(word.segs)]>>)

ParseRedirect(t, c) ==
    LET token == t[c + 1]
        Target(word, to) == [fd |-> token.fd, op |-> token.op, word |-> word, to |-> to]
    IN  IF token.to # <<>> THEN Parsed(c + 1, Target(<<>>, token.to))
        ELSE IF Peek(t, c + 1) = "word" THEN Parsed(c + 2, Target(t[c + 2].segs, <<>>))
        ELSE Fail(Error(token.pos, "MissingRedirectTarget"))

\* The words and redirections of one command.
RECURSIVE Elements(_, _, _, _)
Elements(s, t, c, cmd) ==
    LET word == t[c + 1]
        Redirect(redirect) == IF redirect.err # Ok THEN redirect
                              ELSE Elements(s, t, redirect.cursor, [cmd EXCEPT !.redirects = Append(@, redirect.val)])
        Word(assign) == IF assign.err # Ok THEN assign
                        ELSE Elements(s, t, c + 1, IF assign.val # <<>> THEN [cmd EXCEPT !.assignments = @ \o assign.val]
                                                   ELSE [cmd EXCEPT !.words = Append(@, word.segs)])
    IN  CASE Peek(t, c) = "redirect" -> Redirect(ParseRedirect(t, c))
          [] Peek(t, c) = "word" -> Word(IF cmd.words = <<>> THEN AssignmentFromWord(s, word) ELSE Parsed(0, <<>>))
          [] OTHER -> Parsed(c, cmd)

IsPipelineNegation(token) == token.k = "word" /\ token.segs = <<Literal(<<"!">>, FALSE)>>
ParseCommand(s, t, c) ==
    IF Peek(t, c) \notin {"word", "redirect"} THEN Fail(Unexpected(s, t, c))
    ELSE IF IsPipelineNegation(t[c + 1]) THEN Fail(Error(t[c + 1].pos, "PipelineNegation"))
    ELSE Elements(s, t, c, [assignments |-> <<>>, words |-> <<>>, redirects |-> <<>>])

\* What has been parsed, followed by the rest.
Followed(val, rest) == IF rest.err # Ok THEN rest ELSE Parsed(rest.cursor, <<val>> \o rest.val)

RECURSIVE ParsePipeline(_, _, _)
ParsePipeline(s, t, c) ==
    LET From(first) ==
            IF first.err # Ok THEN first
            ELSE IF Peek(t, first.cursor) # "|" THEN Parsed(first.cursor, <<first.val>>)
            ELSE Followed(first.val, ParsePipeline(s, t, ConsumeNewlines(t, first.cursor + 1)))
    IN  From(ParseCommand(s, t, c))

\* An and-or list as the sequence of its pipelines, each with the operator before it.
RECURSIVE ParseAndOrList(_, _, _, _)
ParseAndOrList(s, t, c, op) ==
    LET Item(first) == [op |-> op, pipeline |-> first.val]
        From(first, next) ==
            IF first.err # Ok THEN first
            ELSE IF next \notin {"&&", "||"} THEN Parsed(first.cursor, <<Item(first)>>)
            ELSE Followed(Item(first), ParseAndOrList(s, t, ConsumeNewlines(t, first.cursor + 1), next))
        Joined(first) == From(first, Peek(t, first.cursor))
    IN  Joined(ParsePipeline(s, t, c))

-----------------------------------------------------------------------------
\* parse_program, and one round of its loop
ParseBegins(t) == Parsed(ConsumeNewlines(t, 0), <<>>)
ParseStep(s, t, p) ==
    LET After(list, next) ==
            IF list.err # Ok THEN list
            ELSE IF next \in {";", Newline} THEN Parsed(ConsumeNewlines(t, list.cursor + 1), Append(p.val, list.val))
            ELSE IF next # Eof THEN Fail(Unexpected(s, t, list.cursor)) ELSE Parsed(list.cursor, Append(p.val, list.val))
        Ended(list) == After(list, Peek(t, list.cursor))
    IN  Ended(ParseAndOrList(s, t, p.cursor, "first"))
RECURSIVE ParseFrom(_, _, _)
ParseFrom(s, t, p) == IF p.err # Ok \/ p.cursor >= Len(t) THEN p ELSE ParseFrom(s, t, ParseStep(s, t, p))
ParseTokens(s, l) == IF l.err # Ok THEN Fail(l.err) ELSE ParseFrom(s, l.tokens, ParseBegins(l.tokens))
Parse(s) == ParseTokens(s, Lex(s))
=============================================================================
