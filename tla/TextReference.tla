--------------------------- MODULE TextReference ---------------------------
(***************************************************************************)
(* What each text command is to print, defined on whole inputs rather than   *)
(* on the pieces they arrive in, and the comparison of TextTools with it.   *)
(***************************************************************************)
EXTENDS TextTools

(* The lines of a text with their endings.                                  *)
LinesOf(text) ==
    LET ends == {p \in DOMAIN text : text[p] = NewlineByte \/ p = Len(text)}
        before(p) == Max({0} \cup {q \in ends : q < p})
        nth(i) == CHOOSE p \in ends : Cardinality({q \in ends : q <= p}) = i
    IN  [i \in 1..Cardinality(ends) |-> SubSeq(text, before(nth(i)) + 1, nth(i))]

Fitting(lines) == {i \in 0..Len(lines) : \A k \in 1..i : Len(lines[k]) <= LineBytes}

(* The lines of an input that can be handed out before it fails, if it does. *)
Delivered(input) ==
    LET whole(lines) == SubSeq(lines, 1, Max(Fitting(lines)))
        ended(lines) == IF input.fails /\ lines # <<>> /\ ~HasNewline(Last(lines)) THEN Front(lines) ELSE lines
    IN  ended(whole(LinesOf(input.text)))

Complete(input) ==
    /\ input.kind \in {"stdin", "file"} /\ ~input.fails
    /\ Delivered(input) = LinesOf(input.text)

RECURSIVE Walked(_)
Walked(inputs) ==
    FlattenSeq([i \in DOMAIN inputs |->
        IF inputs[i].kind = "dir" THEN Walked(inputs[i].entries) ELSE <<inputs[i]>>])

Given(j) == IF j.tool = "grep" /\ j.flags.recursive THEN Walked(j.inputs) ELSE j.inputs

LastLines(lines, n) == SubSeq(lines, 1 + Max({0, Len(lines) - n}), Len(lines))

WindowFits(lines, n) ==
    \A k \in DOMAIN lines : Len(FlattenSeq(LastLines(SubSeq(lines, 1, k), n))) <= WindowBytes

(* Does this input end the command, or the reading of it, with an error?     *)
Fails(j, input) ==
    CASE input.kind \notin {"stdin", "file"} -> TRUE
      [] input.kind \in {"stdin", "file"} /\ (j.tool \in {"wc", "sort"}
                                              \/ (j.tool = "cat" /\ CatPlain(j.flags))) -> input.fails
      [] input.kind \in {"stdin", "file"} /\ j.tool = "head" ->
            ~Complete(input) /\ Len(Delivered(input)) < j.flags.lines
      [] input.kind \in {"stdin", "file"} /\ j.tool = "tail" ->
            \/ ~Complete(input)
            \/ ~j.flags.from /\ ~WindowFits(Delivered(input), j.flags.lines)
      [] OTHER -> ~Complete(input)

(* The inputs that are read at all: up to the first that fails, unless the   *)
(* command goes on after a failure.                                         *)
Used(j) ==
    LET until(given, failing) == IF failing = {} THEN given ELSE SubSeq(given, 1, Min(failing))
    IN  IF j.tool \in {"cat", "grep", "wc"} THEN Given(j)
        ELSE until(Given(j), {i \in DOMAIN Given(j) : Fails(j, Given(j)[i])})

Readable(inputs) == SelectSeq(inputs, LAMBDA input : input.kind \in {"stdin", "file"})

(* cat with options: a line is dropped when it and the one before are blank;  *)
(* the lines kept are numbered over all the inputs.                         *)
CatReference(flags, lines) ==
    LET blank(i) == lines[i] = <<NewlineByte>>
        kept(i) == ~(flags.squeeze /\ blank(i) /\ i > 1 /\ blank(i - 1))
        numbered(i) == IF flags.nonblank THEN ~blank(i) ELSE flags.number
        number(i) == Cardinality({k \in 1..i : kept(k) /\ numbered(k)})
        shown(i) == (IF numbered(i) THEN <<NumberCode(number(i)), TabByte>> ELSE <<>>)
                    \o (IF flags.ends /\ HasNewline(lines[i])
                        THEN Front(lines[i]) \o <<36, NewlineByte>> ELSE lines[i])
    IN  FlattenSeq([i \in DOMAIN lines |-> IF kept(i) THEN shown(i) ELSE <<>>])

GrepReference(j, input) ==
    LET lines == Delivered(input)
        label == IF j.flags.recursive \/ Len(j.inputs) > 1
                 THEN <<LabelCode(input), Colon>> ELSE <<>>
        hit(i) == (j.flags.pattern \in Range(LineText(lines[i]))) # j.flags.invert
        number(i) == IF j.flags.numbers THEN <<NumberCode(i), Colon>> ELSE <<>>
        hits == {i \in DOMAIN lines : hit(i)}
    IN  IF j.flags.count
        THEN IF Complete(input) THEN label \o <<NumberCode(Cardinality(hits)), NewlineByte>> ELSE <<>>
        ELSE FlattenSeq([i \in DOMAIN lines |->
                IF hit(i) THEN label \o number(i) \o LineText(lines[i]) \o <<NewlineByte>> ELSE <<>>])

(* uniq: a run begins where a line differs from the one before; the last run  *)
(* is known to be over only at the end of the input.                        *)
UniqRuns(flags, lines, complete) ==
    LET begins == {i \in DOMAIN lines : i = 1 \/ lines[i - 1] # lines[i]}
        ends(i) == Min({Len(lines) + 1} \cup {k \in begins : k > i}) - 1
        shown(i) == ends(i) < Len(lines) \/ complete
    IN  FlattenSeq([i \in DOMAIN lines |->
            IF i \in begins /\ shown(i) THEN UniqLine(flags, lines[i], ends(i) - i + 1) ELSE <<>>])
UniqReference(flags, input) ==
    UniqRuns(flags, [i \in DOMAIN Delivered(input) |-> LineText(Delivered(input)[i])], Complete(input))

SedReference(flags, line) ==
    LET places == {p \in DOMAIN line : line[p] = flags.pattern}
        chosen == IF flags.global \/ places = {} THEN places ELSE {Min(places)}
    IN  FlattenSeq([p \in DOMAIN line |->
            IF p \in chosen THEN SedReplacement(flags.with, <<line[p]>>) ELSE <<line[p]>>])

(* sort: the place of a line is the number of lines that come before it; of   *)
(* the lines -u takes for one, the first stays.                             *)
Bare(raw) == [i \in DOMAIN raw |-> IF HasNewline(raw[i]) THEN LineText(raw[i]) ELSE raw[i]]
SortReference(flags, lines) ==
    LET precedes(k, i) == \/ SortsBefore(flags, lines[k], lines[i])
                          \/ lines[k] = lines[i] /\ k < i
        kept == {i \in DOMAIN lines :
                    flags.unique => ~\E k \in DOMAIN lines :
                        SortsSame(flags, lines[k], lines[i]) /\ precedes(k, i)}
        nth(of, p) == lines[CHOOSE i \in of : 1 + Cardinality({k \in of : precedes(k, i)}) = p]
        printed(of, count) ==
            FlattenSeq([p \in 1..count |->
                nth(of, IF flags.reverse THEN count + 1 - p ELSE p) \o <<NewlineByte>>])
        all(of) == printed(of, Cardinality(of))
    IN  all(kept)

WordsOf(text) ==
    Cardinality({p \in DOMAIN text : text[p] \notin Whitespace /\ (p = 1 \/ text[p - 1] \in Whitespace)})

CountsOf(text) ==
    [lines |-> Cardinality({p \in DOMAIN text : text[p] = NewlineByte}),
     words |-> WordsOf(text), bytes |-> Len(text)]

(* The whole output of the command when nobody interferes.                  *)
Printed(j, used, inputs, good) ==
    LET each(f(_)) == FlattenSeq([i \in DOMAIN inputs |-> f(inputs[i])])
        headed(f(_)) ==
            FlattenSeq([i \in DOMAIN inputs |->
                (IF Len(j.inputs) = 1 THEN <<>>
                 ELSE (IF i > 1 THEN <<NewlineByte>> ELSE <<>>) \o <<HeaderCode(inputs[i]), NewlineByte>>)
                \o f(inputs[i])])
        counts == [i \in DOMAIN good |-> CountsOf(good[i].text)]
        sum(field(_)) == FoldLeft(LAMBDA n, c : n + field(c), 0, counts)
        text == each(LAMBDA input : input.text)
    IN  CASE j.tool = "cat" ->
                IF CatPlain(j.flags) THEN text
                ELSE CatReference(j.flags, FlattenSeq([i \in DOMAIN inputs |-> Delivered(inputs[i])]))
          [] j.tool = "head" ->
                headed(LAMBDA input :
                    FlattenSeq(SubSeq(Delivered(input), 1,
                                      Min({j.flags.lines, Len(Delivered(input))}))))
          [] j.tool = "tail" /\ j.flags.from ->
                headed(LAMBDA input :
                    FlattenSeq(SubSeq(Delivered(input), j.flags.lines, Len(Delivered(input)))))
          [] j.tool = "tail" /\ ~j.flags.from ->
                headed(LAMBDA input :
                    IF Fails(j, input) THEN <<>>
                    ELSE FlattenSeq(LastLines(Delivered(input), j.flags.lines)))
          [] j.tool = "grep" -> each(LAMBDA input : GrepReference(j, input))
          [] j.tool = "uniq" -> each(LAMBDA input : UniqReference(j.flags, input))
          [] j.tool = "sed" ->
                each(LAMBDA input :
                    FlattenSeq([i \in DOMAIN Delivered(input) |->
                                    SedReference(j.flags, Delivered(input)[i])]))
          [] j.tool = "wc" ->
                FlattenSeq([i \in DOMAIN good |-> CountsRow(counts[i], <<LabelCode(good[i])>>)])
                \o (IF Len(j.inputs) = 1 THEN <<>>
                    ELSE CountsRow([lines |-> sum(LAMBDA c : c.lines), words |-> sum(LAMBDA c : c.words),
                                    bytes |-> sum(LAMBDA c : c.bytes)], <<TotalName>>))
          [] j.tool = "sort" ->
                IF Len(good) < Len(used) \/ Len(text) > SortBytes THEN <<>>
                ELSE SortReference(j.flags, Bare(LinesOf(text)))
Output(j) ==
    LET given(used, inputs) == Printed(j, used, inputs, SelectSeq(inputs, LAMBDA input : ~Fails(j, input)))
        read(used) == given(used, Readable(used))
    IN  IF Refused(j) THEN <<>> ELSE read(Used(j))

StatusOf(j, given, fails) ==
    LET matches == \E i \in DOMAIN given : \E line \in Range(Delivered(given[i])) :
                      (j.flags.pattern \in Range(LineText(line))) # j.flags.invert
        size == FoldLeft(LAMBDA n, input : n + Len(input.text), 0, Readable(given))
    IN  CASE Refused(j) -> RefusedExit(j)
          [] ~Refused(j) /\ j.tool = "grep" -> IF fails THEN 2 ELSE IF matches THEN 0 ELSE 1
          [] ~Refused(j) /\ j.tool = "sort" -> IF fails \/ size > SortBytes THEN 2 ELSE 0
          [] ~Refused(j) /\ j.tool = "sed" -> IF fails THEN 2 ELSE 0
          [] OTHER -> IF fails THEN 1 ELSE 0
Status(j) == StatusOf(j, Given(j), \E i \in DOMAIN Given(j) : Fails(j, Given(j)[i]))

(*------------------------------- properties --------------------------------*)

(* The buffers of the readers stay within their limits.                      *)
TextTypeOK ==
    /\ tool.at \in {"begin", "next", "reading", "writing", "exited"}
    /\ tool.buffer.start <= tool.buffer.scanned
    /\ tool.buffer.scanned <= Len(tool.buffer.bytes)
    /\ Len(tool.buffer.bytes) - tool.buffer.start <= LineBytes + ChunkBytes
    /\ tool.exit \in {0, 1, 2, 124}
    /\ broken \in {"no", "pipe", "file"} /\ stopped \in BOOLEAN

(* However an input is cut into reads, and wherever it fails, a text command  *)
(* prints what its definition on whole inputs says and exits with the status  *)
(* that names the failure (read_line, cat_transform, head_tail_reader,        *)
(* grep_reader, uniq_reader, sed_reader, counts_reader, sort); and when the    *)
(* next stage leaves, the file of the output fails or the execution stops     *)
(* half way, status 0 still means that the output is whole.  wc alone does    *)
(* not look at its writes.                                                  *)
TextWhole ==
    tool.at = "exited" =>
        /\ (broken = "no" /\ ~stopped) \/ (tool.exit = 0 /\ job.tool # "wc") => tool.out = Output(job)
        /\ broken = "no" /\ ~stopped => tool.exit = Status(job)
=============================================================================
