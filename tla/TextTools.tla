------------------------------ MODULE TextTools ------------------------------
(***************************************************************************)
(* The commands that stream text: cat, head, tail, grep, uniq, sed, wc and  *)
(* sort (builtins.rs).  An input arrives in pieces of any size, lines are   *)
(* cut out of a buffer that is compacted between reads, and the reader of   *)
(* the output, the execution's deadline and each input may fail at any      *)
(* point.                                                                   *)
(*                                                                          *)
(* A byte is its code.  What the code formats (a line number, a file name,  *)
(* a count) is one code beyond the bytes, so that the output stays a        *)
(* sequence of codes.  A regular expression is one byte.                    *)
(***************************************************************************)
EXTENDS Integers, Sequences, SequencesExt, FiniteSetsExt, TLC

CONSTANTS
    Jobs,          \* the commands that may be run, with their inputs
    LineBytes,     \* MAX_STREAM_LINE_BYTES
    ChunkBytes,    \* the most one read of an input returns
    WindowBytes,   \* Limits::tail_input_bytes
    SortBytes,     \* Limits::sort_input_bytes
    SortStride     \* lines that sort writes between two checkpoints

VARIABLES
    job,           \* the command being run
    tool,          \* its state
    broken,        \* whether writes to its output fail, and how
    stopped        \* the execution is cancelled or past its deadline

textVars == <<job, tool, broken, stopped>>

NewlineByte == 10
ReturnByte == 13
TabByte == 9
SpaceByte == 32
Whitespace == {TabByte, NewlineByte, ReturnByte, SpaceByte}
Colon == 58

NumberCode(n) == 1000 + n
LabelCode(input) == 2000 + input.name
HeaderCode(input) == 3000 + input.name

TotalName == 99

(* LineBuffer: bytes from start on are unread, bytes before scanned hold no  *)
(* newline that was not yet handed out.                                     *)
NewLineBuffer == [bytes |-> <<>>, start |-> 0, scanned |-> 0, eof |-> FALSE]

(* What read_line does with the buffer it has: hands out a line, refuses one *)
(* that is too long, ends, or needs another read.                           *)
ReadLine(b) ==
    LET newlines == {p \in (b.scanned + 1)..Len(b.bytes) : b.bytes[p] = NewlineByte}
    IN  IF newlines # {}
        THEN LET end == Min(newlines)
             IN  IF end - b.start > LineBytes
                 THEN [is |-> "long", buffer |-> b]
                 ELSE [is |-> "line", line |-> SubSeq(b.bytes, b.start + 1, end),
                       buffer |-> [b EXCEPT !.start = end, !.scanned = end]]
        ELSE LET seen == [b EXCEPT !.scanned = Len(b.bytes)]
             IN  CASE Len(b.bytes) - b.start > LineBytes -> [is |-> "long", buffer |-> seen]
                   [] Len(b.bytes) - b.start <= LineBytes /\ ~b.eof ->
                        [is |-> "more", buffer |-> seen]
                   [] Len(b.bytes) - b.start <= LineBytes /\ b.eof /\ b.start = Len(b.bytes) ->
                        [is |-> "end", buffer |-> seen]
                   [] OTHER -> [is |-> "line", line |-> SubSeq(b.bytes, b.start + 1, Len(b.bytes)),
                                buffer |-> [seen EXCEPT !.start = Len(b.bytes)]]

(* A slip: the place up to which the buffer was searched is not moved.      *)
CompactUnmoved(b) ==
    [b EXCEPT !.bytes = SubSeq(b.bytes, b.start + 1, Len(b.bytes)), !.start = 0]

(* Before another read the lines already handed out are dropped.            *)
Compact(b) ==
    [b EXCEPT !.bytes = SubSeq(b.bytes, b.start + 1, Len(b.bytes)),
              !.scanned = b.scanned - b.start,
              !.start = 0]

(* The bytes a read returned; none at all is the end of the input.          *)
Refill(b, bytes) ==
    [Compact(b) EXCEPT !.bytes = @ \o bytes, !.eof = bytes = <<>>]

(* line_text_lossy: the line without its ending, CR included.               *)
LineText(line) ==
    LET strip(s, byte) == IF s # <<>> /\ Last(s) = byte THEN Front(s) ELSE s
    IN  strip(strip(line, NewlineByte), ReturnByte)

HasNewline(line) == line # <<>> /\ Last(line) = NewlineByte

(*----------------------------- one line of each ----------------------------*)

(* cat_transform on one line: c is its CatState.                            *)
CatTransform(flags, c, line) ==
    LET body == IF HasNewline(line) THEN Front(line) ELSE line
        blank == line = <<NewlineByte>>
        numbered == IF flags.nonblank THEN ~blank ELSE flags.number
    IN  IF flags.squeeze /\ blank /\ c.blank
        THEN [state |-> c, out |-> <<>>]
        ELSE [state |-> [line |-> IF numbered THEN c.line + 1 ELSE c.line, blank |-> blank],
              out |-> (IF numbered THEN <<NumberCode(c.line + 1), TabByte>> ELSE <<>>)
                      \o body
                      \o (IF HasNewline(line)
                          THEN (IF flags.ends THEN <<36>> ELSE <<>>) \o <<NewlineByte>>
                          ELSE <<>>)]

CatPlain(flags) == ~(flags.number \/ flags.nonblank \/ flags.squeeze \/ flags.ends)

(* A line leaves the front of tail's window.                                *)
PopLine(window) ==
    SubSeq(window, 1 + Min({p \in DOMAIN window : window[p] = NewlineByte}), Len(window))

(* write_uniq_line: a run of n equal lines.                                 *)
UniqLine(flags, text, n) ==
    IF (flags.repeated /\ n = 1) \/ (flags.unique /\ n # 1)
    THEN <<>>
    ELSE (IF flags.count THEN <<NumberCode(n), SpaceByte>> ELSE <<>>) \o text \o <<NewlineByte>>

(* write_sed_replacement: an ampersand is the match, a backslash quotes.    *)
SedReplacement(replacement, matched) ==
    LET step(acc, ch) ==
            CASE acc.quoted -> [quoted |-> FALSE,
                                out |-> Append(acc.out, CASE ch = 110 -> NewlineByte
                                                          [] ch = 116 -> TabByte
                                                          [] OTHER -> ch)]
              [] ~acc.quoted /\ ch = 92 -> [acc EXCEPT !.quoted = TRUE]
              [] ~acc.quoted /\ ch = 38 -> [acc EXCEPT !.out = @ \o matched]
              [] OTHER -> [acc EXCEPT !.out = Append(@, ch)]
        end == FoldLeft(step, [quoted |-> FALSE, out |-> <<>>], replacement)
    IN  IF end.quoted THEN Append(end.out, 92) ELSE end.out

(* validate_sed_replacement, for an expression without groups: the indexes   *)
(* of the groups the replacement names.                                     *)
SedReferences(replacement) ==
    LET step(acc, ch) ==
            IF acc.quoted THEN [quoted |-> FALSE, found |-> acc.found \cup ({ch} \cap 49..57)]
            ELSE [acc EXCEPT !.quoted = ch = 92]
    IN  FoldLeft(step, [quoted |-> FALSE, found |-> {}], replacement).found

(* sed_reader on one line: the first match, or every match, is replaced.    *)
SedLine(flags, line) ==
    LET body == IF HasNewline(line) THEN Front(line) ELSE line
        step(acc, byte) ==
            IF byte = flags.pattern /\ (flags.global \/ ~acc.done)
            THEN [done |-> TRUE, out |-> acc.out \o SedReplacement(flags.with, <<byte>>)]
            ELSE [acc EXCEPT !.out = Append(@, byte)]
    IN  FoldLeft(step, [done |-> FALSE, out |-> <<>>], body).out
        \o (IF HasNewline(line) THEN <<NewlineByte>> ELSE <<>>)

(* counts_reader over the bytes of one read.                                *)
Count(c, bytes) ==
    LET step(acc, byte) ==
            [acc EXCEPT !.bytes = @ + 1,
                        !.lines = IF byte = NewlineByte THEN @ + 1 ELSE @,
                        !.words = IF byte \notin Whitespace /\ ~acc.inWord THEN @ + 1 ELSE @,
                        !.inWord = byte \notin Whitespace]
    IN  FoldLeft(step, c, bytes)

NoCounts == [lines |-> 0, words |-> 0, bytes |-> 0, inWord |-> FALSE]

(* Counts::add_assign. *)
AddCounts(c, d) ==
    [lines |-> c.lines + d.lines, words |-> c.words + d.words,
     bytes |-> c.bytes + d.bytes, inWord |-> FALSE]

(* write_counts, with every column shown.                                   *)
CountsRow(c, label) ==
    <<NumberCode(c.lines), NumberCode(c.words), NumberCode(c.bytes)>> \o label \o <<NewlineByte>>

(*---------------------------------- sort -----------------------------------*)

(* The lines of the whole input: str::lines drops a CR only before a newline. *)
TextLines(text) ==
    LET ends == {p \in DOMAIN text : text[p] = NewlineByte}
        begins == {1} \cup {p + 1 : p \in ends}
        lineAt(p) == IF \E e \in ends : e >= p
                     THEN LineText(SubSeq(text, p, Min({e \in ends : e >= p})))
                     ELSE SubSeq(text, p, Len(text))
        starts == SetToSortSeq({p \in begins : p <= Len(text)}, <)
    IN  [i \in DOMAIN starts |-> lineAt(starts[i])]

Lexicographic(s, t) ==
    \/ IsStrictPrefix(s, t)
    \/ \E i \in DOMAIN s \cap DOMAIN t :
          s[i] < t[i] /\ SubSeq(s, 1, i - 1) = SubSeq(t, 1, i - 1)

(* numeric_key: leading blanks, a sign, digits and a fraction; a line without  *)
(* a digit before the dot counts 0.  The key is the number in units of the    *)
(* last decimal place, moved down by one for a line with a minus sign: that   *)
(* is the order of total_cmp, in which -0 comes before 0.                   *)
DecimalPlaces == 2      \* bound: digits of a fraction
LeadingIn(set, s) == Max({0} \cup {p \in DOMAIN s : \A q \in 1..p : s[q] \in set})
Leading(set, s) == SubSeq(s, 1, LeadingIn(set, s))
After(n, s) == SubSeq(s, n + 1, Len(s))
NumericKey(line) ==
    LET digit == 48..57
        value(digits) == FoldLeft(LAMBDA v, d : 10 * v + (d - 48), 0, digits)
        padded(digits) == [i \in 1..DecimalPlaces |-> IF i \in DOMAIN digits THEN digits[i] ELSE 48]
        fraction(s) == padded(IF s # <<>> /\ Head(s) = 46 THEN Leading(digit, Tail(s)) ELSE <<>>)
        units(s) == value(Leading(digit, s) \o fraction(After(LeadingIn(digit, s), s)))
        signed(minus, s) ==
            IF LeadingIn(digit, s) = 0 THEN 0 ELSE IF minus THEN -1 - units(s) ELSE units(s)
        key(s) == IF s # <<>> /\ Head(s) \in {43, 45} THEN signed(Head(s) = 45, Tail(s))
                  ELSE signed(FALSE, s)
    IN  key(After(LeadingIn(Whitespace, line), line))

SortsBefore(flags, s, t) ==
    LET ordered(m, n) == m < n \/ (m = n /\ Lexicographic(s, t))
    IN  IF flags.numeric THEN ordered(NumericKey(s), NumericKey(t)) ELSE Lexicographic(s, t)

SortsSame(flags, s, t) ==
    IF flags.numeric THEN NumericKey(s) = NumericKey(t) ELSE s = t

SortLines(flags, text) ==
    LET before(s, t) == SortsBefore(flags, s, t)
        same(s, t) == SortsSame(flags, s, t)
        dedup(acc, line) ==
            IF flags.unique /\ acc # <<>> /\ same(Last(acc), line) THEN acc ELSE Append(acc, line)
        turned(lines) == IF flags.reverse THEN Reverse(lines) ELSE lines
    IN  turned(FoldLeft(dedup, <<>>, SortSeq(TextLines(text), before)))

(*------------------------------ the commands -------------------------------*)

NoInput == [kind |-> "none", name |-> 0, text |-> <<>>, fails |-> FALSE, entries |-> <<>>]

Fresh(j) ==
    [at |-> "begin", roots |-> j.inputs, dirs |-> <<>>, input |-> NoInput, rest |-> <<>>,
     index |-> 0, buffer |-> NewLineBuffer, cat |-> [line |-> 0, blank |-> FALSE],
     seen |-> 0, window |-> <<>>, run |-> 0, matched |-> FALSE, counts |-> NoCounts,
     total |-> NoCounts, rows |-> <<>>, sorted |-> <<>>,
     out |-> <<>>, failed |-> FALSE, exit |-> 0]

TextInit ==
    /\ job \in Jobs
    /\ tool = Fresh(job)
    /\ broken = "no"
    /\ stopped = FALSE

Exits(t, code) == [t EXCEPT !.at = "exited", !.exit = code]

(* An input could not be opened or read: cat, grep and wc report it and go on *)
(* with the next, the others stop.                                          *)
InputFails(t) ==
    CASE job.tool \in {"cat", "grep", "wc"} ->
            [t EXCEPT !.at = "next", !.failed = TRUE, !.exit = 1]
      [] job.tool \in {"head", "tail", "uniq"} -> Exits(t, 1)
      [] job.tool = "sed" -> Exits(t, 2)
      [] job.tool = "sort" -> Exits(t, IF stopped THEN 124 ELSE 2)

(* A write of nothing succeeds whatever happened to the output.  A broken     *)
(* pipe ends the command; any other failure, that of the file the output is   *)
(* redirected to, is reported as one of the input (report_stream_error),     *)
(* except by sort, which ends on either.                                    *)
Writes(t, bytes) ==
    CASE bytes = <<>> \/ broken = "no" -> [t EXCEPT !.out = @ \o bytes]
      [] bytes # <<>> /\ (broken = "pipe" \/ (broken = "file" /\ job.tool = "sort")) -> Exits(t, 1)
      [] OTHER -> InputFails(t)

(* Standard input read because no file was named, not for an argument "-".  *)
Implicit(input) == input.kind = "stdin" /\ input.name = 0

(* The arguments a command does not accept: an option it does not know (head,  *)
(* tail and uniq take "-" for one), a reference to a group the expression     *)
(* does not have, a second file for uniq.                                   *)
Refused(j) ==
    \/ j.unknown
    \/ /\ j.tool \in {"head", "tail", "uniq"}
       /\ \E i \in DOMAIN j.inputs : j.inputs[i].kind = "stdin" /\ ~Implicit(j.inputs[i])
    \/ j.tool = "sed" /\ SedReferences(j.flags.with) # {}
    \/ j.tool = "uniq" /\ Len(j.inputs) > 1

RefusedExit(j) == IF j.tool \in {"grep", "sort"} THEN 2 ELSE 1

(* The arguments are read first, and a command that does not accept them      *)
(* leaves without opening anything.                                         *)
Begin ==
    /\ tool.at = "begin"
    /\ tool' = IF Refused(job) THEN Exits(tool, RefusedExit(job)) ELSE [tool EXCEPT !.at = "next"]
    /\ UNCHANGED <<job, broken, stopped>>

(* GrepInputs::next: the entries of the innermost open directory, then the   *)
(* remaining roots; only grep walks directories.                            *)
Pending(t) == t.dirs # <<>> \/ t.roots # <<>>
NextOf(t) == IF t.dirs # <<>> THEN Head(Last(t.dirs)) ELSE Head(t.roots)
Advance(t) ==
    IF t.dirs # <<>>
    THEN [t EXCEPT !.dirs = Append(Front(@), Tail(Last(@)))]
    ELSE [t EXCEPT !.roots = Tail(@)]

LeaveDirectory ==
    /\ tool.at = "next" /\ tool.dirs # <<>> /\ Last(tool.dirs) = <<>>
    /\ tool' = [tool EXCEPT !.dirs = Front(@)]
    /\ UNCHANGED <<job, broken, stopped>>

(* What stream_reader finds: nothing once the execution stopped, an error for *)
(* a missing file or a directory; standard input is always there.           *)
Opens(input) ==
    \/ input.kind = "stdin"
    \/ input.kind = "file" /\ ~stopped

(* head and tail put a header before each input when there are several.     *)
Header(t, input) ==
    IF job.tool \in {"head", "tail"} /\ Len(job.inputs) > 1
    THEN (IF t.index > 0 THEN <<NewlineByte>> ELSE <<>>) \o <<HeaderCode(input), NewlineByte>>
    ELSE <<>>

StartReading(t, input) ==
    Writes([t EXCEPT !.at = "reading", !.input = input, !.rest = input.text,
                     !.index = @ + 1, !.buffer = NewLineBuffer, !.seen = 0, !.run = 0,
                     !.window = <<>>, !.counts = NoCounts],
           Header(t, input))

NextInput ==
    /\ tool.at = "next" /\ Pending(tool)
    /\ tool.dirs # <<>> => Last(tool.dirs) # <<>>
    /\ LET input == NextOf(tool)
           t == Advance(tool)
           walks == job.tool = "grep" /\ job.flags.recursive
       IN  tool' = IF job.tool = "grep" /\ stopped /\ ~Implicit(input) THEN Exits(t, 124)
                   ELSE IF Opens(input) THEN StartReading(t, input)
                   ELSE IF walks /\ input.kind = "dir"
                   THEN [t EXCEPT !.dirs = Append(@, input.entries)]
                   ELSE InputFails(t)
    /\ UNCHANGED <<job, broken, stopped>>

(* The bytes kept between two lines belong to one of the line readers.      *)
ByLine == job.tool \notin {"wc", "sort"} /\ ~(job.tool = "cat" /\ CatPlain(job.flags))

(* head stops reading as soon as it has its lines.                          *)
HeadDone == job.tool = "head" /\ tool.seen = job.flags.lines

(* grep_reader on one line. *)
GrepLine(t, line) ==
    LET text == LineText(line)
        matches == (job.flags.pattern \in Range(text)) # job.flags.invert
        label == IF job.flags.recursive \/ Len(job.inputs) > 1
                 THEN <<LabelCode(t.input), Colon>> ELSE <<>>
        n == [t EXCEPT !.seen = @ + 1]
    IN  CASE ~matches -> n
          [] matches /\ job.flags.count -> [n EXCEPT !.run = @ + 1]
          [] OTHER -> Writes([n EXCEPT !.run = @ + 1],
                             label \o (IF job.flags.numbers THEN <<NumberCode(n.seen), Colon>>
                                       ELSE <<>>) \o text \o <<NewlineByte>>)

(* tail's window: the oldest line leaves when there are enough.             *)
TailLine(t, line) ==
    LET window == IF t.seen = job.flags.lines THEN PopLine(t.window) ELSE t.window
    IN  CASE job.flags.lines = 0 -> t
          [] job.flags.lines > 0 /\ Len(window) + Len(line) > WindowBytes -> InputFails(t)
          [] OTHER -> [t EXCEPT !.window = window \o line,
                                !.seen = IF @ = job.flags.lines THEN @ ELSE @ + 1]

(* uniq_reader: equal neighbours are counted, the run is written when it ends. *)
UniqNext(t, line) ==
    LET text == LineText(line)
    IN  CASE t.run > 0 /\ t.window = text -> [t EXCEPT !.run = @ + 1]
          [] t.run > 0 /\ t.window # text ->
                Writes([t EXCEPT !.window = text, !.run = 1],
                       UniqLine(job.flags, t.window, t.run))
          [] OTHER -> [t EXCEPT !.window = text, !.run = 1]

HandleLine(t, line) ==
    CASE job.tool = "cat" ->
            LET c == CatTransform(job.flags, t.cat, line)
            IN  Writes([t EXCEPT !.cat = c.state], c.out)
      [] job.tool = "head" -> Writes([t EXCEPT !.seen = @ + 1], line)
      [] job.tool = "tail" /\ ~job.flags.from -> TailLine(t, line)
      [] job.tool = "tail" /\ job.flags.from ->
            Writes([t EXCEPT !.seen = @ + 1],
                   IF t.seen + 1 >= job.flags.lines THEN line ELSE <<>>)
      [] job.tool = "grep" -> GrepLine(t, line)
      [] job.tool = "uniq" -> UniqNext(t, line)
      [] job.tool = "sed" -> Writes(t, SedLine(job.flags, line))

(* A line is in the buffer: it is handed to the command.                    *)
TakeLine ==
    /\ tool.at = "reading" /\ ByLine /\ ~HeadDone
    /\ LET r == ReadLine(tool.buffer)
       IN  /\ r.is = "line"
           /\ tool' = HandleLine([tool EXCEPT !.buffer = r.buffer], r.line)
    /\ UNCHANGED <<job, broken, stopped>>

LineTooLong ==
    /\ tool.at = "reading" /\ ByLine /\ ~HeadDone
    /\ ReadLine(tool.buffer).is = "long"
    /\ tool' = InputFails(tool)
    /\ UNCHANGED <<job, broken, stopped>>

(* The bytes of one read go to the line buffer, or to the command.  sort      *)
(* asks for one byte more than it has room for.                             *)
Asks == IF job.tool = "sort" THEN Min({ChunkBytes, SortBytes - Len(tool.sorted) + 1})
        ELSE ChunkBytes

Received(t, bytes) ==
    CASE ByLine -> [t EXCEPT !.buffer = Refill(ReadLine(t.buffer).buffer, bytes)]
      [] job.tool = "cat" /\ ~ByLine -> Writes(t, bytes)
      [] job.tool = "wc" -> [t EXCEPT !.counts = Count(@, bytes)]
      [] job.tool = "sort" -> IF Len(bytes) > SortBytes - Len(t.sorted)
                              THEN InputFails(t)
                              ELSE [t EXCEPT !.sorted = @ \o bytes]

Wants ==
    /\ tool.at = "reading"
    /\ ByLine => ~HeadDone /\ ReadLine(tool.buffer).is = "more"

(* FsStreamReader: a read returns some of the bytes that are left, or fails   *)
(* once the execution stopped; standard input does not notice.              *)
ReadFailsNow ==
    \/ tool.input.kind = "file" /\ stopped
    \/ tool.rest = <<>> /\ tool.input.fails

ReadChunk ==
    /\ Wants /\ tool.rest # <<>> /\ ~(job.tool = "sort" /\ stopped)
    /\ \E n \in 1..Min({Asks, Len(tool.rest)}) :
          tool' = Received([tool EXCEPT !.rest = SubSeq(@, n + 1, Len(@))],
                           SubSeq(tool.rest, 1, n))
    /\ UNCHANGED <<job, broken, stopped>>

(* A stopped sort leaves at its next checkpoint, whatever it reads from.    *)
ReadFails ==
    /\ Wants /\ (ReadFailsNow \/ (job.tool = "sort" /\ stopped))
    /\ tool' = InputFails(tool)
    /\ UNCHANGED <<job, broken, stopped>>

(* What the reader of one input leaves when the input ends.                 *)
InputEnds(t) ==
    CASE job.tool = "grep" ->
            LET label == IF job.flags.recursive \/ Len(job.inputs) > 1
                         THEN <<LabelCode(t.input), Colon>> ELSE <<>>
            IN  Writes([t EXCEPT !.matched = @ \/ t.run > 0],
                       IF job.flags.count THEN label \o <<NumberCode(t.run), NewlineByte>> ELSE <<>>)
      [] job.tool = "tail" /\ ~job.flags.from -> Writes(t, t.window)
      [] job.tool = "uniq" ->
            IF t.run > 0 THEN Writes(t, UniqLine(job.flags, t.window, t.run)) ELSE t
      [] job.tool = "wc" ->
            [t EXCEPT !.total = AddCounts(@, t.counts),
                      !.rows = Append(@, [counts |-> t.counts, name |-> <<LabelCode(t.input)>>])]
      [] OTHER -> t

ToNext(t) == IF t.at = "reading" THEN [t EXCEPT !.at = "next"] ELSE t

(* The input ended (for the line readers a read of nothing was seen before,   *)
(* and the rest of the buffer was handed out), or head has what it wants.   *)
EndInput ==
    /\ tool.at = "reading"
    /\ \/ ByLine /\ HeadDone
       \/ ByLine /\ ~HeadDone /\ ReadLine(tool.buffer).is = "end"
       \/ ~ByLine /\ tool.rest = <<>> /\ ~ReadFailsNow /\ ~(job.tool = "sort" /\ stopped)
    /\ tool' = ToNext(InputEnds(tool))
    /\ UNCHANGED <<job, broken, stopped>>

(* The read that returns nothing to a line reader.                          *)
EndOfFile ==
    /\ Wants /\ ByLine /\ tool.rest = <<>> /\ ~ReadFailsNow
    /\ tool' = Received(tool, <<>>)
    /\ UNCHANGED <<job, broken, stopped>>

(* Every input was read.  wc prints its rows and does not look at whether     *)
(* that worked; sort starts to write unless the execution stopped.          *)
AllRead ==
    /\ tool.at = "next" /\ ~Pending(tool)
    /\ LET rows == IF Len(job.inputs) > 1
                   THEN Append(tool.rows, [counts |-> tool.total, name |-> <<TotalName>>])
                   ELSE tool.rows
           printed == FlattenSeq([i \in DOMAIN rows |-> CountsRow(rows[i].counts, rows[i].name)])
       IN  tool' = CASE job.tool = "grep" ->
                          Exits(tool, IF tool.failed THEN 2 ELSE IF tool.matched THEN 0 ELSE 1)
                     [] job.tool = "wc" ->
                          Exits([tool EXCEPT !.out = IF broken = "no" THEN @ \o printed ELSE @], tool.exit)
                     [] job.tool = "sort" ->
                          IF stopped THEN Exits(tool, 124)
                          ELSE [tool EXCEPT !.at = "writing",
                                            !.rows = SortLines(job.flags, tool.sorted)]
                     [] OTHER -> Exits(tool, tool.exit)
    /\ UNCHANGED <<job, broken, stopped>>

(* One line of sort's output. *)
SortWrites ==
    /\ tool.at = "writing"
    /\ tool' = IF tool.seen = Len(tool.rows) THEN Exits(tool, 0)
               ELSE IF tool.seen % SortStride = 0 /\ stopped THEN Exits(tool, 124)
               ELSE Writes([tool EXCEPT !.seen = @ + 1],
                           tool.rows[tool.seen + 1] \o <<NewlineByte>>)
    /\ UNCHANGED <<job, broken, stopped>>

(* Around the command: the next stage goes away, the file of the output       *)
(* fails and stays failed (RedirectFile), the deadline passes.              *)
ReaderLeaves ==
    /\ tool.at # "exited" /\ broken = "no" /\ job.faults
    /\ broken' = "pipe"
    /\ UNCHANGED <<job, tool, stopped>>

OutputFails ==
    /\ tool.at # "exited" /\ broken = "no" /\ job.faults
    /\ broken' = "file"
    /\ UNCHANGED <<job, tool, stopped>>

Stop ==
    /\ tool.at # "exited" /\ ~stopped /\ job.faults
    /\ stopped' = TRUE
    /\ UNCHANGED <<job, tool, broken>>

TextDone ==
    /\ tool.at = "exited"
    /\ UNCHANGED textVars

TextNext ==
    \/ Begin \/ LeaveDirectory \/ NextInput \/ TakeLine \/ LineTooLong
    \/ ReadChunk \/ ReadFails \/ EndInput \/ EndOfFile \/ AllRead \/ SortWrites
    \/ ReaderLeaves \/ OutputFails \/ Stop \/ TextDone

TextSpec == TextInit /\ [][TextNext]_textVars
=============================================================================
