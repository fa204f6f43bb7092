------------------------------ MODULE Capture ------------------------------
(***************************************************************************)
(* Captured standard output and standard error (CaptureWriter, CappedOutput, *)
(* sandbox/mod.rs).  The stages of an execution append to one capture under  *)
(* its lock, and the result is taken from it when the script ends or the      *)
(* deadline passes, which may be while a stage still writes.  At most cap     *)
(* bytes are retained: past that, a head, a marker and a tail.              *)
(***************************************************************************)
EXTENDS Naturals, Sequences

CONSTANTS
    Byte,           \* the bytes a stage may write
    Caps,           \* the values of Limits::stdout_bytes
    Chunks,         \* the writes a stage may make
    MaxWritten,     \* bound on the bytes written
    Marker          \* TRUNCATION_MARKER

ASSUME CaptureAssumption ==
    /\ Caps \subseteq Nat
    /\ Chunks \subseteq Seq(Byte)
    /\ Marker \in Seq(Byte)
    /\ MaxWritten \in Nat

VARIABLES
    capture,        \* CappedOutput
    written         \* everything that was written, in the order of the lock

captureVars == <<capture, written>>

Keep(cap) == cap - Len(Marker)
HeadLength(cap) == Keep(cap) \div 2
TailLength(cap) == Keep(cap) - HeadLength(cap)

First(s, n) == SubSeq(s, 1, n)
Suffix(s, n) == SubSeq(s, Len(s) - n + 1, Len(s))

(* CappedOutput::new *)
NewCapture(cap) ==
    [cap |-> cap, total |-> 0, pre |-> <<>>, head |-> <<>>, tail |-> <<>>, truncated |-> FALSE]

CaptureInit ==
    /\ \E cap \in Caps : capture = NewCapture(cap)
    /\ written = <<>>

(* push_tail: the last limit bytes of what the tail held and the data.      *)
PushTail(tail, data, limit) ==
    IF limit = 0 THEN tail
    ELSE IF Len(data) >= limit THEN Suffix(data, limit)
    ELSE IF Len(tail) + Len(data) > limit THEN Suffix(tail, limit - Len(data)) \o data
    ELSE tail \o data

(* A slip: what was kept beyond the head is not handed to the tail.         *)
TruncateForgets(c, data) ==
    LET kept == c.pre \o First(data, c.cap - c.total)
    IN  [c EXCEPT !.truncated = TRUE, !.total = c.cap, !.pre = <<>>,
                  !.head = IF c.cap > Len(Marker) THEN First(kept, HeadLength(c.cap)) ELSE <<>>]

(* The write that does not fit: what was kept so far is split into the head  *)
(* and the first bytes of the tail.                                         *)
Truncate(c, data) ==
    LET kept == c.pre \o First(data, c.cap - c.total)
        h == HeadLength(c.cap)
        split == c.cap > Len(Marker)
    IN  [c EXCEPT !.truncated = TRUE,
                  !.total = c.cap,
                  !.pre = <<>>,
                  !.head = IF split THEN First(kept, h) ELSE <<>>,
                  !.tail = IF split
                           THEN PushTail(<<>>, Suffix(kept, c.cap - h), TailLength(c.cap))
                           ELSE <<>>]

(* Data that arrives after the truncation only moves the tail.              *)
Overflow(c, data) ==
    [c EXCEPT !.total = @ + Len(data),
              !.tail = IF c.cap > Len(Marker) THEN PushTail(@, data, TailLength(c.cap)) ELSE @]

(* CappedOutput::write *)
Captured(c, data) ==
    IF data = <<>> THEN c
    ELSE IF c.truncated THEN Overflow(c, data)
    ELSE IF Len(data) <= c.cap - c.total
    THEN [c EXCEPT !.pre = @ \o data, !.total = @ + Len(data)]
    ELSE Overflow(Truncate(c, data), Suffix(data, Len(data) - (c.cap - c.total)))

(* CappedOutput::finish *)
FinishCapture(c) ==
    IF ~c.truncated THEN [output |-> c.pre, truncated |-> FALSE]
    ELSE IF c.cap <= Len(Marker) THEN [output |-> Marker, truncated |-> TRUE]
    ELSE [output |-> c.head \o Marker \o c.tail, truncated |-> TRUE]

(* CaptureWriter::append: one poll_write of some stage.                     *)
AppendChunk(data) ==
    /\ Len(written) + Len(data) <= MaxWritten
    /\ capture' = Captured(capture, data)
    /\ written' = written \o data

CaptureNext == \E data \in Chunks : AppendChunk(data)

CaptureSpec == CaptureInit /\ [][CaptureNext]_captureVars

(*------------------------------- properties --------------------------------*)

(* What the result is to be, from the whole of what was written.            *)
CaptureReference(cap, text) ==
    IF Len(text) <= cap THEN [output |-> text, truncated |-> FALSE]
    ELSE IF cap <= Len(Marker) THEN [output |-> Marker, truncated |-> TRUE]
    ELSE [output |-> First(text, HeadLength(cap)) \o Marker \o Suffix(text, TailLength(cap)),
          truncated |-> TRUE]

(* CappedOutput retains no more than its cap, whichever stage writes. *)
CaptureTypeOK ==
    /\ capture.cap \in Caps
    /\ capture.total = Len(written)
    /\ Len(capture.pre) + Len(capture.head) + Len(capture.tail) <= capture.cap
    /\ capture.truncated \in BOOLEAN

(* Whenever the result is taken, and however the output was cut into writes,  *)
(* CappedOutput::finish returns all of it when it fits the limit, and else its *)
(* first bytes, the marker and its last bytes, as if it had been cut once from *)
(* the whole; and it says that it was truncated exactly when it was.        *)
CaptureWhole == FinishCapture(capture) = CaptureReference(capture.cap, written)
=============================================================================
