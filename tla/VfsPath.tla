------------------------------- MODULE VfsPath -------------------------------
(* Path normalisation (src/vfs/path.rs).  A raw path is the sequence its     *)
(* slashes split it into, so an absolute path starts with an empty component.*)
EXTENDS Naturals, Sequences, SequencesExt

AddressMax == 4095        \* stands for u64::MAX

\* normalize_path: the components, or the error where ok is FALSE.
NormalizePath(raw, maxDepth) ==
    LET Step(acc, component) ==
            CASE ~acc.ok \/ component \in {"", "."} -> acc
              [] component = ".." -> [acc EXCEPT !.parts = IF @ = <<>> THEN @ ELSE Front(@)]
              [] Len(acc.parts) >= maxDepth -> [acc EXCEPT !.ok = FALSE]
              [] OTHER -> [acc EXCEPT !.parts = Append(@, component)]
    IN  IF raw = <<>> \/ raw[1] # "" THEN [ok |-> FALSE, parts |-> <<>>]
        ELSE FoldLeft(Step, [ok |-> TRUE, parts |-> <<>>], raw)
=============================================================================
