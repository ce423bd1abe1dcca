--------------------------- MODULE MCIntegerValues ---------------------------
(***************************************************************************)
(* Words of six bits, and types of three and of six: one whose products    *)
(* fit in a word, as those of C's int do, and one that fills the word.     *)
(***************************************************************************)
EXTENDS IntegerValues

Instr(opcode, attributes, from, to) ==
    [opcode |-> opcode, attributes |-> attributes, from |-> from, to |-> to]
Widths == {3, 6}

\* All numbers of three bits, and those of six around 0 and the limits.
SomeLiterals ==
    {[word |-> n, width |-> 3] : n \in 0 .. 7}
    \cup {[word |-> n, width |-> 6] : n \in {0, 1, 2, 3, 31, 32, 33, 62, 63}}

Binary(w)   == {Instr(opcode, {}, w, w) : opcode \in BinaryOps}
NoWrap(w)   == {Instr(opcode, {"nuw"}, w, w) : opcode \in {"add", "sub", "mul"}}
Comparing(w) == {Instr(predicate, {}, w, 1) : predicate \in Predicates}

\* What works at every width.  The arithmetic shift of a whole word is left
\* out, and of the instructions that must not wrap only those are in it
\* whose overflow test is exact.
Correct ==
    (UNION {Binary(w) \cup NoWrap(w) \cup Comparing(w) : w \in Widths}
        \ {Instr("ashr", {}, 6, 6)})
    \cup {Instr("add", {"nsw"}, 3, 3), Instr("ashr", {"exact"}, 3, 3),
          Instr("trunc", {}, 6, 3), Instr("zext", {}, 1, 6)}

Multiplying   == {Instr("mul", {"nsw"}, 3, 3)}
SignExtending == {Instr("sext", {}, 3, 6)}

Direct == {Instr("not", {}, w, w) : w \in Widths}
          \cup {Instr(opcode, {}, 3, 6) : opcode \in {"zext", "sext"}}
=============================================================================
