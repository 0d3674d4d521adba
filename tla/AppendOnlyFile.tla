--------------------------- MODULE AppendOnlyFile ---------------------------
(***************************************************************************)
(* What a writable file of the ZoAD environment promises about its         *)
(* contents, whatever buffer they pass through: they only ever grow at the *)
(* end, by the next bytes the writer handed over, until the file is        *)
(* deleted.  A byte is represented by its position in the file.            *)
(***************************************************************************)
EXTENDS Naturals, Sequences

CONSTANT MaxSize    \* bound: the size of a file

VARIABLES
    contents,       \* the bytes of the file, first to last
    removed         \* the file has been deleted

Init == contents = <<>> /\ removed = FALSE

(* The next k bytes arrive at the end.                                     *)
Extend ==
    /\ ~removed
    /\ \E k \in 1 .. MaxSize :
          contents' = contents \o [i \in 1 .. k |-> Len(contents) + i - 1]
    /\ UNCHANGED removed

Remove ==
    /\ ~removed
    /\ removed' = TRUE
    /\ contents' = <<>>

Next == Extend \/ Remove

Spec == Init /\ [][Next]_<<contents, removed>>
=============================================================================
