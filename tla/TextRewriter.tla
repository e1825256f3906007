---------------------------- MODULE TextRewriter ----------------------------
(***************************************************************************)
(* A file under the edits of a rewriter.  Places are offsets of the file   *)
(* as it was read; a list of deltas says where they have moved to.  The    *)
(* rewriter of clang keeps such a list and so, with the same arithmetic,   *)
(* does DeltaTrees.                                                        *)
(*                                                                         *)
(* A file is a sequence of tokens, each one cell wide; offsets count from  *)
(* zero.                                                                   *)
(***************************************************************************)
EXTENDS Integers, SequencesExt

Unedited(cells) == [cells |-> cells, deltas |-> <<>>]

\* Where an offset of the original is now, before or after what was inserted
\* at it.
MappedOffset(t, offset, afterInserts) ==
    FoldLeft(LAMBDA sum, d : IF d.at < 2 * offset + (IF afterInserts THEN 1 ELSE 0)
                             THEN sum + d.change ELSE sum,
             offset, t.deltas)

AddReplaceDelta(deltas, offset, change) == Append(deltas, [at |-> 2 * offset + 1, change |-> change])

\* The width of the tokens that begin at first up to the one that begins at last.
RangeSize(t, first, last) ==
    MappedOffset(t, last, TRUE) + 1 - MappedOffset(t, first, FALSE)

\* The tokens that are at the place of the old ones now make room, whether or
\* not they are the old ones.
ReplaceText(t, offset, size, new) ==
    LET now == MappedOffset(t, offset, TRUE)
    IN  [cells  |-> SubSeq(t.cells, 1, now) \o new
                        \o SubSeq(t.cells, now + size + 1, Len(t.cells)),
         deltas |-> IF size = Len(new) THEN t.deltas
                    ELSE AddReplaceDelta(t.deltas, offset, Len(new) - size)]

ReplaceRange(t, first, last, new) == ReplaceText(t, first, RangeSize(t, first, last), new)
=============================================================================
