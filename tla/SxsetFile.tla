------------------------------ MODULE SxsetFile ------------------------------
(***************************************************************************)
(* The .sxset file of persist.go.  A file is a sequence of cells: the      *)
(* first stands for the 15 bytes "SXSET1" 'S' n, each of the others for    *)
(* the 8 bytes of one id.  A cell never written reads as zero bytes, which *)
(* is the id 0 in the body and is not a header in the first cell.          *)
(***************************************************************************)
EXTENDS Integers, Sequences

CONSTANT NoSet      \* ReadFile returned an error: there is no set to load

\* The header cell of a file of n ids; 0 is the hole, which has no magic.
Header(n) == n + 1

\* The bytes WriteFile produces for the ids of a set.
Encode(ids) == <<Header(Len(ids))>> \o ids

StrictlyIncreasing(ids) == \A i \in 2..Len(ids) : ids[i - 1] < ids[i]

\* A bug for the checks to find: the ids that are there are taken for the set.
ReadFileClamps(cells) ==
  IF cells = <<>> \/ cells[1] = 0 THEN NoSet
  ELSE SubSeq(cells, 2, IF cells[1] > Len(cells) THEN Len(cells) ELSE cells[1])

\* ReadFile: magic, then the count against the body, then the order of the
\* ids.  Bytes after the n-th id are ignored.
ReadFile(cells) ==
  LET n   == cells[1] - 1
      ids == SubSeq(cells, 2, n + 1)
  IN  IF cells = <<>> \/ n < 0 THEN NoSet
      ELSE IF n > Len(cells) - 1 THEN NoSet
      ELSE IF ~StrictlyIncreasing(ids) THEN NoSet
      ELSE ids

\* A write of `chunk` through a descriptor at offset `off` (in cells): other
\* cells keep what they held, and the gap past the end is a hole.
WriteAt(cells, off, chunk) ==
  LET end == off + Len(chunk)
  IN  [i \in 1..(IF Len(cells) > end THEN Len(cells) ELSE end) |->
         IF i > off /\ i <= end THEN chunk[i - off]
         ELSE IF i <= Len(cells) THEN cells[i] ELSE 0]
=============================================================================
