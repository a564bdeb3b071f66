----------------------------- MODULE JsonLines -----------------------------
(***************************************************************************)
(* The files the batch programs append their records to and read again     *)
(* when they are restarted: one JSON object per line.  A write is object   *)
(* and newline together, but a crash or a full disk may cut it anywhere.   *)
(* The next record then goes on the same line, and neither can be read.    *)
(***************************************************************************)
EXTENDS Sequences, Naturals

\* How far a write comes: all of it; the object without its newline; a part of
\* the object; nothing.
Ends == {"line", "whole", "cut", "nothing"}

\* recs: the records on a line; whole: it is one record and complete.
\* open: the last line has no newline.
FileOf(Rec) ==
  [lines : Seq([recs : SUBSET Rec, whole : BOOLEAN]), open : BOOLEAN]

EmptyFile == [lines |-> <<>>, open |-> FALSE]

\* Mutant: json.dumps(record) without the newline.
appendNoNewline(f, r, end) ==
  IF end = "nothing" THEN f
  ELSE [lines |->
          IF f.open
          THEN [f.lines EXCEPT ![Len(f.lines)] =
                  [recs |-> @.recs \cup {r}, whole |-> FALSE]]
          ELSE Append(f.lines, [recs |-> {r}, whole |-> end # "cut"]),
        open |-> TRUE]

append(f, r, end) ==
  IF end = "nothing" THEN f
  ELSE [lines |->
          IF f.open
          THEN [f.lines EXCEPT ![Len(f.lines)] =
                  [recs |-> @.recs \cup {r}, whole |-> FALSE]]
          ELSE Append(f.lines, [recs |-> {r}, whole |-> end # "cut"]),
        open |-> end # "line"]

Readable(f)   == {i \in DOMAIN f.lines : f.lines[i].whole}
Unreadable(f) == DOMAIN f.lines \ Readable(f)
Recorded(f)   == UNION {f.lines[i].recs : i \in Readable(f)}
Spoiled(f)    == UNION {f.lines[i].recs : i \in Unreadable(f)}

=============================================================================
