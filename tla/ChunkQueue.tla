----------------------------- MODULE ChunkQueue -----------------------------
(***************************************************************************)
(* What CaptureStream's queue promises its two threads: a bounded first-in *)
(* first-out queue that drops its oldest chunk rather than make the writer *)
(* wait, and that remembers in one flag that the next chunk follows a gap. *)
(* CaptureStream implements it with a ring of slots and two indices.       *)
(***************************************************************************)
EXTENDS Integers, Sequences

CONSTANTS
  Capacity,  \* how many chunks fit
  Chunks     \* the chunks there are

VARIABLES
  entries,  \* the queued chunks, oldest first
  pending   \* the next chunk follows a gap

Entry == [chunk : Chunks, gapped : BOOLEAN]

Init == entries = << >> /\ pending = FALSE

Full == Len(entries) = Capacity

Put ==
  \E c \in Chunks, g \in BOOLEAN :
    LET e == [chunk |-> c, gapped |-> Full \/ pending \/ g] IN
    /\ entries' = Append(IF Full THEN Tail(entries) ELSE entries, e)
    /\ pending' = FALSE

Take ==
  /\ entries # << >>
  /\ entries' = Tail(entries)
  /\ UNCHANGED pending

Clear ==
  /\ entries # << >>
  /\ entries' = << >>
  /\ pending' = TRUE

Mark ==
  /\ pending' = TRUE
  /\ UNCHANGED entries

Next == Put \/ Take \/ Clear \/ Mark

Spec == Init /\ [][Next]_<<entries, pending>>
=============================================================================
