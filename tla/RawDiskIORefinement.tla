------------------------- MODULE RawDiskIORefinement -------------------------
(***************************************************************************)
(* RawDiskIO implements the regular store of module BlockStore: its        *)
(* content is what a request made now should see, its requests are the     *)
(* read and hash jobs under way.                                           *)
(***************************************************************************)
EXTENDS RawDiskIO

\* Cells of blocks all of whose file names can be parsed.
Good == {c \in Cell : \A loc \in Location : c \in BlockOf(loc) => BlockOf(loc) \cap BadName = {}}

\* A unit that arrived where another belongs is no value at all.
InPlace(unit, place, v) == IF unit = place THEN v ELSE <<"misplaced", v>>

Requested(j) ==
  IF seen[j] = {} THEN {}
  ELSE IF j \in ReadJob THEN Units(read[j].s, read[j].p, read[j].start, read[j].length)
       ELSE Units(hash[j].s, hash[j].p, 0, piece_size[hash[j].p])

ReadAnswer(r) ==
  IF r.stage \notin {"posted", "held"} THEN [kind |-> "none", data |-> {}]
  ELSE IF r.err THEN [kind |-> "error", data |-> {}]
  ELSE [kind |-> "data",
        data |-> {<<<<r.s, r.p, r.start + d[1]>>, InPlace(d[2], r.start + d[1], d[3])>> :
                    d \in r.data}]

HashAnswer(h) ==
  IF h.stage \notin {"posted", "handled"} THEN [kind |-> "none", data |-> {}]
  ELSE IF h.err THEN [kind |-> "error", data |-> {}]
  ELSE [kind |-> "data",
        data |-> {<<<<h.s, h.p, n - 1>>, InPlace(h.ph[n][1], n - 1, h.ph[n][2])>> :
                    n \in DOMAIN h.ph}]

\* A hash that got no buffer was never a request.
Answered(j) ==
  IF j \in ReadJob THEN ReadAnswer(read[j])
  ELSE HashAnswer(IF seen[j] = {} THEN Idle ELSE hash[j])

Contents == [c \in Good |-> Current(c)]
Requests == [j \in ReadJob \cup HashJob |-> Requested(j)]
Histories == [j \in ReadJob \cup HashJob |-> {x \in seen[j] : x[1] \in Good}]
Answers == [j \in ReadJob \cup HashJob |-> Answered(j)]

BS == INSTANCE BlockStore WITH
        Bad <- BadName, Block <- {BlockOf(loc) : loc \in Location}, Job <- ReadJob \cup HashJob,
        content <- Contents, request <- Requests, seen <- Histories, answer <- Answers

\* Reads and hashes that race with writes, their erasure from store_buffer_ and
\* each other return for every unit, in its place, a value the unit has held
\* since the call; they fail only over a file name that cannot be parsed.
ReadsAreRegular == BS!Spec
==============================================================================
