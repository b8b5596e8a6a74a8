------------------------------- MODULE Chunks -------------------------------
(***************************************************************************)
(* Boundary tags.  The heap's memory is a partial function from chunk      *)
(* addresses to headers: the size, the two flag bits packed in `head`      *)
(* (PINUSE: the chunk before is in use; CINUSE: this one is), and          *)
(* prev_foot, the word a FREE predecessor leaves its size in.              *)
(*                                                                         *)
(* Two abstractions, both on the side of the client.  A header strictly    *)
(* inside a chunk is forgotten as soon as the chunk is written, because    *)
(* that place is payload from then on and may hold anything: the model     *)
(* never lets the allocator find an old header there.  And prev_foot is 0  *)
(* while PINUSE is set, because the word belongs to the chunk before.      *)
(* mmapped chunks (neither bit set) do not exist: nothing in the Rust port *)
(* creates one.                                                            *)
(***************************************************************************)
EXTENDS Sizes

Headers == [size : Int, pinuse : BOOLEAN, cinuse : BOOLEAN, prev_foot : Int]

\* What a read returns where no header was written.
Garbage == [size |-> 0, pinuse |-> FALSE, cinuse |-> FALSE, prev_foot |-> 0]

HeaderAt(m, a) == IF a \in DOMAIN m THEN m[a] ELSE Garbage

next_of(m, a) == a + HeaderAt(m, a).size
cinuse(m, a) == HeaderAt(m, a).cinuse
pinuse(m, a) == HeaderAt(m, a).pinuse
inuse(m, a) == ~ (pinuse(m, a) /\ ~ cinuse(m, a))

\* Overwrite one header.
Put(m, a, h) == [x \in DOMAIN m \cup {a} |-> IF x = a THEN h ELSE m[x]]

\* (*me).head = size | flags: the chunk [me, me + size) becomes one chunk.
SetHead(m, me, size, pin, cin) ==
  [x \in {y \in DOMAIN m : y <= me \/ y >= me + size} \cup {me} |->
     IF x = me
     THEN [HeaderAt(m, me) EXCEPT !.size = size, !.pinuse = pin, !.cinuse = cin]
     ELSE m[x]]

\* (*me).head |= PINUSE
mark_pinuse(m, me) == Put(m, me, [HeaderAt(m, me) EXCEPT !.pinuse = TRUE, !.prev_foot = 0])

clear_pinuse(m, me) == Put(m, me, [HeaderAt(m, me) EXCEPT !.pinuse = FALSE])

set_foot(m, me, size) ==
  Put(m, me + size, [HeaderAt(m, me + size) EXCEPT !.prev_foot = size])

set_inuse(m, me, size) ==
  mark_pinuse(SetHead(m, me, size, pinuse(m, me), TRUE), me + size)

set_inuse_and_pinuse(m, me, size) ==
  mark_pinuse(SetHead(m, me, size, TRUE, TRUE), me + size)

set_size_and_pinuse_of_inuse_chunk(m, me, size) == SetHead(m, me, size, TRUE, TRUE)

set_size_and_pinuse_of_free_chunk(m, me, size) ==
  set_foot(SetHead(m, me, size, TRUE, FALSE), me, size)

set_free_with_pinuse(m, p, size, n) ==
  set_size_and_pinuse_of_free_chunk(clear_pinuse(m, n), p, size)
=============================================================================
