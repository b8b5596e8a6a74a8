----------------------------- MODULE MCRequests -----------------------------
(* Instances of Requests whose argument sets are intervals. *)
EXTENDS Requests
Small == 0..223
AllSizes == 0..255
MCPlaces == {8 * k : k \in 1..16}
=============================================================================
