------------------------------ MODULE MCManager ------------------------------
(* Instances of Manager for TLC: one client and one worker section, and the   *)
(* configurations between which a team really moves.                          *)
EXTENDS Manager, TLC

CONSTANTS c1, w1, i1, i2

Absent == [known |-> FALSE, count |-> 0, image |-> i1, client |-> NoClient,
           rw |-> FALSE, typed |-> TRUE]
Section(count, image) == [Absent EXCEPT !.known = TRUE, !.count = count, !.image = image]
Attached(section, client) == [section EXCEPT !.client = client]

MCEmpty == [u \in {c1, w1} |-> Absent]
Pair(c, w) == (c1 :> c) @@ (w1 :> w)

(* A client and a worker in it; the worker alone; the worker in a client that *)
(* the config forgot; the first pair with new images and a volume.            *)
Together == Pair(Section(1, i1), Attached(Section(1, i1), c1))
Alone == Pair(Absent, Section(1, i1))
Dangling == Pair(Absent, Attached(Section(1, i1), c1))
NewImages == Pair([Section(1, i2) EXCEPT !.rw = TRUE], Attached(Section(1, i2), c1))
Typeless == Pair(Section(1, i1), [Attached(Section(1, i1), c1) EXCEPT !.typed = FALSE])
Scaled == Pair(Section(0, i1), Section(0, i1))

MCConfigs == {MCEmpty, Together, Alone, Dangling, NewImages, Typeless, Scaled}

=============================================================================
