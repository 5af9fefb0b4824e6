--------------------------- MODULE MCClientBuffers ---------------------------
(* Small instances of ClientBuffers for TLC. *)
EXTENDS ClientBuffers

Image(in, out, inputs, used) == [in |-> in, out |-> out, inputs |-> inputs, used |-> used]
Reservation(in, out) == [in |-> in, out |-> out]

\* A small module, a larger one, one whose table declares more than it uses and
\* than the carveout has, and one without a table.
SomeImages == {Image(3, 1, 1, 1), Image(4, 2, 2, 2), Image(4, 6, 2, 1), Image(0, 0, 0, 1)}
SomeReservations == {Reservation(4, 1), Reservation(2, 3), Reservation(8, 8)}
=============================================================================
